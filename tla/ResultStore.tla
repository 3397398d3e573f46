------------------------------ MODULE ResultStore ------------------------------
(* The result store of src/src/storage.ts: an index in memory, index.json and  *)
(* one blob file per result. Every step ends at an await, so calls interleave   *)
(* there. An id stands for its entry; ages are positions in `born`.             *)
EXTENDS Naturals, FiniteSets, SequencesExt

CONSTANTS
  Storers,      \* calls of storeResult, each named by the id it creates
  Readers,      \* calls of getResult
  Old,          \* ids an earlier process left in index.json
  None,
  MaxResults,   \* MAX_RESULTS
  Concurrent,   \* calls that run at the same time: a bound of the model
  MaxRestarts,  \* restarts: a bound of the model
  Kills,        \* TRUE: a process may end in the middle of a call
  DiskFails,    \* the file operations that may fail
  Loaded        \* TRUE: a call has loaded the index before the first step

Callers == Storers \union Readers
Ids == Storers \union Old
Boot == "boot"

VARIABLES
  pc,        \* where each call awaits
  want,      \* the id a reader asks for, the id a storer evicts
  index,     \* _index: the call whose loadIndex made the Map, or None
  held,      \* the Map the call works on, named the same way
  maps,      \* the ids in each Map
  born,      \* ids in the order of createdAt
  snap,      \* the ids a save has serialised
  blobs,     \* ids whose blob file exists
  disk,      \* index.json: the ids in it, and whether it is one whole JSON text
  expired,   \* ids whose expiresAt has passed
  returned,  \* ids that storeResult has returned
  dropped,   \* ids that left an index: evicted, expired or unreadable
  restarts

vars == <<pc, want, index, held, maps, born, snap, blobs, disk, expired,
          returned, dropped, restarts>>
callVars == <<want, index, held, maps, snap>>
fileVars == <<blobs, disk>>
pastVars == <<expired, returned, dropped, restarts>>

Whole(ids) == [ids |-> ids, whole |-> TRUE]
Empty == [ids |-> {}, whole |-> FALSE]
Torn(ids) == [ids |-> ids, whole |-> FALSE]
Handles == Callers \union {Boot}

Init ==
  /\ pc = [c \in Callers |-> "idle"]
  /\ want = [c \in Callers |-> None]
  /\ index = IF Loaded THEN Boot ELSE None
  /\ held = [c \in Callers |-> None]
  /\ maps = [h \in Handles |-> IF Loaded /\ h = Boot THEN Old ELSE {}]
  /\ born = SetToSeq(Old)
  /\ snap = [c \in Callers |-> {}]
  /\ blobs = Old /\ disk = Whole(Old)
  /\ expired = {} /\ returned = Old /\ dropped = {} /\ restarts = 0

Running == {c \in Callers : pc[c] \notin {"idle", "done", "dead"}}
At(c, here, there) == pc[c] = here /\ pc' = [pc EXCEPT ![c] = there]

\* A call ends: what it held is garbage.
End(c) ==
  /\ pc' = [pc EXCEPT ![c] = "done"]
  /\ want' = [want EXCEPT ![c] = None] /\ held' = [held EXCEPT ![c] = None]
  /\ snap' = [snap EXCEPT ![c] = {}]
  /\ UNCHANGED <<index, maps>>

---------------------------------------------------------------------------
(* loadIndex *)

\* A call starts; with the index in memory it goes on at once.
Start(c) ==
  /\ Cardinality(Running) < Concurrent
  /\ At(c, "idle", IF index = None THEN "load" ELSE "loaded")
  /\ held' = [held EXCEPT ![c] = index]
  /\ \E id \in IF c \in Readers THEN Ids ELSE {None} : want' = [want EXCEPT ![c] = id]
  /\ UNCHANGED <<index, maps, born, snap, fileVars, pastVars>>

\* Mutant: the Map is not kept in _index.
LoadForgets(c) ==
  /\ At(c, "load", "loaded")
  /\ maps' = [maps EXCEPT ![c] = IF disk.whole THEN disk.ids \ expired ELSE {}]
  /\ held' = [held EXCEPT ![c] = c]
  /\ UNCHANGED <<want, index, born, snap, fileVars, pastVars>>

\* The read of index.json ends. Each call that found no index makes a Map of its
\* own, and the last one to finish is the index.
Load(c) ==
  /\ At(c, "load", "loaded")
  /\ \E ids \in {IF disk.whole THEN disk.ids \ expired ELSE {}}
              \union (IF "load" \in DiskFails THEN {{}} ELSE {}) :
       maps' = [maps EXCEPT ![c] = ids]
  /\ index' = c /\ held' = [held EXCEPT ![c] = c]
  /\ UNCHANGED <<want, born, snap, fileVars, pastVars, restarts>>

Mine(c) == maps[held[c]]
Age(id) == CHOOSE i \in DOMAIN born : born[i] = id
Oldest(ids) == CHOOSE id \in ids : \A other \in ids : Age(id) <= Age(other)

---------------------------------------------------------------------------
(* storeResult *)

\* One turn of the eviction loop; the next turn waits for the unlink.
Evict(c) ==
  /\ At(c, "loaded", "evict")
  /\ c \in Storers /\ Cardinality(Mine(c)) >= MaxResults
  /\ LET old == Oldest(Mine(c))
     IN /\ maps' = [maps EXCEPT ![held[c]] = @ \ {old}]
        /\ want' = [want EXCEPT ![c] = old]
        /\ dropped' = dropped \union {old}
  /\ UNCHANGED <<index, held, born, snap, fileVars, expired, returned, restarts>>

\* The unlink ends; a failure is ignored.
Evicted(c) ==
  /\ At(c, "evict", "loaded")
  /\ \E gone \in {{want[c]}} \union (IF "unlink" \in DiskFails THEN {{}} ELSE {}) : blobs' = blobs \ gone
  /\ UNCHANGED <<callVars, born, disk, pastVars>>

\* Mutant: the loop stops one entry late.
MakeLate(c) ==
  /\ At(c, "loaded", "blob")
  /\ c \in Storers /\ Cardinality(Mine(c)) <= MaxResults
  /\ born' = Append(born, c)
  /\ UNCHANGED <<callVars, fileVars, pastVars>>

\* There is room: the id and createdAt are made and the write of the blob starts.
Make(c) ==
  /\ At(c, "loaded", "blob")
  /\ c \in Storers /\ Cardinality(Mine(c)) < MaxResults
  /\ born' = Append(born, c)
  /\ UNCHANGED <<callVars, fileVars, pastVars>>

\* Mutant: the index is serialised before the entry is set.
StoreSavesFirst(c) ==
  /\ At(c, "blob", "save")
  /\ blobs' = blobs \union {c}
  /\ snap' = [snap EXCEPT ![c] = maps[index]]
  /\ maps' = [maps EXCEPT ![held[c]] = @ \union {c}]
  /\ UNCHANGED <<want, index, held, born, disk, pastVars>>

\* The blob is written: the entry is set and saveIndex serialises the index.
Store(c) ==
  /\ At(c, "blob", "save")
  /\ blobs' = blobs \union {c}
  /\ maps' = [maps EXCEPT ![held[c]] = @ \union {c}]
  /\ snap' = [snap EXCEPT ![c] = maps'[index]]
  /\ UNCHANGED <<want, index, held, born, disk, pastVars>>

\* Any write the call awaits fails and storeResult throws.
Throw(c) ==
  /\ \/ "blob" \in DiskFails /\ pc[c] = "blob"
     \/ "index" \in DiskFails /\ pc[c] \in {"save", "saving"}
  /\ End(c)
  /\ UNCHANGED <<born, fileVars, pastVars>>

---------------------------------------------------------------------------
(* saveIndex: writeFile truncates index.json when it opens it, and then writes *)

Truncate(c) ==
  /\ At(c, "save", "saving")
  /\ disk' = Empty
  /\ UNCHANGED <<callVars, born, blobs, pastVars>>

\* Two writers each write from the start of the file: the tail of the longer text
\* stays behind a shorter one.
Mixed(ids) == {Whole(ids)} \union (IF disk.ids \in {{}, ids} THEN {} ELSE {Torn(ids)})

Save(c) ==
  /\ pc[c] = "saving" /\ End(c)
  /\ disk' \in Mixed(snap[c])
  /\ returned' = IF c \in Storers THEN returned \union {c} ELSE returned
  /\ UNCHANGED <<born, blobs, expired, dropped, restarts>>

---------------------------------------------------------------------------
(* getResult *)

Missing(c) ==
  /\ pc[c] = "loaded" /\ c \in Readers
  /\ want[c] \notin Mine(c)
  /\ End(c)
  /\ UNCHANGED <<born, fileVars, pastVars>>

Forget(c, there) ==
  /\ maps' = [maps EXCEPT ![held[c]] = @ \ {want[c]}]
  /\ dropped' = dropped \union {want[c]}
  /\ snap' = [snap EXCEPT ![c] = IF there = "save" THEN maps'[index] ELSE @]
  /\ UNCHANGED <<want, index, held, born, fileVars, expired, returned, restarts>>

\* An expired entry is removed and its blob unlinked before the index is saved.
Expire(c) ==
  /\ At(c, "loaded", "unlink")
  /\ c \in Readers /\ want[c] \in Mine(c) \intersect expired
  /\ Forget(c, "unlink")

Unlinked(c) ==
  /\ At(c, "unlink", "save")
  /\ \E gone \in {{want[c]}} \union (IF "unlink" \in DiskFails THEN {{}} ELSE {}) : blobs' = blobs \ gone
  /\ snap' = [snap EXCEPT ![c] = maps[index]]
  /\ UNCHANGED <<want, index, held, maps, born, disk, pastVars>>

Read(c) ==
  /\ At(c, "loaded", "read")
  /\ c \in Readers /\ want[c] \in Mine(c) \ expired
  /\ UNCHANGED <<callVars, born, fileVars, pastVars>>

Found(c) ==
  /\ pc[c] = "read" /\ want[c] \in blobs
  /\ End(c)
  /\ UNCHANGED <<born, fileVars, pastVars>>

\* Whatever the read failed for, the entry goes.
Unreadable(c) ==
  /\ At(c, "read", "save")
  /\ want[c] \notin blobs \/ "read" \in DiskFails
  /\ Forget(c, "save")

---------------------------------------------------------------------------
Time ==
  /\ \E id \in ToSet(born) \ expired : expired' = expired \union {id}
  /\ UNCHANGED <<pc, callVars, born, fileVars, returned, dropped, restarts>>

\* The process ends and another one starts with what is on disk.
Restart ==
  /\ restarts < MaxRestarts /\ (Kills \/ Running = {})
  /\ restarts' = restarts + 1
  /\ pc' = [c \in Callers |-> IF pc[c] = "idle" THEN "idle" ELSE "dead"]
  /\ index' = None
  /\ UNCHANGED <<want, held, maps, born, snap, fileVars, expired, returned, dropped>>

Next ==
  \/ \E c \in Callers :
       \/ Start(c) \/ Load(c) \/ Evict(c) \/ Evicted(c) \/ Make(c) \/ Store(c)
       \/ Throw(c) \/ Truncate(c) \/ Save(c) \/ Missing(c) \/ Expire(c)
       \/ Unlinked(c) \/ Read(c) \/ Found(c) \/ Unreadable(c)
  \/ Time \/ Restart

Spec == Init /\ [][Next]_vars

---------------------------------------------------------------------------
Places == {"idle", "load", "loaded", "evict", "blob", "save", "saving",
           "unlink", "read", "done", "dead"}

\* The variables have the types the comments give; a running call that is past
\* loadIndex holds a Map, and an id is born at most once.
TypeOK ==
  /\ pc \in [Callers -> Places]
  /\ want \in [Callers -> Ids \union {None}]
  /\ index \in Handles \union {None}
  /\ held \in [Callers -> Handles \union {None}]
  /\ \A c \in Running : pc[c] # "load" => held[c] # None /\ index # None
  /\ maps \in [Handles -> SUBSET Ids]
  /\ ToSet(born) \subseteq Ids /\ Len(born) = Cardinality(ToSet(born))
  /\ snap \in [Callers -> SUBSET Ids]
  /\ blobs \subseteq Ids /\ disk.ids \subseteq Ids
  /\ expired \union returned \union dropped \subseteq Ids
  /\ restarts \in 0 .. MaxRestarts

\* Every entry a running process put into its index has its blob on disk,
\* although calls interleave and files fail: storeResult writes the blob before
\* it sets the entry, and the entry goes before the blob is unlinked.
BlobBehindEntry ==
  index # None =>
    \A id \in maps[index] \intersect Storers : pc[id] # "dead" => id \in blobs

\* An id that storeResult returned stays in the index of the running process
\* until it is evicted, expires or cannot be read: no concurrent call loses it.
\* When two first calls load the index it fails (Concurrent = 2, Loaded = FALSE).
ReturnedKept ==
  index # None => (returned \ dropped) \ expired \subseteq maps[index]

\* While no call runs, index.json is a whole text that holds every id returned
\* and not dropped: what storage.ts promises of ids over a restart.
\* It fails with concurrent saves (Concurrent = 2) or a crash (Kills = TRUE).
SurvivesRestart ==
  Running = {} => disk.whole /\ (returned \ dropped) \ expired \subseteq disk.ids

\* The index never holds more than MAX_RESULTS entries.
\* Concurrent stores pass it (Concurrent = 2); OverflowBounded holds.
CapRespected == index # None => Cardinality(maps[index]) <= MaxResults

\* Concurrent calls may pass the cap only by the stores that found room together:
\* each call in flight adds at most its own entry.
OverflowBounded ==
  index # None =>
    Cardinality(maps[index]) + Cardinality({c \in Storers : pc[c] = "blob"})
      <= MaxResults - 1 + Concurrent

=============================================================================
