------------------------------- MODULE RequestQueue -------------------------------
(***********************************************************************************)
(* A site pull (aio-webpull): the queue of pages (class RequestQueue), the workers *)
(* that empty it, the page files they write, the queue file that is saved behind   *)
(* their backs, and what a later pull makes of both files after a crash.           *)
(*                                                                                 *)
(* A page is a canonical URL, in the order of discovery; page 1 is the one the     *)
(* user asked for.  PathOf is urlToPagePath(), Final the address a request ends up *)
(* at.  A write truncates its file first, so a crash in the middle leaves a page   *)
(* file without its text, or a queue file without its last lines.                  *)
(*                                                                                 *)
(* Assumed: one pull at a time writes to a directory, the timer's save takes less  *)
(* than its period (5 s), and reporting a finished page does not throw.            *)
(***********************************************************************************)
EXTENDS Naturals, FiniteSets

CONSTANTS Workers,     \* concurrency of the pull
          NumPages,    \* pages discovered
          PathOf,      \* the output path of each page
          Final,       \* the page each request is redirected to, itself in general
          MaxRetries,  \* MAX_RETRIES, 3 in the code
          None         \* no entry, no file, no write

Pages == 1 .. NumPages
Paths == {PathOf[u] : u \in Pages}

VARIABLES phase,    \* of the pull
          queue,    \* the entries in memory
          dirty,    \* they have changed since the last save
          resumed,  \* the pull began with a queue file
          aborted,  \* the user has cancelled the pull
          pc,       \* what each worker does
          job,      \* the page it does it for
          saves,    \* the saves under way: what they write
          disk,     \* the queue file
          files,    \* the page files
          got       \* pages whose text is on disk, since it was last written

mem == <<phase, queue, dirty, resumed, aborted>>
work == <<pc, job>>
vars == <<mem, work, saves, disk, files, got>>

Entry == [status : {"queued", "in_progress", "completed", "failed"},
          retries : 0 .. MaxRetries, out : Pages \cup {None}]
Entries == [Pages -> Entry \cup {None}]
Savers == {"timer", "close"}

TypeOK ==
  /\ phase \in {"down", "pull", "close", "done"}
  /\ queue \in Entries /\ disk \in Entries \cup {None}
  /\ dirty \in BOOLEAN /\ resumed \in BOOLEAN /\ aborted \in BOOLEAN
  /\ pc \in [Workers -> {"idle", "fetch", "write", "stopped"}]
  /\ job \in [Workers -> Pages \cup {None}]
  /\ saves \in [Savers -> Entries \cup {None}]
  /\ files \in [Paths -> [url : Pages, whole : BOOLEAN] \cup {None}]
  /\ got \subseteq Pages

NoEntries == [u \in Pages |-> None]
Idle == /\ pc' = [w \in Workers |-> "idle"] /\ job' = [w \in Workers |-> None]

Init ==
  /\ phase = "down" /\ queue = NoEntries /\ dirty = FALSE
  /\ resumed = FALSE /\ aborted = FALSE
  /\ pc = [w \in Workers |-> "idle"] /\ job = [w \in Workers |-> None]
  /\ saves = [s \in Savers |-> None] /\ disk = None
  /\ files = [p \in Paths |-> None]
  /\ got = {}

Has(entries, u) == entries[u] # None
StatusIs(u, status) == Has(queue, u) /\ queue[u].status = status
Queued(out) == [status |-> "queued", retries |-> 0, out |-> out]
Completed(out) == [status |-> "completed", retries |-> 0, out |-> out]

----------------------------------------------------------------------------
\* Mutant: the spellings of one page are all enqueued.
AddEverySpelling(u) == Queued(None)

\* addInternal() on an empty queue: the first URL of each output path.
AddFirst(u) ==
  IF \E v \in 1 .. u - 1 : PathOf[v] = PathOf[u] THEN None ELSE Queued(None)

\* A pull without a queue file: discover(), create() and add().
StartFresh ==
  /\ disk = None
  /\ queue' = [u \in Pages |-> AddFirst(u)]
  /\ dirty' = TRUE /\ resumed' = FALSE

\* What resume() finds in the directory: the paths of the page files, and the URLs in
\* those that were written to the end.
FilePaths == {p \in Paths : files[p] # None}
FileUrls == {files[p].url : p \in {q \in FilePaths : files[q].whole}}

HasCompletedFile(u, e) ==
  PathOf[u] \in FilePaths \/ u \in FileUrls \/ e.out \in FileUrls

\* The entry a URL found in a page file completes: the first that names it.
Names(entries, u, v) == Has(entries, u) /\ (u = v \/ entries[u].out = v)
Claims(entries, u) ==
  {v \in FileUrls : Names(entries, u, v) /\ \A t \in 1 .. u - 1 : ~Names(entries, t, v)}

ResumedStatus(e) == IF e.status = "in_progress" THEN [e EXCEPT !.status = "queued"] ELSE e

\* Mutant: page files are not looked at.
ResumedEntryBlind(u) == IF Has(disk, u) THEN ResumedStatus(disk[u]) ELSE None

\* resume(): an entry of the queue file after the scan of the page files.
ResumedEntry(u) ==
  IF ~Has(disk, u) THEN None
  ELSE LET e == ResumedStatus(disk[u])
           claims == Claims(disk, u)
       IN  IF claims # {}
           THEN Completed(IF e.out = None THEN CHOOSE v \in claims : TRUE ELSE e.out)
           ELSE IF e.status # "completed" /\ PathOf[u] \in FilePaths
                THEN Completed(e.out) ELSE e

\* requeueCompletedMissingFiles() and, for page 1, addPreservingCompletedFiles().
Repaired(u) ==
  LET e == ResumedEntry(u)
      seed == u = 1
  IN  IF e # None
      THEN IF /\ e.status = "completed" \/ (seed /\ e.status # "queued")
              /\ ~HasCompletedFile(u, e)
           THEN Queued(e.out) ELSE e
      ELSE IF ~seed \/ \E v \in Pages : Has(disk, v) /\ PathOf[v] = PathOf[u] THEN None
           ELSE IF u \in FileUrls \/ PathOf[u] \in FilePaths THEN Completed(None)
           ELSE Queued(None)

\* A pull with a queue file.
StartResumed ==
  /\ disk # None
  /\ queue' = [u \in Pages |-> Repaired(u)]
  /\ dirty' = \E u \in Pages : Repaired(u) # ResumedEntry(u)
  /\ resumed' = TRUE

Start ==
  /\ phase \in {"down", "done"} /\ \A s \in Savers : saves[s] = None
  /\ StartFresh \/ StartResumed
  /\ phase' = "pull" /\ aborted' = FALSE
  /\ Idle
  /\ UNCHANGED <<saves, disk, files, got>>

----------------------------------------------------------------------------
\* The workers, runPullFromQueue().
Takeable(u) == StatusIs(u, "queued") /\ queue[u].retries < MaxRetries

\* next(); after a cancellation the page is dropped as it is.
Take(w) ==
  /\ phase = "pull" /\ pc[w] = "idle"
  /\ \E u \in Pages :
       /\ Takeable(u) /\ \A v \in 1 .. u - 1 : ~Takeable(v)
       /\ queue' = [queue EXCEPT ![u].status = "in_progress"]
       /\ IF aborted THEN UNCHANGED work
          ELSE /\ pc' = [pc EXCEPT ![w] = "fetch"]
               /\ job' = [job EXCEPT ![w] = u]
  /\ dirty' = TRUE
  /\ UNCHANGED <<phase, resumed, aborted, saves, disk, files, got>>

\* isDone(), or next() returns null.
Stop(w) ==
  /\ phase = "pull" /\ pc[w] = "idle"
  /\ \A u \in Pages : ~Takeable(u)
  /\ pc' = [pc EXCEPT ![w] = "stopped"]
  /\ UNCHANGED <<mem, job, saves, disk, files, got>>

\* Mutant: a failure does not count.
FailUncounted(u) == [queue EXCEPT ![u].status = "queued"]

\* fail()
Fail(u) ==
  [queue EXCEPT ![u].retries = @ + 1,
                ![u].status = IF queue[u].retries + 1 < MaxRetries THEN "queued" ELSE "failed"]

\* Mutant: an error thrown by the page's work is not recorded.
FetchFailsUnrecorded(w) ==
  /\ pc[w] \in {"fetch", "write"}
  /\ pc' = [pc EXCEPT ![w] = "idle"] /\ job' = [job EXCEPT ![w] = None]
  /\ UNCHANGED <<mem, saves, disk, files, got>>

\* Mutant: the worker tries again at once with the page it has failed.
FetchFailsAgain(w) ==
  /\ pc[w] \in {"fetch", "write"}
  /\ queue' = Fail(job[w])
  /\ dirty' = TRUE
  /\ UNCHANGED <<phase, resumed, aborted, work, saves, disk, files, got>>

\* The page cannot be pulled, or its work throws while fetching or writing.
FetchFails(w) ==
  /\ pc[w] \in {"fetch", "write"}
  /\ queue' = Fail(job[w])
  /\ dirty' = TRUE
  /\ pc' = [pc EXCEPT ![w] = "idle"] /\ job' = [job EXCEPT ![w] = None]
  /\ UNCHANGED <<phase, resumed, aborted, saves, disk, files, got>>

PathOfJob(w) == PathOf[Final[job[w]]]
Holders(p) == {u \in Pages : PathOf[Final[u]] = p}

\* writePage() opens, and truncates, the file of the final URL.
WritePage(w) ==
  /\ pc[w] = "fetch"
  /\ files' = [files EXCEPT ![PathOfJob(w)] = [url |-> Final[job[w]], whole |-> FALSE]]
  /\ got' = got \ Holders(PathOfJob(w))
  /\ pc' = [pc EXCEPT ![w] = "write"]
  /\ UNCHANGED <<mem, job, saves, disk>>

\* The file is complete, and so is the entry: complete().
Complete(w) ==
  /\ pc[w] = "write"
  /\ LET u == job[w] IN
       /\ files' = [files EXCEPT ![PathOfJob(w)] = [url |-> Final[u], whole |-> TRUE]]
       /\ got' = got \cup {u}
       /\ queue' = [queue EXCEPT ![u].status = "completed", ![u].out = Final[u]]
  /\ dirty' = TRUE
  /\ pc' = [pc EXCEPT ![w] = "idle"] /\ job' = [job EXCEPT ![w] = None]
  /\ UNCHANGED <<phase, resumed, aborted, saves, disk>>

Abort ==
  /\ phase = "pull" /\ ~aborted
  /\ aborted' = TRUE
  /\ UNCHANGED <<phase, queue, dirty, resumed, work, saves, disk, files, got>>

----------------------------------------------------------------------------
\* flush() up to its await, from the timer or from close().
Save(s) ==
  /\ saves[s] = None /\ dirty
  /\ phase = (IF s = "timer" THEN "pull" ELSE "close")
  /\ saves' = [saves EXCEPT ![s] = queue]
  /\ UNCHANGED <<mem, work, disk, files, got>>

Ended(s) == IF s = "close" THEN "done" ELSE phase

\* The write succeeds: the queue counts as saved.
SaveDone(s) ==
  /\ saves[s] # None
  /\ disk' = saves[s]
  /\ saves' = [saves EXCEPT ![s] = None]
  /\ dirty' = FALSE
  /\ phase' = Ended(s)
  /\ UNCHANGED <<queue, resumed, aborted, work, files, got>>

\* The write fails and nobody hears of it.
SaveFails(s) ==
  /\ saves[s] # None
  /\ saves' = [saves EXCEPT ![s] = None]
  /\ phase' = Ended(s)
  /\ UNCHANGED <<queue, dirty, resumed, aborted, work, disk, files, got>>

\* close() once every worker has stopped.
Close ==
  /\ phase = "pull" /\ \A w \in Workers : pc[w] = "stopped"
  /\ phase' = "close"
  /\ UNCHANGED <<queue, dirty, resumed, aborted, work, saves, disk, files, got>>

CloseClean ==
  /\ phase = "close" /\ ~dirty /\ saves["close"] = None
  /\ phase' = "done"
  /\ UNCHANGED <<queue, dirty, resumed, aborted, work, saves, disk, files, got>>

\* The process dies: of a save under way the first lines may be on disk, or none.
Crash ==
  /\ phase \in {"pull", "close"}
  /\ phase' = "down" /\ queue' = NoEntries /\ dirty' = FALSE
  /\ saves' = [s \in Savers |-> None]
  /\ Idle
  /\ \/ UNCHANGED disk
     \/ \E s \in Savers : /\ saves[s] # None
                          /\ \E k \in 0 .. NumPages :
                               disk' = [u \in Pages |-> IF u <= k THEN saves[s][u] ELSE None]
  /\ UNCHANGED <<resumed, aborted, files, got>>

\* The user deletes a page file between two pulls.
DeleteFile(p) ==
  /\ phase \in {"down", "done"} /\ files[p] # None
  /\ files' = [files EXCEPT ![p] = None]
  /\ got' = got \ Holders(p)
  /\ UNCHANGED <<mem, work, saves, disk>>

Worker(w) == Take(w) \/ Stop(w) \/ FetchFails(w) \/ WritePage(w) \/ Complete(w)
Saver(s) == SaveDone(s) \/ SaveFails(s)

Next ==
  \/ Start \/ Abort \/ Close \/ CloseClean \/ Crash
  \/ \E w \in Workers : Worker(w)
  \/ \E s \in Savers : Save(s) \/ Saver(s)
  \/ \E p \in Paths : DeleteFile(p)

Spec == Init /\ [][Next]_vars

\* Requests and writes end, and the event loop gets to every worker and to close().
FairSpec ==
  /\ Spec /\ WF_vars(Close) /\ WF_vars(CloseClean)
  /\ \A w \in Workers : WF_vars(Worker(w))
  /\ \A s \in Savers : WF_vars(Saver(s)) /\ WF_vars(Save("close"))

----------------------------------------------------------------------------
\* No entry waits for a worker that next() will never give it to ("tla/NoWedged").
NoWedged == \A u \in Pages : StatusIs(u, "queued") => queue[u].retries < MaxRetries

\* Two workers never write the same file, although several URLs may share one (redirects
\* apart).
WritersApart ==
  \A v, w \in Workers : v # w /\ {pc[v], pc[w]} \subseteq {"fetch", "write"} =>
                          PathOf[job[v]] # PathOf[job[w]]

\* When the workers of a pull nobody cancelled have stopped, every page is completed or
\* failed, although a worker leaves as soon as nothing is queued.
AllSettled ==
  (phase # "down" /\ ~aborted /\ \A w \in Workers : pc[w] = "stopped") =>
    \A u \in Pages : Has(queue, u) => queue[u].status \in {"completed", "failed"}

\* "a webpull can be interrupted and resumed without re-fetching already-downloaded pages":
\* no worker of a resumed pull takes a page whose text is on disk.
\* With a redirected page it fails (Final of a page is another URL).
ResumeKeepsPages ==
  [][\A w \in Workers : (resumed /\ pc[w] = "idle" /\ pc'[w] = "fetch") => job'[w] \notin got]_vars

\* The same of any pull into the directory.
\* It does not hold before the first save.
InterruptedKeepsPages ==
  [][\A w \in Workers : (pc[w] = "idle" /\ pc'[w] = "fetch") => job'[w] \notin got]_vars

\* A pull ends, whatever fails, unless the process dies.
PullEnds == (phase = "pull") ~> (phase \in {"done", "down"})

\* "Drain: flush pending writes": after close(), a queue that counts as saved is what the
\* queue file says.
\* It does not hold.
SavedIsSaved ==
  (~resumed /\ phase = "done" /\ ~dirty /\ \A s \in Savers : saves[s] = None) => disk = queue

\* A resumed pull knows every page of the pull it resumes.
\* It does not hold after a crash during a save.
NothingForgotten ==
  phase = "pull" => \A p \in Paths : \E u \in Pages : PathOf[u] = p /\ Has(queue, u)

\* "a crash could otherwise lose that page permanently": a page that counts as completed
\* when the pull closes is on disk with its text.
\* It does not hold of a torn page file.
CompletedWhole ==
  phase = "close" =>
    \A u \in Pages : StatusIs(u, "completed") =>
      \E p \in FilePaths : files[p].whole /\ (p = PathOf[u] \/ files[p].url \in {u, queue[u].out})
=============================================================================
