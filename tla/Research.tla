------------------------------- MODULE Research ------------------------------
(* A research run (aio-webresearch, src/tools/webresearch.ts over             *)
(* src/research.ts): its queries are searched, the results merged and ranked, *)
(* the best sources fetched and saved, the saved ones indexed, and a bundle   *)
(* written that counts every source and cites the ones that answered.         *)
EXTENDS Naturals, FiniteSets, Sequences, SequencesExt, FiniteSetsExt

CONSTANTS
    Queries,        \* 1 .. n, the question first
    Urls,
    SlugOf,         \* [Urls -> what its title leaves of a file name]
    Workers,
    MaxSources,
    SameDir,        \* TRUE: runs are told to write to one directory
    DiskFails,      \* TRUE: writing a file may throw
    None

VARIABLES
    phase,      \* "new", "fetch", "index", "write", "told", "failed"
    saves,      \* shouldWrite
    found,      \* per query: its results, best first
    next,       \* the next source to fetch, a rank
    at,         \* per worker: the rank of its source, or None
    step,       \* per worker: "idle", "auto", "browser", "save", "dead"
    said,       \* per worker: why the first fetch failed, or None
    records,    \* per rank: [url, class, file], or None
    files,      \* sources/ of the bundle: [name, url]
    indexed,    \* the names in its index
    cited       \* the bundle: per source of EVIDENCE.md, [url, file]

vars == <<phase, saves, found, next, at, step, said, records, files, indexed, cited>>

Ranks == 1 .. MaxSources

Init ==
    /\ phase = "new" /\ saves \in BOOLEAN
    /\ found = [q \in Queries |-> <<>>] /\ next = 1
    /\ at = [w \in Workers |-> None] /\ step = [w \in Workers |-> "idle"]
    /\ said = [w \in Workers |-> None]
    /\ records = [i \in Ranks |-> None]
    /\ files = {} /\ indexed = {} /\ cited = {}

-----------------------------------------------------------------------------
(* rankSources()                                                             *)

\* Of the results of each query, fs.
Finders(fs, u) == {q \in Queries : Contains(fs[q], u)}
Place(fs, q, u) == CHOOSE i \in DOMAIN fs[q] : fs[q][i] = u
Merged(fs) == {u \in Urls : Finders(fs, u) # {}}

\* The reciprocal ranks and a bonus of a half for each further query, in sixths.
Score(fs, u) ==
    3 * (Cardinality(Finders(fs, u)) - 1)
    + MapThenSumSet(LAMBDA q : 6 \div Place(fs, q, u), Finders(fs, u))

\* The order of first sight decides between equal scores.
Sight(fs, u) == LET q == Min(Finders(fs, u)) IN q * Cardinality(Urls) + Place(fs, q, u)

Ranked(fs) ==
    SetToSortSeq(Merged(fs),
                 LAMBDA u, v : \/ Score(fs, u) > Score(fs, v)
                               \/ Score(fs, u) = Score(fs, v) /\ Sight(fs, u) < Sight(fs, v))

Source(i) == Ranked(found)[i]
ToFetch == Min({Cardinality(Merged(found)), MaxSources})

-----------------------------------------------------------------------------
\* Every query is searched; one that throws has no results.
Search ==
    /\ phase = "new"
    /\ found' \in [Queries -> {s \in SeqOf(Urls, 2) : IsInjective(s)}]
    /\ phase' = "fetch"
    /\ UNCHANGED <<saves, next, at, step, said, records, files, indexed, cited>>

Take(w) ==
    /\ phase \in {"fetch", "failed"} /\ step[w] = "idle" /\ next <= ToFetch
    /\ at' = [at EXCEPT ![w] = next] /\ next' = next + 1
    /\ step' = [step EXCEPT ![w] = "auto"]
    /\ UNCHANGED <<phase, saves, found, said, records, files, indexed, cited>>

Record(w, class, file) ==
    /\ records' = [records EXCEPT ![at[w]] =
                     [url |-> Source(at[w]), class |-> class, file |-> file]]
    /\ step' = [step EXCEPT ![w] = "idle"] /\ at' = [at EXCEPT ![w] = None]
    /\ said' = [said EXCEPT ![w] = None]

Got(w) ==
    IF saves THEN step' = [step EXCEPT ![w] = "save"] /\ UNCHANGED <<at, said, records>>
    ELSE Record(w, "ok", None)

\* Mutant: what a fetch throws leaves the worker.
Thrown_Leaves(w) ==
    /\ phase' = "failed" /\ step' = [step EXCEPT ![w] = "dead"] /\ at' = [at EXCEPT ![w] = None]
    /\ UNCHANGED <<said, records>>

\* What a fetch throws makes the source a dead one.
Thrown(w) == Record(w, "dead", None) /\ UNCHANGED phase

\* The first fetch. A site that refuses, or a failure worth a retry, gets the
\* browser.
Fetch(w) ==
    /\ step[w] = "auto"
    /\ \/ Got(w) /\ UNCHANGED phase
       \/ Record(w, "dead", None) /\ UNCHANGED phase
       \/ /\ \E why \in {"blocked", "timeout"} : said' = [said EXCEPT ![w] = why]
          /\ step' = [step EXCEPT ![w] = "browser"]
          /\ UNCHANGED <<phase, at, records>>
       \/ Thrown(w)
    /\ UNCHANGED <<saves, found, next, files, indexed, cited>>

\* When the browser fails too, the first answer stands.
Retry(w) ==
    /\ step[w] = "browser"
    /\ \/ Got(w) /\ UNCHANGED phase
       \/ Record(w, IF said[w] = "blocked" THEN "skipped" ELSE "dead", None) /\ UNCHANGED phase
       \/ Thrown(w)
    /\ UNCHANGED <<saves, found, next, files, indexed, cited>>

\* Mutant: the rank is not part of the name.
Name_Slug(i, u) == <<1, SlugOf[u]>>

Name(i, u) == <<i, SlugOf[u]>>

\* The source is written; nothing catches what that throws.
Save(w) ==
    /\ step[w] = "save"
    /\ LET name == Name(at[w], Source(at[w])) IN
       \/ /\ Record(w, "ok", name)
          /\ files' = {f \in files : f.name # name} \cup {[name |-> name, url |-> Source(at[w])]}
          /\ UNCHANGED phase
       \/ /\ DiskFails
          /\ phase' = "failed"
          /\ step' = [step EXCEPT ![w] = "dead"] /\ at' = [at EXCEPT ![w] = None]
          /\ UNCHANGED <<said, records, files>>
    /\ UNCHANGED <<saves, found, next, indexed, cited>>

Fetched == {i \in Ranks : records[i] # None}
Answered == {i \in Fetched : records[i].class = "ok"}

\* Every source has a record. buildIndex() takes the files that are there.
Index ==
    /\ phase = "fetch" /\ next > ToFetch /\ \A w \in Workers : step[w] = "idle"
    /\ phase' = "write"
    /\ indexed' \in IF saves /\ Answered # {}
                    THEN {indexed, {f.name : f \in files}} ELSE {indexed}
    /\ UNCHANGED <<saves, found, next, at, step, said, records, files, cited>>

\* writeBundle(); the evidence is of the sources that were saved.
Write ==
    /\ phase = "write"
    /\ \/ /\ phase' = "told"
          /\ cited' = IF saves
                      THEN {[url |-> records[i].url, file |-> records[i].file] : i \in Answered}
                      ELSE cited
       \/ saves /\ DiskFails /\ phase' = "failed" /\ UNCHANGED cited
    /\ UNCHANGED <<saves, found, next, at, step, said, records, files, indexed>>

\* Another run, into the same directory or a new one.
Again ==
    /\ phase \in {"told", "failed"} /\ \A w \in Workers : step[w] \in {"idle", "dead"}
    /\ phase' = "new" /\ saves' \in BOOLEAN
    /\ found' = [q \in Queries |-> <<>>] /\ next' = 1
    /\ step' = [w \in Workers |-> "idle"]
    /\ records' = [i \in Ranks |-> None]
    /\ IF SameDir THEN UNCHANGED <<files, indexed, cited>>
       ELSE files' = {} /\ indexed' = {} /\ cited' = {}
    /\ UNCHANGED <<at, said>>

Next ==
    \/ Search \/ Index \/ Write \/ Again
    \/ \E w \in Workers : Take(w) \/ Fetch(w) \/ Retry(w) \/ Save(w)

Spec == Init /\ [][Next]_vars

-----------------------------------------------------------------------------
\* What a bundle cites can be looked up: the file named for a source has its
\* text, also where sources share a title and runs share a directory.
CitedIsKept ==
    phase = "told" => \A c \in cited : \E f \in files : f.name = c.file /\ f.url = c.url

\* A source that cannot be fetched does not end the run, and is counted.
SourcesCounted ==
    /\ phase = "failed" => DiskFails
    /\ phase = "told" => Cardinality(Fetched) = ToFetch

\* The index of a bundle is of the sources of its run. It fails where runs share
\* a directory: the files of earlier runs are still there.
IndexOfRun ==
    phase = "told" /\ saves /\ Answered # {} => \A n \in indexed : \E i \in Answered : records[i].file = n

\* A site that refuses is not counted among the dead ones. It fails when the
\* browser throws.
RefusedNotDead ==
    [][\A w \in Workers : said[w] = "blocked" /\ said'[w] = None =>
         \A i \in Fetched' : i = at[w] => records'[i].class # "dead"]_vars
=============================================================================
