----------------------------- MODULE FetchBatch ------------------------------
(* One call of aio-webfetch for several targets, as markdown                  *)
(* (src/tools/webfetch.ts): a client session that all of them share, workers  *)
(* that take the targets in turn (runInBatches() of src/tools/utils.ts), one  *)
(* result slot per target, files on disk, and the reply that is made of the   *)
(* slots and the files.                                                       *)
EXTENDS Naturals, FiniteSets

CONSTANTS
    Targets,        \* 1 .. n, in the order of the call
    Workers,
    FileOf,         \* [Targets -> files]: host and path, without the query
    Unmodified,     \* TRUE: a page may be answered from the copy of the session
    None

VARIABLES
    phase,      \* of the call: "new", "batch", "joined", "compiled", "failed"
    session,    \* wreqSession: None, "open", "closed"
    index,      \* the next target
    at,         \* per worker: its target, or None
    step,       \* per worker: "idle", "fetch", "write", "dead"
    slots,      \* results: per target [of, ok, path], or None
    thrown,     \* the target whose worker rejected the batch first, or None
    files,      \* per file: the target whose text it holds, or None
    package     \* per target: whose text the compiled package has for it

vars == <<phase, session, index, at, step, slots, thrown, files, package>>

Init ==
    /\ phase = "new" /\ session = None /\ index = 1
    /\ at = [w \in Workers |-> None] /\ step = [w \in Workers |-> "idle"]
    /\ slots = [t \in Targets |-> None] /\ thrown = None
    /\ files = [f \in {FileOf[t] : t \in Targets} |-> None]
    /\ package = [t \in Targets |-> None]

\* A session is for several targets; without one each fetch is on its own.
Open ==
    /\ phase = "new"
    /\ phase' = "batch"
    /\ session' \in IF Cardinality(Targets) > 1 THEN {None, "open"} ELSE {None}
    /\ UNCHANGED <<index, at, step, slots, thrown, files, package>>

\* Mutant: the index does not move on with the worker that reads it.
Advance_Late == UNCHANGED index

Advance == index' = index + 1

\* A worker takes the next target; nothing tells it that the batch was rejected.
Take(w) ==
    /\ phase # "new" /\ step[w] = "idle" /\ index \in Targets
    /\ at' = [at EXCEPT ![w] = index] /\ step' = [step EXCEPT ![w] = "fetch"]
    /\ Advance
    /\ UNCHANGED <<phase, session, slots, thrown, files, package>>

Put(w, ok, path) ==
    /\ slots' = IF phase = "batch"
                THEN [slots EXCEPT ![at[w]] = [of |-> at[w], ok |-> ok, path |-> path]] ELSE slots
    /\ step' = [step EXCEPT ![w] = "idle"] /\ at' = [at EXCEPT ![w] = None]

\* What the worker does for its target throws, and nothing in the worker
\* catches it: the batch is rejected, unless it is already.
Dies(w) ==
    /\ step' = [step EXCEPT ![w] = "dead"] /\ at' = [at EXCEPT ![w] = None]
    /\ thrown' = IF thrown = None THEN at[w] ELSE thrown
    /\ UNCHANGED slots

\* The fetch: an error of pullPageEnhanced(), thrown or not, is this target's
\* result, and so is a page that was not modified, without a file; markdown is
\* written. The conditional smartFetch() of a copy that has expired, the
\* services of another way, and the storeResult() of a page that was not
\* modified are outside of every try.
Fetched(w) ==
    /\ step[w] = "fetch"
    /\ \/ Put(w, FALSE, None) /\ UNCHANGED thrown
       \/ Unmodified /\ Put(w, TRUE, None) /\ UNCHANGED thrown
       \/ step' = [step EXCEPT ![w] = "write"] /\ UNCHANGED <<at, slots, thrown>>
       \/ Dies(w)
    /\ UNCHANGED <<phase, session, index, files, package>>

FileHolds(w, t) == files' = [files EXCEPT ![FileOf[at[w]]] = t]

\* mkdir(), writeFile() and storeResult() are outside of every try, too: the
\* file is untouched, torn or whole when one of them throws.
Write(w) ==
    /\ step[w] = "write"
    /\ \/ Put(w, TRUE, FileOf[at[w]]) /\ FileHolds(w, at[w]) /\ UNCHANGED thrown
       \/ Dies(w) /\ (UNCHANGED files \/ FileHolds(w, None) \/ FileHolds(w, at[w]))
    /\ UNCHANGED <<phase, session, index, package>>

\* The batch resolves with its slots, or rejects: one error, that of the first
\* target, and no result for the others. Then the session is closed.
Join ==
    /\ phase = "batch"
    /\ \/ /\ thrown = None /\ index \notin Targets /\ \A w \in Workers : step[w] = "idle"
          /\ UNCHANGED slots
       \/ /\ thrown # None
          /\ slots' = [t \in Targets |->
                         [of |-> IF t = 1 THEN thrown ELSE None, ok |-> FALSE, path |-> None]]
    /\ phase' = "joined"
    /\ session' = IF session = "open" THEN "closed" ELSE session
    /\ UNCHANGED <<index, at, step, thrown, files, package>>

Good == {t \in Targets : slots[t].ok}

\* compile: the files of the results are read again; a result without one makes
\* the call throw.
Compile ==
    /\ phase = "joined" /\ Good # {}
    /\ IF \A t \in Good : slots[t].path # None
       THEN /\ phase' = "compiled"
            /\ package' = [t \in Targets |-> IF t \in Good THEN files[slots[t].path] ELSE None]
       ELSE phase' = "failed" /\ UNCHANGED package
    /\ UNCHANGED <<session, index, at, step, slots, thrown, files>>

Next ==
    \/ Open \/ Join \/ Compile
    \/ \E w \in Workers : Take(w) \/ Fetched(w) \/ Write(w)

Spec == Init /\ [][Next]_vars

-----------------------------------------------------------------------------
AtWork == {w \in Workers : at[w] # None}

\* No target is fetched twice, and no result is told as that of another target.
\* If no worker throws, every target is answered by its own fetch, over a
\* session that stays open for all of them; if one does, none is told as
\* fetched. The files of a package are read when nobody writes them any more.
OwnResults ==
    /\ \A v, w \in AtWork : v # w => at[v] # at[w]
    /\ \A t \in Targets : slots[t] # None /\ slots[t].ok => slots[t].of = t
    /\ phase \in {"joined", "compiled"} =>
          \A t \in Targets : slots[t] # None /\ IF thrown = None THEN slots[t].of = t ELSE ~slots[t].ok
    /\ phase \in {"compiled", "failed"} \/ (session = "closed" /\ thrown = None) => AtWork = {}

\* A target's failure is its own: each of the others has its result, as the
\* comment on the catch block of pullPageEnhanced() wants it, and the session
\* stays open for all of them. It fails when a worker throws: the results of
\* all are gone, the first target gets the error of another, and workers go on
\* over the closed session.
FailureIsOwn ==
    /\ phase \in {"joined", "compiled"} => \A t \in Targets : slots[t].of = t
    /\ session = "closed" => AtWork = {}

\* A call with a result is answered. It fails for a compiled package of pages
\* of which one was not modified (Unmodified): no file has it.
CompileAnswers == phase # "failed"

\* A compiled page is the page of its target. It fails for targets that differ
\* in their query alone, which share a file.
PackageOwn == \A t \in Targets : package[t] \in {None, t}
=============================================================================
