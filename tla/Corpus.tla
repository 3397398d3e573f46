------------------------------- MODULE Corpus --------------------------------
(* A pulled corpus and its index (src/webquery-index.ts): pulls write pages   *)
(* into a directory (src/tools/webpull.ts) and rebuild the index of all that  *)
(* is there, while queries read it (src/tools/webquery.ts).                   *)
EXTENDS Naturals, FiniteSets

CONSTANTS
    Files,
    Pulls,      \* sessions that pull into the directory
    Together,   \* TRUE: two of them may run at the same time
    Killed,     \* TRUE: a pull may be killed
    MaxPages,   \* bound: pages that a pull writes
    Queries

VARIABLES
    disk,       \* version of each page in the directory; 0: none
    index,      \* [file, built, of]: "torn" while it is written
    builds,     \* number of builds so far: their builtAt
    pull,       \* [phase, pages (written), left (to be read), copy, built]
    cached,     \* _queryCache: what was answered, by builtAt
    query       \* [phase, answer]

vars == <<disk, index, builds, pull, cached, query>>

NoPages == [f \in Files |-> 0]
Idle == [phase |-> "idle", pages |-> 0, left |-> {}, copy |-> NoPages, built |-> 0]
Unasked == [phase |-> "idle", answer |-> NoPages]

Init ==
    /\ disk = NoPages /\ builds = 0
    /\ index = [file |-> "none", built |-> 0, of |-> NoPages]
    /\ pull = [p \in Pulls |-> Idle]
    /\ cached = [b \in {} |-> NoPages]
    /\ query = [q \in Queries |-> Unasked]

Busy == {p \in Pulls : pull[p].phase \notin {"idle", "done", "killed"}}

-----------------------------------------------------------------------------
(* A pull. *)

Begin(p) ==
    /\ pull[p].phase = "idle" /\ (Together \/ Busy = {})
    /\ pull' = [pull EXCEPT ![p].phase = "pull"]
    /\ UNCHANGED <<disk, index, builds, cached, query>>

Write(p, f) ==
    /\ pull[p].phase = "pull" /\ pull[p].pages < MaxPages
    /\ disk' = [disk EXCEPT ![f] = @ + 1]
    /\ pull' = [pull EXCEPT ![p].pages = @ + 1]
    /\ UNCHANGED <<index, builds, cached, query>>

\* Mutant: the index is built while the workers still write.
List_Early(p) ==
    /\ pull[p].phase = "pull"
    /\ pull' = [pull EXCEPT ![p] =
            IF @.pages = 0 THEN [@ EXCEPT !.phase = "done"]
            ELSE [@ EXCEPT !.phase = "read", !.copy = NoPages, !.pages = 1,
                           !.left = {f \in Files : disk[f] > 1}]]
    /\ UNCHANGED <<disk, index, builds, cached, query>>

\* All pages are written. A pull that brought none leaves the index alone;
\* buildIndex() lists the pages in the directory,
List(p) ==
    /\ pull[p].phase = "pull"
    /\ pull' = [pull EXCEPT ![p] =
            IF @.pages = 0 THEN [@ EXCEPT !.phase = "done"]
            ELSE [@ EXCEPT !.phase = "read", !.left = {f \in Files : disk[f] > 0}]]
    /\ UNCHANGED <<disk, index, builds, cached, query>>

\* reads them one by one,
Read(p, f) ==
    /\ pull[p].phase = "read" /\ f \in pull[p].left
    /\ pull' = [pull EXCEPT ![p].left = @ \ {f}, ![p].copy[f] = disk[f]]
    /\ UNCHANGED <<disk, index, builds, cached, query>>

\* and writes the index over the old one, in more than one step.
Truncate(p) ==
    /\ pull[p].phase = "read" /\ pull[p].left = {}
    /\ index' = [index EXCEPT !.file = "torn"] /\ builds' = builds + 1
    /\ pull' = [pull EXCEPT ![p].phase = "save", ![p].built = builds + 1]
    /\ UNCHANGED <<disk, cached, query>>

Fill(p) ==
    /\ pull[p].phase = "save"
    /\ index' = [file |-> "whole", built |-> pull[p].built, of |-> pull[p].copy]
    /\ pull' = [pull EXCEPT ![p].phase = "done"]
    /\ UNCHANGED <<disk, builds, cached, query>>

Kill(p) ==
    /\ Killed /\ p \in Busy
    /\ pull' = [pull EXCEPT ![p].phase = "killed"]
    /\ UNCHANGED <<disk, index, builds, cached, query>>

-----------------------------------------------------------------------------
(* A query: the same words each time. *)

Whole == index.file = "whole"
Reading(q) == query[q].phase = "asked"

Ask(q) ==
    /\ query[q].phase = "idle"
    /\ query' = [query EXCEPT ![q] = [phase |-> "asked", answer |-> NoPages]]
    /\ UNCHANGED <<disk, index, builds, pull, cached>>

\* loadIndex() finds nothing, or a file that is being written.
Unreadable(q) ==
    /\ Reading(q) /\ ~Whole
    /\ query' = [query EXCEPT ![q].phase = "done"]
    /\ UNCHANGED <<disk, index, builds, pull, cached>>

\* Mutant: what was once answered is answered again.
Known_Any(i) == DOMAIN cached

Known(i) == DOMAIN cached \cap {i.built}

\* The answer that the cache holds for this index, or a new one.
Answer(q) ==
    /\ Reading(q) /\ Whole
    /\ IF Known(index) # {}
       THEN /\ \E b \in Known(index) :
                 query' = [query EXCEPT ![q].phase = "done", ![q].answer = cached[b]]
            /\ UNCHANGED cached
       ELSE /\ query' = [query EXCEPT ![q].phase = "done", ![q].answer = index.of]
            /\ cached' = [b \in DOMAIN cached \cup {index.built} |->
                            IF b = index.built THEN index.of ELSE cached[b]]
    /\ UNCHANGED <<disk, index, builds, pull>>

AllDone ==
    /\ Busy = {} /\ \A p \in Pulls : pull[p].phase # "idle"
    /\ \A q \in Queries : query[q].phase = "done"
    /\ UNCHANGED vars

Next ==
    \/ \E p \in Pulls :
          \/ Begin(p) \/ List(p) \/ Truncate(p) \/ Fill(p) \/ Kill(p)
          \/ \E f \in Files : Write(p, f) \/ Read(p, f)
    \/ \E q \in Queries : Ask(q) \/ Unreadable(q) \/ Answer(q)
    \/ AllDone

Spec == Init /\ [][Next]_vars

-----------------------------------------------------------------------------

Indexed == \E p \in Pulls : pull[p].phase = "done" /\ pull[p].pages > 0

\* When no pull runs and one has built the index, the index holds each page as it
\* is in the directory ("a full rebuild keeps the index consistent even after
\* resume/append pulls", webpull.ts).
IndexComplete == Busy = {} /\ Indexed /\ Whole => index.of = disk

\* A pull that ended well leaves an index to be asked ("Run aio-webpull on this
\* directory first to build the index", webquery-index.ts).
PullIndexes ==
    Busy = {} /\ (\E p \in Pulls : pull[p].phase = "done") /\ (\E f \in Files : disk[f] > 0)
        => Whole

\* An answer is never of an index older than the last one that was finished
\* before the query, whatever was answered before (webquery.ts: the cache is
\* keyed by the time of the build).
AnswersFresh ==
    [][\A q \in Queries :
          query'[q].answer # query[q].answer => query'[q].answer = index.of]_vars
=============================================================================
