------------------------------ MODULE RedditTab ------------------------------
(* A Reddit search in a tab of the shared Chrome: searchReddit() of           *)
(* src/verticals/reddit_search.ts over the small DevTools client of           *)
(* src/verticals/_cdp-shared.ts. Chrome handles the commands of a connection  *)
(* in their order, perhaps after the caller gave up waiting, and what it      *)
(* replies may come too late to be heard. Other clients open tabs meanwhile.  *)
EXTENDS Naturals, Sequences

CONSTANTS
    MaxSilences,    \* bound: commands whose reply is not heard in time
    None

VARIABLES
    phase,          \* the step of the search, see Steps
    waiting,        \* a command has no reply yet
    queue,          \* commands that Chrome has not handled
    own,            \* the tab of this search: "none", "open", "closed"
    other,          \* the tab of another client: "none", "open", "closed"
    baseline,       \* snapshotIds: the other tab was there; None: not known
    found,          \* what the recovery will close: "own", "other"
    target,         \* targetId: the search knows its tab
    alive,          \* of the connection
    silences,
    result          \* "none", "posts", "blocked", "late", "error", "unreachable"

chrome == <<queue, own, other>>
vars == <<phase, waiting, chrome, baseline, found, target, alive, silences, result>>

\* The phases that wait for an answer (sendBounded()).
Bounded == {"snapshot", "create", "list", "sweep", "attach", "enable", "navigate",
            "poll", "check", "extract", "close", "reclose"}

Init ==
    /\ phase = "probe" /\ waiting = FALSE
    /\ queue = <<>> /\ own = "none" /\ other = "none"
    /\ baseline = None /\ found = {} /\ target = FALSE
    /\ alive = FALSE /\ silences = 0 /\ result = "none"

\* The search goes on with a step; a command is sent to Chrome.
Enter(p, q) ==
    /\ phase' = p
    /\ waiting' = (p \in Bounded)
    /\ queue' = IF p \in Bounded THEN Append(q, p) ELSE q

\* The finally block: a tab that is known is closed, asked a second time if
\* the first reply does not come.
Leave(r, q) == result' = r /\ Enter(IF target THEN "close" ELSE "over", q)

After == [attach |-> "enable", enable |-> "navigate", check |-> "extract"]

-----------------------------------------------------------------------------
(* The start: Chrome must answer, and the connection must open in time. *)

Probe ==
    /\ phase = "probe"
    /\ \/ phase' = "connect" /\ UNCHANGED result
       \/ \E r \in {"unreachable", "late"} : phase' = "over" /\ result' = r
    /\ UNCHANGED <<waiting, chrome, baseline, found, target, alive, silences>>

Connect ==
    /\ phase = "connect"
    /\ \/ alive' = TRUE /\ UNCHANGED result /\ Enter("snapshot", queue)
       \/ UNCHANGED alive /\ Leave("error", queue)
    /\ UNCHANGED <<own, other, baseline, found, target, silences>>

-----------------------------------------------------------------------------
(* What follows a reply, and what follows its absence. *)

\* Mutant: what was not there before the search is its own.
Found_New == {t \in {"own", "other"} :
                 \/ t = "own" /\ own = "open"
                 \/ t = "other" /\ other = "open" /\ ~baseline}

\* recoverLeakedTargets(): of the tabs that were not there before, the one with
\* the marker of this search.
Found == {t \in {"own"} : own = "open"}

\* The tab is made, known and being used.
Proceed(q) ==
    CASE phase = "snapshot" ->
             /\ baseline' = (other = "open")
             /\ UNCHANGED <<found, target, result>> /\ Enter("create", q)
      [] phase = "create" ->
             /\ target' = TRUE
             /\ UNCHANGED <<baseline, found, result>> /\ Enter("attach", q)
      [] phase = "list" ->
             /\ found' = Found
             /\ UNCHANGED <<baseline, target>>
             /\ IF Found # {} THEN Enter("sweep", q) /\ UNCHANGED result
                              ELSE Leave("error", q)
      [] phase = "sweep" -> Leave("error", q) /\ UNCHANGED <<baseline, found, target>>
      [] phase \in {"attach", "enable", "check"} ->
             /\ \/ Enter(After[phase], q) /\ UNCHANGED result
                \/ phase # "attach" /\ Leave("late", q)
                \/ phase = "check" /\ Leave("blocked", q)
                \/ phase = "attach" /\ Leave("error", q)
             /\ UNCHANGED <<baseline, found, target>>
      [] phase = "navigate" ->
             /\ \/ Enter("load", q) /\ UNCHANGED result
                \/ Leave("error", q)
             /\ UNCHANGED <<baseline, found, target>>
      [] phase = "poll" ->
             /\ \/ Enter("check", q) /\ UNCHANGED result
                \/ Enter("pause", q) /\ UNCHANGED result
                \/ Leave("late", q)
             /\ UNCHANGED <<baseline, found, target>>
      [] phase = "extract" ->
             /\ \E r \in {"posts", "error"} : Leave(r, q)
             /\ UNCHANGED <<baseline, found, target>>
      [] OTHER ->
             /\ Enter("over", q) /\ UNCHANGED <<baseline, found, target, result>>

\* Mutant: a tab whose closing is not confirmed is given up.
Retreat_Once(q) ==
    /\ UNCHANGED <<baseline, found, target>>
    /\ CASE phase = "snapshot" -> Enter("create", q) /\ UNCHANGED result
         [] phase = "create" /\ baseline # None -> Enter("list", q) /\ UNCHANGED result
         [] phase \in {"close", "reclose"} -> Enter("over", q) /\ UNCHANGED result
         [] OTHER -> Leave("error", q)

\* No reply in time, or an error.
Retreat(q) ==
    /\ UNCHANGED <<baseline, found, target>>
    /\ CASE phase = "snapshot" -> Enter("create", q) /\ UNCHANGED result
         [] phase = "create" /\ baseline # None -> Enter("list", q) /\ UNCHANGED result
         [] phase = "close" -> Enter("reclose", q) /\ UNCHANGED result
         [] phase = "reclose" -> Enter("over", q) /\ UNCHANGED result
         [] OTHER -> Leave("error", q)

-----------------------------------------------------------------------------
(* Chrome handles the oldest command. *)

Effect(m) ==
    /\ own' = CASE m = "create" -> "open"
                [] \/ m \in {"close", "reclose"} /\ own = "open"
                   \/ m = "sweep" /\ "own" \in found -> "closed"
                [] OTHER -> own
    /\ other' = IF m = "sweep" /\ "other" \in found THEN "closed" ELSE other

Handle ==
    /\ queue # <<>>
    /\ Effect(Head(queue))
    /\ \/ waiting /\ Len(queue) = 1 /\ alive /\ Proceed(<<>>) /\ UNCHANGED <<alive, silences>>
       \/ /\ waiting => Len(queue) > 1 \/ silences < MaxSilences
          /\ queue' = Tail(queue)
          /\ UNCHANGED <<phase, waiting, baseline, found, target, alive, silences, result>>

\* Chrome answers with an error: nothing was done.
Refuse ==
    /\ waiting /\ Len(queue) = 1 /\ alive /\ silences < MaxSilences
    /\ Retreat(<<>>)
    /\ silences' = silences + 1
    /\ UNCHANGED <<own, other, alive>>

Timeout ==
    /\ waiting /\ alive /\ silences < MaxSilences
    /\ silences' = silences + 1
    /\ Retreat(queue)
    /\ UNCHANGED <<own, other, alive>>

\* The load event comes, or its wait ends; then posts are looked for.
Load ==
    /\ phase = "load"
    /\ \/ Enter("poll", queue) /\ UNCHANGED result
       \/ Leave("error", queue)
    /\ UNCHANGED <<own, other, baseline, found, target, alive, silences>>

\* The next look, a second later; no more than a few of them.
Pause ==
    /\ phase = "pause"
    /\ \E p \in {"poll", "check"} : Enter(p, queue)
    /\ UNCHANGED <<own, other, baseline, found, target, alive, silences, result>>

\* The socket breaks: each wait ends with an error, and so does each command
\* after it; the tab stays.
Break ==
    /\ alive /\ phase # "over"
    /\ alive' = FALSE /\ waiting' = FALSE /\ phase' = "over"
    /\ queue' = <<>>
    /\ result' = IF result = "none" THEN "error" ELSE result
    /\ UNCHANGED <<own, other, baseline, found, target, silences>>

\* Another client opens its tab.
Other ==
    /\ other = "none" /\ other' = "open"
    /\ UNCHANGED <<phase, waiting, queue, own, baseline, found, target, alive, silences, result>>

Done == phase = "over" /\ queue = <<>> /\ UNCHANGED vars

Next == Probe \/ Connect \/ Handle \/ Refuse \/ Timeout \/ Load \/ Pause \/ Break \/ Other \/ Done

Spec == Init /\ [][Next]_vars

-----------------------------------------------------------------------------

\* A search that is over and whose connection held has left no tab behind,
\* although one command was not answered in time, whichever it was: a tab whose
\* id was never heard is found by its marker, a closing that is not confirmed is
\* asked for again (searchReddit(), reddit_search.ts).
NoTabLeft == phase = "over" /\ alive /\ queue = <<>> => own # "open"

\* The search for a lost tab never closes the tab of another client, opened
\* after the snapshot as its own was (recoverLeakedTargets()).
OthersSpared == other # "closed"
=============================================================================
