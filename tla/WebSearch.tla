------------------------------ MODULE WebSearch ------------------------------
(* One search (src/tools/websearch.ts): lanes that run side by side, a target *)
(* for the response, a grace beyond it for Google alone, a hard deadline, and *)
(* an answer made of what was there, with a status per provider. A lane that  *)
(* is late goes on after the answer. Searches of the session share the health *)
(* of the providers (src/search.ts) and the cache of Google's results.        *)
EXTENDS Naturals

CONSTANTS
    Searches,       \* searches that may be under way together
    Threshold,      \* GOOGLE_FAILURE_THRESHOLD
    None

Collected == {"http", "reddit", "bonus"}     \* collectProviderResults()
Lanes == Collected \cup {"google"}

VARIABLES
    tool,       \* per search: "new", "collect", "grace", "answered"
    clock,      \* per search: 0, 1 past the response target, 2 past the deadline
    lane,       \* per search and lane: "off", "gate", "run", "done"
    some,       \* per search: the lanes that have results
    gstatus,    \* per search: googleStatus
    rstatus,    \* per search: redditStatus
    asked,      \* per search: redditRequested
    snap,       \* per search: the lanes collected in time; Google's when it made it
    timedOut,   \* per search
    told,       \* per search: the statuses of the answer, [google, reddit], or None
    health,     \* Google's record: [row, cool]
    streak,     \* how many searches Google has failed since its last success
    cached      \* Google's results of the query are in the cache

vars == <<tool, clock, lane, some, gstatus, rstatus, asked, snap, timedOut, told,
          health, streak, cached>>

Init ==
    /\ tool = [s \in Searches |-> "new"] /\ clock = [s \in Searches |-> 0]
    /\ lane = [s \in Searches |-> [l \in Lanes |-> "off"]]
    /\ some = [s \in Searches |-> {}] /\ snap = [s \in Searches |-> {}]
    /\ gstatus = [s \in Searches |-> "disabled"] /\ rstatus = [s \in Searches |-> "disabled"]
    /\ asked = [s \in Searches |-> FALSE] /\ timedOut = [s \in Searches |-> FALSE]
    /\ told = [s \in Searches |-> None]
    /\ health = [row |-> 0, cool |-> FALSE] /\ streak = 0 /\ cached = FALSE

Done(s, l) == lane[s][l] \in {"off", "done"}

\* The lanes start, unless their provider is not asked for, or cools down.
\* Reddit waits for Google. A search whose Google results are cached has them.
Begin(s) ==
    /\ tool[s] = "new"
    /\ tool' = [tool EXCEPT ![s] = "collect"]
    /\ \E google, reddit, bonus \in BOOLEAN :
         LET runs == google /\ ~health.cool
         IN  /\ lane' = [lane EXCEPT ![s] =
                   [l \in Lanes |-> CASE l = "http" -> "run"
                                      [] l = "google" -> IF ~runs THEN "off" ELSE IF cached THEN "done" ELSE "run"
                                      [] l = "reddit" -> IF reddit THEN "gate" ELSE "off"
                                      [] l = "bonus" -> IF bonus THEN "run" ELSE "off"]]
             /\ some' = [some EXCEPT ![s] = IF runs /\ cached THEN {"google"} ELSE {}]
             /\ gstatus' = [gstatus EXCEPT ![s] = IF ~google THEN "disabled" ELSE IF ~runs THEN "unavailable"
                                                  ELSE IF cached THEN "ok" ELSE "pending"]
             /\ rstatus' = [rstatus EXCEPT ![s] = IF reddit THEN "pending" ELSE "disabled"]
    /\ UNCHANGED <<clock, asked, snap, timedOut, told, health, streak, cached>>

Ends(s, l, n) ==
    /\ lane' = [lane EXCEPT ![s][l] = "done"]
    /\ some' = IF n THEN [some EXCEPT ![s] = @ \cup {l}] ELSE some

\* recordProviderNetworkFailure() for Google; nothing records a success.
Failed ==
    /\ health' = [row |-> IF health.row < Threshold THEN health.row + 1 ELSE Threshold,
                  cool |-> health.row + 1 >= Threshold]
    /\ streak' = IF streak < Threshold THEN streak + 1 ELSE streak

\* googleSearch() returns, or throws: a CAPTCHA, the lane's own deadline, an error.
GoogleEnds(s) ==
    /\ lane[s]["google"] = "run"
    /\ \/ \E n \in BOOLEAN :
            /\ Ends(s, "google", n) /\ gstatus' = [gstatus EXCEPT ![s] = IF n THEN "ok" ELSE "empty"]
            /\ cached' = (cached \/ n) /\ streak' = 0 /\ UNCHANGED health
       \/ \E e \in {"blocked", "timeout", "error"} :
            /\ Ends(s, "google", FALSE) /\ gstatus' = [gstatus EXCEPT ![s] = e]
            /\ Failed /\ UNCHANGED cached
    /\ UNCHANGED <<tool, clock, rstatus, asked, snap, timedOut, told>>

\* Mutant: Reddit is not kept from starting after the response target.
RedditStarts_Late(s) ==
    /\ asked' = [asked EXCEPT ![s] = TRUE] /\ lane' = [lane EXCEPT ![s]["reddit"] = "run"]
    /\ UNCHANGED <<rstatus, some>>

\* Reddit's turn: Google is done and Chrome is ready, or the target has passed
\* and no request is made.
RedditStarts(s) ==
    IF clock[s] >= 1
    THEN /\ Ends(s, "reddit", FALSE) /\ rstatus' = [rstatus EXCEPT ![s] = "disabled"]
         /\ UNCHANGED asked
    ELSE /\ asked' = [asked EXCEPT ![s] = TRUE] /\ lane' = [lane EXCEPT ![s]["reddit"] = "run"]
         /\ UNCHANGED <<rstatus, some>>

RedditGate(s) ==
    /\ lane[s]["reddit"] = "gate"
    /\ Done(s, "google") \/ clock[s] >= 1
    /\ RedditStarts(s)
    /\ UNCHANGED <<tool, clock, gstatus, snap, timedOut, told, health, streak, cached>>

RedditEnds(s) ==
    /\ lane[s]["reddit"] = "run"
    /\ \E r \in {"ok", "empty", "unavailable", "timeout", "error"} :
         Ends(s, "reddit", r = "ok") /\ rstatus' = [rstatus EXCEPT ![s] = r]
    /\ UNCHANGED <<tool, clock, gstatus, asked, snap, timedOut, told, health, streak, cached>>

OtherEnds(s, l) ==
    /\ l \in {"http", "bonus"} /\ lane[s][l] = "run"
    /\ \E n \in BOOLEAN : Ends(s, l, n)
    /\ UNCHANGED <<tool, clock, gstatus, rstatus, asked, snap, timedOut, told, health, streak, cached>>

Timer(s) ==
    /\ tool[s] # "new" /\ clock[s] < 2
    /\ clock' = [clock EXCEPT ![s] = @ + 1]
    /\ UNCHANGED <<tool, lane, some, gstatus, rstatus, asked, snap, timedOut, told, health, streak, cached>>

\* collectProviderResults(): every lane but Google's, or the target.
Collect(s) ==
    /\ tool[s] = "collect"
    /\ \/ /\ \A l \in Collected : Done(s, l)
          /\ timedOut' = timedOut
       \/ clock[s] >= 1 /\ timedOut' = [timedOut EXCEPT ![s] = TRUE]
    /\ snap' = [snap EXCEPT ![s] = {l \in Collected : Done(s, l)}]
    /\ tool' = [tool EXCEPT ![s] = "grace"]
    /\ UNCHANGED <<clock, lane, some, gstatus, rstatus, asked, told, health, streak, cached>>

\* What is told of Google: with a result, by its number, unless it failed;
\* without one, a timeout if the others were late too, else what was noted.
GoogleTold(s, made) ==
    IF lane[s]["google"] = "off" THEN gstatus[s]
    ELSE IF made
    THEN IF "google" \in some[s] THEN "ok"
         ELSE IF gstatus[s] \in {"error", "blocked"} THEN gstatus[s] ELSE "empty"
    ELSE IF timedOut[s] THEN "timeout" ELSE gstatus[s]

\* Mutant: a lane that is late has timed out, whether it made a request or not.
RedditTold_Late(s) ==
    IF timedOut[s] /\ lane[s]["reddit"] # "off" /\ "reddit" \notin snap[s] THEN "timeout" ELSE rstatus[s]

\* A lane that is late has timed out if it made a request.
RedditTold(s) ==
    IF timedOut[s] /\ lane[s]["reddit"] # "off" /\ "reddit" \notin snap[s]
    THEN IF asked[s] THEN "timeout" ELSE "disabled"
    ELSE rstatus[s]

\* Mutant: the grace has no end.
GraceOver_Never(s) == FALSE

\* The race against the rest of the hard deadline.
GraceOver(s) == clock[s] = 2

Answer(s) ==
    /\ tool[s] = "grace"
    /\ \E made \in BOOLEAN :
         /\ IF made THEN lane[s]["google"] = "done" ELSE lane[s]["google"] = "off" \/ GraceOver(s)
         /\ told' = [told EXCEPT ![s] = [google |-> GoogleTold(s, made), reddit |-> RedditTold(s)]]
         /\ snap' = IF made THEN [snap EXCEPT ![s] = @ \cup {"google"}] ELSE snap
    /\ tool' = [tool EXCEPT ![s] = "answered"]
    /\ UNCHANGED <<clock, lane, some, gstatus, rstatus, asked, timedOut, health, streak, cached>>

\* isEngineAvailable() after the cooldown; the cache expires.
Time ==
    /\ \/ health.cool /\ health' = [row |-> 0, cool |-> FALSE] /\ UNCHANGED cached
       \/ cached /\ cached' = FALSE /\ UNCHANGED health
    /\ UNCHANGED <<tool, clock, lane, some, gstatus, rstatus, asked, snap, timedOut, told, streak>>

Next ==
    \/ \E s \in Searches :
         \/ Begin(s) \/ GoogleEnds(s) \/ RedditGate(s) \/ RedditEnds(s)
         \/ \E l \in Lanes : OtherEnds(s, l)
         \/ Timer(s) \/ Collect(s) \/ Answer(s)
    \/ Time

\* Timers and continuations run; no lane has to end.
Spec ==
    /\ Init /\ [][Next]_vars
    /\ \A s \in Searches : WF_vars(Timer(s)) /\ WF_vars(Collect(s)) /\ WF_vars(Answer(s))

-----------------------------------------------------------------------------
\* Every search is answered, whichever lanes never end.
Answered == \A s \in Searches : (tool[s] = "collect") ~> (tool[s] = "answered")

\* Reddit is said to have timed out only if it was asked, and not to have been
\* attempted only if it was not.
RedditToldTrue ==
    \A s \in Searches : told[s] # None /\ lane[s]["reddit"] # "off" =>
        /\ told[s].reddit = "timeout" => asked[s]
        /\ told[s].reddit = "disabled" => ~asked[s]

\* Google is said to have found nothing only if it said so. It fails: the end
\* of its lane by its own deadline, within the grace, is told as "empty".
GoogleToldTrue ==
    [][\A s \in Searches : told'[s] # told[s] /\ told'[s].google = "empty" => gstatus[s] = "empty"]_vars

\* The answer to a search never says that a provider is still pending. It
\* fails: Google is late, the other lanes were not.
NothingPending == \A s \in Searches : told[s] # None => told[s].google # "pending"

\* Google cools down after failures in a row. It fails: no success ends a row.
CoolsAfterRow == [][~health.cool /\ health'.cool => streak' >= Threshold]_vars
=============================================================================
