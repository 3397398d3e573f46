----------------------------- MODULE GooglePages -----------------------------
(* The extractors that the legacy lane runs as a process of their own        *)
(* (src/extractors/google-search.mjs, google-ai.mjs, with common.mjs and      *)
(* consent.mjs). A process opens a tab, or is given one, leads it to a page   *)
(* of Google for its query, reads it and prints what it found. Each command   *)
(* is a run of cdp.mjs that may fail. The parent may kill the process.        *)
EXTENDS Integers, FiniteSets

CONSTANTS
    Urls,           \* results that a page may list
    MaxPages,       \* pages of results that Google has for the query
    MaxResults,     \* --max
    Enough,         \* headings that waitForResults() waits for
    None

Home == 0           \* the front page, or no page of Google
Other == -1         \* results of another query, in a tab that was given

VARIABLES
    program,    \* "search" or "answer"
    given,      \* --tab: the tab is the caller's
    phase,      \* where the process stands
    tab,        \* "none"; "open" or "hooked"; "unheard": open, and nobody knows
                \* its id; "closed"; or "stuck": open after a close that failed
    page,       \* what the tab shows: Home, Other, or a page of results
    rows,       \* the results on each page
    counted,    \* waitForResults() saw a result
    merged,     \* the results that were collected
    output,     \* None or what was printed: [page, results]
    failed      \* caughtError

ask == <<program, given, rows>>
vars == <<ask, phase, tab, page, counted, merged, output, failed>>

Init ==
    /\ program \in {"search", "answer"} /\ given \in BOOLEAN
    /\ phase = "open" /\ tab = IF given THEN "hooked" ELSE "none"
    /\ page \in IF given THEN {Home, Other} ELSE {Home}
    /\ rows \in [1 .. MaxPages -> SUBSET Urls]
    /\ counted = FALSE /\ merged = {} /\ output = None /\ failed = FALSE

Goto(p) == phase' = p
Throw == phase' = "close" /\ failed' = TRUE

-----------------------------------------------------------------------------
\* getOrOpenTab(): the script that hides the browser is there before any page.
\* The tab may be there though the reply that names it is lost or unreadable.

First == IF program = "answer" THEN "arrive" ELSE IF given THEN "home" ELSE "direct"

Given ==
    /\ phase = "open" /\ given
    /\ Goto(First) /\ UNCHANGED <<ask, tab, page, counted, merged, output, failed>>

Open ==
    /\ phase = "open" /\ ~given
    /\ \/ tab' = "open" /\ Goto("hook") /\ UNCHANGED failed
       \/ tab' \in {"none", "unheard"} /\ Throw
    /\ UNCHANGED <<ask, page, counted, merged, output>>

\* closeTarget(): whether Chrome closes the tab or not, nobody is told.
Shut == {"closed", "stuck"}

\* Mutant: a tab that cannot be prepared is left open.
Unhooked_Left == {"open"}

\* A tab that cannot be prepared is closed.
Unhooked == Shut

Hook ==
    /\ phase = "hook"
    /\ \/ tab' = "hooked" /\ Goto(First) /\ UNCHANGED failed
       \/ tab' \in Unhooked /\ Throw
    /\ UNCHANGED <<ask, page, counted, merged, output>>

-----------------------------------------------------------------------------
(* google-search.mjs *)

\* The quick way: the address of the results. Unless there are enough of them
\* the long way follows.
Direct ==
    /\ phase = "direct"
    /\ \/ page' = 1 /\ Cardinality(rows[1]) >= Enough /\ counted' = TRUE /\ Goto("direct read")
       \/ page' \in {Home, 1} /\ UNCHANGED counted /\ Goto("home")
    /\ UNCHANGED <<ask, tab, merged, output, failed>>

\* The front page, its consent, the box, the text and its submission, each
\* checked before the next; the results are counted once their address is there.
Submit ==
    /\ phase = "home"
    /\ \/ page' = 1 /\ counted' \in BOOLEAN /\ Goto("read") /\ UNCHANGED failed
       \/ page' \in {page, Home, 1} /\ counted' = FALSE /\ Throw
    /\ UNCHANGED <<ask, tab, merged, output>>

Some(S, n) == {T \in SUBSET S : Cardinality(T) = IF Cardinality(S) < n THEN Cardinality(S) ELSE n}

\* extractResults() of the first page. A failure of the quick way is followed
\* by the long one.
Read ==
    /\ phase \in {"read", "direct read"}
    /\ \/ merged' \in Some(rows[1], MaxResults) /\ UNCHANGED failed
          /\ phase' = IF phase = "read" THEN "more" ELSE "direct more"
       \/ /\ merged' = {}
          /\ IF phase = "read" THEN Throw ELSE Goto("home") /\ UNCHANGED failed
    /\ UNCHANGED <<ask, tab, page, counted, output>>

\* Mutant: an error of a later page is an error of the search.
MoreFails_Throws == Throw /\ UNCHANGED merged

\* An error of a later page leaves what there is.
MoreFails == phase' = (IF phase = "more" THEN "print" ELSE "direct print") /\ UNCHANGED <<merged, failed>>

\* extractPaginatedResults(): another page, while results are wanted, there is
\* time for it and the last one had something new.
More ==
    /\ phase \in {"more", "direct more"}
    /\ \/ MoreFails /\ page' \in {page, page + 1}
       \/ /\ Cardinality(merged) < MaxResults
          /\ page' = page + 1
          /\ \E T \in Some(IF page' \in DOMAIN rows THEN rows[page'] ELSE {},
                           MaxResults - Cardinality(merged)) :
                /\ merged' = merged \cup T
                /\ phase' = IF T \subseteq merged
                            THEN (IF phase = "more" THEN "print" ELSE "direct print")
                            ELSE phase
          /\ UNCHANGED failed
    /\ UNCHANGED <<ask, tab, counted, output>>

\* The quick way without a result is followed by the long one; that one fails
\* too when no result was counted before they were read.
Printed ==
    /\ phase \in {"print", "direct print"}
    /\ IF merged # {} /\ counted
       THEN output' = [page |-> page, results |-> merged] /\ Goto("close") /\ UNCHANGED failed
       ELSE /\ UNCHANGED output
            /\ IF phase = "print" THEN Throw ELSE Goto("home") /\ UNCHANGED failed
    /\ UNCHANGED <<ask, tab, page, counted, merged>>

-----------------------------------------------------------------------------
(* google-ai.mjs *)

\* The address of the query, unless the tab is at results already.
Arrive ==
    /\ phase = "arrive"
    /\ IF page = Home THEN page' = 1 ELSE UNCHANGED page
    /\ \/ Goto("verify") /\ UNCHANGED failed
       \/ page = Home /\ Throw
    /\ UNCHANGED <<ask, tab, counted, merged, output>>

\* handleVerification(): nothing to do; a check that is passed, by a click or
\* by the user, after which the address is asked for again; or one that is not.
Verify ==
    /\ phase = "verify"
    /\ \/ Goto("answer") /\ UNCHANGED <<page, failed>>
       \/ page' = 1 /\ Goto("answer") /\ UNCHANGED failed
       \/ Throw /\ UNCHANGED page
    /\ UNCHANGED <<ask, tab, counted, merged, output>>

\* waitForStreamComplete() and extractAnswer()
AnswerRead ==
    /\ phase = "answer"
    /\ \/ output' = [page |-> page, results |-> {}] /\ Goto("close") /\ UNCHANGED failed
       \/ Throw /\ UNCHANGED output
    /\ UNCHANGED <<ask, tab, page, counted, merged>>

-----------------------------------------------------------------------------
\* Mutant: the tab at hand is closed, whoever opened it.
Closes_Any == tab # "none"

\* The finally: a tab of one's own, that is ready, is closed. (The quick way
\* closes it before, too: one of the two attempts is enough.)
Closes == ~given /\ tab = "hooked"

Close ==
    /\ phase = "close"
    /\ tab' \in IF Closes THEN Shut ELSE {tab}
    /\ Goto("exit")
    /\ UNCHANGED <<ask, page, counted, merged, output, failed>>

\* The parent's time is up, or its caller gives up.
Killed ==
    /\ phase \notin {"exit", "killed"} /\ Goto("killed")
    /\ UNCHANGED <<ask, tab, page, counted, merged, output, failed>>

Done == phase \in {"exit", "killed"} /\ UNCHANGED vars

Next ==
    \/ Given \/ Open \/ Hook \/ Direct \/ Submit \/ Read \/ More \/ Printed
    \/ Arrive \/ Verify \/ AnswerRead \/ Close \/ Killed \/ Done

Spec == Init /\ [][Next]_vars

-----------------------------------------------------------------------------
(* Properties *)

\* A process that comes to its end by itself has closed the tab it opened, or
\* has tried to, on whichever way it went, unless it never heard which tab that
\* is, and then it fails; and it has not closed the tab of its caller.
TabsReturned ==
    /\ phase = "exit" => tab \in (IF given THEN {"hooked"} ELSE {"none", "unheard"} \cup Shut)
    /\ tab = "unheard" => output = None

\* A process that comes to its end by itself leaves no tab of its own. It
\* fails: a tab whose id was not heard is never looked for, and a close that
\* failed is not told, nor tried again.
NoTabLeft == phase = "exit" /\ ~given => tab \in {"none", "closed"}

\* What a search prints has the results of the first page, each of them if
\* there is room, and no more than was asked for, whatever becomes of later
\* pages; a process prints or fails, and never both.
FirstPageKept ==
    /\ program = "search" /\ output # None =>
          /\ Cardinality(output.results) <= MaxResults
          /\ rows[1] \subseteq output.results \/ Cardinality(output.results) = MaxResults
    /\ phase = "exit" => (output # None <=> ~failed)
    /\ merged # {} /\ counted => ~failed

\* The answer that is printed is to the query. It fails: a tab that was given
\* may show the results of another query, and is not led away from there.
AnswerOfQuery == output # None => output.page # Other
=============================================================================
