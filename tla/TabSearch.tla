------------------------------ MODULE TabSearch ------------------------------
(* A Google search of the broker in a tab of its own: searchGoogle() of       *)
(* bin/google-cdp-broker.mjs with the extraction it pages through. The tab is *)
(* made and closed over HTTP, driven over a WebSocket, and every step may     *)
(* fail, time out or find the request cancelled.                              *)
EXTENDS Naturals

CONSTANTS
    MaxResults,     \* results asked for
    PageSize        \* organic results a page shows at most

VARIABLES
    pc,         \* "create", "open", "navigate", "locate", "extract", "turn", "close", "over"
    tab,        \* "none", "open", "closed"
    known,      \* targetInfo is set: the tab's id has been read
    ws,         \* the WebSocket: "none", "open", "closed"
    page,       \* pages reached, 1 for the first
    got,        \* merged results
    degraded,
    error,      \* the error the search will end with, or "none"
    aborted, late,  \* the request's signal has fired, its deadline has passed
    lost        \* why a tab could not be closed: "no", "unread", "unclosed"

vars == <<pc, tab, known, ws, page, got, degraded, error, aborted, late, lost>>

Min2(a, b) == IF a < b THEN a ELSE b
MinResults == Min2(MaxResults, 3)

\* The pages are turned until this many results are merged.
AcceptAt == IF MaxResults >= 10 THEN MaxResults - 1 ELSE MaxResults

Init ==
    /\ pc = "create" /\ tab = "none" /\ ws = "none" /\ lost = "no"
    /\ page = 1 /\ got = 0 /\ error = "none"
    /\ known = FALSE /\ degraded = FALSE /\ aborted = FALSE /\ late = FALSE

\* checkSignal() after a step: a cancelled request leaves through the cleanup.
Then(next) ==
    IF aborted THEN pc' = "close" /\ error' = "request_fenced"
    ELSE pc' = next /\ UNCHANGED error

Throw(e) == pc' = "close" /\ error' = e

\* PUT /json/new: made and read, made but the answer cannot be used, or refused.
Create ==
    /\ pc = "create"
    /\ \/ tab' = "open" /\ known' = TRUE /\ Then("open") /\ UNCHANGED lost
       \/ tab' = "open" /\ lost' = "unread" /\ Throw("cdp_protocol") /\ UNCHANGED known
       \/ Throw("cdp_protocol") /\ UNCHANGED <<tab, known, lost>>
    /\ UNCHANGED <<ws, page, got, degraded, aborted, late>>

Open ==
    /\ pc = "open"
    /\ \/ ws' = "open" /\ Then("navigate")
       \/ ws' = "closed" /\ Throw("cdp_protocol")
    /\ UNCHANGED <<tab, known, page, got, degraded, aborted, late, lost>>

\* Page.navigate, or its own 15 seconds.
Navigate ==
    /\ pc = "navigate"
    /\ \/ pc' = "locate" /\ UNCHANGED error
       \/ \E e \in {"navigation_failed", "cdp_timeout"} : Throw(e)
    /\ UNCHANGED <<tab, known, ws, page, got, degraded, aborted, late, lost>>

\* The location is polled until it is the results page, a CAPTCHA or too late.
Locate ==
    /\ pc = "locate"
    /\ IF late THEN Throw("navigation_failed")
       ELSE IF aborted THEN Throw("request_fenced")
       ELSE \/ pc' = "extract" /\ UNCHANGED error
            \/ \E e \in {"captcha_blocked", "cdp_timeout"} : Throw(e)
    /\ UNCHANGED <<tab, known, ws, page, got, degraded, aborted, late, lost>>

\* extractGoogleSearchResults(): enough results, or the best set seen when the
\* page's time is over, which the first page shares with the search.
Found == {n \in 1 .. Min2(PageSize, MaxResults - got) :
            n >= Min2(MinResults, MaxResults - got) \/ page > 1 \/ late}

\* What the page adds: results seen on an earlier page are dropped.
Merge(n) ==
    /\ got' = got + n
    /\ IF got + n >= AcceptAt \/ n = 0 \/ late
       THEN Then("close")
       ELSE pc' = "turn" /\ UNCHANGED error
    /\ UNCHANGED <<page, degraded>>

\* Mutant: a later page that fails is an error as on the first page.
ExtractFails_Always ==
    /\ \E e \in {"captcha_blocked", "search_extraction_failed"} : Throw(e)
    /\ UNCHANGED <<page, got, degraded>>

\* The first page fails the search; a later one degrades it to what is merged,
\* a cancellation noticed in it included.
ExtractFails ==
    IF page = 1
    THEN /\ \E e \in {"search_timeout", "captcha_blocked", "search_extraction_failed",
                      "cdp_timeout", "request_fenced"} :
              /\ e = "search_timeout" => late
              /\ e = "request_fenced" => aborted
              /\ Throw(e)
         /\ UNCHANGED <<page, got, degraded>>
    ELSE /\ degraded' = TRUE
         /\ Then("close")
         /\ UNCHANGED <<page, got>>

Extract ==
    /\ pc = "extract"
    /\ \/ ~aborted /\ \E n \in Found : \E new \in (IF page = 1 THEN {n} ELSE 0 .. n) : Merge(new)
       \/ ExtractFails
    /\ UNCHANGED <<tab, known, ws, aborted, late, lost>>

\* The next page: given up without the time for one, a navigation that fails
\* degrades the search, a cancellation between two pages ends it.
Turn ==
    /\ pc = "turn"
    /\ IF aborted
       THEN Throw("request_fenced") /\ UNCHANGED <<page, degraded>>
       ELSE \/ pc' = "close" /\ UNCHANGED <<page, degraded, error>>
            \/ ~late /\ pc' = "extract" /\ page' = page + 1 /\ UNCHANGED <<degraded, error>>
            \/ ~late /\ degraded' = TRUE /\ Then("close") /\ UNCHANGED page
    /\ UNCHANGED <<tab, known, ws, got, aborted, late, lost>>

\* Mutant: the tab of a search that failed is left.
CloseTab_Success ==
    /\ pc = "close"
    /\ ws' = IF ws = "open" THEN "closed" ELSE ws
    /\ pc' = "over"
    /\ IF ~known \/ error # "none" THEN UNCHANGED <<tab, lost>>
       ELSE \/ tab' = "closed" /\ UNCHANGED lost
            \/ lost' = "unclosed" /\ UNCHANGED tab
    /\ UNCHANGED <<known, page, got, degraded, error, aborted, late>>

\* The finally: the socket is closed and Chrome asked to close the tab. An
\* error of that request is swallowed.
CloseTab ==
    /\ pc = "close"
    /\ ws' = IF ws = "open" THEN "closed" ELSE ws
    /\ pc' = "over"
    /\ IF ~known THEN UNCHANGED <<tab, lost>>
       ELSE \/ tab' = "closed" /\ UNCHANGED lost
            \/ lost' = "unclosed" /\ UNCHANGED tab
    /\ UNCHANGED <<known, page, got, degraded, error, aborted, late>>

Abort ==
    /\ ~aborted /\ pc # "over"
    /\ aborted' = TRUE
    /\ UNCHANGED <<pc, tab, known, ws, page, got, degraded, error, late, lost>>

\* Mutant: the deadline does not count in the two polls.
Expire_Between ==
    /\ ~late /\ pc \notin {"locate", "extract", "over"}
    /\ late' = TRUE
    /\ UNCHANGED <<pc, tab, known, ws, page, got, degraded, error, aborted, lost>>

Expire ==
    /\ ~late /\ pc # "over"
    /\ late' = TRUE
    /\ UNCHANGED <<pc, tab, known, ws, page, got, degraded, error, aborted, lost>>

Next == \/ Create \/ Open \/ Navigate \/ Locate \/ Extract \/ Turn
        \/ CloseTab \/ Abort \/ Expire

\* A command on the WebSocket has a time limit of its own, and the two polls end
\* with the deadline. The two HTTP requests and the opening of the socket have
\* no limit: that Chrome answers them is assumed.
Spec ==
    /\ Init /\ [][Next]_vars
    /\ WF_vars(Expire) /\ WF_vars(Navigate) /\ WF_vars(Turn)
    /\ WF_vars(late /\ (Locate \/ Extract))
    /\ WF_vars(Create \/ Open \/ CloseTab)

-----------------------------------------------------------------------------
\* However a search ends, its tab is gone and its socket closed, but for a tab
\* Chrome never named or refused to close.
TabGone ==
    pc = "over" => /\ ws # "open"
                   /\ tab = "open" => lost \in {"unread", "unclosed"}

\* Results in hand are kept: once the first page gave some, only a cancellation
\* of the request fails the search, and a page that failed is never silent.
ResultsKept ==
    pc = "over" =>
        /\ error # "none" => got = 0 \/ (error = "request_fenced" /\ aborted)
        /\ error = "none" => got > 0 /\ got <= MaxResults

\* The search ends: it neither polls nor turns pages for ever.
SearchEnds == pc # "create" ~> pc = "over"
=============================================================================
