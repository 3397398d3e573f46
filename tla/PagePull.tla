------------------------------ MODULE PagePull -------------------------------
(* How a page is pulled (src/content.ts): the pull itself, with the redirects *)
(* that a page makes on its own, and the pulls that pullPageEnhanced() adds   *)
(* when the first one meets a wall, a bot check or no answer.                 *)
EXTENDS Naturals

CONSTANTS
    Pages,              \* numbered; page 1 is asked for
    Loops,              \* TRUE: a page may lead back to an earlier one
    MaxClientRedirects,
    Browsers,           \* profiles for a page behind a bot check, numbered from 1
    None

VARIABLES
    phase,      \* what the pull does next
    opts,       \* [mode, bypass]
    refresh,    \* the page that each page leads to by itself, or None
    known,      \* the site is in the catalogue of paywalls
    stored,     \* the session holds a copy of the page
    purpose,    \* whose pull this is: "main", "hard", "marker", "other",
                \* "rendered" or "browser"
    tried,      \* other browsers tried
    page, count,\* the page being pulled and the redirects before it
    first,      \* the result of the main pull while another one goes on
    result      \* of the present pull, or of the call

asked == <<opts, refresh, known, stored>>
place == <<page, count>>
vars == <<phase, asked, purpose, tried, place, first, result>>

Failed(code) == [ok |-> FALSE, code |-> code, blocked |-> FALSE, walled |-> FALSE]
Contents == [ok : {TRUE}, code : {"page"}, blocked : BOOLEAN, walled : BOOLEAN]

Init ==
    /\ phase = "inner"
    /\ opts \in [mode : {"auto", "fast", "browser"}, bypass : BOOLEAN]
    /\ refresh \in [Pages -> Pages \cup {None}]
    /\ \A p, q \in Pages : refresh[p] = q => p # q /\ (Loops \/ p < q)
    /\ known \in BOOLEAN /\ stored \in BOOLEAN
    /\ purpose = "main" /\ tried = 0
    /\ page = 1 /\ count = 0
    /\ first = None /\ result = None

Goto(p) == phase' = p /\ UNCHANGED <<asked, purpose, tried, first, result>>
Back(r) == phase' = "back" /\ result' = r /\ UNCHANGED <<asked, purpose, tried, place, first>>

\* A pull of page 1 for another purpose, from its start or of a text at hand.
Pull(for, p) ==
    /\ purpose' = for /\ phase' = p
    /\ page' = 1 /\ count' = 0 /\ result' = None
    /\ UNCHANGED asked

-----------------------------------------------------------------------------
(* The pull of one page. *)

\* The secret scan, the GitHub reader and the first bytes: a page for the
\* reader, a file to download, no answer, or a page to be fetched.
Peek ==
    /\ phase = "peek"
    /\ \/ \E r \in Contents : Back(r)
       \/ Back(Failed("secret")) \/ Back(Failed("network"))
       \/ Goto("fetch") /\ UNCHANGED place

Fetch ==
    /\ phase = "fetch"
    /\ \/ \E code \in {"network", "denied", "busy", "broken"} : Back(Failed(code))
       \/ Goto("challenged") /\ UNCHANGED place
       \/ Goto("gone") /\ UNCHANGED place
       \/ Goto("answered") /\ UNCHANGED place

\* A challenge with status 403: once more under another agent name.
Challenged ==
    /\ phase = "challenged"
    /\ Back(Failed("denied")) \/ (Goto("answered") /\ UNCHANGED place)

\* A status 404: the copy of the archive, which is always read as HTML.
Archive ==
    /\ phase = "gone"
    /\ Back(Failed("gone")) \/ (Goto("text") /\ UNCHANGED place)

\* A PDF, JSON or plain text is the result; anything else is a document.
Answered ==
    /\ phase = "answered"
    /\ \/ \E r \in Contents : Back(r)
       \/ Goto("text") /\ UNCHANGED place
       \/ Goto("pipeline") /\ UNCHANGED place

\* maybeFollowClientRedirect(): a page may lead to another one, a few times.
Follow ==
    /\ phase = "text"
    /\ IF refresh[page] # None /\ count < MaxClientRedirects
       THEN page' = refresh[page] /\ count' = count + 1 /\ Goto("peek")
       ELSE Goto("pipeline") /\ UNCHANGED place

\* runHtmlPipeline() looks for a redirect too, and its pull counts from one.
Pipeline ==
    /\ phase = "pipeline"
    /\ IF refresh[page] # None
       THEN page' = refresh[page] /\ count' = 1 /\ Goto("peek")
       ELSE Goto("extract") /\ UNCHANGED place

\* The text of the page: by Readability, Defuddle or as it stands; by the
\* reader proxy or an alternate link when that is too little.
Extract ==
    /\ phase = "extract"
    /\ \E r \in Contents : Back(r)

-----------------------------------------------------------------------------
(* pullPageEnhanced(). *)

Return(r) == phase' = "done" /\ result' = r /\ UNCHANGED <<asked, purpose, tried, place, first>>

\* A vertical extractor answers for its sites, or says what went wrong there.
Vertical ==
    /\ phase = "inner"
    /\ \/ \E r \in Contents : Return([r EXCEPT !.code = "vertical"])
       \/ Return(Failed("vertical")) \/ Return(Failed("secret"))

Start ==
    /\ phase = "inner"
    /\ \/ opts.mode # "browser" /\ Pull("main", "peek") /\ UNCHANGED <<tried, first>>
       \/ opts.mode = "browser" /\ Pull("browser", "text") /\ UNCHANGED <<tried, first>>
       \/ opts.mode = "browser" /\ Return(Failed("render"))

Main == phase = "back" /\ purpose = "main"

\* A known site denies the page: by one of the ways past its wall, if it opens.
HardWall == opts.bypass /\ ~result.ok /\ result.code = "denied" /\ known
SoftWall == opts.bypass /\ result.ok /\ result.walled

Bypass ==
    /\ Main /\ (HardWall \/ SoftWall)
    /\ \/ Pull(IF HardWall THEN "hard" ELSE "marker", "text") /\ first' = result /\ UNCHANGED tried
       \/ Return(result)

Bypassed ==
    /\ phase = "back" /\ purpose \in {"hard", "marker"}
    /\ Return(IF result.ok THEN [result EXCEPT !.code = "bypass"] ELSE first)

\* Nothing stands in the way: the result, or what its data islands hold.
Accept ==
    /\ \/ Main /\ ~HardWall /\ ~SoftWall /\ (result.ok => ~result.blocked)
       \/ phase = "back" /\ purpose = "browser"
    /\ Return(result)

Blocked == Main /\ ~SoftWall /\ result.ok /\ result.blocked

\* Mutant: what another browser brings is not looked at.
Clear_Any == result.ok

Clear == result.ok /\ ~result.blocked

\* A bot check: other browsers in turn, then a rendered page; or the failure.
TryNext(n) ==
    \/ n <= Browsers /\ Pull("other", "peek") /\ tried' = n
    \/ /\ n > Browsers
       /\ \/ Pull("rendered", "text") /\ tried' = n
          \/ Return(Failed("blocked"))

BotCheck ==
    /\ Blocked
    /\ \/ opts.mode = "auto" /\ TryNext(1) /\ (phase' # "done" => first' = result)
       \/ Return(Failed("blocked"))

\* Mutant: the browsers are tried from the first one again.
Retried_Again ==
    /\ phase = "back" /\ purpose \in {"other", "rendered"}
    /\ IF Clear THEN Return(result)
       ELSE IF purpose = "other" THEN TryNext(1) /\ UNCHANGED first
       ELSE Return(Failed("blocked"))

Retried ==
    /\ phase = "back" /\ purpose \in {"other", "rendered"}
    /\ IF Clear THEN Return(result)
       ELSE IF purpose = "other" THEN TryNext(tried + 1) /\ UNCHANGED first
       ELSE Return(Failed("blocked"))

\* serveStaleIfAvailable(): a copy of any age, when the site could not answer.
Stale ==
    /\ phase = "done" /\ stored
    /\ result.code \in {"network", "broken"}
    /\ result' = [Failed("stale") EXCEPT !.ok = TRUE]
    /\ UNCHANGED <<phase, asked, purpose, tried, place, first>>

Done ==
    /\ phase = "done" /\ ~(stored /\ result.code \in {"network", "broken"})
    /\ UNCHANGED vars

Next ==
    \/ Vertical \/ Start
    \/ Peek \/ Fetch \/ Challenged \/ Archive \/ Answered \/ Follow \/ Pipeline \/ Extract
    \/ Bypass \/ Bypassed \/ Accept \/ BotCheck \/ Retried \/ Stale
    \/ Done

\* Every wait of a pull has a timeout of its own.
Spec == Init /\ [][Next]_vars /\ WF_vars(Next)

-----------------------------------------------------------------------------
\* A pull without a browser and without a way past a wall never shows a page
\* that is a bot check, whichever of its attempts brought it.
NoBotPage ==
    phase = "done" /\ result.ok /\ opts.mode # "browser" /\ ~opts.bypass /\ result.code = "page" =>
        ~result.blocked

\* A pull ends. With pages that lead to each other it does not: the pipeline
\* follows a redirect that the bound has refused, and counts anew.
PullEnds == <>(phase = "done")
=============================================================================
