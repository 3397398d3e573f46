------------------------------- MODULE Paywall -------------------------------
(* The ways past a paywall (src/paywall.ts): the chain of steps for the site  *)
(* of a page, each tried within what is left of the budget, until one brings  *)
(* a text; the browser step opens pages of the pool or browsers of its own.   *)
(* The caller (reprocessViaBypass() of src/content.ts) takes a text only when *)
(* it shows no wall.                                                          *)
EXTENDS Naturals, Sequences

CONSTANTS
    Chains,     \* sequences of steps: what the sites of the catalogue ask for
    Budget,     \* of the whole chain; 0: none
    MaxNow,     \* bound: how far the clock is followed
    Pooled,     \* there is a browser pool
    None

Steps == {"bot", "custom", "referer", "cookies", "archive", "block_js"}

\* What detectPaywall() says of a text: "doubtful" is a wall, with a confidence
\* below a half.
Readings == {"clean", "doubtful", "walled"}
Walled(text) == text \in {"doubtful", "walled"}

VARIABLES
    chain,      \* of this site
    at,         \* the step under way
    now,        \* since the start
    phase,      \* "next", "asking", "second", "acquire", "open", "run",
                \* "plain" (a browser without blocking) or "done"
    pooled,     \* this call holds a page of the pool
    opened,     \* browsers launched here and still open
    launches,   \* launch options tried: an installed Chrome, the bundled one
    answer,     \* the text of the first step that said ok
    tried       \* steps that asked somebody

browser == <<pooled, opened, launches>>
vars == <<chain, at, now, phase, browser, answer, tried>>

Init ==
    /\ chain \in Chains
    /\ at = 1 /\ now = 0 /\ phase = "next"
    /\ pooled = FALSE /\ opened = 0 /\ launches = 0
    /\ answer = None /\ tried = {}

Step == chain[at]
Longest(a, b) == IF a > b THEN a ELSE b
Least(a, b) == IF a < b THEN a ELSE b

\* The limit of a request: what is left, and at least one unit of time.
Left == IF Budget = 0 THEN MaxNow ELSE Longest(1, Budget - Least(now, Budget))

Takes(limit) == now' \in now .. Least(MaxNow, now + limit)

End(text) == phase' = "done" /\ answer' = text /\ UNCHANGED at
Further == phase' = "next" /\ at' = at + 1 /\ UNCHANGED answer

-----------------------------------------------------------------------------
(* bypassUrl(): the chain. *)

OutOfTime == Budget > 0 /\ now > Budget

GiveUp ==
    /\ phase = "next" /\ (at > Len(chain) \/ OutOfTime)
    /\ End(None)
    /\ UNCHANGED <<chain, now, browser, tried>>

Try ==
    /\ phase = "next" /\ at <= Len(chain) /\ ~OutOfTime
    /\ phase' = IF Step = "block_js" THEN (IF Pooled THEN "acquire" ELSE "open") ELSE "asking"
    /\ tried' = tried \cup {Step} /\ launches' = 0
    /\ UNCHANGED <<chain, at, now, pooled, opened, answer>>

\* A site without an agent name of its own skips that step.
Skip ==
    /\ phase = "next" /\ at <= Len(chain) /\ ~OutOfTime /\ Step \in {"custom", "block_js"}
    /\ Further
    /\ UNCHANGED <<chain, now, browser, tried>>

\* Who takes a text that shows a wall: a search engine's agent only below a
\* half, the archives any, the others none.
Accepted(text) ==
    \/ text = "clean"
    \/ Step = "bot" /\ text = "doubtful"
    \/ Step = "archive"

\* A request under another name, with another referer or without cookies: the
\* answer and its text may each take as long as the limit.
Ask ==
    /\ phase = "asking" /\ Step # "archive"
    /\ Takes(2 * Left)
    /\ \/ Further
       \/ \E text \in Readings : IF Accepted(text) THEN End(text) ELSE Further
    /\ UNCHANGED <<chain, browser, tried>>

\* tryArchiveOrgFetch(), then tryArchivePhFetch(): the limit is their own.
ArchiveLimit == 2

AskArchive ==
    /\ phase \in {"asking", "second"} /\ Step = "archive"
    /\ Takes(ArchiveLimit)
    /\ \/ phase = "asking" /\ phase' = "second" /\ UNCHANGED <<at, answer>>
       \/ phase = "second" /\ Further
       \/ \E text \in Readings : End(text)
    /\ UNCHANGED <<chain, browser, tried>>

-----------------------------------------------------------------------------
(* fetchWithBypass(): the page in a browser, without the scripts of the wall. *)

BrowserLimit == 2

\* Whatever the wall looks like in the text of the browser, it is taken.
Shown == \E text \in Readings : End(text)

\* Playwright is missing, or no page is to be had: the ordinary reader.
Plain ==
    /\ phase \in {"acquire", "open"} /\ launches = 0
    /\ phase' = "plain"
    /\ UNCHANGED <<chain, at, now, browser, answer, tried>>

ReadPlain ==
    /\ phase = "plain"
    /\ Takes(BrowserLimit)
    /\ Shown \/ Further
    /\ UNCHANGED <<chain, browser, tried>>

Acquire ==
    /\ phase = "acquire"
    /\ pooled' = TRUE /\ phase' = "run"
    /\ Takes(BrowserLimit)
    /\ UNCHANGED <<chain, at, opened, launches, answer, tried>>

Launch ==
    /\ phase = "open" /\ launches < 2
    /\ launches' = launches + 1
    /\ \/ opened' = opened + 1 /\ phase' = "run"
       \/ UNCHANGED <<opened, phase>>
    /\ UNCHANGED <<chain, at, now, pooled, answer, tried>>

NoneOpens ==
    /\ phase = "open" /\ launches = 2
    /\ Further
    /\ UNCHANGED <<chain, now, browser, tried>>

\* The page is read: it goes back to the pool, or its browser is closed.
Read ==
    /\ phase = "run"
    /\ Takes(BrowserLimit)
    /\ pooled' = FALSE /\ opened' = 0
    /\ Shown
    /\ UNCHANGED <<chain, launches, tried>>

\* Mutant: a browser whose page failed is left for the next launch to replace.
Broken_Left ==
    /\ phase = "run"
    /\ Takes(BrowserLimit)
    /\ phase' = IF pooled THEN "plain" ELSE "open"
    /\ pooled' = FALSE
    /\ UNCHANGED <<chain, at, answer, opened, launches, tried>>

\* The page fails: with the pool, the ordinary reader; else the next launch.
Broken ==
    /\ phase = "run"
    /\ Takes(BrowserLimit)
    /\ phase' = IF pooled THEN "plain" ELSE "open"
    /\ pooled' = FALSE /\ opened' = 0
    /\ UNCHANGED <<chain, at, answer, launches, tried>>

Done == phase = "done" /\ UNCHANGED vars

Browse == Plain \/ ReadPlain \/ Acquire \/ Launch \/ NoneOpens \/ Read \/ Broken

Next == GiveUp \/ Try \/ Skip \/ Ask \/ AskArchive \/ Browse \/ Done

Spec == Init /\ [][Next]_vars

-----------------------------------------------------------------------------
(* What content.ts makes of the answer. *)

Reprocessed == phase = "done" /\ answer # None /\ ~Walled(answer)

\* A chain that is over has returned the page it borrowed from the pool and
\* closed each browser that it launched, whichever page failed on the way: a
\* second launch must not forget the browser of the first one
\* (fetchWithBypass(), paywall.ts).
BrowsersClosed ==
    /\ phase \in {"next", "done", "plain", "open"} => ~pooled /\ opened = 0
    /\ opened <= 1

\* The caller says that the strategies are exhausted when it gives up
\* (content.ts): each step of the chain was tried. It fails: the chain ends with
\* a text that still shows a wall, which the caller does not take.
Exhausted ==
    phase = "done" /\ ~Reprocessed /\ Budget = 0 =>
        \A i \in 1 .. Len(chain) : chain[i] \in tried \cup {"custom", "block_js"}

\* One hanging step does not outlive the deadline of the chain (paywall.ts,
\* bypassUrl()): it ends within a unit of it, the least a step is given. It
\* fails: an answer and its text each take what is left, and the archives and
\* the browser have limits of their own.
DeadlineKept == phase = "done" /\ Budget > 0 => now <= Budget + 1
=============================================================================
