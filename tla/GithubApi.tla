------------------------------ MODULE GithubApi ------------------------------
(* A call of the GitHub API (src/github-api.ts): requests that are tried      *)
(* again, the gh program as a last resort, and the answer of the pages that   *)
(* are made of it (src/github-pipeline.ts).                                   *)
EXTENDS Naturals

CONSTANTS
    MaxRetries,
    MaxChunks,      \* output of gh that is kept, in chunks
    None

VARIABLES
    phase,      \* "request", "pause", "gh", "logs", "answered", "thrown" or "none"
    page,       \* what the call is for: "data", "check" or "logs"
    token,      \* a credential, as it is remembered: None, "token" or "nobody";
                \* "asking" while gh auth token runs
    enabled,    \* the gh program is there and may be used
    tries,      \* requests that were made
    status,     \* of the last one: 200, 403, 404, 422, 429, 500, or 0 for the network
    proc,       \* the gh program: None, "runs", "killed" or "exited"
    chunks,     \* chunks of its output
    shown       \* the page has a log

vars == <<phase, page, token, enabled, tries, status, proc, chunks, shown>>

Init ==
    /\ phase = "request" /\ page \in {"data", "check", "logs"} /\ token = None
    /\ enabled \in BOOLEAN /\ tries = 0 /\ status = 200
    /\ proc = None /\ chunks = 0 /\ shown = FALSE

-----------------------------------------------------------------------------
\* ghFetch()

\* getToken() asks once and remembers the answer, none included: a variable of
\* the environment, or else gh, by a spawnSync() that has no time limit and
\* holds up the whole process.
Token == /\ phase = "request" /\ token = None /\ page # "logs"
         /\ token' \in {"token", "asking"}
         /\ UNCHANGED <<phase, page, enabled, tries, status, proc, chunks, shown>>

\* gh auth token ends, or there is no gh. It may never.
TokenTold == /\ token = "asking" /\ token' \in {"token", "nobody"}
             /\ UNCHANGED <<phase, page, enabled, tries, status, proc, chunks, shown>>

\* Another try may help, and there is one left.
Again == status' \in {429, 500, 0} /\ tries' <= MaxRetries

\* The caller of ghFetch() makes do with what it threw, or ghFetchWithFallback()
\* turns to gh after an answer that credentials might change.
Falls == enabled /\ page = "check" /\ status' \in {422, 429}

Request ==
    /\ phase = "request" /\ token \notin {None, "asking"} /\ tries' = tries + 1
    /\ status' \in {200, 403, 404, 422, 429, 500, 0}
    /\ phase' = CASE status' = 200 -> IF page = "check" THEN "logs" ELSE "answered"
                  [] Again -> "pause"
                  [] OTHER -> IF Falls THEN "gh" ELSE "thrown"
    /\ proc' = IF phase' = "gh" THEN "runs" ELSE None
    /\ UNCHANGED <<page, token, enabled, chunks, shown>>

Pause == /\ phase = "pause" /\ phase' = "request"
         /\ UNCHANGED <<page, token, enabled, tries, status, proc, chunks, shown>>

-----------------------------------------------------------------------------
\* execGh(): the program prints, ends, fails to start, floods or hangs.

\* ghRunLogs(), of a run or of the job of a check.
Logs ==
    /\ \/ phase = "logs" /\ proc # "runs"
       \/ phase = "request" /\ page = "logs"
    /\ IF enabled THEN phase' = "logs" /\ proc' = "runs" ELSE phase' = "none" /\ UNCHANGED proc
    /\ chunks' = 0
    /\ UNCHANGED <<page, token, enabled, tries, status, shown>>

\* What a failure of gh leaves: the error of the request, a page without the log.
GhFailed ==
    phase' = CASE phase = "gh" -> "thrown"
               [] phase = "logs" /\ page = "check" -> "answered"
               [] OTHER -> "none"

\* Mutant: the program is left to itself.
Kill_Not == "runs"

Kill == "killed"

Printed ==
    /\ phase \in {"gh", "logs"} /\ proc = "runs" /\ chunks' = chunks + 1
    /\ IF chunks' > MaxChunks THEN proc' = Kill /\ GhFailed ELSE UNCHANGED <<proc, phase>>
    /\ UNCHANGED <<page, token, enabled, tries, status, shown>>

GhExits ==
    /\ phase \in {"gh", "logs"} /\ proc = "runs" /\ proc' = "exited"
    /\ \/ /\ shown' = (phase = "logs")
          /\ phase' = IF phase = "gh" THEN "logs" ELSE "answered"
       \/ GhFailed /\ UNCHANGED shown
    /\ UNCHANGED <<page, token, enabled, tries, status, chunks>>

\* Mutant: gh has no time limit.
GhTimesOut_Never == FALSE

GhTimesOut ==
    /\ phase \in {"gh", "logs"} /\ proc = "runs" /\ proc' = Kill /\ GhFailed
    /\ UNCHANGED <<page, token, enabled, tries, status, chunks, shown>>

\* A check without a log, and a page of logs without gh.
NoLogs ==
    /\ phase = "none" /\ phase' = IF page = "check" THEN "answered" ELSE "thrown"
    /\ UNCHANGED <<page, token, enabled, tries, status, proc, chunks, shown>>

Over == phase \in {"answered", "thrown"}

Done == Over /\ UNCHANGED vars

Next ==
    \/ Token \/ TokenTold \/ Request \/ Pause \/ Logs \/ Printed \/ GhExits \/ GhTimesOut
    \/ NoLogs \/ Done

Spec == Init /\ [][Next]_vars /\ WF_vars(Token \/ Request \/ Pause \/ Logs \/ NoLogs)
             /\ WF_vars(GhTimesOut)

-----------------------------------------------------------------------------
\* A call ends whatever the API and the gh program do, for a request and a run
\* of gh by execGh() have a time limit and there are so many of the first; or gh
\* auth token never ends, which nothing limits.
CallEnds == <>Over \/ <>[](token = "asking")

\* "a hung gh invocation must not hang the process forever" (the comment on
\* EXEC_GH_TIMEOUT_MS). It fails: getToken() waits for gh without a limit.
NeverHangs == <>Over

\* When a call is over no program of it goes on.
NoneLeft == Over => proc # "runs"

\* What the API keeps failing at is asked of gh, if that is there. It fails: it
\* is not asked after 500.
GhAsked == phase = "thrown" /\ enabled /\ page = "check" /\ status = 500 => proc # None
=============================================================================
