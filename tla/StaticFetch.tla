----------------------------- MODULE StaticFetch -----------------------------
(* One call of the static fetch API (src/webfetch-api.ts): a chain of pages   *)
(* that redirect to each other, a few attempts at each, every attempt over a  *)
(* transport of its own, and one abort signal for the caller and the timeout. *)
EXTENDS Naturals, FiniteSets

CONSTANTS
    Pages,          \* URLs
    OriginOf,       \* the origin of each page
    MaxRedirects,   \* redirects that are followed
    MaxRetries,     \* further attempts at a page
    MaxBytes,       \* chunks of all bodies together
    None

Attempts == 1 .. (MaxRedirects + 1) * (MaxRetries + 1)

VARIABLES
    phase,      \* what the call waits for, "new" or "done"
    after,      \* where the call goes when its transport is closed
    page,       \* the page asked for
    seen,       \* the pages of the chain
    headers,    \* of the next request: "caller" with those of the caller, or "plain"
    attempt,    \* attempts at this page before the present one
    latest,     \* attempts of the call
    transport,  \* per attempt: "none", "pending", "open", "failed" or "closed"
    response,   \* per attempt: "none", "pending", "open", "lost" or "disposed"
    remaining,  \* bytes that may still be read
    signal,     \* None, or why it was aborted: "timeout" or "aborted"
    sent,       \* the requests made: <<page, headers>>
    result      \* None, "content", "failed", "timeout" or "aborted"

chain == <<page, seen, headers>>
wires == <<transport, response, sent>>
vars == <<phase, after, chain, attempt, latest, wires, remaining, signal, result>>

Init ==
    /\ phase = "new" /\ after = None
    /\ page \in Pages /\ seen = {page} /\ headers = "caller"
    /\ attempt = 0 /\ latest = 0
    /\ transport = [n \in Attempts |-> "none"]
    /\ response = [n \in Attempts |-> "none"]
    /\ remaining = MaxBytes
    /\ signal \in {None, "aborted"}
    /\ sent = {} /\ result = None

Goto(p) == phase' = p /\ UNCHANGED <<after, result>>
Return(r) == phase' = "done" /\ result' = r /\ UNCHANGED after

\* The finally of an attempt: its transport is closed before the call goes on.
Finally(p, r) == phase' = "close" /\ after' = p /\ result' = r

Is(p) == phase = p /\ signal = None

\* The caller aborts, or the timer of the call runs out, until it is disposed.
Abort(reason) ==
    /\ phase \notin {"new", "done"} /\ signal = None
    /\ signal' = reason
    /\ UNCHANGED <<phase, after, chain, attempt, latest, wires, remaining, result>>

Start ==
    /\ phase = "new"
    /\ IF signal = None THEN Goto("validate") ELSE Return(signal)
    /\ UNCHANGED <<chain, attempt, latest, wires, remaining, signal>>

\* Mutant: a body is read to its end.
Aborted_Reads ==
    /\ signal # None
    /\ \/ phase \in {"validate", "create", "sleep", "extract", "parse"} /\ Return(signal)
       \/ phase = "request" /\ Finally("done", signal)
    /\ UNCHANGED <<chain, attempt, latest, wires, remaining, signal>>

\* raceWithAbort(): whatever the call waits for, the abort ends the wait. An
\* attempt at hand is cleaned up first.
Aborted ==
    /\ signal # None
    /\ \/ phase \in {"validate", "create", "sleep", "extract", "parse"} /\ Return(signal)
       \/ phase \in {"request", "body"} /\ Finally("done", signal)
    /\ IF phase = "body" THEN response' = [response EXCEPT ![latest] = "disposed"]
       ELSE UNCHANGED response
    /\ UNCHANGED <<chain, attempt, latest, transport, sent, remaining, signal>>

\* The page is allowed, or its destination is refused.
Validated ==
    /\ Is("validate")
    /\ Goto("attempt") \/ Return("failed")
    /\ UNCHANGED <<chain, attempt, latest, wires, remaining, signal>>

Create ==
    /\ phase = "attempt"
    /\ IF signal = None
       THEN /\ latest' = latest + 1
            /\ transport' = [transport EXCEPT ![latest + 1] = "pending"]
            /\ Goto("create")
       ELSE Return(signal) /\ UNCHANGED <<latest, transport>>
    /\ UNCHANGED <<chain, attempt, response, sent, remaining, signal>>

\* Mutant: a transport that comes after the abort is dropped.
Created_Dropped(n) ==
    /\ transport[n] = "pending"
    /\ transport' = [transport EXCEPT ![n] = "open"]
    /\ IF phase = "create"
       THEN /\ Goto("request") /\ sent' = sent \cup {<<page, headers>>}
            /\ response' = [response EXCEPT ![n] = "pending"]
       ELSE UNCHANGED <<phase, after, result, sent, response>>
    /\ UNCHANGED <<chain, attempt, latest, remaining, signal>>

\* The transport is there and the request is made over it; after an abort the
\* late transport is closed.
Created(n) ==
    /\ transport[n] = "pending"
    /\ transport' = [transport EXCEPT ![n] = IF signal = None THEN "open" ELSE "closed"]
    /\ IF signal = None
       THEN /\ Goto("request") /\ sent' = sent \cup {<<page, headers>>}
            /\ response' = [response EXCEPT ![n] = "pending"]
       ELSE UNCHANGED <<phase, after, result, sent, response>>
    /\ UNCHANGED <<chain, attempt, latest, remaining, signal>>

CreateFails(n) ==
    /\ transport[n] = "pending"
    /\ transport' = [transport EXCEPT ![n] = "failed"]
    /\ IF Is("create") THEN Return("failed") ELSE UNCHANGED <<phase, after, result>>
    /\ UNCHANGED <<chain, attempt, latest, response, sent, remaining, signal>>

-----------------------------------------------------------------------------
Arrives(state) == response' = [response EXCEPT ![latest] = state]

\* A retryable status, or an error of the network: again, while attempts are left.
Retry ==
    IF attempt < MaxRetries THEN Finally("sleep", None) ELSE Finally("done", "failed")

Fails(state) ==
    /\ Is("request") \/ Is("body")
    /\ Arrives(state)
    /\ Retry \/ Finally("done", "failed")
    /\ UNCHANGED <<chain, attempt, latest, transport, sent, remaining, signal>>

\* No answer, or a status that allows another attempt. Without one left the
\* body of such an answer is read like any other.
RequestFails == Is("request") /\ Fails("lost")

Busy ==
    /\ Is("request") /\ attempt < MaxRetries
    /\ Arrives("disposed") /\ Retry
    /\ UNCHANGED <<chain, attempt, latest, transport, sent, remaining, signal>>

\* Mutant: the headers are made anew for each page.
HeadersFor_Anew(q) == IF OriginOf[q] = OriginOf[page] THEN "caller" ELSE "plain"

\* The headers for the next page: of another origin, without those of the caller.
HeadersFor(q) == IF OriginOf[q] = OriginOf[page] THEN headers ELSE "plain"

\* A redirect by the server or by the page itself.
Follow(q) ==
    IF Cardinality(seen) > MaxRedirects \/ q \in seen
    THEN Finally("done", "failed") /\ UNCHANGED chain
    ELSE /\ Finally("validate", None)
         /\ page' = q /\ seen' = seen \cup {q} /\ headers' = HeadersFor(q)

Redirected(q) ==
    /\ Is("request")
    /\ Arrives("disposed") /\ Follow(q)
    /\ UNCHANGED <<attempt, latest, transport, sent, remaining, signal>>

Answered ==
    /\ Is("request")
    /\ Arrives("open") /\ Goto("body")
    /\ UNCHANGED <<chain, attempt, latest, transport, sent, remaining, signal>>

\* Bytes of all pages and attempts count against one budget.
Chunk ==
    /\ Is("body")
    /\ IF remaining > 0
       THEN remaining' = remaining - 1 /\ UNCHANGED <<phase, after, result, response>>
       ELSE Arrives("disposed") /\ Finally("done", "failed") /\ UNCHANGED remaining
    /\ UNCHANGED <<chain, attempt, latest, transport, sent, signal>>

BodyFails == Is("body") /\ Fails("disposed")

BodyRead ==
    /\ Is("body")
    /\ Arrives("disposed")
    /\ \/ Finally("extract", None) /\ UNCHANGED chain
       \/ \E q \in Pages : Follow(q)
    /\ UNCHANGED <<attempt, latest, transport, sent, remaining, signal>>

Close ==
    /\ phase = "close"
    /\ transport' = [transport EXCEPT ![latest] = "closed"]
    /\ Goto("cleanup")
    /\ UNCHANGED <<chain, attempt, latest, response, sent, remaining, signal>>

\* boundedCleanup(): the wait for the close ends with it, with the signal or
\* after a moment.
CleanedUp ==
    /\ phase = "cleanup"
    /\ phase' = after /\ after' = None
    /\ attempt' = IF after = "validate" THEN 0 ELSE attempt
    /\ UNCHANGED <<chain, latest, wires, remaining, signal, result>>

Slept ==
    /\ Is("sleep")
    /\ attempt' = attempt + 1 /\ Goto("attempt")
    /\ UNCHANGED <<chain, latest, wires, remaining, signal>>

\* A response that comes after the abort is cancelled.
ResponseLate(n) ==
    /\ response[n] = "pending" /\ signal # None
    /\ \E state \in {"lost", "disposed"} : response' = [response EXCEPT ![n] = state]
    /\ UNCHANGED <<phase, after, chain, attempt, latest, transport, sent, remaining, signal, result>>

-----------------------------------------------------------------------------
\* createResult(): a status or a content that is refused whatever the signal
\* says, a page extracted at once, or a PDF for its parser.
Refuse ==
    /\ phase = "extract"
    /\ Return("failed")
    /\ UNCHANGED <<chain, attempt, latest, wires, remaining, signal>>

Extract ==
    /\ Is("extract")
    /\ Return("content") \/ Return("failed") \/ Goto("parse")
    /\ UNCHANGED <<chain, attempt, latest, wires, remaining, signal>>

Parsed ==
    /\ Is("parse")
    /\ Return("content") \/ Return("failed")
    /\ UNCHANGED <<chain, attempt, latest, wires, remaining, signal>>

Done == phase = "done" /\ (\A n \in Attempts : transport[n] # "pending") /\ UNCHANGED vars

Network ==
    \/ \E n \in Attempts : Created(n) \/ CreateFails(n) \/ ResponseLate(n)
    \/ Validated \/ RequestFails \/ Busy \/ (\E q \in Pages : Redirected(q)) \/ Answered
    \/ Chunk \/ BodyFails \/ BodyRead \/ Parsed

Own == Start \/ Aborted \/ Create \/ Close \/ CleanedUp \/ Slept \/ Refuse \/ Extract

Next == (\E reason \in {"timeout", "aborted"} : Abort(reason)) \/ Own \/ Network \/ Done

\* The timer of the call and those of a retry and a clean-up run out; a site,
\* a resolver, a transport or a parser may never answer.
Fairness == WF_vars(Own) /\ WF_vars(Abort("timeout"))

Spec == Init /\ [][Next]_vars /\ Fairness

-----------------------------------------------------------------------------
\* An attempt begins, and the call ends, with every transport before it closed,
\* also one that comes when nobody waits for it any more.
TransportsClosed ==
    \A n \in Attempts :
        transport[n] = "open" => n = latest /\ phase \in {"request", "body", "close"}

\* A request with the headers of the caller never goes to an origin beyond a
\* redirect that left the first one, wherever the chain leads afterwards.
HeadersStay ==
    \A x, y \in sent : x[2] = "caller" /\ y[2] = "caller" => OriginOf[x[1]] = OriginOf[y[1]]

\* The call ends: whatever hangs, the timeout ends it.
FetchEnds == <>(phase = "done")
=============================================================================
