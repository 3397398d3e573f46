---------------------------- MODULE EngineSearch -----------------------------
(* searchWeb() of src/search.ts: every engine is asked at once, none is       *)
(* waited for beyond its deadline, an engine that keeps failing is left alone *)
(* for a while, and what was found is cached by its query.                    *)
EXTENDS Naturals, FiniteSets

CONSTANTS
    Searches,       \* searches for one and the same query
    Engines,
    Urls,           \* results that an engine may find
    Profiles,       \* rerank profiles (goggles)
    Threshold,      \* failures in a row that cool an engine down
    Cooldown, Ttl,  \* of an engine and of a cached search, in ticks
    MaxNow,
    None

VARIABLES
    now,
    profile,    \* of each search
    phase,      \* "new", "asking" or "done"
    answer,     \* per search and engine: None, "asked", "read" or what went wrong
    hits,       \* per search and engine: the URLs of its results
    fails,      \* per engine: failures in a row
    coolUntil,  \* per engine: 0, or the time when it is asked again
    cache,      \* None or the last search stored: [at, found, profile]
    found,      \* per search: the engines that found each URL
    order       \* per search: the profile that its results are ranked by

vars == <<now, profile, phase, answer, hits, fails, coolUntil, cache, found, order>>

Nothing == [u \in Urls |-> {}]

Init ==
    /\ now = 1
    /\ profile \in [Searches -> Profiles]
    /\ phase = [s \in Searches |-> "new"]
    /\ answer = [s \in Searches |-> [e \in Engines |-> None]]
    /\ hits = [s \in Searches |-> [e \in Engines |-> {}]]
    /\ fails = [e \in Engines |-> 0] /\ coolUntil = [e \in Engines |-> 0]
    /\ cache = None
    /\ found = [s \in Searches |-> Nothing]
    /\ order = [s \in Searches |-> None]

Lapsed(e) == coolUntil[e] # 0 /\ now >= coolUntil[e]

\* isEngineAvailable(): also one whose cooldown began before the threshold.
Available(e) == coolUntil[e] = 0 \/ Lapsed(e) \/ fails[e] < Threshold

Fresh == cache # None /\ now - cache.at <= Ttl

\* getCachedSearch(): whatever profile the cached results were ranked by.
Cached(s) ==
    /\ phase[s] = "new"
    /\ Fresh
    /\ phase' = [phase EXCEPT ![s] = "done"]
    /\ found' = [found EXCEPT ![s] = cache.found]
    /\ order' = [order EXCEPT ![s] = cache.profile]
    /\ UNCHANGED <<now, profile, answer, hits, fails, coolUntil, cache>>

Ask(s) ==
    /\ phase[s] = "new"
    /\ ~Fresh
    /\ phase' = [phase EXCEPT ![s] = "asking"]
    /\ answer' = [answer EXCEPT ![s] =
           [e \in Engines |-> IF Available(e) THEN "asked" ELSE "cooled_down"]]
    /\ fails' = [e \in Engines |-> IF Lapsed(e) THEN 0 ELSE fails[e]]
    /\ coolUntil' = [e \in Engines |-> IF Lapsed(e) THEN 0 ELSE coolUntil[e]]
    /\ UNCHANGED <<now, profile, hits, cache, found, order>>

\* A response of the engine, read when all engines are through; or None when
\* smartFetch() could not reach it.
Answers(s, e, status, us) ==
    /\ answer[s][e] = "asked"
    /\ status = "read" \/ us = {}
    /\ answer' = [answer EXCEPT ![s][e] = status]
    /\ hits' = [hits EXCEPT ![s][e] = us]
    /\ UNCHANGED <<now, profile, phase, fails, coolUntil, cache, found, order>>

\* recordEngineFailure() for the engines of a set.
Blame(es, base, until) ==
    /\ fails' = [e \in Engines |-> IF e \in es THEN base[e] + 1 ELSE base[e]]
    /\ coolUntil' = [e \in Engines |->
           IF e \in es /\ base[e] + 1 >= Threshold THEN now + Cooldown ELSE until[e]]

\* The fetch throws, or the deadline of the engine passes: a failure at once.
Fails(s, e, status) ==
    /\ answer[s][e] = "asked"
    /\ answer' = [answer EXCEPT ![s][e] = status]
    /\ Blame({e}, fails, coolUntil)
    /\ UNCHANGED <<now, profile, phase, hits, cache, found, order>>

\* Mutant: an engine that finds a URL again takes it over.
Finders_Last(s, u) ==
    LET es == {e \in Engines : u \in hits[s][e]}
    IN  IF es = {} THEN {} ELSE {CHOOSE e \in es : TRUE}

Finders(s, u) == {e \in Engines : u \in hits[s][e]}

\* The results are merged and stored when every engine is through.
Merge(s) ==
    LET read == {e \in Engines : answer[s][e] = "read"}
        good == {e \in read : hits[s][e] # {}}
        all == [u \in Urls |-> Finders(s, u)]
    IN  /\ phase[s] = "asking" /\ \A e \in Engines : answer[s][e] # "asked"
        /\ phase' = [phase EXCEPT ![s] = "done"]
        /\ Blame((read \ good) \cup {e \in Engines : answer[s][e] = "quota"},
                 [e \in Engines |-> IF e \in good THEN 0 ELSE fails[e]],
                 [e \in Engines |-> IF e \in good THEN 0 ELSE coolUntil[e]])
        /\ found' = [found EXCEPT ![s] = all]
        /\ order' = [order EXCEPT ![s] = profile[s]]
        /\ cache' = IF all = Nothing THEN cache
                    ELSE [at |-> now, found |-> all, profile |-> profile[s]]
        /\ UNCHANGED <<now, profile, answer, hits>>

Tick ==
    /\ now < MaxNow /\ now' = now + 1
    /\ UNCHANGED <<profile, phase, answer, hits, fails, coolUntil, cache, found, order>>

Done == (\A s \in Searches : phase[s] = "done") /\ now = MaxNow /\ UNCHANGED vars

Deadline(s) == \E e \in Engines : Fails(s, e, "timeout")

Next ==
    \/ \E s \in Searches :
        \/ Cached(s) \/ Ask(s) \/ Merge(s) \/ Deadline(s)
        \/ \E e \in Engines :
            \/ \E status \in {"read", "quota", "http", "unreached"}, us \in SUBSET Urls :
                   Answers(s, e, status, us)
            \/ Fails(s, e, "error")
    \/ Tick
    \/ Done

\* The deadline of an engine passes; the engine itself may never answer.
Fairness ==
    \A s \in Searches : WF_vars(Deadline(s)) /\ WF_vars(Cached(s) \/ Ask(s) \/ Merge(s))

Spec == Init /\ [][Next]_vars /\ Fairness

-----------------------------------------------------------------------------
\* What a search that asked the engines shows is all that they found, each
\* result with every engine that found it.
Corroborated ==
    \A s \in Searches : phase[s] = "done" /\ (\E e \in Engines : answer[s][e] # None) =>
        \A e \in Engines, u \in Urls : e \in found[s][u] <=> u \in hits[s][e]

\* classifyEngineStatus(): the status that a search gives for an engine.
Status(s, e) ==
    IF answer[s][e] \in {"read", "unreached"}
    THEN IF hits[s][e] = {} THEN "empty" ELSE "ok"
    ELSE answer[s][e]

\* An engine that could not be reached is not shown as one that found nothing.
\* It fails: smartFetch() answers null, which counts as no results.
EmptyTrue ==
    \A s \in Searches, e \in Engines :
        phase[s] = "done" /\ Status(s, e) = "empty" => answer[s][e] # "unreached"

\* Results are ranked by the profile of their search. It fails for a cached one.
RankedAsAsked == \A s \in Searches : phase[s] = "done" => order[s] = profile[s]

\* Every search ends, whatever its engines do.
SearchEnds == \A s \in Searches : <>(phase[s] = "done")
=============================================================================
