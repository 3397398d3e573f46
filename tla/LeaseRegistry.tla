------------------------------- MODULE LeaseRegistry -------------------------------
(***********************************************************************************)
(* The lease registry of the Google CDP broker (class LeaseRegistry in             *)
(* bin/google-cdp-broker.mjs): which client is registered for which session, who   *)
(* holds a lease, on which target (browser tab) the lease runs, and which lease    *)
(* calls queue for a slot of their (session, provider) key.                        *)
(*                                                                                 *)
(* A lease() call is an element of Requests.  Each call returns at most one lease  *)
(* and creates at most one target, and the code names both with fresh UUIDs, so    *)
(* the call itself serves as the name of the lease and of the target it creates.   *)
(* Clock readings are abstracted to the comparisons sweep() makes: a lease is      *)
(* expired, a client is stale, an idle target is aged.                             *)
(***********************************************************************************)
EXTENDS Naturals, Sequences, FiniteSets

CONSTANTS Clients,        \* clientId values
          Sessions,       \* sessionId values
          Conns,          \* broker-made capabilities, one per connection
          Providers,      \* "google-search", "google-ai", "reddit"
          Requests,       \* lease() calls
          Cap,            \* providerCaps: provider -> number of slots
          GlobalCap,      \* globalCap
          MaxGeneration,  \* bound on browserGeneration, for TLC only
          None

Keys == Sessions \X Providers

Registration == [session : Sessions, conn : Conns, stale : BOOLEAN]
Call == [client : Clients, session : Sessions, conn : Conns, provider : Providers]
Lease == [target : Requests, generation : Nat, expired : BOOLEAN]
Target == [provider : Providers, session : Sessions, generation : Nat,
           busy : BOOLEAN, aged : BOOLEAN, conn : Conns]

ASSUME CapAssumption == Cap \in [Providers -> Nat \ {0}]
ASSUME GlobalCapAssumption == GlobalCap \in Nat \ {0}
ASSUME RequestsAssumption == IsFiniteSet(Requests)
ASSUME NoneAssumption ==
  /\ None \notin Clients
  /\ None \notin Registration
  /\ None \notin Call
  /\ None \notin Lease
  /\ None \notin Target

VARIABLES clients,      \* this.clients: clientId -> registration
          sessions,     \* this.sessions: sessionId -> clientId
          calls,        \* arguments of each lease() call
          promise,      \* where each lease() call has got to
          leases,       \* this.leases
          activeByKey,  \* this.activeByKey
          targets,      \* this.targets
          waiters,      \* this.waiters: key -> FIFO of calls
          generation    \* this.browserGeneration

vars == <<clients, sessions, calls, promise, leases, activeByKey, targets, waiters,
          generation>>

\* "waiting": in a queue; "drained": drain() has allocated its lease and the
\* callback that resolves the promise has not run yet.
Phases == {"idle", "waiting", "drained", "resolved", "rejected"}

TypeOK ==
  /\ clients \in [Clients -> Registration \cup {None}]
  /\ sessions \in [Sessions -> Clients \cup {None}]
  /\ calls \in [Requests -> Call \cup {None}]
  /\ promise \in [Requests -> Phases]
  /\ leases \in [Requests -> Lease \cup {None}]
  /\ activeByKey \in [Keys -> SUBSET Requests]
  /\ targets \in [Requests -> Target \cup {None}]
  /\ waiters \in [Keys -> Seq(Requests)]
  /\ generation \in Nat

Init ==
  /\ clients = [c \in Clients |-> None]
  /\ sessions = [s \in Sessions |-> None]
  /\ calls = [r \in Requests |-> None]
  /\ promise = [r \in Requests |-> "idle"]
  /\ leases = [r \in Requests |-> None]
  /\ activeByKey = [k \in Keys |-> {}]
  /\ targets = [t \in Requests |-> None]
  /\ waiters = [k \in Keys |-> <<>>]
  /\ generation = 1

----------------------------------------------------------------------------
Live == {r \in Requests : leases[r] # None}
KeyOf(r) == <<calls[r].session, calls[r].provider>>
ActiveOf(p) == {r \in Live : calls[r].provider = p}
LeasesOf(c) == {r \in Live : calls[r].client = c}

\* assertClient() accepts this identity.
Asserted(c, s, conn) ==
  /\ clients[c] # None
  /\ clients[c].session = s
  /\ clients[c].conn = conn

\* The registrations after the clients in C had their lastHeartbeat set to now.
Heard(C) == [c \in Clients |-> IF c \in C /\ clients[c] # None
                               THEN [clients[c] EXCEPT !.stale = FALSE]
                               ELSE clients[c]]

\* Mutant: allocate() forgets that a target is busy.
ReusableBusy(pool, r, args, gen, t) ==
  /\ pool[t] # None
  /\ pool[t].provider = args[r].provider
  /\ pool[t].session = args[r].session
  /\ pool[t].generation = gen

\* A target of pool that allocate() may reuse for call r.
Reusable(pool, r, args, gen, t) ==
  /\ pool[t] # None
  /\ pool[t].provider = args[r].provider
  /\ pool[t].session = args[r].session
  /\ pool[t].generation = gen
  /\ ~pool[t].busy

\* Mutant: allocate() may create a target while an idle one is left.
PlacedFreely(G, args, pool, gen, place) ==
  /\ \A r, q \in G : place[r] = place[q] => r = q
  /\ \A r \in G : \/ Reusable(pool, r, args, gen, place[r])
                  \/ place[r] = r /\ pool[r] = None

\* allocate() finds a target for every call of G: an idle one of its key, or, when
\* none is left, a new one.
Placed(G, args, pool, gen, place) ==
  /\ \A r, q \in G : place[r] = place[q] => r = q
  /\ \A r \in G :
       \/ Reusable(pool, r, args, gen, place[r])
       \/ /\ place[r] = r /\ pool[r] = None
          /\ \A t \in Requests :
               Reusable(pool, r, args, gen, t) => \E q \in G : place[q] = t

\* allocate() and createTarget(): the leases, the key index and the targets once every
\* call of G has its lease.
Allocated(G, args, base, pool, gen, place) ==
  /\ leases' = [r \in Requests |->
       IF r \in G
       THEN [target |-> place[r], generation |-> gen, expired |-> FALSE]
       ELSE base[r]]
  /\ targets' = [t \in Requests |->
       CASE t \notin {place[r] : r \in G} -> pool[t]
         [] t \in {place[r] : r \in G} /\ pool[t] # None ->
              [pool[t] EXCEPT !.busy = TRUE, !.aged = FALSE]
         [] OTHER ->
              [provider |-> args[t].provider, session |-> args[t].session,
               generation |-> gen, busy |-> TRUE, aged |-> FALSE,
               conn |-> args[t].conn]]

----------------------------------------------------------------------------
\* Mutant: register() does not keep the capability.
RegisterNoCapability(c, s, conn) ==
  /\ clients[c] # None => clients[c].conn = conn /\ clients[c].session = s
  /\ sessions[s] \in {None, c}
  /\ clients' = [clients EXCEPT ![c] = [session |-> s, conn |-> None, stale |-> FALSE]]
  /\ sessions' = [sessions EXCEPT ![s] = c]
  /\ UNCHANGED <<calls, promise, leases, activeByKey, targets, waiters, generation>>

Register(c, s, conn) ==
  /\ clients[c] # None => clients[c].conn = conn /\ clients[c].session = s
  /\ sessions[s] \in {None, c}
  /\ clients' = [clients EXCEPT ![c] = [session |-> s, conn |-> conn, stale |-> FALSE]]
  /\ sessions' = [sessions EXCEPT ![s] = c]
  /\ UNCHANGED <<calls, promise, leases, activeByKey, targets, waiters, generation>>

\* What lease() does first for every call it accepts.
Called(r, call) ==
  /\ promise[r] = "idle"
  /\ Asserted(call.client, call.session, call.conn)
  /\ calls' = [calls EXCEPT ![r] = call]
  /\ clients' = Heard({call.client})
  /\ UNCHANGED <<sessions, generation>>

AtKeyCap(call) ==
  Cardinality(activeByKey[<<call.session, call.provider>>]) >= Cap[call.provider]

\* Mutant: lease() compares with the caps one too late.
AtCapacityLate(call) ==
  \/ Cardinality(Live) > GlobalCap
  \/ Cardinality(ActiveOf(call.provider)) > Cap[call.provider]

AtCapacity(call) ==
  \/ Cardinality(Live) >= GlobalCap
  \/ Cardinality(ActiveOf(call.provider)) >= Cap[call.provider]

\* lease(): the key is full, so the call joins the key's queue.
LeaseEnqueue(r, call) ==
  /\ Called(r, call)
  /\ AtKeyCap(call)
  /\ waiters' = [waiters EXCEPT ![<<call.session, call.provider>>] = Append(@, r)]
  /\ promise' = [promise EXCEPT ![r] = "waiting"]
  /\ UNCHANGED <<leases, activeByKey, targets>>

\* lease(): the key has a free slot but the provider or the broker has none.
LeaseRefuse(r, call) ==
  /\ Called(r, call)
  /\ ~AtKeyCap(call)
  /\ AtCapacity(call)
  /\ promise' = [promise EXCEPT ![r] = "rejected"]
  /\ UNCHANGED <<leases, activeByKey, targets, waiters>>

\* lease(): a slot is free and the call takes it.
LeaseAllocate(r, call) ==
  /\ Called(r, call)
  /\ ~AtKeyCap(call)
  /\ ~AtCapacity(call)
  /\ \E place \in [{r} -> Requests] :
       /\ Placed({r}, calls', targets, generation, place)
       /\ Allocated({r}, calls', leases, targets, generation, place)
  /\ activeByKey' = [activeByKey EXCEPT ![<<call.session, call.provider>>] = @ \cup {r}]
  /\ promise' = [promise EXCEPT ![r] = "resolved"]
  /\ UNCHANGED waiters

\* The microtask of drain(): finishWaiter() resolves the promise of a drained waiter.
Settle(r) ==
  /\ promise[r] = "drained"
  /\ promise' = [promise EXCEPT ![r] = "resolved"]
  /\ UNCHANGED <<clients, sessions, calls, leases, activeByKey, targets, waiters,
                 generation>>

\* Mutant: the timer rejects the call and leaves its waiter in the queue.
LeaveNothing(r) ==
  /\ promise[r] = "waiting"
  /\ promise' = [promise EXCEPT ![r] = "rejected"]
  /\ UNCHANGED <<sessions, calls, leases, activeByKey, targets, waiters, generation>>

\* removeWaiter() and finishWaiter() with an error.
LeaveQueue(r) ==
  /\ promise[r] = "waiting"
  /\ \E i \in DOMAIN waiters[KeyOf(r)] :
       /\ waiters[KeyOf(r)][i] = r
       /\ waiters' = [waiters EXCEPT ![KeyOf(r)] =
                        SubSeq(@, 1, i - 1) \o SubSeq(@, i + 1, Len(@))]
  /\ promise' = [promise EXCEPT ![r] = "rejected"]
  /\ UNCHANGED <<sessions, calls, leases, activeByKey, targets, generation>>

\* The wait timer of enqueue() fires.
WaitTimeout(r) == LeaveQueue(r) /\ UNCHANGED clients

\* The abort listener of enqueue(): the call leaves the queue if it is still there, and
\* its promise is rejected if it is not settled.  A cancel frame is also heard as a
\* heartbeat of its client.
Abort(r, heard) ==
  /\ clients' = Heard(heard)
  /\ \/ LeaveQueue(r)
     \/ /\ promise[r] = "drained"
        /\ promise' = [promise EXCEPT ![r] = "rejected"]
        /\ UNCHANGED <<sessions, calls, leases, activeByKey, targets, waiters, generation>>

\* A request that assertClient() accepts and that fails later: only the heartbeat
\* is recorded.
Touch(c, s, conn) ==
  /\ Asserted(c, s, conn)
  /\ clients' = Heard({c})
  /\ UNCHANGED <<sessions, calls, promise, leases, activeByKey, targets, waiters,
                 generation>>

\* heartbeat() with a leaseId renews that lease, without one every lease of the
\* client; a lease past its expiry that sweep() has not met yet is renewed too.
Heartbeat(c, s, conn, L) ==
  /\ Asserted(c, s, conn)
  /\ L = LeasesOf(c) \/ \E r \in LeasesOf(c) : L = {r}
  /\ clients' = Heard({c})
  /\ leases' = [r \in Requests |-> IF r \in L THEN [leases[r] EXCEPT !.expired = FALSE]
                                              ELSE leases[r]]
  /\ UNCHANGED <<sessions, calls, promise, activeByKey, targets, waiters, generation>>

----------------------------------------------------------------------------
\* retireLease() for every lease of a set, and drain() after each: the release, cancel,
\* disconnect, bump and sweep handlers share it.

\* Mutant: disconnect() forgets the waiters.
NeverCleared(leaving, k) == FALSE

\* disconnect() first takes the waiters of a leaving client out of their queues.  They
\* are the queues of its session: QueueOwner says that all their calls are its own.
Cleared(leaving, k) == \E c \in leaving : clients[c].session = k[1]

\* Mutant: a handler that ends several leases wakes one waiter.
WokenOnce(L, leaving, k) ==
  IF Cleared(leaving, k) \/ L \cap activeByKey[k] = {} \/ waiters[k] = <<>> THEN 0 ELSE 1

\* How many waiters of key k the retirement of L wakes: drain() wakes one per slot.
WokenAt(L, leaving, k) ==
  LET freed == Cardinality(L \cap activeByKey[k])
  IN IF Cleared(leaving, k) THEN 0
     ELSE IF freed <= Len(waiters[k]) THEN freed ELSE Len(waiters[k])

\* Mutant: drain() pops the queue at the wrong end.
WokenLast(L, leaving, k) ==
  {waiters[k][Len(waiters[k]) + 1 - i] : i \in 1 .. WokenAt(L, leaving, k)}

WokenOf(L, leaving, k) == {waiters[k][i] : i \in 1 .. WokenAt(L, leaving, k)}
Woken(L, leaving) == UNION {WokenOf(L, leaving, k) : k \in Keys}

\* The targets once the leases of L are retired and the targets of evicted deleted.
Freed(L, dirty, gen, evicted) ==
  [t \in Requests |->
     CASE t \in evicted \/ targets[t] = None -> None
       [] t \notin evicted /\ targets[t] # None /\ t \in {leases[r].target : r \in L} ->
            IF dirty \/ targets[t].generation # gen THEN None
            ELSE [targets[t] EXCEPT !.busy = FALSE, !.aged = FALSE]
       [] OTHER -> targets[t]]

\* retireLease() takes the leases of L out of the index of their key.
Unindexed(L, k) == activeByKey[k] \ L

\* No idle target waits for its eviction while a call of its key queues (WarmPoolBounded,
\* NoLostWakeup), so it makes no difference that sweep() evicts after the drains.
Retire(L, dirty, gen, heard, leaving, evicted) ==
  LET G == Woken(L, leaving)
      base == [r \in Requests |-> IF r \in L THEN None ELSE leases[r]]
      pool == Freed(L, dirty, gen, evicted)
  IN /\ \E place \in [G -> Requests] :
          /\ Placed(G, calls, pool, gen, place)
          /\ Allocated(G, calls, base, pool, gen, place)
     /\ activeByKey' =
          [k \in Keys |-> Unindexed(L, k) \cup WokenOf(L, leaving, k)]
     /\ waiters' = [k \in Keys |->
          IF Cleared(leaving, k) THEN <<>>
          ELSE SubSeq(waiters[k], WokenAt(L, leaving, k) + 1, Len(waiters[k]))]
     /\ promise' = [r \in Requests |->
          IF r \in G THEN "drained"
          ELSE IF promise[r] = "waiting" /\ calls[r].client \in leaving THEN "rejected"
          ELSE promise[r]]
     /\ clients' = [c \in Clients |->
          IF c \in leaving THEN None ELSE Heard(heard \cup {calls[r].client : r \in G})[c]]
     /\ sessions' = [s \in Sessions |-> IF sessions[s] \in leaving THEN None
                                                                 ELSE sessions[s]]
     /\ generation' = gen
     /\ UNCHANGED calls

\* Mutant: disconnect() leaves the warm targets to the next owner of the session.
NoTargets(leaving) == {}

\* The targets disconnect() deletes: every target of a leaving client's session.
TargetsOf(leaving) ==
  {t \in Requests : targets[t] # None /\
                    \E c \in leaving : clients[c].session = targets[t].session}

\* release(): findLease() accepts the identity and the lease.
Release(r, c, s, conn) ==
  /\ Asserted(c, s, conn)
  /\ r \in LeasesOf(c)
  /\ leases[r].generation = generation
  /\ Retire({r}, FALSE, generation, {c}, {}, {})

\* cancelLease(): the caller no longer wants the lease it was given.
CancelLease(r) ==
  /\ r \in Live
  /\ promise[r] = "resolved"
  /\ Retire({r}, TRUE, generation, {}, {}, {})

\* disconnect() and close() of a registered client.
Disconnect(c) ==
  /\ clients[c] # None
  /\ Retire({r \in LeasesOf(c) : calls[r].conn = clients[c].conn}, TRUE, generation,
            {}, {c}, TargetsOf({c}))

\* bumpBrowserGeneration(): the browser is gone and with it every target.
BumpBrowserGeneration ==
  /\ generation < MaxGeneration
  /\ Retire(Live, TRUE, generation + 1, {}, {},
            {t \in Requests : targets[t] # None /\ targets[t].generation # generation + 1})

\* Mutant: sweep() trusts a lease as long as its client is heard of.
OverdueOfStale == {r \in Live : leases[r].expired /\ clients[calls[r].client].stale}

Overdue == {r \in Live : leases[r].expired}

\* sweep(): expired leases, then the clients that are still stale (a waiter that the
\* first loop woke refreshed its client), then the targets idle for too long.
Sweep ==
  LET stale == {c \in Clients : clients[c] # None /\ clients[c].stale}
      leaving == stale \ {calls[r].client : r \in Woken(Overdue, {})}
      aged == {t \in Requests : targets[t] # None /\ ~targets[t].busy /\ targets[t].aged}
  IN Retire(Overdue \cup UNION {LeasesOf(c) : c \in leaving}, TRUE, generation,
            {}, leaving, TargetsOf(leaving) \cup aged)

\* Time passes: a lease's expiresAt, a client's lastHeartbeat + orphanTtlMs, an idle
\* target's idleSince + idleTargetTtlMs.
Expire(r) ==
  /\ r \in Live
  /\ ~leases[r].expired
  /\ leases' = [leases EXCEPT ![r].expired = TRUE]
  /\ UNCHANGED <<clients, sessions, calls, promise, activeByKey, targets, waiters,
                 generation>>

GoStale(c) ==
  /\ clients[c] # None
  /\ ~clients[c].stale
  /\ clients' = [clients EXCEPT ![c].stale = TRUE]
  /\ UNCHANGED <<sessions, calls, promise, leases, activeByKey, targets, waiters,
                 generation>>

Age(t) ==
  /\ targets[t] # None
  /\ ~targets[t].busy /\ ~targets[t].aged
  /\ targets' = [targets EXCEPT ![t].aged = TRUE]
  /\ UNCHANGED <<clients, sessions, calls, promise, leases, activeByKey, waiters,
                 generation>>

----------------------------------------------------------------------------
ClientStep(c, s, conn) ==
  \/ Register(c, s, conn)
  \/ Touch(c, s, conn)
  \/ \E L \in SUBSET LeasesOf(c) : Heartbeat(c, s, conn, L)
  \/ \E r \in Requests : Release(r, c, s, conn)

CallStep(r, call) ==
  \/ LeaseEnqueue(r, call)
  \/ LeaseRefuse(r, call)
  \/ LeaseAllocate(r, call)

RequestStep(r) ==
  \/ Settle(r)
  \/ WaitTimeout(r)
  \/ calls[r] # None /\ \E heard \in SUBSET {calls[r].client} : Abort(r, heard)
  \/ CancelLease(r)
  \/ Expire(r)
  \/ Age(r)

Next ==
  \/ \E c \in Clients, s \in Sessions, conn \in Conns : ClientStep(c, s, conn)
  \/ \E r \in Requests, call \in Call : CallStep(r, call)
  \/ \E r \in Requests : RequestStep(r)
  \/ \E c \in Clients : Disconnect(c) \/ GoStale(c)
  \/ BumpBrowserGeneration
  \/ Sweep

\* Callbacks run, and the sweep timer is an interval.
Fairness ==
  /\ \A r \in Requests : WF_vars(Settle(r))
  /\ WF_vars(Sweep)

Spec == Init /\ [][Next]_vars
FairSpec == Spec /\ Fairness

----------------------------------------------------------------------------
\* The caps of lease(): no provider and no broker ever has more live leases than its
\* cap, whatever drain() hands over while leases are released, swept or cancelled
\* without looking at the caps of other keys again.
CapacityRespected ==
  /\ Cardinality(Live) <= GlobalCap
  /\ \A p \in Providers : Cardinality(ActiveOf(p)) <= Cap[p]

\* this.activeByKey, the index lease() and drain() decide by, always agrees with
\* this.leases, the table everything else reads.
KeyIndexAgrees ==
  \A k \in Keys : activeByKey[k] = {r \in Live : KeyOf(r) = k}

\* allocate() hands a tab to one lease at a time, and a tab is marked busy exactly
\* while a live lease runs on it.
TargetExclusive ==
  /\ \A r, q \in Live : leases[r].target = leases[q].target => r = q
  /\ \A t \in Requests :
       targets[t] # None =>
         (targets[t].busy <=> \E r \in Live : leases[r].target = t)

\* No lease outlives its target, and the target serves the lease's own provider and
\* session: no delete in retireLease(), disconnect(), bumpBrowserGeneration() or
\* sweep() takes a tab that a lease still runs on.
LeaseHasItsTarget ==
  \A r \in Live :
    LET t == leases[r].target
    IN /\ targets[t] # None
       /\ targets[t].provider = calls[r].provider
       /\ targets[t].session = calls[r].session

\* drain() wakes one waiter per freed slot, and that is enough: whenever a call waits,
\* every slot of its key is taken, so some lease will end and wake it.
NoLostWakeup ==
  \A k \in Keys : waiters[k] # <<>> => Cardinality(activeByKey[k]) = Cap[k[2]]

\* Every live lease and every queued call belongs to the connection that is registered
\* for its session now: disconnect() leaves nothing behind that a later client of the
\* same name would own.
OwnedByRegistered ==
  \A r \in Requests :
    (r \in Live \/ promise[r] = "waiting") =>
      Asserted(calls[r].client, calls[r].session, calls[r].conn)

\* A warm target is never inherited: a lease runs on a tab that its own connection
\* created, even when another client has registered the same sessionId since
\* (the comment in disconnect()).
WarmTargetNotInherited ==
  \A r \in Live : targets[leases[r].target].conn = calls[r].conn

\* A browser generation leaves nothing behind: every lease and every target in the
\* registry is of the current one, so that findLease() never meets a stale one.
AllCurrentGeneration ==
  /\ \A r \in Live : leases[r].generation = generation
  /\ \A t \in Requests : targets[t] # None => targets[t].generation = generation

\* this.clients and this.sessions describe one bijection between clients and sessions.
SessionsAgree ==
  /\ \A c \in Clients : clients[c] # None => sessions[clients[c].session] = c
  /\ \A s \in Sessions : sessions[s] # None =>
       clients[sessions[s]] # None /\ clients[sessions[s]].session = s

\* The warm pool is bounded: a key never has more tabs, busy and idle, than its
\* provider has slots, because allocate() creates one only when none is idle.
WarmPoolBounded ==
  \A k \in Keys :
    Cardinality({t \in Requests : targets[t] # None /\
                                  <<targets[t].session, targets[t].provider>> = k})
      <= Cap[k[2]]

\* The queues hold exactly the calls that wait, each once, in the queue of its key.
QueueAgrees ==
  /\ \A k \in Keys : \A i, j \in DOMAIN waiters[k] : waiters[k][i] = waiters[k][j] => i = j
  /\ \A k \in Keys : \A i \in DOMAIN waiters[k] :
       promise[waiters[k][i]] = "waiting" /\ KeyOf(waiters[k][i]) = k
  /\ \A r \in Requests :
       promise[r] = "waiting" => \E i \in DOMAIN waiters[KeyOf(r)] : waiters[KeyOf(r)][i] = r

\* A lease id is good once: a lease that ended, by release, expiry, cancellation,
\* disconnect or bump, is never live again, and while it lives it keeps its target.
LeaseNeverRevived ==
  [][\A r \in Requests :
       /\ r \in Live /\ leases'[r] # None => leases'[r].target = leases[r].target
       /\ r \notin Live /\ leases'[r] # None => promise[r] \in {"idle", "waiting"}]_vars

\* Slots are handed over in order: a call that gets its lease from the queue leaves
\* nobody of its key waiting who had queued before it.
FirstComeFirstServed ==
  [][\A k \in Keys : \A i, j \in DOMAIN waiters[k] :
       i < j /\ promise'[waiters[k][j]] = "drained" => promise'[waiters[k][i]] # "waiting"]_vars

\* sweep() reclaims what a vanished client left behind: a lease that is not renewed ends,
\* and a client that is not heard of is forgotten, its queue and its tabs with it, even
\* though each slot handed to a waiter of its own counts as a sign of life.
AbandonedReclaimed ==
  /\ \A r \in Requests :
       (r \in Live /\ leases[r].expired) ~> (r \notin Live \/ ~leases[r].expired)
  /\ \A c \in Clients :
       (clients[c] # None /\ clients[c].stale) ~> (clients[c] = None \/ ~clients[c].stale)
=============================================================================
