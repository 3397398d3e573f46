-------------------------------- MODULE LeaseBroker --------------------------------
(***********************************************************************************)
(* The IPC server of the Google CDP broker in registry-only mode (accept, receive, *)
(* dispatch, operation and disconnect of class GoogleCdpBroker): connections send  *)
(* frames, the frames of one chunk are dispatched one after the other before any   *)
(* promise callback runs, and each lease frame stays in flight until its handler   *)
(* resumes.  The lease table itself is LeaseRegistry; every step of this module is *)
(* one of its steps or leaves it alone.                                            *)
(***********************************************************************************)
EXTENDS Naturals, Sequences, FiniteSets, TLAPS

CONSTANTS Clients, Sessions, Conns, Providers, Requests, Cap, GlobalCap, MaxGeneration, None,
          MaxInFlight       \* maxInFlight: requests in flight per connection

ASSUME MaxInFlightAssumption == MaxInFlight \in Nat \ {0}

VARIABLES clients, sessions, calls, promise, leases, activeByKey, targets, waiters, generation,
          bound,     \* state.clientId and state.sessionId of each connection
          status,    \* "open", "closing" (close was served, setImmediate is due), "closed"
          pending,   \* state.pending: lease frames in flight
          aborted,   \* lease frames whose AbortController has fired
          reply,     \* what the connection was answered
          turn       \* the connection whose chunk receive() is working through

registryVars == <<clients, sessions, calls, promise, leases, activeByKey, targets, waiters,
                  generation>>
brokerVars == <<bound, status, pending, aborted, reply, turn>>
vars == <<registryVars, brokerVars>>

Registry == INSTANCE LeaseRegistry

ASSUME CallAssumption == None \notin Registry!Call

Identity == [client : Clients, session : Sessions]

ASSUME IdentityAssumption == None \notin Identity

TypeOK ==
  /\ bound \in [Conns -> Identity \cup {None}]
  /\ status \in [Conns -> {"open", "closing", "closed"}]
  /\ pending \subseteq Requests
  /\ aborted \subseteq Requests
  /\ reply \in [Requests -> {"none", "lease", "fenced", "error", "unsent"}]
  /\ turn \in Conns \cup {None}

Init ==
  /\ Registry!Init
  /\ bound = [k \in Conns |-> None]
  /\ status = [k \in Conns |-> "open"]
  /\ pending = {}
  /\ aborted = {}
  /\ reply = [r \in Requests |-> "none"]
  /\ turn = None

----------------------------------------------------------------------------
\* Promise callbacks that are due; Node runs them before the next timer or socket event.
Microtasks == {r \in Requests : \/ promise[r] = "drained"
                                \/ r \in pending /\ promise[r] \in {"resolved", "rejected"}}

\* A frame of connection k is dispatched: its chunk is being worked through, or a new
\* chunk arrives when no callback is due.
Frame(k) == (turn = k \/ Microtasks = {}) /\ status[k] # "closed"
Received(k) == Frame(k) /\ turn' = k

\* identityFor() and assertClient() accept the connection's frames.
Serves(k) == bound[k] # None /\ Registry!Asserted(bound[k].client, bound[k].session, k)

InFlight(k) == {r \in pending : calls[r].conn = k}

\* dispatch() takes the frame: a slot of the in-flight limit is free.  Frames that are
\* answered by their own callbacks hold a slot too briefly to be counted here.
Admitted(k) == Received(k) /\ Cardinality(InFlight(k)) < MaxInFlight

\* Mutant: the connection forgets which session it registered.
RegisterFrameHalf(k, id) ==
  /\ Admitted(k)
  /\ bound[k] \in {None, id}
  /\ Registry!Register(id.client, id.session, k)
  /\ bound' = [bound EXCEPT ![k] = [client |-> id.client, session |-> None]]
  /\ UNCHANGED <<status, pending, aborted, reply>>

RegisterFrame(k, id) ==
  /\ Admitted(k)
  /\ bound[k] \in {None, id}
  /\ Registry!Register(id.client, id.session, k)
  /\ bound' = [bound EXCEPT ![k] = id]
  /\ UNCHANGED <<status, pending, aborted, reply>>

\* dispatch() and operation("lease") up to the await.
LeaseFrame(k, r, p) ==
  /\ Admitted(k)
  /\ Serves(k)
  /\ Registry!CallStep(r, [client |-> bound[k].client, session |-> bound[k].session,
                           conn |-> k, provider |-> p])
  /\ pending' = pending \cup {r}
  /\ UNCHANGED <<bound, status, aborted, reply>>

\* A client knows the id of a lease only from the answer to its lease frame.
ReleaseFrame(k, r) ==
  /\ Admitted(k)
  /\ reply[r] = "lease"
  /\ Serves(k)
  /\ Registry!Release(r, bound[k].client, bound[k].session, k)
  /\ UNCHANGED <<bound, status, pending, aborted, reply>>

HeartbeatFrame(k) ==
  /\ Admitted(k)
  /\ Serves(k)
  /\ \E L \in SUBSET Registry!LeasesOf(bound[k].client) :
       Registry!Heartbeat(bound[k].client, bound[k].session, k, L)
  /\ UNCHANGED <<bound, status, pending, aborted, reply>>

\* A frame that fails after assertClient(): an unknown or foreign lease, a bad provider.
FailingFrame(k) ==
  /\ Admitted(k)
  /\ Serves(k)
  /\ Registry!Touch(bound[k].client, bound[k].session, k)
  /\ UNCHANGED <<bound, status, pending, aborted, reply>>

\* operation("cancel"): it aborts the controller of a request still in flight, and needs
\* no slot of the limit itself.
CancelFrame(k, r) ==
  /\ Received(k)
  /\ Serves(k)
  /\ r \in InFlight(k)
  /\ IF promise[r] \in {"waiting", "drained"}
     THEN Registry!Abort(r, {bound[k].client})
     ELSE Registry!Touch(bound[k].client, bound[k].session, k)
  /\ aborted' = aborted \cup {r}
  /\ UNCHANGED <<bound, status, pending, reply>>

\* operation("close"): the registry forgets the client now, the connection is closed by
\* a setImmediate callback.
CloseFrame(k) ==
  /\ Admitted(k)
  /\ Serves(k)
  /\ Registry!Disconnect(bound[k].client)
  /\ status' = [status EXCEPT ![k] = "closing"]
  /\ UNCHANGED <<bound, pending, aborted, reply>>

\* Mutant: a closed socket does not tell the registry.
DisconnectSocket(k) ==
  /\ Microtasks = {}
  /\ status[k] # "closed"
  /\ status' = [status EXCEPT ![k] = "closed"]
  /\ aborted' = aborted \cup InFlight(k)
  /\ reply' = [r \in Requests |-> IF r \in InFlight(k) THEN "unsent" ELSE reply[r]]
  /\ pending' = pending \ InFlight(k)
  /\ turn' = None
  /\ UNCHANGED <<registryVars, bound>>

\* disconnect(state): the socket ended, failed or closed, or close's callback runs.
Disconnect(k) ==
  /\ Microtasks = {}
  /\ status[k] # "closed"
  /\ status' = [status EXCEPT ![k] = "closed"]
  /\ aborted' = aborted \cup InFlight(k)
  /\ reply' = [r \in Requests |-> IF r \in InFlight(k) THEN "unsent" ELSE reply[r]]
  /\ pending' = pending \ InFlight(k)
  /\ IF Serves(k) THEN Registry!Disconnect(bound[k].client) ELSE UNCHANGED registryVars
  /\ turn' = None
  /\ UNCHANGED bound

----------------------------------------------------------------------------
Callback(r) ==
  /\ r \in Microtasks
  /\ turn' = None

\* The callback drain() left: the waiter's promise is resolved.
Settle(r) ==
  /\ Callback(r)
  /\ Registry!Settle(r)
  /\ UNCHANGED <<bound, status, pending, aborted, reply>>

\* Mutant: dispatch() answers with the lease although the request was aborted.
ResumeUnfenced(r) ==
  /\ Callback(r)
  /\ r \in pending
  /\ pending' = pending \ {r}
  /\ reply' = [reply EXCEPT ![r] = IF promise[r] = "resolved" THEN "lease" ELSE "error"]
  /\ UNCHANGED <<registryVars, bound, status, aborted>>

\* The handler of a lease frame resumes after its await, and dispatch() answers.
Resume(r) ==
  /\ Callback(r)
  /\ r \in pending
  /\ pending' = pending \ {r}
  /\ \/ /\ promise[r] = "resolved" /\ r \notin aborted
        /\ reply' = [reply EXCEPT ![r] = "lease"]
        /\ UNCHANGED registryVars
     \/ /\ promise[r] = "resolved" /\ r \in aborted
        /\ reply' = [reply EXCEPT ![r] = "fenced"]
        /\ IF leases[r] # None THEN Registry!CancelLease(r) ELSE UNCHANGED registryVars
     \/ /\ promise[r] = "rejected"
        /\ reply' = [reply EXCEPT ![r] = "error"]
        /\ UNCHANGED registryVars
  /\ UNCHANGED <<bound, status, aborted>>

----------------------------------------------------------------------------
Timer == Microtasks = {} /\ turn' = None /\ UNCHANGED <<bound, status, pending, reply>>

\* Mutant: the wait timer is not set.
WaitTimerUnset(r) == FALSE

\* The wait timer of a queued call, and the sweep interval.
WaitTimer(r) == Timer /\ Registry!WaitTimeout(r) /\ UNCHANGED aborted
SweepTimer == Timer /\ Registry!Sweep /\ UNCHANGED aborted

\* Mutant: the deadline rejects the call and leaves its waiter in the queue.
DeadlineOnly(r) ==
  /\ Timer
  /\ r \in pending
  /\ promise[r] = "waiting"
  /\ promise' = [promise EXCEPT ![r] = "rejected"]
  /\ UNCHANGED <<clients, sessions, calls, leases, activeByKey, targets, waiters, generation>>
  /\ aborted' = aborted \cup {r}

\* The deadlineAt timer of dispatch() aborts the controller of a queued lease frame.
Deadline(r) ==
  /\ Timer
  /\ r \in pending
  /\ Registry!Abort(r, {})
  /\ aborted' = aborted \cup {r}

Clock ==
  /\ \/ \E r \in Requests : Registry!Expire(r) \/ Registry!Age(r)
     \/ \E c \in Clients : Registry!GoStale(c)
  /\ UNCHANGED brokerVars

Next ==
  \/ \E k \in Conns :
       \/ \E id \in Identity : RegisterFrame(k, id)
       \/ \E r \in Requests : ReleaseFrame(k, r) \/ CancelFrame(k, r)
       \/ \E r \in Requests, p \in Providers : LeaseFrame(k, r, p)
       \/ HeartbeatFrame(k) \/ FailingFrame(k) \/ CloseFrame(k) \/ Disconnect(k)
  \/ \E r \in Requests : Settle(r) \/ Resume(r) \/ WaitTimer(r) \/ Deadline(r)
  \/ SweepTimer
  \/ Clock

\* Callbacks and timers that are due run; a wait timer is always set by enqueue(), the
\* sweep interval by startInternal().
Fairness ==
  /\ \A r \in Requests : WF_vars(Settle(r)) /\ WF_vars(Resume(r)) /\ WF_vars(WaitTimer(r))
  /\ WF_vars(SweepTimer)
  /\ \A k \in Conns : WF_vars(status[k] = "closing" /\ Disconnect(k))

Spec == Init /\ [][Next]_vars
FairSpec == Spec /\ Fairness

----------------------------------------------------------------------------
\* The server implements the registry: whatever frames, callbacks and timers do to the
\* tables, in whatever order, is one handler of LeaseRegistry at a time.
ImplementsRegistry == Registry!Spec

\* disconnect(state) leaves nothing behind: a connection that is closed has no
\* registration, no live lease and no queued call, and no frame in flight.
ClosedLeavesNothing ==
  \A k \in Conns : status[k] = "closed" =>
    /\ \A c \in Clients : clients[c] # None => clients[c].conn # k
    /\ \A r \in Requests : calls[r] # None /\ calls[r].conn = k =>
         leases[r] = None /\ promise[r] # "waiting" /\ r \notin pending

\* state.pending is exact: a lease frame is in flight until it is answered, so its slot
\* of the in-flight limit is always given back, and it can be cancelled while it waits.
PendingAgrees ==
  \A r \in Requests :
    /\ r \in pending <=> promise[r] # "idle" /\ reply[r] = "none"
    /\ promise[r] \in {"waiting", "drained"} => r \in pending

\* A frame is answered once, and an aborted one is never answered with a lease.
AnsweredOnce ==
  [][\A r \in Requests :
       /\ reply[r] # "none" => reply'[r] = reply[r]
       /\ reply'[r] = "lease" => r \notin aborted']_vars

\* A frame that was refused, cancelled or timed out leaves the registry as it was: its
\* lease() call does not hold a lease (tests/google-cdp-broker.test.mjs, "deadline and
\* cancellation fence queued requests without mutating the registry").
\* It does not hold.
FencedHoldsNothing ==
  \A r \in Requests : reply[r] \in {"fenced", "error"} => leases[r] = None

\* Every lease frame is answered, or its connection goes away: no caller is left
\* waiting for a slot for ever.
EveryLeaseFrameAnswered == \A r \in Requests : r \in pending ~> reply[r] # "none"

\* The sweep interval reclaims what a client left behind that neither released, closed
\* nor hung up: AbandonedReclaimed of the registry, under the server's own callbacks and
\* timers, while every other connection goes on sending frames.
AbandonedReclaimed == Registry!AbandonedReclaimed

----------------------------------------------------------------------------
(***********************************************************************************)
(* The server refines the registry: a proof of ImplementsRegistry for every number *)
(* of connections, clients, sessions, providers and lease calls, so that what      *)
(* LeaseRegistryProofs proves of the registry holds of the server, too.            *)
(***********************************************************************************)

\* What the server knows of its connections: a lease frame in flight has called the
\* registry, and a call was made for the client that its connection registered.
BInv ==
  /\ bound \in [Conns -> Identity \cup {None}]
  /\ calls \in [Requests -> Registry!Call \cup {None}]
  /\ pending \subseteq Requests
  /\ \A r \in pending : calls[r] # None
  /\ \A r \in Requests : calls[r] # None =>
       /\ bound[calls[r].conn] # None
       /\ calls[r].client = bound[calls[r].conn].client

----------------------------------------------------------------------------
\* A connection that the server serves has a registered identity.
LEMMA Served ==
  ASSUME BInv, NEW k \in Conns, Serves(k)
  PROVE  /\ bound[k] # None
         /\ bound[k].client \in Clients
         /\ bound[k].session \in Sessions
BY DEF BInv, Serves, Identity

\* The frames of the server call the registry with clients, sessions and calls that exist.
LEMMA FrameImplements ==
  ASSUME BInv, NEW k \in Conns,
         \/ \E id \in Identity : RegisterFrame(k, id)
         \/ \E r \in Requests : ReleaseFrame(k, r) \/ CancelFrame(k, r)
         \/ \E r \in Requests, p \in Providers : LeaseFrame(k, r, p)
         \/ HeartbeatFrame(k) \/ FailingFrame(k) \/ CloseFrame(k) \/ Disconnect(k)
  PROVE  [Registry!Next]_registryVars
<1>1. ASSUME NEW id \in Identity, RegisterFrame(k, id)
      PROVE  Registry!Next
  BY <1>1 DEF RegisterFrame, Identity, Registry!Next, Registry!ClientStep
<1>2. ASSUME NEW r \in Requests, ReleaseFrame(k, r)
      PROVE  Registry!Next
  BY <1>2, Served DEF ReleaseFrame, Registry!Next, Registry!ClientStep
<1>3. ASSUME NEW r \in Requests, CancelFrame(k, r)
      PROVE  Registry!Next
  <2>1. calls[r] # None /\ calls[r].client = bound[k].client
    BY <1>3 DEF CancelFrame, InFlight, BInv
  <2>2. CASE Registry!Abort(r, {bound[k].client})
    <3>1. Registry!RequestStep(r)
      BY <2>1, <2>2 DEF Registry!RequestStep
    <3> QED
      BY <3>1 DEF Registry!Next
  <2>3. CASE Registry!Touch(bound[k].client, bound[k].session, k)
    BY <1>3, <2>3, Served DEF CancelFrame, Registry!Next, Registry!ClientStep
  <2> QED
    BY <1>3, <2>2, <2>3 DEF CancelFrame
<1>4. ASSUME NEW r \in Requests, NEW p \in Providers, LeaseFrame(k, r, p)
      PROVE  Registry!Next
  <2> DEFINE call == [client |-> bound[k].client, session |-> bound[k].session,
                      conn |-> k, provider |-> p]
  <2>1. Registry!CallStep(r, call)
    BY <1>4 DEF LeaseFrame
  <2>2. call \in Registry!Call
    BY <1>4, Served DEF LeaseFrame, Registry!Call
  <2> QED
    BY <2>1, <2>2 DEF Registry!Next
<1>5. ASSUME HeartbeatFrame(k)
      PROVE  Registry!Next
  BY <1>5, Served DEF HeartbeatFrame, Registry!Next, Registry!ClientStep
<1>6. ASSUME FailingFrame(k)
      PROVE  Registry!Next
  BY <1>6, Served DEF FailingFrame, Registry!Next, Registry!ClientStep
<1>7. ASSUME CloseFrame(k)
      PROVE  Registry!Next
  BY <1>7, Served DEF CloseFrame, Registry!Next
<1>8. ASSUME Disconnect(k)
      PROVE  [Registry!Next]_registryVars
  BY <1>8, Served DEF Disconnect, Registry!Next
<1> QED
  BY <1>1, <1>2, <1>3, <1>4, <1>5, <1>6, <1>7, <1>8

\* Every step of the server is one handler of the registry, or leaves it alone.
LEMMA StepImplements ==
  ASSUME BInv, [Next]_vars
  PROVE  [Registry!Next]_registryVars
<1>1. CASE UNCHANGED vars
  BY <1>1 DEF vars, registryVars
<1>2. ASSUME NEW r \in Requests, Settle(r) \/ WaitTimer(r)
      PROVE  Registry!Next
  <2>1. Registry!RequestStep(r)
    BY <1>2 DEF Settle, WaitTimer, Registry!RequestStep
  <2> QED
    BY <2>1 DEF Registry!Next
<1>3. ASSUME NEW r \in Requests, Resume(r)
      PROVE  [Registry!Next]_registryVars
  <2>1. CASE Registry!CancelLease(r)
    BY <2>1 DEF Registry!RequestStep, Registry!Next
  <2> QED
    BY <1>3, <2>1 DEF Resume
<1>4. ASSUME NEW r \in Requests, Deadline(r)
      PROVE  Registry!Next
  <2>1. calls[r] # None /\ Registry!Abort(r, {})
    BY <1>4 DEF Deadline, BInv
  <2>2. Registry!RequestStep(r)
    BY <2>1 DEF Registry!RequestStep
  <2> QED
    BY <2>2 DEF Registry!Next
<1>5. CASE SweepTimer
  BY <1>5 DEF SweepTimer, Registry!Next
<1>6. CASE Clock
  <2>1. ASSUME NEW r \in Requests, Registry!Expire(r) \/ Registry!Age(r)
        PROVE  Registry!Next
    BY <2>1 DEF Registry!RequestStep, Registry!Next
  <2>2. ASSUME NEW c \in Clients, Registry!GoStale(c)
        PROVE  Registry!Next
    BY <2>2 DEF Registry!Next
  <2> QED
    BY <1>6, <2>1, <2>2 DEF Clock
<1> QED
  BY <1>1, <1>2, <1>3, <1>4, <1>5, <1>6, FrameImplements DEF Next

----------------------------------------------------------------------------
\* Only lease() writes down a call; no other handler of the registry touches one.
LEMMA CallsKept ==
  ASSUME NEW r, NEW c, NEW s, NEW k, NEW X,
         \/ Registry!Register(c, s, k) \/ Registry!Touch(c, s, k)
         \/ Registry!Heartbeat(c, s, k, X) \/ Registry!Release(r, c, s, k)
         \/ Registry!Settle(r) \/ Registry!WaitTimeout(r) \/ Registry!Abort(r, X)
         \/ Registry!CancelLease(r) \/ Registry!Expire(r) \/ Registry!Age(r)
         \/ Registry!Disconnect(c) \/ Registry!GoStale(c) \/ Registry!Sweep
  PROVE  calls' = calls
<1>1. ASSUME NEW L, NEW dirty, NEW gen, NEW heard, NEW leaving, NEW evicted,
             Registry!Retire(L, dirty, gen, heard, leaving, evicted)
      PROVE  calls' = calls
  BY <1>1 DEF Registry!Retire
<1>2. CASE Registry!Release(r, c, s, k) \/ Registry!CancelLease(r)
  BY <1>1, <1>2 DEF Registry!Release, Registry!CancelLease
<1>3. CASE Registry!Disconnect(c)
  BY <1>1, <1>3 DEF Registry!Disconnect
<1>4. CASE Registry!Sweep
  BY <1>1, <1>4 DEF Registry!Sweep
<1>5. CASE Registry!WaitTimeout(r) \/ Registry!Abort(r, X)
  BY <1>5 DEF Registry!WaitTimeout, Registry!Abort, Registry!LeaveQueue
<1>6. CASE Registry!Register(c, s, k) \/ Registry!Touch(c, s, k)
           \/ Registry!Heartbeat(c, s, k, X) \/ Registry!Settle(r)
           \/ Registry!Expire(r) \/ Registry!Age(r) \/ Registry!GoStale(c)
  BY <1>6 DEF Registry!Register, Registry!Touch, Registry!Heartbeat, Registry!Settle,
       Registry!Expire, Registry!Age, Registry!GoStale
<1> QED
  BY <1>2, <1>3, <1>4, <1>5, <1>6

\* A lease frame writes down the call that its connection makes.
LEMMA LeaseFrameBInv ==
  ASSUME BInv, NEW k \in Conns, NEW r \in Requests, NEW p \in Providers,
         LeaseFrame(k, r, p)
  PROVE  BInv'
<1> DEFINE call == [client |-> bound[k].client, session |-> bound[k].session,
                    conn |-> k, provider |-> p]
<1>1. bound[k] # None /\ call \in Registry!Call
  BY Served DEF LeaseFrame, Registry!Call
<1>2. calls' = [calls EXCEPT ![r] = call]
  BY DEF LeaseFrame, Registry!CallStep, Registry!LeaseEnqueue, Registry!LeaseRefuse,
    Registry!LeaseAllocate, Registry!Called
<1>3. bound' = bound /\ pending' = pending \cup {r}
  BY DEF LeaseFrame
<1>4. call.conn = k /\ call.client = bound[k].client
  OBVIOUS
<1> HIDE DEF call
<1> QED
  BY <1>1, <1>2, <1>3, <1>4, CallAssumption DEF BInv

\* The invariant of the server holds in every reachable state.
LEMMA ServerInvariance == Spec => []BInv
<1>1. Init => BInv
  BY DEF Init, BInv, Registry!Init
<1>2. ASSUME BInv, [Next]_vars
      PROVE  BInv'
  <2>1. CASE UNCHANGED vars
    BY <1>2, <2>1 DEF vars, registryVars, brokerVars, BInv
  <2>2. ASSUME NEW k \in Conns, NEW id \in Identity, RegisterFrame(k, id)
        PROVE  BInv'
    <3>1. calls' = calls
      BY <2>2, CallsKept DEF RegisterFrame
    <3> QED
      BY <1>2, <2>2, <3>1 DEF RegisterFrame, BInv
  <2>3. ASSUME calls' = calls, bound' = bound, pending' \subseteq pending
        PROVE  BInv'
    BY <1>2, <2>3 DEF BInv
  <2>4. ASSUME NEW k \in Conns, NEW r \in Requests, ReleaseFrame(k, r) \/ CancelFrame(k, r)
        PROVE  BInv'
    BY <2>3, <2>4, CallsKept DEF ReleaseFrame, CancelFrame
  <2>5. ASSUME NEW k \in Conns, HeartbeatFrame(k) \/ FailingFrame(k) \/ CloseFrame(k)
        PROVE  BInv'
    BY <2>3, <2>5, CallsKept DEF HeartbeatFrame, FailingFrame, CloseFrame
  <2>6. ASSUME NEW k \in Conns, Disconnect(k)
        PROVE  BInv'
    BY <2>3, <2>6, CallsKept DEF Disconnect, registryVars
  <2>7. ASSUME NEW r \in Requests, Settle(r) \/ WaitTimer(r) \/ Deadline(r)
        PROVE  BInv'
    BY <2>3, <2>7, CallsKept DEF Settle, WaitTimer, Deadline, Timer
  <2>8. ASSUME NEW r \in Requests, Resume(r)
        PROVE  BInv'
    BY <2>3, <2>8, CallsKept DEF Resume, registryVars
  <2>9. CASE SweepTimer \/ Clock
    BY <2>3, <2>9, CallsKept DEF SweepTimer, Clock, Timer, brokerVars
  <2> QED
    BY <1>2, <2>1, <2>2, <2>4, <2>5, <2>6, <2>7, <2>8, <2>9, LeaseFrameBInv DEF Next
<1> QED
  BY <1>1, <1>2, PTL DEF Spec

\* Whatever frames, callbacks and timers do to the tables, in whatever order, is what the
\* registry's own handlers may do: the server implements the registry.
THEOREM Refinement == Spec => ImplementsRegistry
<1>1. Init => Registry!Init
  BY DEF Init
<1>2. BInv /\ [Next]_vars => [Registry!Next]_(Registry!vars)
  BY StepImplements DEF registryVars, Registry!vars
<1> QED
  BY <1>1, <1>2, ServerInvariance, PTL DEF Spec, ImplementsRegistry, Registry!Spec

----------------------------------------------------------------------------
\* What the server knows of the registrations: each was made over the connection that is
\* bound to it, and a connection that was closed has none left, nor a frame in flight.
ClosedForgotten ==
  \A k \in Conns : status[k] = "closed" =>
    /\ \A c \in Clients : clients[c] # None => clients[c].conn # k
    /\ InFlight(k) = {}

ConnState == {"open", "closing", "closed"}

CInv ==
  /\ status \in [Conns -> ConnState]
  /\ clients \in [Clients -> Registry!Registration \cup {None}]
  /\ \A c \in Clients : clients[c] # None =>
       bound[clients[c].conn] = [client |-> c, session |-> clients[c].session]
  /\ ClosedForgotten

\* The registrations after a step are some of those before it, as they were.
Fewer ==
  /\ clients' \in [Clients -> Registry!Registration \cup {None}]
  /\ \A c \in Clients : clients'[c] # None =>
       /\ clients[c] # None
       /\ clients'[c].conn = clients[c].conn
       /\ clients'[c].session = clients[c].session

\* A sign of life changes nothing else of a registration.
LEMMA HeardFewer ==
  ASSUME clients \in [Clients -> Registry!Registration \cup {None}], NEW C
  PROVE  /\ Registry!Heard(C) \in [Clients -> Registry!Registration \cup {None}]
         /\ \A c \in Clients : Registry!Heard(C)[c] # None =>
              /\ clients[c] # None
              /\ Registry!Heard(C)[c].conn = clients[c].conn
              /\ Registry!Heard(C)[c].session = clients[c].session
BY DEF Registry!Heard, Registry!Registration

\* However leases end, no registration is made.
LEMMA RetireFewer ==
  ASSUME clients \in [Clients -> Registry!Registration \cup {None}],
         NEW L, NEW dirty, NEW gen, NEW heard, NEW leaving, NEW evicted,
         Registry!Retire(L, dirty, gen, heard, leaving, evicted)
  PROVE  Fewer
<1> DEFINE G == Registry!Woken(L, leaving)
           H == Registry!Heard(heard \cup {calls[r].client : r \in G})
<1>1. clients' = [c \in Clients |-> IF c \in leaving THEN None ELSE H[c]]
  BY DEF Registry!Retire
<1>2. /\ H \in [Clients -> Registry!Registration \cup {None}]
      /\ \A c \in Clients : H[c] # None =>
           clients[c] # None /\ H[c].conn = clients[c].conn /\ H[c].session = clients[c].session
  BY HeardFewer
<1> HIDE DEF H
<1> QED
  BY <1>1, <1>2 DEF Fewer

\* Only register() makes a registration.
LEMMA ClientsFewer ==
  ASSUME clients \in [Clients -> Registry!Registration \cup {None}],
         NEW r, NEW c, NEW s, NEW k, NEW X, NEW call,
         \/ Registry!Touch(c, s, k) \/ Registry!Heartbeat(c, s, k, X)
         \/ Registry!Release(r, c, s, k) \/ Registry!CallStep(r, call)
         \/ Registry!Settle(r) \/ Registry!WaitTimeout(r) \/ Registry!Abort(r, X)
         \/ Registry!CancelLease(r) \/ Registry!Expire(r) \/ Registry!Age(r)
         \/ Registry!Disconnect(c) \/ Registry!GoStale(c) \/ Registry!Sweep
  PROVE  Fewer
<1>1. CASE Registry!Release(r, c, s, k) \/ Registry!CancelLease(r)
  BY <1>1, RetireFewer DEF Registry!Release, Registry!CancelLease
<1>2. CASE Registry!Disconnect(c)
  BY <1>2, RetireFewer DEF Registry!Disconnect
<1>3. CASE Registry!Sweep
  BY <1>3, RetireFewer DEF Registry!Sweep
<1>4. CASE Registry!Touch(c, s, k) \/ Registry!Heartbeat(c, s, k, X) \/ Registry!Abort(r, X)
  BY <1>4, HeardFewer DEF Registry!Touch, Registry!Heartbeat, Registry!Abort, Fewer
<1>5. CASE Registry!CallStep(r, call)
  BY <1>5, HeardFewer DEF Registry!CallStep, Registry!LeaseEnqueue, Registry!LeaseRefuse,
    Registry!LeaseAllocate, Registry!Called, Fewer
<1>6. CASE Registry!Settle(r) \/ Registry!WaitTimeout(r) \/ Registry!Expire(r)
           \/ Registry!Age(r)
  BY <1>6 DEF Registry!Settle, Registry!WaitTimeout, Registry!Expire, Registry!Age, Fewer
<1>7. CASE Registry!GoStale(c)
  BY <1>7 DEF Registry!GoStale, Registry!Registration, Fewer
<1> QED
  BY <1>1, <1>2, <1>3, <1>4, <1>5, <1>6, <1>7

\* A registration is made over an open connection, and bound to it.
LEMMA RegisterCInv ==
  ASSUME BInv, CInv, NEW k \in Conns, NEW id \in Identity, RegisterFrame(k, id)
  PROVE  CInv'
<1>1. clients' = [clients EXCEPT ![id.client] =
                    [session |-> id.session, conn |-> k, stale |-> FALSE]]
  BY DEF RegisterFrame, Registry!Register
<1>2. bound' = [bound EXCEPT ![k] = id] /\ bound[k] \in {None, id}
  BY DEF RegisterFrame
<1>3. status' = status /\ status[k] # "closed" /\ InFlight(k)' = InFlight(k)
  BY CallsKept DEF RegisterFrame, Admitted, Received, Frame, InFlight
<1>4. \A j \in Conns : InFlight(j)' = InFlight(j)
  BY CallsKept DEF RegisterFrame, InFlight
<1>5. id = [client |-> id.client, session |-> id.session]
      /\ id.client \in Clients /\ id.session \in Sessions
  BY DEF Identity
<1>6. clients' \in [Clients -> Registry!Registration \cup {None}]
  BY <1>1, <1>5 DEF CInv, Registry!Registration
<1>7. ASSUME NEW c \in Clients, clients'[c] # None
      PROVE  bound'[clients'[c].conn] = [client |-> c, session |-> clients'[c].session]
  <2>1. CASE c = id.client
    BY <1>1, <1>2, <1>5, <2>1 DEF CInv, BInv
  <2>2. CASE c # id.client
    <3>1. clients'[c] = clients[c] /\ clients[c] # None
      BY <1>1, <1>7, <2>2 DEF CInv
    <3>2. bound[clients[c].conn] = [client |-> c, session |-> clients[c].session]
      BY <3>1 DEF CInv
    <3>3. bound[clients[c].conn] # id
      BY <3>2, <2>2, <1>5
    <3>4. clients[c].conn = k => bound[k] = None
      BY <1>2, <3>3
    <3>5. clients[c].conn \in Conns /\ clients[c].session \in Sessions
      BY <3>1 DEF CInv, Registry!Registration
    <3>6. bound[clients[c].conn] # None
      BY <3>2, <3>5, IdentityAssumption DEF Identity
    <3>7. clients[c].conn # k
      BY <3>4, <3>6
    <3>8. bound'[clients[c].conn] = bound[clients[c].conn]
      BY <1>2, <3>5, <3>7 DEF BInv
    <3> QED
      BY <3>1, <3>2, <3>8
  <2> QED
    BY <2>1, <2>2
<1>8. ClosedForgotten'
  <2> SUFFICES ASSUME NEW j \in Conns, status'[j] = "closed"
               PROVE  /\ \A c \in Clients : clients'[c] # None => clients'[c].conn # j
                      /\ InFlight(j)' = {}
    BY DEF ClosedForgotten
  <2> QED
    BY <1>1, <1>3, <1>4, <1>5 DEF CInv, ClosedForgotten
<1> QED
  BY <1>3, <1>6, <1>7, <1>8 DEF CInv

\* A connection is open, closing or closed, whatever happens.
LEMMA StatusKept ==
  ASSUME status \in [Conns -> ConnState], [Next]_vars
  PROVE  status' \in [Conns -> ConnState]
<1>1. ASSUME NEW k \in Conns,
             \/ \E id \in Identity : RegisterFrame(k, id)
             \/ \E r \in Requests : ReleaseFrame(k, r) \/ CancelFrame(k, r)
             \/ \E r \in Requests, p \in Providers : LeaseFrame(k, r, p)
             \/ HeartbeatFrame(k) \/ FailingFrame(k) \/ CloseFrame(k) \/ Disconnect(k)
      PROVE  \/ status' = status
             \/ \E z \in ConnState : status' = [status EXCEPT ![k] = z]
  BY <1>1 DEF RegisterFrame, ReleaseFrame, CancelFrame, LeaseFrame, HeartbeatFrame,
    FailingFrame, CloseFrame, Disconnect, ConnState
<1>2. ASSUME NEW r \in Requests, Settle(r) \/ WaitTimer(r) \/ Deadline(r) \/ Resume(r)
      PROVE  status' = status
  BY <1>2 DEF Settle, WaitTimer, Deadline, Resume, Timer
<1>3. CASE SweepTimer \/ Clock \/ UNCHANGED vars
  BY <1>3 DEF SweepTimer, Clock, Timer, vars, brokerVars
<1> QED
  BY <1>1, <1>2, <1>3 DEF Next

\* A closing socket takes its registration and its frames along.
LEMMA DisconnectCInv ==
  ASSUME BInv, CInv, NEW k \in Conns, Disconnect(k)
  PROVE  CInv'
<1>1. /\ status' = [status EXCEPT ![k] = "closed"]
      /\ pending' = pending \ InFlight(k)
      /\ bound' = bound
  BY DEF Disconnect
<1>2. calls' = calls
  BY CallsKept DEF Disconnect, registryVars
<1>3. Fewer /\ (Serves(k) => clients'[bound[k].client] = None)
  <2>1. CASE Serves(k)
    <3>1. Registry!Disconnect(bound[k].client)
      BY <2>1 DEF Disconnect
    <3>2. bound[k].client \in Clients
      BY <2>1, Served
    <3>3. Fewer
      BY <3>1, ClientsFewer DEF CInv
    <3>4. clients'[bound[k].client] = None
      BY <3>1, <3>2 DEF Registry!Disconnect, Registry!Retire
    <3> QED
      BY <3>3, <3>4
  <2>2. CASE ~Serves(k)
    <3>1. clients' = clients
      BY <2>2 DEF Disconnect, registryVars
    <3> QED
      BY <2>2, <3>1 DEF Fewer, CInv
  <2> QED
    BY <2>1, <2>2
<1>4. ASSUME NEW c \in Clients, clients'[c] # None
      PROVE  clients'[c].conn # k
  <2> SUFFICES ASSUME clients'[c].conn = k
               PROVE  FALSE
    OBVIOUS
  <2>1. clients[c] # None /\ clients[c].conn = k
    BY <1>3, <1>4 DEF Fewer
  <2>2. bound[k] = [client |-> c, session |-> clients[c].session]
    BY <2>1 DEF CInv
  <2>3. bound[k] # None
    BY <2>1, <2>2, IdentityAssumption DEF CInv, Registry!Registration, Identity
  <2>4. Serves(k)
    BY <2>1, <2>2, <2>3 DEF Serves, Registry!Asserted
  <2> QED
    BY <1>3, <1>4, <2>2, <2>4
<1>5. ClosedForgotten'
  <2> SUFFICES ASSUME NEW j \in Conns, status'[j] = "closed"
               PROVE  /\ \A c \in Clients : clients'[c] # None => clients'[c].conn # j
                      /\ InFlight(j)' = {}
    BY DEF ClosedForgotten
  <2>1. CASE j = k
    BY <1>1, <1>2, <1>4, <2>1 DEF InFlight
  <2>2. CASE j # k
    <3>1. status[j] = "closed"
      BY <1>1, <2>2 DEF Disconnect
    <3>2. InFlight(j)' \subseteq InFlight(j)
      BY <1>1, <1>2 DEF InFlight
    <3> QED
      BY <1>3, <3>1, <3>2 DEF CInv, ClosedForgotten, Fewer
  <2> QED
    BY <2>1, <2>2
<1> QED
  BY <1>1, <1>3, <1>5 DEF CInv, Fewer, ConnState

\* Every other step keeps it: registrations only go, and a lease frame goes into flight on
\* a connection that is open.
LEMMA FewerCInv ==
  ASSUME CInv, Fewer, bound' = bound, status' \in [Conns -> ConnState],
         \A k \in Conns : status'[k] = "closed" => status[k] = "closed" /\ InFlight(k)' \subseteq InFlight(k)
  PROVE  CInv'
BY DEF CInv, Fewer, ClosedForgotten

\* disconnect(state) leaves no registration and no frame of a closed connection behind,
\* whoever else registers, and in whichever order sockets close and frames are served.
THEOREM ClosedHolds == Spec => []ClosedForgotten
<1>1. Init => CInv
  BY DEF Init, Registry!Init, CInv, ClosedForgotten, ConnState
<1>2. ASSUME BInv, CInv, [Next]_vars
      PROVE  CInv'
  <2>0. status' \in [Conns -> ConnState]
    BY <1>2, StatusKept DEF CInv
  <2>1. CASE UNCHANGED vars
    BY <1>2, <2>1 DEF vars, registryVars, brokerVars, CInv, ClosedForgotten, InFlight
  <2>2. ASSUME NEW k \in Conns, NEW r \in Requests, NEW p \in Providers, LeaseFrame(k, r, p)
        PROVE  CInv'
    <3> DEFINE call == [client |-> bound[k].client, session |-> bound[k].session,
                        conn |-> k, provider |-> p]
    <3>1. Registry!CallStep(r, call)
      BY <2>2 DEF LeaseFrame
    <3>2. Fewer
      BY <1>2, <3>1, ClientsFewer DEF CInv
    <3>3. /\ bound' = bound /\ status' = status /\ status[k] # "closed"
          /\ pending' = pending \cup {r}
      BY <2>2 DEF LeaseFrame, Admitted, Received, Frame
    <3>4. calls' = [calls EXCEPT ![r] = call]
      BY <3>1 DEF Registry!CallStep, Registry!LeaseEnqueue, Registry!LeaseRefuse,
        Registry!LeaseAllocate, Registry!Called
    <3>5. call.conn = k
      OBVIOUS
    <3> HIDE DEF call
    <3>6. \A j \in Conns : j # k => InFlight(j)' \subseteq InFlight(j)
      BY <1>2, <2>2, <3>3, <3>4, <3>5 DEF InFlight, BInv
    <3> QED
      BY <1>2, <2>0, <3>2, <3>3, <3>6, FewerCInv
  <2>3. ASSUME Fewer, calls' = calls, bound' = bound, pending' \subseteq pending,
               \A k \in Conns : status'[k] = "closed" => status[k] = "closed"
        PROVE  CInv'
    <3>1. \A k \in Conns : InFlight(k)' \subseteq InFlight(k)
      BY <2>3 DEF InFlight
    <3> QED
      BY <1>2, <2>0, <2>3, <3>1, FewerCInv
  <2>4. ASSUME NEW k \in Conns, NEW r \in Requests, ReleaseFrame(k, r) \/ CancelFrame(k, r)
        PROVE  CInv'
    <3>1. calls' = calls
      BY <2>4, CallsKept DEF ReleaseFrame, CancelFrame
    <3>2. ASSUME Registry!Release(r, bound[k].client, bound[k].session, k)
          PROVE  Fewer
      BY <1>2, <3>2, ClientsFewer DEF CInv
    <3>3. ASSUME Registry!Abort(r, {bound[k].client})
          PROVE  Fewer
      BY <1>2, <3>3, ClientsFewer DEF CInv
    <3>4. ASSUME Registry!Touch(bound[k].client, bound[k].session, k)
          PROVE  Fewer
      BY <1>2, <3>4, ClientsFewer DEF CInv
    <3>5. Fewer
      BY <2>4, <3>2, <3>3, <3>4 DEF ReleaseFrame, CancelFrame
    <3> QED
      BY <2>3, <2>4, <3>1, <3>5 DEF ReleaseFrame, CancelFrame
  <2>5. ASSUME NEW k \in Conns, HeartbeatFrame(k) \/ FailingFrame(k) \/ CloseFrame(k)
        PROVE  CInv'
    <3>1. Fewer /\ calls' = calls
      BY <1>2, <2>5, ClientsFewer, CallsKept DEF HeartbeatFrame, FailingFrame, CloseFrame, CInv
    <3>2. \A j \in Conns : status'[j] = "closed" => status[j] = "closed"
      <4>1. status' = status \/ status' = [status EXCEPT ![k] = "closing"]
        BY <2>5 DEF HeartbeatFrame, FailingFrame, CloseFrame
      <4> QED
        BY <1>2, <4>1 DEF CInv, ConnState
    <3> QED
      BY <2>3, <2>5, <3>1, <3>2 DEF HeartbeatFrame, FailingFrame, CloseFrame
  <2>6. ASSUME NEW r \in Requests, Settle(r) \/ WaitTimer(r) \/ Deadline(r)
        PROVE  CInv'
    <3>1. Fewer /\ calls' = calls
      BY <1>2, <2>6, ClientsFewer, CallsKept DEF Settle, WaitTimer, Deadline, CInv
    <3> QED
      BY <2>3, <2>6, <3>1 DEF Settle, WaitTimer, Deadline, Timer
  <2>7. ASSUME NEW r \in Requests, Resume(r)
        PROVE  CInv'
    <3>1. CASE Registry!CancelLease(r)
      <4>1. Fewer /\ calls' = calls
        BY <1>2, <3>1, ClientsFewer, CallsKept DEF CInv
      <4> QED
        BY <2>3, <2>7, <4>1 DEF Resume
    <3>2. CASE UNCHANGED registryVars
      BY <1>2, <2>3, <2>7, <3>2 DEF Resume, registryVars, Fewer, CInv
    <3> QED
      BY <2>7, <3>1, <3>2 DEF Resume
  <2>8. CASE SweepTimer \/ Clock
    <3>1. Fewer /\ calls' = calls
      BY <1>2, <2>8, ClientsFewer, CallsKept DEF SweepTimer, Clock, CInv
    <3> QED
      BY <2>3, <2>8, <3>1 DEF SweepTimer, Clock, Timer, brokerVars
  <2> QED
    BY <1>2, <2>1, <2>2, <2>4, <2>5, <2>6, <2>7, <2>8, RegisterCInv, DisconnectCInv DEF Next
<1>3. CInv => ClosedForgotten
  BY DEF CInv
<1> QED
  BY <1>1, <1>2, <1>3, ServerInvariance, PTL DEF Spec

----------------------------------------------------------------------------
\* What makes an answer final: a call that was made stays made, a frame that has its
\* answer is no longer in flight, and only frames in flight are aborted.
Answers == {"none", "lease", "fenced", "error", "unsent"}

AInv ==
  /\ promise \in [Requests -> Registry!Phases]
  /\ reply \in [Requests -> Answers]
  /\ \A r \in Requests :
       /\ r \in pending \/ reply[r] # "none" => promise[r] # "idle"
       /\ reply[r] # "none" => r \notin pending
       /\ reply[r] = "lease" => r \notin aborted

\* A call that was made stays made.
Made ==
  /\ promise' \in [Requests -> Registry!Phases]
  /\ \A q \in Requests : promise[q] # "idle" => promise'[q] # "idle"

\* However leases end, a call that was made stays made.
LEMMA RetireMade ==
  ASSUME promise \in [Requests -> Registry!Phases],
         NEW L, NEW dirty, NEW gen, NEW heard, NEW leaving, NEW evicted,
         Registry!Retire(L, dirty, gen, heard, leaving, evicted)
  PROVE  Made
<1> DEFINE G == Registry!Woken(L, leaving)
<1>1. promise' = [r \in Requests |->
          IF r \in G THEN "drained"
          ELSE IF promise[r] = "waiting" /\ calls[r].client \in leaving THEN "rejected"
          ELSE promise[r]]
  BY DEF Registry!Retire
<1> HIDE DEF G
<1> QED
  BY <1>1 DEF Made, Registry!Phases

\* No handler of the registry takes a call back.
LEMMA PromiseMade ==
  ASSUME promise \in [Requests -> Registry!Phases],
         NEW r, NEW c, NEW s, NEW k, NEW X, NEW call,
         \/ Registry!Register(c, s, k) \/ Registry!Touch(c, s, k)
         \/ Registry!Heartbeat(c, s, k, X) \/ Registry!Release(r, c, s, k)
         \/ Registry!CallStep(r, call)
         \/ Registry!Settle(r) \/ Registry!WaitTimeout(r) \/ Registry!Abort(r, X)
         \/ Registry!CancelLease(r) \/ Registry!Expire(r) \/ Registry!Age(r)
         \/ Registry!Disconnect(c) \/ Registry!GoStale(c) \/ Registry!Sweep
  PROVE  Made
<1>1. CASE Registry!Release(r, c, s, k) \/ Registry!CancelLease(r)
  BY <1>1, RetireMade DEF Registry!Release, Registry!CancelLease
<1>2. CASE Registry!Disconnect(c)
  BY <1>2, RetireMade DEF Registry!Disconnect
<1>3. CASE Registry!Sweep
  BY <1>3, RetireMade DEF Registry!Sweep
<1>4. CASE Registry!CallStep(r, call)
  BY <1>4 DEF Registry!CallStep, Registry!LeaseEnqueue, Registry!LeaseRefuse,
    Registry!LeaseAllocate, Registry!Phases, Made
<1>5. CASE Registry!Settle(r) \/ Registry!WaitTimeout(r) \/ Registry!Abort(r, X)
  BY <1>5 DEF Registry!Settle, Registry!WaitTimeout, Registry!Abort, Registry!LeaveQueue,
    Registry!Phases, Made
<1>6. CASE Registry!Register(c, s, k) \/ Registry!Touch(c, s, k)
           \/ Registry!Heartbeat(c, s, k, X)
           \/ Registry!Expire(r) \/ Registry!Age(r) \/ Registry!GoStale(c)
  BY <1>6 DEF Registry!Register, Registry!Touch, Registry!Heartbeat, Registry!Expire,
    Registry!Age, Registry!GoStale, Made
<1> QED
  BY <1>1, <1>2, <1>3, <1>4, <1>5, <1>6

\* What a step may do to the frames when no answer is given: calls stay made, and only
\* frames in flight are aborted.
Unanswered ==
  /\ Made
  /\ reply' = reply
  /\ pending' = pending
  /\ aborted' \subseteq aborted \cup pending

\* Every step keeps AInv, and gives no second answer.
LEMMA AnswerStep ==
  ASSUME BInv, AInv, [Next]_vars
  PROVE  /\ AInv'
         /\ \A q \in Requests :
              /\ reply[q] # "none" => reply'[q] = reply[q]
              /\ reply'[q] = "lease" => q \notin aborted'
<1> DEFINE Goal == /\ AInv'
                   /\ \A q \in Requests :
                        /\ reply[q] # "none" => reply'[q] = reply[q]
                        /\ reply'[q] = "lease" => q \notin aborted'
<1>1. Unanswered => Goal
  BY DEF Unanswered, Made, AInv
<1>2. CASE UNCHANGED vars
  BY <1>1, <1>2 DEF vars, registryVars, brokerVars, Unanswered, Made, AInv
<1>3. ASSUME NEW k \in Conns,
             \/ \E id \in Identity : RegisterFrame(k, id)
             \/ \E r \in Requests : ReleaseFrame(k, r) \/ CancelFrame(k, r)
             \/ HeartbeatFrame(k) \/ FailingFrame(k) \/ CloseFrame(k)
      PROVE  Goal
  <2>1. Made
    BY <1>3, PromiseMade DEF RegisterFrame, ReleaseFrame, CancelFrame, HeartbeatFrame,
      FailingFrame, CloseFrame, AInv
  <2>2. reply' = reply /\ pending' = pending /\ aborted' \subseteq aborted \cup pending
    BY <1>3 DEF RegisterFrame, ReleaseFrame, CancelFrame, HeartbeatFrame, FailingFrame,
      CloseFrame, InFlight
  <2> QED
    BY <1>1, <2>1, <2>2 DEF Unanswered
<1>4. ASSUME NEW k \in Conns, NEW r \in Requests, NEW p \in Providers, LeaseFrame(k, r, p)
      PROVE  Goal
  <2> DEFINE call == [client |-> bound[k].client, session |-> bound[k].session,
                      conn |-> k, provider |-> p]
  <2>1. Registry!CallStep(r, call)
    BY <1>4 DEF LeaseFrame
  <2>2. Made
    BY <2>1, PromiseMade DEF AInv
  <2>3. promise[r] = "idle" /\ promise'[r] # "idle"
    BY <2>1 DEF Registry!CallStep, Registry!LeaseEnqueue, Registry!LeaseRefuse,
      Registry!LeaseAllocate, Registry!Called, AInv
  <2>4. pending' = pending \cup {r} /\ reply' = reply /\ aborted' = aborted
    BY <1>4 DEF LeaseFrame
  <2> QED
    BY <2>2, <2>3, <2>4 DEF AInv, Made
<1>5. ASSUME NEW k \in Conns, Disconnect(k)
      PROVE  Goal
  <2>1. Made
    BY <1>5, PromiseMade DEF Disconnect, registryVars, AInv, Made
  <2>2. /\ aborted' = aborted \cup InFlight(k)
        /\ reply' = [r \in Requests |-> IF r \in InFlight(k) THEN "unsent" ELSE reply[r]]
        /\ pending' = pending \ InFlight(k)
        /\ InFlight(k) \subseteq pending
    BY <1>5 DEF Disconnect, InFlight
  <2> QED
    BY <2>1, <2>2 DEF AInv, Made, Answers
<1>6. ASSUME NEW r \in Requests, Settle(r) \/ WaitTimer(r) \/ Deadline(r)
      PROVE  Goal
  <2>1. Made
    BY <1>6, PromiseMade DEF Settle, WaitTimer, Deadline, AInv
  <2>2. reply' = reply /\ pending' = pending /\ aborted' \subseteq aborted \cup pending
    BY <1>6 DEF Settle, WaitTimer, Deadline, Timer
  <2> QED
    BY <1>1, <2>1, <2>2 DEF Unanswered
<1>7. ASSUME NEW r \in Requests, Resume(r)
      PROVE  Goal
  <2>1. Made
    BY <1>7, PromiseMade DEF Resume, registryVars, AInv, Made
  <2>2. /\ r \in pending /\ pending' = pending \ {r} /\ aborted' = aborted
        /\ \/ r \notin aborted /\ reply' = [reply EXCEPT ![r] = "lease"]
           \/ \E a \in {"fenced", "error"} : reply' = [reply EXCEPT ![r] = a]
    BY <1>7 DEF Resume
  <2> QED
    BY <2>1, <2>2 DEF AInv, Made, Answers
<1>8. CASE SweepTimer \/ Clock
  <2>1. Made
    BY <1>8, PromiseMade DEF SweepTimer, Clock, AInv
  <2>2. reply' = reply /\ pending' = pending /\ aborted' = aborted
    BY <1>8 DEF SweepTimer, Clock, Timer, brokerVars
  <2> QED
    BY <1>1, <2>1, <2>2 DEF Unanswered
<1> QED
  BY <1>2, <1>3, <1>4, <1>5, <1>6, <1>7, <1>8 DEF Next

\* dispatch() and disconnect() together answer a lease frame once, and never with a
\* lease after its AbortController has fired, whichever of its callbacks, its deadline,
\* a cancel frame or the end of the socket comes first.
THEOREM AnsweredHolds == Spec => AnsweredOnce
<1>1. Init => AInv
  BY DEF Init, Registry!Init, Registry!Phases, AInv, Answers
<1>2. BInv /\ AInv /\ [Next]_vars => AInv'
  BY AnswerStep
<1>3. BInv /\ AInv /\ [Next]_vars =>
        [\A r \in Requests :
           /\ reply[r] # "none" => reply'[r] = reply[r]
           /\ reply'[r] = "lease" => r \notin aborted']_vars
  BY AnswerStep
<1> QED
  BY <1>1, <1>2, <1>3, ServerInvariance, PTL DEF Spec, AnsweredOnce
=============================================================================
