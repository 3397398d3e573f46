---------------------------- MODULE LeaseRegistryProofs ----------------------------
(***********************************************************************************)
(* Proofs about LeaseRegistry, for every number of clients, sessions, connections, *)
(* providers and calls and for all caps.                                           *)
(*                                                                                 *)
(* The inductive invariant IInv joins the checked invariants with three facts that *)
(* only the proof needs: LifeCycle (which calls can hold a lease or a target),     *)
(* TargetOwned (a target's session is still registered by the connection that made *)
(* it) and the typing.  Everything that retires leases goes through the operator   *)
(* Retire, so the lemmas named Retire... carry the argument for the release,       *)
(* cancel, disconnect, bump and sweep handlers at once.                            *)
(***********************************************************************************)
EXTENDS LeaseRegistry, FiniteSetTheorems, SequenceTheorems, FunctionTheorems, TLAPS

LifeCycle ==
  \A r \in Requests :
    /\ promise[r] # "idle" => calls[r] # None
    /\ r \in Live => promise[r] \notin {"idle", "waiting"}
    /\ targets[r] # None => promise[r] \notin {"idle", "waiting"}

TargetOwned ==
  \A t \in Requests : targets[t] # None =>
    LET c == sessions[targets[t].session]
    IN c # None /\ clients[c] # None /\ clients[c].conn = targets[t].conn

IInv ==
  /\ TypeOK
  /\ LifeCycle
  /\ SessionsAgree
  /\ OwnedByRegistered
  /\ QueueAgrees
  /\ KeyIndexAgrees
  /\ CapacityRespected
  /\ NoLostWakeup
  /\ TargetExclusive
  /\ LeaseHasItsTarget
  /\ AllCurrentGeneration
  /\ TargetOwned

----------------------------------------------------------------------------
\* The registry starts empty.
LEMMA InitIInv == Init => IInv
<1> SUFFICES ASSUME Init PROVE IInv
  OBVIOUS
<1>1. TypeOK
  BY DEF Init, TypeOK, Phases
<1>2. Live = {}
  BY DEF Init, Live
<1>3. LifeCycle /\ SessionsAgree /\ OwnedByRegistered /\ TargetOwned
  BY <1>2 DEF Init, LifeCycle, SessionsAgree, OwnedByRegistered, TargetOwned
<1>4. QueueAgrees /\ KeyIndexAgrees
  BY <1>2 DEF Init, QueueAgrees, KeyIndexAgrees
<1>5. CapacityRespected
  <2>1. \A p \in Providers : ActiveOf(p) = {}
    BY <1>2 DEF ActiveOf
  <2> QED
    BY <1>2, <2>1, FS_EmptySet, CapAssumption, GlobalCapAssumption DEF CapacityRespected
<1>6. NoLostWakeup
  BY DEF Init, NoLostWakeup
<1>7. TargetExclusive /\ LeaseHasItsTarget /\ AllCurrentGeneration
  BY <1>2 DEF Init, TargetExclusive, LeaseHasItsTarget, AllCurrentGeneration
<1> QED
  BY <1>1, <1>3, <1>4, <1>5, <1>6, <1>7 DEF IInv

\* A set of live leases is finite, and the leases of a key count against its provider.
LEMMA KeyWithinCap ==
  ASSUME IInv
  PROVE  /\ IsFiniteSet(Live)
         /\ \A p \in Providers : IsFiniteSet(ActiveOf(p))
         /\ \A k \in Keys : /\ IsFiniteSet(activeByKey[k])
                            /\ activeByKey[k] \subseteq ActiveOf(k[2])
                            /\ Cardinality(activeByKey[k]) \in Nat
                            /\ Cardinality(activeByKey[k]) <= Cap[k[2]]
<1>1. IsFiniteSet(Live) /\ \A p \in Providers : IsFiniteSet(ActiveOf(p))
  BY RequestsAssumption, FS_Subset DEF Live, ActiveOf
<1>2. ASSUME NEW k \in Keys
      PROVE  /\ IsFiniteSet(activeByKey[k])
             /\ activeByKey[k] \subseteq ActiveOf(k[2])
             /\ Cardinality(activeByKey[k]) \in Nat
             /\ Cardinality(activeByKey[k]) <= Cap[k[2]]
  <2>1. k[2] \in Providers
    BY DEF Keys
  <2>2. activeByKey[k] \subseteq ActiveOf(k[2])
    BY <2>1 DEF IInv, KeyIndexAgrees, ActiveOf, KeyOf
  <2>3. /\ IsFiniteSet(activeByKey[k])
        /\ Cardinality(activeByKey[k]) <= Cardinality(ActiveOf(k[2]))
    BY <1>1, <2>1, <2>2, FS_Subset
  <2>4. Cardinality(activeByKey[k]) \in Nat /\ Cardinality(ActiveOf(k[2])) \in Nat
    BY <1>1, <2>1, <2>3, FS_CardinalityType
  <2>5. Cap[k[2]] \in Nat /\ Cardinality(ActiveOf(k[2])) <= Cap[k[2]]
    BY <2>1, CapAssumption DEF IInv, CapacityRespected
  <2> QED
    BY <2>2, <2>3, <2>4, <2>5
<1> QED
  BY <1>1, <1>2

----------------------------------------------------------------------------
\* Counting and queue facts read only leases, calls, activeByKey, targets, waiters and
\* promise: an action that leaves these alone leaves the facts alone.
LEMMA SameLeases ==
  ASSUME IInv, UNCHANGED <<leases, calls, activeByKey>>
  PROVE  /\ KeyIndexAgrees'
         /\ CapacityRespected'
<1>1. Live' = Live
  BY DEF Live
<1>2. \A p \in Providers : ActiveOf(p)' = ActiveOf(p)
  BY <1>1 DEF ActiveOf
<1>3. CapacityRespected'
  BY <1>1, <1>2 DEF IInv, CapacityRespected
<1>4. KeyIndexAgrees'
  BY <1>1 DEF IInv, KeyIndexAgrees, KeyOf
<1> QED
  BY <1>3, <1>4

\* Registering binds a session nobody else owns.
LEMMA RegisterIInv ==
  ASSUME IInv, NEW c \in Clients, NEW s \in Sessions, NEW conn \in Conns,
         Register(c, s, conn)
  PROVE  IInv'
<1> USE DEF Register
<1>1. TypeOK'
  BY DEF IInv, TypeOK, Registration
<1>2. LifeCycle'
  BY DEF IInv, LifeCycle, Live
<1>a. /\ clients'[c] # None
      /\ clients'[c].session = s
      /\ clients'[c].conn = conn
      /\ \A d \in Clients \ {c} : clients'[d] = clients[d]
      /\ sessions'[s] = c
      /\ \A z \in Sessions \ {s} : sessions'[z] = sessions[z]
  <2>1. [session |-> s, conn |-> conn, stale |-> FALSE] \in Registration
    BY DEF Registration
  <2>2. [session |-> s, conn |-> conn, stale |-> FALSE] # None
    BY <2>1, NoneAssumption
  <2> QED
    BY <2>2 DEF IInv, TypeOK
<1>b. \A d \in Clients : clients[d] # None => clients[d].session \in Sessions
  BY DEF IInv, TypeOK, Registration
<1>3. SessionsAgree'
  <2>1. ASSUME NEW d \in Clients, clients'[d] # None
        PROVE  sessions'[clients'[d].session] = d
    BY <1>a, <1>b, <2>1, NoneAssumption DEF IInv, SessionsAgree
  <2>2. ASSUME NEW z \in Sessions, sessions'[z] # None
        PROVE  clients'[sessions'[z]] # None /\ clients'[sessions'[z]].session = z
    <3>1. CASE z = s
      BY <3>1, <1>a
    <3>2. CASE z # s
      <4>1. sessions'[z] = sessions[z] /\ sessions[z] \in Clients
        BY <3>2, <2>2, <1>a DEF IInv, TypeOK
      <4>2. clients[sessions[z]] # None /\ clients[sessions[z]].session = z
        BY <4>1, <2>2 DEF IInv, SessionsAgree
      <4>3. sessions[z] # c
        BY <4>2, <3>2
      <4> QED
        BY <4>1, <4>2, <4>3, <1>a
    <3> QED
      BY <3>1, <3>2
  <2> QED
    BY <2>1, <2>2 DEF SessionsAgree
<1>4. OwnedByRegistered'
  <2> SUFFICES ASSUME NEW r \in Requests, r \in Live \/ promise[r] = "waiting"
               PROVE  Asserted(calls[r].client, calls[r].session, calls[r].conn)'
    BY DEF OwnedByRegistered, Live
  <2>1. Asserted(calls[r].client, calls[r].session, calls[r].conn)
    BY DEF IInv, OwnedByRegistered
  <2>2. calls[r].client \in Clients
    BY DEF IInv, TypeOK, LifeCycle, Call, Live
  <2> QED
    BY <2>1, <2>2, <1>a DEF Asserted
<1>5. QueueAgrees'
  BY DEF IInv, QueueAgrees, KeyOf
<1>6. KeyIndexAgrees' /\ CapacityRespected'
  BY SameLeases
<1>7. NoLostWakeup'
  BY DEF IInv, NoLostWakeup
<1>8. TargetExclusive' /\ LeaseHasItsTarget' /\ AllCurrentGeneration'
  BY DEF IInv, TargetExclusive, LeaseHasItsTarget, AllCurrentGeneration, Live
<1>9. TargetOwned'
  <2> SUFFICES ASSUME NEW t \in Requests, targets[t] # None
               PROVE  LET d == sessions'[targets[t].session]
                      IN d # None /\ clients'[d] # None /\ clients'[d].conn = targets[t].conn
    BY DEF TargetOwned
  <2> DEFINE z == targets[t].session
  <2>1. z \in Sessions
    BY DEF IInv, TypeOK, Target
  <2>2. sessions[z] # None /\ clients[sessions[z]] # None
        /\ clients[sessions[z]].conn = targets[t].conn
    BY DEF IInv, TargetOwned
  <2>3. sessions[z] \in Clients /\ clients[sessions[z]].session = z
    BY <2>1, <2>2 DEF IInv, TypeOK, SessionsAgree
  <2>4. sessions'[z] = sessions[z]
    BY <2>1, <2>2, <1>a
  <2> QED
    BY <2>2, <2>3, <2>4, <1>a
<1> QED
  BY <1>1, <1>2, <1>3, <1>4, <1>5, <1>6, <1>7, <1>8, <1>9 DEF IInv

\* What a change of heartbeat flags alone leaves true.
LEMMA HeardFacts ==
  ASSUME IInv, NEW C, clients' = Heard(C), UNCHANGED sessions
  PROVE  /\ clients' \in [Clients -> Registration \cup {None}]
         /\ \A c \in Clients : /\ clients'[c] = None <=> clients[c] = None
                               /\ clients[c] # None =>
                                    /\ clients'[c].session = clients[c].session
                                    /\ clients'[c].conn = clients[c].conn
         /\ SessionsAgree'
<1>1. \A c \in Clients : clients[c] # None => clients[c] \in Registration
  BY DEF IInv, TypeOK
<1>2. clients' \in [Clients -> Registration \cup {None}]
  BY <1>1 DEF Heard, Registration, IInv, TypeOK
<1>3. \A c \in Clients : /\ clients'[c] = None <=> clients[c] = None
                         /\ clients[c] # None =>
                                    /\ clients'[c].session = clients[c].session
                                    /\ clients'[c].conn = clients[c].conn
  BY <1>1, NoneAssumption DEF Heard, Registration
<1>4. SessionsAgree'
  BY <1>1, <1>3 DEF IInv, TypeOK, SessionsAgree, Registration
<1> QED
  BY <1>2, <1>3, <1>4

\* An action that changes nothing but heartbeat and expiry flags.
LEMMA FlagsIInv ==
  ASSUME IInv, NEW C, clients' = Heard(C),
         UNCHANGED <<sessions, calls, promise, activeByKey, targets, waiters, generation>>,
         leases' \in [Requests -> Lease \cup {None}],
         \A r \in Requests : /\ leases'[r] = None <=> leases[r] = None
                             /\ leases[r] # None =>
                                  /\ leases'[r].target = leases[r].target
                                  /\ leases'[r].generation = leases[r].generation
  PROVE  IInv'
<1>1. Live' = Live
  BY DEF Live
<1>2. TypeOK' /\ SessionsAgree'
  BY HeardFacts DEF IInv, TypeOK
<1>3. LifeCycle'
  BY <1>1 DEF IInv, LifeCycle
<1>4. OwnedByRegistered'
  BY <1>1, HeardFacts DEF IInv, TypeOK, OwnedByRegistered, Asserted, LifeCycle, Call
<1>5. QueueAgrees' /\ NoLostWakeup'
  BY DEF IInv, QueueAgrees, KeyOf, NoLostWakeup
<1>6. KeyIndexAgrees'
  BY <1>1 DEF IInv, KeyIndexAgrees, KeyOf
<1>7. CapacityRespected'
  <2>1. \A p \in Providers : ActiveOf(p)' = ActiveOf(p)
    BY <1>1 DEF ActiveOf
  <2> QED
    BY <1>1, <2>1 DEF IInv, CapacityRespected
<1>8. TargetExclusive' /\ LeaseHasItsTarget' /\ AllCurrentGeneration'
  BY <1>1 DEF IInv, TargetExclusive, LeaseHasItsTarget, AllCurrentGeneration, Live
<1>9. TargetOwned'
  BY HeardFacts DEF IInv, TypeOK, TargetOwned, Target
<1> QED
  BY <1>1, <1>2, <1>3, <1>4, <1>5, <1>6, <1>7, <1>8, <1>9 DEF IInv

LEMMA TouchIInv ==
  ASSUME IInv, NEW c \in Clients, NEW s \in Sessions, NEW conn \in Conns, Touch(c, s, conn)
  PROVE  IInv'
BY FlagsIInv DEF Touch, IInv, TypeOK

LEMMA HeartbeatIInv ==
  ASSUME IInv, NEW c \in Clients, NEW s \in Sessions, NEW conn \in Conns,
         NEW L \in SUBSET LeasesOf(c), Heartbeat(c, s, conn, L)
  PROVE  IInv'
<1>1. L \subseteq Live
  BY DEF LeasesOf
<1>2. \A r \in L : leases[r] \in Lease
  BY <1>1 DEF Live, IInv, TypeOK
<1>3. \A r \in Requests :
        leases'[r] = IF r \in L THEN [leases[r] EXCEPT !.expired = FALSE] ELSE leases[r]
  BY DEF Heartbeat
<1>4. \A r \in L : /\ [leases[r] EXCEPT !.expired = FALSE] \in Lease
                   /\ [leases[r] EXCEPT !.expired = FALSE].target = leases[r].target
                   /\ [leases[r] EXCEPT !.expired = FALSE].generation = leases[r].generation
  BY <1>2 DEF Lease
<1>5. leases' \in [Requests -> Lease \cup {None}]
  BY <1>4 DEF Heartbeat, IInv, TypeOK
<1>6. \A r \in Requests : /\ leases'[r] = None <=> leases[r] = None
                          /\ leases[r] # None => /\ leases'[r].target = leases[r].target
                                                 /\ leases'[r].generation = leases[r].generation
  BY <1>2, <1>3, <1>4, NoneAssumption
<1> QED
  BY <1>5, <1>6, FlagsIInv DEF Heartbeat

LEMMA ExpireIInv ==
  ASSUME IInv, NEW r \in Requests, Expire(r)
  PROVE  IInv'
<1>1. leases[r] \in Lease
  BY DEF Expire, Live, IInv, TypeOK
<1>2. /\ [leases[r] EXCEPT !.expired = TRUE] \in Lease
      /\ [leases[r] EXCEPT !.expired = TRUE].target = leases[r].target
      /\ [leases[r] EXCEPT !.expired = TRUE].generation = leases[r].generation
  BY <1>1 DEF Lease
<1>3. leases' = [leases EXCEPT ![r] = [leases[r] EXCEPT !.expired = TRUE]]
  BY DEF Expire
<1>4. leases' \in [Requests -> Lease \cup {None}]
  BY <1>2, <1>3 DEF IInv, TypeOK
<1>5. \A q \in Requests : /\ leases'[q] = None <=> leases[q] = None
                          /\ leases[q] # None => /\ leases'[q].target = leases[q].target
                                                 /\ leases'[q].generation = leases[q].generation
  BY <1>1, <1>2, <1>3, NoneAssumption DEF IInv, TypeOK
<1>6. clients' = Heard({})
  BY DEF Expire, Heard, IInv, TypeOK
<1> QED
  BY <1>4, <1>5, <1>6, FlagsIInv DEF Expire

\* A promise callback settles a call that already has its lease.
LEMMA SettleIInv ==
  ASSUME IInv, NEW r \in Requests, Settle(r)
  PROVE  IInv'
<1> USE DEF Settle
<1>1. promise'[r] = "resolved" /\ \A q \in Requests \ {r} : promise'[q] = promise[q]
  BY DEF IInv, TypeOK
<1>2. TypeOK'
  BY DEF IInv, TypeOK, Phases
<1>3. LifeCycle' /\ OwnedByRegistered'
  BY <1>1 DEF IInv, LifeCycle, OwnedByRegistered, Asserted, Live
<1>4. SessionsAgree' /\ NoLostWakeup' /\ TargetOwned'
  BY DEF IInv, SessionsAgree, NoLostWakeup, TargetOwned
<1>5. QueueAgrees'
  <2>1. \A k \in Keys : \A i \in DOMAIN waiters[k] : waiters[k][i] \in Requests
    BY DEF IInv, TypeOK
  <2> QED
    BY <1>1, <2>1 DEF IInv, QueueAgrees, KeyOf
<1>6. KeyIndexAgrees' /\ CapacityRespected'
  BY SameLeases
<1>7. TargetExclusive' /\ LeaseHasItsTarget' /\ AllCurrentGeneration'
  BY DEF IInv, TargetExclusive, LeaseHasItsTarget, AllCurrentGeneration, Live
<1> QED
  BY <1>2, <1>3, <1>4, <1>5, <1>6, <1>7 DEF IInv

\* A client goes stale, or an idle target ages: only a flag changes.
LEMMA GoStaleIInv ==
  ASSUME IInv, NEW c \in Clients, GoStale(c)
  PROVE  IInv'
<1>1. clients[c] \in Registration
  BY DEF GoStale, IInv, TypeOK
<1>2. /\ [clients[c] EXCEPT !.stale = TRUE] \in Registration
      /\ [clients[c] EXCEPT !.stale = TRUE].session = clients[c].session
      /\ [clients[c] EXCEPT !.stale = TRUE].conn = clients[c].conn
  BY <1>1 DEF Registration
<1>3. clients' = [clients EXCEPT ![c] = [clients[c] EXCEPT !.stale = TRUE]]
  BY DEF GoStale
<1>4. \A d \in Clients : /\ clients'[d] = None <=> clients[d] = None
                         /\ clients[d] # None => /\ clients'[d].session = clients[d].session
                                                 /\ clients'[d].conn = clients[d].conn
  BY <1>1, <1>2, <1>3, NoneAssumption DEF IInv, TypeOK
<1>5. TypeOK'
  BY <1>2, <1>3 DEF GoStale, IInv, TypeOK
<1>6. SessionsAgree'
  BY <1>4 DEF GoStale, IInv, TypeOK, SessionsAgree, Registration
<1>7. LifeCycle' /\ NoLostWakeup' /\ QueueAgrees'
  BY DEF GoStale, IInv, LifeCycle, Live, NoLostWakeup, QueueAgrees, KeyOf
<1>8. OwnedByRegistered'
  BY <1>4 DEF GoStale, IInv, TypeOK, OwnedByRegistered, Asserted, Live, LifeCycle, Call
<1>9. KeyIndexAgrees' /\ CapacityRespected'
  BY SameLeases DEF GoStale
<1>10. TargetExclusive' /\ LeaseHasItsTarget' /\ AllCurrentGeneration'
  BY DEF GoStale, IInv, TargetExclusive, LeaseHasItsTarget, AllCurrentGeneration, Live
<1>11. TargetOwned'
  BY <1>4 DEF GoStale, IInv, TypeOK, TargetOwned, Target
<1> QED
  BY <1>5, <1>6, <1>7, <1>8, <1>9, <1>10, <1>11 DEF IInv

LEMMA AgeIInv ==
  ASSUME IInv, NEW t \in Requests, Age(t)
  PROVE  IInv'
<1>1. targets[t] \in Target
  BY DEF Age, IInv, TypeOK
<1>2. /\ [targets[t] EXCEPT !.aged = TRUE] \in Target
      /\ \A f \in {"provider", "session", "generation", "busy", "conn"} :
           [targets[t] EXCEPT !.aged = TRUE][f] = targets[t][f]
  BY <1>1 DEF Target
<1>3. targets' = [targets EXCEPT ![t] = [targets[t] EXCEPT !.aged = TRUE]]
  BY DEF Age
<1>4. \A u \in Requests : /\ targets'[u] = None <=> targets[u] = None
                          /\ targets[u] # None =>
                               /\ targets'[u].provider = targets[u].provider
                               /\ targets'[u].session = targets[u].session
                               /\ targets'[u].generation = targets[u].generation
                               /\ targets'[u].busy = targets[u].busy
                               /\ targets'[u].conn = targets[u].conn
  BY <1>1, <1>2, <1>3, NoneAssumption DEF IInv, TypeOK
<1>5. TypeOK'
  BY <1>2, <1>3 DEF Age, IInv, TypeOK
<1>6. LifeCycle' /\ SessionsAgree' /\ OwnedByRegistered' /\ QueueAgrees' /\ NoLostWakeup'
  BY <1>4 DEF Age, IInv, LifeCycle, SessionsAgree, OwnedByRegistered, Asserted, Live,
              QueueAgrees, KeyOf, NoLostWakeup
<1>7. KeyIndexAgrees' /\ CapacityRespected'
  BY SameLeases DEF Age
<1>8. TargetExclusive' /\ LeaseHasItsTarget' /\ AllCurrentGeneration' /\ TargetOwned'
  BY <1>4 DEF Age, IInv, TypeOK, TargetExclusive, LeaseHasItsTarget, AllCurrentGeneration,
              Live, TargetOwned, Lease
<1> QED
  BY <1>5, <1>6, <1>7, <1>8 DEF IInv

----------------------------------------------------------------------------
\* Taking one element out of a queue shifts the later ones forward by one.
LEMMA RemoveOne ==
  ASSUME NEW S, NEW q \in Seq(S), NEW i \in 1 .. Len(q)
  PROVE  LET w == SubSeq(q, 1, i - 1) \o SubSeq(q, i + 1, Len(q))
         IN  /\ w \in Seq(S)
             /\ Len(w) = Len(q) - 1
             /\ \A j \in 1 .. Len(q) - 1 : w[j] = IF j < i THEN q[j] ELSE q[j + 1]
<1> DEFINE a == SubSeq(q, 1, i - 1)
           b == SubSeq(q, i + 1, Len(q))
           w == a \o b
<1>1. Len(q) \in Nat /\ i \in Nat /\ i - 1 \in Nat /\ Len(q) - i \in Nat /\ 1 <= i /\ i <= Len(q)
  OBVIOUS
<1>2. a \in Seq(S) /\ Len(a) = i - 1 /\ \A j \in 1 .. i - 1 : a[j] = q[j]
  BY <1>1
<1>3. b \in Seq(S) /\ Len(b) = Len(q) - i /\ \A j \in 1 .. Len(q) - i : b[j] = q[i + j]
  BY <1>1
<1> HIDE DEF a, b
<1>4. /\ w \in Seq(S)
      /\ Len(w) = (i - 1) + (Len(q) - i)
      /\ \A j \in 1 .. (i - 1) + (Len(q) - i) : w[j] = IF j <= i - 1 THEN a[j] ELSE b[j - (i - 1)]
  <2> DEFINE m == i - 1
             n == Len(q) - i
  <2>1. m \in Nat /\ n \in Nat /\ Len(a) = m /\ Len(b) = n /\ a \in Seq(S) /\ b \in Seq(S)
    BY <1>1, <1>2, <1>3
  <2> HIDE DEF m, n
  <2>2. /\ a \o b \in Seq(S)
        /\ Len(a \o b) = m + n
        /\ \A j \in 1 .. m + n : (a \o b)[j] = IF j <= m THEN a[j] ELSE b[j - m]
    BY <2>1
  <2> QED
    BY <2>2 DEF m, n
<1> HIDE DEF w
<1>5. Len(w) = Len(q) - 1
  <2>1. (i - 1) + (Len(q) - i) = Len(q) - 1
    BY <1>1
  <2> QED
    BY <1>4, <2>1
<1>6. ASSUME NEW j \in 1 .. Len(q) - 1
      PROVE  w[j] = IF j < i THEN q[j] ELSE q[j + 1]
  <2>1. CASE j < i
    <3>1. j \in 1 .. i - 1 /\ j \in 1 .. (i - 1) + (Len(q) - i) /\ j <= i - 1
      BY <2>1, <1>1
    <3>2. w[j] = a[j]
      BY <3>1, <1>4
    <3> QED
      BY <2>1, <1>2, <3>1, <3>2
  <2>2. CASE j >= i
    <3>1. j - (i - 1) \in 1 .. Len(q) - i /\ i + (j - (i - 1)) = j + 1
      BY <2>2, <1>1, <1>5
    <3>2. w[j] = b[j - (i - 1)]
      BY <2>2, <1>1, <1>4, <1>5
    <3> QED
      BY <2>2, <1>1, <1>3, <3>1, <3>2
  <2> QED
    BY <2>1, <2>2, <1>1, <1>5
<1> USE DEF w
<1> QED
  BY <1>4, <1>5, <1>6 DEF a, b

\* ... so it takes that element out of the range, and leaves the order injective.
LEMMA RemoveOneRange ==
  ASSUME NEW S, NEW q \in Seq(S), NEW i \in 1 .. Len(q),
         \A a, b \in DOMAIN q : q[a] = q[b] => a = b
  PROVE  LET w == SubSeq(q, 1, i - 1) \o SubSeq(q, i + 1, Len(q))
         IN  /\ w \in Seq(S)
             /\ Len(w) = Len(q) - 1
             /\ \A a, b \in DOMAIN w : w[a] = w[b] => a = b
             /\ \A a \in DOMAIN w : w[a] # q[i] /\ \E b \in DOMAIN q : w[a] = q[b]
             /\ \A b \in DOMAIN q : b = i \/ \E a \in DOMAIN w : w[a] = q[b]
<1> DEFINE w == SubSeq(q, 1, i - 1) \o SubSeq(q, i + 1, Len(q))
           n == Len(q)
           at(j) == IF j < i THEN j ELSE j + 1
<1>1. /\ w \in Seq(S)
      /\ Len(w) = n - 1
      /\ \A j \in 1 .. n - 1 : w[j] = q[at(j)]
  BY RemoveOne
<1> HIDE DEF w
<1>2. /\ n \in Nat /\ i \in Nat /\ 1 <= i /\ i <= n
      /\ DOMAIN q = 1 .. n
      /\ DOMAIN w = 1 .. n - 1
  BY <1>1
<1> HIDE DEF n
<1>3. \A j \in 1 .. n - 1 : at(j) \in 1 .. n /\ at(j) # i
  BY <1>2
<1>4. \A a, b \in 1 .. n - 1 : at(a) = at(b) => a = b
  BY <1>2
<1>5. \A b \in 1 .. n : b = i \/ \E a \in 1 .. n - 1 : at(a) = b
  <2> SUFFICES ASSUME NEW b \in 1 .. n, b # i
               PROVE  \E a \in 1 .. n - 1 : at(a) = b
    OBVIOUS
  <2>1. CASE b < i
    <3>1. b \in 1 .. n - 1 /\ at(b) = b
      BY <2>1, <1>2
    <3> QED
      BY <3>1
  <2>2. CASE b > i
    <3>1. b - 1 \in 1 .. n - 1 /\ at(b - 1) = b
      BY <2>2, <1>2
    <3> QED
      BY <3>1
  <2> QED
    BY <2>1, <2>2, <1>2
<1> HIDE DEF at
<1>6. \A a, b \in DOMAIN w : w[a] = w[b] => a = b
  BY <1>1, <1>2, <1>3, <1>4
<1>7. \A a \in DOMAIN w : w[a] # q[i] /\ \E b \in DOMAIN q : w[a] = q[b]
  BY <1>1, <1>2, <1>3
<1>8. \A b \in DOMAIN q : b = i \/ \E a \in DOMAIN w : w[a] = q[b]
  BY <1>1, <1>2, <1>5
<1> QED
  BY <1>1, <1>6, <1>7, <1>8 DEF w, n

\* A call that leaves its queue leaves the others in order, and the key stays full for
\* those that still wait.
LEMMA LeaveQueueIInv ==
  ASSUME IInv, NEW r \in Requests, NEW C, LeaveQueue(r), clients' = Heard(C)
  PROVE  IInv'
<1> DEFINE k == KeyOf(r)
<1> USE DEF LeaveQueue
<1>1. PICK i \in DOMAIN waiters[k] :
        /\ waiters[k][i] = r
        /\ waiters' = [waiters EXCEPT ![k] =
                         SubSeq(waiters[k], 1, i - 1) \o SubSeq(waiters[k], i + 1, Len(waiters[k]))]
  OBVIOUS
<1>2. /\ k \in Keys
      /\ \A z \in Keys : /\ waiters[z] \in Seq(Requests)
                        /\ Len(waiters[z]) \in Nat
                        /\ DOMAIN waiters[z] = 1 .. Len(waiters[z])
  BY DEF IInv, TypeOK, LifeCycle, KeyOf, Keys, Call
<1>k. k = KeyOf(r)
  OBVIOUS
<1> HIDE DEF k
<1> DEFINE queue == waiters[k]
           w == SubSeq(queue, 1, i - 1) \o SubSeq(queue, i + 1, Len(queue))
<1>3. /\ w \in Seq(Requests)
      /\ Len(w) = Len(queue) - 1
      /\ \A a, b \in DOMAIN w : w[a] = w[b] => a = b
      /\ \A a \in DOMAIN w : w[a] # queue[i] /\ \E b \in DOMAIN queue : w[a] = queue[b]
      /\ \A b \in DOMAIN queue : b = i \/ \E a \in DOMAIN w : w[a] = queue[b]
  <2>1. queue \in Seq(Requests) /\ i \in 1 .. Len(queue)
    BY <1>1, <1>2
  <2>2. \A a, b \in DOMAIN queue : queue[a] = queue[b] => a = b
    BY <1>2 DEF IInv, QueueAgrees
  <2> HIDE DEF queue
  <2> QED
    BY <2>1, <2>2, RemoveOneRange
<1>w. waiters'[k] = w /\ \A z \in Keys : z # k => waiters'[z] = waiters[z]
  BY <1>1, <1>2 DEF IInv, TypeOK
<1> HIDE DEF w
<1>4. promise'[r] = "rejected" /\ \A q \in Requests \ {r} : promise'[q] = promise[q]
  BY DEF IInv, TypeOK
<1>5. TypeOK'
  <2>1. waiters' \in [Keys -> Seq(Requests)]
    BY <1>1, <1>2, <1>3, <1>w DEF IInv, TypeOK
  <2> QED
    BY <2>1, HeardFacts DEF IInv, TypeOK, Phases
<1>6. LifeCycle'
  BY <1>4 DEF IInv, LifeCycle, Live
<1>7. SessionsAgree'
  BY HeardFacts
<1>8. OwnedByRegistered'
  BY <1>4, HeardFacts DEF IInv, TypeOK, OwnedByRegistered, Asserted, Live, LifeCycle, Call
<1>9. QueueAgrees'
  <2> USE DEF IInv, QueueAgrees
  <2>1. \A z \in Keys : \A j \in DOMAIN waiters[z] : waiters[z][j] \in Requests
    BY <1>2
  <2>2. \A z \in Keys : \A j \in DOMAIN waiters[z] : waiters[z][j] = r => z = k
    BY <1>k
  <2>3. \A z \in Keys : \A j, l \in DOMAIN waiters'[z] : waiters'[z][j] = waiters'[z][l] => j = l
    <3> SUFFICES ASSUME NEW z \in Keys
                 PROVE  \A j, l \in DOMAIN waiters'[z] : waiters'[z][j] = waiters'[z][l] => j = l
      OBVIOUS
    <3>1. CASE z = k
      <4>1. waiters'[z] = w
        BY <3>1, <1>w
      <4> QED
        BY <4>1, <1>3
    <3>2. CASE z # k
      <4>1. waiters'[z] = waiters[z]
        BY <3>2, <1>w
      <4> QED
        BY <4>1
    <3> QED
      BY <3>1, <3>2
  <2>4. ASSUME NEW z \in Keys, NEW j \in DOMAIN waiters'[z]
        PROVE  promise'[waiters'[z][j]] = "waiting" /\ KeyOf(waiters'[z][j]) = z
    <3>1. CASE z = k
      <4>1. PICK l \in DOMAIN queue : w[j] = queue[l]
        BY <3>1, <1>3, <1>w
      <4>2. w[j] # r
        BY <3>1, <1>1, <1>3, <1>w
      <4>3. w[j] = waiters[k][l] /\ l \in DOMAIN waiters[k] /\ k \in Keys
        BY <4>1, <1>2
      <4>4. promise[w[j]] = "waiting" /\ KeyOf(w[j]) = k /\ w[j] \in Requests
        BY <4>3, <2>1
      <4>5. waiters'[z][j] = w[j]
        BY <3>1, <1>w
      <4> QED
        BY <3>1, <4>2, <4>4, <4>5, <1>4
    <3>2. CASE z # k
      BY <3>2, <1>4, <1>w, <2>1, <2>2
    <3> QED
      BY <3>1, <3>2
  <2>5. ASSUME NEW p \in Requests, promise'[p] = "waiting"
        PROVE  \E j \in DOMAIN waiters'[KeyOf(p)] : waiters'[KeyOf(p)][j] = p
    <3>1. p # r /\ promise[p] = "waiting"
      BY <1>4, <2>5
    <3>2. KeyOf(p) \in Keys
      BY <3>1 DEF TypeOK, LifeCycle, KeyOf, Keys, Call
    <3>3. PICK l \in DOMAIN waiters[KeyOf(p)] : waiters[KeyOf(p)][l] = p
      BY <3>1
    <3>4. CASE KeyOf(p) = k
      <4>1. l \in DOMAIN queue /\ queue[l] = p /\ l # i
        BY <3>1, <3>3, <3>4, <1>1
      <4>2. PICK j \in DOMAIN w : w[j] = queue[l]
        BY <4>1, <1>3
      <4>3. waiters'[KeyOf(p)] = w
        BY <3>4, <1>w
      <4> QED
        BY <4>1, <4>2, <4>3
    <3>5. CASE KeyOf(p) # k
      BY <3>2, <3>3, <3>5, <1>w
    <3> QED
      BY <3>4, <3>5
  <2>6. \A p : KeyOf(p)' = KeyOf(p)
    BY DEF KeyOf
  <2>7. \A z \in Keys : \A j \in DOMAIN waiters'[z] :
          promise'[waiters'[z][j]] = "waiting" /\ KeyOf(waiters[z][j])' = z
    <3> SUFFICES ASSUME NEW z \in Keys, NEW j \in DOMAIN waiters'[z]
                 PROVE  promise'[waiters'[z][j]] = "waiting" /\ KeyOf(waiters[z][j])' = z
      OBVIOUS
    <3>1. promise'[waiters'[z][j]] = "waiting" /\ KeyOf(waiters'[z][j]) = z
      BY <2>4
    <3>2. calls' = calls
      OBVIOUS
    <3> HIDE DEF LeaveQueue, IInv, QueueAgrees
    <3> QED
      BY <3>1, <3>2 DEF KeyOf
  <2>8. \A p \in Requests : promise'[p] = "waiting" =>
          \E j \in DOMAIN waiters'[KeyOf(p)'] : waiters'[KeyOf(p)'][j] = p
    BY <2>5, <2>6
  <2> QED
    BY <2>3, <2>7, <2>8
<1>10. KeyIndexAgrees' /\ CapacityRespected'
  BY SameLeases
<1>11. NoLostWakeup'
  <2>1. waiters[k] # <<>>
    BY <1>1, <1>2
  <2> QED
    BY <1>2, <1>w, <2>1 DEF IInv, NoLostWakeup
<1>12. TargetExclusive' /\ LeaseHasItsTarget' /\ AllCurrentGeneration'
  BY DEF IInv, TargetExclusive, LeaseHasItsTarget, AllCurrentGeneration, Live
<1>13. TargetOwned'
  BY HeardFacts DEF IInv, TypeOK, TargetOwned, Target
<1> QED
  BY <1>5, <1>6, <1>7, <1>8, <1>9, <1>10, <1>11, <1>12, <1>13 DEF IInv

LEMMA WaitTimeoutIInv ==
  ASSUME IInv, NEW r \in Requests, WaitTimeout(r)
  PROVE  IInv'
<1>1. clients' = Heard({})
  BY DEF WaitTimeout, Heard, IInv, TypeOK
<1> QED
  BY <1>1, LeaveQueueIInv DEF WaitTimeout

LEMMA AbortIInv ==
  ASSUME IInv, NEW r \in Requests, NEW C, Abort(r, C)
  PROVE  IInv'
<1>1. CASE LeaveQueue(r)
  BY <1>1, LeaveQueueIInv DEF Abort
<1>2. CASE /\ promise[r] = "drained"
           /\ promise' = [promise EXCEPT ![r] = "rejected"]
           /\ UNCHANGED <<sessions, calls, leases, activeByKey, targets, waiters, generation>>
  <2>1. promise'[r] = "rejected" /\ \A q \in Requests \ {r} : promise'[q] = promise[q]
    BY <1>2 DEF IInv, TypeOK
  <2>2. clients' = Heard(C)
    BY DEF Abort
  <2>3. TypeOK' /\ SessionsAgree'
    BY <1>2, <2>2, HeardFacts DEF IInv, TypeOK, Phases
  <2>4. LifeCycle'
    BY <1>2, <2>1 DEF IInv, LifeCycle, Live
  <2>5. OwnedByRegistered'
    BY <1>2, <2>1, <2>2, HeardFacts
       DEF IInv, TypeOK, OwnedByRegistered, Asserted, Live, LifeCycle, Call
  <2>6. QueueAgrees'
    <3>1. \A k \in Keys : \A i \in DOMAIN waiters[k] : waiters[k][i] \in Requests
      BY DEF IInv, TypeOK
    <3> QED
      BY <1>2, <2>1, <3>1 DEF IInv, QueueAgrees, KeyOf
  <2>7. KeyIndexAgrees' /\ CapacityRespected'
    BY <1>2, SameLeases
  <2>8. NoLostWakeup'
    BY <1>2 DEF IInv, NoLostWakeup
  <2>9. TargetExclusive' /\ LeaseHasItsTarget' /\ AllCurrentGeneration'
    BY <1>2 DEF IInv, TargetExclusive, LeaseHasItsTarget, AllCurrentGeneration, Live
  <2>10. TargetOwned'
    BY <1>2, <2>2, HeardFacts DEF IInv, TypeOK, TargetOwned, Target
  <2> QED
    BY <2>3, <2>4, <2>5, <2>6, <2>7, <2>8, <2>9, <2>10 DEF IInv
<1> QED
  BY <1>1, <1>2 DEF Abort

----------------------------------------------------------------------------
\* lease(): a call that passes assertClient() is new to every table.
FreshCall(r, call) ==
  /\ promise[r] = "idle" /\ r \notin Live /\ targets[r] = None
  /\ calls' \in [Requests -> Call \cup {None}]
  /\ calls'[r] = call /\ call # None
  /\ \A q \in Requests : q # r => calls'[q] = calls[q]
  /\ <<call.session, call.provider>> \in Keys
  /\ \A k \in Keys : /\ waiters[k] \in Seq(Requests)
                     /\ DOMAIN waiters[k] = 1 .. Len(waiters[k])
                     /\ Len(waiters[k]) \in Nat
  /\ \A k \in Keys : \A i \in DOMAIN waiters[k] :
       waiters[k][i] \in Requests /\ waiters[k][i] # r
  /\ clients' \in [Clients -> Registration \cup {None}]
  /\ SessionsAgree'
  /\ Asserted(call.client, call.session, call.conn)'
  /\ \A q \in Requests : (q \in Live \/ promise[q] = "waiting") =>
       q # r /\ Asserted(calls[q].client, calls[q].session, calls[q].conn)'

LEMMA CalledFacts ==
  ASSUME IInv, NEW r \in Requests, NEW call \in Call, Called(r, call)
  PROVE  FreshCall(r, call)
<1> USE DEF Called
<1>1. promise[r] = "idle" /\ r \notin Live /\ targets[r] = None
  BY DEF IInv, LifeCycle
<1>2. /\ calls' \in [Requests -> Call \cup {None}]
      /\ calls'[r] = call
      /\ call # None
      /\ \A q \in Requests : q # r => calls'[q] = calls[q]
  BY NoneAssumption DEF IInv, TypeOK
<1>3. <<call.session, call.provider>> \in Keys
  BY DEF Call, Keys
<1>4. \A k \in Keys : /\ waiters[k] \in Seq(Requests)
                      /\ DOMAIN waiters[k] = 1 .. Len(waiters[k])
                      /\ Len(waiters[k]) \in Nat
  BY DEF IInv, TypeOK
<1>5. ASSUME NEW k \in Keys, NEW i \in DOMAIN waiters[k]
      PROVE  waiters[k][i] \in Requests /\ waiters[k][i] # r
  <2>1. promise[waiters[k][i]] = "waiting"
    BY DEF IInv, QueueAgrees
  <2> QED
    BY <1>1, <1>4, <2>1
<1>6. clients' \in [Clients -> Registration \cup {None}] /\ SessionsAgree'
  BY HeardFacts
<1>7. call.client \in Clients
  BY DEF Call
<1>8. Asserted(call.client, call.session, call.conn)'
  BY <1>7, HeardFacts DEF Asserted
<1>9. ASSUME NEW q \in Requests, q \in Live \/ promise[q] = "waiting"
      PROVE  q # r /\ Asserted(calls[q].client, calls[q].session, calls[q].conn)'
  <2>1. q # r /\ calls'[q] = calls[q]
    BY <1>1, <1>2, <1>9
  <2>2. Asserted(calls[q].client, calls[q].session, calls[q].conn)
    BY <1>9 DEF IInv, OwnedByRegistered
  <2>3. calls[q].client \in Clients
    BY <1>9 DEF IInv, TypeOK, LifeCycle, Call, Live
  <2> QED
    BY <2>1, <2>2, <2>3, HeardFacts DEF Asserted
<1> QED
  BY <1>1, <1>2, <1>3, <1>4, <1>5, <1>6, <1>8, <1>9 DEF FreshCall

\* A call that got no lease changes nothing of the leases and targets.
LEMMA CalledSameLeases ==
  ASSUME IInv, NEW r \in Requests, NEW call \in Call, Called(r, call),
         UNCHANGED <<leases, activeByKey, targets>>
  PROVE  /\ Live' = Live
         /\ KeyIndexAgrees' /\ CapacityRespected'
         /\ TargetExclusive' /\ LeaseHasItsTarget' /\ AllCurrentGeneration' /\ TargetOwned'
<1>1. Live' = Live
  BY DEF Live
<1>2. \A q \in Live : q \in Requests /\ calls'[q] = calls[q]
  <2>1. FreshCall(r, call)
    BY CalledFacts
  <2> QED
    BY <2>1 DEF FreshCall, Live
<1>3. KeyIndexAgrees'
  BY <1>1, <1>2 DEF IInv, KeyIndexAgrees, KeyOf
<1>4. CapacityRespected'
  <2>1. \A p \in Providers : ActiveOf(p)' = ActiveOf(p)
    BY <1>1, <1>2 DEF ActiveOf
  <2> QED
    BY <1>1, <2>1 DEF IInv, CapacityRespected
<1>5. TargetExclusive' /\ AllCurrentGeneration'
  BY <1>1 DEF IInv, TargetExclusive, AllCurrentGeneration, Called
<1>6. LeaseHasItsTarget'
  BY <1>1, <1>2 DEF IInv, LeaseHasItsTarget
<1>7. TargetOwned'
  <2>1. clients' = Heard({call.client}) /\ UNCHANGED sessions
    BY DEF Called
  <2> QED
    BY <2>1, HeardFacts DEF IInv, TypeOK, TargetOwned, Target
<1> QED
  BY <1>1, <1>3, <1>4, <1>5, <1>6, <1>7

LEMMA LeaseRefuseIInv ==
  ASSUME IInv, NEW r \in Requests, NEW call \in Call, LeaseRefuse(r, call)
  PROVE  IInv'
<1>1. Called(r, call) /\ UNCHANGED <<leases, activeByKey, targets, waiters>>
  BY DEF LeaseRefuse
<1>f. FreshCall(r, call)
  BY <1>1, CalledFacts
<1>s. /\ Live' = Live
      /\ KeyIndexAgrees' /\ CapacityRespected'
      /\ TargetExclusive' /\ LeaseHasItsTarget' /\ AllCurrentGeneration' /\ TargetOwned'
  BY <1>1, CalledSameLeases
<1>2. promise' \in [Requests -> Phases] /\ promise'[r] = "rejected"
      /\ \A q \in Requests : q # r => promise'[q] = promise[q]
  BY DEF LeaseRefuse, IInv, TypeOK, Phases
<1>3. TypeOK' /\ SessionsAgree'
  BY <1>1, <1>2, <1>f DEF FreshCall, IInv, TypeOK, Called
<1>4. LifeCycle'
  BY <1>1, <1>2, <1>f, <1>s DEF FreshCall, IInv, LifeCycle
<1>5. OwnedByRegistered'
  <2> SUFFICES ASSUME NEW q \in Requests, (q \in Live \/ promise[q] = "waiting")'
               PROVE  Asserted(calls[q].client, calls[q].session, calls[q].conn)'
    BY DEF OwnedByRegistered
  <2>1. q \in Live \/ promise[q] = "waiting"
    BY <1>1, <1>2, <1>s
  <2> QED
    BY <1>1, <2>1, <1>f DEF FreshCall
<1>6. QueueAgrees' /\ NoLostWakeup'
  <2>1. \A q \in Requests : q # r => KeyOf(q)' = KeyOf(q)
    BY <1>1, <1>f DEF FreshCall, KeyOf
  <2> QED
    BY <1>1, <1>2, <2>1, <1>f DEF FreshCall, IInv, QueueAgrees, NoLostWakeup
<1> QED
  BY <1>1, <1>3, <1>4, <1>5, <1>6, <1>s DEF IInv

\* A call queues only behind a full key, so NoLostWakeup holds for it from the start.
LEMMA LeaseEnqueueIInv ==
  ASSUME IInv, NEW r \in Requests, NEW call \in Call, LeaseEnqueue(r, call)
  PROVE  IInv'
<1> DEFINE k == <<call.session, call.provider>>
<1>1. Called(r, call) /\ UNCHANGED <<leases, activeByKey, targets>>
  BY DEF LeaseEnqueue
<1>f. FreshCall(r, call)
  BY <1>1, CalledFacts
<1>s. /\ Live' = Live
      /\ KeyIndexAgrees' /\ CapacityRespected'
      /\ TargetExclusive' /\ LeaseHasItsTarget' /\ AllCurrentGeneration' /\ TargetOwned'
  BY <1>1, CalledSameLeases
<1>2. promise' \in [Requests -> Phases] /\ promise'[r] = "waiting"
      /\ \A q \in Requests : q # r => promise'[q] = promise[q]
  BY DEF LeaseEnqueue, IInv, TypeOK, Phases
<1>3. k \in Keys /\ KeyOf(r)' = k /\ \A q \in Requests : q # r => KeyOf(q)' = KeyOf(q)
  BY <1>1, <1>f DEF FreshCall, KeyOf
<1>4. /\ waiters' \in [Keys -> Seq(Requests)]
      /\ waiters'[k] = Append(waiters[k], r)
      /\ \A z \in Keys : z # k => waiters'[z] = waiters[z]
  BY <1>3 DEF LeaseEnqueue, IInv, TypeOK
<1>c. k[2] = call.provider /\ Cardinality(activeByKey[k]) >= Cap[call.provider]
  BY DEF LeaseEnqueue, AtKeyCap
<1> HIDE DEF k
<1>5. /\ Len(waiters[k]) \in Nat
      /\ DOMAIN waiters'[k] = 1 .. Len(waiters[k]) + 1
      /\ DOMAIN waiters[k] = 1 .. Len(waiters[k])
      /\ waiters'[k][Len(waiters[k]) + 1] = r
      /\ \A i \in 1 .. Len(waiters[k]) : waiters'[k][i] = waiters[k][i]
  BY <1>1, <1>3, <1>4, <1>f DEF FreshCall
<1>6. TypeOK' /\ SessionsAgree'
  BY <1>1, <1>2, <1>4, <1>f DEF FreshCall, IInv, TypeOK, Called
<1>7. LifeCycle'
  BY <1>1, <1>2, <1>f, <1>s DEF FreshCall, IInv, LifeCycle
<1>8. OwnedByRegistered'
  <2> SUFFICES ASSUME NEW q \in Requests, (q \in Live \/ promise[q] = "waiting")'
               PROVE  Asserted(calls[q].client, calls[q].session, calls[q].conn)'
    BY DEF OwnedByRegistered
  <2>1. CASE q = r
    BY <1>1, <2>1, <1>f DEF FreshCall
  <2>2. CASE q # r
    <3>1. q \in Live \/ promise[q] = "waiting"
      BY <1>1, <1>2, <2>2, <1>s
    <3> QED
      BY <1>1, <3>1, <1>f DEF FreshCall
  <2> QED
    BY <2>1, <2>2
<1>9. QueueAgrees'
  <2>1. \A z \in Keys : \A i, j \in DOMAIN waiters'[z] : waiters'[z][i] = waiters'[z][j] => i = j
    <3> SUFFICES ASSUME NEW z \in Keys
                 PROVE  \A i, j \in DOMAIN waiters'[z] : waiters'[z][i] = waiters'[z][j] => i = j
      OBVIOUS
    <3>1. \A i \in DOMAIN waiters[z] : waiters[z][i] # r
      BY <1>1, <1>f DEF FreshCall
    <3>2. \A i, j \in DOMAIN waiters[z] : waiters[z][i] = waiters[z][j] => i = j
      BY DEF IInv, QueueAgrees
    <3>3. CASE z = k
      BY <3>1, <3>2, <3>3, <1>5
    <3>4. CASE z # k
      BY <3>2, <3>4, <1>4
    <3> QED
      BY <3>3, <3>4
  <2>2. \A z \in Keys : \A i \in DOMAIN waiters'[z] :
          promise'[waiters'[z][i]] = "waiting" /\ KeyOf(waiters[z][i])' = z
    <3> SUFFICES ASSUME NEW z \in Keys, NEW i \in DOMAIN waiters'[z]
                 PROVE  promise'[waiters'[z][i]] = "waiting" /\ KeyOf(waiters[z][i])' = z
      OBVIOUS
    <3>1. CASE z = k /\ i = Len(waiters[k]) + 1
      <4>1. waiters'[z][i] = r
        BY <3>1, <1>5
      <4>2. KeyOf(waiters[z][i])' = k
        BY <4>1, <1>3 DEF KeyOf
      <4> QED
        BY <3>1, <4>1, <4>2, <1>2
    <3>2. CASE ~(z = k /\ i = Len(waiters[k]) + 1)
      <4>1. i \in DOMAIN waiters[z] /\ waiters'[z][i] = waiters[z][i]
        BY <3>2, <1>4, <1>5
      <4>2. waiters[z][i] \in Requests /\ waiters[z][i] # r
        BY <4>1, <1>1, <1>f DEF FreshCall
      <4>3. promise[waiters[z][i]] = "waiting" /\ KeyOf(waiters[z][i]) = z
        BY <4>1 DEF IInv, QueueAgrees
      <4>4. KeyOf(waiters[z][i])' = z
        BY <4>1, <4>2, <4>3, <1>1, <1>f DEF FreshCall, KeyOf
      <4> QED
        BY <4>1, <4>2, <4>3, <4>4, <1>2
    <3> QED
      BY <3>1, <3>2
  <2>3. \A q \in Requests : promise'[q] = "waiting" =>
          \E i \in DOMAIN waiters'[KeyOf(q)'] : waiters'[KeyOf(q)'][i] = q
    <3> SUFFICES ASSUME NEW q \in Requests, promise'[q] = "waiting"
                 PROVE  \E i \in DOMAIN waiters'[KeyOf(q)'] : waiters'[KeyOf(q)'][i] = q
      OBVIOUS
    <3>1. CASE q = r
      <4>1. Len(waiters[k]) + 1 \in DOMAIN waiters'[k]
        BY <1>5
      <4> QED
        BY <3>1, <4>1, <1>3, <1>5
    <3>2. CASE q # r
      <4>1. promise[q] = "waiting" /\ KeyOf(q)' = KeyOf(q)
        BY <3>2, <1>2, <1>3
      <4>2. PICK i \in DOMAIN waiters[KeyOf(q)] : waiters[KeyOf(q)][i] = q
        BY <4>1 DEF IInv, QueueAgrees
      <4>3. KeyOf(q) \in Keys
        BY <4>1 DEF IInv, TypeOK, LifeCycle, KeyOf, Keys, Call
      <4>4. i \in DOMAIN waiters'[KeyOf(q)] /\ waiters'[KeyOf(q)][i] = q
        <5>1. CASE KeyOf(q) = k
          BY <5>1, <4>2, <1>5
        <5>2. CASE KeyOf(q) # k
          BY <5>2, <4>2, <4>3, <1>4
        <5> QED
          BY <5>1, <5>2
      <4> QED
        BY <4>1, <4>4
    <3> QED
      BY <3>1, <3>2
  <2> QED
    BY <2>1, <2>2, <2>3 DEF QueueAgrees
<1>10. NoLostWakeup'
  <2>1. Cardinality(activeByKey[k]) = Cap[k[2]]
    <3>1. Cap[k[2]] \in Nat
      BY <1>3, CapAssumption DEF Keys
    <3> QED
      BY <1>c, <1>3, <3>1, KeyWithinCap
  <2> QED
    BY <1>1, <1>3, <1>4, <2>1 DEF IInv, NoLostWakeup
<1> QED
  BY <1>1, <1>6, <1>7, <1>8, <1>9, <1>10, <1>s DEF IInv

----------------------------------------------------------------------------
\* TargetExclusive, LeaseHasItsTarget and AllCurrentGeneration, said of a lease table
\* and a target table that need not be the current ones.
TablesAgree(ls, ts, args, gen) ==
  /\ \A r, q \in Requests :
       ls[r] # None /\ ls[q] # None /\ ls[r].target = ls[q].target => r = q
  /\ \A t \in Requests : ts[t] # None =>
       /\ ts[t].busy <=> \E r \in Requests : ls[r] # None /\ ls[r].target = t
       /\ ts[t].generation = gen
  /\ \A r \in Requests : ls[r] # None =>
       /\ ts[ls[r].target] # None
       /\ ts[ls[r].target].provider = args[r].provider
       /\ ts[ls[r].target].session = args[r].session
       /\ ls[r].generation = gen

LEMMA TablesAgreeNow ==
  ASSUME TypeOK
  PROVE  TablesAgree(leases, targets, calls, generation)
           <=> TargetExclusive /\ LeaseHasItsTarget /\ AllCurrentGeneration
BY DEF TypeOK, TablesAgree, TargetExclusive, LeaseHasItsTarget, AllCurrentGeneration, Live, Lease

LEMMA TablesAgreeNext ==
  ASSUME TypeOK', TablesAgree(leases', targets', calls', generation')
  PROVE  TargetExclusive' /\ LeaseHasItsTarget' /\ AllCurrentGeneration'
BY DEF TypeOK, TablesAgree, TargetExclusive, LeaseHasItsTarget, AllCurrentGeneration, Live, Lease

LEMMA AgreeNext ==
  ASSUME IInv'
  PROVE  TablesAgree(leases', targets', calls', generation')
BY DEF IInv, TypeOK, TablesAgree, TargetExclusive, LeaseHasItsTarget, AllCurrentGeneration,
       Live, Lease

\* The tabs a target table holds for a key, busy and idle.
TabsOf(ts, k) == {t \in Requests : ts[t] # None /\ <<ts[t].session, ts[t].provider>> = k}

\* A key got no tab it did not have, unless none of its tabs is idle now.
TabsEarned(old, new, k) ==
  \/ TabsOf(new, k) \subseteq TabsOf(old, k)
  \/ \A t \in TabsOf(new, k) : new[t].busy

\* What allocate() did to the tables it was given.
AllocatedTables(G, args, base, pool, gen) ==
  /\ leases' \in [Requests -> Lease \cup {None}]
  /\ targets' \in [Requests -> Target \cup {None}]
  /\ \A r \in Requests : leases'[r] # None <=> r \in G \/ base[r] # None
  /\ \A r \in Requests : r \notin G => leases'[r] = base[r]
  /\ TablesAgree(leases', targets', args, gen)
  /\ \A k \in Keys : TabsEarned(pool, targets', k)
  /\ \A t \in Requests : targets'[t] # None =>
       \/ /\ pool[t] # None
          /\ targets'[t].session = pool[t].session
          /\ targets'[t].conn = pool[t].conn
       \/ /\ t \in G
          /\ targets'[t].session = args[t].session
          /\ targets'[t].conn = args[t].conn

\* allocate() keeps the tables in agreement, however many waiters it serves: an idle
\* target has no lease yet, and a new one has a name no lease uses.
LEMMA AllocatedKeepsTables ==
  ASSUME NEW G \in SUBSET Requests, NEW gen \in Nat,
         NEW args \in [Requests -> Call \cup {None}],
         NEW base \in [Requests -> Lease \cup {None}],
         NEW pool \in [Requests -> Target \cup {None}],
         NEW place \in [G -> Requests],
         \A r \in G : args[r] # None /\ base[r] = None,
         TablesAgree(base, pool, args, gen),
         Placed(G, args, pool, gen, place),
         Allocated(G, args, base, pool, gen, place)
  PROVE  AllocatedTables(G, args, base, pool, gen)
<1> DEFINE taken == {place[r] : r \in G}
           new(r) == [target |-> place[r], generation |-> gen, expired |-> FALSE]
           tab(t) == [provider |-> args[t].provider, session |-> args[t].session,
                      generation |-> gen, busy |-> TRUE, aged |-> FALSE, conn |-> args[t].conn]
           used(t) == [pool[t] EXCEPT !.busy = TRUE, !.aged = FALSE]
<1>1. \A r \in G : /\ new(r) \in Lease /\ new(r) # None
                   /\ new(r).target = place[r] /\ new(r).generation = gen
  <2>1. \A r \in G : /\ new(r) \in Lease
                     /\ new(r).target = place[r] /\ new(r).generation = gen
    BY DEF Lease
  <2> HIDE DEF new
  <2> QED
    BY <2>1, NoneAssumption
<1>2. /\ \A r \in G : leases'[r] = new(r)
      /\ \A r \in Requests : r \notin G => leases'[r] = base[r]
  BY DEF Allocated
<1>3. leases' \in [Requests -> Lease \cup {None}]
  BY <1>1 DEF Allocated
<1>4. \A r \in G : args[r] \in Call
  OBVIOUS
<1>5. \A t \in G : /\ tab(t) \in Target /\ tab(t) # None
                   /\ tab(t).provider = args[t].provider /\ tab(t).session = args[t].session
                   /\ tab(t).generation = gen /\ tab(t).busy = TRUE /\ tab(t).conn = args[t].conn
  <2>1. \A t \in G : /\ tab(t) \in Target
                     /\ tab(t).provider = args[t].provider /\ tab(t).session = args[t].session
                     /\ tab(t).generation = gen /\ tab(t).busy = TRUE
                     /\ tab(t).conn = args[t].conn
    BY <1>4 DEF Target, Call
  <2> HIDE DEF tab
  <2> QED
    BY <2>1, NoneAssumption
<1>6. \A t \in Requests : pool[t] # None =>
        /\ used(t) \in Target /\ used(t) # None
        /\ used(t).provider = pool[t].provider /\ used(t).session = pool[t].session
        /\ used(t).generation = pool[t].generation /\ used(t).busy = TRUE
        /\ used(t).conn = pool[t].conn
  <2> SUFFICES ASSUME NEW t \in Requests, pool[t] # None
               PROVE  /\ used(t) \in Target /\ used(t) # None
                      /\ used(t).provider = pool[t].provider
                      /\ used(t).session = pool[t].session
                      /\ used(t).generation = pool[t].generation
                      /\ used(t).busy = TRUE
                      /\ used(t).conn = pool[t].conn
    OBVIOUS
  <2>1. pool[t] \in Target
    OBVIOUS
  <2> QED
    BY <2>1, NoneAssumption DEF Target
<1>7. /\ \A t \in Requests : t \notin taken => targets'[t] = pool[t]
      /\ \A t \in taken : pool[t] # None =>
           targets'[t] = used(t)
      /\ \A t \in taken : pool[t] = None => targets'[t] = tab(t)
  BY DEF Allocated
<1>8. \A r \in G : /\ place[r] \in Requests
                   /\ \/ Reusable(pool, r, args, gen, place[r])
                      \/ place[r] = r /\ pool[r] = None
  BY DEF Placed
<1>9. \A t \in taken : t \in Requests /\ (pool[t] = None => t \in G)
  BY <1>8 DEF Reusable
<1> HIDE DEF new, tab, used
<1>10. targets' \in [Requests -> Target \cup {None}]
  <2>1. \A t \in Requests : targets'[t] \in Target \cup {None}
    BY <1>5, <1>6, <1>7, <1>9
  <2> QED
    BY <2>1 DEF Allocated
<1>11. \A r \in G : /\ targets'[place[r]] # None
                    /\ targets'[place[r]].provider = args[r].provider
                    /\ targets'[place[r]].session = args[r].session
                    /\ targets'[place[r]].generation = gen
                    /\ targets'[place[r]].busy = TRUE
  <2> SUFFICES ASSUME NEW r \in G
               PROVE  /\ targets'[place[r]] # None
                      /\ targets'[place[r]].provider = args[r].provider
                      /\ targets'[place[r]].session = args[r].session
                      /\ targets'[place[r]].generation = gen
                      /\ targets'[place[r]].busy = TRUE
    OBVIOUS
  <2>1. CASE Reusable(pool, r, args, gen, place[r])
    <3>1. place[r] \in taken /\ place[r] \in Requests /\ pool[place[r]] # None
      BY <2>1, <1>8 DEF Reusable
    <3>2. targets'[place[r]] = used(place[r])
      BY <3>1, <1>7
    <3> QED
      BY <2>1, <3>1, <3>2, <1>6 DEF Reusable
  <2>2. CASE place[r] = r /\ pool[r] = None
    <3>1. r \in taken /\ targets'[r] = tab(r)
      BY <2>2, <1>7
    <3> QED
      BY <2>2, <3>1, <1>5
  <2> QED
    BY <2>1, <2>2, <1>8
<1>12. \A q \in Requests : base[q] # None => base[q].target \notin taken
  <2> SUFFICES ASSUME NEW q \in Requests, base[q] # None, NEW r \in G, base[q].target = place[r]
               PROVE  FALSE
    OBVIOUS
  <2>1. pool[place[r]] # None /\ pool[place[r]].busy
    BY <1>8 DEF TablesAgree
  <2> QED
    BY <2>1, <1>8 DEF Reusable
<1>13. \A r, q \in Requests :
         leases'[r] # None /\ leases'[q] # None /\ leases'[r].target = leases'[q].target => r = q
  <2> SUFFICES ASSUME NEW r \in Requests, NEW q \in Requests, leases'[r] # None,
                      leases'[q] # None, leases'[r].target = leases'[q].target
               PROVE  r = q
    OBVIOUS
  <2>1. CASE r \in G /\ q \in G
    BY <2>1, <1>1, <1>2 DEF Placed
  <2>2. CASE r \in G /\ q \notin G
    BY <2>2, <1>1, <1>2, <1>12
  <2>3. CASE r \notin G /\ q \in G
    BY <2>3, <1>1, <1>2, <1>12
  <2>4. CASE r \notin G /\ q \notin G
    BY <2>4, <1>2 DEF TablesAgree
  <2> QED
    BY <2>1, <2>2, <2>3, <2>4
<1>14. ASSUME NEW t \in Requests, targets'[t] # None
       PROVE  /\ targets'[t].busy <=>
                   \E r \in Requests : leases'[r] # None /\ leases'[r].target = t
              /\ targets'[t].generation = gen
  <2>1. CASE t \in taken
    BY <2>1, <1>1, <1>2, <1>11
  <2>2. CASE t \notin taken
    <3>1. targets'[t] = pool[t]
      BY <2>2, <1>7
    <3>2. \A r \in Requests : (leases'[r] # None /\ leases'[r].target = t)
                                <=> (base[r] # None /\ base[r].target = t)
      BY <2>2, <1>1, <1>2
    <3> QED
      BY <1>14, <3>1, <3>2 DEF TablesAgree
  <2> QED
    BY <2>1, <2>2
<1>15. ASSUME NEW r \in Requests, leases'[r] # None
       PROVE  /\ targets'[leases'[r].target] # None
              /\ targets'[leases'[r].target].provider = args[r].provider
              /\ targets'[leases'[r].target].session = args[r].session
              /\ leases'[r].generation = gen
  <2>1. CASE r \in G
    BY <2>1, <1>1, <1>2, <1>11
  <2>2. CASE r \notin G
    <3>1. base[r] # None /\ leases'[r] = base[r] /\ base[r].target \in Requests
      BY <2>2, <1>2, <1>15 DEF Lease
    <3>2. targets'[base[r].target] = pool[base[r].target]
      BY <3>1, <1>7, <1>12
    <3> QED
      BY <3>1, <3>2 DEF TablesAgree
  <2> QED
    BY <2>1, <2>2
<1>16. TablesAgree(leases', targets', args, gen)
  BY <1>13, <1>14, <1>15 DEF TablesAgree
<1>17. ASSUME NEW t \in Requests, targets'[t] # None
       PROVE  \/ /\ pool[t] # None
                 /\ targets'[t].session = pool[t].session
                 /\ targets'[t].conn = pool[t].conn
              \/ /\ t \in G
                 /\ targets'[t].session = args[t].session
                 /\ targets'[t].conn = args[t].conn
  <2>1. CASE t \notin taken
    BY <2>1, <1>7, <1>17
  <2>2. CASE t \in taken /\ pool[t] # None
    BY <2>2, <1>6, <1>7
  <2>3. CASE t \in taken /\ pool[t] = None
    BY <2>3, <1>5, <1>7, <1>9
  <2> QED
    BY <2>1, <2>2, <2>3
<1>18. ASSUME NEW k \in Keys, NEW t \in TabsOf(targets', k), ~targets'[t].busy,
             NEW u \in TabsOf(targets', k)
       PROVE  u \in TabsOf(pool, k)
  <2>1. /\ t \in Requests /\ targets'[t] # None
        /\ u \in Requests /\ targets'[u] # None
        /\ targets'[t].session = targets'[u].session
        /\ targets'[t].provider = targets'[u].provider
        /\ <<targets'[u].session, targets'[u].provider>> = k
    BY <1>18 DEF TabsOf
  <2>2. t \notin taken
    BY <2>1, <1>11, <1>18
  <2>3. targets'[t] = pool[t] /\ pool[t] # None /\ pool[t].generation = gen
    BY <2>1, <2>2, <1>7, <1>14
  <2>4. CASE u \in taken /\ pool[u] = None
    <3>1. PICK r \in G : place[r] = u
      BY <2>4
    <3>2. ~Reusable(pool, r, args, gen, place[r])
      BY <2>4, <3>1 DEF Reusable
    <3>3. /\ r = u
          /\ \A x \in Requests : Reusable(pool, r, args, gen, x) => \E q \in G : place[q] = x
      BY <3>1, <3>2 DEF Placed
    <3>4. u \in G /\ targets'[u] = tab(u)
      BY <2>4, <3>3, <1>7
    <3>5. targets'[u].session = args[u].session /\ targets'[u].provider = args[u].provider
      BY <3>4, <1>5
    <3>6. Reusable(pool, r, args, gen, t)
      BY <2>1, <2>3, <3>3, <3>5, <1>18 DEF Reusable
    <3> QED
      BY <2>1, <2>2, <3>3, <3>6
  <2>5. CASE u \in taken /\ pool[u] # None
    <3>1. targets'[u] = used(u)
      BY <2>5, <1>7
    <3>2. targets'[u].session = pool[u].session /\ targets'[u].provider = pool[u].provider
      BY <2>1, <2>5, <3>1, <1>6
    <3> QED
      BY <2>1, <2>5, <3>2 DEF TabsOf
  <2>6. CASE u \notin taken
    BY <2>1, <2>6, <1>7 DEF TabsOf
  <2> QED
    BY <2>4, <2>5, <2>6
<1>19. \A k \in Keys : TabsEarned(pool, targets', k)
  BY <1>18 DEF TabsEarned
<1> QED
  BY <1>1, <1>2, <1>3, <1>10, <1>16, <1>17, <1>19 DEF AllocatedTables

\* lease(): the tables once a fresh call has its lease.
LEMMA AllocateTables ==
  ASSUME IInv, NEW r \in Requests, NEW call \in Call, LeaseAllocate(r, call)
  PROVE  AllocatedTables({r}, calls', leases, targets, generation)
<1>1. PICK place \in [{r} -> Requests] :
        /\ Placed({r}, calls', targets, generation, place)
        /\ Allocated({r}, calls', leases, targets, generation, place)
  BY DEF LeaseAllocate
<1>f. FreshCall(r, call)
  BY CalledFacts DEF LeaseAllocate
<1>2. TablesAgree(leases, targets, calls, generation)
  BY TablesAgreeNow DEF IInv
<1>3. leases[r] = None /\ \A q \in Requests : leases[q] # None => calls'[q] = calls[q]
  BY <1>f DEF FreshCall, Live
<1>4. TablesAgree(leases, targets, calls', generation)
  BY <1>2, <1>3 DEF TablesAgree
<1>5. /\ leases \in [Requests -> Lease \cup {None}]
      /\ targets \in [Requests -> Target \cup {None}]
      /\ calls' \in [Requests -> Call \cup {None}]
      /\ generation \in Nat /\ calls'[r] # None
  BY <1>f DEF FreshCall, IInv, TypeOK
<1> QED
  BY <1>1, <1>3, <1>4, <1>5, AllocatedKeepsTables

\* A target of the registered connection of its session stays one, as long as the
\* registration does.
LEMMA TargetOwnedNow ==
  ASSUME IInv, NEW t \in Requests, targets[t] # None
  PROVE  LET c == sessions[targets[t].session]
         IN /\ targets[t].session \in Sessions
            /\ c \in Clients /\ clients[c] # None
            /\ clients[c].conn = targets[t].conn
            /\ clients[c].session = targets[t].session
BY DEF IInv, TypeOK, TargetOwned, SessionsAgree, Target

\* lease(): a call takes a slot only where the key, the provider and the broker have one.
LEMMA LeaseAllocateIInv ==
  ASSUME IInv, NEW r \in Requests, NEW call \in Call, LeaseAllocate(r, call)
  PROVE  IInv'
<1> DEFINE k == <<call.session, call.provider>>
<1>1. /\ Called(r, call) /\ ~AtKeyCap(call) /\ ~AtCapacity(call)
      /\ waiters' = waiters
      /\ generation' = generation /\ sessions' = sessions
  BY DEF LeaseAllocate, Called
<1>f. FreshCall(r, call)
  BY <1>1, CalledFacts
<1>3. promise' \in [Requests -> Phases] /\ promise'[r] = "resolved"
      /\ \A q \in Requests : q # r => promise'[q] = promise[q]
  BY DEF LeaseAllocate, IInv, TypeOK, Phases
<1>4. AllocatedTables({r}, calls', leases, targets, generation)
  BY AllocateTables
<1>5. Live' = Live \cup {r} /\ r \notin Live
  BY <1>4, <1>f DEF AllocatedTables, Live, FreshCall
<1>6. k \in Keys /\ KeyOf(r)' = k /\ \A q \in Requests : q # r => KeyOf(q)' = KeyOf(q)
  BY <1>f DEF FreshCall, KeyOf
<1>7. /\ activeByKey' \in [Keys -> SUBSET Requests]
      /\ activeByKey'[k] = activeByKey[k] \cup {r}
      /\ \A z \in Keys : z # k => activeByKey'[z] = activeByKey[z]
  BY <1>6 DEF LeaseAllocate, IInv, TypeOK
<1>8. TypeOK'
  <2>1. /\ clients' \in [Clients -> Registration \cup {None}]
        /\ calls' \in [Requests -> Call \cup {None}]
    BY <1>f DEF FreshCall
  <2>2. /\ sessions' \in [Sessions -> Clients \cup {None}]
        /\ waiters' \in [Keys -> Seq(Requests)]
        /\ generation' \in Nat
    BY <1>1 DEF IInv, TypeOK
  <2>3. /\ leases' \in [Requests -> Lease \cup {None}]
        /\ targets' \in [Requests -> Target \cup {None}]
    BY <1>4 DEF AllocatedTables
  <2> QED
    BY <1>3, <1>7, <2>1, <2>2, <2>3 DEF TypeOK
<1>9. LifeCycle'
  BY <1>3, <1>4, <1>5, <1>f DEF AllocatedTables, FreshCall, IInv, LifeCycle
<1>10. OwnedByRegistered'
  <2> SUFFICES ASSUME NEW q \in Requests, (q \in Live \/ promise[q] = "waiting")'
               PROVE  Asserted(calls[q].client, calls[q].session, calls[q].conn)'
    BY DEF OwnedByRegistered
  <2>1. CASE q = r
    BY <2>1, <1>f DEF FreshCall
  <2>2. CASE q # r
    <3>1. q \in Live \/ promise[q] = "waiting"
      BY <1>3, <1>5, <2>2
    <3> QED
      BY <3>1, <1>f DEF FreshCall
  <2> QED
    BY <2>1, <2>2
<1>11. QueueAgrees'
  BY <1>1, <1>3, <1>6, <1>f DEF FreshCall, IInv, QueueAgrees
<1>12. KeyIndexAgrees'
  <2> SUFFICES ASSUME NEW z \in Keys
               PROVE  activeByKey'[z] = {q \in Live : KeyOf(q) = z}'
    BY DEF KeyIndexAgrees
  <2>1. activeByKey[z] = {q \in Live : KeyOf(q) = z}
    BY DEF IInv, KeyIndexAgrees
  <2>2. \A q \in Live : q \in Requests /\ KeyOf(q)' = KeyOf(q)
    BY <1>5, <1>6 DEF Live
  <2>3. CASE z = k
    BY <2>1, <2>2, <2>3, <1>5, <1>6, <1>7
  <2>4. CASE z # k
    BY <2>1, <2>2, <2>4, <1>5, <1>6, <1>7
  <2> QED
    BY <2>3, <2>4
<1>13. CapacityRespected'
  <2>1. call.provider \in Providers /\ GlobalCap \in Nat /\ \A p \in Providers : Cap[p] \in Nat
    BY CapAssumption, GlobalCapAssumption DEF Call
  <2>2. IsFiniteSet(Live) /\ \A p \in Providers : IsFiniteSet(ActiveOf(p))
    BY KeyWithinCap
  <2>3. Cardinality(Live) < GlobalCap /\ Cardinality(ActiveOf(call.provider)) < Cap[call.provider]
    <3>1. Cardinality(Live) \in Nat /\ Cardinality(ActiveOf(call.provider)) \in Nat
      BY <2>1, <2>2, FS_CardinalityType
    <3> QED
      BY <1>1, <2>1, <3>1 DEF AtCapacity
  <2>4. Cardinality(Live') <= GlobalCap
    <3>1. Cardinality(Live \cup {r}) = Cardinality(Live) + 1 /\ Cardinality(Live) \in Nat
      BY <1>5, <2>2, FS_AddElement, FS_CardinalityType
    <3> QED
      BY <1>5, <2>1, <2>3, <3>1
  <2>5. ASSUME NEW p \in Providers
        PROVE  Cardinality(ActiveOf(p)') <= Cap[p]
    <3>1. \A q \in Live : calls'[q] = calls[q]
      BY <1>f DEF FreshCall, Live
    <3>2. CASE p = call.provider
      <4>1. ActiveOf(p)' = ActiveOf(p) \cup {r} /\ r \notin ActiveOf(p)
        BY <1>5, <1>f, <3>1, <3>2 DEF ActiveOf, FreshCall
      <4>2. Cardinality(ActiveOf(p) \cup {r}) = Cardinality(ActiveOf(p)) + 1
            /\ Cardinality(ActiveOf(p)) \in Nat
        BY <4>1, <2>2, FS_AddElement, FS_CardinalityType
      <4> QED
        BY <2>1, <2>3, <3>2, <4>1, <4>2
    <3>3. CASE p # call.provider
      <4>1. ActiveOf(p)' = ActiveOf(p)
        BY <1>5, <1>f, <3>1, <3>3 DEF ActiveOf, FreshCall
      <4> QED
        BY <4>1 DEF IInv, CapacityRespected
    <3> QED
      BY <3>2, <3>3
  <2> QED
    BY <2>4, <2>5 DEF CapacityRespected
<1>14. NoLostWakeup'
  <2>1. waiters[k] = <<>>
    <3>1. Cap[k[2]] \in Nat /\ k[2] = call.provider
      BY <1>6, CapAssumption DEF Keys
    <3>2. Cardinality(activeByKey[k]) # Cap[k[2]]
      BY <1>1, <3>1 DEF AtKeyCap
    <3> QED
      BY <1>6, <3>2 DEF IInv, NoLostWakeup
  <2> HIDE DEF k
  <2> QED
    BY <1>1, <1>6, <1>7, <2>1 DEF IInv, NoLostWakeup
<1>15. TargetExclusive' /\ LeaseHasItsTarget' /\ AllCurrentGeneration'
  <2>1. TablesAgree(leases', targets', calls', generation')
    BY <1>1, <1>4 DEF AllocatedTables
  <2> QED
    BY <1>8, <2>1, TablesAgreeNext
<1>16. TargetOwned'
  <2> SUFFICES ASSUME NEW t \in Requests, targets'[t] # None
               PROVE  LET c == sessions'[targets'[t].session]
                      IN c # None /\ clients'[c] # None /\ clients'[c].conn = targets'[t].conn
    BY DEF TargetOwned
  <2>0. clients' = Heard({call.client})
    BY <1>1 DEF Called
  <2>1. CASE /\ targets[t] # None
             /\ targets'[t].session = targets[t].session
             /\ targets'[t].conn = targets[t].conn
    <3> DEFINE c == sessions[targets[t].session]
    <3>1. c \in Clients /\ clients[c] # None /\ clients[c].conn = targets[t].conn
      BY <2>1, TargetOwnedNow
    <3>2. clients'[c] # None /\ clients'[c].conn = clients[c].conn
      BY <2>0, <1>1, <3>1, HeardFacts
    <3>3. c = sessions'[targets'[t].session] /\ c # None
      BY <1>1, <2>1, <3>1, NoneAssumption
    <3> HIDE DEF c
    <3> QED
      BY <2>1, <3>1, <3>2, <3>3
  <2>2. CASE /\ t \in {r}
             /\ targets'[t].session = calls'[t].session
             /\ targets'[t].conn = calls'[t].conn
    <3>1. /\ calls'[t] = call /\ clients'[call.client] # None
          /\ clients'[call.client].session = call.session
          /\ clients'[call.client].conn = call.conn
      BY <2>2, <1>f DEF FreshCall, Asserted
    <3>2. sessions'[call.session] = call.client /\ call.client \in Clients
      BY <3>1, <1>f DEF FreshCall, SessionsAgree, Call
    <3> QED
      BY <2>2, <3>1, <3>2, NoneAssumption
  <2> QED
    BY <2>1, <2>2, <1>4 DEF AllocatedTables
<1> QED
  BY <1>8, <1>9, <1>10, <1>11, <1>12, <1>13, <1>14, <1>15, <1>16, <1>f DEF IInv, FreshCall

----------------------------------------------------------------------------
\* A smaller finite set fits into a larger one.
LEMMA FitsInto ==
  ASSUME NEW A, IsFiniteSet(A), NEW B, IsFiniteSet(B), Cardinality(A) <= Cardinality(B)
  PROVE  \E f \in [A -> B] : \A x, y \in A : f[x] = f[y] => x = y
<1> DEFINE n == Cardinality(A)
           m == Cardinality(B)
<1>1. n \in Nat /\ m \in Nat /\ n <= m
  BY FS_CardinalityType
<1>2. PICK a \in Bijection(1 .. n, A) : TRUE
  BY FS_CardinalityType DEF ExistsBijection
<1>3. PICK b \in Bijection(1 .. m, B) : TRUE
  BY FS_CardinalityType DEF ExistsBijection
<1> HIDE DEF n, m
<1>4. \A x \in A : \E i \in 1 .. n : a[i] = x
  BY <1>2 DEF Bijection, Surjection
<1>5. /\ b \in [1 .. m -> B]
      /\ \A i, j \in 1 .. m : b[i] = b[j] => i = j
  BY <1>3 DEF Bijection, Injection, IsInjective
<1> DEFINE at(x) == CHOOSE i \in 1 .. n : a[i] = x
           f == [x \in A |-> b[at(x)]]
<1>6. \A x \in A : at(x) \in 1 .. n /\ a[at(x)] = x /\ at(x) \in 1 .. m
  BY <1>1, <1>4
<1> HIDE DEF at
<1>7. f \in [A -> B]
  BY <1>5, <1>6
<1>8. \A x, y \in A : f[x] = f[y] => x = y
  BY <1>5, <1>6
<1> QED
  BY <1>7, <1>8

FirstOf(q, n) == {q[i] : i \in 1 .. n}

\* The first n elements of a queue without duplicates are n elements.
LEMMA PrefixCardinality ==
  ASSUME NEW S, NEW q \in Seq(S), NEW n \in Nat, n <= Len(q),
         \A i, j \in DOMAIN q : q[i] = q[j] => i = j
  PROVE  /\ FirstOf(q, n) \subseteq S
         /\ IsFiniteSet(FirstOf(q, n))
         /\ Cardinality(FirstOf(q, n)) = n
<1> DEFINE W == {q[i] : i \in 1 .. n}
           f == [i \in 1 .. n |-> q[i]]
<1>1. \A i \in 1 .. n : i \in DOMAIN q /\ q[i] \in S
  OBVIOUS
<1>2. f \in Bijection(1 .. n, W)
  BY <1>1 DEF Bijection, Injection, Surjection, IsInjective
<1>3. IsFiniteSet(1 .. n) /\ Cardinality(1 .. n) = n
  <2>1. IF 1 > n THEN n = 0 ELSE n - 1 + 1 = n
    OBVIOUS
  <2> QED
    BY <2>1, FS_Interval
<1>4. ExistsBijection(1 .. n, W)
  BY <1>2 DEF ExistsBijection
<1> HIDE DEF W
<1>5. IsFiniteSet(W) /\ Cardinality(W) = n
  BY <1>3, <1>4, FS_Bijection
<1> QED
  BY <1>1, <1>5 DEF W, FirstOf

\* What a handler passes to Retire.
RetireArguments(L, gen, leaving, evicted) ==
  /\ L \subseteq Live
  /\ gen \in Nat
  /\ leaving \subseteq {c \in Clients : clients[c] # None}
  /\ \A r \in Live : calls[r].client \in leaving => r \in L
  /\ \A r \in Live : r \notin L => leases[r].target \notin evicted
  /\ \A t \in Requests :
       targets[t] # None /\ (\E c \in leaving : clients[c].session = targets[t].session)
         => t \in evicted
  /\ gen = generation \/ (L = Live /\ \A t \in Requests : targets[t] # None => t \in evicted)

\* Whom the retirement of L wakes.
WokenCalls(L, leaving) ==
  /\ Woken(L, leaving) \subseteq Requests
  /\ \A r \in Woken(L, leaving) :
       /\ promise[r] = "waiting" /\ r \notin Live
       /\ calls[r] \in Call /\ calls[r] # None
       /\ calls[r].client \in Clients /\ calls[r].client \notin leaving
  /\ \A k \in Keys :
       /\ WokenOf(L, leaving, k) = {r \in Woken(L, leaving) : KeyOf(r) = k}
       /\ WokenAt(L, leaving, k) \in Nat
       /\ WokenAt(L, leaving, k) <= Len(waiters[k])
       /\ IsFiniteSet(WokenOf(L, leaving, k))
       /\ Cardinality(WokenOf(L, leaving, k)) = WokenAt(L, leaving, k)
       /\ IsFiniteSet(L \cap activeByKey[k])
       /\ Cardinality(L \cap activeByKey[k]) \in Nat
       /\ WokenAt(L, leaving, k) <= Cardinality(L \cap activeByKey[k])

\* A queued or leased call of a key that disconnect() clears is a call of the client
\* that leaves, and of no other key.
LEMMA ClearedIsOwn ==
  ASSUME IInv, NEW leaving, leaving \subseteq {c \in Clients : clients[c] # None},
         NEW r \in Requests, r \in Live \/ promise[r] = "waiting"
  PROVE  Cleared(leaving, KeyOf(r)) <=> calls[r].client \in leaving
<1>1. Asserted(calls[r].client, calls[r].session, calls[r].conn)
  BY DEF IInv, OwnedByRegistered
<1>2. calls[r].client \in Clients /\ KeyOf(r)[1] = calls[r].session
  BY DEF IInv, TypeOK, LifeCycle, Call, Live, KeyOf
<1>3. clients[calls[r].client].session = calls[r].session
      /\ sessions[calls[r].session] = calls[r].client
  BY <1>1, <1>2 DEF Asserted, IInv, SessionsAgree
<1>4. \A c \in leaving : sessions[clients[c].session] = c
  BY DEF IInv, SessionsAgree
<1> QED
  BY <1>2, <1>3, <1>4 DEF Cleared

LEMMA WokenFacts ==
  ASSUME IInv, NEW L, NEW leaving, L \subseteq Live,
         leaving \subseteq {c \in Clients : clients[c] # None}
  PROVE  WokenCalls(L, leaving)
<1>1. ASSUME NEW k \in Keys
      PROVE  /\ WokenAt(L, leaving, k) \in Nat
             /\ WokenAt(L, leaving, k) <= Len(waiters[k])
             /\ WokenOf(L, leaving, k) \subseteq Requests
             /\ IsFiniteSet(WokenOf(L, leaving, k))
             /\ Cardinality(WokenOf(L, leaving, k)) = WokenAt(L, leaving, k)
             /\ IsFiniteSet(L \cap activeByKey[k])
             /\ Cardinality(L \cap activeByKey[k]) \in Nat
             /\ WokenAt(L, leaving, k) <= Cardinality(L \cap activeByKey[k])
             /\ \A r \in WokenOf(L, leaving, k) :
                  promise[r] = "waiting" /\ KeyOf(r) = k /\ ~Cleared(leaving, k)
  <2> DEFINE freed == Cardinality(L \cap activeByKey[k])
             n == WokenAt(L, leaving, k)
             q == waiters[k]
  <2>1. IsFiniteSet(L \cap activeByKey[k]) /\ freed \in Nat
    <3>1. IsFiniteSet(activeByKey[k])
      BY KeyWithinCap
    <3>2. IsFiniteSet(L \cap activeByKey[k])
      BY <3>1, FS_Intersection
    <3> QED
      BY <3>2, FS_CardinalityType
  <2>2. q \in Seq(Requests) /\ Len(q) \in Nat /\ DOMAIN q = 1 .. Len(q)
    BY DEF IInv, TypeOK
  <2>3. n \in Nat /\ n <= Len(q) /\ n <= freed /\ (Cleared(leaving, k) => n = 0)
    BY <2>1, <2>2 DEF WokenAt
  <2>4. \A i, j \in DOMAIN q : q[i] = q[j] => i = j
    BY DEF IInv, QueueAgrees
  <2> HIDE DEF n, freed, q
  <2> DEFINE W == FirstOf(q, n)
  <2>5. W \subseteq Requests /\ IsFiniteSet(W) /\ Cardinality(W) = n
    BY <2>2, <2>3, <2>4, PrefixCardinality
  <2>6. W = WokenOf(L, leaving, k)
    BY DEF WokenOf, FirstOf, n, q
  <2>7. ASSUME NEW r \in W
        PROVE  promise[r] = "waiting" /\ KeyOf(r) = k /\ ~Cleared(leaving, k)
    <3>1. PICK i \in 1 .. n : r = q[i]
      BY DEF FirstOf
    <3>2. i \in DOMAIN waiters[k] /\ r = waiters[k][i]
      BY <2>2, <2>3, <3>1 DEF q
    <3>3. ~Cleared(leaving, k)
      BY <2>3, <3>1
    <3> QED
      BY <3>2, <3>3 DEF IInv, QueueAgrees
  <2> HIDE DEF W
  <2> QED
    BY <2>1, <2>3, <2>5, <2>6, <2>7 DEF n, freed, q
<1>2. ASSUME NEW r \in Woken(L, leaving)
      PROVE  /\ r \in Requests /\ promise[r] = "waiting" /\ r \notin Live
             /\ calls[r] \in Call /\ calls[r] # None
             /\ calls[r].client \in Clients /\ calls[r].client \notin leaving
             /\ r \in WokenOf(L, leaving, KeyOf(r))
  <2>1. PICK k \in Keys : r \in WokenOf(L, leaving, k)
    BY DEF Woken
  <2>2. r \in Requests /\ promise[r] = "waiting" /\ KeyOf(r) = k /\ ~Cleared(leaving, k)
    BY <1>1, <2>1
  <2>3. r \notin Live /\ calls[r] # None /\ calls[r] \in Call /\ calls[r].client \in Clients
    BY <2>2 DEF IInv, TypeOK, LifeCycle, Call
  <2>4. calls[r].client \notin leaving
    BY <2>2, ClearedIsOwn
  <2> QED
    BY <2>1, <2>2, <2>3, <2>4
<1>3. ASSUME NEW k \in Keys
      PROVE  WokenOf(L, leaving, k) = {r \in Woken(L, leaving) : KeyOf(r) = k}
  <2>1. WokenOf(L, leaving, k) \subseteq Woken(L, leaving)
    BY DEF Woken
  <2> QED
    BY <1>1, <1>2, <2>1
<1> QED
  BY <1>1, <1>2, <1>3 DEF WokenCalls

----------------------------------------------------------------------------
\* The lease table without the leases of L.
Remaining(L) == [r \in Requests |-> IF r \in L THEN None ELSE leases[r]]

\* Retiring the leases of L and deleting the targets of evicted leaves tables that agree.
FreedTables(L, dirty, gen, evicted) ==
  LET pool == Freed(L, dirty, gen, evicted)
  IN /\ Remaining(L) \in [Requests -> Lease \cup {None}]
     /\ pool \in [Requests -> Target \cup {None}]
     /\ TablesAgree(Remaining(L), pool, calls, gen)
     /\ \A t \in Requests : pool[t] # None =>
          /\ targets[t] # None /\ t \notin evicted
          /\ pool[t].session = targets[t].session
          /\ pool[t].provider = targets[t].provider
          /\ pool[t].conn = targets[t].conn

LEMMA FreedKeepsTables ==
  ASSUME IInv, NEW L, NEW dirty \in BOOLEAN, NEW gen, NEW leaving, NEW evicted,
         RetireArguments(L, gen, leaving, evicted)
  PROVE  FreedTables(L, dirty, gen, evicted)
<1> DEFINE pool == Freed(L, dirty, gen, evicted)
           base == Remaining(L)
           idle(t) == [targets[t] EXCEPT !.busy = FALSE, !.aged = FALSE]
           ran(t) == t \in {leases[r].target : r \in L}
<1>1. TablesAgree(leases, targets, calls, generation)
  BY TablesAgreeNow DEF IInv
<1>2. /\ L \subseteq Live /\ Live \subseteq Requests
      /\ \A r \in Live : leases[r] \in Lease /\ leases[r] # None /\ leases[r].target \in Requests
      /\ \A t \in Requests : targets[t] # None => targets[t] \in Target
  BY DEF IInv, TypeOK, Live, RetireArguments, Lease
<1>3. \A t \in Requests : targets[t] # None =>
        /\ idle(t) \in Target /\ idle(t) # None
        /\ idle(t).session = targets[t].session /\ idle(t).conn = targets[t].conn
        /\ idle(t).provider = targets[t].provider /\ idle(t).generation = targets[t].generation
        /\ idle(t).busy = FALSE
  <2>1. \A t \in Requests : targets[t] # None =>
        /\ idle(t) \in Target
        /\ idle(t).session = targets[t].session /\ idle(t).conn = targets[t].conn
        /\ idle(t).provider = targets[t].provider /\ idle(t).generation = targets[t].generation
        /\ idle(t).busy = FALSE
    BY <1>2 DEF Target
  <2> HIDE DEF idle
  <2> QED
    BY <2>1, NoneAssumption
<1>4. /\ \A r \in L : base[r] = None
      /\ \A r \in Requests : r \notin L => base[r] = leases[r]
      /\ base \in [Requests -> Lease \cup {None}]
  BY <1>2 DEF Remaining, IInv, TypeOK
<1>5. \A t \in Requests : pool[t] # None =>
        /\ targets[t] # None /\ t \notin evicted
        /\ (ran(t) => pool[t] = idle(t) /\ targets[t].generation = gen)
        /\ (~ran(t) => pool[t] = targets[t])
  BY DEF Freed
<1>6. \A t \in Requests : targets[t] # None /\ t \notin evicted /\ ~ran(t) => pool[t] = targets[t]
  BY DEF Freed
<1>7. DOMAIN pool = Requests /\ pool = [t \in Requests |-> pool[t]]
  BY DEF Freed
<1> HIDE DEF pool, base, idle, ran
<1>8. pool \in [Requests -> Target \cup {None}]
  BY <1>2, <1>3, <1>5, <1>7
<1>9. ASSUME NEW r \in Requests, base[r] # None
      PROVE  /\ r \in Live /\ r \notin L /\ base[r] = leases[r]
             /\ leases[r].target \in Requests
             /\ targets[leases[r].target] # None
             /\ leases[r].target \notin evicted /\ ~ran(leases[r].target)
             /\ pool[leases[r].target] = targets[leases[r].target]
             /\ gen = generation
  <2>1. r \in Live /\ r \notin L /\ base[r] = leases[r]
    BY <1>4, <1>9 DEF Live
  <2>2. leases[r].target \in Requests /\ targets[leases[r].target] # None
    BY <2>1, <1>1, <1>2 DEF TablesAgree
  <2>3. leases[r].target \notin evicted /\ gen = generation
    BY <2>1 DEF RetireArguments
  <2>4. ~ran(leases[r].target)
    BY <2>1, <1>1, <1>2 DEF TablesAgree, ran
  <2> QED
    BY <2>1, <2>2, <2>3, <2>4, <1>6
<1>10. ASSUME NEW t \in Requests, pool[t] # None
       PROVE  /\ pool[t].busy <=> \E r \in Requests : base[r] # None /\ base[r].target = t
              /\ pool[t].generation = gen
              /\ pool[t].session = targets[t].session
              /\ pool[t].provider = targets[t].provider
              /\ pool[t].conn = targets[t].conn
  <2>1. targets[t] # None /\ t \notin evicted
    BY <1>5, <1>10
  <2>2. CASE ran(t)
    <3>1. pool[t] = idle(t) /\ targets[t].generation = gen
      BY <2>2, <1>5, <1>10
    <3>2. ~ \E r \in Requests : base[r] # None /\ base[r].target = t
      BY <2>2, <1>9
    <3> QED
      BY <2>1, <3>1, <3>2, <1>3
  <2>3. CASE ~ran(t)
    <3>1. pool[t] = targets[t]
      BY <2>3, <1>5, <1>10
    <3>2. targets[t].generation = gen
      BY <2>1, <1>1 DEF RetireArguments, TablesAgree
    <3>3. \A r \in Requests : (leases[r] # None /\ leases[r].target = t)
                                 <=> (base[r] # None /\ base[r].target = t)
      BY <2>3, <1>2, <1>4 DEF ran
    <3>4. targets[t].busy <=> \E r \in Requests : leases[r] # None /\ leases[r].target = t
      BY <2>1, <1>1 DEF TablesAgree
    <3> QED
      BY <3>1, <3>2, <3>3, <3>4
  <2> QED
    BY <2>2, <2>3
<1>11. TablesAgree(base, pool, calls, gen)
  <2>1. \A r, q \in Requests :
          base[r] # None /\ base[q] # None /\ base[r].target = base[q].target => r = q
    BY <1>1, <1>9 DEF TablesAgree, Live
  <2>2. \A r \in Requests : base[r] # None =>
       /\ pool[base[r].target] # None
       /\ pool[base[r].target].provider = calls[r].provider
       /\ pool[base[r].target].session = calls[r].session
       /\ base[r].generation = gen
    BY <1>1, <1>9 DEF TablesAgree, Live
  <2> QED
    BY <1>10, <2>1, <2>2 DEF TablesAgree
<1> QED
  BY <1>4, <1>5, <1>8, <1>10, <1>11 DEF FreedTables, pool, base

----------------------------------------------------------------------------
\* What a step that retires the leases of L does, seen from the invariant.
Outcome(L, gen, leaving) ==
  /\ TypeOK'
  /\ calls' = calls /\ generation' = gen
  /\ Live' = (Live \ L) \cup Woken(L, leaving)
  /\ \A r \in Live' : r \in Live => leases'[r] = leases[r]
  /\ TablesAgree(leases', targets', calls, gen)
  /\ \A k \in Keys : TabsEarned(targets, targets', k)
  /\ \A c \in Clients :
       /\ c \in leaving => clients'[c] = None
       /\ c \notin leaving => (clients'[c] = None <=> clients[c] = None)
       /\ c \notin leaving /\ clients[c] # None =>
            /\ clients'[c].session = clients[c].session
            /\ clients'[c].conn = clients[c].conn
  /\ \A s \in Sessions :
       sessions'[s] = IF sessions[s] \in leaving THEN None ELSE sessions[s]
  /\ \A k \in Keys :
       /\ activeByKey'[k] = (activeByKey[k] \ L) \cup WokenOf(L, leaving, k)
       /\ waiters'[k] = IF Cleared(leaving, k) THEN <<>>
                        ELSE SubSeq(waiters[k], WokenAt(L, leaving, k) + 1, Len(waiters[k]))
  /\ \A r \in Requests :
       promise'[r] = IF r \in Woken(L, leaving) THEN "drained"
                     ELSE IF promise[r] = "waiting" /\ calls[r].client \in leaving
                          THEN "rejected" ELSE promise[r]
  /\ \A t \in Requests : targets'[t] # None =>
       \/ /\ targets[t] # None
          /\ ~ \E c \in leaving : clients[c].session = targets[t].session
          /\ targets'[t].session = targets[t].session
          /\ targets'[t].conn = targets[t].conn
       \/ /\ t \in Woken(L, leaving)
          /\ targets'[t].session = calls[t].session
          /\ targets'[t].conn = calls[t].conn

LEMMA RetireOutcome ==
  ASSUME IInv, NEW L, NEW dirty \in BOOLEAN, NEW gen, NEW heard, NEW leaving, NEW evicted,
         RetireArguments(L, gen, leaving, evicted),
         Retire(L, dirty, gen, heard, leaving, evicted)
  PROVE  Outcome(L, gen, leaving) /\ WokenCalls(L, leaving)
<1> DEFINE G == Woken(L, leaving)
           pool == Freed(L, dirty, gen, evicted)
<1>1. L \subseteq Live /\ leaving \subseteq {c \in Clients : clients[c] # None} /\ gen \in Nat
  BY DEF RetireArguments
<1>2. WokenCalls(L, leaving)
  BY <1>1, WokenFacts
<1>3. FreedTables(L, dirty, gen, evicted)
  BY FreedKeepsTables
<1>4. G \in SUBSET Requests /\ \A r \in G : calls[r] # None /\ Remaining(L)[r] = None
  BY <1>2 DEF WokenCalls, Remaining, Live
<1>5. PICK place \in [G -> Requests] :
        /\ Placed(G, calls, pool, gen, place)
        /\ Allocated(G, calls, Remaining(L), pool, gen, place)
  BY DEF Retire, Remaining
<1>6. AllocatedTables(G, calls, Remaining(L), pool, gen)
  <2>1. calls \in [Requests -> Call \cup {None}]
    BY DEF IInv, TypeOK
  <2>2. /\ Remaining(L) \in [Requests -> Lease \cup {None}]
        /\ pool \in [Requests -> Target \cup {None}]
        /\ TablesAgree(Remaining(L), pool, calls, gen)
    BY <1>3 DEF FreedTables
  <2> HIDE DEF G, pool
  <2> QED
    BY <1>1, <1>4, <1>5, <2>1, <2>2, AllocatedKeepsTables
<1>7. Live' = (Live \ L) \cup G
  BY <1>4, <1>6 DEF AllocatedTables, Live, Remaining
<1>a. \A r \in Live' : r \in Live => leases'[r] = leases[r]
  BY <1>2, <1>4, <1>6, <1>7 DEF AllocatedTables, Live, Remaining, WokenCalls
<1>b. \A k \in Keys : TabsEarned(targets, targets', k)
  <2>1. \A k \in Keys : TabsOf(pool, k) \subseteq TabsOf(targets, k)
    <3> HIDE DEF pool
    <3> QED
      BY <1>3 DEF FreedTables, TabsOf, pool
  <2>2. \A k \in Keys : TabsEarned(pool, targets', k)
    BY <1>6 DEF AllocatedTables
  <2> HIDE DEF pool
  <2> QED
    BY <2>1, <2>2 DEF TabsEarned
<1>8. calls' = calls /\ generation' = gen
  BY DEF Retire
<1>9. /\ clients' \in [Clients -> Registration \cup {None}]
      /\ \A c \in Clients :
           /\ c \in leaving => clients'[c] = None
           /\ c \notin leaving => (clients'[c] = None <=> clients[c] = None)
           /\ c \notin leaving /\ clients[c] # None =>
                /\ clients'[c].session = clients[c].session
                /\ clients'[c].conn = clients[c].conn
  <2> DEFINE all == heard \cup {calls[r].client : r \in G}
  <2>1. \A c \in Clients : clients[c] # None => clients[c] \in Registration
    BY DEF IInv, TypeOK
  <2>2. \A c \in Clients : Heard(all)[c] \in Registration \cup {None}
    BY <2>1 DEF Heard, Registration
  <2>3. \A c \in Clients : /\ Heard(all)[c] = None <=> clients[c] = None
                           /\ clients[c] # None =>
                                /\ Heard(all)[c].session = clients[c].session
                                /\ Heard(all)[c].conn = clients[c].conn
    BY <2>1, NoneAssumption DEF Heard, Registration
  <2>4. clients' = [c \in Clients |-> IF c \in leaving THEN None ELSE Heard(all)[c]]
    BY DEF Retire
  <2> HIDE DEF all
  <2> QED
    BY <2>2, <2>3, <2>4
<1>10. /\ sessions' \in [Sessions -> Clients \cup {None}]
       /\ \A s \in Sessions :
            sessions'[s] = IF sessions[s] \in leaving THEN None ELSE sessions[s]
  BY DEF Retire, IInv, TypeOK
<1>11. /\ activeByKey' \in [Keys -> SUBSET Requests]
       /\ \A k \in Keys :
            activeByKey'[k] = (activeByKey[k] \ L) \cup WokenOf(L, leaving, k)
  <2>1. \A k \in Keys : WokenOf(L, leaving, k) \subseteq Requests
    BY <1>2 DEF WokenCalls
  <2>2. activeByKey' = [k \in Keys |-> (activeByKey[k] \ L) \cup WokenOf(L, leaving, k)]
    BY DEF Retire, Unindexed
  <2> QED
    BY <2>1, <2>2 DEF IInv, TypeOK
<1>12. /\ waiters' \in [Keys -> Seq(Requests)]
       /\ \A k \in Keys : waiters'[k] = IF Cleared(leaving, k) THEN <<>>
             ELSE SubSeq(waiters[k], WokenAt(L, leaving, k) + 1, Len(waiters[k]))
  <2>1. waiters' = [k \in Keys |-> IF Cleared(leaving, k) THEN <<>>
             ELSE SubSeq(waiters[k], WokenAt(L, leaving, k) + 1, Len(waiters[k]))]
    BY DEF Retire
  <2>2. \A k \in Keys : /\ waiters[k] \in Seq(Requests)
                        /\ WokenAt(L, leaving, k) \in Nat
                        /\ WokenAt(L, leaving, k) <= Len(waiters[k])
    BY <1>2 DEF WokenCalls, IInv, TypeOK
  <2>3. \A k \in Keys :
          SubSeq(waiters[k], WokenAt(L, leaving, k) + 1, Len(waiters[k])) \in Seq(Requests)
    BY <2>2
  <2> QED
    BY <2>1, <2>3
<1>13. /\ promise' \in [Requests -> Phases]
       /\ \A r \in Requests :
            promise'[r] = IF r \in G THEN "drained"
                          ELSE IF promise[r] = "waiting" /\ calls[r].client \in leaving
                               THEN "rejected" ELSE promise[r]
  BY DEF Retire, IInv, TypeOK, Phases
<1>14. TypeOK'
  BY <1>1, <1>6, <1>8, <1>9, <1>10, <1>11, <1>12, <1>13 DEF TypeOK, IInv, AllocatedTables
<1>15. \A t \in Requests : targets'[t] # None =>
         \/ /\ targets[t] # None
            /\ ~ \E c \in leaving : clients[c].session = targets[t].session
            /\ targets'[t].session = targets[t].session
            /\ targets'[t].conn = targets[t].conn
         \/ /\ t \in G
            /\ targets'[t].session = calls[t].session
            /\ targets'[t].conn = calls[t].conn
  <2>1. \A t \in Requests : pool[t] # None =>
          /\ targets[t] # None /\ t \notin evicted
          /\ pool[t].session = targets[t].session
          /\ pool[t].conn = targets[t].conn
    BY <1>3 DEF FreedTables
  <2> HIDE DEF pool, G
  <2> QED
    BY <1>6, <2>1 DEF AllocatedTables, RetireArguments
<1> QED
  BY <1>2, <1>6, <1>7, <1>8, <1>9, <1>10, <1>11, <1>12, <1>13, <1>14, <1>15, <1>a, <1>b
  DEF Outcome, AllocatedTables

\* What RetireArguments and Outcome say about the lease and the waiting calls that remain.
LEMMA Survivors ==
  ASSUME IInv, NEW L, NEW gen, NEW leaving, NEW evicted,
         RetireArguments(L, gen, leaving, evicted), Outcome(L, gen, leaving),
         WokenCalls(L, leaving)
  PROVE  /\ SessionsAgree'
         /\ \A r \in Requests : (r \in Live \/ promise[r] = "waiting")' =>
              /\ r \in Live \/ promise[r] = "waiting"
              /\ calls[r] \in Call /\ calls[r].client \in Clients
              /\ calls[r].client \notin leaving
              /\ Asserted(calls[r].client, calls[r].session, calls[r].conn)'
<1>1. SessionsAgree'
  <2>1. /\ \A c \in Clients : clients[c] # None =>
             clients[c].session \in Sessions /\ sessions[clients[c].session] = c
        /\ \A s \in Sessions : sessions[s] # None =>
             /\ sessions[s] \in Clients
             /\ clients[sessions[s]] # None /\ clients[sessions[s]].session = s
    BY DEF IInv, TypeOK, SessionsAgree, Registration
  <2>2. \A c \in Clients : clients'[c] # None =>
          c \notin leaving /\ clients[c] # None /\ clients'[c].session = clients[c].session
    BY DEF Outcome
  <2>3. \A s \in Sessions : sessions'[s] # None =>
          sessions[s] \notin leaving /\ sessions'[s] = sessions[s]
    BY DEF Outcome
  <2>4. \A s \in Sessions : sessions[s] \notin leaving => sessions'[s] = sessions[s]
    BY DEF Outcome
  <2>5. \A c \in Clients : c \notin leaving /\ clients[c] # None =>
          clients'[c] # None /\ clients'[c].session = clients[c].session
    BY DEF Outcome
  <2> QED
    BY <2>1, <2>2, <2>3, <2>4, <2>5 DEF SessionsAgree
<1>2. ASSUME NEW r \in Requests, (r \in Live \/ promise[r] = "waiting")'
      PROVE  /\ r \in Live \/ promise[r] = "waiting"
             /\ calls[r] \in Call /\ calls[r].client \in Clients
             /\ calls[r].client \notin leaving
             /\ Asserted(calls[r].client, calls[r].session, calls[r].conn)'
  <2>1. /\ r \in Live \/ promise[r] = "waiting"
        /\ calls[r].client \notin leaving
    <3>1. CASE r \in Woken(L, leaving)
      BY <3>1 DEF WokenCalls
    <3>2. CASE r \notin Woken(L, leaving) /\ r \in Live'
      BY <3>2 DEF Outcome, RetireArguments
    <3>3. CASE r \notin Woken(L, leaving) /\ promise'[r] = "waiting"
      BY <3>3 DEF Outcome
    <3> QED
      BY <1>2, <3>1, <3>2, <3>3
  <2>2. calls[r] \in Call /\ calls[r].client \in Clients
    BY <2>1 DEF IInv, TypeOK, LifeCycle, Live, Call
  <2>3. Asserted(calls[r].client, calls[r].session, calls[r].conn)
    BY <2>1 DEF IInv, OwnedByRegistered
  <2> QED
    BY <2>1, <2>2, <2>3 DEF Outcome, Asserted
<1> QED
  BY <1>1, <1>2

\* The queues after drain(): the calls it woke are gone from the front, those of a
\* leaving client are gone altogether.
LEMMA RetireQueues ==
  ASSUME IInv, NEW L, NEW gen, NEW leaving, NEW evicted,
         RetireArguments(L, gen, leaving, evicted), Outcome(L, gen, leaving),
         WokenCalls(L, leaving)
  PROVE  QueueAgrees'
<1> DEFINE n(k) == WokenAt(L, leaving, k)
<1>1. \A k \in Keys : /\ n(k) \in Nat /\ n(k) <= Len(waiters[k])
                      /\ waiters[k] \in Seq(Requests) /\ Len(waiters[k]) \in Nat
                      /\ DOMAIN waiters[k] = 1 .. Len(waiters[k])
  <2>1. \A k \in Keys : waiters[k] \in Seq(Requests)
    BY DEF IInv, TypeOK
  <2>2. \A k \in Keys : n(k) \in Nat /\ n(k) <= Len(waiters[k])
    BY DEF WokenCalls
  <2> HIDE DEF n
  <2> QED
    BY <2>1, <2>2
<1>2. ASSUME NEW k \in Keys, ~Cleared(leaving, k)
      PROVE  /\ DOMAIN waiters'[k] = 1 .. Len(waiters[k]) - n(k)
             /\ \A i \in DOMAIN waiters'[k] :
                  /\ i + n(k) \in DOMAIN waiters[k]
                  /\ waiters'[k][i] = waiters[k][i + n(k)]
  <2>1. waiters'[k] = SubSeq(waiters[k], n(k) + 1, Len(waiters[k]))
    BY <1>2 DEF Outcome
  <2> HIDE DEF n
  <2> QED
    BY <2>1, <1>1
<1>3. \A k \in Keys : Cleared(leaving, k) => waiters'[k] = <<>> /\ DOMAIN waiters'[k] = {}
  BY DEF Outcome
<1>4. \A k \in Keys : WokenOf(L, leaving, k) = {waiters[k][i] : i \in 1 .. n(k)}
  BY DEF WokenOf
<1> HIDE DEF n
<1>5. ASSUME NEW k \in Keys, NEW i \in DOMAIN waiters'[k]
      PROVE  /\ ~Cleared(leaving, k)
             /\ i \in Nat /\ i + n(k) \in DOMAIN waiters[k]
             /\ waiters'[k][i] = waiters[k][i + n(k)]
  <2>1. ~Cleared(leaving, k)
    BY <1>3, <1>5
  <2> QED
    BY <2>1, <1>1, <1>2, <1>5
<1>6. \A k \in Keys : \A i, j \in DOMAIN waiters'[k] : waiters'[k][i] = waiters'[k][j] => i = j
  <2> SUFFICES ASSUME NEW k \in Keys, NEW i \in DOMAIN waiters'[k], NEW j \in DOMAIN waiters'[k],
                      waiters'[k][i] = waiters'[k][j]
               PROVE  i = j
    OBVIOUS
  <2>1. i + n(k) = j + n(k)
    BY <1>5 DEF IInv, QueueAgrees
  <2> QED
    BY <2>1, <1>1, <1>5
<1>7. ASSUME NEW k \in Keys, NEW i \in DOMAIN waiters'[k]
      PROVE  promise'[waiters'[k][i]] = "waiting" /\ KeyOf(waiters[k][i])' = k
  <2> DEFINE r == waiters[k][i + n(k)]
  <2>1. /\ waiters'[k][i] = r /\ i + n(k) \in DOMAIN waiters[k] /\ ~Cleared(leaving, k)
        /\ i \in Nat /\ i > 0
    BY <1>1, <1>2, <1>5
  <2>2. r \in Requests /\ promise[r] = "waiting" /\ KeyOf(r) = k
    BY <2>1, <1>1 DEF IInv, QueueAgrees
  <2>3. calls[r].client \notin leaving
    BY <2>1, <2>2, ClearedIsOwn DEF RetireArguments
  <2>4. r \notin WokenOf(L, leaving, k)
    <3> SUFFICES ASSUME NEW j \in 1 .. n(k), waiters[k][j] = r
                 PROVE  FALSE
      BY <1>4
    <3>1. j \in DOMAIN waiters[k] /\ j # i + n(k)
      BY <1>1, <2>1
    <3> QED
      BY <2>1, <3>1 DEF IInv, QueueAgrees
  <2>5. r \notin Woken(L, leaving)
    BY <2>2, <2>4 DEF WokenCalls
  <2>6. promise'[r] = "waiting" /\ calls' = calls
    BY <2>2, <2>3, <2>5 DEF Outcome
  <2>7. KeyOf(waiters[k][i])' = KeyOf(r)
    BY <2>1, <2>6 DEF KeyOf
  <2> QED
    BY <2>1, <2>2, <2>6, <2>7
<1>8. ASSUME NEW r \in Requests, promise'[r] = "waiting"
      PROVE  \E i \in DOMAIN waiters'[KeyOf(r)'] : waiters'[KeyOf(r)'][i] = r
  <2> DEFINE k == KeyOf(r)
  <2>1. /\ promise[r] = "waiting" /\ r \notin Woken(L, leaving)
        /\ calls[r].client \notin leaving /\ calls' = calls
    BY <1>8 DEF Outcome
  <2>2. k \in Keys /\ KeyOf(r)' = k
    BY <2>1 DEF IInv, TypeOK, LifeCycle, KeyOf, Call, Keys
  <2>3. ~Cleared(leaving, k) /\ r \notin WokenOf(L, leaving, k)
    BY <2>1, <2>2, ClearedIsOwn DEF RetireArguments, WokenCalls
  <2>4. PICK j \in DOMAIN waiters[k] : waiters[k][j] = r
    BY <2>1 DEF IInv, QueueAgrees
  <2> HIDE DEF k
  <2>5. j > n(k) /\ j \in 1 .. Len(waiters[k])
    BY <1>1, <1>4, <2>2, <2>3, <2>4
  <2>6. j - n(k) \in DOMAIN waiters'[k] /\ (j - n(k)) + n(k) = j
    BY <1>1, <1>2, <2>2, <2>3, <2>5
  <2> QED
    BY <1>5, <2>2, <2>4, <2>6
<1> QED
  BY <1>6, <1>7, <1>8 DEF QueueAgrees

\* drain() hands over at most as many slots as the key gave up, so no cap is passed:
\* the live leases afterwards map into those before, each to one of its own key.
LEMMA RetireCapacity ==
  ASSUME IInv, NEW L, NEW gen, NEW leaving, NEW evicted,
         RetireArguments(L, gen, leaving, evicted), Outcome(L, gen, leaving),
         WokenCalls(L, leaving)
  PROVE  KeyIndexAgrees' /\ CapacityRespected' /\ NoLostWakeup'
<1> DEFINE W(k) == WokenOf(L, leaving, k)
           A(k) == activeByKey[k]
<1>1. /\ L \subseteq Live
      /\ Live' = (Live \ L) \cup Woken(L, leaving)
      /\ \A r \in Requests : KeyOf(r)' = KeyOf(r)
      /\ Live \subseteq Requests
  BY DEF RetireArguments, Outcome, KeyOf, Live
<1>2. \A k \in Keys : A(k) = {r \in Live : KeyOf(r) = k}
  BY DEF IInv, KeyIndexAgrees
<1>3. \A k \in Keys : activeByKey'[k] = (A(k) \ L) \cup W(k)
  BY DEF Outcome
<1>4. /\ Woken(L, leaving) \subseteq Requests
      /\ \A r \in Woken(L, leaving) : r \notin Live /\ r \in W(KeyOf(r)) /\ KeyOf(r) \in Keys
      /\ \A k \in Keys : W(k) = {r \in Woken(L, leaving) : KeyOf(r) = k}
  <2>1. \A r \in Woken(L, leaving) :
          r \in Requests /\ r \notin Live /\ calls[r] \in Call
    BY DEF WokenCalls
  <2>2. \A r \in Woken(L, leaving) : KeyOf(r) \in Keys
    BY <2>1 DEF KeyOf, Call, Keys
  <2>3. \A k \in Keys : W(k) = {r \in Woken(L, leaving) : KeyOf(r) = k}
    BY DEF WokenCalls
  <2> HIDE DEF W
  <2> QED
    BY <2>1, <2>2, <2>3
<1>5. \A k \in Keys : /\ IsFiniteSet(W(k))
                      /\ Cardinality(W(k)) \in Nat
                      /\ IsFiniteSet(L \cap A(k))
                      /\ Cardinality(L \cap A(k)) \in Nat
                      /\ Cardinality(W(k)) <= Cardinality(L \cap A(k))
                      /\ Cardinality(W(k)) = WokenAt(L, leaving, k)
  BY DEF WokenCalls
<1>6. KeyIndexAgrees'
  <2> SUFFICES ASSUME NEW k \in Keys
               PROVE  activeByKey'[k] = {r \in Live : KeyOf(r) = k}'
    BY DEF KeyIndexAgrees
  <2>1. {r \in Live : KeyOf(r) = k}' = {r \in Live' : KeyOf(r) = k}
    BY <1>1, <1>4
  <2> HIDE DEF W, A
  <2> QED
    BY <2>1, <1>1, <1>2, <1>3, <1>4
<1>7. \A k \in Keys : \E f \in [W(k) -> L \cap A(k)] : \A x, y \in W(k) : f[x] = f[y] => x = y
  <2> HIDE DEF W, A
  <2> QED
    BY <1>5, FitsInto
<1> DEFINE F(k) == CHOOSE f \in [W(k) -> L \cap A(k)] : \A x, y \in W(k) : f[x] = f[y] => x = y
           g == [r \in Live' |-> IF r \in Live THEN r ELSE F(KeyOf(r))[r]]
<1>8. \A k \in Keys : /\ F(k) \in [W(k) -> L \cap A(k)]
                      /\ \A x, y \in W(k) : F(k)[x] = F(k)[y] => x = y
  BY <1>7
<1> HIDE DEF W, A, F
<1>9. ASSUME NEW r \in Live', r \notin Live
      PROVE  /\ r \in Woken(L, leaving) /\ KeyOf(r) \in Keys /\ r \in W(KeyOf(r))
             /\ g[r] = F(KeyOf(r))[r]
             /\ g[r] \in L /\ g[r] \in Live /\ KeyOf(g[r]) = KeyOf(r)
  <2>1. r \in Woken(L, leaving) /\ KeyOf(r) \in Keys /\ r \in W(KeyOf(r))
    BY <1>1, <1>4, <1>9
  <2>2. g[r] = F(KeyOf(r))[r]
    BY <1>9
  <2>3. F(KeyOf(r))[r] \in L \cap A(KeyOf(r))
    BY <1>8, <2>1
  <2> QED
    BY <1>1, <1>2, <2>1, <2>2, <2>3
<1>10. \A r \in Live' : r \in Live => g[r] = r /\ r \notin L
  BY <1>1, <1>4
<1>11. \A r \in Live' : g[r] \in Live /\ KeyOf(g[r]) = KeyOf(r)
  BY <1>9, <1>10
<1>12. ASSUME NEW r \in Live', NEW q \in Live', g[r] = g[q]
       PROVE  r = q
  <2>1. CASE r \in Live /\ q \in Live
    BY <2>1, <1>10, <1>12
  <2>2. CASE r \in Live /\ q \notin Live
    BY <2>2, <1>9, <1>10, <1>12
  <2>3. CASE r \notin Live /\ q \in Live
    BY <2>3, <1>9, <1>10, <1>12
  <2>4. CASE r \notin Live /\ q \notin Live
    <3>1. KeyOf(r) = KeyOf(q) /\ KeyOf(r) \in Keys
      BY <2>4, <1>9, <1>12
    <3>2. r \in W(KeyOf(r)) /\ q \in W(KeyOf(r)) /\ F(KeyOf(r))[r] = F(KeyOf(r))[q]
      BY <2>4, <3>1, <1>9, <1>12
    <3> QED
      BY <3>1, <3>2, <1>8
  <2> QED
    BY <2>1, <2>2, <2>3, <2>4
<1>13. DOMAIN g = Live'
  OBVIOUS
<1>14. Live' \subseteq Requests /\ \A r \in Requests : KeyOf(r)' = KeyOf(r)
  BY <1>1, <1>4
<1> HIDE DEF g
<1>15. CapacityRespected'
  <2>1. ASSUME NEW S, S \subseteq Live', NEW T, T \subseteq Live, IsFiniteSet(T),
               \A r \in S : g[r] \in T
        PROVE  IsFiniteSet(S) /\ Cardinality(S) <= Cardinality(T)
    <3> DEFINE h == [r \in S |-> g[r]]
    <3>1. h \in Injection(S, T)
      BY <1>12, <2>1 DEF Injection, IsInjective
    <3> HIDE DEF h
    <3> QED
      BY <2>1, <3>1, FS_Injection
  <2>2. IsFiniteSet(Live) /\ \A p \in Providers : IsFiniteSet(ActiveOf(p))
    BY KeyWithinCap
  <2>3. IsFiniteSet(Live') /\ Cardinality(Live') <= Cardinality(Live)
    BY <1>11, <2>1, <2>2
  <2>4. ASSUME NEW p \in Providers
        PROVE  /\ IsFiniteSet(ActiveOf(p)')
               /\ Cardinality(ActiveOf(p)') <= Cardinality(ActiveOf(p))
    <3>1. ActiveOf(p)' = {r \in Live' : calls[r].provider = p}
      BY <1>14 DEF ActiveOf, Outcome
    <3>2. \A r \in Requests : KeyOf(r)[2] = calls[r].provider
      BY DEF KeyOf
    <3>3. \A r \in ActiveOf(p)' : g[r] \in ActiveOf(p)
      BY <1>1, <1>11, <1>14, <3>1, <3>2 DEF ActiveOf
    <3>4. ActiveOf(p)' \subseteq Live' /\ ActiveOf(p) \subseteq Live
      BY <3>1 DEF ActiveOf
    <3> QED
      BY <2>1, <2>2, <3>3, <3>4
  <2>5. /\ Cardinality(Live) \in Nat /\ Cardinality(Live') \in Nat
        /\ \A p \in Providers : /\ Cardinality(ActiveOf(p)) \in Nat
                                /\ Cardinality(ActiveOf(p)') \in Nat
                                /\ Cap[p] \in Nat
        /\ GlobalCap \in Nat
    BY <2>2, <2>3, <2>4, FS_CardinalityType, CapAssumption, GlobalCapAssumption
  <2>6. Cardinality(Live') <= GlobalCap
    BY <2>3, <2>5 DEF IInv, CapacityRespected
  <2>7. \A p \in Providers : Cardinality(ActiveOf(p)') <= Cap[p]
    BY <2>4, <2>5 DEF IInv, CapacityRespected
  <2> QED
    BY <2>6, <2>7 DEF CapacityRespected
<1>16. NoLostWakeup'
  <2> SUFFICES ASSUME NEW k \in Keys, waiters'[k] # <<>>
               PROVE  Cardinality(activeByKey'[k]) = Cap[k[2]]
    BY DEF NoLostWakeup
  <2> DEFINE n == WokenAt(L, leaving, k)
             freed == Cardinality(L \cap A(k))
  <2>1. waiters[k] \in Seq(Requests) /\ Len(waiters[k]) \in Nat
    BY DEF IInv, TypeOK
  <2>2. /\ ~Cleared(leaving, k)
        /\ waiters'[k] = SubSeq(waiters[k], n + 1, Len(waiters[k]))
        /\ n \in Nat /\ n <= Len(waiters[k])
    BY DEF Outcome, WokenCalls
  <2>3. n < Len(waiters[k])
    <3> SUFFICES ASSUME n = Len(waiters[k]) PROVE FALSE
      BY <2>1, <2>2
    <3> HIDE DEF n
    <3>1. SubSeq(waiters[k], n + 1, Len(waiters[k])) = <<>>
      BY <2>1
    <3> QED
      BY <2>2, <3>1
  <2>4. n = freed
    BY <2>1, <2>2, <2>3 DEF WokenAt, A
  <2>5. Cardinality(A(k)) = Cap[k[2]]
    <3>1. waiters[k] # <<>>
      BY <2>1, <2>2, <2>3
    <3> QED
      BY <3>1 DEF A, IInv, NoLostWakeup
  <2>6. IsFiniteSet(A(k)) /\ Cardinality(A(k)) \in Nat
    BY KeyWithinCap DEF A
  <2>7. /\ IsFiniteSet(A(k) \ L)
        /\ Cardinality(A(k) \ L) = Cardinality(A(k)) - Cardinality(A(k) \cap L)
    BY <2>6, FS_Difference
  <2>8. A(k) \cap L = L \cap A(k)
    OBVIOUS
  <2>9. (A(k) \ L) \cap W(k) = {}
    BY <1>2, <1>4
  <2>10. Cardinality((A(k) \ L) \cup W(k))
           = Cardinality(A(k) \ L) + Cardinality(W(k)) - Cardinality({})
    BY <1>5, <2>7, <2>9, FS_Union
  <2>11. Cardinality({}) = 0
    BY FS_EmptySet
  <2>12. freed \in Nat /\ Cardinality(W(k)) = n
    BY <1>5
  <2> HIDE DEF n, freed
  <2>13. Cardinality(A(k) \ L) = Cardinality(A(k)) - freed
    BY <2>7, <2>8 DEF freed
  <2>14. Cardinality((A(k) \ L) \cup W(k)) = Cardinality(A(k))
    BY <2>4, <2>6, <2>10, <2>11, <2>12, <2>13
  <2>15. activeByKey'[k] = (A(k) \ L) \cup W(k)
    BY <1>3
  <2> QED
    BY <2>5, <2>14, <2>15
<1> QED
  BY <1>6, <1>15, <1>16

\* Retiring leases keeps the invariant, whoever asks for it.
LEMMA RetireIInv ==
  ASSUME IInv, NEW L, NEW dirty \in BOOLEAN, NEW gen, NEW heard, NEW leaving, NEW evicted,
         RetireArguments(L, gen, leaving, evicted),
         Retire(L, dirty, gen, heard, leaving, evicted)
  PROVE  IInv'
<1>1. Outcome(L, gen, leaving) /\ WokenCalls(L, leaving)
  BY RetireOutcome
<1>2. TypeOK'
  BY <1>1 DEF Outcome
<1>3. LifeCycle'
  <2> SUFFICES ASSUME NEW r \in Requests
               PROVE  /\ promise'[r] # "idle" => calls'[r] # None
                      /\ r \in Live' => promise'[r] \notin {"idle", "waiting"}
                      /\ targets'[r] # None => promise'[r] \notin {"idle", "waiting"}
    BY DEF LifeCycle
  <2>1. /\ promise[r] # "idle" => calls[r] # None
        /\ r \in Live => promise[r] \notin {"idle", "waiting"}
        /\ targets[r] # None => promise[r] \notin {"idle", "waiting"}
    BY DEF IInv, LifeCycle
  <2>2. promise'[r] = promise[r] \/ (promise[r] = "waiting" /\ promise'[r] \in {"drained", "rejected"})
    BY <1>1 DEF Outcome, WokenCalls
  <2>3. r \in Woken(L, leaving) => promise'[r] = "drained"
    BY <1>1 DEF Outcome
  <2>4. r \in Live' => r \in Live \/ r \in Woken(L, leaving)
    BY <1>1 DEF Outcome
  <2>5. targets'[r] # None => targets[r] # None \/ r \in Woken(L, leaving)
    BY <1>1 DEF Outcome
  <2>6. calls' = calls
    BY <1>1 DEF Outcome
  <2> QED
    BY <2>1, <2>2, <2>3, <2>4, <2>5, <2>6
<1>4. SessionsAgree' /\ OwnedByRegistered'
  <2>1. SessionsAgree'
    BY <1>1, Survivors
  <2>2. calls' = calls
    BY <1>1 DEF Outcome
  <2>3. \A r \in Requests : (r \in Live \/ promise[r] = "waiting")' =>
          Asserted(calls[r].client, calls[r].session, calls[r].conn)'
    BY <1>1, Survivors
  <2> QED
    BY <2>1, <2>3 DEF OwnedByRegistered
<1>5. QueueAgrees'
  BY <1>1, RetireQueues
<1>6. KeyIndexAgrees' /\ CapacityRespected' /\ NoLostWakeup'
  BY <1>1, RetireCapacity
<1>7. TargetExclusive' /\ LeaseHasItsTarget' /\ AllCurrentGeneration'
  <2>1. TablesAgree(leases', targets', calls', generation')
    BY <1>1 DEF Outcome
  <2> QED
    BY <1>2, <2>1, TablesAgreeNext
<1>8. TargetOwned'
  <2> SUFFICES ASSUME NEW t \in Requests, targets'[t] # None
               PROVE  LET c == sessions'[targets'[t].session]
                      IN c # None /\ clients'[c] # None /\ clients'[c].conn = targets'[t].conn
    BY DEF TargetOwned
  <2>1. CASE /\ targets[t] # None
             /\ ~ \E c \in leaving : clients[c].session = targets[t].session
             /\ targets'[t].session = targets[t].session
             /\ targets'[t].conn = targets[t].conn
    <3> DEFINE c == sessions[targets[t].session]
    <3>1. /\ targets[t].session \in Sessions
          /\ c \in Clients /\ clients[c] # None /\ clients[c].conn = targets[t].conn
          /\ clients[c].session = targets[t].session
      BY <2>1, TargetOwnedNow
    <3> HIDE DEF c
    <3>2. c \notin leaving
      BY <2>1, <3>1
    <3>3. sessions'[targets[t].session] = c
      BY <1>1, <3>1, <3>2 DEF Outcome, c
    <3>4. clients'[c] # None /\ clients'[c].conn = clients[c].conn
      BY <1>1, <3>1, <3>2 DEF Outcome
    <3>5. c # None
      BY <3>1, NoneAssumption
    <3> QED
      BY <2>1, <3>1, <3>3, <3>4, <3>5
  <2>2. CASE /\ t \in Woken(L, leaving)
             /\ targets'[t].session = calls[t].session
             /\ targets'[t].conn = calls[t].conn
    <3>1. t \in Live' /\ calls' = calls
      BY <1>1, <2>2 DEF Outcome
    <3>2. /\ calls[t] \in Call /\ calls[t].client \in Clients
          /\ Asserted(calls[t].client, calls[t].session, calls[t].conn)'
      BY <1>1, <3>1, Survivors
    <3>3. /\ clients'[calls[t].client] # None
          /\ clients'[calls[t].client].session = calls[t].session
          /\ clients'[calls[t].client].conn = calls[t].conn
      BY <3>1, <3>2 DEF Asserted
    <3>4. sessions'[calls[t].session] = calls[t].client
      BY <1>4, <3>2, <3>3 DEF SessionsAgree
    <3> QED
      BY <2>2, <3>2, <3>3, <3>4, NoneAssumption
  <2> QED
    BY <1>1, <2>1, <2>2 DEF Outcome
<1> QED
  BY <1>2, <1>3, <1>4, <1>5, <1>6, <1>7, <1>8 DEF IInv

----------------------------------------------------------------------------
\* The step is one of the handlers that retire leases.
Retires ==
  \E L, gen, heard, leaving, evicted : \E dirty \in BOOLEAN :
    /\ RetireArguments(L, gen, leaving, evicted)
    /\ Retire(L, dirty, gen, heard, leaving, evicted)

LEMMA RetiresIInv ==
  ASSUME IInv, Retires
  PROVE  IInv'
BY RetireIInv DEF Retires

\* release() and cancelLease() retire one lease.
LEMMA OneLeaseArguments ==
  ASSUME IInv, NEW r \in Live
  PROVE  RetireArguments({r}, generation, {}, {})
BY DEF IInv, TypeOK, RetireArguments

LEMMA ReleaseRetires ==
  ASSUME IInv, NEW r \in Requests, NEW c \in Clients, NEW s \in Sessions, NEW conn \in Conns,
         Release(r, c, s, conn)
  PROVE  Retires
<1>1. r \in Live /\ Retire({r}, FALSE, generation, {c}, {}, {})
  BY DEF Release, LeasesOf
<1> QED
  BY <1>1, OneLeaseArguments DEF Retires

LEMMA CancelLeaseRetires ==
  ASSUME IInv, NEW r \in Requests, CancelLease(r)
  PROVE  Retires
<1>1. r \in Live /\ Retire({r}, TRUE, generation, {}, {}, {})
  BY DEF CancelLease
<1> QED
  BY <1>1, OneLeaseArguments DEF Retires

\* Every lease on a target of a leaving client's session is a lease of that client.
LEMMA LeavingTakesItsLeases ==
  ASSUME IInv, NEW leaving, leaving \subseteq {c \in Clients : clients[c] # None},
         NEW r \in Live, leases[r].target \in TargetsOf(leaving)
  PROVE  calls[r].client \in leaving
<1>1. PICK c \in leaving : clients[c].session = targets[leases[r].target].session
  BY DEF TargetsOf
<1>2. targets[leases[r].target].session = calls[r].session
  BY DEF IInv, LeaseHasItsTarget
<1>3. /\ calls[r].client \in Clients
      /\ Asserted(calls[r].client, calls[r].session, calls[r].conn)
  BY DEF IInv, OwnedByRegistered, TypeOK, LifeCycle, Live, Call
<1>4. sessions[calls[r].session] = calls[r].client /\ sessions[clients[c].session] = c
  BY <1>3 DEF Asserted, IInv, SessionsAgree
<1> QED
  BY <1>1, <1>2, <1>4

LEMMA DisconnectRetires ==
  ASSUME IInv, NEW c \in Clients, Disconnect(c)
  PROVE  Retires
<1> DEFINE L == {r \in LeasesOf(c) : calls[r].conn = clients[c].conn}
<1>1. clients[c] # None /\ Retire(L, TRUE, generation, {}, {c}, TargetsOf({c}))
  BY DEF Disconnect
<1>2. \A r \in Live : calls[r].client = c => r \in L
  BY DEF IInv, OwnedByRegistered, Asserted, LeasesOf, Live
<1>3. L \subseteq Live /\ generation \in Nat
  BY DEF LeasesOf, IInv, TypeOK
<1>4. \A r \in Live : leases[r].target \in TargetsOf({c}) => calls[r].client = c
  BY <1>1, LeavingTakesItsLeases
<1> HIDE DEF L
<1>5. RetireArguments(L, generation, {c}, TargetsOf({c}))
  BY <1>1, <1>2, <1>3, <1>4 DEF RetireArguments, TargetsOf
<1> QED
  BY <1>1, <1>5 DEF Retires

LEMMA BumpRetires ==
  ASSUME IInv, BumpBrowserGeneration
  PROVE  Retires
<1> DEFINE old == {t \in Requests : targets[t] # None /\ targets[t].generation # generation + 1}
<1>1. Retire(Live, TRUE, generation + 1, {}, {}, old)
  BY DEF BumpBrowserGeneration
<1>2. generation \in Nat /\ generation + 1 \in Nat
  BY DEF IInv, TypeOK
<1>3. \A t \in Requests : targets[t] # None => t \in old
  BY <1>2 DEF IInv, AllCurrentGeneration
<1> HIDE DEF old
<1>4. RetireArguments(Live, generation + 1, {}, old)
  BY <1>2, <1>3 DEF RetireArguments
<1> QED
  BY <1>1, <1>4 DEF Retires

LEMMA SweepRetires ==
  ASSUME IInv, Sweep
  PROVE  Retires
<1> DEFINE stale == {c \in Clients : clients[c] # None /\ clients[c].stale}
           leaving == stale \ {calls[r].client : r \in Woken(Overdue, {})}
           aged == {t \in Requests : targets[t] # None /\ ~targets[t].busy /\ targets[t].aged}
           L == Overdue \cup UNION {LeasesOf(c) : c \in leaving}
           evicted == TargetsOf(leaving) \cup aged
<1>1. Retire(L, TRUE, generation, {}, leaving, evicted)
  BY DEF Sweep
<1>2. leaving \subseteq {c \in Clients : clients[c] # None}
  OBVIOUS
<1>3. L \subseteq Live /\ generation \in Nat
  BY DEF Overdue, LeasesOf, IInv, TypeOK
<1>4. \A r \in Live : calls[r].client \in leaving => r \in L
  BY DEF LeasesOf
<1>5. \A r \in Live : leases[r].target \notin aged
  BY DEF IInv, TargetExclusive
<1>6. \A r \in Live : leases[r].target \in TargetsOf(leaving) => calls[r].client \in leaving
  BY <1>2, LeavingTakesItsLeases
<1>7. \A r \in Live : r \notin L => leases[r].target \notin evicted
  BY <1>4, <1>5, <1>6
<1>8. \A t \in Requests :
        targets[t] # None /\ (\E c \in leaving : clients[c].session = targets[t].session)
          => t \in evicted
  BY DEF TargetsOf
<1> HIDE DEF leaving, L, evicted
<1>9. RetireArguments(L, generation, leaving, evicted)
  BY <1>2, <1>3, <1>4, <1>7, <1>8 DEF RetireArguments
<1> QED
  BY <1>1, <1>9 DEF Retires

----------------------------------------------------------------------------
\* The invariant holds in every reachable state: every handler keeps it.
THEOREM Invariance == Spec => []IInv
<1>1. ASSUME IInv, [Next]_vars
      PROVE  IInv'
  <2>1. CASE UNCHANGED vars
    <3>1. Live' = Live /\ \A p \in Providers : ActiveOf(p)' = ActiveOf(p)
      BY <2>1 DEF vars, Live, ActiveOf
    <3>2. TypeOK' /\ LifeCycle' /\ SessionsAgree' /\ OwnedByRegistered'
      BY <1>1, <2>1, <3>1 DEF vars, IInv, TypeOK, LifeCycle, SessionsAgree, OwnedByRegistered,
           Asserted
    <3>3. QueueAgrees' /\ NoLostWakeup'
      BY <1>1, <2>1 DEF vars, IInv, QueueAgrees, KeyOf, NoLostWakeup
    <3>4. KeyIndexAgrees' /\ CapacityRespected'
      BY <1>1, <2>1, SameLeases DEF vars
    <3>5. TargetExclusive' /\ LeaseHasItsTarget' /\ AllCurrentGeneration' /\ TargetOwned'
      BY <1>1, <2>1, <3>1 DEF vars, IInv, TargetExclusive, LeaseHasItsTarget,
           AllCurrentGeneration, TargetOwned
    <3> QED
      BY <3>2, <3>3, <3>4, <3>5 DEF IInv
  <2>2. ASSUME NEW c \in Clients, NEW s \in Sessions, NEW conn \in Conns,
               ClientStep(c, s, conn)
        PROVE  IInv'
    BY <1>1, <2>2, RegisterIInv, TouchIInv, HeartbeatIInv, ReleaseRetires, RetiresIInv
    DEF ClientStep
  <2>3. ASSUME NEW r \in Requests, NEW call \in Call, CallStep(r, call)
        PROVE  IInv'
    BY <1>1, <2>3, LeaseEnqueueIInv, LeaseRefuseIInv, LeaseAllocateIInv DEF CallStep
  <2>4. ASSUME NEW r \in Requests, RequestStep(r)
        PROVE  IInv'
    BY <1>1, <2>4, SettleIInv, WaitTimeoutIInv, AbortIInv, ExpireIInv, AgeIInv,
       CancelLeaseRetires, RetiresIInv DEF RequestStep
  <2>5. ASSUME NEW c \in Clients, Disconnect(c) \/ GoStale(c)
        PROVE  IInv'
    BY <1>1, <2>5, DisconnectRetires, RetiresIInv, GoStaleIInv
  <2>6. CASE BumpBrowserGeneration \/ Sweep
    BY <1>1, <2>6, BumpRetires, SweepRetires, RetiresIInv
  <2> QED
    BY <1>1, <2>1, <2>2, <2>3, <2>4, <2>5, <2>6 DEF Next
<1> QED
  BY <1>1, InitIInv, PTL DEF Spec

\* The registry's tables stay well-formed whatever the clients, timers and the browser do.
THEOREM TypeCorrect == Spec => []TypeOK
<1>1. IInv => TypeOK
  BY DEF IInv
<1> QED
  BY <1>1, Invariance, PTL

\* lease() and drain() never pass the provider caps or the global cap.
THEOREM Capacity == Spec => []CapacityRespected
<1>1. IInv => CapacityRespected
  BY DEF IInv
<1> QED
  BY <1>1, Invariance, PTL

\* allocate() never gives one tab to two leases, and busy tells exactly who runs on it.
THEOREM Exclusion == Spec => []TargetExclusive
<1>1. IInv => TargetExclusive
  BY DEF IInv
<1> QED
  BY <1>1, Invariance, PTL

\* A call waits only while its key is full, so the end of a lease always wakes somebody.
THEOREM Wakeups == Spec => []NoLostWakeup
<1>1. IInv => NoLostWakeup
  BY DEF IInv
<1> QED
  BY <1>1, Invariance, PTL

\* Leases and queued calls die with the registration they were made under.
THEOREM Ownership == Spec => []OwnedByRegistered
<1>1. IInv => OwnedByRegistered
  BY DEF IInv
<1> QED
  BY <1>1, Invariance, PTL

\* A lease runs on a tab that its own connection created.
THEOREM NoWarmInheritance == Spec => []WarmTargetNotInherited
<1>1. IInv => WarmTargetNotInherited
  <2> SUFFICES ASSUME IInv, NEW r \in Live
               PROVE  targets[leases[r].target].conn = calls[r].conn
    BY DEF WarmTargetNotInherited
  <2> DEFINE t == leases[r].target
             c == sessions[targets[t].session]
  <2>1. /\ t \in Requests /\ targets[t] # None /\ targets[t].session = calls[r].session
    BY DEF IInv, TypeOK, LeaseHasItsTarget, Live, Lease
  <2>2. clients[c].conn = targets[t].conn
    BY <2>1, TargetOwnedNow
  <2>3. /\ calls[r].client \in Clients
        /\ Asserted(calls[r].client, calls[r].session, calls[r].conn)
    BY DEF IInv, OwnedByRegistered, TypeOK, LifeCycle, Live, Call
  <2>4. c = calls[r].client
    BY <2>1, <2>3 DEF Asserted, IInv, SessionsAgree
  <2> QED
    BY <2>2, <2>3, <2>4 DEF Asserted
<1> QED
  BY <1>1, Invariance, PTL

\* Nothing of an earlier browser generation survives a bump.
THEOREM Generations == Spec => []AllCurrentGeneration
<1>1. IInv => AllCurrentGeneration
  BY DEF IInv
<1> QED
  BY <1>1, Invariance, PTL

----------------------------------------------------------------------------
\* A step that hands out no lease, ends none and makes or drops no tab.
Quiet ==
  /\ \A r \in Requests : /\ leases'[r] = None <=> leases[r] = None
                         /\ leases[r] # None => leases'[r].target = leases[r].target
  /\ \A t \in Requests : /\ targets'[t] = None <=> targets[t] = None
                         /\ targets[t] # None =>
                              /\ targets'[t].session = targets[t].session
                              /\ targets'[t].provider = targets[t].provider
  /\ \A r \in Requests : promise'[r] = "drained" => promise[r] = "drained"

LEMMA HeartbeatIsQuiet ==
  ASSUME IInv, NEW c \in Clients, NEW s \in Sessions, NEW conn \in Conns,
         NEW L \in SUBSET LeasesOf(c), Heartbeat(c, s, conn, L)
  PROVE  Quiet
<1>1. \A r \in L : leases[r] \in Lease
  BY DEF LeasesOf, Live, IInv, TypeOK
<1>2. \A r \in L : /\ [leases[r] EXCEPT !.expired = FALSE] \in Lease
                   /\ [leases[r] EXCEPT !.expired = FALSE].target = leases[r].target
  BY <1>1 DEF Lease
<1>3. \A r \in Requests :
        leases'[r] = IF r \in L THEN [leases[r] EXCEPT !.expired = FALSE] ELSE leases[r]
  BY DEF Heartbeat
<1> QED
  BY <1>1, <1>2, <1>3, NoneAssumption DEF Heartbeat, Quiet

LEMMA ExpireIsQuiet ==
  ASSUME IInv, NEW r \in Requests, Expire(r)
  PROVE  Quiet
<1>1. leases[r] \in Lease
  BY DEF Expire, Live, IInv, TypeOK
<1>2. /\ [leases[r] EXCEPT !.expired = TRUE] \in Lease
      /\ [leases[r] EXCEPT !.expired = TRUE].target = leases[r].target
  BY <1>1 DEF Lease
<1>3. leases' = [leases EXCEPT ![r] = [leases[r] EXCEPT !.expired = TRUE]]
  BY DEF Expire
<1> QED
  BY <1>1, <1>2, <1>3, NoneAssumption DEF Expire, Quiet, IInv, TypeOK

LEMMA AgeIsQuiet ==
  ASSUME IInv, NEW t \in Requests, Age(t)
  PROVE  Quiet
<1>1. targets[t] \in Target
  BY DEF Age, IInv, TypeOK
<1>2. /\ [targets[t] EXCEPT !.aged = TRUE] \in Target
      /\ [targets[t] EXCEPT !.aged = TRUE].session = targets[t].session
      /\ [targets[t] EXCEPT !.aged = TRUE].provider = targets[t].provider
  BY <1>1 DEF Target
<1>3. targets' = [targets EXCEPT ![t] = [targets[t] EXCEPT !.aged = TRUE]]
  BY DEF Age
<1> QED
  BY <1>1, <1>2, <1>3, NoneAssumption DEF Age, Quiet, IInv, TypeOK

\* Every step retires leases, gives a lease to a fresh call, or is quiet.
LEMMA StepShape ==
  ASSUME IInv, [Next]_vars
  PROVE  \/ Retires
         \/ \E r \in Requests, call \in Call : LeaseAllocate(r, call)
         \/ Quiet
<1>p. promise \in [Requests -> Phases]
  BY DEF IInv, TypeOK
<1>1. CASE UNCHANGED vars
  BY <1>1 DEF vars, Quiet
<1>2. ASSUME NEW c \in Clients, NEW s \in Sessions, NEW conn \in Conns,
             ClientStep(c, s, conn)
      PROVE  Retires \/ Quiet
  <2>1. CASE Register(c, s, conn) \/ Touch(c, s, conn)
    BY <2>1 DEF Register, Touch, Quiet
  <2> QED
    BY <1>2, <2>1, HeartbeatIsQuiet, ReleaseRetires DEF ClientStep
<1>3. ASSUME NEW r \in Requests, NEW call \in Call, LeaseEnqueue(r, call) \/ LeaseRefuse(r, call)
      PROVE  Quiet
  BY <1>p, <1>3 DEF LeaseEnqueue, LeaseRefuse, Quiet
<1>4. ASSUME NEW r \in Requests, RequestStep(r)
      PROVE  Retires \/ Quiet
  <2>1. CASE Settle(r) \/ WaitTimeout(r) \/ \E heard : Abort(r, heard)
    BY <1>p, <2>1 DEF Settle, WaitTimeout, Abort, LeaveQueue, Quiet
  <2> QED
    BY <1>4, <2>1, CancelLeaseRetires, ExpireIsQuiet, AgeIsQuiet DEF RequestStep
<1>5. ASSUME NEW c \in Clients, Disconnect(c) \/ GoStale(c)
      PROVE  Retires \/ Quiet
  <2>1. CASE GoStale(c)
    BY <2>1 DEF GoStale, Quiet
  <2> QED
    BY <1>5, <2>1, DisconnectRetires
<1>6. CASE BumpBrowserGeneration \/ Sweep
  BY <1>6, BumpRetires, SweepRetires
<1> QED
  BY <1>1, <1>2, <1>3, <1>4, <1>5, <1>6 DEF Next, CallStep

\* A lease that ended is never live again and a live one keeps its target: drain() and
\* lease() give leases only to calls that wait or have just come in.
THEOREM LeaseEndsOnce == Spec => LeaseNeverRevived
<1>1. ASSUME IInv, [Next]_vars, NEW r \in Requests
      PROVE  /\ r \in Live /\ leases'[r] # None => leases'[r].target = leases[r].target
             /\ r \notin Live /\ leases'[r] # None => promise[r] \in {"idle", "waiting"}
  <2>l. leases'[r] # None <=> r \in Live'
    BY DEF Live
  <2>1. CASE Retires
    <3>1. PICK L, gen, leaving : Outcome(L, gen, leaving) /\ WokenCalls(L, leaving)
      BY <1>1, <2>1, RetireOutcome DEF Retires
    <3> QED
      BY <2>l, <3>1 DEF Outcome, WokenCalls
  <2>2. ASSUME NEW q \in Requests, NEW call \in Call, LeaseAllocate(q, call)
        PROVE  /\ r \in Live /\ leases'[r] # None => leases'[r].target = leases[r].target
               /\ r \notin Live /\ leases'[r] # None => promise[r] \in {"idle", "waiting"}
    <3>1. promise[q] = "idle" /\ q \notin Live
      BY <1>1, <2>2 DEF LeaseAllocate, Called, IInv, LifeCycle
    <3>2. r # q => leases'[r] = leases[r]
      BY <2>2 DEF LeaseAllocate, Allocated
    <3> QED
      BY <3>1, <3>2 DEF Live
  <2>3. CASE Quiet
    BY <2>3 DEF Quiet, Live
  <2> QED
    BY <1>1, <2>1, <2>2, <2>3, StepShape
<1>2. IInv /\ [Next]_vars =>
        [\A r \in Requests :
           /\ r \in Live /\ leases'[r] # None => leases'[r].target = leases[r].target
           /\ r \notin Live /\ leases'[r] # None => promise[r] \in {"idle", "waiting"}]_vars
  BY <1>1
<1> QED
  BY <1>2, Invariance, PTL DEF Spec, LeaseNeverRevived

\* drain() serves a queue from its head: whoever is served leaves nobody waiting who
\* came before.
THEOREM ServedInOrder == Spec => FirstComeFirstServed
<1>1. ASSUME IInv, [Next]_vars, NEW k \in Keys,
             NEW i \in DOMAIN waiters[k], NEW j \in DOMAIN waiters[k], i < j,
             promise'[waiters[k][j]] = "drained"
      PROVE  promise'[waiters[k][i]] # "waiting"
  <2>1. /\ waiters[k] \in Seq(Requests) /\ Len(waiters[k]) \in Nat
        /\ DOMAIN waiters[k] = 1 .. Len(waiters[k])
        /\ waiters[k][i] \in Requests /\ waiters[k][j] \in Requests
    BY <1>1 DEF IInv, TypeOK
  <2>2. /\ promise[waiters[k][j]] = "waiting" /\ KeyOf(waiters[k][j]) = k
        /\ \A l \in DOMAIN waiters[k] : waiters[k][l] = waiters[k][j] => l = j
    BY <1>1 DEF IInv, QueueAgrees
  <2>3. CASE Retires
    <3>1. PICK L, gen, leaving : Outcome(L, gen, leaving) /\ WokenCalls(L, leaving)
      BY <1>1, <2>3, RetireOutcome DEF Retires
    <3>2. waiters[k][j] \in Woken(L, leaving)
      BY <1>1, <2>1, <2>2, <3>1 DEF Outcome
    <3>3. waiters[k][j] \in WokenOf(L, leaving, k)
      BY <2>2, <3>1, <3>2 DEF WokenCalls
    <3>4. /\ WokenAt(L, leaving, k) \in Nat
          /\ WokenAt(L, leaving, k) <= Len(waiters[k])
      BY <3>1 DEF WokenCalls
    <3>5. j \in 1 .. WokenAt(L, leaving, k)
      BY <2>1, <2>2, <3>3, <3>4 DEF WokenOf
    <3>6. i \in 1 .. WokenAt(L, leaving, k)
      BY <1>1, <2>1, <3>4, <3>5
    <3>7. waiters[k][i] \in Woken(L, leaving)
      BY <3>6 DEF Woken, WokenOf
    <3> QED
      BY <2>1, <3>1, <3>7 DEF Outcome
  <2>4. ASSUME NEW q \in Requests, NEW call \in Call, LeaseAllocate(q, call)
        PROVE  FALSE
    <3>1. promise[q] = "idle" /\ promise' = [promise EXCEPT ![q] = "resolved"]
      BY <2>4 DEF LeaseAllocate, Called
    <3> QED
      BY <1>1, <2>1, <2>2, <3>1 DEF IInv, TypeOK
  <2>5. CASE Quiet
    BY <1>1, <2>1, <2>2, <2>5 DEF Quiet
  <2> QED
    BY <1>1, <2>3, <2>4, <2>5, StepShape
<1>2. IInv /\ [Next]_vars =>
        [\A k \in Keys : \A i, j \in DOMAIN waiters[k] :
           i < j /\ promise'[waiters[k][j]] = "drained"
             => promise'[waiters[k][i]] # "waiting"]_vars
  BY <1>1
<1> QED
  BY <1>2, Invariance, PTL DEF Spec, FirstComeFirstServed

----------------------------------------------------------------------------
\* When all tabs of a key are busy, they are no more than the leases that run on them.
LEMMA BusyTabs ==
  ASSUME NEW ls \in [Requests -> Lease \cup {None}],
         NEW ts \in [Requests -> Target \cup {None}],
         NEW args, NEW gen, TablesAgree(ls, ts, args, gen),
         NEW k, \A t \in TabsOf(ts, k) : ts[t].busy,
         NEW A, IsFiniteSet(A),
         \A r \in Requests :
           ls[r] # None /\ <<args[r].session, args[r].provider>> = k => r \in A
  PROVE  IsFiniteSet(TabsOf(ts, k)) /\ Cardinality(TabsOf(ts, k)) <= Cardinality(A)
<1> DEFINE runs(t) == CHOOSE r \in Requests : ls[r] # None /\ ls[r].target = t
           f == [t \in TabsOf(ts, k) |-> runs(t)]
<1>1. ASSUME NEW t \in TabsOf(ts, k)
      PROVE  /\ runs(t) \in Requests /\ ls[runs(t)] # None /\ ls[runs(t)].target = t
             /\ runs(t) \in A
  <2>1. t \in Requests /\ ts[t] # None /\ <<ts[t].session, ts[t].provider>> = k
    BY DEF TabsOf
  <2>2. \E r \in Requests : ls[r] # None /\ ls[r].target = t
    BY <2>1 DEF TablesAgree
  <2>3. runs(t) \in Requests /\ ls[runs(t)] # None /\ ls[runs(t)].target = t
    BY <2>2
  <2> HIDE DEF runs
  <2>4. ts[t].session = args[runs(t)].session /\ ts[t].provider = args[runs(t)].provider
    BY <2>3 DEF TablesAgree
  <2> QED
    BY <2>1, <2>3, <2>4
<1> HIDE DEF runs
<1>2. f \in Injection(TabsOf(ts, k), A)
  BY <1>1 DEF Injection, IsInjective
<1> HIDE DEF f
<1> QED
  BY <1>2, FS_Injection

\* allocate() makes a tab only when no idle one of the key is left, so a key never has
\* more tabs than its provider has slots.
THEOREM WarmPool == Spec => []WarmPoolBounded
<1>1. Init => WarmPoolBounded
  <2> SUFFICES ASSUME Init, NEW k \in Keys
               PROVE  Cardinality(TabsOf(targets, k)) <= Cap[k[2]]
    BY DEF WarmPoolBounded, TabsOf
  <2>1. TabsOf(targets, k) = {} /\ Cap[k[2]] \in Nat
    BY CapAssumption DEF Init, TabsOf, Keys
  <2> QED
    BY <2>1, FS_EmptySet
<1>2. ASSUME IInv, IInv', WarmPoolBounded, [Next]_vars, NEW k \in Keys
      PROVE  Cardinality(TabsOf(targets', k)) <= Cap[k[2]]
  <2>1. TabsEarned(targets, targets', k)
    <3>1. CASE Retires
      BY <1>2, <3>1, RetireOutcome DEF Retires, Outcome
    <3>2. ASSUME NEW r \in Requests, NEW call \in Call, LeaseAllocate(r, call)
          PROVE  TabsEarned(targets, targets', k)
      BY <1>2, <3>2, AllocateTables DEF AllocatedTables
    <3>3. CASE Quiet
      BY <3>3 DEF Quiet, TabsEarned, TabsOf
    <3> QED
      BY <1>2, <3>1, <3>2, <3>3, StepShape
  <2>2. /\ IsFiniteSet(TabsOf(targets, k))
        /\ Cardinality(TabsOf(targets, k)) \in Nat /\ Cap[k[2]] \in Nat
        /\ Cardinality(TabsOf(targets, k)) <= Cap[k[2]]
    <3>1. IsFiniteSet(TabsOf(targets, k))
      BY RequestsAssumption, FS_Subset DEF TabsOf
    <3> QED
      BY <1>2, <3>1, FS_CardinalityType, CapAssumption DEF WarmPoolBounded, TabsOf, Keys
  <2>3. CASE TabsOf(targets', k) \subseteq TabsOf(targets, k)
    <3>1. /\ IsFiniteSet(TabsOf(targets', k))
          /\ Cardinality(TabsOf(targets', k)) <= Cardinality(TabsOf(targets, k))
      BY <2>2, <2>3, FS_Subset
    <3>2. Cardinality(TabsOf(targets', k)) \in Nat
      BY <3>1, FS_CardinalityType
    <3> QED
      BY <2>2, <3>1, <3>2
  <2>4. CASE \A t \in TabsOf(targets', k) : targets'[t].busy
    <3> DEFINE A == ActiveOf(k[2])'
    <3>1. IsFiniteSet(A) /\ Cardinality(A) \in Nat /\ Cardinality(A) <= Cap[k[2]]
      <4>1. IsFiniteSet(A)
        BY RequestsAssumption, FS_Subset DEF Live, ActiveOf
      <4> QED
        BY <1>2, <4>1, FS_CardinalityType DEF IInv, CapacityRespected, Keys
    <3>2. \A r \in Requests :
            leases'[r] # None /\ <<calls'[r].session, calls'[r].provider>> = k => r \in A
      BY DEF ActiveOf, Live
    <3>3. /\ leases' \in [Requests -> Lease \cup {None}]
          /\ targets' \in [Requests -> Target \cup {None}]
      BY <1>2 DEF IInv, TypeOK
    <3>4. TablesAgree(leases', targets', calls', generation')
      BY <1>2, AgreeNext
    <3> HIDE DEF A
    <3>5. /\ IsFiniteSet(TabsOf(targets', k))
          /\ Cardinality(TabsOf(targets', k)) <= Cardinality(A)
      BY <2>4, <3>1, <3>2, <3>3, <3>4, BusyTabs
    <3>6. Cardinality(TabsOf(targets', k)) \in Nat
      BY <3>5, FS_CardinalityType
    <3> QED
      BY <2>2, <3>1, <3>5, <3>6
  <2> QED
    BY <2>1, <2>3, <2>4 DEF TabsEarned
<1>3. IInv /\ IInv' /\ WarmPoolBounded /\ [Next]_vars => WarmPoolBounded'
  BY <1>2 DEF WarmPoolBounded, TabsOf
<1> QED
  BY <1>1, <1>3, Invariance, PTL DEF Spec
=============================================================================
