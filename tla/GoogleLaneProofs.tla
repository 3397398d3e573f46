-------------------------- MODULE GoogleLaneProofs --------------------------
(* LanesApart and EnabledSparesUsers, which the run lane checks: a profile    *)
(* never has two broker children at once, the legacy search runs with none of *)
(* them and no lease, and close() is not sent to a client in use. For any     *)
(* number of requests, clients, children and startups.                        *)
EXTENDS GoogleLane, FiniteSetTheorems, TLAPS

-----------------------------------------------------------------------------
(* The invariant.                                                            *)

Main == {"reserve", "gate", "adopt", "unreserve", "unlease", "cleanup", "legacy"}

\* An operation of O is in the queue q for r.
In(q, O, r) == \E i \in 1 .. Len(q) : q[i][1] \in O /\ q[i][2] = r

\* There is one at most.
Once(q, O, r) == \A i, j \in 1 .. Len(q) :
    /\ q[i][1] \in O /\ q[i][2] = r
    /\ q[j][1] \in O /\ q[j][2] = r
    => i = j

Waits(O, r) == hold # None /\ hold.op \in O /\ hold.r = r

\* One operation of a request is under way at most, and the request waits for it.
QueueOf(r) ==
    /\ Once(queue, Main, r) /\ Once(queue, {"check"}, r) /\ Once(queue, {"lift"}, r)
    /\ In(queue, Main, r) =>
          req[r].pc = "queued" /\ ~Waits({"adopt", "cleanup", "late", "unlease"}, r)
    /\ Waits({"adopt", "cleanup", "late", "unlease"}, r) => req[r].pc = "queued"
    /\ In(queue, {"check"}, r) => req[r].att = "queued" /\ ~Waits({"check"}, r)
    /\ Waits({"check"}, r) => req[r].att = "queued"
    /\ In(queue, {"lift"}, r) => st.fallback = r
    /\ st.fallback = r => req[r].pc \in {"legacy", "failed"}

\* What a request has at each stage: its attempt, its marker, its reservation.
StageOf(r) ==
    /\ \/ req[r].pc \in {"idle", "waiting", "chrome", "gated"}
       \/ In(queue, {"reserve", "gate"}, r)
       => req[r].att = "none"
    /\ \/ req[r].pc \in {"chrome", "gated", "connect"}
       \/ In(queue, {"gate", "adopt"}, r)
       \/ Waits({"adopt"}, r)
       => r \in st.reserved
    /\ req[r].pc = "connect" => req[r].att \notin {"none", "settled"}
    /\ \/ req[r].pc = "search"
       \/ In(queue, {"adopt", "unlease"}, r) \/ In(queue, {"settle"}, r)
       \/ Waits({"adopt", "late", "unlease"}, r)
       \/ req[r].closeStarted
       \/ req[r].adopted
       => req[r].att = "settled"
    /\ In(queue, {"cleanup"}, r) \/ Waits({"cleanup", "late"}, r) => req[r].err # "none"
    /\ In(queue, {"unreserve"}, r) /\ req[r].err = "none" =>
          req[r].att = "settled" /\ req[r].client # None
    /\ req[r].att \notin {"none", "settled", "err"} => r \in st.pending
    /\ req[r].att \in {"ok", "settled"} => req[r].cand # None
    /\ req[r].pc = "search" \/ In(queue, {"unlease"}, r) => req[r].client # None

QueueInv == \A r \in Requests : QueueOf(r)

StageInv == \A r \in Requests : StageOf(r)

\* The legacy search keeps out whatever could bring a lease or a child.
LegacyInv ==
    st.fallback # None => /\ st.reserved = {} /\ st.pending = {} /\ ~Active(st)
                          /\ alive = {} /\ st.startup = None

\* A fence outlives the close that raised it only with its request's error.
FenceInv ==
    /\ \A r \in st.fenced : /\ req[r].att # "ok"
                            /\ req[r].err = "none" => st.tearing
                            /\ req[r].att = "decide" => st.client = None
    /\ st.close # "none" => st.tearing
    /\ st.close = "prepare" => st.pending \subseteq st.fenced
    /\ In(queue, {"prepare"}, None) => st.close = "prepare"
    /\ In(queue, {"detach"}, None) => st.close = "detach"
    /\ Once(queue, {"prepare"}, None) /\ Once(queue, {"detach"}, None)

\* A child that runs and that the operation at the head of the queue has taken off
\* the record while it waits for a close().
Hidden == hold # None /\ hold.p \in alive /\ hold.p # st.deferred

\* One child runs at most, and it is known: as the process, as the one awaited, or
\* to the operation that waits.
ChildInv ==
    /\ st.deferred # None => st.deferred \in alive /\ st.deferred # st.process
    /\ \A p \in alive : \/ p \in {st.process, st.deferred}
                        \/ hold # None /\ hold.p = p
    /\ \A p, q \in alive : p = q
    /\ \A p \in alive : p <= made.proc
    /\ st.process # None => st.process <= made.proc
    /\ \A p \in Procs : In(queue, {"exit"}, p) => p \notin alive /\ p <= made.proc
    /\ hold # None => /\ hold.p \in alive => hold.p # st.process
                      /\ hold.p # None => hold.p <= made.proc
                      /\ hold.op = "adopt" => hold.p = None

GenInv == \A g \in Gens :
    /\ gen[g].proc # None => gen[g].proc <= made.proc
    /\ gen[g].cancelled /\ gen[g].proc # None => gen[g].proc # st.process
    /\ gen[g].pc # "none" => g <= made.gen
    /\ (gen[g].pc \in {"connect", "spawn"} /\ ~gen[g].cancelled) <=> st.startup = g
    /\ gen[g].pc = "none" => ~gen[g].cancelled /\ gen[g].proc = None

\* A startup has somebody who waits for it, or was cancelled.
JoinInv ==
    /\ st.startup # None => Joined(st.startup) # {}
    /\ \A r \in Requests : req[r].att = "joined" =>
          /\ req[r].gen # None
          /\ gen[req[r].gen].cancelled \/ st.startup = req[r].gen

\* A startup begins with nothing left of the last one.
StartInv == st.startup # None => st.client = None /\ st.deferred = None /\ ~Hidden

Torn(s) ==
    /\ s.client # None /\ s.unavailable => s.teardown
    /\ s.deferred # None => s.teardown

TearInv == Torn(st)

\* An attempt that has passed its check still finds what the check found.
DecideInv ==
    /\ \A r \in Requests : req[r].att # "deferred"
    /\ \A r \in Requests : req[r].att = "decide" =>
          /\ hold = None /\ st.deferred = None
          /\ st.client # None => st.client \in open /\ ~st.unavailable
    /\ hold # None /\ hold.op = "check" =>
          /\ hold.p = None /\ st.client = None
          /\ st.startup = None /\ st.deferred = None

\* The global close has cancelled the startup, and no other begins.
CloseInv ==
    st.close \in {"reserve", "users", "detach", "closing"} =>
        /\ st.startup = None
        /\ \A r \in Requests : req[r].att # "decide"
        /\ hold # None => hold.op # "check"

\* All that wait for a startup with a child of its own have given up: the last of
\* them will cancel it.
Doomed ==
    /\ st.startup # None /\ gen[st.startup].proc # None
    /\ \A r \in Joined(st.startup) : req[r].err # "none"

\* Nobody passes a check before it is cancelled.
DoomInv ==
    Doomed =>
        \/ hold # None /\ ~HoldReady
        \/ /\ hold # None => hold.op # "check"
           /\ \A r \in Requests :
                 /\ req[r].att # "decide" /\ req[r].pc # "gated"
                 /\ ~In(queue, {"gate", "check"}, r)
                 /\ req[r].att = "waiting" => st.tearing

Inv ==
    /\ TypeOK /\ QueueInv /\ StageInv /\ LegacyInv /\ FenceInv /\ ChildInv /\ GenInv
    /\ JoinInv /\ StartInv /\ TearInv /\ DecideInv /\ CloseInv /\ DoomInv

-----------------------------------------------------------------------------
(* What the functions of the profile change.                                 *)

\* The fields that no fence, marker or child on record is part of.
Stable(s, t) ==
    /\ t.client = s.client /\ t.process = s.process /\ t.startup = s.startup
    /\ t.publication = s.publication /\ t.unavailable = s.unavailable
    /\ t.retired = s.retired /\ t.failed = s.failed
    /\ t.closing = s.closing /\ t.closed = s.closed /\ t.users = s.users
    /\ t.reserved = s.reserved /\ t.fallback = s.fallback
    /\ t.close = s.close /\ t.targets = s.targets

Marked(s, t) == t.pending = s.pending /\ t.fenced = s.fenced

\* What finalizeBrokerTeardown() waits for.
Cleared(s) ==
    /\ s.client = None \/ ~s.unavailable
    /\ s.process = None /\ s.deferred = None /\ s.publication = None
    /\ Quarantined(s) = {} /\ s.pending = {} /\ s.fenced = {}
    /\ ~Active(s)

Over(s) == s.close = "none" /\ s.reserved = {} /\ ~Unresolved(s)

LEMMA MaybeFinishEffect ==
    ASSUME NEW s \in BrokerState
    PROVE  /\ MaybeFinish(s) \in BrokerState
           /\ Stable(s, MaybeFinish(s)) /\ Marked(s, MaybeFinish(s))
           /\ MaybeFinish(s).deferred = s.deferred
           /\ MaybeFinish(s).teardown = s.teardown
           /\ MaybeFinish(s).tearing <=> s.tearing /\ ~Over(s)
<1> DEFINE t == [s EXCEPT !.tearing = FALSE]
<1>1. t \in BrokerState /\ Stable(s, t) /\ Marked(s, t) /\ t.deferred = s.deferred
      /\ t.teardown = s.teardown /\ t.tearing = FALSE
  BY DEF BrokerState, Stable, Marked
<1>2. Stable(s, s) /\ Marked(s, s) /\ s.tearing \in BOOLEAN
  BY DEF Stable, Marked, BrokerState
<1>3. MaybeFinish(s) = IF s.tearing /\ Over(s) THEN t ELSE s
  BY DEF MaybeFinish, Over
<1> HIDE DEF t
<1> QED
  BY <1>1, <1>2, <1>3

LEMMA FinalizeEffect ==
    ASSUME NEW s \in BrokerState
    PROVE  /\ Finalize(s) \in BrokerState
           /\ Stable(s, Finalize(s)) /\ Marked(s, Finalize(s))
           /\ Finalize(s).deferred = s.deferred
           /\ Finalize(s).teardown <=> s.teardown /\ ~Cleared(s)
           /\ Finalize(s).tearing <=> s.tearing /\ ~Over(s)
<1> DEFINE u == [s EXCEPT !.teardown = FALSE]
           v == IF Cleared(s) THEN u ELSE s
<1>1. u \in BrokerState /\ Stable(s, u) /\ Marked(s, u) /\ u.deferred = s.deferred
      /\ u.teardown = FALSE /\ u.tearing = s.tearing
  BY DEF BrokerState, Stable, Marked
<1>2. Stable(s, s) /\ Marked(s, s) /\ s.teardown \in BOOLEAN /\ s.tearing \in BOOLEAN
  BY DEF Stable, Marked, BrokerState
<1>3. Finalize(s) = MaybeFinish(v)
  <2>1. (/\ s.client = None \/ ~s.unavailable
         /\ \A x \in {s.process, s.deferred, s.publication} : x = None
         /\ Quarantined(s) \cup s.pending \cup s.fenced = {}
         /\ ~Active(s)) <=> Cleared(s)
    BY DEF Cleared
  <2> QED
    BY <2>1 DEF Finalize
<1> HIDE DEF u
<1>4. v \in BrokerState /\ Stable(s, v) /\ Marked(s, v) /\ v.deferred = s.deferred
      /\ (v.teardown <=> s.teardown /\ ~Cleared(s)) /\ v.tearing = s.tearing
  BY <1>1, <1>2
<1>5. Over(v) <=> Over(s)
  BY <1>4 DEF Over, Unresolved, Active, Quarantined, Stable, Marked
<1> HIDE DEF v
<1>6. Stable(v, MaybeFinish(v)) /\ Stable(s, v) => Stable(s, MaybeFinish(v))
  BY DEF Stable
<1>7. Marked(v, MaybeFinish(v)) /\ Marked(s, v) => Marked(s, MaybeFinish(v))
  BY DEF Marked
<1> QED
  BY <1>3, <1>4, <1>5, <1>6, <1>7, MaybeFinishEffect

\* The child that RetainDeferred() puts on record.
LEMMA RetainEffect ==
    ASSUME NEW s \in BrokerState, NEW p \in Procs \cup {None}, None \notin alive
    PROVE  /\ RetainDeferred(s, p) \in BrokerState
           /\ Stable(s, RetainDeferred(s, p)) /\ Marked(s, RetainDeferred(s, p))
           /\ RetainDeferred(s, p).deferred
                = IF p \in alive /\ s.deferred = None THEN p ELSE s.deferred
           /\ RetainDeferred(s, p).teardown
                <=> s.teardown \/ (p \in alive /\ s.deferred = None)
           /\ RetainDeferred(s, p).tearing = s.tearing
<1> DEFINE t == [s EXCEPT !.deferred = p, !.teardown = TRUE]
<1>1. t \in BrokerState /\ Stable(s, t) /\ Marked(s, t) /\ t.deferred = p
      /\ t.teardown = TRUE /\ t.tearing = s.tearing
  BY DEF BrokerState, Stable, Marked
<1>2. Stable(s, s) /\ Marked(s, s) /\ s.teardown \in BOOLEAN
  BY DEF Stable, Marked, BrokerState
<1>3. RetainDeferred(s, p) = IF p \in alive /\ s.deferred = None THEN t ELSE s
  BY DEF RetainDeferred
<1> HIDE DEF t
<1> QED
  BY <1>1, <1>2, <1>3

LEMMA DropEffect ==
    ASSUME NEW s \in BrokerState, NEW R
    PROVE  LET t == DropMarkers(s, R)
           IN /\ t \in BrokerState /\ Stable(s, t)
              /\ t.pending = s.pending \ R /\ t.fenced = s.fenced \ R
              /\ t.deferred = s.deferred
              /\ t.teardown <=> s.teardown /\ ~Cleared(t)
              /\ t.tearing <=> s.tearing /\ ~Over(t)
<1> DEFINE u == [s EXCEPT !.pending = @ \ R, !.fenced = @ \ R]
           t == Finalize(u)
<1>1. /\ u \in BrokerState /\ Stable(s, u) /\ u.deferred = s.deferred
      /\ u.pending = s.pending \ R /\ u.fenced = s.fenced \ R
      /\ u.teardown = s.teardown /\ u.tearing = s.tearing
  BY DEF BrokerState, Stable
<1>2. DropMarkers(s, R) = t
  BY DEF DropMarkers
<1> HIDE DEF u
<1>3. /\ t \in BrokerState /\ Stable(u, t) /\ Marked(u, t) /\ t.deferred = u.deferred
      /\ t.teardown <=> u.teardown /\ ~Cleared(u)
      /\ t.tearing <=> u.tearing /\ ~Over(u)
  BY <1>1, FinalizeEffect
<1> HIDE DEF t
<1>4. (Cleared(t) <=> Cleared(u)) /\ (Over(t) <=> Over(u))
  BY <1>3 DEF Stable, Marked, Cleared, Over, Unresolved, Active, Quarantined
<1>5. Stable(s, t) /\ t.pending = u.pending /\ t.fenced = u.fenced
  BY <1>1, <1>3 DEF Stable, Marked
<1> QED
  BY <1>1, <1>2, <1>3, <1>4, <1>5

LEMMA FailedEffect ==
    ASSUME NEW s \in BrokerState, NEW c \in Clients
    PROVE  LET t == Failed(s, c)
           IN /\ t \in BrokerState /\ Marked(s, t)
              /\ t.client = s.client /\ t.process = s.process /\ t.startup = s.startup
              /\ t.publication = s.publication /\ t.unavailable = s.unavailable
              /\ t.retired = s.retired \cup {c} /\ t.failed = s.failed \cup {c}
              /\ t.closing = s.closing /\ t.closed = s.closed /\ t.users = s.users
              /\ t.reserved = s.reserved /\ t.fallback = s.fallback
              /\ t.close = s.close /\ t.targets = s.targets
              /\ t.deferred = s.deferred /\ t.teardown = TRUE /\ t.tearing = s.tearing
BY DEF Failed, BrokerState, Marked

LEMMA TerminateEffect ==
    ASSUME NEW s \in BrokerState, NEW g \in Gens, gen[g].proc \in Procs \cup {None},
           None \notin alive
    PROVE  LET t == TerminateOwn(s, g)
               own == gen[g].proc # None /\ s.process = gen[g].proc
           IN /\ t \in BrokerState /\ Marked(s, t)
              /\ t.client = s.client /\ t.startup = s.startup
              /\ t.publication = s.publication
              /\ t.retired = s.retired /\ t.failed = s.failed
              /\ t.closing = s.closing /\ t.closed = s.closed /\ t.users = s.users
              /\ t.reserved = s.reserved /\ t.fallback = s.fallback
              /\ t.close = s.close /\ t.targets = s.targets /\ t.tearing = s.tearing
              /\ t.process = IF own THEN None ELSE s.process
              /\ t.unavailable <=> s.unavailable \/ own
              /\ t.deferred = IF own /\ s.process \in alive /\ s.deferred = None
                              THEN s.process ELSE s.deferred
              /\ t.teardown <=> s.teardown \/ (own /\ s.process \in alive /\ s.deferred = None)
<1> DEFINE own == gen[g].proc # None /\ s.process = gen[g].proc
           u == [s EXCEPT !.process = None, !.unavailable = TRUE]
<1>1. /\ u \in BrokerState /\ Marked(s, u)
      /\ u.client = s.client /\ u.startup = s.startup
      /\ u.publication = s.publication
      /\ u.retired = s.retired /\ u.failed = s.failed
      /\ u.closing = s.closing /\ u.closed = s.closed /\ u.users = s.users
      /\ u.reserved = s.reserved /\ u.fallback = s.fallback
      /\ u.close = s.close /\ u.targets = s.targets /\ u.tearing = s.tearing
      /\ u.process = None /\ u.unavailable = TRUE /\ u.deferred = s.deferred
      /\ u.teardown = s.teardown
  BY DEF BrokerState, Marked
<1>2. Marked(s, s) /\ s.teardown \in BOOLEAN /\ s.unavailable \in BOOLEAN
  BY DEF Marked, BrokerState
<1>3. TerminateOwn(s, g) = IF own THEN RetainDeferred(u, gen[g].proc) ELSE s
  BY DEF TerminateOwn
<1> HIDE DEF u
<1>4. CASE ~own
  BY <1>2, <1>3, <1>4
<1>5. CASE own
  <2> DEFINE t == RetainDeferred(u, gen[g].proc)
  <2>1. TerminateOwn(s, g) = t
    BY <1>3, <1>5
  <2>2. /\ t \in BrokerState /\ Stable(u, t) /\ Marked(u, t)
        /\ t.deferred = IF gen[g].proc \in alive /\ u.deferred = None THEN gen[g].proc ELSE u.deferred
        /\ t.teardown <=> u.teardown \/ (gen[g].proc \in alive /\ u.deferred = None)
        /\ t.tearing = u.tearing
    BY <1>1, RetainEffect
  <2> HIDE DEF t
  <2>3. Marked(s, t)
    BY <1>1, <2>2 DEF Marked
  <2> QED
    BY <1>1, <1>2, <1>5, <2>1, <2>2, <2>3 DEF Stable
<1> QED
  BY <1>4, <1>5

LEMMA CancelEffect ==
    ASSUME NEW s \in BrokerState, NEW g \in Gens, gen[g].proc \in Procs \cup {None},
           None \notin alive
    PROVE  LET t == Cancel(s, g)
               own == gen[g].proc # None /\ s.process = gen[g].proc
           IN /\ t \in BrokerState /\ Marked(s, t)
              /\ t.client = s.client
              /\ t.publication = s.publication
              /\ t.retired = s.retired /\ t.failed = s.failed
              /\ t.closing = s.closing /\ t.closed = s.closed /\ t.users = s.users
              /\ t.reserved = s.reserved /\ t.fallback = s.fallback
              /\ t.close = s.close /\ t.targets = s.targets
              /\ t.tearing <=> s.tearing /\ ~Over(t)
              /\ t.startup = IF s.startup = g THEN None ELSE s.startup
              /\ t.process = IF own THEN None ELSE s.process
              /\ t.unavailable <=> s.unavailable \/ own \/ s.startup = g
              /\ t.deferred = IF own /\ s.process \in alive /\ s.deferred = None
                              THEN s.process ELSE s.deferred
              /\ t.teardown <=> /\ s.teardown \/ (own /\ s.process \in alive /\ s.deferred = None)
                                /\ ~Cleared(t)
<1> DEFINE own == gen[g].proc # None /\ s.process = gen[g].proc
           v == [s EXCEPT !.startup = None, !.unavailable = TRUE]
           w == IF s.startup = g THEN v ELSE s
           u == TerminateOwn(w, g)
<1>1. /\ v \in BrokerState /\ Marked(s, v)
      /\ v.client = s.client /\ v.startup = None /\ v.process = s.process
      /\ v.publication = s.publication
      /\ v.retired = s.retired /\ v.failed = s.failed
      /\ v.closing = s.closing /\ v.closed = s.closed /\ v.users = s.users
      /\ v.reserved = s.reserved /\ v.fallback = s.fallback
      /\ v.close = s.close /\ v.targets = s.targets /\ v.tearing = s.tearing
      /\ v.unavailable = TRUE /\ v.deferred = s.deferred /\ v.teardown = s.teardown
  BY DEF BrokerState, Marked
<1>2. Marked(s, s) /\ s.teardown \in BOOLEAN /\ s.unavailable \in BOOLEAN
  BY DEF Marked, BrokerState
<1>3. Cancel(s, g) = Finalize(u)
  BY DEF Cancel
<1> HIDE DEF v
<1>4. /\ w \in BrokerState /\ Marked(s, w)
      /\ w.client = s.client /\ w.process = s.process
      /\ w.publication = s.publication
      /\ w.retired = s.retired /\ w.failed = s.failed
      /\ w.closing = s.closing /\ w.closed = s.closed /\ w.users = s.users
      /\ w.reserved = s.reserved /\ w.fallback = s.fallback
      /\ w.close = s.close /\ w.targets = s.targets /\ w.tearing = s.tearing
      /\ w.startup = IF s.startup = g THEN None ELSE s.startup
      /\ w.unavailable <=> s.unavailable \/ s.startup = g
      /\ w.deferred = s.deferred /\ w.teardown = s.teardown
  BY <1>1, <1>2
<1> HIDE DEF w
<1>5. /\ u \in BrokerState /\ Marked(s, u)
      /\ u.client = s.client
      /\ u.publication = s.publication
      /\ u.retired = s.retired /\ u.failed = s.failed
      /\ u.closing = s.closing /\ u.closed = s.closed /\ u.users = s.users
      /\ u.reserved = s.reserved /\ u.fallback = s.fallback
      /\ u.close = s.close /\ u.targets = s.targets /\ u.tearing = s.tearing
      /\ u.startup = IF s.startup = g THEN None ELSE s.startup
      /\ u.process = IF own THEN None ELSE s.process
      /\ u.unavailable <=> s.unavailable \/ own \/ s.startup = g
      /\ u.deferred = IF own /\ s.process \in alive /\ s.deferred = None
                      THEN s.process ELSE s.deferred
      /\ u.teardown <=> s.teardown \/ (own /\ s.process \in alive /\ s.deferred = None)
  <2>1. Marked(w, u) /\ Marked(s, w) => Marked(s, u)
    BY DEF Marked
  <2> QED
    BY <1>4, <2>1, TerminateEffect
<1> HIDE DEF u
<1> DEFINE t == Finalize(u)
<1>6. /\ t \in BrokerState /\ Stable(u, t) /\ Marked(u, t) /\ t.deferred = u.deferred
      /\ t.teardown <=> u.teardown /\ ~Cleared(u)
      /\ t.tearing <=> u.tearing /\ ~Over(u)
  BY <1>5, FinalizeEffect
<1> HIDE DEF t
<1>7. (Cleared(t) <=> Cleared(u)) /\ (Over(t) <=> Over(u))
  BY <1>6 DEF Stable, Marked, Cleared, Over, Unresolved, Active, Quarantined
<1>8. Marked(s, t)
  BY <1>5, <1>6 DEF Marked
<1>9. Cancel(s, g) = t
  BY <1>3 DEF t
<1> QED
  BY <1>5, <1>6, <1>7, <1>8, <1>9 DEF Stable

LEMMA DetachEffect ==
    ASSUME NEW s \in BrokerState, None \notin alive
    PROVE  LET t == Detach(s)
               p == Child(s)
               kept == p \in alive /\ s.deferred = None
           IN /\ t \in BrokerState /\ Marked(s, t) /\ p \in Procs \cup {None}
              /\ t.client = None /\ t.process = None /\ t.startup = s.startup
              /\ t.publication = IF s.publication = s.client THEN None ELSE s.publication
              /\ t.unavailable = TRUE
              /\ t.retired = s.retired /\ t.failed = s.failed
              /\ t.closing = s.closing /\ t.closed = s.closed /\ t.users = s.users
              /\ t.reserved = s.reserved /\ t.fallback = s.fallback
              /\ t.close = s.close /\ t.targets = s.targets /\ t.tearing = s.tearing
              /\ t.deferred = IF kept THEN p ELSE s.deferred
              /\ t.teardown <=> p # None \/ s.client # None
<1> DEFINE p == Child(s)
           u == [s EXCEPT !.client = None, !.process = None,
                          !.publication = IF @ = s.client THEN None ELSE @,
                          !.unavailable = TRUE,
                          !.teardown = p # None \/ s.client # None]
<1>1. p \in Procs \cup {None}
  BY DEF Child, BrokerState
<1>2. Detach(s) = RetainDeferred(u, p)
  BY DEF Detach
<1> HIDE DEF p
<1>3. /\ u \in BrokerState /\ Marked(s, u)
      /\ u.client = None /\ u.process = None /\ u.startup = s.startup
      /\ u.publication = IF s.publication = s.client THEN None ELSE s.publication
      /\ u.unavailable = TRUE
      /\ u.retired = s.retired /\ u.failed = s.failed
      /\ u.closing = s.closing /\ u.closed = s.closed /\ u.users = s.users
      /\ u.reserved = s.reserved /\ u.fallback = s.fallback
      /\ u.close = s.close /\ u.targets = s.targets /\ u.tearing = s.tearing
      /\ u.deferred = s.deferred
      /\ u.teardown <=> p # None \/ s.client # None
  BY DEF BrokerState, Marked
<1> HIDE DEF u
<1> DEFINE t == RetainDeferred(u, p)
<1>4. /\ t \in BrokerState /\ Stable(u, t) /\ Marked(u, t)
      /\ t.deferred = IF p \in alive /\ u.deferred = None THEN p ELSE u.deferred
      /\ t.teardown <=> u.teardown \/ (p \in alive /\ u.deferred = None)
      /\ t.tearing = u.tearing
  BY <1>1, <1>3, RetainEffect
<1> HIDE DEF t
<1>5. Marked(s, t)
  BY <1>3, <1>4 DEF Marked
<1>6. p \in alive => p # None
  BY <1>1
<1>7. Detach(s) = t /\ Child(s) = p
  BY <1>2 DEF t, p
<1> QED
  BY <1>1, <1>3, <1>4, <1>5, <1>6, <1>7 DEF Stable

-----------------------------------------------------------------------------
(* The queue.                                                                *)

LEMMA AppendQ ==
    ASSUME NEW q \in Seq(Operation), NEW o, NEW x, <<o, x>> \in Operation
    PROVE  /\ Append(q, <<o, x>>) \in Seq(Operation)
           /\ q \o <<<<o, x>>>> = Append(q, <<o, x>>)
           /\ q \o <<>> = q
           /\ \A O, r : In(Append(q, <<o, x>>), O, r) <=> In(q, O, r) \/ (o \in O /\ x = r)
           /\ \A O, r : Once(q, O, r) /\ ~(In(q, O, r) /\ o \in O /\ x = r)
                            => Once(Append(q, <<o, x>>), O, r)
<1> DEFINE e == <<o, x>>
           p == Append(q, e)
<1>1. /\ p \in Seq(Operation) /\ Len(p) = Len(q) + 1 /\ Len(q) \in Nat
      /\ \A i \in 1 .. Len(q) : p[i] = q[i]
      /\ p[Len(q) + 1] = e /\ e[1] = o /\ e[2] = x
  OBVIOUS
<1>2. q \o <<e>> = p /\ q \o <<>> = q
  OBVIOUS
<1> HIDE DEF p, e
<1>3. ASSUME NEW O, NEW r PROVE In(p, O, r) <=> In(q, O, r) \/ (o \in O /\ x = r)
  BY <1>1 DEF In
<1>4. ASSUME NEW O, NEW r, Once(q, O, r), ~(In(q, O, r) /\ o \in O /\ x = r)
      PROVE  Once(p, O, r)
  <2> SUFFICES ASSUME NEW i \in 1 .. Len(p), NEW j \in 1 .. Len(p),
                      p[i][1] \in O, p[i][2] = r, p[j][1] \in O, p[j][2] = r
               PROVE  i = j
    BY DEF Once
  <2>1. CASE i \in 1 .. Len(q) /\ j \in 1 .. Len(q)
    BY <1>1, <1>4, <2>1 DEF Once
  <2>2. CASE i \notin 1 .. Len(q) /\ j \notin 1 .. Len(q)
    BY <1>1, <2>2
  <2>3. CASE i \in 1 .. Len(q) /\ j \notin 1 .. Len(q)
    BY <1>1, <1>4, <2>3 DEF In
  <2>4. CASE i \notin 1 .. Len(q) /\ j \in 1 .. Len(q)
    BY <1>1, <1>4, <2>4 DEF In
  <2> QED
    BY <2>1, <2>2, <2>3, <2>4
<1> QED
  BY <1>1, <1>2, <1>3, <1>4 DEF p, e

LEMMA TailQ ==
    ASSUME NEW q \in Seq(Operation), q # <<>>, NEW o, NEW x, Head(q) = <<o, x>>
    PROVE  /\ Tail(q) \in Seq(Operation) /\ <<o, x>> \in Operation
           /\ \A O, r : In(Tail(q), O, r) => In(q, O, r)
           /\ \A O, r : In(q, O, r) => In(Tail(q), O, r) \/ (o \in O /\ x = r)
           /\ \A O, r : o \in O /\ x = r => In(q, O, r)
           /\ \A O, r : Once(q, O, r) => Once(Tail(q), O, r)
           /\ \A O, r : Once(q, O, r) /\ o \in O /\ x = r => ~In(Tail(q), O, r)
<1> DEFINE p == Tail(q)
<1>1. /\ p \in Seq(Operation) /\ Len(q) \in Nat /\ Len(q) >= 1 /\ Len(p) = Len(q) - 1
      /\ \A i \in 1 .. Len(p) : p[i] = q[i + 1] /\ i + 1 \in 1 .. Len(q)
      /\ \A i \in 1 .. Len(q) : i # 1 => i - 1 \in 1 .. Len(p) /\ q[i] = p[i - 1]
      /\ q[1] = <<o, x>> /\ 1 \in 1 .. Len(q) /\ q[1] \in Operation
      /\ <<o, x>>[1] = o /\ <<o, x>>[2] = x
  OBVIOUS
<1> HIDE DEF p
<1>2. ASSUME NEW O, NEW r, In(p, O, r) PROVE In(q, O, r)
  BY <1>1, <1>2 DEF In
<1>3. ASSUME NEW O, NEW r, In(q, O, r) PROVE In(p, O, r) \/ (o \in O /\ x = r)
  BY <1>1, <1>3 DEF In
<1>4. ASSUME NEW O, NEW r, o \in O, x = r PROVE In(q, O, r)
  BY <1>1, <1>4 DEF In
<1>5. ASSUME NEW O, NEW r, Once(q, O, r) PROVE Once(p, O, r)
  <2> SUFFICES ASSUME NEW i \in 1 .. Len(p), NEW j \in 1 .. Len(p),
                      p[i][1] \in O, p[i][2] = r, p[j][1] \in O, p[j][2] = r
               PROVE  i = j
    BY DEF Once
  <2>1. i + 1 = j + 1
    BY <1>1, <1>5 DEF Once
  <2> QED
    BY <2>1
<1>6. ASSUME NEW O, NEW r, Once(q, O, r), o \in O, x = r PROVE ~In(p, O, r)
  <2> SUFFICES ASSUME NEW i \in 1 .. Len(p), p[i][1] \in O, p[i][2] = r PROVE FALSE
    BY DEF In
  <2>1. i + 1 = 1
    BY <1>1, <1>6 DEF Once
  <2> QED
    BY <2>1
<1> QED
  BY <1>1, <1>2, <1>3, <1>4, <1>5, <1>6 DEF p

-----------------------------------------------------------------------------
(* Types.                                                                    *)

ReqState ==
    [pc : {"idle", "waiting", "queued", "chrome", "gated", "connect", "search", "closeWait",
           "legacyWait", "legacy", "done", "failed"},
     err : {"none", "abort", "fence", "broker"},
     client : Clients \cup {None},
     att : {"none", "waiting", "queued", "decide", "deferred", "joined", "ok", "settled", "err"},
     gen : Gens \cup {None}, cand : Clients \cup {None},
     adopted : BOOLEAN, closeStarted : BOOLEAN]

GenState == [pc : {"none", "connect", "spawn", "done"}, cancelled : BOOLEAN,
             proc : Procs \cup {None}]

Counts == [client : Nat, proc : Nat, gen : Nat]

\* The profile after a close() and the wait for a child, when both have ended or
\* been given up.
Ended(s, c, p) ==
    IF c = None \/ c \in s.closed THEN Finalize(RetainDeferred(s, p))
    ELSE Failed(RetainDeferred(s, p), c)

LEMMA TypeParts ==
    TypeOK <=> /\ st \in BrokerState /\ req \in [Requests -> ReqState]
               /\ gen \in [Gens -> GenState] /\ queue \in Seq(Operation)
               /\ hold \in Holding \cup {None}
               /\ alive \subseteq Procs /\ open \subseteq Clients /\ timers \subseteq Clients
               /\ made \in Counts /\ toggles \in Nat
BY DEF TypeOK, ReqState, GenState, Counts

LEMMA TypePartsNext ==
    TypeOK' <=> /\ st' \in BrokerState /\ req' \in [Requests -> ReqState]
                /\ gen' \in [Gens -> GenState] /\ queue' \in Seq(Operation)
                /\ hold' \in Holding \cup {None}
                /\ alive' \subseteq Procs /\ open' \subseteq Clients /\ timers' \subseteq Clients
                /\ made' \in Counts /\ toggles' \in Nat
BY DEF TypeOK, ReqState, GenState, Counts

LEMMA Nones == TypeOK => None \notin alive /\ None \notin Requests /\ None \notin Clients
                         /\ None \notin Procs /\ None \notin Gens
BY LaneAssumption DEF TypeOK

LEMMA EndedEffect ==
    ASSUME NEW s \in BrokerState, NEW c \in Clients \cup {None}, NEW p \in Procs \cup {None},
           None \notin alive
    PROVE  LET t == Ended(s, c, p)
               kept == p \in alive /\ s.deferred = None
               ended == c = None \/ c \in s.closed
           IN /\ t \in BrokerState /\ Marked(s, t)
              /\ t.client = s.client /\ t.process = s.process /\ t.startup = s.startup
              /\ t.publication = s.publication /\ t.unavailable = s.unavailable
              /\ ended => t.retired = s.retired /\ t.failed = s.failed
              /\ ~ended => t.retired = s.retired \cup {c} /\ t.failed = s.failed \cup {c}
              /\ t.closing = s.closing /\ t.closed = s.closed /\ t.users = s.users
              /\ t.reserved = s.reserved /\ t.fallback = s.fallback
              /\ t.close = s.close /\ t.targets = s.targets
              /\ t.deferred = IF kept THEN p ELSE s.deferred
              /\ t.teardown <=> \/ ~ended
                                \/ (s.teardown \/ kept) /\ ~Cleared(t)
              /\ t.tearing <=> s.tearing /\ ~(ended /\ Over(t))
<1> DEFINE u == RetainDeferred(s, p)
           ended == c = None \/ c \in s.closed
           kept == p \in alive /\ s.deferred = None
<1>1. /\ u \in BrokerState /\ Stable(s, u) /\ Marked(s, u)
      /\ u.deferred = IF kept THEN p ELSE s.deferred
      /\ u.teardown <=> s.teardown \/ kept
      /\ u.tearing = s.tearing
  BY RetainEffect
<1>2. Ended(s, c, p) = IF ended THEN Finalize(u) ELSE Failed(u, c)
  BY DEF Ended
<1> HIDE DEF u
<1>3. CASE ended
  <2> DEFINE t == Finalize(u)
  <2>1. /\ t \in BrokerState /\ Stable(u, t) /\ Marked(u, t) /\ t.deferred = u.deferred
        /\ t.teardown <=> u.teardown /\ ~Cleared(u)
        /\ t.tearing <=> u.tearing /\ ~Over(u)
    BY <1>1, FinalizeEffect
  <2> HIDE DEF t
  <2>2. (Cleared(t) <=> Cleared(u)) /\ (Over(t) <=> Over(u))
    BY <2>1 DEF Stable, Marked, Cleared, Over, Unresolved, Active, Quarantined
  <2>3. Marked(s, t)
    BY <1>1, <2>1 DEF Marked
  <2>4. Ended(s, c, p) = t
    BY <1>2, <1>3 DEF t
  <2> QED
    BY <1>1, <1>3, <2>1, <2>2, <2>3, <2>4 DEF Stable
<1>4. CASE ~ended
  <2>1. c \in Clients
    BY <1>4
  <2> DEFINE t == Failed(u, c)
  <2>2. /\ t \in BrokerState /\ Marked(u, t)
        /\ t.client = u.client /\ t.process = u.process /\ t.startup = u.startup
        /\ t.publication = u.publication /\ t.unavailable = u.unavailable
        /\ t.retired = u.retired \cup {c} /\ t.failed = u.failed \cup {c}
        /\ t.closing = u.closing /\ t.closed = u.closed /\ t.users = u.users
        /\ t.reserved = u.reserved /\ t.fallback = u.fallback
        /\ t.close = u.close /\ t.targets = u.targets
        /\ t.deferred = u.deferred /\ t.teardown = TRUE /\ t.tearing = u.tearing
    BY <1>1, <2>1, FailedEffect
  <2> HIDE DEF t
  <2>3. Marked(s, t)
    BY <1>1, <2>2 DEF Marked
  <2>4. Ended(s, c, p) = t
    BY <1>2, <1>4 DEF t
  <2> QED
    BY <1>1, <1>4, <2>2, <2>3, <2>4 DEF Stable
<1> QED
  BY <1>3, <1>4

\* What an operation does when what it waited for has ended.
LEMMA ContinueCases ==
    ASSUME NEW op, NEW r, NEW c, NEW p, NEW s, NEW q, Continue(op, r, c, p, s, q)
    PROVE  \/ /\ op = "check" /\ queue' = q
              /\ \/ st' = Ended(s, c, p) /\ req' = [req EXCEPT ![r].att = "decide"]
                    /\ p \notin alive
                 \/ st' = DropMarkers(Ended(s, c, p), {r}) /\ req' = [req EXCEPT ![r].att = "err"]
           \/ op = "adopt" /\ Fail(r, s, "abort", q)
           \/ /\ op = "cleanup"
              /\ \E ok \in BOOLEAN : CleanedUp(r, Ended(s, c, p), ok, q)
           \/ /\ op = "late"
              /\ \E ok \in BOOLEAN : \/ CleanedUp(r, Ended(s, c, p), ok, q)
                                     \/ CleanedUp(r, DropMarkers(Ended(s, c, p), {r}), ok, q)
           \/ op = "unlease" /\ st' = Ended(s, c, p) /\ Go(r, "done") /\ queue' = q
           \/ /\ op \notin {"check", "adopt", "cleanup", "late", "unlease"}
              /\ st' = Ended(s, c, p) /\ req' = req /\ queue' = q
<1> DEFINE closed == c = None \/ c \in s.closed
           ok == closed /\ p \notin alive
           s0 == RetainDeferred(s, p)
           s1 == IF closed THEN Finalize(s0) ELSE Failed(s0, c)
<1>1. s1 = Ended(s, c, p) /\ ok \in BOOLEAN
  BY DEF Ended
<1>2. CASE op = "check"
  BY <1>1, <1>2 DEF Continue, AttemptError
<1>3. CASE op = "adopt"
  BY <1>3 DEF Continue
<1>4. CASE op = "cleanup"
  <2>1. CleanedUp(r, s1, ok, q)
    BY <1>4 DEF Continue
  <2> QED
    BY <1>1, <1>4, <2>1
<1>5. CASE op = "late"
  <2>1. CleanedUp(r, IF c \in s.closing THEN s1 ELSE DropMarkers(s1, {r}), ok, q)
    BY <1>5 DEF Continue
  <2> QED
    BY <1>1, <1>5, <2>1
<1>6. CASE op = "unlease"
  BY <1>1, <1>6 DEF Continue
<1>7. CASE op \notin {"check", "adopt", "cleanup", "late", "unlease"}
  BY <1>1, <1>7 DEF Continue
<1> QED
  BY <1>2, <1>3, <1>4, <1>5, <1>6, <1>7

LEMMA GoType ==
    ASSUME req \in [Requests -> ReqState], NEW r \in Requests,
           NEW v \in {"idle", "waiting", "queued", "chrome", "gated", "connect", "search",
                      "closeWait", "legacyWait", "legacy", "done", "failed"},
           Go(r, v)
    PROVE  req' \in [Requests -> ReqState]
BY DEF Go, ReqState

LEMMA FailType ==
    ASSUME req \in [Requests -> ReqState], NEW r \in Requests, NEW s \in BrokerState,
           NEW e \in {"abort", "fence", "broker"}, NEW q \in Seq(Operation), Fail(r, s, e, q)
    PROVE  /\ req' \in [Requests -> ReqState] /\ st' \in BrokerState
           /\ queue' \in Seq(Operation)
<1> DEFINE f == [req[r] EXCEPT !.pc = "queued", !.err = e]
<1>0. f \in ReqState
  BY DEF ReqState
<1>1. req' \in [Requests -> ReqState]
  <2>1. req' = [req EXCEPT ![r] = f]
    BY DEF Fail
  <2> HIDE DEF f
  <2> QED
    BY <1>0, <2>1
<1>2. [s EXCEPT !.fenced = @ \cup {r}] \in BrokerState
  BY DEF BrokerState
<1>3. <<"cleanup", r>> \in Operation
  BY DEF Operation
<1>4. queue' = Append(q, <<"cleanup", r>>)
      /\ st' \in {s, [s EXCEPT !.fenced = @ \cup {r}]}
  BY DEF Fail
<1> QED
  BY <1>1, <1>2, <1>3, <1>4, AppendQ

LEMMA CleanedUpType ==
    ASSUME req \in [Requests -> ReqState], NEW r \in Requests, NEW s \in BrokerState,
           NEW ok \in BOOLEAN, NEW q \in Seq(Operation), CleanedUp(r, s, ok, q)
    PROVE  /\ req' \in [Requests -> ReqState] /\ st' \in BrokerState
           /\ queue' \in Seq(Operation)
<1> DEFINE e == IF ok \/ req[r].err = "abort" THEN req[r].err ELSE "fence"
           pc1 == IF r \in s.reserved THEN "queued"
                  ELSE IF e = "broker" THEN "legacyWait" ELSE "failed"
           cs == req[r].closeStarted \/ Unowned(r)
<1>1. /\ st' = s
      /\ req' = [req EXCEPT ![r].client = None, ![r].err = e, ![r].closeStarted = cs,
                            ![r].pc = pc1]
      /\ queue' = q \o (IF r \in s.reserved THEN <<<<"unreserve", r>>>> ELSE <<>>)
  BY DEF CleanedUp
<1>2. /\ e \in {"none", "abort", "fence", "broker"} /\ cs \in BOOLEAN
      /\ pc1 \in {"queued", "legacyWait", "failed"}
  BY DEF ReqState
<1> HIDE DEF e, pc1, cs
<1> DEFINE f == [req[r] EXCEPT !.client = None, !.err = e, !.closeStarted = cs, !.pc = pc1]
<1>3. req' \in [Requests -> ReqState]
  <2>1. f \in ReqState
    BY <1>2 DEF ReqState
  <2>2. req' = [req EXCEPT ![r] = f]
    BY <1>1
  <2> HIDE DEF f
  <2> QED
    BY <2>1, <2>2
<1>4. <<"unreserve", r>> \in Operation
  BY DEF Operation
<1> QED
  BY <1>1, <1>3, <1>4, AppendQ

LEMMA ContinueType ==
    ASSUME req \in [Requests -> ReqState], None \notin alive,
           NEW op, NEW r, op \in {"check", "adopt", "cleanup", "late", "unlease"} => r \in Requests,
           NEW c \in Clients \cup {None}, NEW p \in Procs \cup {None},
           NEW s \in BrokerState, NEW q \in Seq(Operation), Continue(op, r, c, p, s, q)
    PROVE  /\ req' \in [Requests -> ReqState] /\ st' \in BrokerState
           /\ queue' \in Seq(Operation)
<1> DEFINE t == Ended(s, c, p)
<1>1. t \in BrokerState /\ DropMarkers(t, {r}) \in BrokerState
  BY EndedEffect, DropEffect
<1> HIDE DEF t
<1>2. CASE /\ op = "check" /\ queue' = q
           /\ \/ st' = t /\ req' = [req EXCEPT ![r].att = "decide"]
              \/ st' = DropMarkers(t, {r}) /\ req' = [req EXCEPT ![r].att = "err"]
  <2>1. /\ [req EXCEPT ![r].att = "decide"] \in [Requests -> ReqState]
        /\ [req EXCEPT ![r].att = "err"] \in [Requests -> ReqState]
    BY <1>2 DEF ReqState
  <2> QED
    BY <1>1, <1>2, <2>1
<1>3. CASE op = "adopt" /\ Fail(r, s, "abort", q)
  BY <1>3, FailType
<1>4. CASE op = "cleanup" /\ \E ok \in BOOLEAN : CleanedUp(r, t, ok, q)
  BY <1>1, <1>4, CleanedUpType
<1>5. CASE /\ op = "late"
           /\ \E ok \in BOOLEAN : \/ CleanedUp(r, t, ok, q)
                                  \/ CleanedUp(r, DropMarkers(t, {r}), ok, q)
  BY <1>1, <1>5, CleanedUpType
<1>6. CASE op = "unlease" /\ st' = t /\ Go(r, "done") /\ queue' = q
  BY <1>1, <1>6, GoType
<1>7. CASE st' = t /\ req' = req /\ queue' = q
  BY <1>1, <1>7
<1> QED
  BY <1>2, <1>3, <1>4, <1>5, <1>6, <1>7, ContinueCases DEF t

Forgive(s, c) == [s EXCEPT !.retired = @ \ {c}, !.failed = @ \ {c}]

Shut(s, c) == [s EXCEPT !.closing = @ \cup {c}]

\* An operation closes a client: it goes on at once, or it waits.
LEMMA ClosingCases ==
    ASSUME NEW op, NEW r, NEW c, NEW p, NEW s, Closing(op, r, c, p, s)
    PROVE  LET u == RetainDeferred(Forgive(s, c), p)
           IN \/ /\ c = None \/ c \in s.closed
                 /\ p \notin alive /\ hold' = None
                 /\ Continue(op, r, c, p, u, Tail(queue))
              \/ /\ \/ st' = u /\ (c = None \/ c \in s.closed) /\ p \in alive
                    \/ st' = Shut(s, c) /\ c # None /\ c \notin s.closed
                 /\ req' = req /\ queue' = Tail(queue)
                 /\ hold' = [op |-> op, r |-> r, c |-> c, p |-> p]
<1> DEFINE known == c = None \/ c \in s.closed
           s1 == IF known THEN RetainDeferred(Forgive(s, c), p) ELSE Shut(s, c)
<1>1. IF known /\ p \notin alive
      THEN Continue(op, r, c, p, s1, Tail(queue)) /\ hold' = None
      ELSE /\ st' = s1 /\ req' = req /\ queue' = Tail(queue)
           /\ hold' = [op |-> op, r |-> r, c |-> c, p |-> p]
  BY DEF Closing, Forgive, Shut
<1>2. CASE known
  BY <1>1, <1>2
<1>3. CASE ~known
  BY <1>1, <1>3
<1> QED
  BY <1>2, <1>3

LEMMA ForgiveEffect ==
    ASSUME NEW s \in BrokerState, NEW c
    PROVE  LET u == Forgive(s, c)
           IN /\ u \in BrokerState /\ Marked(s, u)
              /\ u.client = s.client /\ u.process = s.process /\ u.startup = s.startup
              /\ u.publication = s.publication /\ u.unavailable = s.unavailable
              /\ u.retired = s.retired \ {c} /\ u.failed = s.failed \ {c}
              /\ u.closing = s.closing /\ u.closed = s.closed /\ u.users = s.users
              /\ u.reserved = s.reserved /\ u.fallback = s.fallback
              /\ u.close = s.close /\ u.targets = s.targets
              /\ u.deferred = s.deferred /\ u.teardown = s.teardown /\ u.tearing = s.tearing
BY DEF BrokerState, Marked, Forgive

LEMMA ShutEffect ==
    ASSUME NEW s \in BrokerState, NEW c \in Clients
    PROVE  LET u == Shut(s, c)
           IN /\ u \in BrokerState /\ Marked(s, u)
              /\ u.client = s.client /\ u.process = s.process /\ u.startup = s.startup
              /\ u.publication = s.publication /\ u.unavailable = s.unavailable
              /\ u.retired = s.retired /\ u.failed = s.failed
              /\ u.closing = s.closing \cup {c} /\ u.closed = s.closed /\ u.users = s.users
              /\ u.reserved = s.reserved /\ u.fallback = s.fallback
              /\ u.close = s.close /\ u.targets = s.targets
              /\ u.deferred = s.deferred /\ u.teardown = s.teardown /\ u.tearing = s.tearing
BY DEF BrokerState, Marked, Shut

LEMMA ClosingType ==
    ASSUME TypeOK, queue # <<>>,
           NEW op, NEW r,
           \/ op \in {"check", "adopt", "cleanup", "late", "unlease"} /\ r \in Requests
           \/ op \in {"exit", "unadopted"} /\ r = None,
           NEW c \in Clients \cup {None}, NEW p \in Procs \cup {None},
           NEW s \in BrokerState, Closing(op, r, c, p, s)
    PROVE  /\ req' \in [Requests -> ReqState] /\ st' \in BrokerState
           /\ queue' \in Seq(Operation) /\ hold' \in Holding \cup {None}
<1> DEFINE u == RetainDeferred(Forgive(s, c), p)
<1>1. None \notin alive /\ req \in [Requests -> ReqState] /\ Tail(queue) \in Seq(Operation)
  BY Nones, TypeParts
<1>2. u \in BrokerState
  BY <1>1, ForgiveEffect, RetainEffect
<1> HIDE DEF u
<1>3. CASE hold' = None /\ Continue(op, r, c, p, u, Tail(queue))
  BY <1>1, <1>2, <1>3, ContinueType
<1>4. CASE /\ st' = u \/ (st' = Shut(s, c) /\ c # None)
           /\ req' = req /\ queue' = Tail(queue)
           /\ hold' = [op |-> op, r |-> r, c |-> c, p |-> p]
  <2>1. c # None => Shut(s, c) \in BrokerState
    BY ShutEffect
  <2>2. [op |-> op, r |-> r, c |-> c, p |-> p] \in Holding
    BY DEF Holding
  <2> QED
    BY <1>1, <1>2, <1>4, <2>1, <2>2
<1> QED
  BY <1>3, <1>4, ClosingCases DEF u

LEMMA OthersType ==
    ASSUME TypeOK, UNCHANGED Others, st' \in BrokerState, req' \in [Requests -> ReqState],
           queue' \in Seq(Operation)
    PROVE  TypeOK'
BY TypeParts, TypePartsNext DEF Others

LEMMA RestType ==
    ASSUME TypeOK, UNCHANGED Rest, st' \in BrokerState, req' \in [Requests -> ReqState],
           queue' \in Seq(Operation), hold' \in Holding \cup {None}
    PROVE  TypeOK'
BY TypeParts, TypePartsNext DEF Rest

LEMMA TurnType ==
    ASSUME TypeOK, NEW op, NEW x, Turn(op, x)
    PROVE  /\ queue # <<>> /\ queue \in Seq(Operation) /\ Head(queue) = <<op, x>>
           /\ Tail(queue) \in Seq(Operation) /\ hold = None
BY TypeParts, TailQ DEF Turn

LEMMA Entries ==
    /\ \A r \in Requests : \A o \in {"reserve", "gate", "adopt", "unreserve", "unlease",
                                    "cleanup", "legacy", "check", "settle", "lift"} :
           <<o, r>> \in Operation
    /\ \A p \in Procs : <<"exit", p>> \in Operation
    /\ \A c \in Clients : <<"unadopted", c>> \in Operation
    /\ <<"prepare", None>> \in Operation /\ <<"detach", None>> \in Operation
BY DEF Operation

\* The actions of a request that leave the profile alone but for one field.
LEMMA RequestType1 ==
    ASSUME TypeOK, NEW r \in Requests,
           \/ Start(r) \/ Reserve(r) \/ Reserved(r) \/ EnsureChrome(r) \/ Gate(r)
           \/ Connect(r) \/ ConnectFails(r) \/ Unreserve(r) \/ Search(r) \/ Abandon(r)
    PROVE  TypeOK'
<1>1. /\ st \in BrokerState /\ req \in [Requests -> ReqState] /\ queue \in Seq(Operation)
  BY TypeParts
<1>2. CASE Start(r)
  BY <1>1, <1>2, GoType, OthersType DEF Start
<1>3. CASE Reserve(r)
  BY <1>1, <1>3, GoType, OthersType, AppendQ, Entries DEF Reserve, Enqueue
<1>4. CASE Reserved(r)
  <2>1. [st EXCEPT !.reserved = @ \cup {r}] \in BrokerState
    BY <1>1 DEF BrokerState
  <2>2. Tail(queue) \in Seq(Operation)
    BY <1>4, TurnType DEF Reserved
  <2> QED
    BY <1>1, <1>4, <2>1, <2>2, GoType, FailType, OthersType DEF Reserved
<1>5. CASE EnsureChrome(r)
  <2>1. CASE Fail(r, st, "broker", queue)
    BY <1>1, <1>5, <2>1, FailType, OthersType DEF EnsureChrome
  <2>2. CASE Go(r, "queued") /\ Enqueue("gate", r) /\ st' = st
    <3>1. queue' \in Seq(Operation)
      BY <1>1, <2>2, AppendQ, Entries DEF Enqueue
    <3> QED
      BY <1>1, <1>5, <2>2, <3>1, GoType, OthersType DEF EnsureChrome
  <2> QED
    BY <1>5, <2>1, <2>2 DEF EnsureChrome
<1>6. CASE Gate(r)
  <2>1. Tail(queue) \in Seq(Operation)
    BY <1>6, TurnType DEF Gate
  <2> QED
    BY <1>1, <1>6, <2>1, GoType, FailType, OthersType DEF Gate
<1>7. CASE Connect(r)
  <2>1. [st EXCEPT !.pending = @ \cup {r},
                   !.fenced = IF st.tearing THEN @ \cup {r} ELSE @] \in BrokerState
    BY <1>1 DEF BrokerState
  <2>2. [req EXCEPT ![r].pc = "connect", ![r].att = "waiting"] \in [Requests -> ReqState]
    <3> DEFINE f == [req[r] EXCEPT !.pc = "connect", !.att = "waiting"]
    <3>1. f \in ReqState
      BY <1>1 DEF ReqState
    <3>2. [req EXCEPT ![r].pc = "connect", ![r].att = "waiting"] = [req EXCEPT ![r] = f]
      OBVIOUS
    <3> HIDE DEF f
    <3> QED
      BY <1>1, <3>1, <3>2
  <2> QED
    BY <1>1, <1>7, <2>1, <2>2, OthersType DEF Connect
<1>8. CASE ConnectFails(r)
  BY <1>1, <1>8, FailType, OthersType DEF ConnectFails
<1>9. CASE Unreserve(r)
  <2>1. [st EXCEPT !.reserved = @ \ {r}] \in BrokerState
    BY <1>1 DEF BrokerState
  <2>2. Tail(queue) \in Seq(Operation)
    BY <1>9, TurnType DEF Unreserve
  <2>3. st' \in BrokerState
    BY <1>9, <2>1, MaybeFinishEffect DEF Unreserve
  <2>4. req' \in [Requests -> ReqState]
    BY <1>1, <1>9, GoType DEF Unreserve
  <2> QED
    BY <1>9, <2>2, <2>3, <2>4, OthersType DEF Unreserve
<1>10. CASE Search(r)
  <2>1. CASE \E e \in {"fence", "broker"} : Fail(r, st, e, queue)
    BY <1>1, <1>10, <2>1, FailType, OthersType DEF Search
  <2>2. CASE Go(r, "queued") /\ Enqueue("unlease", r) /\ st' = st
    <3>1. queue' \in Seq(Operation)
      BY <1>1, <2>2, AppendQ, Entries DEF Enqueue
    <3> QED
      BY <1>1, <1>10, <2>2, <3>1, GoType, OthersType DEF Search
  <2> QED
    BY <1>10, <2>1, <2>2 DEF Search
<1>11. CASE Abandon(r)
  BY <1>1, <1>11, FailType, OthersType DEF Abandon
<1> QED
  BY <1>2, <1>3, <1>4, <1>5, <1>6, <1>7, <1>8, <1>9, <1>10, <1>11

LEMMA RequestType2 ==
    ASSUME TypeOK, StageInv, NEW r \in Requests,
           \/ LegacyWait(r) \/ LegacyReserve(r) \/ LegacySettles(r) \/ LegacyLifts(r)
           \/ LegacyAbandoned(r) \/ CloseStart(r) \/ CloseAbandoned(r)
    PROVE  TypeOK'
<1>1. /\ st \in BrokerState /\ req \in [Requests -> ReqState] /\ queue \in Seq(Operation)
  BY TypeParts
<1>2. CASE LegacyWait(r)
  BY <1>1, <1>2, GoType, OthersType, AppendQ, Entries DEF LegacyWait, Enqueue
<1>3. CASE LegacyReserve(r)
  <2>1. [st EXCEPT !.fallback = r] \in BrokerState
    BY <1>1 DEF BrokerState
  <2>2. Tail(queue) \in Seq(Operation)
    BY <1>3, TurnType DEF LegacyReserve
  <2> QED
    BY <1>1, <1>3, <2>1, <2>2, GoType, OthersType DEF LegacyReserve
<1>4. CASE LegacySettles(r)
  BY <1>1, <1>4, OthersType, AppendQ, Entries DEF LegacySettles, Enqueue
<1>5. CASE LegacyLifts(r)
  <2>1. [st EXCEPT !.fallback = None] \in BrokerState
    BY <1>1 DEF BrokerState
  <2>2. Tail(queue) \in Seq(Operation)
    BY <1>5, TurnType DEF LegacyLifts
  <2> QED
    BY <1>1, <1>5, <2>1, <2>2, GoType, OthersType DEF LegacyLifts
<1>6. CASE LegacyAbandoned(r)
  BY <1>1, <1>6, GoType, OthersType DEF LegacyAbandoned
<1>7. CASE CloseStart(r)
  <2>1. [st EXCEPT !.tearing = TRUE, !.fenced = @ \cup st.pending, !.close = "prepare"]
           \in BrokerState
    BY <1>1 DEF BrokerState
  <2>2. queue' \in Seq(Operation)
    <3>1. queue' = queue \/ queue' = Append(queue, <<"prepare", None>>)
      BY <1>7 DEF CloseStart, Enqueue
    <3> QED
      BY <1>1, <3>1, AppendQ, Entries
  <2>3. st' \in BrokerState
    BY <1>1, <1>7, <2>1 DEF CloseStart
  <2> QED
    BY <1>1, <1>7, <2>2, <2>3, GoType, OthersType DEF CloseStart
<1>8. CASE CloseAbandoned(r)
  BY <1>1, <1>8, GoType, OthersType DEF CloseAbandoned
<1> QED
  BY <1>2, <1>3, <1>4, <1>5, <1>6, <1>7, <1>8

LEMMA CandType ==
    ASSUME TypeOK, StageInv, NEW r \in Requests
    PROVE  /\ req[r] \in ReqState
           /\ req[r].att \in {"ok", "settled"} => req[r].cand \in Clients
           /\ In(queue, {"adopt"}, r) => req[r].att = "settled"
           /\ Unowned(r) => req[r].cand \in Clients
           /\ req[r].client \in Clients \cup {None}
           /\ In(queue, {"unlease"}, r) => req[r].client \in Clients
<1>1. req[r] \in ReqState
  BY TypeParts
<1>2. req[r].cand \in Clients \cup {None} /\ req[r].client \in Clients \cup {None}
  BY <1>1 DEF ReqState
<1>3. In(queue, {"adopt"}, r) => In(queue, {"adopt", "unlease"}, r)
  BY DEF In
<1>4. /\ req[r].att \in {"ok", "settled"} => req[r].cand # None
      /\ In(queue, {"adopt", "unlease"}, r) => req[r].att = "settled"
      /\ In(queue, {"unlease"}, r) => req[r].client # None
  BY DEF StageInv, StageOf
<1> QED
  BY <1>1, <1>2, <1>3, <1>4 DEF Unowned

\* A lease given back, and what the last user makes of it.
Drop(s, c, r) == [s EXCEPT !.users[c] = @ \ {r}]

LEMMA DropUserEffect ==
    ASSUME NEW s \in BrokerState, NEW c, NEW r
    PROVE  LET u == Drop(s, c, r)
           IN /\ u \in BrokerState /\ Marked(s, u)
              /\ u.client = s.client /\ u.process = s.process /\ u.startup = s.startup
              /\ u.publication = s.publication /\ u.unavailable = s.unavailable
              /\ u.retired = s.retired /\ u.failed = s.failed
              /\ u.closing = s.closing /\ u.closed = s.closed
              /\ u.users \in [Clients -> SUBSET Requests]
              /\ \A d \in Clients : d # c => u.users[d] = s.users[d]
              /\ c \in Clients => u.users[c] = s.users[c] \ {r}
              /\ u.reserved = s.reserved /\ u.fallback = s.fallback
              /\ u.close = s.close /\ u.targets = s.targets
              /\ u.deferred = s.deferred /\ u.teardown = s.teardown /\ u.tearing = s.tearing
BY DEF BrokerState, Marked, Drop

\* The profile without its client, as ensureGoogleBroker() leaves it.
Unset(s) == [s EXCEPT !.client = None, !.unavailable = TRUE]

Retire(s, c) == [s EXCEPT !.retired = @ \cup {c}, !.teardown = TRUE]

LEMMA RetireType ==
    ASSUME NEW s \in BrokerState, NEW c \in Clients
    PROVE  /\ Retire(s, c) \in BrokerState /\ Unset(s) \in BrokerState
           /\ Retire(Unset(s), c) \in BrokerState
           /\ CloseLate(s, c) = Retire(s, c)
<1>1. Unset(s) \in BrokerState
  BY DEF Unset, BrokerState
<1>2. \A u \in BrokerState : Retire(u, c) \in BrokerState
  BY DEF Retire, BrokerState
<1> QED
  BY <1>1, <1>2 DEF CloseLate, Retire

LEMMA AttemptErrorType ==
    ASSUME req \in [Requests -> ReqState], NEW r \in Requests, NEW s \in BrokerState,
           AttemptError(r, s)
    PROVE  st' \in BrokerState /\ req' \in [Requests -> ReqState]
BY DropEffect DEF AttemptError, ReqState

LEMMA AttemptType ==
    ASSUME TypeOK, StageInv, JoinInv, NEW r \in Requests, Attempt(r)
    PROVE  TypeOK'
<1>1. /\ st \in BrokerState /\ req \in [Requests -> ReqState] /\ queue \in Seq(Operation)
      /\ gen \in [Gens -> GenState] /\ made \in Counts /\ None \notin alive
      /\ st.client \in Clients \cup {None} /\ st.startup \in Gens \cup {None}
  BY TypeParts, Nones DEF BrokerState
<1>2. CASE AttemptWait(r)
  <2>1. [req EXCEPT ![r].att = "queued"] \in [Requests -> ReqState]
    BY <1>1 DEF ReqState
  <2>2. CASE Clear /\ st' = st /\ Enqueue("check", r) /\ req' = [req EXCEPT ![r].att = "queued"]
    <3>1. queue' \in Seq(Operation)
      BY <1>1, <2>2, AppendQ, Entries DEF Enqueue
    <3> QED
      BY <1>1, <1>2, <2>1, <2>2, <3>1, OthersType DEF AttemptWait
  <2>3. CASE AttemptError(r, st) /\ queue' = queue
    BY <1>1, <1>2, <2>3, AttemptErrorType, OthersType DEF AttemptWait
  <2> QED
    BY <1>2, <2>2, <2>3 DEF AttemptWait
<1>3. CASE AttemptCheck(r)
  <2> DEFINE c == st.client
  <2>0. /\ Tail(queue) \in Seq(Operation) /\ queue # <<>> /\ UNCHANGED Rest
    BY <1>3, TurnType DEF AttemptCheck
  <2>1. [req EXCEPT ![r].att = "decide"] \in [Requests -> ReqState]
    BY <1>1 DEF ReqState
  <2>2. CASE AttemptError(r, st) /\ queue' = Tail(queue) /\ hold' = None
    BY <1>1, <2>0, <2>2, AttemptErrorType, RestType
  <2>3. CASE /\ st' = st /\ req' = [req EXCEPT ![r].att = "decide"]
             /\ queue' = Tail(queue) /\ hold' = None
    BY <1>1, <2>0, <2>1, <2>3, RestType
  <2>4. CASE /\ c \in Clients /\ st' = Retire(Unset(st), c)
             /\ req' = [req EXCEPT ![r].att = "decide"]
             /\ queue' = Tail(queue) /\ hold' = None
    BY <1>1, <2>0, <2>1, <2>4, RetireType, RestType
  <2>5. CASE c \in Clients /\ Closing("check", r, c, None, Unset(st))
    <3>1. Unset(st) \in BrokerState
      BY <1>1, <2>5, RetireType
    <3>2. /\ req' \in [Requests -> ReqState] /\ st' \in BrokerState
          /\ queue' \in Seq(Operation) /\ hold' \in Holding \cup {None}
      BY <2>0, <2>5, <3>1, ClosingType
    <3> QED
      BY <2>0, <3>2, RestType
  <2> QED
    BY <1>1, <1>3, <2>2, <2>3, <2>4, <2>5 DEF AttemptCheck, Retire, Unset
<1>4. CASE AttemptDecide(r)
  <2>0. /\ UNCHANGED <<queue, hold, alive, open, timers, toggles>>
    BY <1>4 DEF AttemptDecide
  <2>1. \A a \in {"deferred", "joined"} : \A g \in Gens \cup {None} :
           [req EXCEPT ![r].att = a, ![r].gen = g] \in [Requests -> ReqState]
    <3> SUFFICES ASSUME NEW a \in {"deferred", "joined"}, NEW g \in Gens \cup {None}
                 PROVE  [req EXCEPT ![r].att = a, ![r].gen = g] \in [Requests -> ReqState]
      OBVIOUS
    <3> DEFINE f == [req[r] EXCEPT !.att = a, !.gen = g]
    <3>1. f \in ReqState
      BY <1>1 DEF ReqState
    <3>2. [req EXCEPT ![r].att = a, ![r].gen = g] = [req EXCEPT ![r] = f]
      OBVIOUS
    <3> HIDE DEF f
    <3> QED
      BY <1>1, <3>1, <3>2
  <2>2. CASE /\ st.client \in open
             /\ req' = [req EXCEPT ![r].att = "ok", ![r].cand = st.client]
             /\ UNCHANGED <<st, gen, made>>
    <3> DEFINE f == [req[r] EXCEPT !.att = "ok", !.cand = st.client]
    <3>1. f \in ReqState
      BY <1>1 DEF ReqState
    <3>2. req' = [req EXCEPT ![r] = f]
      BY <2>2
    <3> HIDE DEF f
    <3>3. req' \in [Requests -> ReqState]
      BY <1>1, <3>1, <3>2
    <3> QED
      BY <2>0, <2>2, <3>3, TypeParts, TypePartsNext
  <2>3. CASE AttemptError(r, st) /\ UNCHANGED <<gen, made>>
    BY <1>1, <2>0, <2>3, AttemptErrorType, TypeParts, TypePartsNext
  <2>4. CASE /\ \/ req' = [req EXCEPT ![r].att = "deferred", ![r].gen = None]
                \/ req' = [req EXCEPT ![r].att = "joined", ![r].gen = st.startup]
             /\ UNCHANGED <<st, gen, made>>
    <3>1. req' \in [Requests -> ReqState]
      <4>1. [req EXCEPT ![r].att = "deferred", ![r].gen = None] \in [Requests -> ReqState]
        BY <2>1
      <4>2. [req EXCEPT ![r].att = "joined", ![r].gen = st.startup] \in [Requests -> ReqState]
        BY <1>1, <2>1
      <4> QED
        BY <2>4, <4>1, <4>2
    <3> QED
      BY <2>0, <2>4, <3>1, TypeParts, TypePartsNext
  <2>5. ASSUME NEW g \in Gens, g = made.gen + 1, made' = [made EXCEPT !.gen = g],
               gen' = [gen EXCEPT ![g].pc = "connect"], st' = [st EXCEPT !.startup = g],
               req' = [req EXCEPT ![r].att = "joined", ![r].gen = g]
        PROVE  TypeOK'
    <3>1. made' \in Counts
      BY <1>1, <2>5, LaneAssumption DEF Counts
    <3>2. gen' \in [Gens -> GenState]
      BY <1>1, <2>5 DEF GenState
    <3>3. st' \in BrokerState
      BY <1>1, <2>5 DEF BrokerState
    <3>4. req' \in [Requests -> ReqState]
      BY <2>1, <2>5
    <3> QED
      BY <2>0, <3>1, <3>2, <3>3, <3>4, TypeParts, TypePartsNext
  <2> QED
    BY <1>4, <2>2, <2>3, <2>4, <2>5 DEF AttemptDecide
<1>5. CASE AttemptLeaves(r)
  <2> DEFINE g == req[r].gen
             last == Joined(g) = {r} /\ ~gen[g].cancelled
             s == IF last THEN Cancel(st, g) ELSE st
  <2>0. /\ AttemptError(r, s)
        /\ gen' = IF last THEN [gen EXCEPT ![g].cancelled = TRUE] ELSE gen
        /\ UNCHANGED <<queue, hold, alive, open, timers, made, toggles>>
    BY <1>5 DEF AttemptLeaves
  <2>1. gen' \in [Gens -> GenState]
    BY <1>1, <2>0 DEF GenState
  <2>2. Cancel(st, g) \in BrokerState
    <3>1. g \in Gens \cup {None} /\ g # None
      BY <1>1, <1>5 DEF AttemptLeaves, JoinInv, ReqState
    <3>2. gen[g].proc \in Procs \cup {None}
      BY <1>1, <3>1 DEF GenState
    <3> QED
      BY <1>1, <3>1, <3>2, CancelEffect
  <2> HIDE DEF last
  <2>3. s \in BrokerState
    BY <1>1, <2>2
  <2> QED
    BY <1>1, <2>0, <2>1, <2>3, AttemptErrorType, TypeParts, TypePartsNext
<1>6. CASE AttemptConnects(r)
  <2> DEFINE v == IF req[r].pc = "connect" THEN "queued" ELSE req[r].pc
             f == [req[r] EXCEPT !.att = "settled", !.pc = v]
             q == Append(queue, <<"settle", r>>)
  <2>1. f \in ReqState
    BY <1>1 DEF ReqState
  <2>2. req' = [req EXCEPT ![r] = f]
    BY <1>6 DEF AttemptConnects
  <2> HIDE DEF f
  <2>3. req' \in [Requests -> ReqState]
    BY <1>1, <2>1, <2>2
  <2>4. <<"settle", r>> \in Operation /\ <<"adopt", r>> \in Operation
    BY Entries
  <2>5. q \in Seq(Operation) /\ queue \o <<<<"settle", r>>>> = q
    BY <1>1, <2>4, AppendQ
  <2>6. queue' = q \o <<<<"adopt", r>>>> \/ queue' = q \o <<>>
    BY <1>6, <2>5 DEF AttemptConnects
  <2> HIDE DEF q
  <2>7. q \o <<<<"adopt", r>>>> \in Seq(Operation) /\ q \o <<>> \in Seq(Operation)
    <3>1. q \o <<<<"adopt", r>>>> = Append(q, <<"adopt", r>>)
      BY <2>4, <2>5, AppendQ
    <3> QED
      BY <2>4, <2>5, <3>1, AppendQ
  <2> QED
    BY <1>1, <1>6, <2>3, <2>6, <2>7, OthersType DEF AttemptConnects
<1>7. CASE AttemptSettles(r)
  <2>1. [st EXCEPT !.pending = @ \ {r}] \in BrokerState
    BY <1>1 DEF BrokerState
  <2>2. st' \in BrokerState
    BY <1>1, <1>7, <2>1, FinalizeEffect DEF AttemptSettles
  <2>3. Tail(queue) \in Seq(Operation)
    BY <1>7, TurnType DEF AttemptSettles
  <2> QED
    BY <1>1, <1>7, <2>2, <2>3, OthersType DEF AttemptSettles
<1> QED
  BY <1>2, <1>3, <1>4, <1>5, <1>6, <1>7 DEF Attempt

LEMMA ClosersType ==
    ASSUME TypeOK, StageInv, NEW r \in Requests, Adopt(r) \/ ReleaseLease(r) \/ Cleanup(r)
    PROVE  TypeOK'
<1>1. /\ st \in BrokerState /\ req \in [Requests -> ReqState] /\ None \notin alive
  BY TypeParts, Nones
<1>2. /\ queue # <<>> /\ Tail(queue) \in Seq(Operation) /\ hold = None /\ UNCHANGED Rest
      /\ Head(queue) \in {<<"adopt", r>>, <<"unlease", r>>, <<"cleanup", r>>}
  BY TurnType DEF Adopt, ReleaseLease, Cleanup
<1>3. \A o : Head(queue) = <<o, r>> => In(queue, {o}, r)
  BY <1>2, TypeParts, TailQ
<1>4. SUFFICES /\ req' \in [Requests -> ReqState] /\ st' \in BrokerState
               /\ queue' \in Seq(Operation) /\ hold' \in Holding \cup {None}
  BY <1>2, RestType
<1>5. CASE Adopt(r)
  <2> DEFINE c == req[r].cand
             s1 == [st EXCEPT !.users[c] = @ \cup {r}, !.unavailable = FALSE, !.closed = @ \ {c},
                              !.pending = @ \ {r}, !.fenced = @ \ {r}]
             s2 == [Finalize(s1) EXCEPT !.publication = IF @ = c THEN None ELSE @]
  <2>1. c \in Clients
    <3>1. Head(queue) = <<"adopt", r>>
      BY <1>5 DEF Adopt, Turn
    <3> QED
      BY <1>3, <3>1, CandType
  <2>2. CASE \E e \in {"abort", "fence", "broker"} : Fail(r, st, e, Tail(queue)) /\ hold' = None
    BY <1>1, <1>2, <2>2, FailType
  <2>3. CASE Closing("adopt", r, c, None, [st EXCEPT !.retired = @ \cup {c}])
    <3>1. [st EXCEPT !.retired = @ \cup {c}] \in BrokerState
      BY <1>1, <2>1 DEF BrokerState
    <3> QED
      BY <1>2, <2>1, <2>3, <3>1, ClosingType
  <2>4. CASE /\ st' = s2
             /\ req' = [req EXCEPT ![r].client = c, ![r].adopted = TRUE]
             /\ queue' = Append(Tail(queue), <<"unreserve", r>>)
             /\ hold' = None
    <3>1. s1 \in BrokerState
      BY <1>1, <2>1 DEF BrokerState
    <3> HIDE DEF s1
    <3>2. Finalize(s1) \in BrokerState
      BY <3>1, FinalizeEffect
    <3>3. s2 \in BrokerState
      BY <3>2 DEF BrokerState
    <3> DEFINE f == [req[r] EXCEPT !.client = c, !.adopted = TRUE]
    <3>4. f \in ReqState
      BY <1>1, <2>1 DEF ReqState
    <3>5. req' = [req EXCEPT ![r] = f]
      BY <2>4
    <3> HIDE DEF f, s2
    <3>6. req' \in [Requests -> ReqState]
      BY <1>1, <3>4, <3>5
    <3>7. queue' \in Seq(Operation)
      BY <1>2, <2>4, AppendQ, Entries
    <3> QED
      BY <2>4, <3>3, <3>6, <3>7
  <2> QED
    BY <1>5, <2>2, <2>3, <2>4 DEF Adopt
<1>6. CASE ReleaseLease(r)
  <2> DEFINE c == req[r].client
             s1 == [st EXCEPT !.users[c] = @ \ {r}]
             s2 == [s1 EXCEPT !.retired = @ \ {c}, !.client = IF @ = c THEN None ELSE @]
  <2>1. c \in Clients
    <3>1. Head(queue) = <<"unlease", r>>
      BY <1>6 DEF ReleaseLease, Turn
    <3> QED
      BY <1>3, <3>1, CandType
  <2>2. s1 \in BrokerState
    BY <1>1, DropUserEffect DEF Drop
  <2> HIDE DEF s1
  <2>3. s2 \in BrokerState
    BY <2>2 DEF BrokerState
  <2>4. /\ st.deferred \in Procs \cup {None}
        /\ Child(st) \in Procs \cup {None} /\ Detach(s1) \in BrokerState
    BY <1>1, <2>2, DetachEffect DEF BrokerState
  <2> HIDE DEF s2
  <2>5. CASE Closing("unlease", r, c, st.deferred, s2)
    BY <1>2, <2>1, <2>3, <2>4, <2>5, ClosingType
  <2>6. CASE Closing("unlease", r, c, Child(st), Detach(s1))
    BY <1>2, <2>1, <2>4, <2>6, ClosingType
  <2>7. CASE Continue("unlease", r, None, None, s1, Tail(queue)) /\ hold' = None
    BY <1>1, <1>2, <2>2, <2>7, ContinueType
  <2> QED
    BY <1>6, <2>5, <2>6, <2>7 DEF ReleaseLease, s1, s2
<1>7. CASE Cleanup(r)
  <2> DEFINE c == req[r].client
             cand == req[r].cand
             s1 == [st EXCEPT !.users[c] = @ \ {r}]
             s2 == CloseLate(s1, c)
             s3 == [s2 EXCEPT !.retired = @ \ {c}, !.deferred = None]
  <2>1. c \in Clients \cup {None} /\ (Unowned(r) => cand \in Clients)
    BY CandType
  <2>2. s1 \in BrokerState
    BY <1>1, DropUserEffect DEF Drop
  <2> HIDE DEF s1
  <2>3. c \in Clients => s2 \in BrokerState
    BY <2>2, RetireType
  <2> HIDE DEF s2
  <2>4. c \in Clients => s3 \in BrokerState
    BY <2>3 DEF BrokerState
  <2>5. /\ st.deferred \in Procs \cup {None}
        /\ Child(st) \in Procs \cup {None}
        /\ c \in Clients => Detach(s2) \in BrokerState
    BY <1>1, <2>3, DetachEffect DEF BrokerState
  <2> HIDE DEF s3
  <2>6. CASE c # None /\ CleanedUp(r, s1, FALSE, Tail(queue)) /\ hold' = None
    BY <1>1, <1>2, <2>2, <2>6, CleanedUpType
  <2>7. CASE c # None /\ Closing("cleanup", r, c, Child(st), Detach(s2))
    BY <1>2, <2>1, <2>5, <2>7, ClosingType
  <2>8. CASE c # None /\ Closing("cleanup", r, c, st.deferred, s3)
    BY <1>2, <2>1, <2>4, <2>5, <2>8, ClosingType
  <2>9. CASE CleanedUp(r, st, TRUE, Tail(queue)) /\ hold' = None
    BY <1>1, <1>2, <2>9, CleanedUpType
  <2>10. CASE CleanedUp(r, DropMarkers(st, {r}), TRUE, Tail(queue)) /\ hold' = None
    BY <1>1, <1>2, <2>10, DropEffect, CleanedUpType
  <2>11. CASE Unowned(r) /\ Closing("late", r, cand, None, CloseLate(st, cand))
    <3>1. CloseLate(st, cand) \in BrokerState
      BY <1>1, <2>1, <2>11, RetireType
    <3> QED
      BY <1>2, <2>1, <2>11, <3>1, ClosingType
  <2> QED
    BY <1>7, <2>6, <2>7, <2>8, <2>9, <2>10, <2>11 DEF Cleanup, s1, s2, s3
<1> QED
  BY <1>5, <1>6, <1>7

LEMMA StartupType ==
    ASSUME TypeOK, NEW g \in Gens,
           StartupConnect(g) \/ StartupRefused(g) \/ StartupSpawn(g) \/ StartupFail(g)
    PROVE  TypeOK'
<1>1. /\ st \in BrokerState /\ req \in [Requests -> ReqState] /\ queue \in Seq(Operation)
      /\ gen \in [Gens -> GenState] /\ made \in Counts /\ None \notin alive
      /\ gen[g].proc \in Procs \cup {None}
  BY TypeParts, Nones DEF GenState
<1>2. \A v \in {"connect", "spawn", "done"} : [gen EXCEPT ![g].pc = v] \in [Gens -> GenState]
  BY <1>1 DEF GenState
<1>3. CASE StartupConnect(g)
  <2> DEFINE c == made.client + 1
  <2>1. /\ c \in Clients /\ made' = [made EXCEPT !.client = c] /\ open' = open \cup {c}
        /\ UNCHANGED <<queue, hold, alive, toggles>>
    BY <1>3 DEF StartupConnect
  <2>2. made' \in Counts /\ open' \subseteq Clients
    BY <1>1, <2>1, LaneAssumption, TypeParts DEF Counts
  <2>3. CASE /\ st' = [st EXCEPT !.retired = @ \cup {c}, !.closing = @ \cup {c}]
             /\ gen' = [gen EXCEPT ![g].pc = "spawn"]
             /\ UNCHANGED <<req, timers>>
    <3>1. st' \in BrokerState
      BY <1>1, <2>1, <2>3 DEF BrokerState
    <3> QED
      BY <1>2, <2>1, <2>2, <2>3, <3>1, TypeParts, TypePartsNext
  <2>4. CASE /\ st' = [st EXCEPT !.client = c, !.publication = c, !.startup = None]
             /\ gen' = [gen EXCEPT ![g].pc = "done"]
             /\ req' = [r \in Requests |-> IF r \in Joined(g)
                           THEN [req[r] EXCEPT !.att = "ok", !.cand = c] ELSE req[r]]
             /\ timers' = timers \cup {c}
    <3>1. st' \in BrokerState
      BY <1>1, <2>1, <2>4 DEF BrokerState
    <3>2. \A r \in Requests : [req[r] EXCEPT !.att = "ok", !.cand = c] \in ReqState
      BY <1>1, <2>1 DEF ReqState
    <3>3. req' \in [Requests -> ReqState]
      BY <1>1, <2>4, <3>2
    <3>4. timers' \subseteq Clients
      BY <2>1, <2>4, TypeParts
    <3> QED
      BY <1>2, <2>1, <2>2, <2>4, <3>1, <3>3, <3>4, TypeParts, TypePartsNext
  <2> QED
    BY <1>3, <2>3, <2>4 DEF StartupConnect
<1>4. CASE StartupRefused(g)
  BY <1>2, <1>4, TypeParts, TypePartsNext DEF StartupRefused
<1>5. CASE StartupSpawn(g)
  <2> DEFINE p == made.proc + 1
  <2>0. UNCHANGED <<req, queue, hold, open, timers, toggles>>
    BY <1>5 DEF StartupSpawn
  <2>1. CASE gen' = [gen EXCEPT ![g].pc = "connect"] /\ UNCHANGED <<st, alive, made>>
    BY <1>2, <2>0, <2>1, TypeParts, TypePartsNext
  <2>2. CASE /\ p \in Procs /\ made' = [made EXCEPT !.proc = p]
             /\ st' = [st EXCEPT !.process = p, !.unavailable = FALSE]
             /\ gen' = [gen EXCEPT ![g].pc = "connect", ![g].proc = p]
             /\ alive' = alive \cup {p}
    <3>1. st' \in BrokerState
      BY <1>1, <2>2 DEF BrokerState
    <3>2. gen' \in [Gens -> GenState]
      <4> DEFINE f == [gen[g] EXCEPT !.pc = "connect", !.proc = p]
      <4>1. f \in GenState
        BY <1>1, <2>2 DEF GenState
      <4>2. gen' = [gen EXCEPT ![g] = f]
        BY <2>2
      <4> HIDE DEF f
      <4> QED
        BY <1>1, <4>1, <4>2
    <3>3. made' \in Counts /\ alive' \subseteq Procs
      BY <1>1, <2>2, LaneAssumption, TypeParts DEF Counts
    <3> QED
      BY <2>0, <3>1, <3>2, <3>3, TypeParts, TypePartsNext
  <2> QED
    BY <1>5, <2>1, <2>2 DEF StartupSpawn
<1>6. CASE StartupFail(g)
  <2> DEFINE s0 == [st EXCEPT !.startup = IF @ = g THEN None ELSE @]
             s1 == TerminateOwn(s0, g)
  <2>1. s0 \in BrokerState
    BY <1>1 DEF BrokerState
  <2> HIDE DEF s0
  <2>2. s1 \in BrokerState
    BY <1>1, <2>1, TerminateEffect
  <2> HIDE DEF s1
  <2>3. st' \in BrokerState
    <3>1. st' = s1 \/ st' = DropMarkers(s1, Joined(g))
      BY <1>6 DEF StartupFail, s1, s0
    <3> QED
      BY <2>2, <3>1, DropEffect
  <2>4. req' \in [Requests -> ReqState]
    <3>1. \A r \in Requests : [req[r] EXCEPT !.att = "err"] \in ReqState
      BY <1>1 DEF ReqState
    <3> QED
      BY <1>1, <1>6, <3>1 DEF StartupFail
  <2> QED
    BY <1>2, <1>6, <2>3, <2>4, TypeParts, TypePartsNext DEF StartupFail
<1> QED
  BY <1>3, <1>4, <1>5, <1>6

LEMMA ProcType ==
    ASSUME TypeOK, NEW p \in Procs, ProcExit(p) \/ ProcEvent(p)
    PROVE  TypeOK'
<1>1. /\ st \in BrokerState /\ req \in [Requests -> ReqState] /\ queue \in Seq(Operation)
      /\ None \notin alive
  BY TypeParts, Nones
<1>2. CASE ProcExit(p)
  <2>1. [st EXCEPT !.deferred = None] \in BrokerState
    BY <1>1 DEF BrokerState
  <2>2. st' \in BrokerState
    BY <1>1, <1>2, <2>1, FinalizeEffect DEF ProcExit
  <2>3. queue' \in Seq(Operation)
    BY <1>1, <1>2, AppendQ, Entries DEF ProcExit, Enqueue
  <2> QED
    BY <1>2, <2>2, <2>3, TypeParts, TypePartsNext DEF ProcExit
<1>3. CASE ProcEvent(p)
  <2> DEFINE c == st.client
             s1 == [st EXCEPT !.process = None, !.unavailable = TRUE]
             s2 == [s1 EXCEPT !.retired = @ \cup {c}, !.teardown = TRUE]
  <2>1. /\ queue # <<>> /\ Tail(queue) \in Seq(Operation) /\ UNCHANGED Rest
    BY <1>3, TurnType DEF ProcEvent
  <2>2. s1 \in BrokerState /\ c \in Clients \cup {None} /\ s1.deferred \in Procs \cup {None}
    BY <1>1 DEF BrokerState
  <2>3. c # None => s2 \in BrokerState
    BY <1>1 DEF BrokerState
  <2>4. Detach(s1) \in BrokerState
    BY <1>1, <2>2, DetachEffect
  <2> HIDE DEF s1
  <2>5. CASE st' = st /\ queue' = Tail(queue) /\ req' = req /\ hold' = None
    BY <1>1, <2>1, <2>5, RestType
  <2>7. CASE c # None /\ st' = s2 /\ queue' = Tail(queue) /\ req' = req /\ hold' = None
    <3> HIDE DEF s2
    <3> QED
      BY <1>1, <2>1, <2>3, <2>7, RestType
  <2>6. CASE Closing("exit", None, c, s1.deferred, Detach(s1))
    <3>1. /\ req' \in [Requests -> ReqState] /\ st' \in BrokerState
          /\ queue' \in Seq(Operation) /\ hold' \in Holding \cup {None}
      BY <2>1, <2>2, <2>4, <2>6, ClosingType
    <3> QED
      BY <2>1, <3>1, RestType
  <2> QED
    BY <1>3, <2>5, <2>6, <2>7 DEF ProcEvent, s1
<1> QED
  BY <1>2, <1>3

LEMMA ClientType ==
    ASSUME TypeOK, NEW c \in Clients,
           PublicationTimer(c) \/ Unadopted(c) \/ CloseSettles(c) \/ Disconnect(c)
    PROVE  TypeOK'
<1>1. /\ st \in BrokerState /\ req \in [Requests -> ReqState] /\ queue \in Seq(Operation)
      /\ None \notin alive
  BY TypeParts, Nones
<1>2. CASE PublicationTimer(c)
  <2>1. queue' = queue \/ queue' = Append(queue, <<"unadopted", c>>)
    BY <1>2 DEF PublicationTimer, Enqueue
  <2>2. Append(queue, <<"unadopted", c>>) \in Seq(Operation)
    <3>1. <<"unadopted", c>> \in Operation
      BY Entries
    <3> QED
      BY <1>1, <3>1
  <2>3. queue' \in Seq(Operation)
    BY <1>1, <2>1, <2>2
  <2> QED
    BY <1>2, <2>3, TypeParts, TypePartsNext DEF PublicationTimer
<1>3. CASE Unadopted(c)
  <2> DEFINE s1 == [st EXCEPT !.publication = None]
  <2>1. queue # <<>> /\ Tail(queue) \in Seq(Operation) /\ hold = None /\ UNCHANGED Rest
    BY <1>3, TurnType DEF Unadopted
  <2>2. CASE UNCHANGED <<st, req, hold>> /\ queue' = Tail(queue)
    BY <1>1, <2>1, <2>2, RestType
  <2>3. CASE Closing("unadopted", None, c, Child(st), Detach(s1))
    <3>1. s1 \in BrokerState
      BY <1>1 DEF BrokerState
    <3>2. Detach(s1) \in BrokerState /\ Child(st) \in Procs \cup {None}
      BY <1>1, <3>1, DetachEffect
    <3>3. /\ req' \in [Requests -> ReqState] /\ st' \in BrokerState
          /\ queue' \in Seq(Operation) /\ hold' \in Holding \cup {None}
      BY <2>1, <2>3, <3>2, ClosingType
    <3> QED
      BY <2>1, <3>3, RestType
  <2> QED
    BY <1>3, <2>2, <2>3 DEF Unadopted
<1>4. CASE CloseSettles(c)
  <2> DEFINE mine == {r \in Requests : req[r].closeStarted /\ req[r].cand = c}
             s0 == [st EXCEPT !.closing = @ \ {c}]
             s1 == IF hold # None /\ hold.c = c THEN RetainDeferred(s0, hold.p) ELSE s0
             good == [s1 EXCEPT !.closed = @ \cup {c}, !.retired = @ \ {c}, !.failed = @ \ {c}]
  <2>1. /\ st' \in {DropMarkers(good, mine), DropMarkers(Failed(s1, c), mine)}
        /\ UNCHANGED <<req, queue, hold>> /\ UNCHANGED Rest
    BY <1>4 DEF CloseSettles
  <2>2. s0 \in BrokerState
    BY <1>1 DEF BrokerState
  <2> HIDE DEF s0, mine
  <2>3. hold # None => hold.p \in Procs \cup {None}
    BY TypeParts DEF Holding
  <2>4. s1 \in BrokerState
    BY <1>1, <2>2, <2>3, RetainEffect
  <2> HIDE DEF s1
  <2>5. good \in BrokerState /\ Failed(s1, c) \in BrokerState
    BY <2>4, FailedEffect DEF BrokerState
  <2> HIDE DEF good
  <2>6. st' \in BrokerState
    BY <2>1, <2>5, DropEffect
  <2> QED
    BY <2>1, <2>6, TypeParts, TypePartsNext DEF Rest
<1>5. CASE Disconnect(c)
  BY <1>5, TypeParts, TypePartsNext DEF Disconnect
<1> QED
  BY <1>2, <1>3, <1>4, <1>5

LEMMA CloseType ==
    ASSUME TypeOK, HoldEnds \/ ClosePrepare \/ CloseDrains \/ CloseEnds \/ Toggle
    PROVE  TypeOK'
<1>1. /\ st \in BrokerState /\ req \in [Requests -> ReqState] /\ queue \in Seq(Operation)
      /\ gen \in [Gens -> GenState] /\ None \notin alive /\ None \notin Gens
  BY TypeParts, Nones
<1>2. CASE HoldEnds
  <2>1. /\ hold # None /\ Continue(hold.op, hold.r, hold.c, hold.p, st, queue)
        /\ hold' = None /\ UNCHANGED Rest
    BY <1>2 DEF HoldEnds, HoldReady
  <2>2. /\ hold.c \in Clients \cup {None} /\ hold.p \in Procs \cup {None}
        /\ hold.op \in {"check", "adopt", "cleanup", "late", "unlease"} => hold.r \in Requests
    BY <2>1, TypeParts DEF Holding
  <2>3. /\ req' \in [Requests -> ReqState] /\ st' \in BrokerState
        /\ queue' \in Seq(Operation)
    BY <1>1, <2>1, <2>2, ContinueType
  <2> QED
    BY <2>1, <2>3, RestType
<1>3. CASE ClosePrepare
  <2> DEFINE g == st.startup
             s0 == IF g # None THEN Cancel(st, g) ELSE st
             s1 == [s0 EXCEPT !.fenced = @ \cup s0.pending, !.unavailable = TRUE,
                              !.teardown = @ \/ s0.client # None,
                              !.retired = IF s0.client # None /\ Active(s0)
                                          THEN @ \cup {s0.client} ELSE @,
                              !.close = "reserve"]
             s2 == RetainDeferred(s1, s1.process)
  <2>1. /\ st' = IF s1.process = None THEN s1
                 ELSE [s2 EXCEPT !.process = None, !.teardown = TRUE]
        /\ gen' = IF g # None THEN [gen EXCEPT ![g].cancelled = TRUE] ELSE gen
        /\ UNCHANGED <<req, hold, alive, open, timers, made, toggles>>
    BY <1>3 DEF ClosePrepare
  <2>2. Tail(queue) \in Seq(Operation) /\ queue' = Tail(queue)
    BY <1>3, TurnType DEF ClosePrepare
  <2>3. g \in Gens \cup {None}
    BY <1>1 DEF BrokerState
  <2>4. g # None => gen[g].proc \in Procs \cup {None}
    BY <1>1, <2>3 DEF GenState
  <2>5. s0 \in BrokerState
    BY <1>1, <2>3, <2>4, CancelEffect
  <2> HIDE DEF s0
  <2>6. s1 \in BrokerState /\ s1.process \in Procs \cup {None}
    <3> DEFINE fn == s0.fenced \cup s0.pending
               te == s0.teardown \/ s0.client # None
               re == IF s0.client # None /\ Active(s0) THEN s0.retired \cup {s0.client}
                     ELSE s0.retired
               t1 == [s0 EXCEPT !.fenced = fn, !.unavailable = TRUE, !.teardown = te,
                                !.retired = re, !.close = "reserve"]
    <3>1. fn \in SUBSET Requests /\ te \in BOOLEAN /\ re \in SUBSET Clients
      BY <2>5 DEF BrokerState
    <3>2. s1 = t1
      OBVIOUS
    <3> HIDE DEF fn, te, re, s1
    <3>3. t1 \in BrokerState
      BY <2>5, <3>1 DEF BrokerState
    <3> HIDE DEF t1
    <3> QED
      BY <3>2, <3>3 DEF BrokerState
  <2> HIDE DEF s1
  <2>7. s2 \in BrokerState
    BY <1>1, <2>6, RetainEffect
  <2> HIDE DEF s2
  <2>8. st' \in BrokerState
    BY <2>1, <2>6, <2>7 DEF BrokerState
  <2>9. gen' \in [Gens -> GenState]
    BY <1>1, <2>1, <2>3 DEF GenState
  <2> QED
    BY <2>1, <2>2, <2>8, <2>9, TypeParts, TypePartsNext
<1>4. CASE CloseDrains
  <2>0. req' = req /\ UNCHANGED Others
    BY <1>4 DEF CloseDrains
  <2>1. CASE st' = [st EXCEPT !.close = "users"] /\ queue' = queue
    <3>1. st' \in BrokerState
      BY <1>1, <2>1 DEF BrokerState
    <3> QED
      BY <1>1, <2>0, <2>1, <3>1, OthersType
  <2>2. CASE st' = [st EXCEPT !.close = "detach"] /\ Enqueue("detach", None)
    <3>1. st' \in BrokerState
      BY <1>1, <2>2 DEF BrokerState
    <3>2. queue' \in Seq(Operation)
      BY <1>1, <2>2, AppendQ, Entries DEF Enqueue
    <3> QED
      BY <1>1, <2>0, <2>2, <3>1, <3>2, OthersType
  <2> DEFINE gone == {c \in st.retired \cup ({st.client} \ {None}) :
                         c = st.client \/ st.users[c] = {}}
             s1 == Detach(st)
             s2 == [s1 EXCEPT !.retired = @ \ gone, !.closing = @ \cup (gone \ st.closed),
                              !.failed = @ \ (gone \cap st.closed),
                              !.close = "closing", !.targets = gone]
  <2>3. CASE Turn("detach", None) /\ queue' = Tail(queue) /\ st' = s2
    <3>1. gone \subseteq Clients /\ s1 \in BrokerState
      BY <1>1, DetachEffect DEF BrokerState
    <3> HIDE DEF gone, s1
    <3>2. st' \in BrokerState
      BY <2>3, <3>1 DEF BrokerState
    <3> QED
      BY <1>1, <2>0, <2>3, <3>2, OthersType, TurnType
  <2> QED
    BY <1>4, <2>1, <2>2, <2>3 DEF CloseDrains
<1>5. CASE CloseEnds
  <2> DEFINE late == st.targets \cap st.closing
             s1 == [st EXCEPT !.close = "none", !.targets = {}, !.failed = @ \cup late,
                              !.retired = @ \cup late, !.teardown = @ \/ late # {}]
  <2>1. s1 \in BrokerState
    BY <1>1 DEF BrokerState
  <2>2. st' \in {Finalize(s1), MaybeFinish(s1)}
    BY <1>5 DEF CloseEnds
  <2> HIDE DEF s1
  <2>3. st' \in BrokerState
    BY <2>1, <2>2, FinalizeEffect, MaybeFinishEffect
  <2>4. /\ \E v \in {"legacyWait", "failed"} :
             req' = [r \in Requests |-> IF req[r].pc = "closeWait"
                        THEN [req[r] EXCEPT !.pc = v] ELSE req[r]]
        /\ queue' = queue /\ UNCHANGED Others
    BY <1>5 DEF CloseEnds
  <2>5. \A r \in Requests : \A v \in {"legacyWait", "failed"} : [req[r] EXCEPT !.pc = v] \in ReqState
    BY <1>1 DEF ReqState
  <2>6. req' \in [Requests -> ReqState]
    BY <1>1, <2>4, <2>5
  <2> QED
    BY <1>1, <2>3, <2>4, <2>6, OthersType
<1>6. CASE Toggle
  BY <1>6, TypeParts, TypePartsNext DEF Toggle
<1> QED
  BY <1>2, <1>3, <1>4, <1>5, <1>6

LEMMA TypeStep == TypeOK /\ StageInv /\ JoinInv /\ [Next]_vars => TypeOK'
<1> SUFFICES ASSUME TypeOK, StageInv, JoinInv, [Next]_vars PROVE TypeOK'
  OBVIOUS
<1>1. ASSUME NEW r \in Requests, Request(r) PROVE TypeOK'
  BY <1>1, RequestType1, RequestType2, ClosersType DEF Request
<1>2. ASSUME NEW r \in Requests, Attempt(r) PROVE TypeOK'
  BY <1>2, AttemptType
<1>3. ASSUME NEW g \in Gens,
             StartupConnect(g) \/ StartupRefused(g) \/ StartupSpawn(g) \/ StartupFail(g)
      PROVE  TypeOK'
  BY <1>3, StartupType
<1>4. ASSUME NEW p \in Procs, ProcExit(p) \/ ProcEvent(p) PROVE TypeOK'
  BY <1>4, ProcType
<1>5. ASSUME NEW c \in Clients,
             PublicationTimer(c) \/ Unadopted(c) \/ CloseSettles(c) \/ Disconnect(c)
      PROVE  TypeOK'
  BY <1>5, ClientType
<1>6. CASE HoldEnds \/ ClosePrepare \/ CloseDrains \/ CloseEnds \/ Toggle
  BY <1>6, CloseType
<1>7. CASE UNCHANGED vars
  BY <1>7, TypeParts, TypePartsNext DEF vars
<1> QED
  BY <1>1, <1>2, <1>3, <1>4, <1>5, <1>6, <1>7 DEF Next

\* What the first step of the global close does to the profile.
LEMMA PrepareEffect ==
    ASSUME TypeOK, ClosePrepare
    PROVE  /\ st'.client = st.client /\ st'.publication = st.publication
           /\ st'.closing = st.closing /\ st'.closed = st.closed /\ st'.users = st.users
           /\ st'.reserved = st.reserved /\ st'.fallback = st.fallback
           /\ st'.targets = st.targets /\ st'.failed = st.failed
           /\ st'.pending = st.pending /\ st'.fenced = st.fenced \cup st.pending
           /\ st'.close = "reserve" /\ st'.startup = None /\ st'.process = None
           /\ st'.unavailable = TRUE
           /\ st'.deferred = IF st.process \in alive /\ st.deferred = None
                             THEN st.process ELSE st.deferred
           /\ st'.client # None => st'.teardown
           /\ (st.deferred # None => st.teardown) /\ st'.deferred # None => st'.teardown
           /\ st.close # "none" => (st'.tearing <=> st.tearing)
<1>1. /\ st \in BrokerState /\ gen \in [Gens -> GenState] /\ None \notin alive /\ None \notin Gens
  BY TypeParts, Nones
<1> DEFINE g == st.startup
           s0 == IF g # None THEN Cancel(st, g) ELSE st
           fn == s0.fenced \cup s0.pending
           te == s0.teardown \/ s0.client # None
           re == IF s0.client # None /\ Active(s0) THEN s0.retired \cup {s0.client}
                 ELSE s0.retired
           s1 == [s0 EXCEPT !.fenced = fn, !.unavailable = TRUE, !.teardown = te,
                            !.retired = re, !.close = "reserve"]
           s2 == RetainDeferred(s1, s1.process)
<1>2. st' = IF s1.process = None THEN s1
            ELSE [s2 EXCEPT !.process = None, !.teardown = TRUE]
  BY DEF ClosePrepare
<1>3. g \in Gens \cup {None}
  BY <1>1 DEF BrokerState
<1>4. g # None => gen[g].proc \in Procs \cup {None}
  BY <1>1, <1>3 DEF GenState
<1>5. /\ s0 \in BrokerState
      /\ s0.client = st.client /\ s0.publication = st.publication
      /\ s0.closing = st.closing /\ s0.closed = st.closed /\ s0.users = st.users
      /\ s0.reserved = st.reserved /\ s0.fallback = st.fallback
      /\ s0.targets = st.targets /\ s0.failed = st.failed /\ s0.retired = st.retired
      /\ s0.pending = st.pending /\ s0.fenced = st.fenced
      /\ s0.startup = None /\ s0.process \in {None, st.process}
      /\ s0.deferred = IF st.process # s0.process /\ st.process \in alive /\ st.deferred = None
                       THEN st.process ELSE st.deferred
      /\ (st.deferred # None => st.teardown) /\ s0.deferred # None => s0.teardown
      /\ st.close # "none" => (s0.tearing <=> st.tearing)
  <2>1. CASE g = None
    BY <1>1, <2>1
  <2>2. CASE g # None
    <3> DEFINE t == Cancel(st, g)
               own == gen[g].proc # None /\ st.process = gen[g].proc
    <3>1. /\ t \in BrokerState /\ Marked(st, t)
          /\ t.client = st.client /\ t.publication = st.publication
          /\ t.retired = st.retired /\ t.failed = st.failed
          /\ t.closing = st.closing /\ t.closed = st.closed /\ t.users = st.users
          /\ t.reserved = st.reserved /\ t.fallback = st.fallback
          /\ t.close = st.close /\ t.targets = st.targets
          /\ t.tearing <=> st.tearing /\ ~Over(t)
          /\ t.startup = None
          /\ t.process = IF own THEN None ELSE st.process
          /\ t.deferred = IF own /\ st.process \in alive /\ st.deferred = None
                          THEN st.process ELSE st.deferred
          /\ t.teardown <=> /\ st.teardown \/ (own /\ st.process \in alive /\ st.deferred = None)
                            /\ ~Cleared(t)
      BY <1>1, <1>3, <1>4, <2>2, CancelEffect
    <3>2. s0 = t
      BY <2>2
    <3> HIDE DEF t, s0
    <3> QED
      BY <1>1, <3>1, <3>2 DEF Marked, Over, Cleared, BrokerState
  <2> QED
    BY <2>1, <2>2
<1> HIDE DEF s0
<1>6. fn \in SUBSET Requests /\ te \in BOOLEAN /\ re \in SUBSET Clients
  BY <1>5 DEF BrokerState
<1>7. fn = st.fenced \cup st.pending /\ (st.client # None => te) /\ (s0.teardown => te)
  BY <1>5
<1> HIDE DEF fn, te, re
<1>8. /\ s1 \in BrokerState
      /\ s1.client = s0.client /\ s1.publication = s0.publication
      /\ s1.closing = s0.closing /\ s1.closed = s0.closed /\ s1.users = s0.users
      /\ s1.reserved = s0.reserved /\ s1.fallback = s0.fallback
      /\ s1.targets = s0.targets /\ s1.failed = s0.failed
      /\ s1.pending = s0.pending /\ s1.fenced = fn
      /\ s1.startup = s0.startup /\ s1.process = s0.process /\ s1.deferred = s0.deferred
      /\ s1.unavailable = TRUE /\ s1.teardown = te /\ s1.close = "reserve"
      /\ s1.tearing = s0.tearing
  BY <1>5, <1>6 DEF BrokerState
<1> HIDE DEF s1
<1>9. s1.process \in Procs \cup {None}
  BY <1>8 DEF BrokerState
<1>10. /\ s2 \in BrokerState /\ Stable(s1, s2) /\ Marked(s1, s2)
       /\ s2.deferred = IF s1.process \in alive /\ s1.deferred = None THEN s1.process ELSE s1.deferred
       /\ s2.tearing = s1.tearing
  BY <1>1, <1>8, <1>9, RetainEffect
<1> HIDE DEF s2
<1>11. CASE s1.process = None
  BY <1>1, <1>2, <1>5, <1>7, <1>8, <1>11
<1>12. CASE s1.process # None
  <2> DEFINE v == [s2 EXCEPT !.process = None, !.teardown = TRUE]
  <2>1. /\ v.client = s2.client /\ v.publication = s2.publication
        /\ v.closing = s2.closing /\ v.closed = s2.closed /\ v.users = s2.users
        /\ v.reserved = s2.reserved /\ v.fallback = s2.fallback
        /\ v.targets = s2.targets /\ v.failed = s2.failed
        /\ v.pending = s2.pending /\ v.fenced = s2.fenced
        /\ v.startup = s2.startup /\ v.process = None /\ v.deferred = s2.deferred
        /\ v.unavailable = s2.unavailable /\ v.teardown = TRUE /\ v.close = s2.close
        /\ v.tearing = s2.tearing
    BY <1>10 DEF BrokerState
  <2> HIDE DEF v
  <2>2. st' = v
    BY <1>2, <1>12 DEF v
  <2> QED
    BY <1>1, <1>5, <1>7, <1>8, <1>10, <1>12, <2>1, <2>2 DEF Stable, Marked
<1> QED
  BY <1>11, <1>12

-----------------------------------------------------------------------------
(* What each request waits for: QueueInv and StageInv.                       *)

\* The queue p is q with the operation o of x at its end, or without it at its head.
Adds(p, q, o, x) ==
    /\ \A O, y : In(p, O, y) <=> In(q, O, y) \/ (o \in O /\ x = y)
    /\ \A O, y : Once(q, O, y) /\ ~(In(q, O, y) /\ o \in O /\ x = y) => Once(p, O, y)

Within(p, q) ==
    /\ \A O, y : In(p, O, y) => In(q, O, y)
    /\ \A O, y : Once(q, O, y) => Once(p, O, y)

Takes(p, q, o, x) ==
    /\ Within(p, q)
    /\ \A O, y : o \in O /\ x = y => In(q, O, y)
    /\ \A O, y : Once(q, O, y) /\ o \in O /\ x = y => ~In(p, O, y)

LEMMA Appended ==
    ASSUME NEW q \in Seq(Operation), NEW o, NEW x, <<o, x>> \in Operation
    PROVE  Adds(Append(q, <<o, x>>), q, o, x)
BY AppendQ DEF Adds

LEMMA Taken ==
    ASSUME TypeOK, NEW o, NEW x, Turn(o, x)
    PROVE  Takes(Tail(queue), queue, o, x) /\ Tail(queue) \in Seq(Operation) /\ hold = None
<1> DEFINE q == queue
           t == Tail(queue)
<1>1. q \in Seq(Operation) /\ q # <<>> /\ Head(q) = <<o, x>> /\ t = Tail(q) /\ hold = None
  BY TurnType
<1> HIDE DEF q, t
<1>2. /\ t \in Seq(Operation)
      /\ \A O, r : In(t, O, r) => In(q, O, r)
      /\ \A O, r : o \in O /\ x = r => In(q, O, r)
      /\ \A O, r : Once(q, O, r) => Once(t, O, r)
      /\ \A O, r : Once(q, O, r) /\ o \in O /\ x = r => ~In(t, O, r)
  BY <1>1, TailQ
<1>3. Takes(t, q, o, x)
  BY <1>2 DEF Takes, Within
<1> QED
  BY <1>1, <1>2, <1>3 DEF q, t

\* The parts of Main.
LEMMA Mains ==
    ASSUME NEW q, NEW r
    PROVE  /\ In(q, {"reserve", "gate"}, r) => In(q, Main, r)
           /\ In(q, {"gate", "adopt"}, r) => In(q, Main, r)
           /\ In(q, {"adopt", "unlease"}, r) => In(q, Main, r)
           /\ In(q, {"unreserve"}, r) => In(q, Main, r)
           /\ In(q, {"unlease"}, r) => In(q, Main, r)
           /\ In(q, {"gate"}, r) => In(q, Main, r)
           /\ In(q, {"cleanup"}, r) => In(q, Main, r)
BY DEF In, Main

\* A request that a step has nothing to do with.
LEMMA Aside ==
    ASSUME QueueInv, StageInv, NEW x \in Requests, req'[x] = req[x],
           \A O : In(queue', O, x) => In(queue, O, x),
           \A O : Once(queue, O, x) => Once(queue', O, x),
           hold' = hold \/ hold' = None \/ hold'.r # x,
           st'.fallback = x => st.fallback = x,
           In(queue', {"lift"}, x) /\ st.fallback = x => st'.fallback = x,
           x \in st.reserved => x \in st'.reserved,
           x \in st.pending => x \in st'.pending
    PROVE  QueueOf(x)' /\ StageOf(x)'
<1>1. QueueOf(x)'
  BY DEF QueueInv, QueueOf, Waits
<1>2. StageOf(x)'
  BY DEF StageInv, StageOf, Waits
<1> QED
  BY <1>1, <1>2

LEMMA Book ==
    ASSUME \A x \in Requests : QueueOf(x)' /\ StageOf(x)'
    PROVE  QueueInv' /\ StageInv'
BY DEF QueueInv, StageInv

LEMMA FailBook ==
    ASSUME TypeOK, QueueInv, StageInv, NEW r \in Requests, NEW s \in BrokerState,
           NEW e, e # "none", NEW q \in Seq(Operation), Fail(r, s, e, q), Within(q, queue), ~In(q, Main, r),
           hold' \in {hold, None}, ~Waits({"adopt", "cleanup", "late", "unlease"}, r)',
           s.fallback = st.fallback, st.fallback # r, s.reserved = st.reserved,
           s.pending = st.pending
    PROVE  QueueInv' /\ StageInv'
<1>1. Adds(queue', q, "cleanup", r)
  BY Appended, Entries DEF Fail
<1>2. /\ \A x \in Requests : /\ req'[x].att = req[x].att /\ req'[x].client = req[x].client
                             /\ req'[x].cand = req[x].cand /\ req'[x].adopted = req[x].adopted
                             /\ req'[x].closeStarted = req[x].closeStarted
      /\ \A x \in Requests : x # r => req'[x] = req[x]
      /\ req'[r].pc = "queued" /\ req'[r].err = e
  BY TypeParts DEF Fail, ReqState
<1>3. st'.fallback = st.fallback /\ st'.reserved = st.reserved /\ st'.pending = st.pending
  BY DEF Fail, BrokerState
<1>5. ASSUME NEW x \in Requests, x # r PROVE QueueOf(x)' /\ StageOf(x)'
  <2>1. \A O : In(queue', O, x) => In(queue, O, x)
    BY <1>1, <1>5 DEF Adds, Within
  <2>2. \A O : Once(queue, O, x) => Once(queue', O, x)
    BY <1>1, <1>5 DEF Adds, Within
  <2> QED
    BY <1>2, <1>3, <1>5, <2>1, <2>2, Aside
<1>6. QueueOf(r)'
  BY <1>1, <1>2, <1>3 DEF QueueInv, QueueOf, Waits, Within, Adds, Main
<1>7. StageOf(r)'
  BY <1>1, <1>2, <1>3, Mains DEF StageInv, StageOf, Waits, Within, Adds
<1> QED
  BY <1>5, <1>6, <1>7, Book

\* A step of r that only moves it on, and appends or takes an operation of it.
LEMMA GoBook ==
    ASSUME TypeOK, QueueInv, StageInv, NEW r \in Requests,
           \/ Start(r) \/ Reserve(r) \/ Reserved(r) \/ EnsureChrome(r) \/ Gate(r)
           \/ Connect(r) \/ ConnectFails(r) \/ Unreserve(r) \/ Search(r) \/ Abandon(r)
           \/ LegacyWait(r) \/ LegacyReserve(r) \/ LegacySettles(r) \/ LegacyLifts(r)
           \/ LegacyAbandoned(r) \/ CloseStart(r) \/ CloseAbandoned(r)
    PROVE  QueueInv' /\ StageInv'
<1>1. /\ st \in BrokerState /\ req \in [Requests -> ReqState] /\ queue \in Seq(Operation)
  BY TypeParts
<1>2. /\ Within(queue, queue)
      /\ \A O, x : In(queue, O, x) => In(queue, O, x)
  BY DEF Within
<1>3. \A v : Go(r, v) => /\ \A x \in Requests : x # r => req'[x] = req[x]
                         /\ req'[r].pc = v /\ req'[r].err = req[r].err
                         /\ req'[r].att = req[r].att /\ req'[r].client = req[r].client
                         /\ req'[r].cand = req[r].cand /\ req'[r].adopted = req[r].adopted
                         /\ req'[r].closeStarted = req[r].closeStarted
  BY <1>1 DEF Go, ReqState
<1>4. \A o \in {"reserve", "gate", "adopt", "unreserve", "unlease",
                "cleanup", "legacy", "check", "settle", "lift"} :
         Enqueue(o, r) => Adds(queue', queue, o, r)
  BY <1>1, Appended, Entries DEF Enqueue
<1>6. CASE Start(r)
  BY <1>3, <1>6, Aside, Book DEF Start, Others, QueueInv, QueueOf, StageInv, StageOf, Waits
<1>7. CASE Reserve(r)
  BY <1>3, <1>4, <1>7, Aside, Book
     DEF Reserve, Others, QueueInv, QueueOf, StageInv, StageOf, Waits, Adds, Main
<1>8. CASE Reserved(r)
  <2>1. /\ Takes(Tail(queue), queue, "reserve", r) /\ Tail(queue) \in Seq(Operation)
        /\ hold = None /\ hold' = hold
    BY <1>8, Taken DEF Reserved, Others
  <2>2. In(queue, {"reserve", "gate"}, r) /\ In(queue, Main, r) /\ ~In(Tail(queue), Main, r)
    BY <2>1 DEF Takes, Main, QueueInv, QueueOf
  <2>3. CASE \E e \in {"abort", "fence"} : Fail(r, st, e, Tail(queue))
    BY <1>1, <2>1, <2>2, <2>3, FailBook DEF Takes, Waits, QueueInv, QueueOf
  <2>4. CASE /\ Go(r, "chrome") /\ st' = [st EXCEPT !.reserved = @ \cup {r}]
             /\ queue' = Tail(queue)
    <3>1. st'.fallback = st.fallback /\ st'.reserved = st.reserved \cup {r} /\ st'.pending = st.pending
      BY <1>1, <2>4 DEF BrokerState
    <3> QED
      BY <1>3, <2>1, <2>2, <2>4, <3>1, Mains, Aside, Book
         DEF QueueInv, QueueOf, StageInv, StageOf, Waits, Takes, Within
  <2> QED
    BY <1>8, <2>3, <2>4 DEF Reserved
<1>9. CASE EnsureChrome(r)
  <2>1. req[r].pc = "chrome" /\ hold' = hold
    BY <1>9 DEF EnsureChrome, Others
  <2>2. CASE Fail(r, st, "broker", queue)
    BY <1>1, <1>2, <2>1, <2>2, FailBook DEF Waits, QueueInv, QueueOf
  <2>3. CASE Go(r, "queued") /\ Enqueue("gate", r) /\ st' = st
    BY <1>3, <1>4, <2>1, <2>3, Mains, Aside, Book
       DEF QueueInv, QueueOf, StageInv, StageOf, Waits, Adds, Main
  <2> QED
    BY <1>9, <2>2, <2>3 DEF EnsureChrome
<1>10. CASE Gate(r)
  <2>1. /\ Takes(Tail(queue), queue, "gate", r) /\ Tail(queue) \in Seq(Operation)
        /\ hold = None /\ hold' = hold
    BY <1>10, Taken DEF Gate, Others
  <2>2. /\ In(queue, {"reserve", "gate"}, r) /\ In(queue, {"gate", "adopt"}, r)
        /\ In(queue, Main, r) /\ ~In(Tail(queue), Main, r)
    BY <2>1 DEF Takes, Main, QueueInv, QueueOf
  <2>3. CASE Fail(r, st, "fence", Tail(queue))
    BY <1>1, <2>1, <2>2, <2>3, FailBook DEF Takes, Waits, QueueInv, QueueOf
  <2>4. CASE Go(r, "gated") /\ queue' = Tail(queue) /\ st' = st
    BY <1>3, <2>1, <2>2, <2>4, Mains, Aside, Book
       DEF QueueInv, QueueOf, StageInv, StageOf, Waits, Takes, Within
  <2> QED
    BY <1>10, <2>3, <2>4 DEF Gate
<1>11. CASE Connect(r)
  <2>1. /\ st'.fallback = st.fallback /\ st'.reserved = st.reserved
        /\ st'.pending = st.pending \cup {r}
    BY <1>1, <1>11 DEF Connect, BrokerState
  <2>2. /\ \A x \in Requests : x # r => req'[x] = req[x]
        /\ req'[r].pc = "connect" /\ req'[r].att = "waiting" /\ req'[r].err = req[r].err
        /\ req'[r].client = req[r].client /\ req'[r].cand = req[r].cand
        /\ req'[r].adopted = req[r].adopted /\ req'[r].closeStarted = req[r].closeStarted
    BY <1>1, <1>11 DEF Connect, ReqState
  <2>3. req[r].pc = "gated" /\ hold' = hold /\ queue' = queue
    BY <1>11 DEF Connect, Others
  <2> QED
    BY <2>1, <2>2, <2>3, Mains, Aside, Book DEF QueueInv, QueueOf, StageInv, StageOf, Waits
<1>12. CASE ConnectFails(r)
  BY <1>1, <1>2, <1>12, FailBook DEF ConnectFails, Others, Waits, QueueInv, QueueOf
<1>13. CASE Unreserve(r)
  <2>1. /\ Takes(Tail(queue), queue, "unreserve", r) /\ queue' = Tail(queue)
        /\ hold = None /\ hold' = hold
    BY <1>13, Taken DEF Unreserve, Others
  <2>2. /\ In(queue, {"unreserve"}, r) /\ In(queue, Main, r) /\ ~In(Tail(queue), Main, r)
    BY <2>1 DEF Takes, Main, QueueInv, QueueOf
  <2>3. /\ st'.fallback = st.fallback /\ st'.reserved = st.reserved \ {r}
        /\ st'.pending = st.pending
    <3> DEFINE s1 == [st EXCEPT !.reserved = @ \ {r}]
    <3>1. /\ s1 \in BrokerState /\ s1.fallback = st.fallback
          /\ s1.reserved = st.reserved \ {r} /\ s1.pending = st.pending
      BY <1>1 DEF BrokerState
    <3>2. st' = MaybeFinish(s1)
      BY <1>13 DEF Unreserve
    <3> HIDE DEF s1
    <3> QED
      BY <3>1, <3>2, MaybeFinishEffect DEF Stable, Marked
  <2>4. \E v \in {"search", "legacyWait", "failed"} :
           Go(r, v) /\ (v = "search" => req[r].err = "none")
    BY <1>13 DEF Unreserve
  <2> QED
    BY <1>3, <2>1, <2>2, <2>3, <2>4, Mains, Aside, Book
       DEF QueueInv, QueueOf, StageInv, StageOf, Waits, Takes, Within
<1>14. CASE Search(r)
  <2>1. req[r].pc = "search" /\ hold' = hold
    BY <1>14 DEF Search, Others
  <2>2. CASE \E e \in {"fence", "broker"} : Fail(r, st, e, queue)
    BY <1>1, <1>2, <2>1, <2>2, FailBook DEF Waits, QueueInv, QueueOf
  <2>3. CASE Go(r, "queued") /\ Enqueue("unlease", r) /\ st' = st
    BY <1>3, <1>4, <2>1, <2>3, Mains, Aside, Book
       DEF QueueInv, QueueOf, StageInv, StageOf, Waits, Adds, Main
  <2> QED
    BY <1>14, <2>2, <2>3 DEF Search
<1>15. CASE Abandon(r)
  BY <1>1, <1>2, <1>15, FailBook DEF Abandon, Others, Waits, QueueInv, QueueOf
<1>16. CASE LegacyWait(r)
  <2>1. req[r].pc = "legacyWait" /\ hold' = hold /\ st' = st
    BY <1>16 DEF LegacyWait, Others
  <2>2. CASE Go(r, "queued") /\ Enqueue("legacy", r)
    BY <1>3, <1>4, <2>1, <2>2, Mains, Aside, Book
       DEF QueueInv, QueueOf, StageInv, StageOf, Waits, Adds, Main
  <2>3. CASE Go(r, "failed") /\ queue' = queue
    BY <1>3, <2>1, <2>3, Mains, Aside, Book DEF QueueInv, QueueOf, StageInv, StageOf, Waits
  <2> QED
    BY <1>16, <2>2, <2>3 DEF LegacyWait
<1>17. CASE LegacyReserve(r)
  <2>1. /\ Takes(Tail(queue), queue, "legacy", r) /\ queue' = Tail(queue)
        /\ hold = None /\ hold' = hold
    BY <1>17, Taken DEF LegacyReserve, Others
  <2>2. In(queue, Main, r) /\ ~In(Tail(queue), Main, r)
    BY <2>1 DEF Takes, Main, QueueInv, QueueOf
  <2>3. CASE \E v \in {"legacyWait", "failed"} : Go(r, v) /\ st' = st
    BY <1>3, <2>1, <2>2, <2>3, Mains, Aside, Book
       DEF QueueInv, QueueOf, StageInv, StageOf, Waits, Takes, Within
  <2>4. CASE st.fallback = None /\ Go(r, "legacy") /\ st' = [st EXCEPT !.fallback = r]
    <3>1. st'.fallback = r /\ st'.reserved = st.reserved /\ st'.pending = st.pending
      BY <1>1, <2>4 DEF BrokerState
    <3> QED
      BY <1>3, <2>1, <2>2, <2>4, <3>1, Mains, Aside, Book, Nones
         DEF QueueInv, QueueOf, StageInv, StageOf, Waits, Takes, Within
  <2> QED
    BY <1>17, <2>3, <2>4 DEF LegacyReserve
<1>18. CASE LegacySettles(r)
  <2>1. /\ st.fallback = r /\ Adds(queue', queue, "lift", r) /\ ~In(queue, {"lift"}, r)
        /\ st' = st /\ req' = req /\ hold' = hold
    <3>1. /\ Enqueue("lift", r) /\ st.fallback = r /\ st' = st /\ req' = req /\ hold' = hold
          /\ <<"lift", r>> \notin {queue[i] : i \in 1 .. Len(queue)}
      BY <1>18 DEF LegacySettles, Others, InQueue
    <3>2. \A i \in 1 .. Len(queue) : queue[i] = <<queue[i][1], queue[i][2]>>
      BY <1>1 DEF Operation
    <3>3. ~In(queue, {"lift"}, r)
      BY <3>1, <3>2 DEF In
    <3> QED
      BY <1>4, <3>1, <3>3
  <2> QED
    BY <2>1, Mains, Aside, Book DEF QueueInv, QueueOf, StageInv, StageOf, Waits, Adds, Main
<1>19. CASE LegacyLifts(r)
  <2>1. /\ Takes(Tail(queue), queue, "lift", r) /\ queue' = Tail(queue)
        /\ hold = None /\ hold' = hold
    BY <1>19, Taken DEF LegacyLifts, Others
  <2>2. In(queue, {"lift"}, r) /\ ~In(Tail(queue), {"lift"}, r)
    BY <2>1 DEF Takes, QueueInv, QueueOf
  <2>3. st'.fallback = None /\ st'.reserved = st.reserved /\ st'.pending = st.pending
    BY <1>1, <1>19 DEF LegacyLifts, BrokerState
  <2>4. \E v \in {"done", "failed"} : Go(r, v)
    BY <1>19 DEF LegacyLifts
  <2>5. st.fallback = r /\ req[r].pc \in {"legacy", "failed"}
    BY <2>2 DEF QueueInv, QueueOf
  <2>6. \A x \in Requests : In(queue, {"lift"}, x) => x = r
    BY <2>5 DEF QueueInv, QueueOf
  <2> QED
    BY <1>3, <2>1, <2>2, <2>3, <2>4, <2>5, <2>6, Mains, Aside, Book, Nones
       DEF QueueInv, QueueOf, StageInv, StageOf, Waits, Takes, Within
<1>20. CASE LegacyAbandoned(r)
  BY <1>3, <1>20, Mains, Aside, Book
     DEF LegacyAbandoned, Others, QueueInv, QueueOf, StageInv, StageOf, Waits
<1>21. CASE CloseStart(r)
  <2>1. req[r].pc = "idle" /\ Go(r, "closeWait") /\ hold' = hold
    BY <1>21 DEF CloseStart, Others
  <2>2. st'.fallback = st.fallback /\ st'.reserved = st.reserved /\ st'.pending = st.pending
    BY <1>1, <1>21 DEF CloseStart, BrokerState
  <2>3. queue' = queue \/ Adds(queue', queue, "prepare", None)
    <3>1. queue' = queue \/ queue' = Append(queue, <<"prepare", None>>)
      BY <1>21 DEF CloseStart, Enqueue
    <3>2. Adds(Append(queue, <<"prepare", None>>), queue, "prepare", None)
      BY <1>1, Appended, Entries
    <3> QED
      BY <3>1, <3>2
  <2> QED
    BY <1>3, <2>1, <2>2, <2>3, Mains, Aside, Book, Nones
       DEF QueueInv, QueueOf, StageInv, StageOf, Waits, Adds
<1>22. CASE CloseAbandoned(r)
  BY <1>3, <1>22, Mains, Aside, Book
     DEF CloseAbandoned, Others, QueueInv, QueueOf, StageInv, StageOf, Waits
<1> QED
  BY <1>6, <1>7, <1>8, <1>9, <1>10, <1>11, <1>12, <1>13, <1>14, <1>15, <1>16, <1>17, <1>18,
     <1>19, <1>20, <1>21, <1>22

LEMMA CleanedUpBook ==
    ASSUME TypeOK, QueueInv, StageInv, NEW r \in Requests, NEW s, NEW ok \in BOOLEAN,
           NEW q \in Seq(Operation), CleanedUp(r, s, ok, q), Within(q, queue), ~In(q, Main, r),
           hold' = None, req[r].err # "none", st.fallback # r,
           s.fallback = st.fallback, s.reserved = st.reserved,
           \A x \in st.pending : x \in s.pending \/ (x = r /\ req[r].att = "settled")
    PROVE  QueueInv' /\ StageInv'
<1> DEFINE e == IF ok \/ req[r].err = "abort" THEN req[r].err ELSE "fence"
           cs == req[r].closeStarted \/ Unowned(r)
           pc1 == IF r \in s.reserved THEN "queued"
                  ELSE IF e = "broker" THEN "legacyWait" ELSE "failed"
<1>1. /\ st' = s
      /\ req' = [req EXCEPT ![r].client = None, ![r].err = e, ![r].closeStarted = cs,
                            ![r].pc = pc1]
      /\ queue' = q \o (IF r \in s.reserved THEN <<<<"unreserve", r>>>> ELSE <<>>)
  BY DEF CleanedUp
<1>2. /\ e # "none" /\ pc1 \in {"queued", "legacyWait", "failed"}
      /\ r \in st.reserved => pc1 = "queued"
      /\ cs => req[r].closeStarted \/ req[r].att = "settled"
  BY DEF Unowned
<1> HIDE DEF e, cs, pc1
<1>3. /\ \A x \in Requests : x # r => req'[x] = req[x]
      /\ req'[r].pc = pc1 /\ req'[r].err = e /\ req'[r].att = req[r].att
      /\ req'[r].client = None /\ req'[r].cand = req[r].cand
      /\ req'[r].adopted = req[r].adopted /\ req'[r].closeStarted = cs
  BY <1>1, TypeParts DEF ReqState
<1>4. \/ r \in st.reserved /\ Adds(queue', q, "unreserve", r)
      \/ r \notin st.reserved /\ queue' = q
  <2>1. <<"unreserve", r>> \in Operation
    BY Entries
  <2>2. q \o <<<<"unreserve", r>>>> = Append(q, <<"unreserve", r>>) /\ q \o <<>> = q
    BY <2>1, AppendQ
  <2>3. Adds(Append(q, <<"unreserve", r>>), q, "unreserve", r)
    BY <2>1, Appended
  <2> QED
    BY <1>1, <2>2, <2>3
<1>5. ASSUME NEW x \in Requests, x # r PROVE QueueOf(x)' /\ StageOf(x)'
  <2>1. \A O : In(queue', O, x) => In(queue, O, x)
    BY <1>4, <1>5 DEF Adds, Within
  <2>2. \A O : Once(queue, O, x) => Once(queue', O, x)
    BY <1>4, <1>5 DEF Adds, Within
  <2> QED
    BY <1>1, <1>3, <1>5, <2>1, <2>2, Aside
<1>6. QueueOf(r)'
  <2>0. /\ Once(q, Main, r) /\ Once(q, {"check"}, r) /\ Once(q, {"lift"}, r)
        /\ In(q, {"check"}, r) => req[r].att = "queued"
        /\ ~In(q, {"lift"}, r)
    BY DEF QueueInv, QueueOf, Within
  <2>1. CASE r \in st.reserved /\ Adds(queue', q, "unreserve", r)
    BY <1>1, <1>2, <1>3, <2>0, <2>1 DEF QueueOf, Waits, Adds, Main
  <2>2. CASE r \notin st.reserved /\ queue' = q
    BY <1>1, <1>2, <1>3, <2>0, <2>2 DEF QueueOf, Waits
  <2> QED
    BY <1>4, <2>1, <2>2
<1>7. StageOf(r)'
  BY <1>1, <1>2, <1>3, <1>4, Mains DEF StageInv, StageOf, Waits, Within, Adds
<1> QED
  BY <1>5, <1>6, <1>7, Book

\* What the operation op of r, which closes a client, knows of r.
Closes(op, r, q) ==
    /\ op \in {"adopt", "cleanup", "late", "unlease"} =>
          r \in Requests /\ req[r].pc = "queued" /\ ~In(q, Main, r) /\ st.fallback # r
    /\ op \in {"cleanup", "late"} => req[r].err # "none"
    /\ op \in {"adopt", "late", "unlease"} => req[r].att = "settled"
    /\ op = "adopt" => r \in st.reserved
    /\ op = "check" => r \in Requests /\ req[r].att = "queued" /\ ~In(q, {"check"}, r)
    /\ op \notin {"check", "adopt", "cleanup", "late", "unlease"} => r = None

LEMMA EndedKeeps ==
    ASSUME NEW s \in BrokerState, NEW c \in Clients \cup {None}, NEW p \in Procs \cup {None},
           None \notin alive
    PROVE  /\ Ended(s, c, p) \in BrokerState
           /\ Ended(s, c, p).fallback = s.fallback /\ Ended(s, c, p).reserved = s.reserved
           /\ Ended(s, c, p).pending = s.pending /\ Ended(s, c, p).fenced = s.fenced
           /\ Ended(s, c, p).client = s.client /\ Ended(s, c, p).process = s.process
           /\ Ended(s, c, p).startup = s.startup /\ Ended(s, c, p).unavailable = s.unavailable
           /\ Ended(s, c, p).users = s.users /\ Ended(s, c, p).close = s.close
           /\ Ended(s, c, p).closing = s.closing
BY EndedEffect DEF Marked

LEMMA ContinueBook ==
    ASSUME TypeOK, QueueInv, StageInv, NEW op, NEW r, NEW c \in Clients \cup {None},
           NEW p \in Procs \cup {None}, NEW s \in BrokerState, NEW q \in Seq(Operation),
           Continue(op, r, c, p, s, q), Closes(op, r, q), Within(q, queue), hold' = None,
           s.fallback = st.fallback, s.reserved = st.reserved, s.pending = st.pending
    PROVE  QueueInv' /\ StageInv'
<1> DEFINE t == Ended(s, c, p)
           u == DropMarkers(t, {r})
<1>1. /\ t \in BrokerState /\ t.fallback = st.fallback /\ t.reserved = st.reserved
      /\ t.pending = st.pending
      /\ u \in BrokerState /\ u.fallback = st.fallback /\ u.reserved = st.reserved
      /\ u.pending = st.pending \ {r}
  <2>1. /\ t \in BrokerState /\ t.fallback = st.fallback /\ t.reserved = st.reserved
        /\ t.pending = st.pending
    <3>1. None \notin alive
      BY Nones
    <3> QED
      BY <3>1, EndedKeeps
  <2> HIDE DEF t
  <2> QED
    BY <2>1, DropEffect DEF Stable
<1> HIDE DEF t, u
<1>2. req \in [Requests -> ReqState]
  BY TypeParts
<1>3. CASE /\ op = "check" /\ queue' = q
           /\ \/ st' = t /\ req' = [req EXCEPT ![r].att = "decide"]
              \/ st' = u /\ req' = [req EXCEPT ![r].att = "err"]
  <2>0. /\ st'.fallback = st.fallback /\ st'.reserved = st.reserved
        /\ st'.pending \in {st.pending, st.pending \ {r}}
        /\ \/ req' = [req EXCEPT ![r].att = "decide"] /\ st'.pending = st.pending
           \/ req' = [req EXCEPT ![r].att = "err"]
    BY <1>1, <1>3
  <2>1. /\ \A x \in Requests : x # r => req'[x] = req[x]
        /\ req'[r].pc = req[r].pc /\ req'[r].err = req[r].err
        /\ req'[r].att \in {"decide", "err"} /\ (req'[r].att = "decide" => st'.pending = st.pending)
        /\ req'[r].client = req[r].client /\ req'[r].cand = req[r].cand
        /\ req'[r].adopted = req[r].adopted /\ req'[r].closeStarted = req[r].closeStarted
    BY <1>2, <1>3, <2>0 DEF ReqState, Closes
  <2>2. r \in Requests /\ req[r].att = "queued" /\ ~In(q, {"check"}, r)
    BY <1>3 DEF Closes
  <2> QED
    BY <1>3, <2>0, <2>1, <2>2, Mains, Aside, Book
       DEF QueueInv, QueueOf, StageInv, StageOf, Waits, Within
<1>4. CASE op = "adopt" /\ Fail(r, s, "abort", q)
  BY <1>4, FailBook DEF Closes, Waits
<1>5. CASE op = "cleanup" /\ \E ok \in BOOLEAN : CleanedUp(r, t, ok, q)
  BY <1>1, <1>5, CleanedUpBook DEF Closes
<1>6. CASE /\ op = "late"
           /\ \E ok \in BOOLEAN : CleanedUp(r, t, ok, q) \/ CleanedUp(r, u, ok, q)
  BY <1>1, <1>6, CleanedUpBook DEF Closes
<1>7. CASE op = "unlease" /\ st' = t /\ Go(r, "done") /\ queue' = q
  <2>1. /\ \A x \in Requests : x # r => req'[x] = req[x]
        /\ req'[r].pc = "done" /\ req'[r].err = req[r].err /\ req'[r].att = req[r].att
        /\ req'[r].client = req[r].client /\ req'[r].cand = req[r].cand
        /\ req'[r].adopted = req[r].adopted /\ req'[r].closeStarted = req[r].closeStarted
    BY <1>2, <1>7 DEF ReqState, Closes, Go
  <2> QED
    BY <1>1, <1>7, <2>1, Mains, Aside, Book
       DEF QueueInv, QueueOf, StageInv, StageOf, Waits, Within, Closes
<1>8. CASE st' = t /\ req' = req /\ queue' = q
  BY <1>1, <1>8, Aside, Book DEF Within
<1> QED
  BY <1>3, <1>4, <1>5, <1>6, <1>7, <1>8, ContinueCases DEF t, u

LEMMA ClosingBook ==
    ASSUME TypeOK, QueueInv, StageInv, NEW op, NEW r, NEW c \in Clients \cup {None},
           NEW p \in Procs \cup {None}, NEW s \in BrokerState, Closing(op, r, c, p, s),
           Closes(op, r, Tail(queue)), Within(Tail(queue), queue), Tail(queue) \in Seq(Operation),
           s.fallback = st.fallback, s.reserved = st.reserved, s.pending = st.pending
    PROVE  QueueInv' /\ StageInv'
<1> DEFINE f == Forgive(s, c)
           u == RetainDeferred(f, p)
<1>1. /\ f \in BrokerState /\ f.fallback = st.fallback /\ f.reserved = st.reserved
      /\ f.pending = st.pending
  BY ForgiveEffect DEF Marked
<1> HIDE DEF f
<1>2. /\ u \in BrokerState /\ u.fallback = st.fallback /\ u.reserved = st.reserved
      /\ u.pending = st.pending
  BY <1>1, RetainEffect, Nones DEF Stable, Marked
<1> HIDE DEF u
<1>3. CASE hold' = None /\ Continue(op, r, c, p, u, Tail(queue))
  BY <1>2, <1>3, ContinueBook
<1>4. CASE /\ st' = u \/ (st' = Shut(s, c) /\ c # None)
           /\ req' = req /\ queue' = Tail(queue)
           /\ hold' = [op |-> op, r |-> r, c |-> c, p |-> p]
  <2>1. /\ st'.fallback = st.fallback /\ st'.reserved = st.reserved
        /\ st'.pending = st.pending
    BY <1>2, <1>4, ShutEffect DEF Marked
  <2>2. hold'.op = op /\ hold'.r = r
    BY <1>4
  <2>3. ASSUME NEW x \in Requests, x # r PROVE QueueOf(x)' /\ StageOf(x)'
    BY <1>4, <2>1, <2>2, <2>3, Aside DEF Within
  <2>4. ASSUME r \in Requests PROVE QueueOf(r)' /\ StageOf(r)'
    <3>1. QueueOf(r)'
      BY <1>4, <2>1, <2>2, <2>4, Nones DEF QueueInv, QueueOf, Waits, Within, Closes
    <3>2. StageOf(r)'
      BY <1>4, <2>1, <2>2, <2>4, Nones DEF StageInv, StageOf, Waits, Within, Closes
    <3> QED
      BY <3>1, <3>2
  <2> QED
    BY <2>3, <2>4, Book
<1> QED
  BY <1>3, <1>4, ClosingCases DEF u, f

LEMMA CloserBook ==
    ASSUME TypeOK, QueueInv, StageInv, NEW r \in Requests,
           Adopt(r) \/ ReleaseLease(r) \/ Cleanup(r)
    PROVE  QueueInv' /\ StageInv'
<1> DEFINE q == Tail(queue)
<1>1. /\ st \in BrokerState /\ req \in [Requests -> ReqState] /\ None \notin alive
      /\ r # None
  BY TypeParts, Nones
<1>2. ASSUME NEW o \in {"adopt", "unlease", "cleanup"}, Turn(o, r)
      PROVE  /\ q \in Seq(Operation) /\ hold = None
             /\ Within(q, queue) /\ In(queue, {o}, r) /\ In(queue, Main, r) /\ ~In(q, Main, r)
             /\ req[r].pc = "queued" /\ st.fallback # r
  <2>1. Takes(q, queue, o, r) /\ q \in Seq(Operation) /\ hold = None
    BY <1>2, Taken
  <2>2. o \in Main
    BY DEF Main
  <2>3. In(queue, {o}, r) /\ In(queue, Main, r) /\ ~In(q, Main, r)
    BY <2>1, <2>2 DEF Takes, QueueInv, QueueOf
  <2> QED
    BY <2>1, <2>3 DEF Takes, QueueInv, QueueOf
<1> HIDE DEF q
<1>3. CASE Adopt(r)
  <2> DEFINE c == req[r].cand
             s1 == [st EXCEPT !.users[c] = @ \cup {r}, !.unavailable = FALSE, !.closed = @ \ {c},
                              !.pending = @ \ {r}, !.fenced = @ \ {r}]
             s2 == [Finalize(s1) EXCEPT !.publication = IF @ = c THEN None ELSE @]
             s3 == [st EXCEPT !.retired = @ \cup {c}]
  <2>1. Turn("adopt", r)
    BY <1>3 DEF Adopt
  <2>2. In(queue, {"gate", "adopt"}, r) /\ In(queue, {"adopt", "unlease"}, r)
    BY <2>1, Taken DEF Takes
  <2>3. c \in Clients /\ req[r].att = "settled" /\ r \in st.reserved
    BY <1>2, <2>1, <2>2, CandType DEF StageInv, StageOf
  <2>4. CASE \E e \in {"abort", "fence", "broker"} : Fail(r, st, e, q) /\ hold' = None
    BY <1>1, <1>2, <2>1, <2>4, FailBook DEF Waits
  <2>5. CASE Closing("adopt", r, c, None, s3)
    <3>1. /\ s3 \in BrokerState /\ s3.fallback = st.fallback /\ s3.reserved = st.reserved
          /\ s3.pending = st.pending
      BY <1>1, <2>3 DEF BrokerState
    <3> HIDE DEF s3
    <3> QED
      BY <1>2, <2>1, <2>3, <2>5, <3>1, ClosingBook DEF Closes, q
  <2>6. CASE /\ st' = s2
             /\ req' = [req EXCEPT ![r].client = c, ![r].adopted = TRUE]
             /\ queue' = Append(q, <<"unreserve", r>>)
             /\ hold' = None
    <3>1. /\ s1 \in BrokerState /\ s1.fallback = st.fallback /\ s1.reserved = st.reserved
          /\ s1.pending = st.pending \ {r}
      BY <1>1, <2>3 DEF BrokerState
    <3> HIDE DEF s1
    <3>2. /\ Finalize(s1) \in BrokerState /\ Finalize(s1).fallback = st.fallback
          /\ Finalize(s1).reserved = st.reserved /\ Finalize(s1).pending = st.pending \ {r}
      BY <3>1, FinalizeEffect DEF Stable, Marked
    <3>3. st'.fallback = st.fallback /\ st'.reserved = st.reserved /\ st'.pending = st.pending \ {r}
      BY <2>6, <3>2 DEF BrokerState
    <3>4. Adds(queue', q, "unreserve", r)
      BY <1>2, <2>1, <2>6, Appended, Entries
    <3>5. /\ \A x \in Requests : x # r => req'[x] = req[x]
          /\ req'[r].pc = req[r].pc /\ req'[r].err = req[r].err
          /\ req'[r].att = req[r].att /\ req'[r].client = c /\ req'[r].cand = req[r].cand
          /\ req'[r].adopted = TRUE /\ req'[r].closeStarted = req[r].closeStarted
      BY <1>1, <2>6 DEF ReqState
    <3>6. ASSUME NEW x \in Requests, x # r PROVE QueueOf(x)' /\ StageOf(x)'
      <4>1. /\ \A O : In(queue', O, x) => In(queue, O, x)
            /\ \A O : Once(queue, O, x) => Once(queue', O, x)
        BY <1>2, <2>1, <3>4, <3>6 DEF Adds, Within
      <4> QED
        BY <2>6, <3>3, <3>5, <3>6, <4>1, Aside
    <3>7. c # None /\ r \in Requests
      BY <2>3, LaneAssumption
    <3>8. QueueOf(r)'
      BY <1>2, <2>1, <2>6, <3>3, <3>4, <3>5
         DEF QueueInv, QueueOf, Waits, Within, Adds, Main
    <3>9. StageOf(r)'
      BY <1>2, <2>1, <2>3, <2>6, <3>3, <3>4, <3>5, <3>7, Mains
         DEF StageInv, StageOf, Waits, Within, Adds
    <3> QED
      BY <3>6, <3>8, <3>9, Book
  <2> QED
    BY <1>3, <2>4, <2>5, <2>6 DEF Adopt, q
<1>4. CASE ReleaseLease(r)
  <2> DEFINE c == req[r].client
             s1 == [st EXCEPT !.users[c] = @ \ {r}]
             s2 == [s1 EXCEPT !.retired = @ \ {c}, !.client = IF @ = c THEN None ELSE @]
  <2>1. Turn("unlease", r)
    BY <1>4 DEF ReleaseLease
  <2>2. c \in Clients /\ req[r].att = "settled"
    <3>1. In(queue, {"adopt", "unlease"}, r)
      BY <2>1, Taken DEF Takes
    <3> QED
      BY <1>2, <2>1, <3>1, CandType DEF StageInv, StageOf
  <2>3. Closes("unlease", r, q)
    BY <1>2, <2>1, <2>2 DEF Closes
  <2>4. /\ s1 \in BrokerState /\ s1.fallback = st.fallback /\ s1.reserved = st.reserved
        /\ s1.pending = st.pending
    BY <1>1 DEF BrokerState
  <2> HIDE DEF s1
  <2>5. /\ s2 \in BrokerState /\ s2.fallback = st.fallback /\ s2.reserved = st.reserved
        /\ s2.pending = st.pending
    BY <2>4 DEF BrokerState
  <2> DEFINE s3 == Detach(s1)
  <2>6. /\ st.deferred \in Procs \cup {None} /\ Child(st) \in Procs \cup {None}
        /\ s3 \in BrokerState /\ s3.fallback = st.fallback /\ s3.reserved = st.reserved
        /\ s3.pending = st.pending
    BY <1>1, <2>4, DetachEffect DEF BrokerState, Marked
  <2> HIDE DEF s2, s3
  <2>7. CASE Closing("unlease", r, c, st.deferred, s2)
    BY <1>2, <2>1, <2>2, <2>3, <2>5, <2>6, <2>7, ClosingBook DEF q
  <2>8. CASE Closing("unlease", r, c, Child(st), s3)
    BY <1>2, <2>1, <2>2, <2>3, <2>6, <2>8, ClosingBook DEF q
  <2>9. CASE Continue("unlease", r, None, None, s1, q) /\ hold' = None
    BY <1>1, <1>2, <2>1, <2>3, <2>4, <2>9, ContinueBook
  <2> QED
    BY <1>4, <2>7, <2>8, <2>9 DEF ReleaseLease, s1, s2, s3, q
<1>5. CASE Cleanup(r)
  <2> DEFINE c == req[r].client
             cand == req[r].cand
             s1 == [st EXCEPT !.users[c] = @ \ {r}]
             s2 == CloseLate(s1, c)
             s3 == [s2 EXCEPT !.retired = @ \ {c}, !.deferred = None]
             s4 == Detach(s2)
             s5 == CloseLate(st, cand)
             s6 == DropMarkers(st, {r})
  <2>1. Turn("cleanup", r)
    BY <1>5 DEF Cleanup
  <2>2. c \in Clients \cup {None} /\ (Unowned(r) => cand \in Clients)
    BY CandType
  <2>3. req[r].err # "none"
    BY <1>2, <2>1 DEF StageInv, StageOf
  <2>4. Closes("cleanup", r, q) /\ (Unowned(r) => Closes("late", r, q))
    BY <1>2, <2>1, <2>3 DEF Closes, Unowned
  <2>5. /\ s1 \in BrokerState /\ s1.fallback = st.fallback /\ s1.reserved = st.reserved
        /\ s1.pending = st.pending
    BY <1>1 DEF BrokerState
  <2> HIDE DEF s1
  <2>6. c \in Clients => /\ s2 \in BrokerState /\ s2.fallback = st.fallback
                         /\ s2.reserved = st.reserved /\ s2.pending = st.pending
    BY <2>5 DEF BrokerState, CloseLate
  <2> HIDE DEF s2
  <2>7. c \in Clients => /\ s3 \in BrokerState /\ s3.fallback = st.fallback
                         /\ s3.reserved = st.reserved /\ s3.pending = st.pending
    BY <2>6 DEF BrokerState
  <2>8. c \in Clients => /\ s4 \in BrokerState /\ s4.fallback = st.fallback
                         /\ s4.reserved = st.reserved /\ s4.pending = st.pending
    BY <1>1, <2>6, DetachEffect DEF Marked
  <2>9. Unowned(r) => /\ s5 \in BrokerState /\ s5.fallback = st.fallback
                      /\ s5.reserved = st.reserved /\ s5.pending = st.pending
    BY <1>1, <2>2 DEF BrokerState, CloseLate
  <2>10. /\ s6 \in BrokerState /\ s6.fallback = st.fallback /\ s6.reserved = st.reserved
         /\ s6.pending = st.pending \ {r}
    BY <1>1, DropEffect DEF Stable
  <2>11. st.deferred \in Procs \cup {None} /\ Child(st) \in Procs \cup {None}
    BY <1>1, DetachEffect DEF BrokerState
  <2> HIDE DEF s3, s4, s5, s6
  <2>12. CASE CleanedUp(r, s1, FALSE, q) /\ hold' = None
    BY <1>2, <2>1, <2>3, <2>5, <2>12, CleanedUpBook
  <2>13. CASE c # None /\ Closing("cleanup", r, c, Child(st), s4)
    BY <1>2, <2>1, <2>2, <2>4, <2>8, <2>11, <2>13, ClosingBook DEF q
  <2>14. CASE c # None /\ Closing("cleanup", r, c, st.deferred, s3)
    BY <1>2, <2>1, <2>2, <2>4, <2>7, <2>11, <2>14, ClosingBook DEF q
  <2>15. CASE CleanedUp(r, st, TRUE, q) /\ hold' = None
    BY <1>1, <1>2, <2>1, <2>3, <2>15, CleanedUpBook
  <2>16. CASE Unowned(r) /\ CleanedUp(r, s6, TRUE, q) /\ hold' = None
    BY <1>2, <2>1, <2>3, <2>10, <2>16, CleanedUpBook DEF Unowned
  <2>17. CASE Unowned(r) /\ Closing("late", r, cand, None, s5)
    BY <1>2, <2>1, <2>2, <2>4, <2>9, <2>17, ClosingBook DEF q
  <2> QED
    BY <1>5, <2>12, <2>13, <2>14, <2>15, <2>16, <2>17
       DEF Cleanup, s1, s2, s3, s4, s5, s6, q
<1> QED
  BY <1>3, <1>4, <1>5

\* An attempt that ends with an error.
LEMMA ErrorBook ==
    ASSUME TypeOK, QueueInv, StageInv, NEW r \in Requests, NEW s \in BrokerState,
           AttemptError(r, s), req[r].att \notin {"none", "settled"},
           Within(queue', queue), ~In(queue', {"check"}, r), hold' = hold, ~Waits({"check"}, r),
           s.fallback = st.fallback, s.reserved = st.reserved, s.pending = st.pending
    PROVE  QueueInv' /\ StageInv'
<1>1. /\ st'.fallback = st.fallback /\ st'.reserved = st.reserved
      /\ st'.pending = st.pending \ {r}
  BY DropEffect DEF AttemptError, Stable
<1>2. /\ \A x \in Requests : x # r => req'[x] = req[x]
      /\ req'[r].pc = req[r].pc /\ req'[r].err = req[r].err
      /\ req'[r].att = "err" /\ req'[r].client = req[r].client /\ req'[r].cand = req[r].cand
      /\ req'[r].adopted = req[r].adopted /\ req'[r].closeStarted = req[r].closeStarted
  BY TypeParts DEF AttemptError, ReqState
<1> QED
  BY <1>1, <1>2, Aside, Book DEF QueueInv, QueueOf, StageInv, StageOf, Waits, Within

\* An attempt that goes on to the stage a.
LEMMA AttBook ==
    ASSUME TypeOK, QueueInv, StageInv, NEW r \in Requests,
           req[r].att \in {"queued", "decide", "deferred"},
           Within(queue', queue), ~In(queue', {"check"}, r), hold' = hold, ~Waits({"check"}, r),
           st'.fallback = st.fallback, st'.reserved = st.reserved, st'.pending = st.pending,
           \A x \in Requests : x # r => req'[x] = req[x],
           req'[r].pc = req[r].pc, req'[r].err = req[r].err, req'[r].client = req[r].client,
           req'[r].adopted = req[r].adopted, req'[r].closeStarted = req[r].closeStarted,
           req'[r].att \in {"decide", "deferred", "joined", "ok"},
           req'[r].att = "ok" => req'[r].cand # None
    PROVE  QueueInv' /\ StageInv'
BY Aside, Book DEF QueueInv, QueueOf, StageInv, StageOf, Waits, Within

LEMMA AttemptBook ==
    ASSUME TypeOK, QueueInv, StageInv, JoinInv, NEW r \in Requests, Attempt(r)
    PROVE  QueueInv' /\ StageInv'
<1>1. /\ st \in BrokerState /\ req \in [Requests -> ReqState] /\ queue \in Seq(Operation)
      /\ gen \in [Gens -> GenState] /\ None \notin alive /\ None \notin open
      /\ st.client \in Clients \cup {None} /\ st.startup \in Gens \cup {None}
  BY TypeParts, Nones DEF BrokerState
<1>2. Within(queue, queue)
  BY DEF Within
<1>3. CASE AttemptWait(r)
  <2>1. /\ req[r].att = "waiting" /\ hold' = hold
        /\ ~In(queue, {"check"}, r) /\ ~Waits({"check"}, r)
    BY <1>3 DEF AttemptWait, Others, QueueInv, QueueOf
  <2>2. CASE st' = st /\ Enqueue("check", r) /\ req' = [req EXCEPT ![r].att = "queued"]
    <3>1. Adds(queue', queue, "check", r)
      BY <1>1, <2>2, Appended, Entries DEF Enqueue
    <3>2. /\ \A x \in Requests : x # r => req'[x] = req[x]
          /\ req'[r].pc = req[r].pc /\ req'[r].err = req[r].err
          /\ req'[r].att = "queued" /\ req'[r].client = req[r].client
          /\ req'[r].cand = req[r].cand
          /\ req'[r].adopted = req[r].adopted /\ req'[r].closeStarted = req[r].closeStarted
      BY <1>1, <2>2 DEF ReqState
    <3> QED
      BY <2>1, <2>2, <3>1, <3>2, Mains, Aside, Book
         DEF QueueInv, QueueOf, StageInv, StageOf, Waits, Adds, Main
  <2>3. CASE AttemptError(r, st) /\ queue' = queue
    BY <1>1, <1>2, <2>1, <2>3, ErrorBook
  <2> QED
    BY <1>3, <2>2, <2>3 DEF AttemptWait
<1>4. CASE AttemptCheck(r)
  <2> DEFINE c == st.client
             q == Tail(queue)
             s1 == Unset(st)
             s2 == Retire(s1, c)
  <2>1. /\ Takes(q, queue, "check", r) /\ q \in Seq(Operation) /\ hold = None
    BY <1>4, Taken DEF AttemptCheck
  <2>2. /\ Within(q, queue) /\ In(queue, {"check"}, r) /\ ~In(q, {"check"}, r)
        /\ req[r].att = "queued" /\ ~Waits({"check"}, r)
    BY <2>1 DEF Takes, QueueInv, QueueOf, Waits
  <2> HIDE DEF q
  <2>3. CASE AttemptError(r, st) /\ queue' = q /\ hold' = None
    BY <1>1, <2>1, <2>2, <2>3, ErrorBook
  <2>4. \A f : req' = [req EXCEPT ![r].att = "decide"] =>
               /\ \A x \in Requests : x # r => req'[x] = req[x]
               /\ req'[r].pc = req[r].pc /\ req'[r].err = req[r].err
               /\ req'[r].att = "decide" /\ req'[r].client = req[r].client
               /\ req'[r].adopted = req[r].adopted /\ req'[r].closeStarted = req[r].closeStarted
    BY <1>1 DEF ReqState
  <2>5. CASE /\ st' = st /\ req' = [req EXCEPT ![r].att = "decide"]
             /\ queue' = q /\ hold' = None
    BY <2>1, <2>2, <2>4, <2>5, AttBook
  <2>6. /\ s1 \in BrokerState /\ s1.fallback = st.fallback /\ s1.reserved = st.reserved
        /\ s1.pending = st.pending
    BY <1>1 DEF BrokerState, Unset
  <2> HIDE DEF s1
  <2>7. CASE /\ st' = s2 /\ req' = [req EXCEPT ![r].att = "decide"]
             /\ queue' = q /\ hold' = None
    <3>1. /\ st'.fallback = st.fallback /\ st'.reserved = st.reserved
          /\ st'.pending = st.pending
      BY <2>6, <2>7 DEF BrokerState, Retire
    <3> QED
      BY <2>1, <2>2, <2>4, <2>7, <3>1, AttBook
  <2>8. CASE c # None /\ Closing("check", r, c, None, s1)
    <3>1. Closes("check", r, q)
      BY <2>2 DEF Closes
    <3> QED
      BY <1>1, <2>1, <2>2, <2>6, <2>8, <3>1, ClosingBook DEF q
  <2> QED
    BY <1>4, <2>3, <2>5, <2>7, <2>8 DEF AttemptCheck, Unset, Retire, s1, q
<1>5. CASE AttemptDecide(r)
  <2>1. /\ req[r].att \in {"decide", "deferred"} /\ hold' = hold /\ queue' = queue
        /\ ~In(queue, {"check"}, r) /\ ~Waits({"check"}, r)
    BY <1>5 DEF AttemptDecide, QueueInv, QueueOf
  <2>2. CASE /\ st.client \in open
             /\ req' = [req EXCEPT ![r].att = "ok", ![r].cand = st.client]
             /\ st' = st
    <3>1. /\ \A x \in Requests : x # r => req'[x] = req[x]
          /\ req'[r].pc = req[r].pc /\ req'[r].err = req[r].err
          /\ req'[r].att = "ok" /\ req'[r].client = req[r].client
          /\ req'[r].cand = st.client
          /\ req'[r].adopted = req[r].adopted /\ req'[r].closeStarted = req[r].closeStarted
      BY <1>1, <2>2 DEF ReqState
    <3> QED
      BY <1>1, <1>2, <2>1, <2>2, <3>1, AttBook
  <2>3. CASE AttemptError(r, st)
    BY <1>1, <1>2, <2>1, <2>3, ErrorBook
  <2>4. CASE /\ \E a \in {"deferred", "joined"} : \E g :
                   req' = [req EXCEPT ![r].att = a, ![r].gen = g]
             /\ \/ st' = st
                \/ \E g \in Gens : st' = [st EXCEPT !.startup = g]
    <3>1. /\ \A x \in Requests : x # r => req'[x] = req[x]
          /\ req'[r].pc = req[r].pc /\ req'[r].err = req[r].err
          /\ req'[r].att \in {"deferred", "joined"} /\ req'[r].client = req[r].client
          /\ req'[r].adopted = req[r].adopted /\ req'[r].closeStarted = req[r].closeStarted
      BY <1>1, <2>4 DEF ReqState
    <3>2. /\ st'.fallback = st.fallback /\ st'.reserved = st.reserved
          /\ st'.pending = st.pending
      BY <1>1, <2>4 DEF BrokerState
    <3> QED
      BY <1>2, <2>1, <3>1, <3>2, AttBook
  <2> QED
    BY <1>5, <2>2, <2>3, <2>4 DEF AttemptDecide
<1>6. CASE AttemptLeaves(r)
  <2> DEFINE g == req[r].gen
             s == Cancel(st, g)
  <2>1. /\ req[r].att = "joined" /\ hold' = hold /\ queue' = queue
        /\ ~In(queue, {"check"}, r) /\ ~Waits({"check"}, r)
        /\ AttemptError(r, s) \/ AttemptError(r, st)
    BY <1>6 DEF AttemptLeaves, QueueInv, QueueOf
  <2>2. g \in Gens
    BY <1>1, <2>1 DEF JoinInv, ReqState
  <2>3. gen[g].proc \in Procs \cup {None}
    BY <1>1, <2>2 DEF GenState
  <2>4. /\ s \in BrokerState /\ s.fallback = st.fallback /\ s.reserved = st.reserved
        /\ s.pending = st.pending
    BY <1>1, <2>2, <2>3, CancelEffect DEF Marked
  <2> HIDE DEF s
  <2> QED
    BY <1>1, <1>2, <2>1, <2>4, ErrorBook
<1>7. CASE AttemptConnects(r)
  <2> DEFINE q == Append(queue, <<"settle", r>>)
  <2>1. /\ st' = st /\ hold' = hold /\ req[r].att = "ok"
        /\ \A x \in Requests : x # r => req'[x] = req[x]
        /\ req'[r].pc = IF req[r].pc = "connect" THEN "queued" ELSE req[r].pc
        /\ req'[r].err = req[r].err /\ req'[r].att = "settled"
        /\ req'[r].client = req[r].client /\ req'[r].cand = req[r].cand
        /\ req'[r].adopted = req[r].adopted /\ req'[r].closeStarted = req[r].closeStarted
    BY <1>1, <1>7 DEF AttemptConnects, Others, ReqState
  <2>2. <<"settle", r>> \in Operation /\ <<"adopt", r>> \in Operation
    BY Entries
  <2>3. Adds(q, queue, "settle", r) /\ q \in Seq(Operation) /\ queue \o <<<<"settle", r>>>> = q
    BY <1>1, <2>2, Appended, AppendQ
  <2> HIDE DEF q
  <2>4. q \o <<<<"adopt", r>>>> = Append(q, <<"adopt", r>>) /\ q \o <<>> = q
    BY <2>2, <2>3, AppendQ
  <2>5. Adds(Append(q, <<"adopt", r>>), q, "adopt", r)
    BY <2>2, <2>3, Appended
  <2>6. \/ req[r].pc = "connect" /\ Adds(queue', q, "adopt", r)
        \/ req[r].pc # "connect" /\ queue' = q
    BY <1>7, <2>3, <2>4, <2>5 DEF AttemptConnects
  <2>7. ASSUME NEW x \in Requests, x # r PROVE QueueOf(x)' /\ StageOf(x)'
    <3>1. /\ \A O : In(queue', O, x) => In(queue, O, x)
          /\ \A O : Once(queue, O, x) => Once(queue', O, x)
      BY <2>3, <2>6, <2>7 DEF Adds
    <3> QED
      BY <2>1, <2>7, <3>1, Aside
  <2>8. CASE req[r].pc = "connect" /\ Adds(queue', q, "adopt", r)
    <3>1. QueueOf(r)'
      BY <2>1, <2>3, <2>8 DEF QueueInv, QueueOf, Waits, Adds, Main
    <3>2. StageOf(r)'
      BY <2>1, <2>3, <2>8, Mains DEF QueueInv, QueueOf, StageInv, StageOf, Waits, Adds
    <3> QED
      BY <2>7, <3>1, <3>2, Book
  <2>9. CASE req[r].pc # "connect" /\ queue' = q
    <3>1. QueueOf(r)'
      BY <2>1, <2>3, <2>9 DEF QueueInv, QueueOf, Waits, Adds, Main
    <3>2. StageOf(r)'
      BY <2>1, <2>3, <2>9, Mains DEF QueueInv, QueueOf, StageInv, StageOf, Waits, Adds
    <3> QED
      BY <2>7, <3>1, <3>2, Book
  <2> QED
    BY <2>6, <2>8, <2>9
<1>8. CASE AttemptSettles(r)
  <2> DEFINE s1 == [st EXCEPT !.pending = @ \ {r}]
  <2>1. Takes(Tail(queue), queue, "settle", r) /\ hold' = hold /\ req' = req /\ queue' = Tail(queue)
    BY <1>8, Taken DEF AttemptSettles, Others
  <2>2. req[r].att = "settled"
    BY <2>1 DEF Takes, StageInv, StageOf
  <2>3. /\ s1 \in BrokerState /\ s1.fallback = st.fallback /\ s1.reserved = st.reserved
        /\ s1.pending = st.pending \ {r}
    BY <1>1 DEF BrokerState
  <2>4. st' = st \/ st' = Finalize(s1)
    BY <1>8 DEF AttemptSettles
  <2> HIDE DEF s1
  <2>5. /\ st'.fallback = st.fallback /\ st'.reserved = st.reserved
        /\ st'.pending \in {st.pending, st.pending \ {r}}
    BY <2>3, <2>4, FinalizeEffect DEF Stable, Marked
  <2> QED
    BY <2>1, <2>2, <2>5, Aside, Book
       DEF QueueInv, QueueOf, StageInv, StageOf, Waits, Within, Takes
<1> QED
  BY <1>3, <1>4, <1>5, <1>6, <1>7, <1>8 DEF Attempt

LEMMA StartupBook ==
    ASSUME TypeOK, QueueInv, StageInv, NEW g \in Gens,
           StartupConnect(g) \/ StartupRefused(g) \/ StartupSpawn(g) \/ StartupFail(g)
    PROVE  QueueInv' /\ StageInv'
<1>1. /\ st \in BrokerState /\ req \in [Requests -> ReqState] /\ made \in Counts
      /\ None \notin alive /\ None \notin Clients /\ gen[g].proc \in Procs \cup {None}
  BY TypeParts, Nones DEF GenState
<1>2. hold' = hold /\ queue' = queue
  BY DEF StartupConnect, StartupRefused, StartupSpawn, StartupFail
<1>3. CASE StartupConnect(g)
  <2> DEFINE c == made.client + 1
  <2>1. /\ c # None
        /\ st'.fallback = st.fallback /\ st'.reserved = st.reserved /\ st'.pending = st.pending
    BY <1>1, <1>3 DEF StartupConnect, BrokerState
  <2>2. \A x \in Requests :
           \/ req'[x] = req[x]
           \/ /\ req[x].att = "joined" /\ req'[x].att = "ok" /\ req'[x].cand = c
              /\ req'[x].pc = req[x].pc /\ req'[x].err = req[x].err
              /\ req'[x].client = req[x].client
              /\ req'[x].adopted = req[x].adopted /\ req'[x].closeStarted = req[x].closeStarted
    <3>1. \/ req' = req
          \/ req' = [x \in Requests |-> IF x \in Joined(g)
                        THEN [req[x] EXCEPT !.att = "ok", !.cand = c] ELSE req[x]]
      BY <1>3 DEF StartupConnect
    <3> HIDE DEF c
    <3>3. \A x \in Joined(g) : x \in Requests /\ req[x].att = "joined" /\ req[x] \in ReqState
      BY <1>1 DEF Joined
    <3>4. SUFFICES ASSUME NEW x \in Requests, req' # req, x \in Joined(g)
                   PROVE  /\ req[x].att = "joined" /\ req'[x].att = "ok" /\ req'[x].cand = c
                          /\ req'[x].pc = req[x].pc /\ req'[x].err = req[x].err
                          /\ req'[x].client = req[x].client
                          /\ req'[x].adopted = req[x].adopted
                          /\ req'[x].closeStarted = req[x].closeStarted
      BY <3>1
    <3> DEFINE h == [req[x] EXCEPT !.att = "ok", !.cand = c]
    <3>5. req'[x] = h
      BY <3>1, <3>4
    <3>6. /\ h.att = "ok" /\ h.cand = c /\ h.pc = req[x].pc
          /\ h.err = req[x].err /\ h.client = req[x].client
          /\ h.adopted = req[x].adopted /\ h.closeStarted = req[x].closeStarted
      BY <3>3, <3>4 DEF ReqState
    <3> HIDE DEF h
    <3> QED
      BY <3>3, <3>4, <3>5, <3>6
  <2> HIDE DEF c
  <2> QED
    BY <1>2, <2>1, <2>2, Aside, Book DEF QueueInv, QueueOf, StageInv, StageOf, Waits
<1>4. CASE StartupRefused(g)
  BY <1>2, <1>4, Aside, Book DEF StartupRefused
<1>5. CASE StartupSpawn(g)
  <2>1. /\ st'.fallback = st.fallback /\ st'.reserved = st.reserved /\ st'.pending = st.pending
        /\ req' = req
    BY <1>1, <1>5 DEF StartupSpawn, BrokerState
  <2> QED
    BY <1>2, <2>1, Aside, Book
<1>6. CASE StartupFail(g)
  <2> DEFINE s0 == [st EXCEPT !.startup = IF @ = g THEN None ELSE @]
             s1 == TerminateOwn(s0, g)
  <2>1. /\ s0 \in BrokerState /\ s0.fallback = st.fallback /\ s0.reserved = st.reserved
        /\ s0.pending = st.pending
    BY <1>1 DEF BrokerState
  <2> HIDE DEF s0
  <2>2. /\ s1 \in BrokerState /\ s1.fallback = st.fallback /\ s1.reserved = st.reserved
        /\ s1.pending = st.pending
    BY <1>1, <2>1, TerminateEffect DEF Marked
  <2> HIDE DEF s1
  <2>3. /\ st' = s1 \/ st' = DropMarkers(s1, Joined(g))
    BY <1>6 DEF StartupFail, s1, s0
  <2>4. /\ st'.fallback = st.fallback /\ st'.reserved = st.reserved
        /\ \A x \in st.pending : x \in st'.pending \/ x \in Joined(g)
    BY <2>2, <2>3, DropEffect DEF Stable
  <2>5. \A x \in Requests :
           \/ req'[x] = req[x] /\ x \notin Joined(g)
           \/ /\ req[x].att = "joined" /\ req'[x].att = "err" /\ req'[x].cand = req[x].cand
              /\ req'[x].pc = req[x].pc /\ req'[x].err = req[x].err
              /\ req'[x].client = req[x].client
              /\ req'[x].adopted = req[x].adopted /\ req'[x].closeStarted = req[x].closeStarted
    BY <1>1, <1>6 DEF StartupFail, Joined, ReqState
  <2> QED
    BY <1>2, <2>4, <2>5, Aside, Book DEF QueueInv, QueueOf, StageInv, StageOf, Waits
<1> QED
  BY <1>3, <1>4, <1>5, <1>6

LEMMA ProcBook ==
    ASSUME TypeOK, QueueInv, StageInv, NEW p \in Procs, ProcExit(p) \/ ProcEvent(p)
    PROVE  QueueInv' /\ StageInv'
<1>1. /\ st \in BrokerState /\ req \in [Requests -> ReqState] /\ queue \in Seq(Operation)
      /\ None \notin alive
  BY TypeParts, Nones
<1>2. CASE ProcExit(p)
  <2> DEFINE s1 == [st EXCEPT !.deferred = None]
  <2>1. /\ s1 \in BrokerState /\ s1.fallback = st.fallback /\ s1.reserved = st.reserved
        /\ s1.pending = st.pending
    BY <1>1 DEF BrokerState
  <2>2. (st' = st \/ st' = Finalize(s1)) /\ hold' = hold /\ req' = req
    BY <1>2 DEF ProcExit
  <2> HIDE DEF s1
  <2>3. /\ st'.fallback = st.fallback /\ st'.reserved = st.reserved /\ st'.pending = st.pending
    BY <2>1, <2>2, FinalizeEffect DEF Stable, Marked
  <2>4. Adds(queue', queue, "exit", p)
    BY <1>1, <1>2, Appended, Entries DEF ProcExit, Enqueue
  <2> QED
    BY <2>2, <2>3, <2>4, Aside, Book DEF QueueInv, QueueOf, StageInv, StageOf, Waits, Adds, Main
<1>3. CASE ProcEvent(p)
  <2> DEFINE c == st.client
             s1 == [st EXCEPT !.process = None, !.unavailable = TRUE]
             s2 == [s1 EXCEPT !.retired = @ \cup {c}, !.teardown = TRUE]
             s3 == Detach(s1)
             q == Tail(queue)
  <2>1. Takes(q, queue, "exit", p) /\ q \in Seq(Operation) /\ hold = None
    BY <1>3, Taken DEF ProcEvent
  <2> HIDE DEF q
  <2>2. /\ s1 \in BrokerState /\ s1.fallback = st.fallback /\ s1.reserved = st.reserved
        /\ s1.pending = st.pending /\ c \in Clients \cup {None}
        /\ s1.deferred \in Procs \cup {None}
    BY <1>1 DEF BrokerState
  <2> HIDE DEF s1
  <2>3. /\ s2.fallback = st.fallback /\ s2.reserved = st.reserved /\ s2.pending = st.pending
    BY <2>2 DEF BrokerState
  <2>4. /\ s3 \in BrokerState /\ s3.fallback = st.fallback /\ s3.reserved = st.reserved
        /\ s3.pending = st.pending
    BY <1>1, <2>2, DetachEffect DEF Marked
  <2> HIDE DEF s2, s3
  <2>5. CASE (st' = st \/ st' = s2) /\ queue' = q /\ req' = req /\ hold' = None
    BY <2>1, <2>3, <2>5, Aside, Book DEF Takes, Within
  <2>6. CASE Closing("exit", None, c, s1.deferred, s3)
    BY <2>1, <2>2, <2>4, <2>6, ClosingBook DEF Closes, Takes, q
  <2> QED
    BY <1>3, <2>5, <2>6 DEF ProcEvent, s1, s2, s3, q
<1> QED
  BY <1>2, <1>3

LEMMA ClientBook ==
    ASSUME TypeOK, QueueInv, StageInv, NEW c \in Clients,
           PublicationTimer(c) \/ Unadopted(c) \/ CloseSettles(c) \/ Disconnect(c)
    PROVE  QueueInv' /\ StageInv'
<1>1. /\ st \in BrokerState /\ req \in [Requests -> ReqState] /\ queue \in Seq(Operation)
      /\ None \notin alive
  BY TypeParts, Nones
<1>2. CASE PublicationTimer(c)
  <2>1. queue' = queue \/ queue' = Append(queue, <<"unadopted", c>>)
    BY <1>2 DEF PublicationTimer, Enqueue
  <2>2. Adds(Append(queue, <<"unadopted", c>>), queue, "unadopted", c)
    BY <1>1, Appended, Entries
  <2>3. queue' = queue \/ Adds(queue', queue, "unadopted", c)
    BY <2>1, <2>2
  <2>4. hold' = hold /\ st' = st /\ req' = req
    BY <1>2 DEF PublicationTimer
  <2> QED
    BY <2>3, <2>4, Aside, Book DEF QueueInv, QueueOf, StageInv, StageOf, Waits, Adds, Main
<1>3. CASE Unadopted(c)
  <2> DEFINE s1 == [st EXCEPT !.publication = None]
             s3 == Detach(s1)
             q == Tail(queue)
  <2>1. Takes(q, queue, "unadopted", c) /\ q \in Seq(Operation) /\ hold = None
    BY <1>3, Taken DEF Unadopted
  <2> HIDE DEF q
  <2>2. CASE UNCHANGED <<st, req, hold>> /\ queue' = q
    BY <2>1, <2>2, Aside, Book DEF Takes, Within
  <2>3. CASE Closing("unadopted", None, c, Child(st), s3)
    <3>1. /\ s1 \in BrokerState /\ s1.fallback = st.fallback /\ s1.reserved = st.reserved
          /\ s1.pending = st.pending
      BY <1>1 DEF BrokerState
    <3> HIDE DEF s1
    <3>2. /\ s3 \in BrokerState /\ s3.fallback = st.fallback /\ s3.reserved = st.reserved
          /\ s3.pending = st.pending /\ Child(st) \in Procs \cup {None}
      BY <1>1, <3>1, DetachEffect DEF Marked
    <3> HIDE DEF s3
    <3> QED
      BY <2>1, <2>3, <3>2, ClosingBook DEF Closes, Takes, q
  <2> QED
    BY <1>3, <2>2, <2>3 DEF Unadopted, q
<1>4. CASE CloseSettles(c)
  <2> DEFINE mine == {r \in Requests : req[r].closeStarted /\ req[r].cand = c}
             s0 == [st EXCEPT !.closing = @ \ {c}]
             s1 == IF hold # None /\ hold.c = c THEN RetainDeferred(s0, hold.p) ELSE s0
             good == [s1 EXCEPT !.closed = @ \cup {c}, !.retired = @ \ {c}, !.failed = @ \ {c}]
  <2>1. /\ st' \in {DropMarkers(good, mine), DropMarkers(Failed(s1, c), mine)}
        /\ UNCHANGED <<req, queue, hold>>
    BY <1>4 DEF CloseSettles
  <2>2. /\ s0 \in BrokerState /\ s0.fallback = st.fallback /\ s0.reserved = st.reserved
        /\ s0.pending = st.pending
    BY <1>1 DEF BrokerState
  <2>3. \A x \in mine : x \in Requests /\ req[x].closeStarted
    OBVIOUS
  <2> HIDE DEF s0, mine
  <2>4. hold # None => hold.p \in Procs \cup {None}
    BY TypeParts DEF Holding
  <2>5. /\ s1 \in BrokerState /\ s1.fallback = st.fallback /\ s1.reserved = st.reserved
        /\ s1.pending = st.pending
    BY <1>1, <2>2, <2>4, RetainEffect DEF Stable, Marked
  <2> HIDE DEF s1
  <2>6. /\ good \in BrokerState /\ good.fallback = st.fallback /\ good.reserved = st.reserved
        /\ good.pending = st.pending
    BY <2>5 DEF BrokerState
  <2> DEFINE bad == Failed(s1, c)
  <2>7. /\ bad \in BrokerState /\ bad.fallback = st.fallback /\ bad.reserved = st.reserved
        /\ bad.pending = st.pending
    BY <2>5, FailedEffect DEF Marked
  <2>8. st' = DropMarkers(good, mine) \/ st' = DropMarkers(bad, mine)
    BY <2>1
  <2> HIDE DEF good, bad
  <2>9. /\ st'.fallback = st.fallback /\ st'.reserved = st.reserved
        /\ st'.pending = st.pending \ mine
    BY <2>6, <2>7, <2>8, DropEffect DEF Stable
  <2> QED
    BY <2>1, <2>3, <2>9, Aside, Book DEF QueueInv, QueueOf, StageInv, StageOf, Waits
<1>5. CASE Disconnect(c)
  BY <1>5, Aside, Book DEF Disconnect
<1> QED
  BY <1>2, <1>3, <1>4, <1>5

LEMMA CloseBook ==
    ASSUME TypeOK, QueueInv, StageInv,
           HoldEnds \/ ClosePrepare \/ CloseDrains \/ CloseEnds \/ Toggle
    PROVE  QueueInv' /\ StageInv'
<1>1. /\ st \in BrokerState /\ req \in [Requests -> ReqState] /\ queue \in Seq(Operation)
      /\ gen \in [Gens -> GenState] /\ None \notin alive /\ None \notin Gens
      /\ None \notin Requests
  BY TypeParts, Nones
<1>2. CASE HoldEnds
  <2>1. /\ hold # None /\ Continue(hold.op, hold.r, hold.c, hold.p, st, queue)
        /\ hold' = None
    BY <1>2 DEF HoldEnds, HoldReady
  <2>2. /\ hold.c \in Clients \cup {None} /\ hold.p \in Procs \cup {None}
        /\ hold.op \in {"check", "adopt", "cleanup", "late", "unlease"} => hold.r \in Requests
        /\ hold.op \notin {"check", "adopt", "cleanup", "late", "unlease"} => hold.r = None
    BY <2>1, TypeParts DEF Holding
  <2>3. Closes(hold.op, hold.r, queue)
    BY <2>1, <2>2 DEF Closes, QueueInv, QueueOf, StageInv, StageOf, Waits
  <2>4. Within(queue, queue)
    BY DEF Within
  <2> QED
    BY <1>1, <2>1, <2>2, <2>3, <2>4, ContinueBook
<1>3. CASE ClosePrepare
  <2>1. Takes(Tail(queue), queue, "prepare", None) /\ queue' = Tail(queue)
    BY <1>3, Taken DEF ClosePrepare
  <2>2. /\ st'.fallback = st.fallback /\ st'.reserved = st.reserved /\ st'.pending = st.pending
        /\ req' = req /\ hold' = hold
    BY <1>3, PrepareEffect DEF ClosePrepare
  <2> QED
    BY <2>1, <2>2, Aside, Book DEF Takes, Within
<1>4. CASE CloseDrains
  <2> DEFINE gone == {c \in st.retired \cup ({st.client} \ {None}) :
                         c = st.client \/ st.users[c] = {}}
             s1 == Detach(st)
             s2 == [s1 EXCEPT !.retired = @ \ gone, !.closing = @ \cup (gone \ st.closed),
                              !.failed = @ \ (gone \cap st.closed),
                              !.close = "closing", !.targets = gone]
  <2>0. req' = req /\ hold' = hold
    BY <1>4 DEF CloseDrains, Others
  <2>1. CASE st' = [st EXCEPT !.close = "users"] /\ queue' = queue
    BY <1>1, <2>0, <2>1, Aside, Book DEF BrokerState
  <2>2. CASE st' = [st EXCEPT !.close = "detach"] /\ Enqueue("detach", None)
    <3>1. Adds(queue', queue, "detach", None)
      BY <1>1, <2>2, Appended, Entries DEF Enqueue
    <3>2. /\ st'.fallback = st.fallback /\ st'.reserved = st.reserved /\ st'.pending = st.pending
      BY <1>1, <2>2 DEF BrokerState
    <3> QED
      BY <1>1, <2>0, <3>1, <3>2, Aside, Book
         DEF QueueInv, QueueOf, StageInv, StageOf, Waits, Adds
  <2>3. CASE Turn("detach", None) /\ queue' = Tail(queue) /\ st' = s2
    <3>1. Takes(Tail(queue), queue, "detach", None)
      BY <2>3, Taken
    <3>2. /\ s1 \in BrokerState /\ s1.fallback = st.fallback /\ s1.reserved = st.reserved
          /\ s1.pending = st.pending
      BY <1>1, DetachEffect DEF Marked
    <3> HIDE DEF s1, gone
    <3>3. /\ st'.fallback = st.fallback /\ st'.reserved = st.reserved /\ st'.pending = st.pending
      BY <2>3, <3>2 DEF BrokerState
    <3> QED
      BY <2>0, <2>3, <3>1, <3>3, Aside, Book DEF Takes, Within
  <2> QED
    BY <1>4, <2>1, <2>2, <2>3 DEF CloseDrains
<1>5. CASE CloseEnds
  <2> DEFINE late == st.targets \cap st.closing
             s1 == [st EXCEPT !.close = "none", !.targets = {}, !.failed = @ \cup late,
                              !.retired = @ \cup late, !.teardown = @ \/ late # {}]
  <2>1. /\ s1 \in BrokerState /\ s1.fallback = st.fallback /\ s1.reserved = st.reserved
        /\ s1.pending = st.pending
    BY <1>1 DEF BrokerState
  <2>2. (st' = Finalize(s1) \/ st' = MaybeFinish(s1)) /\ queue' = queue /\ hold' = hold
    BY <1>5 DEF CloseEnds, Others
  <2> HIDE DEF s1
  <2>3. /\ st'.fallback = st.fallback /\ st'.reserved = st.reserved /\ st'.pending = st.pending
    BY <2>1, <2>2, FinalizeEffect, MaybeFinishEffect DEF Stable, Marked
  <2>4. \A x \in Requests :
           \/ req'[x] = req[x]
           \/ /\ req[x].pc = "closeWait" /\ req'[x].pc \in {"legacyWait", "failed"}
              /\ req'[x].att = req[x].att /\ req'[x].err = req[x].err
              /\ req'[x].client = req[x].client /\ req'[x].cand = req[x].cand
              /\ req'[x].adopted = req[x].adopted /\ req'[x].closeStarted = req[x].closeStarted
    BY <1>1, <1>5 DEF CloseEnds, ReqState
  <2> QED
    BY <2>2, <2>3, <2>4, Mains, Aside, Book DEF QueueInv, QueueOf, StageInv, StageOf, Waits
<1>6. CASE Toggle
  BY <1>6, Aside, Book DEF Toggle
<1> QED
  BY <1>2, <1>3, <1>4, <1>5, <1>6

LEMMA BookStep == TypeOK /\ QueueInv /\ StageInv /\ JoinInv /\ [Next]_vars => QueueInv' /\ StageInv'
<1> SUFFICES ASSUME TypeOK, QueueInv, StageInv, JoinInv, [Next]_vars
             PROVE  QueueInv' /\ StageInv'
  OBVIOUS
<1>1. ASSUME NEW r \in Requests, Request(r) PROVE QueueInv' /\ StageInv'
  BY <1>1, GoBook, CloserBook DEF Request
<1>2. ASSUME NEW r \in Requests, Attempt(r) PROVE QueueInv' /\ StageInv'
  BY <1>2, AttemptBook
<1>3. ASSUME NEW g \in Gens,
             StartupConnect(g) \/ StartupRefused(g) \/ StartupSpawn(g) \/ StartupFail(g)
      PROVE  QueueInv' /\ StageInv'
  BY <1>3, StartupBook
<1>4. ASSUME NEW p \in Procs, ProcExit(p) \/ ProcEvent(p) PROVE QueueInv' /\ StageInv'
  BY <1>4, ProcBook
<1>5. ASSUME NEW c \in Clients,
             PublicationTimer(c) \/ Unadopted(c) \/ CloseSettles(c) \/ Disconnect(c)
      PROVE  QueueInv' /\ StageInv'
  BY <1>5, ClientBook
<1>6. CASE HoldEnds \/ ClosePrepare \/ CloseDrains \/ CloseEnds \/ Toggle
  BY <1>6, CloseBook
<1>7. CASE UNCHANGED vars
  BY <1>7, Aside, Book DEF vars
<1> QED
  BY <1>1, <1>2, <1>3, <1>4, <1>5, <1>6, <1>7 DEF Next

-----------------------------------------------------------------------------
(* What keeps the rest of the invariant.                                     *)

Apart ==
    /\ LegacyInv /\ FenceInv /\ ChildInv /\ GenInv /\ JoinInv /\ StartInv /\ TearInv
    /\ DecideInv /\ CloseInv /\ DoomInv

\* A teardown that goes on, or ends: from s to t fences and markers go, and the
\* fence of the global close only when nothing is left for it.
Settles(s, t) ==
    /\ t.client = s.client /\ t.process = s.process /\ t.startup = s.startup
    /\ t.unavailable = s.unavailable /\ t.users = s.users
    /\ t.reserved = s.reserved /\ t.fallback = s.fallback /\ t.close = s.close
    /\ t.pending \subseteq s.pending /\ t.fenced \subseteq s.fenced
    /\ s.pending \subseteq s.fenced => t.pending \subseteq t.fenced
    /\ t.tearing => s.tearing
    /\ s.tearing /\ ~t.tearing => t.close = "none" /\ t.fenced = {} /\ t.startup = None
    /\ Torn(s) => Torn(t)

LEMMA Settled1 ==
    ASSUME NEW s, NEW t, NEW u, Settles(s, t), Settles(t, u), u.tearing \/ ~u.tearing
    PROVE  Settles(s, u)
<1>1. t.close = s.close /\ u.close = t.close /\ t.startup = s.startup /\ u.startup = t.startup
      /\ u.fenced \subseteq t.fenced
  BY DEF Settles
<1>2. s.tearing /\ ~u.tearing => u.close = "none" /\ u.fenced = {} /\ u.startup = None
  BY <1>1 DEF Settles
<1> QED
  BY <1>2 DEF Settles

LEMMA MaybeFinishSettles ==
    ASSUME NEW s \in BrokerState
    PROVE  Settles(s, MaybeFinish(s))
<1> DEFINE t == MaybeFinish(s)
<1>1. /\ t \in BrokerState /\ Stable(s, t) /\ Marked(s, t) /\ t.deferred = s.deferred
      /\ t.teardown = s.teardown /\ (t.tearing <=> s.tearing /\ ~Over(s))
  BY MaybeFinishEffect
<1> HIDE DEF t
<1>2. Over(s) => s.close = "none" /\ s.fenced = {} /\ s.startup = None
  BY DEF Over, Unresolved
<1> QED
  BY <1>1, <1>2 DEF Settles, Stable, Marked, Torn, t

LEMMA FinalizeSettles ==
    ASSUME NEW s \in BrokerState
    PROVE  Settles(s, Finalize(s))
<1> DEFINE t == Finalize(s)
<1>1. /\ t \in BrokerState /\ Stable(s, t) /\ Marked(s, t) /\ t.deferred = s.deferred
      /\ t.teardown <=> s.teardown /\ ~Cleared(s)
      /\ t.tearing <=> s.tearing /\ ~Over(s)
  BY FinalizeEffect
<1> HIDE DEF t
<1>2. Over(s) => s.close = "none" /\ s.fenced = {} /\ s.startup = None
  BY DEF Over, Unresolved
<1>3. Torn(s) => Torn(t)
  BY <1>1 DEF Torn, Cleared, Stable
<1> QED
  BY <1>1, <1>2, <1>3 DEF Settles, Stable, Marked, t

LEMMA DropSettles ==
    ASSUME NEW s \in BrokerState, NEW R
    PROVE  Settles(s, DropMarkers(s, R))
<1> DEFINE t == DropMarkers(s, R)
<1>1. /\ t \in BrokerState /\ Stable(s, t)
      /\ t.pending = s.pending \ R /\ t.fenced = s.fenced \ R
      /\ t.deferred = s.deferred
      /\ t.teardown <=> s.teardown /\ ~Cleared(t)
      /\ t.tearing <=> s.tearing /\ ~Over(t)
  BY DropEffect
<1> HIDE DEF t
<1>2. Over(t) => t.close = "none" /\ t.fenced = {} /\ t.startup = None
  BY DEF Over, Unresolved
<1>3. Torn(s) => Torn(t)
  BY <1>1 DEF Torn, Cleared, Stable
<1>4. s.pending \in SUBSET Requests /\ s.fenced \in SUBSET Requests
  BY DEF BrokerState
<1> QED
  BY <1>1, <1>2, <1>3, <1>4 DEF Settles, Stable, t

LEMMA EndedSettles ==
    ASSUME NEW s \in BrokerState, NEW c \in Clients \cup {None}, NEW p \in Procs \cup {None},
           None \notin alive
    PROVE  /\ Settles(s, Ended(s, c, p)) /\ Ended(s, c, p).closing = s.closing
           /\ Ended(s, c, p).deferred
                = IF p \in alive /\ s.deferred = None THEN p ELSE s.deferred
<1> DEFINE t == Ended(s, c, p)
           kept == p \in alive /\ s.deferred = None
           ended == c = None \/ c \in s.closed
<1>1. /\ t \in BrokerState /\ Marked(s, t)
      /\ t.client = s.client /\ t.process = s.process /\ t.startup = s.startup
      /\ t.unavailable = s.unavailable
      /\ t.closing = s.closing /\ t.users = s.users
      /\ t.reserved = s.reserved /\ t.fallback = s.fallback
      /\ t.close = s.close
      /\ t.deferred = IF kept THEN p ELSE s.deferred
      /\ t.teardown <=> \/ ~ended
                        \/ (s.teardown \/ kept) /\ ~Cleared(t)
      /\ t.tearing <=> s.tearing /\ ~(ended /\ Over(t))
  BY EndedEffect
<1> HIDE DEF t, ended
<1>2. Over(t) => t.close = "none" /\ t.fenced = {} /\ t.startup = None
  BY DEF Over, Unresolved
<1>3. Torn(s) => Torn(t)
  BY <1>1 DEF Torn, Cleared
<1> QED
  BY <1>1, <1>2, <1>3 DEF Settles, Marked, t

-----------------------------------------------------------------------------
(* The turn of the process.                                                  *)

LEMMA IdleFacts ==
    ASSUME Idle
    PROVE  /\ queue = <<>> \/ hold # None
           /\ ~HoldReady
           /\ \A r \in Requests : /\ req[r].att \notin {"decide", "ok"}
                                  /\ req[r].pc # "gated"
                                  /\ req[r].att = "joined" => req[r].err = "none"
                                  /\ req[r].att = "waiting" => ~Clear
BY DEF Idle, Ready

LEMMA DoomedBusy ==
    ASSUME TypeOK, JoinInv, Doomed
    PROVE  ~Idle
<1>1. PICK r \in Joined(st.startup) : req[r].err # "none"
  BY DEF JoinInv, Doomed
<1> QED
  BY <1>1, IdleFacts DEF Joined

\* Nobody passes a check, and nobody is on the way to one, unless a teardown keeps it.
Barred ==
    \A r \in Requests : /\ req[r].att # "decide" /\ req[r].pc # "gated"
                        /\ ~In(queue, {"gate", "check"}, r)
                        /\ req[r].att = "waiting" => st.tearing

LEMMA DoomedTurn ==
    ASSUME DoomInv, Doomed, hold = None \/ HoldReady
    PROVE  Barred /\ (hold # None => hold.op # "check")
BY DEF DoomInv, Barred

-----------------------------------------------------------------------------
(* Steps that leave the child, the client and the startup as they are.       *)

Calm ==
    /\ st'.client = st.client /\ st'.process = st.process /\ st'.deferred = st.deferred
    /\ st'.startup = st.startup /\ st'.unavailable = st.unavailable
    /\ st'.closing = st.closing /\ st'.users = st.users
    /\ gen' = gen /\ hold' = hold /\ alive' = alive /\ made' = made /\ open' = open
    /\ Torn(st) => Torn(st')
    /\ \A p : In(queue', {"exit"}, p) => In(queue, {"exit"}, p)
    /\ st'.close \in {"reserve", "users", "detach", "closing"} =>
          st.close \in {"reserve", "users", "detach", "closing"}
    /\ \A x \in Requests :
          \/ req'[x].att = req[x].att /\ req'[x].gen = req[x].gen
          \/ req[x].att # "joined" /\ req'[x].att \notin {"joined", "decide", "deferred"}

LEMMA CalmKeeps ==
    ASSUME TypeOK, Apart, Calm
    PROVE  /\ ChildInv' /\ GenInv' /\ JoinInv' /\ StartInv' /\ TearInv' /\ DecideInv' /\ CloseInv'
           /\ \A g \in Gens : Joined(g)' = Joined(g)
<1>1. \A g : Joined(g)' = Joined(g)
  <2> SUFFICES ASSUME NEW g PROVE Joined(g)' = Joined(g)
    OBVIOUS
  <2>1. \A x \in Requests : req'[x].att = "joined" <=> req[x].att = "joined"
    BY DEF Calm
  <2>2. \A x \in Requests : req[x].att = "joined" => req'[x].gen = req[x].gen
    BY DEF Calm
  <2> QED
    BY <2>1, <2>2 DEF Joined
<1>2. ChildInv'
  BY DEF Apart, Calm, ChildInv
<1>3. GenInv'
  BY DEF Apart, Calm, GenInv
<1>4. JoinInv'
  BY <1>1 DEF Apart, Calm, JoinInv
<1>5. StartInv'
  BY DEF Apart, Calm, StartInv, Hidden
<1>6. TearInv'
  BY DEF Apart, Calm, TearInv
<1>7. DecideInv'
  BY DEF Apart, Calm, DecideInv
<1>8. CloseInv'
  BY DEF Apart, Calm, CloseInv
<1> QED
  BY <1>1, <1>2, <1>3, <1>4, <1>5, <1>6, <1>7, <1>8

\* Nobody can be on the way to a check that a doomed startup would not survive.
Loose == ~Doomed \/ (hold # None /\ ~HoldReady)

LEMMA DoomKept ==
    ASSUME TypeOK, Apart, Calm,
           st.startup # None /\ ~st'.tearing => ~st.tearing,
           Doomed' => Doomed,
           \A x \in Requests : In(queue', {"gate", "check"}, x) =>
              In(queue, {"gate", "check"}, x) \/ Loose,
           \A x \in Requests : req'[x].pc = "gated" => req[x].pc = "gated" \/ Loose,
           \A x \in Requests : req'[x].att = "waiting" =>
              req[x].att = "waiting" \/ req[x].pc = "gated" \/ Loose
    PROVE  DoomInv'
<1> SUFFICES ASSUME Doomed' PROVE DoomInv'
  BY DEF DoomInv
<1>1. Doomed /\ st.startup # None
  BY DEF Doomed
<1>2. CASE hold # None /\ ~HoldReady
  BY <1>2 DEF DoomInv, HoldReady, Calm
<1>3. CASE ~(hold # None /\ ~HoldReady)
  <2>1. Barred /\ (hold # None => hold.op # "check")
    BY <1>1, <1>3, DoomedTurn DEF Apart
  <2> QED
    BY <1>1, <1>3, <2>1 DEF DoomInv, Barred, Calm, Loose
<1> QED
  BY <1>2, <1>3

\* A calm step that raises no fence, ends no error, and takes nobody on its way.
Quiet ==
    /\ Calm
    /\ st'.fallback # None => /\ st'.fallback = st.fallback /\ st'.reserved \subseteq st.reserved
                              /\ st'.pending \subseteq st.pending
    /\ st'.fenced \subseteq st.fenced
    /\ st'.tearing => st.tearing
    /\ st.tearing /\ ~st'.tearing =>
          st'.close = "none" /\ st'.fenced = {} /\ st'.startup = None
    /\ st'.close # "none" => st.close # "none"
    /\ st'.close = "prepare" => /\ st.close = "prepare"
                                /\ st.pending \subseteq st.fenced => st'.pending \subseteq st'.fenced
    /\ In(queue', {"prepare"}, None) => In(queue, {"prepare"}, None) /\ st'.close = st.close
    /\ In(queue', {"detach"}, None) => \/ In(queue, {"detach"}, None) /\ st'.close = st.close
                                       \/ st'.close = "detach"
    /\ Once(queue, {"prepare"}, None) => Once(queue', {"prepare"}, None)
    /\ Once(queue, {"detach"}, None) => Once(queue', {"detach"}, None)
    /\ \A x \in Requests :
          /\ req'[x].err = "none" => req[x].err = "none"
          /\ req[x].att = "joined" => req'[x].err = req[x].err
          /\ x \in st'.fenced /\ req'[x].att \in {"ok", "decide"} => req'[x].att = req[x].att
          /\ In(queue', {"gate", "check"}, x) => In(queue, {"gate", "check"}, x) \/ Loose
          /\ req'[x].pc = "gated" => req[x].pc = "gated" \/ Loose
          /\ req'[x].att = "waiting" => req[x].att = "waiting" \/ Loose

LEMMA QuietKeeps ==
    ASSUME TypeOK, Apart, Quiet
    PROVE  Apart'
<1>1. /\ ChildInv' /\ GenInv' /\ JoinInv' /\ StartInv' /\ TearInv' /\ DecideInv' /\ CloseInv'
      /\ \A g \in Gens : Joined(g)' = Joined(g)
  BY CalmKeeps DEF Quiet
<1>2. LegacyInv'
  BY DEF Quiet, Calm, Apart, LegacyInv, Active
<1>3. FenceInv'
  <2>1. st.fenced \subseteq Requests
    BY TypeParts DEF BrokerState
  <2>2. ASSUME NEW x \in st'.fenced
        PROVE  /\ req'[x].att # "ok"
               /\ req'[x].err = "none" => st'.tearing
               /\ req'[x].att = "decide" => st'.client = None
    BY <2>1, <2>2 DEF Quiet, Calm, Apart, FenceInv
  <2>3. /\ st'.close # "none" => st'.tearing
        /\ st'.close = "prepare" => st'.pending \subseteq st'.fenced
        /\ In(queue', {"prepare"}, None) => st'.close = "prepare"
        /\ In(queue', {"detach"}, None) => st'.close = "detach"
        /\ Once(queue', {"prepare"}, None) /\ Once(queue', {"detach"}, None)
    BY DEF Quiet, Apart, FenceInv
  <2> QED
    BY <2>2, <2>3 DEF FenceInv
<1>4. Doomed' => Doomed
  <2> SUFFICES ASSUME Doomed' PROVE Doomed
    OBVIOUS
  <2>1. st.startup \in Gens /\ st'.startup = st.startup /\ gen' = gen
    BY TypeParts DEF Doomed, Quiet, Calm, BrokerState
  <2>2. Joined(st.startup)' = Joined(st.startup)
    BY <1>1, <2>1
  <2>3. \A x \in Joined(st.startup) : x \in Requests /\ req[x].att = "joined"
    BY DEF Joined
  <2> QED
    BY <2>1, <2>2, <2>3 DEF Doomed, Quiet
<1>5. DoomInv'
  <2>1. Calm /\ (st.startup # None /\ ~st'.tearing => ~st.tearing)
    BY DEF Quiet, Calm
  <2>2. \A x \in Requests :
           /\ In(queue', {"gate", "check"}, x) => In(queue, {"gate", "check"}, x) \/ Loose
           /\ req'[x].pc = "gated" => req[x].pc = "gated" \/ Loose
           /\ req'[x].att = "waiting" => req[x].att = "waiting" \/ Loose
    BY DEF Quiet
  <2> QED
    BY <1>4, <2>1, <2>2, DoomKept
<1> QED
  BY <1>1, <1>2, <1>3, <1>5 DEF Apart

\* A request fails: one that waits for a startup does so between two events.
LEMMA FailKeeps ==
    ASSUME TypeOK, Apart, NEW r \in Requests, NEW e, e # "none", NEW q \in Seq(Operation),
           Fail(r, st, e, q), Within(q, queue),
           gen' = gen, hold' = hold, alive' = alive, open' = open, made' = made,
           req[r].att \notin {"ok", "decide"}, req[r].att = "joined" => Idle /\ q = queue
    PROVE  Apart'
<1>1. Adds(queue', q, "cleanup", r)
  BY Appended, Entries DEF Fail
<1>2. /\ \A x \in Requests : /\ req'[x].att = req[x].att /\ req'[x].gen = req[x].gen
                             /\ req'[x].pc \in {req[x].pc, "queued"}
                             /\ req'[x].err = "none" => req[x].err = "none" /\ x # r
      /\ \A x \in Requests : x # r => req'[x] = req[x]
  BY TypeParts DEF Fail, ReqState
<1>3. /\ st'.client = st.client /\ st'.process = st.process /\ st'.deferred = st.deferred
      /\ st'.startup = st.startup /\ st'.unavailable = st.unavailable
      /\ st'.closing = st.closing /\ st'.users = st.users /\ st'.teardown = st.teardown
      /\ st'.tearing = st.tearing /\ st'.close = st.close /\ st'.fallback = st.fallback
      /\ st'.reserved = st.reserved /\ st'.pending = st.pending
      /\ st'.fenced = st.fenced \/ st'.fenced = st.fenced \cup {r}
  BY TypeParts DEF Fail, BrokerState
<1>4. /\ \A O, x : In(queue', O, x) /\ "cleanup" \notin O => In(queue, O, x)
      /\ Once(queue, {"prepare"}, None) => Once(queue', {"prepare"}, None)
      /\ Once(queue, {"detach"}, None) => Once(queue', {"detach"}, None)
  BY <1>1 DEF Adds, Within
<1>5. Calm
  BY <1>2, <1>3, <1>4 DEF Calm, Torn
<1>6. /\ ChildInv' /\ GenInv' /\ JoinInv' /\ StartInv' /\ TearInv' /\ DecideInv' /\ CloseInv'
      /\ \A g \in Gens : Joined(g)' = Joined(g)
  BY <1>5, CalmKeeps
<1>7. LegacyInv'
  BY <1>3, <1>5 DEF Calm, Apart, LegacyInv, Active
<1>8. FenceInv'
  <2>1. st.fenced \subseteq Requests
    BY TypeParts DEF BrokerState
  <2>2. ASSUME NEW x \in st'.fenced
        PROVE  /\ req'[x].att # "ok"
               /\ req'[x].err = "none" => st'.tearing
               /\ req'[x].att = "decide" => st'.client = None
    BY <1>2, <1>3, <2>1, <2>2 DEF Apart, FenceInv
  <2>3. /\ st'.close # "none" => st'.tearing
        /\ st'.close = "prepare" => st'.pending \subseteq st'.fenced
        /\ In(queue', {"prepare"}, None) => st'.close = "prepare"
        /\ In(queue', {"detach"}, None) => st'.close = "detach"
        /\ Once(queue', {"prepare"}, None) /\ Once(queue', {"detach"}, None)
    BY <1>3, <1>4 DEF Apart, FenceInv
  <2> QED
    BY <2>2, <2>3 DEF FenceInv
<1>9. CASE Doomed' => Doomed
  <2>1. \A x \in Requests :
           /\ In(queue', {"gate", "check"}, x) => In(queue, {"gate", "check"}, x)
           /\ req'[x].pc = "gated" => req[x].pc = "gated"
           /\ req'[x].att = "waiting" => req[x].att = "waiting"
    BY <1>2, <1>4
  <2>2. DoomInv'
    BY <1>3, <1>5, <1>9, <2>1, DoomKept
  <2> QED
    BY <1>6, <1>7, <1>8, <2>2 DEF Apart
<1>10. CASE Doomed' /\ ~Doomed
  <2>1. st.startup \in Gens /\ st.startup # None /\ st'.startup = st.startup
    BY <1>3, <1>10, TypeParts DEF Doomed, BrokerState
  <2>2. Joined(st.startup)' = Joined(st.startup)
    BY <1>3, <1>6, <2>1
  <2>3. req[r].att = "joined"
    <3>1. SUFFICES ASSUME r \notin Joined(st.startup) PROVE FALSE
      BY DEF Joined
    <3>2. \A x \in Joined(st.startup) : x \in Requests /\ x # r
      BY <3>1 DEF Joined
    <3> QED
      BY <1>2, <1>3, <1>10, <2>2, <3>2 DEF Doomed
  <2>4. Idle /\ q = queue
    BY <2>3
  <2>5. st.fallback = None
    BY <2>1 DEF Apart, LegacyInv
  <2>6. CASE hold # None
    <3>1. ~HoldReady'
      BY <1>3, <2>4, <2>6, IdleFacts DEF HoldReady
    <3>2. DoomInv'
      BY <2>6, <3>1 DEF DoomInv
    <3> QED
      BY <1>6, <1>7, <1>8, <3>2 DEF Apart
  <2>7. CASE hold = None
    <3>1. queue = <<>>
      BY <2>4, <2>7, IdleFacts
    <3>2. \A x \in Requests : ~In(queue', {"gate", "check"}, x)
      <4>1. \A O, x : ~In(queue, O, x)
        BY <3>1 DEF In
      <4> QED
        BY <1>4, <4>1
    <3>3. \A x \in Requests : /\ req'[x].att # "decide" /\ req'[x].pc # "gated"
                              /\ req'[x].att = "waiting" => st'.tearing
      BY <1>2, <1>3, <2>4, <2>5, IdleFacts DEF Clear
    <3>4. DoomInv'
      BY <2>7, <3>2, <3>3 DEF DoomInv
    <3> QED
      BY <1>6, <1>7, <1>8, <3>4 DEF Apart
  <2> QED
    BY <2>6, <2>7
<1> QED
  BY <1>9, <1>10

\* A step of r that only moves it on.
LEMMA MoveKeeps ==
    ASSUME TypeOK, Apart, NEW r \in Requests, NEW v, Go(r, v) \/ (req' = req /\ v = "none"),
           v = "gated" => Loose,
           st' = st, gen' = gen, hold' = hold, alive' = alive, open' = open, made' = made,
           \/ Within(queue', queue)
           \/ \E o \in {"reserve", "gate", "unlease", "legacy", "lift"} :
                 Adds(queue', queue, o, r) /\ (o = "gate" => Loose)
    PROVE  Apart'
<1>1. \A x \in Requests : /\ req'[x].att = req[x].att /\ req'[x].gen = req[x].gen
                          /\ req'[x].err = req[x].err
                          /\ req'[x].pc = req[x].pc \/ req'[x].pc = v
  BY TypeParts DEF Go, ReqState
<1>2. /\ \A x : /\ In(queue', {"exit"}, x) => In(queue, {"exit"}, x)
                /\ In(queue', {"prepare"}, x) => In(queue, {"prepare"}, x)
                /\ In(queue', {"detach"}, x) => In(queue, {"detach"}, x)
                /\ In(queue', {"gate", "check"}, x) => In(queue, {"gate", "check"}, x) \/ Loose
      /\ Once(queue, {"prepare"}, None) => Once(queue', {"prepare"}, None)
      /\ Once(queue, {"detach"}, None) => Once(queue', {"detach"}, None)
  <2>1. CASE Within(queue', queue)
    BY <2>1 DEF Within
  <2>2. CASE \E o \in {"reserve", "gate", "unlease", "legacy", "lift"} :
                Adds(queue', queue, o, r) /\ (o = "gate" => Loose)
    BY <2>2 DEF Adds
  <2> QED
    BY <2>1, <2>2
<1>3. Calm
  BY <1>1, <1>2 DEF Calm
<1>4. Quiet
  BY <1>1, <1>2, <1>3 DEF Quiet
<1> QED
  BY <1>4, QuietKeeps

LEMMA GoKeeps ==
    ASSUME TypeOK, QueueInv, StageInv, Apart, NEW r \in Requests,
           \/ Start(r) \/ Reserve(r) \/ Reserved(r) \/ EnsureChrome(r) \/ Gate(r)
           \/ ConnectFails(r) \/ Search(r) \/ Abandon(r)
           \/ LegacyWait(r) \/ LegacySettles(r) \/ LegacyAbandoned(r) \/ CloseAbandoned(r)
    PROVE  Apart'
<1>1. /\ st \in BrokerState /\ req \in [Requests -> ReqState] /\ queue \in Seq(Operation)
  BY TypeParts
<1>2. /\ gen' = gen /\ hold' = hold /\ alive' = alive /\ open' = open /\ made' = made
  BY DEF Start, Reserve, Reserved, EnsureChrome, Gate, ConnectFails, Search, Abandon,
         LegacyWait, LegacySettles, LegacyAbandoned, CloseAbandoned, Others
<1>3. Within(queue, queue)
  BY DEF Within
<1>4. Idle => Loose
  BY DoomedBusy DEF Apart, Loose
<1>5. \A o \in {"reserve", "gate", "adopt", "unreserve", "unlease",
                "cleanup", "legacy", "check", "settle", "lift"} :
         Enqueue(o, r) => Adds(queue', queue, o, r)
  BY <1>1, Appended, Entries DEF Enqueue
<1>6. CASE Start(r)
  BY <1>2, <1>3, <1>6, MoveKeeps DEF Start
<1>7. CASE Reserve(r)
  BY <1>2, <1>5, <1>7, MoveKeeps DEF Reserve
<1>8. CASE Reserved(r)
  <2>1. Takes(Tail(queue), queue, "reserve", r) /\ Tail(queue) \in Seq(Operation)
    BY <1>8, Taken DEF Reserved
  <2>2. In(queue, {"reserve", "gate"}, r) /\ Within(Tail(queue), queue)
    BY <2>1 DEF Takes
  <2>3. req[r].att = "none"
    BY <2>2 DEF StageInv, StageOf
  <2>4. CASE \E e \in {"abort", "fence"} : Fail(r, st, e, Tail(queue))
    BY <1>2, <2>1, <2>2, <2>3, <2>4, FailKeeps
  <2>5. CASE /\ Clear /\ Go(r, "chrome") /\ st' = [st EXCEPT !.reserved = @ \cup {r}]
             /\ queue' = Tail(queue)
    <3>1. \A x \in Requests : /\ req'[x].att = req[x].att /\ req'[x].gen = req[x].gen
                              /\ req'[x].err = req[x].err
                              /\ req'[x].pc = req[x].pc \/ req'[x].pc = "chrome"
      BY <1>1, <2>5 DEF Go, ReqState
    <3>2. /\ st'.client = st.client /\ st'.process = st.process /\ st'.deferred = st.deferred
          /\ st'.startup = st.startup /\ st'.unavailable = st.unavailable
          /\ st'.closing = st.closing /\ st'.users = st.users /\ st'.teardown = st.teardown
          /\ st'.tearing = st.tearing /\ st'.close = st.close /\ st'.fallback = None
          /\ st'.pending = st.pending /\ st'.fenced = st.fenced
      BY <1>1, <2>5 DEF BrokerState, Clear
    <3>3. Within(queue', queue)
      BY <2>2, <2>5
    <3>4. Calm
      BY <1>2, <3>1, <3>2, <3>3 DEF Calm, Within, Torn
    <3>5. Quiet
      BY <3>1, <3>2, <3>3, <3>4 DEF Quiet, Within
    <3> QED
      BY <3>5, QuietKeeps
  <2> QED
    BY <1>8, <2>4, <2>5 DEF Reserved
<1>9. CASE EnsureChrome(r)
  <2>1. req[r].att = "none" /\ Idle
    BY <1>9 DEF EnsureChrome, StageInv, StageOf
  <2>2. CASE Fail(r, st, "broker", queue)
    BY <1>1, <1>2, <1>3, <2>1, <2>2, FailKeeps
  <2>3. CASE Go(r, "queued") /\ Enqueue("gate", r) /\ st' = st
    BY <1>2, <1>4, <1>5, <2>1, <2>3, MoveKeeps
  <2> QED
    BY <1>9, <2>2, <2>3 DEF EnsureChrome
<1>10. CASE Gate(r)
  <2>1. /\ Takes(Tail(queue), queue, "gate", r) /\ Tail(queue) \in Seq(Operation)
        /\ hold = None
    BY <1>10, Taken DEF Gate
  <2>2. In(queue, {"reserve", "gate"}, r) /\ In(queue, {"gate", "check"}, r)
        /\ Within(Tail(queue), queue)
    BY <2>1 DEF Takes
  <2>3. req[r].att = "none"
    BY <2>2 DEF StageInv, StageOf
  <2>4. CASE Fail(r, st, "fence", Tail(queue))
    BY <1>2, <2>1, <2>2, <2>3, <2>4, FailKeeps
  <2>5. CASE Go(r, "gated") /\ queue' = Tail(queue) /\ st' = st
    <3>1. Loose
      BY <2>1, <2>2 DEF Apart, DoomInv, Loose
    <3> QED
      BY <1>2, <2>2, <2>5, <3>1, MoveKeeps
  <2> QED
    BY <1>10, <2>4, <2>5 DEF Gate
<1>11. CASE ConnectFails(r)
  BY <1>1, <1>2, <1>3, <1>11, FailKeeps DEF ConnectFails
<1>12. CASE Search(r)
  <2>1. req[r].att = "settled"
    BY <1>12 DEF Search, StageInv, StageOf
  <2>2. CASE \E e \in {"fence", "broker"} : Fail(r, st, e, queue)
    BY <1>1, <1>2, <1>3, <2>1, <2>2, FailKeeps
  <2>3. CASE Go(r, "queued") /\ Enqueue("unlease", r) /\ st' = st
    BY <1>2, <1>5, <2>3, MoveKeeps
  <2> QED
    BY <1>12, <2>2, <2>3 DEF Search
<1>13. CASE Abandon(r)
  BY <1>1, <1>2, <1>3, <1>13, IdleFacts, FailKeeps DEF Abandon
<1>14. CASE LegacyWait(r)
  BY <1>2, <1>3, <1>5, <1>14, MoveKeeps DEF LegacyWait
<1>15. CASE LegacySettles(r)
  BY <1>2, <1>5, <1>15, MoveKeeps DEF LegacySettles
<1>16. CASE LegacyAbandoned(r)
  BY <1>2, <1>3, <1>16, MoveKeeps DEF LegacyAbandoned
<1>17. CASE CloseAbandoned(r)
  BY <1>2, <1>3, <1>17, MoveKeeps DEF CloseAbandoned
<1> QED
  BY <1>6, <1>7, <1>8, <1>9, <1>10, <1>11, <1>12, <1>13, <1>14, <1>15, <1>16, <1>17

LEMMA MarkKeeps ==
    ASSUME TypeOK, QueueInv, StageInv, Apart, NEW r \in Requests,
           Connect(r) \/ Unreserve(r) \/ LegacyReserve(r) \/ LegacyLifts(r) \/ CloseStart(r)
    PROVE  Apart'
<1>1. /\ st \in BrokerState /\ req \in [Requests -> ReqState] /\ queue \in Seq(Operation)
  BY TypeParts
<1>2. /\ gen' = gen /\ hold' = hold /\ alive' = alive /\ open' = open /\ made' = made
  BY DEF Connect, Unreserve, LegacyReserve, LegacyLifts, CloseStart, Others
<1>3. Within(queue, queue)
  BY DEF Within
<1>4. \A v : Go(r, v) => \A x \in Requests : /\ req'[x].att = req[x].att /\ req'[x].gen = req[x].gen
                                             /\ req'[x].err = req[x].err
                                             /\ req'[x].pc = req[x].pc \/ req'[x].pc = v
  BY <1>1 DEF Go, ReqState
<1>5. CASE Connect(r)
  <2>1. /\ \A x \in Requests : /\ req'[x].gen = req[x].gen /\ req'[x].err = req[x].err
                               /\ req'[x].pc = req[x].pc \/ req'[x].pc = "connect"
                               /\ x # r => req'[x].att = req[x].att
        /\ req'[r].att = "waiting"
    BY <1>1, <1>5 DEF Connect, ReqState
  <2>2. /\ st'.client = st.client /\ st'.process = st.process /\ st'.deferred = st.deferred
        /\ st'.startup = st.startup /\ st'.unavailable = st.unavailable
        /\ st'.closing = st.closing /\ st'.users = st.users /\ st'.teardown = st.teardown
        /\ st'.tearing = st.tearing /\ st'.close = st.close /\ st'.fallback = st.fallback
        /\ st'.reserved = st.reserved /\ st'.pending = st.pending \cup {r}
        /\ st'.fenced = IF st.tearing THEN st.fenced \cup {r} ELSE st.fenced
    BY <1>1, <1>5 DEF Connect, BrokerState
  <2>3. req[r].pc = "gated" /\ queue' = queue /\ req[r].att = "none" /\ r \in st.reserved
    BY <1>5 DEF Connect, StageInv, StageOf
  <2>4. Calm
    BY <1>2, <2>1, <2>2, <2>3 DEF Calm, Torn
  <2>5. /\ ChildInv' /\ GenInv' /\ JoinInv' /\ StartInv' /\ TearInv' /\ DecideInv' /\ CloseInv'
        /\ \A g \in Gens : Joined(g)' = Joined(g)
    BY <2>4, CalmKeeps
  <2>6. LegacyInv'
    BY <2>2, <2>3 DEF Apart, LegacyInv
  <2>7. FenceInv'
    BY <1>1, <2>1, <2>2, <2>3 DEF Apart, FenceInv, BrokerState
  <2>8. Doomed' => Doomed
    <3> SUFFICES ASSUME Doomed' PROVE Doomed
      OBVIOUS
    <3>1. st.startup \in Gens /\ st'.startup = st.startup /\ gen' = gen
      BY <1>1, <1>2, <2>2, TypeParts DEF Doomed, BrokerState
    <3>2. Joined(st.startup)' = Joined(st.startup)
      BY <2>5, <3>1
    <3>3. \A x \in Joined(st.startup) : x \in Requests
      BY DEF Joined
    <3> QED
      BY <2>1, <3>1, <3>2, <3>3 DEF Doomed
  <2>9. DoomInv'
    BY <2>1, <2>2, <2>3, <2>4, <2>8, DoomKept
  <2> QED
    BY <2>5, <2>6, <2>7, <2>9 DEF Apart
<1>6. CASE Unreserve(r)
  <2> DEFINE s1 == [st EXCEPT !.reserved = @ \ {r}]
  <2>1. Takes(Tail(queue), queue, "unreserve", r) /\ queue' = Tail(queue)
    BY <1>6, Taken DEF Unreserve
  <2>2. \E v \in {"search", "legacyWait", "failed"} : Go(r, v)
    BY <1>6 DEF Unreserve
  <2>3. /\ s1 \in BrokerState
        /\ s1.client = st.client /\ s1.process = st.process /\ s1.deferred = st.deferred
        /\ s1.startup = st.startup /\ s1.unavailable = st.unavailable
        /\ s1.closing = st.closing /\ s1.users = st.users /\ s1.teardown = st.teardown
        /\ s1.tearing = st.tearing /\ s1.close = st.close /\ s1.fallback = st.fallback
        /\ s1.reserved = st.reserved \ {r} /\ s1.pending = st.pending /\ s1.fenced = st.fenced
    BY <1>1 DEF BrokerState
  <2>4. st' = MaybeFinish(s1)
    BY <1>6 DEF Unreserve
  <2> HIDE DEF s1
  <2>5. Settles(s1, st') /\ st'.deferred = s1.deferred /\ st'.closing = s1.closing
    BY <2>3, <2>4, MaybeFinishSettles, MaybeFinishEffect DEF Stable
  <2>6. Calm
    BY <1>2, <1>4, <2>1, <2>2, <2>3, <2>5 DEF Calm, Takes, Within, Settles, Torn
  <2>7. Quiet
    BY <1>4, <2>1, <2>2, <2>3, <2>5, <2>6 DEF Quiet, Takes, Within, Settles
  <2> QED
    BY <2>7, QuietKeeps
<1>7. CASE LegacyReserve(r)
  <2>1. /\ Takes(Tail(queue), queue, "legacy", r) /\ queue' = Tail(queue) /\ hold = None
    BY <1>7, Taken DEF LegacyReserve
  <2>2. Within(queue', queue)
    BY <2>1 DEF Takes
  <2>3. CASE \E v \in {"legacyWait", "failed"} : Go(r, v) /\ st' = st
    BY <1>2, <2>2, <2>3, MoveKeeps
  <2>4. CASE /\ st.reserved = {} /\ ~FallbackBlocked(st)
             /\ Go(r, "legacy") /\ st' = [st EXCEPT !.fallback = r]
    <3>1. /\ st'.client = st.client /\ st'.process = st.process /\ st'.deferred = st.deferred
          /\ st'.startup = st.startup /\ st'.unavailable = st.unavailable
          /\ st'.closing = st.closing /\ st'.users = st.users /\ st'.teardown = st.teardown
          /\ st'.tearing = st.tearing /\ st'.close = st.close
          /\ st'.reserved = st.reserved /\ st'.pending = st.pending /\ st'.fenced = st.fenced
      BY <1>1, <2>4 DEF BrokerState
    <3>2. /\ st.pending = {} /\ ~Active(st)
          /\ st.process = None /\ st.deferred = None /\ st.startup = None
      BY <2>4 DEF FallbackBlocked
    <3>3. Calm
      BY <1>2, <1>4, <2>2, <2>4, <3>1 DEF Calm, Within, Torn
    <3>4. /\ ChildInv' /\ GenInv' /\ JoinInv' /\ StartInv' /\ TearInv' /\ DecideInv' /\ CloseInv'
      BY <3>3, CalmKeeps
    <3>5. alive = {}
      <4>1. None \notin alive /\ \A p \in alive : p \in {st.process, st.deferred}
        BY <2>1, Nones DEF Apart, ChildInv
      <4> QED
        BY <3>2, <4>1
    <3>6. LegacyInv'
      BY <1>2, <2>4, <3>1, <3>2, <3>5 DEF LegacyInv, Active
    <3>7. FenceInv'
      BY <1>1, <1>4, <2>2, <2>4, <3>1 DEF Apart, FenceInv, Within, BrokerState
    <3>8. DoomInv'
      BY <3>1, <3>2 DEF DoomInv, Doomed
    <3> QED
      BY <3>4, <3>6, <3>7, <3>8 DEF Apart
  <2> QED
    BY <1>7, <2>3, <2>4 DEF LegacyReserve
<1>8. CASE LegacyLifts(r)
  <2>1. Takes(Tail(queue), queue, "lift", r) /\ queue' = Tail(queue)
    BY <1>8, Taken DEF LegacyLifts
  <2>2. \E v \in {"done", "failed"} : Go(r, v)
    BY <1>8 DEF LegacyLifts
  <2>3. /\ st'.client = st.client /\ st'.process = st.process /\ st'.deferred = st.deferred
        /\ st'.startup = st.startup /\ st'.unavailable = st.unavailable
        /\ st'.closing = st.closing /\ st'.users = st.users /\ st'.teardown = st.teardown
        /\ st'.tearing = st.tearing /\ st'.close = st.close /\ st'.fallback = None
        /\ st'.reserved = st.reserved /\ st'.pending = st.pending /\ st'.fenced = st.fenced
    BY <1>1, <1>8 DEF LegacyLifts, BrokerState
  <2>4. Calm
    BY <1>2, <1>4, <2>1, <2>2, <2>3 DEF Calm, Takes, Within, Torn
  <2>5. Quiet
    BY <1>4, <2>1, <2>2, <2>3, <2>4 DEF Quiet, Takes, Within
  <2> QED
    BY <2>5, QuietKeeps
<1>9. CASE CloseStart(r)
  <2>1. Idle /\ Go(r, "closeWait")
    BY <1>9 DEF CloseStart
  <2>2. CASE st' = st /\ queue' = queue
    BY <1>2, <1>3, <2>1, <2>2, MoveKeeps
  <2>3. CASE /\ st.close = "none"
             /\ st' = [st EXCEPT !.tearing = TRUE, !.fenced = @ \cup st.pending,
                                 !.close = "prepare"]
             /\ Enqueue("prepare", None)
    <3>1. /\ st'.client = st.client /\ st'.process = st.process /\ st'.deferred = st.deferred
          /\ st'.startup = st.startup /\ st'.unavailable = st.unavailable
          /\ st'.closing = st.closing /\ st'.users = st.users /\ st'.teardown = st.teardown
          /\ st'.tearing = TRUE /\ st'.close = "prepare" /\ st'.fallback = st.fallback
          /\ st'.reserved = st.reserved /\ st'.pending = st.pending
          /\ st'.fenced = st.fenced \cup st.pending
      BY <1>1, <2>3 DEF BrokerState
    <3>2. Adds(queue', queue, "prepare", None)
      BY <1>1, <2>3, Appended, Entries DEF Enqueue
    <3>3. Calm
      BY <1>2, <1>4, <2>1, <3>1, <3>2 DEF Calm, Adds, Torn
    <3>4. /\ ChildInv' /\ GenInv' /\ JoinInv' /\ StartInv' /\ TearInv' /\ DecideInv' /\ CloseInv'
          /\ \A g \in Gens : Joined(g)' = Joined(g)
      BY <3>3, CalmKeeps
    <3>5. LegacyInv'
      BY <1>2, <3>1 DEF Apart, LegacyInv, Active
    <3>6. FenceInv'
      <4>1. /\ ~In(queue, {"prepare"}, None) /\ ~In(queue, {"detach"}, None)
            /\ Once(queue, {"prepare"}, None) /\ Once(queue, {"detach"}, None)
        BY <2>3 DEF Apart, FenceInv
      <4>2. /\ Once(queue', {"prepare"}, None) /\ Once(queue', {"detach"}, None)
            /\ ~In(queue', {"detach"}, None)
        BY <3>2, <4>1 DEF Adds
      <4>3. st.fenced \cup st.pending \subseteq Requests
        BY <1>1 DEF BrokerState
      <4>4. \A x \in Requests : req'[x].att \notin {"ok", "decide"}
        BY <1>4, <2>1, IdleFacts
      <4> QED
        BY <3>1, <4>2, <4>3, <4>4 DEF FenceInv
    <3>7. ~Doomed'
      <4> SUFFICES ASSUME Doomed' PROVE FALSE
        OBVIOUS
      <4>1. st.startup \in Gens /\ st'.startup = st.startup /\ gen' = gen
        BY <1>1, <1>2, <3>1, TypeParts DEF Doomed, BrokerState
      <4>2. Joined(st.startup)' = Joined(st.startup)
        BY <3>4, <4>1
      <4>3. \A x \in Joined(st.startup) : x \in Requests
        BY DEF Joined
      <4>4. Doomed
        BY <1>4, <2>1, <4>1, <4>2, <4>3 DEF Doomed
      <4> QED
        BY <2>1, <4>4, DoomedBusy DEF Apart
    <3> QED
      BY <3>4, <3>5, <3>6, <3>7 DEF Apart, DoomInv
  <2> QED
    BY <1>9, <2>2, <2>3 DEF CloseStart
<1> QED
  BY <1>5, <1>6, <1>7, <1>8, <1>9

-----------------------------------------------------------------------------
(* The connect attempts.                                                     *)

\* An attempt that waits for no startup ends with an error.
LEMMA ErrorKeeps ==
    ASSUME TypeOK, Apart, NEW r \in Requests, AttemptError(r, st), req[r].att # "joined",
           Within(queue', queue),
           gen' = gen, hold' = hold, alive' = alive, open' = open, made' = made
    PROVE  Apart'
<1>1. \A x \in Requests : /\ x # r => req'[x].att = req[x].att
                          /\ req'[x].gen = req[x].gen /\ req'[x].err = req[x].err
                          /\ req'[x].pc = req[x].pc /\ req'[r].att = "err"
  BY TypeParts DEF AttemptError, ReqState
<1>2. /\ Settles(st, st') /\ st'.deferred = st.deferred /\ st'.closing = st.closing
  BY TypeParts, DropSettles, DropEffect DEF AttemptError, Stable
<1>3. Calm
  BY <1>1, <1>2 DEF Calm, Within, Settles
<1>4. Quiet
  BY <1>1, <1>2, <1>3 DEF Quiet, Within, Settles
<1> QED
  BY <1>4, QuietKeeps

LEMMA WaitKeeps ==
    ASSUME TypeOK, QueueInv, StageInv, Apart, NEW r \in Requests,
           AttemptWait(r) \/ AttemptConnects(r) \/ AttemptSettles(r)
    PROVE  Apart'
<1>1. /\ st \in BrokerState /\ req \in [Requests -> ReqState] /\ queue \in Seq(Operation)
  BY TypeParts
<1>2. /\ gen' = gen /\ hold' = hold /\ alive' = alive /\ open' = open /\ made' = made
  BY DEF AttemptWait, AttemptConnects, AttemptSettles, Others
<1>3. Within(queue, queue)
  BY DEF Within
<1>4. CASE AttemptWait(r)
  <2>1. req[r].att = "waiting"
    BY <1>4 DEF AttemptWait
  <2>2. CASE AttemptError(r, st) /\ queue' = queue
    BY <1>2, <1>3, <2>1, <2>2, ErrorKeeps
  <2>3. CASE /\ Clear /\ st' = st /\ Enqueue("check", r)
             /\ req' = [req EXCEPT ![r].att = "queued"]
    <3>1. Adds(queue', queue, "check", r)
      BY <1>1, <2>3, Appended, Entries DEF Enqueue
    <3>2. \A x \in Requests : /\ x # r => req'[x].att = req[x].att
                              /\ req'[x].gen = req[x].gen /\ req'[x].err = req[x].err
                              /\ req'[x].pc = req[x].pc /\ req'[r].att = "queued"
      BY <1>1, <2>3 DEF ReqState
    <3>3. Loose
      BY <2>1, <2>3 DEF Apart, DoomInv, Loose, Clear
    <3>4. Calm
      BY <1>2, <2>1, <2>3, <3>1, <3>2 DEF Calm, Adds
    <3>5. Quiet
      BY <2>3, <3>1, <3>2, <3>3, <3>4 DEF Quiet, Adds
    <3> QED
      BY <3>5, QuietKeeps
  <2> QED
    BY <1>4, <2>2, <2>3 DEF AttemptWait
<1>5. CASE AttemptConnects(r)
  <2> DEFINE q == Append(queue, <<"settle", r>>)
  <2>1. /\ st' = st /\ req[r].att = "ok"
        /\ \A x \in Requests : /\ x # r => req'[x].att = req[x].att
                               /\ req'[x].gen = req[x].gen /\ req'[x].err = req[x].err
                               /\ req'[x].pc \in {req[x].pc, "queued"}
                               /\ req'[r].att = "settled"
    BY <1>1, <1>5 DEF AttemptConnects, ReqState
  <2>2. <<"settle", r>> \in Operation /\ <<"adopt", r>> \in Operation
    BY Entries
  <2>3. Adds(q, queue, "settle", r) /\ q \in Seq(Operation) /\ queue \o <<<<"settle", r>>>> = q
    BY <1>1, <2>2, Appended, AppendQ
  <2> HIDE DEF q
  <2>4. q \o <<<<"adopt", r>>>> = Append(q, <<"adopt", r>>) /\ q \o <<>> = q
    BY <2>2, <2>3, AppendQ
  <2>5. Adds(Append(q, <<"adopt", r>>), q, "adopt", r)
    BY <2>2, <2>3, Appended
  <2>6. Adds(queue', q, "adopt", r) \/ queue' = q
    BY <1>5, <2>3, <2>4, <2>5 DEF AttemptConnects
  <2>7. /\ \A O, x : In(queue', O, x) /\ "settle" \notin O /\ "adopt" \notin O => In(queue, O, x)
        /\ Once(queue, {"prepare"}, None) => Once(queue', {"prepare"}, None)
        /\ Once(queue, {"detach"}, None) => Once(queue', {"detach"}, None)
    BY <2>3, <2>6 DEF Adds
  <2>8. Calm
    BY <1>2, <2>1, <2>7 DEF Calm
  <2>9. Quiet
    BY <2>1, <2>7, <2>8 DEF Quiet
  <2> QED
    BY <2>9, QuietKeeps
<1>6. CASE AttemptSettles(r)
  <2> DEFINE s1 == [st EXCEPT !.pending = @ \ {r}]
  <2>1. Takes(Tail(queue), queue, "settle", r) /\ req' = req /\ queue' = Tail(queue)
    BY <1>6, Taken DEF AttemptSettles
  <2>2. CASE st' = st
    <3>1. Within(queue', queue)
      BY <2>1 DEF Takes
    <3> QED
      BY <1>2, <2>1, <2>2, <3>1, MoveKeeps
  <2>3. CASE st' = Finalize(s1) /\ r \notin st.fenced
    <3>1. /\ s1 \in BrokerState
          /\ s1.client = st.client /\ s1.process = st.process /\ s1.deferred = st.deferred
          /\ s1.startup = st.startup /\ s1.unavailable = st.unavailable
          /\ s1.closing = st.closing /\ s1.users = st.users /\ s1.teardown = st.teardown
          /\ s1.tearing = st.tearing /\ s1.close = st.close /\ s1.fallback = st.fallback
          /\ s1.reserved = st.reserved /\ s1.pending = st.pending \ {r} /\ s1.fenced = st.fenced
      BY <1>1 DEF BrokerState
    <3> HIDE DEF s1
    <3>2. Settles(s1, st') /\ st'.deferred = s1.deferred /\ st'.closing = s1.closing
      BY <2>3, <3>1, FinalizeSettles, FinalizeEffect DEF Stable
    <3>3. Calm
      BY <1>2, <2>1, <3>1, <3>2 DEF Calm, Takes, Within, Settles, Torn
    <3>4. Quiet
      BY <2>1, <3>1, <3>2, <3>3 DEF Quiet, Takes, Within, Settles
    <3> QED
      BY <3>4, QuietKeeps
  <2> QED
    BY <1>6, <2>2, <2>3 DEF AttemptSettles
<1> QED
  BY <1>4, <1>5, <1>6

LEMMA DecideKeeps ==
    ASSUME TypeOK, QueueInv, StageInv, Apart, NEW r \in Requests, AttemptDecide(r)
    PROVE  Apart'
<1>1. /\ st \in BrokerState /\ req \in [Requests -> ReqState] /\ made \in Counts
      /\ gen \in [Gens -> GenState] /\ None \notin Gens /\ None \notin open
  BY TypeParts, LaneAssumption DEF TypeOK
<1>2. hold' = hold /\ alive' = alive /\ open' = open /\ queue' = queue
  BY DEF AttemptDecide
<1>3. /\ req[r].att = "decide" /\ hold = None /\ st.deferred = None
      /\ st.client # None => st.client \in open /\ ~st.unavailable
  BY DEF AttemptDecide, Apart, DecideInv
<1>4. ~Doomed
  BY <1>3 DEF Apart, DoomInv
<1>5. Within(queue, queue) /\ Within(queue', queue)
  BY <1>2 DEF Within
<1>6. CASE /\ st.client \in open
           /\ req' = [req EXCEPT ![r].att = "ok", ![r].cand = st.client]
           /\ UNCHANGED <<st, gen, made>>
  <2>1. \A x \in Requests : /\ x # r => req'[x].att = req[x].att
                            /\ req'[x].gen = req[x].gen /\ req'[x].err = req[x].err
                            /\ req'[x].pc = req[x].pc /\ req'[r].att = "ok"
    BY <1>1, <1>6 DEF ReqState
  <2>2. r \notin st.fenced
    BY <1>1, <1>3, <1>6 DEF Apart, FenceInv
  <2>3. Calm
    BY <1>2, <1>3, <1>6, <2>1 DEF Calm
  <2>4. Quiet
    BY <1>2, <1>6, <2>1, <2>2, <2>3 DEF Quiet
  <2> QED
    BY <2>4, QuietKeeps
<1>7. CASE AttemptError(r, st) /\ UNCHANGED <<gen, made>>
  BY <1>2, <1>3, <1>5, <1>7, ErrorKeeps
<1>8. CASE /\ st.startup # None
           /\ req' = [req EXCEPT ![r].att = "joined", ![r].gen = st.startup]
           /\ UNCHANGED <<st, gen, made>>
  <2>1. /\ \A x \in Requests : /\ x # r => req'[x] = req[x]
                               /\ req'[x].err = req[x].err /\ req'[x].pc = req[x].pc
        /\ req'[r].att = "joined" /\ req'[r].gen = st.startup
    BY <1>1, <1>8 DEF ReqState
  <2>2. Joined(st.startup) \subseteq Joined(st.startup)'
    BY <1>3, <1>8, <2>1 DEF Joined
  <2>3. LegacyInv' /\ ChildInv' /\ GenInv' /\ StartInv' /\ TearInv'
    BY <1>2, <1>8
       DEF Apart, LegacyInv, Active, ChildInv, GenInv, StartInv, Hidden, TearInv, Torn
  <2>4. FenceInv'
    BY <1>1, <1>2, <1>8, <2>1 DEF Apart, FenceInv, BrokerState
  <2>5. JoinInv'
    BY <1>8, <2>1, <2>2 DEF Apart, JoinInv
  <2>6. DecideInv' /\ CloseInv'
    BY <1>2, <1>8, <2>1 DEF Apart, DecideInv, CloseInv
  <2>7. ~Doomed'
    <3>1. \A x \in Joined(st.startup) : x \in Requests
      BY DEF Joined
    <3> QED
      BY <1>4, <1>8, <2>1, <2>2, <3>1 DEF Doomed
  <2> QED
    BY <2>3, <2>4, <2>5, <2>6, <2>7 DEF Apart, DoomInv
<1>9. CASE /\ st.client = None /\ st.startup = None
           /\ LET g == made.gen + 1
              IN /\ g \in Gens
                 /\ made' = [made EXCEPT !.gen = g]
                 /\ gen' = [gen EXCEPT ![g].pc = "connect"]
                 /\ st' = [st EXCEPT !.startup = g]
                 /\ req' = [req EXCEPT ![r].att = "joined", ![r].gen = g]
  <2>0. PICK g \in Gens :
              /\ g = made.gen + 1
              /\ made' = [made EXCEPT !.gen = g]
              /\ gen' = [gen EXCEPT ![g].pc = "connect"]
              /\ st' = [st EXCEPT !.startup = g]
              /\ req' = [req EXCEPT ![r].att = "joined", ![r].gen = g]
    BY <1>9
  <2>1. g \in Gens /\ g # None /\ made.gen \in Nat
    BY <1>1 DEF Counts
  <2>2. /\ \A x \in Requests : /\ x # r => req'[x] = req[x]
                               /\ req'[x].err = req[x].err /\ req'[x].pc = req[x].pc
        /\ req'[r].att = "joined" /\ req'[r].gen = g
    BY <1>1, <2>0 DEF ReqState
  <2>3. /\ st'.client = None /\ st'.process = st.process /\ st'.deferred = None
        /\ st'.startup = g /\ st'.unavailable = st.unavailable
        /\ st'.closing = st.closing /\ st'.users = st.users /\ st'.teardown = st.teardown
        /\ st'.tearing = st.tearing /\ st'.close = st.close /\ st'.fallback = st.fallback
        /\ st'.reserved = st.reserved /\ st'.pending = st.pending /\ st'.fenced = st.fenced
    BY <1>1, <1>3, <1>9, <2>0 DEF BrokerState
  <2>4. made'.proc = made.proc /\ made'.gen = g
    BY <1>1, <2>0 DEF Counts
  <2>5. gen[g].pc = "none" /\ ~gen[g].cancelled /\ gen[g].proc = None
    BY <1>1, <2>0, <2>1 DEF Apart, GenInv, Counts, GenState
  <2>6. /\ \A h \in Gens : h # g => gen'[h] = gen[h]
        /\ gen'[g].pc = "connect" /\ gen'[g].cancelled = FALSE /\ gen'[g].proc = None
    BY <1>1, <2>0, <2>1, <2>5 DEF GenState
  <2>7. LegacyInv'
    <3>1. r \in st.pending
      BY <1>3 DEF StageInv, StageOf
    <3> QED
      BY <2>3, <3>1 DEF Apart, LegacyInv
  <2>8. FenceInv'
    BY <1>1, <1>2, <2>2, <2>3 DEF Apart, FenceInv, BrokerState
  <2>9. ChildInv'
    BY <1>2, <1>3, <2>3, <2>4 DEF Apart, ChildInv
  <2>10. GenInv'
    <3> SUFFICES ASSUME NEW h \in Gens
                 PROVE  /\ gen'[h].proc # None => gen'[h].proc <= made'.proc
                        /\ gen'[h].cancelled /\ gen'[h].proc # None => gen'[h].proc # st'.process
                        /\ gen'[h].pc # "none" => h <= made'.gen
                        /\ (gen'[h].pc \in {"connect", "spawn"} /\ ~gen'[h].cancelled) <=> st'.startup = h
                        /\ gen'[h].pc = "none" => ~gen'[h].cancelled /\ gen'[h].proc = None
      BY DEF GenInv
    <3>1. CASE h = g
      <4>1. g <= made'.gen
        BY <2>0, <2>1, <2>4
      <4> QED
        BY <2>3, <2>4, <2>6, <3>1, <4>1
    <3>2. CASE h # g
      <4>1. gen[h].pc # "none" => h <= made'.gen
        <5>1. h \in Nat
          BY LaneAssumption
        <5> QED
          BY <2>0, <2>1, <2>4, <5>1 DEF Apart, GenInv
      <4> QED
        BY <1>1, <1>9, <2>3, <2>4, <2>6, <3>2, <4>1 DEF Apart, GenInv
    <3> QED
      BY <3>1, <3>2
  <2>11. JoinInv'
    <3>1. r \in Joined(g)'
      BY <2>2 DEF Joined
    <3>2. ASSUME NEW x \in Requests, req'[x].att = "joined"
          PROVE  req'[x].gen # None /\ (gen'[req'[x].gen].cancelled \/ st'.startup = req'[x].gen)
      <4>1. CASE x = r
        BY <2>1, <2>2, <2>3, <4>1
      <4>2. CASE x # r
        <5>1. req[x].gen # None /\ gen[req[x].gen].cancelled /\ req[x].gen \in Gens
          BY <1>1, <1>9, <2>2, <3>2, <4>2 DEF Apart, JoinInv, ReqState
        <5> QED
          BY <2>2, <2>5, <2>6, <4>2, <5>1
      <4> QED
        BY <4>1, <4>2
    <3> QED
      BY <2>3, <3>1, <3>2 DEF JoinInv
  <2>12. StartInv' /\ TearInv' /\ DecideInv'
    BY <1>2, <1>3, <2>2, <2>3 DEF Apart, StartInv, Hidden, TearInv, Torn, DecideInv
  <2>13. CloseInv'
    BY <1>3, <2>3 DEF Apart, CloseInv
  <2>14. DoomInv'
    BY <2>3, <2>6 DEF DoomInv, Doomed
  <2> QED
    BY <2>7, <2>8, <2>9, <2>10, <2>11, <2>12, <2>13, <2>14 DEF Apart
<1> QED
  BY <1>1, <1>3, <1>6, <1>7, <1>8, <1>9 DEF AttemptDecide

LEMMA LeavesKeeps ==
    ASSUME TypeOK, QueueInv, StageInv, Apart, NEW r \in Requests, AttemptLeaves(r)
    PROVE  Apart'
<1>1. /\ st \in BrokerState /\ req \in [Requests -> ReqState] /\ made \in Counts
      /\ gen \in [Gens -> GenState] /\ None \notin Gens /\ None \notin alive /\ None \notin Procs
  BY TypeParts, Nones
<1>2. hold' = hold /\ alive' = alive /\ open' = open /\ queue' = queue /\ made' = made
  BY DEF AttemptLeaves
<1>3. req[r].att = "joined" /\ req[r].err # "none"
  BY DEF AttemptLeaves
<1>4. PICK g \in Gens : g = req[r].gen /\ (gen[g].cancelled \/ st.startup = g)
  BY <1>1, <1>3 DEF Apart, JoinInv, ReqState
<1>5. ASSUME NEW s, AttemptError(r, s)
      PROVE  /\ \A x \in Requests : /\ x # r => req'[x] = req[x]
                                    /\ req'[x].err = req[x].err /\ req'[x].pc = req[x].pc
                                    /\ req'[x].gen = req[x].gen
             /\ req'[r].att = "err"
  BY <1>1, <1>5 DEF AttemptError, ReqState
<1>6. CASE /\ AttemptError(r, st) /\ gen' = gen
           /\ Joined(g) # {r} \/ gen[g].cancelled
  <2>1. /\ \A x \in Requests : /\ x # r => req'[x] = req[x]
                               /\ req'[x].err = req[x].err /\ req'[x].pc = req[x].pc
                               /\ req'[x].gen = req[x].gen
        /\ req'[r].att = "err"
    BY <1>5, <1>6
  <2>2. Settles(st, st') /\ st'.deferred = st.deferred /\ st'.closing = st.closing
    BY <1>1, <1>6, DropSettles, DropEffect DEF AttemptError, Stable
  <2>3. LegacyInv' /\ ChildInv' /\ GenInv' /\ StartInv' /\ TearInv'
    BY <1>2, <1>6, <2>2
       DEF Settles, Apart, LegacyInv, Active, ChildInv, GenInv, StartInv, Hidden, TearInv
  <2>4. FenceInv'
    BY <1>1, <1>2, <2>1, <2>2 DEF Settles, Apart, FenceInv, BrokerState
  <2>5. JoinInv'
    <3>1. r \in Joined(g)
      BY <1>3, <1>4 DEF Joined
    <3>2. st.startup = g => ~gen[g].cancelled
      BY <1>4 DEF Apart, GenInv
    <3>3. st.startup # None => \E x \in Joined(st.startup) : x # r
      <4>1. CASE st.startup = g
        BY <1>6, <3>1, <3>2, <4>1
      <4>2. CASE st.startup # g
        BY <1>4, <4>2 DEF Apart, JoinInv, Joined
      <4> QED
        BY <4>1, <4>2
    <3>4. st'.startup # None => Joined(st.startup)' # {}
      <4> SUFFICES ASSUME st'.startup # None PROVE Joined(st.startup)' # {}
        OBVIOUS
      <4>1. st'.startup = st.startup
        BY <2>2 DEF Settles
      <4>2. PICK x \in Joined(st.startup) : x # r
        BY <3>3, <4>1
      <4>3. x \in Requests /\ req'[x] = req[x]
        BY <2>1, <4>2 DEF Joined
      <4> QED
        BY <4>1, <4>2, <4>3 DEF Joined
    <3> QED
      BY <1>6, <2>1, <2>2, <3>4 DEF Settles, Apart, JoinInv
  <2>6. DecideInv' /\ CloseInv'
    BY <1>2, <2>1, <2>2 DEF Settles, Apart, DecideInv, CloseInv
  <2>7. DoomInv'
    <3> SUFFICES ASSUME Doomed' PROVE DoomInv'
      BY DEF DoomInv
    <3>1. st'.startup = st.startup /\ st.startup # None
      BY <2>2 DEF Settles, Doomed
    <3>2. Doomed
      <4>1. gen[st.startup].proc # None
        BY <1>6, <3>1 DEF Doomed
      <4>2. \A x \in Joined(st.startup) : x \in Requests /\ (x = r \/ x \in Joined(st.startup)')
        BY <2>1, <3>1 DEF Joined
      <4>3. \A x \in Joined(st.startup)' : req'[x].err # "none"
        BY <3>1 DEF Doomed
      <4> QED
        BY <1>3, <2>1, <3>1, <4>1, <4>2, <4>3 DEF Doomed
    <3> QED
      BY <1>2, <2>1, <2>2, <3>1, <3>2 DEF Settles, Apart, DoomInv, HoldReady
  <2> QED
    BY <2>3, <2>4, <2>5, <2>6, <2>7 DEF Apart
<1>7. CASE /\ AttemptError(r, Cancel(st, g)) /\ gen' = [gen EXCEPT ![g].cancelled = TRUE]
           /\ Joined(g) = {r} /\ ~gen[g].cancelled
  <2> DEFINE t == Cancel(st, g)
             own == gen[g].proc # None /\ st.process = gen[g].proc
  <2>1. /\ \A x \in Requests : /\ x # r => req'[x] = req[x]
                               /\ req'[x].err = req[x].err /\ req'[x].pc = req[x].pc
                               /\ req'[x].gen = req[x].gen
        /\ req'[r].att = "err"
    BY <1>5, <1>7
  <2>2. st.startup = g /\ g # None /\ gen[g].proc \in Procs \cup {None}
    BY <1>1, <1>4, <1>7 DEF GenState
  <2>3. st.client = None /\ st.deferred = None /\ ~Hidden /\ st.fallback = None
    BY <2>2 DEF Apart, StartInv, LegacyInv
  <2>4. /\ t \in BrokerState /\ Marked(st, t)
        /\ t.client = None
        /\ t.closing = st.closing /\ t.users = st.users
        /\ t.reserved = st.reserved /\ t.fallback = None
        /\ t.close = st.close
        /\ t.tearing <=> st.tearing /\ ~Over(t)
        /\ t.startup = None
        /\ t.process = IF own THEN None ELSE st.process
        /\ t.deferred = IF own /\ st.process \in alive THEN st.process ELSE None
        /\ t.teardown <=> /\ st.teardown \/ (own /\ st.process \in alive)
                          /\ ~Cleared(t)
    BY <1>1, <2>2, <2>3, CancelEffect
  <2> HIDE DEF t
  <2>5. Torn(t)
    BY <2>4 DEF Torn, Cleared
  <2>6. t.tearing \/ (st.tearing => t.close = "none" /\ t.fenced = {})
    BY <2>4 DEF Over, Unresolved
  <2>7. Settles(t, st') /\ st'.deferred = t.deferred /\ st'.closing = t.closing
    BY <1>7, <2>4, DropSettles, DropEffect DEF AttemptError, Stable, t
  <2>8. /\ st'.client = None /\ st'.startup = None /\ st'.fallback = None
        /\ st'.process = IF own THEN None ELSE st.process
        /\ st'.deferred = IF own /\ st.process \in alive THEN st.process ELSE None
        /\ st'.close = st.close /\ st'.fenced \subseteq st.fenced
        /\ st.pending \subseteq st.fenced => st'.pending \subseteq st'.fenced
        /\ st.tearing /\ ~st'.tearing => st'.close = "none" /\ st'.fenced = {}
        /\ Torn(st')
    BY <2>4, <2>5, <2>6, <2>7 DEF Settles, Marked
  <2>9. /\ \A h \in Gens : h # g => gen'[h] = gen[h]
        /\ gen'[g].pc = gen[g].pc /\ gen'[g].cancelled = TRUE /\ gen'[g].proc = gen[g].proc
    BY <1>1, <1>7 DEF GenState
  <2>10. LegacyInv' /\ StartInv' /\ TearInv' /\ CloseInv' /\ DoomInv'
    BY <1>2, <2>2, <2>8
       DEF Apart, LegacyInv, StartInv, TearInv, CloseInv, DoomInv, Doomed
  <2>11. FenceInv'
    BY <1>1, <1>2, <2>1, <2>8 DEF Apart, FenceInv, BrokerState
  <2>12. ChildInv'
    BY <1>1, <1>2, <2>3, <2>8 DEF Apart, ChildInv
  <2>13. GenInv'
    BY <1>2, <2>2, <2>8, <2>9, <1>1 DEF Apart, GenInv
  <2>14. JoinInv'
    <3>1. ASSUME NEW x \in Requests, req'[x].att = "joined"
          PROVE  req'[x].gen # None /\ gen'[req'[x].gen].cancelled
      <4>1. x # r /\ req'[x] = req[x] /\ req[x].gen \in Gens
        BY <1>1, <2>1, <3>1 DEF Apart, JoinInv, ReqState
      <4>2. req[x].gen # g
        BY <1>7, <3>1, <4>1 DEF Joined
      <4> QED
        BY <2>2, <2>9, <3>1, <4>1, <4>2 DEF Apart, JoinInv
    <3> QED
      BY <2>8, <3>1 DEF JoinInv
  <2>15. DecideInv'
    <3>1. own => Doomed
      BY <1>3, <1>7, <2>2 DEF Doomed
    <3>2. own => \A x \in Requests : req[x].att # "decide"
      BY <3>1 DEF Apart, DoomInv, DecideInv
    <3>3. ~(hold # None /\ hold.op = "check")
      BY <2>2 DEF Apart, DecideInv
    <3> QED
      BY <1>2, <2>1, <2>8, <3>2, <3>3 DEF Apart, DecideInv
  <2> QED
    BY <2>10, <2>11, <2>12, <2>13, <2>14, <2>15 DEF Apart
<1> QED
  BY <1>4, <1>6, <1>7 DEF AttemptLeaves

-----------------------------------------------------------------------------
(* Steps that close a client and take its child along.                       *)

\* From s, the profile of an operation op that is about to close a client, and the
\* child p that operation waits for, nothing is lost.
From(op, p, s) ==
    /\ s \in BrokerState /\ p \in Procs \cup {None}
    /\ s.client \in {st.client, None} /\ s.process \in {st.process, None}
    /\ s.startup = st.startup /\ s.reserved = st.reserved /\ s.fallback = st.fallback
    /\ s.close = st.close /\ s.pending = st.pending /\ s.fenced = st.fenced
    /\ s.tearing = st.tearing /\ (Active(s) => Active(st)) /\ Torn(s)
    /\ s.deferred # None => s.deferred \in alive /\ s.deferred # s.process
    /\ \A q \in alive : q \in {s.process, s.deferred, p}
    /\ p \in alive => p # s.process
    /\ p # None => p <= made.proc
    /\ st.startup # None => s.client = None /\ s.deferred = None /\ p \notin alive
    /\ op = "adopt" => p = None
    /\ op = "check" => /\ s.client = None /\ s.deferred = None /\ p = None
                       /\ st.startup = None
                       /\ st.close \notin {"reserve", "users", "detach", "closing"}
    /\ \A x \in Requests : req[x].att # "decide"
    /\ Doomed => Barred /\ op # "check"

\* What has become of the operation op of r: it waits for the child p, or is over.
Outcome(op, r, p, s) ==
    /\ \/ Settles(s, st')
       \/ op = "adopt" /\ Settles([s EXCEPT !.fenced = @ \cup {r}], st')
          /\ (r \in Requests => req'[r].err # "none")
    /\ \A x \in Requests : x # r => req'[x] = req[x]
    /\ r \in Requests =>
          /\ \/ req'[r].att = req[r].att
             \/ req[r].att = "queued" /\ op = "check" /\ req'[r].att \in {"decide", "err"}
          /\ req'[r].gen = req[r].gen
          /\ req'[r].err = "none" => req[r].err = "none"
          /\ req[r].att = "joined" => req'[r].err = req[r].err \/ req[r].err # "none"
          /\ req'[r].pc = "gated" => req[r].pc = "gated"
          /\ op = "adopt" => req[r].att = "settled"
    /\ \A O, x : In(queue', O, x) /\ "cleanup" \notin O /\ "unreserve" \notin O => In(queue, O, x)
    /\ Once(queue, {"prepare"}, None) => Once(queue', {"prepare"}, None)
    /\ Once(queue, {"detach"}, None) => Once(queue', {"detach"}, None)
    /\ \/ /\ hold' = None
          /\ st'.deferred = IF p \in alive /\ s.deferred = None THEN p ELSE s.deferred
       \/ /\ hold' # None /\ hold'.op = op /\ hold'.p = p
          /\ st'.deferred = s.deferred \/ (p \in alive /\ s.deferred = None /\ st'.deferred = p)
          /\ \A x \in Requests : req'[x].att # "decide"

LEMMA OutcomeKeeps ==
    ASSUME TypeOK, TypeOK', Apart, NEW op, NEW r, NEW p, NEW s, From(op, p, s), Outcome(op, r, p, s),
           gen' = gen, alive' = alive, open' = open, made' = made
    PROVE  Apart'
<1>1. /\ st \in BrokerState /\ req \in [Requests -> ReqState] /\ None \notin alive
      /\ None \notin Procs /\ gen \in [Gens -> GenState]
  BY TypeParts, Nones
<1>2. /\ st'.client = s.client /\ st'.process = s.process /\ st'.startup = st.startup
      /\ st'.users = s.users /\ st'.reserved = st.reserved /\ st'.fallback = st.fallback
      /\ st'.close = st.close
      /\ st'.pending \subseteq st.pending /\ st'.fenced \subseteq st.fenced \cup {r}
      /\ st.pending \subseteq st.fenced => st'.pending \subseteq st'.fenced
      /\ st.tearing /\ ~st'.tearing =>
            st'.close = "none" /\ st'.fenced = {} /\ st'.startup = None
      /\ Torn(st')
      /\ r \in st'.fenced =>
            r \in st.fenced \/ (op = "adopt" /\ (r \in Requests => req'[r].err # "none"))
  <2>1. CASE Settles(s, st')
    BY <2>1 DEF From, Settles
  <2>2. CASE /\ op = "adopt" /\ Settles([s EXCEPT !.fenced = @ \cup {r}], st')
             /\ (r \in Requests => req'[r].err # "none")
    <3> DEFINE u == [s EXCEPT !.fenced = @ \cup {r}]
    <3>1. /\ u.client = s.client /\ u.process = s.process /\ u.startup = s.startup
          /\ u.users = s.users /\ u.reserved = s.reserved /\ u.fallback = s.fallback
          /\ u.close = s.close /\ u.pending = s.pending /\ u.fenced = s.fenced \cup {r}
          /\ u.tearing = s.tearing /\ (Torn(s) => Torn(u))
      BY DEF From, BrokerState, Torn
    <3>2. Settles(u, st')
      BY <2>2
    <3> HIDE DEF u
    <3> QED
      BY <2>2, <3>1, <3>2 DEF From, Settles
  <2> QED
    BY <2>1, <2>2 DEF Outcome
<1>3. \A g : Joined(g)' = Joined(g)
  <2> SUFFICES ASSUME NEW g PROVE Joined(g)' = Joined(g)
    OBVIOUS
  <2>1. \A x \in Requests : /\ req'[x].att = "joined" <=> req[x].att = "joined"
                            /\ req'[x].gen = req[x].gen
    BY DEF Outcome
  <2> QED
    BY <2>1 DEF Joined
<1>4. LegacyInv'
  BY <1>2 DEF Apart, LegacyInv, From, Active
<1>5. FenceInv'
  <2>1. ASSUME NEW x \in st'.fenced
        PROVE  /\ req'[x].att # "ok"
               /\ req'[x].err = "none" => st'.tearing
               /\ req'[x].att = "decide" => st'.client = None
    <3>1. x \in Requests
      BY <2>1, TypePartsNext DEF BrokerState
    <3>2. CASE x \in st.fenced
      <4>1. /\ req[x].att # "ok" /\ req[x].att # "decide"
            /\ req[x].err = "none" => st.tearing
        BY <3>1, <3>2 DEF Apart, FenceInv, From
      <4>2. /\ req'[x].err = "none" => req[x].err = "none"
            /\ \/ req'[x].att = req[x].att
               \/ op = "check" /\ req'[x].att \in {"decide", "err"}
        BY <3>1 DEF Outcome
      <4> QED
        BY <1>2, <2>1, <4>1, <4>2 DEF From
    <3>3. CASE x \notin st.fenced
      <4>1. x = r /\ op = "adopt" /\ req'[r].err # "none"
        BY <1>2, <2>1, <3>1, <3>3
      <4> QED
        BY <3>1, <4>1 DEF Outcome
    <3> QED
      BY <3>2, <3>3
  <2>2. /\ st'.close # "none" => st'.tearing
        /\ st'.close = "prepare" => st'.pending \subseteq st'.fenced
    BY <1>2 DEF Apart, FenceInv
  <2>3. /\ In(queue', {"prepare"}, None) => st'.close = "prepare"
        /\ In(queue', {"detach"}, None) => st'.close = "detach"
        /\ Once(queue', {"prepare"}, None) /\ Once(queue', {"detach"}, None)
    BY <1>2 DEF Apart, FenceInv, Outcome
  <2> QED
    BY <2>1, <2>2, <2>3 DEF FenceInv
<1>6. ChildInv'
  <2>1. \A x : In(queue', {"exit"}, x) => In(queue, {"exit"}, x)
    BY DEF Outcome
  <2>2. /\ st'.deferred # None => st'.deferred \in alive /\ st'.deferred # st'.process
        /\ \A x \in alive : x \in {st'.process, st'.deferred} \/ (hold' # None /\ hold'.p = x)
        /\ hold' # None => /\ hold'.p \in alive => hold'.p # st'.process
                           /\ hold'.p # None => hold'.p <= made.proc
                           /\ hold'.op = "adopt" => hold'.p = None
    BY <1>1, <1>2 DEF Apart, ChildInv, From, Outcome
  <2> QED
    BY <1>1, <1>2, <2>1, <2>2 DEF Apart, ChildInv, From
<1>7. GenInv'
  BY <1>2 DEF Apart, GenInv, From
<1>8. JoinInv'
  BY <1>2, <1>3 DEF Apart, JoinInv, Outcome
<1>9. StartInv'
  BY <1>2 DEF StartInv, Hidden, From, Outcome
<1>10. TearInv'
  BY <1>2 DEF TearInv
<1>11. DecideInv'
  BY <1>1, <1>2 DEF Apart, DecideInv, From, Outcome
<1>12. CloseInv'
  BY <1>2 DEF Apart, CloseInv, From, Outcome
<1>13. DoomInv'
  <2> SUFFICES ASSUME Doomed' PROVE DoomInv'
    BY DEF DoomInv
  <2>1. st'.startup = st.startup /\ Joined(st.startup)' = Joined(st.startup)
    BY <1>2, <1>3
  <2>2. \A x \in Joined(st.startup) : x \in Requests /\ req[x].att = "joined"
    BY DEF Joined
  <2>3. Doomed
    BY <2>1, <2>2 DEF Doomed, Outcome
  <2>4. Barred /\ op # "check"
    BY <2>3 DEF From
  <2>5. \A x : In(queue', {"gate", "check"}, x) => In(queue, {"gate", "check"}, x)
    BY DEF Outcome
  <2>6. st.tearing => st'.tearing
    BY <1>2 DEF Doomed
  <2> QED
    BY <2>4, <2>5, <2>6 DEF DoomInv, Barred, Outcome
<1> QED
  BY <1>4, <1>5, <1>6, <1>7, <1>8, <1>9, <1>10, <1>11, <1>12, <1>13 DEF Apart

LEMMA CleanedUpOutcome ==
    ASSUME TypeOK, NEW op, NEW r \in Requests, NEW p, NEW s, NEW t, NEW ok \in BOOLEAN,
           NEW q \in Seq(Operation), CleanedUp(r, t, ok, q), Within(q, queue), hold' = None,
           req[r].err # "none", op # "adopt", Settles(s, t),
           t.deferred = IF p \in alive /\ s.deferred = None THEN p ELSE s.deferred
    PROVE  Outcome(op, r, p, s)
<1> DEFINE e == IF ok \/ req[r].err = "abort" THEN req[r].err ELSE "fence"
           cs == req[r].closeStarted \/ Unowned(r)
           pc1 == IF r \in t.reserved THEN "queued"
                  ELSE IF e = "broker" THEN "legacyWait" ELSE "failed"
<1>1. /\ st' = t
      /\ req' = [req EXCEPT ![r].client = None, ![r].err = e, ![r].closeStarted = cs,
                            ![r].pc = pc1]
      /\ queue' = q \o (IF r \in t.reserved THEN <<<<"unreserve", r>>>> ELSE <<>>)
  BY DEF CleanedUp
<1>2. e # "none" /\ pc1 \in {"queued", "legacyWait", "failed"}
  OBVIOUS
<1> HIDE DEF e, cs, pc1
<1>3. /\ \A x \in Requests : x # r => req'[x] = req[x]
      /\ req'[r].pc = pc1 /\ req'[r].err = e /\ req'[r].att = req[r].att
      /\ req'[r].gen = req[r].gen
  BY <1>1, TypeParts DEF ReqState
<1>4. Adds(queue', q, "unreserve", r) \/ queue' = q
  <2>1. <<"unreserve", r>> \in Operation
    BY Entries
  <2>2. q \o <<<<"unreserve", r>>>> = Append(q, <<"unreserve", r>>) /\ q \o <<>> = q
    BY <2>1, AppendQ
  <2>3. Adds(Append(q, <<"unreserve", r>>), q, "unreserve", r)
    BY <2>1, Appended
  <2> QED
    BY <1>1, <2>2, <2>3
<1>5. /\ \A O, x : In(queue', O, x) /\ "cleanup" \notin O /\ "unreserve" \notin O => In(queue, O, x)
      /\ Once(queue, {"prepare"}, None) => Once(queue', {"prepare"}, None)
      /\ Once(queue, {"detach"}, None) => Once(queue', {"detach"}, None)
  BY <1>4 DEF Adds, Within
<1> QED
  BY <1>1, <1>2, <1>3, <1>5 DEF Outcome

LEMMA ContinueOutcome ==
    ASSUME TypeOK, NEW op, NEW r, NEW c \in Clients \cup {None}, NEW p \in Procs \cup {None},
           NEW s \in BrokerState, NEW q \in Seq(Operation), Continue(op, r, c, p, s, q),
           Closes(op, r, q), Within(q, queue), hold' = None, op = "adopt" => p = None
    PROVE  Outcome(op, r, p, s)
<1> DEFINE t == Ended(s, c, p)
           u == DropMarkers(t, {r})
           d == IF p \in alive /\ s.deferred = None THEN p ELSE s.deferred
<1>1. /\ Settles(s, t) /\ t.deferred = d /\ t \in BrokerState
      /\ Settles(s, u) /\ u.deferred = d
  <2>1. None \notin alive
    BY Nones
  <2>2. Settles(s, t) /\ t.deferred = d /\ t \in BrokerState
    BY <2>1, EndedSettles, EndedKeeps
  <2> HIDE DEF t
  <2>3. Settles(t, u) /\ u.deferred = t.deferred /\ u \in BrokerState
    BY <2>2, DropSettles, DropEffect
  <2> HIDE DEF u
  <2>4. u.tearing \/ ~u.tearing
    OBVIOUS
  <2> QED
    BY <2>2, <2>3, <2>4, Settled1
<1> HIDE DEF t, u
<1>2. /\ req \in [Requests -> ReqState] /\ None \notin alive
      /\ \A O, x : In(q, O, x) => In(queue, O, x)
      /\ Once(queue, {"prepare"}, None) => Once(q, {"prepare"}, None)
      /\ Once(queue, {"detach"}, None) => Once(q, {"detach"}, None)
  BY TypeParts, Nones DEF Within
<1>3. CASE /\ op = "check" /\ queue' = q
           /\ \/ st' = t /\ req' = [req EXCEPT ![r].att = "decide"]
              \/ st' = u /\ req' = [req EXCEPT ![r].att = "err"]
  <2>1. /\ Settles(s, st') /\ st'.deferred = d
        /\ \/ req' = [req EXCEPT ![r].att = "decide"]
           \/ req' = [req EXCEPT ![r].att = "err"]
    BY <1>1, <1>3
  <2>2. r \in Requests /\ req[r].att = "queued"
    BY <1>3 DEF Closes
  <2>3. /\ \A x \in Requests : x # r => req'[x] = req[x]
        /\ req'[r].pc = req[r].pc /\ req'[r].err = req[r].err
        /\ req'[r].att \in {"decide", "err"} /\ req'[r].gen = req[r].gen
    BY <1>2, <2>1, <2>2 DEF ReqState
  <2> QED
    BY <1>2, <1>3, <2>1, <2>2, <2>3 DEF Outcome
<1>4. CASE op = "adopt" /\ Fail(r, s, "abort", q)
  <2>1. r \in Requests /\ req[r].att = "settled" /\ p = None
    BY <1>4 DEF Closes
  <2>2. /\ \A x \in Requests : x # r => req'[x] = req[x]
        /\ req'[r].pc = "queued" /\ req'[r].err = "abort"
        /\ req'[r].att = req[r].att /\ req'[r].gen = req[r].gen
    BY <1>2, <1>4, <2>1 DEF Fail, ReqState
  <2>3. Adds(queue', q, "cleanup", r)
    BY <1>4, <2>1, Appended, Entries DEF Fail
  <2>4. /\ \A O, x : In(queue', O, x) /\ "cleanup" \notin O => In(queue, O, x)
        /\ Once(queue, {"prepare"}, None) => Once(queue', {"prepare"}, None)
        /\ Once(queue, {"detach"}, None) => Once(queue', {"detach"}, None)
    BY <1>2, <2>3 DEF Adds
  <2> DEFINE v == [s EXCEPT !.fenced = @ \cup {r}]
  <2>5. /\ Settles(s, s) /\ Settles(v, v) /\ v.deferred = s.deferred
    BY DEF Settles, BrokerState
  <2>6. st' = s \/ st' = v
    BY <1>4 DEF Fail
  <2> HIDE DEF v
  <2>7. Settles(s, st') \/ Settles(v, st')
    BY <2>5, <2>6
  <2>8. st'.deferred = d
    BY <1>2, <2>1, <2>5, <2>6
  <2> QED
    BY <1>4, <2>1, <2>2, <2>4, <2>7, <2>8 DEF Outcome, v
<1>5. CASE op = "cleanup" /\ \E ok \in BOOLEAN : CleanedUp(r, t, ok, q)
  BY <1>1, <1>5, CleanedUpOutcome DEF Closes
<1>6. CASE /\ op = "late"
           /\ \E ok \in BOOLEAN : CleanedUp(r, t, ok, q) \/ CleanedUp(r, u, ok, q)
  BY <1>1, <1>6, CleanedUpOutcome DEF Closes
<1>7. CASE op = "unlease" /\ st' = t /\ Go(r, "done") /\ queue' = q
  <2>1. r \in Requests
    BY <1>7 DEF Closes
  <2>2. /\ \A x \in Requests : x # r => req'[x] = req[x]
        /\ req'[r].pc = "done" /\ req'[r].err = req[r].err
        /\ req'[r].att = req[r].att /\ req'[r].gen = req[r].gen
    BY <1>2, <1>7, <2>1 DEF Go, ReqState
  <2> QED
    BY <1>1, <1>2, <1>7, <2>2 DEF Outcome
<1>8. CASE /\ op \notin {"check", "adopt", "cleanup", "late", "unlease"}
           /\ st' = t /\ req' = req /\ queue' = q
  BY <1>1, <1>2, <1>8 DEF Outcome
<1> QED
  BY <1>3, <1>4, <1>5, <1>6, <1>7, <1>8, ContinueCases DEF t, u

LEMMA ClosingOutcome ==
    ASSUME TypeOK, NEW op, NEW r,
           \/ op \in {"check", "adopt", "cleanup", "late", "unlease"} /\ r \in Requests
           \/ op \in {"exit", "unadopted"} /\ r = None,
           NEW c \in Clients \cup {None}, NEW p \in Procs \cup {None},
           NEW s, From(op, p, s), Closing(op, r, c, p, s),
           Closes(op, r, Tail(queue)), Within(Tail(queue), queue), Tail(queue) \in Seq(Operation)
    PROVE  Outcome(op, r, p, s)
<1>0. s \in BrokerState /\ None \notin alive /\ (op = "adopt" => p = None)
      /\ \A x \in Requests : req[x].att # "decide"
  BY Nones DEF From
<1> DEFINE f == Forgive(s, c)
           u == RetainDeferred(f, p)
           d == IF p \in alive /\ s.deferred = None THEN p ELSE s.deferred
<1>1. /\ f \in BrokerState /\ Settles(s, f) /\ f.deferred = s.deferred /\ f.tearing = s.tearing
      /\ Marked(s, f)
  BY <1>0, ForgiveEffect DEF Settles, Marked, Torn, BrokerState
<1> HIDE DEF f
<1>2. /\ u \in BrokerState /\ Settles(f, u) /\ u.deferred = d /\ u.tearing = s.tearing
      /\ Marked(f, u)
  <2>1. /\ u \in BrokerState /\ Stable(f, u) /\ Marked(f, u)
        /\ u.deferred = IF p \in alive /\ f.deferred = None THEN p ELSE f.deferred
        /\ u.teardown <=> f.teardown \/ (p \in alive /\ f.deferred = None)
        /\ u.tearing = f.tearing
    BY <1>0, <1>1, RetainEffect
  <2> HIDE DEF u
  <2> QED
    BY <1>1, <2>1 DEF Settles, Stable, Marked, Torn
<1> HIDE DEF u
<1>3. Settles(s, u)
  BY <1>1, <1>2, Settled1
<1>4. CASE p \notin alive /\ hold' = None /\ Continue(op, r, c, p, u, Tail(queue))
  <2>1. Outcome(op, r, p, u)
    BY <1>0, <1>2, <1>4, ContinueOutcome
  <2>2. u.deferred = s.deferred
    BY <1>2, <1>4
  <2>3. Settles(u, st') => Settles(s, st')
    BY <1>3, Settled1
  <2>4. CASE Settles(u, st')
    BY <1>4, <2>1, <2>2, <2>3, <2>4 DEF Outcome
  <2>5. CASE /\ op = "adopt" /\ Settles([u EXCEPT !.fenced = @ \cup {r}], st')
             /\ (r \in Requests => req'[r].err # "none")
    <3> DEFINE v == [u EXCEPT !.fenced = @ \cup {r}]
               w == [s EXCEPT !.fenced = @ \cup {r}]
    <3>1. Settles(w, v)
      <4>1. /\ w.client = s.client /\ w.process = s.process /\ w.startup = s.startup
            /\ w.unavailable = s.unavailable /\ w.users = s.users
            /\ w.reserved = s.reserved /\ w.fallback = s.fallback /\ w.close = s.close
            /\ w.pending = s.pending /\ w.fenced = s.fenced \cup {r}
            /\ w.tearing = s.tearing /\ (Torn(w) => Torn(s))
        BY <1>0 DEF BrokerState, Torn
      <4>2. /\ v.client = u.client /\ v.process = u.process /\ v.startup = u.startup
            /\ v.unavailable = u.unavailable /\ v.users = u.users
            /\ v.reserved = u.reserved /\ v.fallback = u.fallback /\ v.close = u.close
            /\ v.pending = u.pending /\ v.fenced = u.fenced \cup {r}
            /\ v.tearing = u.tearing /\ (Torn(u) => Torn(v))
        BY <1>2 DEF BrokerState, Torn
      <4>3. u.pending = s.pending /\ u.fenced = s.fenced
        BY <1>1, <1>2 DEF Marked
      <4> HIDE DEF v, w
      <4> QED
        BY <1>2, <1>3, <4>1, <4>2, <4>3 DEF Settles
    <3>2. Settles(v, st')
      BY <2>5
    <3> HIDE DEF v, w
    <3>3. Settles(w, st')
      BY <3>1, <3>2, Settled1
    <3> QED
      BY <1>4, <2>1, <2>2, <2>5, <3>3 DEF Outcome, w
  <2> QED
    BY <2>1, <2>4, <2>5 DEF Outcome
<1>5. CASE /\ \/ st' = u
              \/ st' = Shut(s, c) /\ c # None
           /\ req' = req /\ queue' = Tail(queue)
           /\ hold' = [op |-> op, r |-> r, c |-> c, p |-> p]
  <2>1. Settles(s, st') /\ st'.deferred \in {s.deferred, d}
    <3>1. c # None => Settles(s, Shut(s, c)) /\ Shut(s, c).deferred = s.deferred
      BY <1>0, ShutEffect DEF Settles, Marked, Torn, BrokerState
    <3> QED
      BY <1>2, <1>3, <1>5, <3>1
  <2>2. hold' # None /\ hold'.op = op /\ hold'.p = p
    <3>1. [op |-> op, r |-> r, c |-> c, p |-> p] \in Holding
      BY DEF Holding
    <3> QED
      BY <1>5, <3>1, HoldingAssumption
  <2>3. r \in Requests /\ op = "adopt" => req[r].att = "settled"
    BY DEF Closes
  <2> QED
    BY <1>0, <1>5, <2>1, <2>2, <2>3 DEF Outcome, Within
<1> QED
  BY <1>4, <1>5, ClosingCases DEF u, f

LEMMA TurnFacts ==
    ASSUME TypeOK, Apart, NEW o, NEW x, Turn(o, x)
    PROVE  /\ hold = None /\ Tail(queue) \in Seq(Operation) /\ Within(Tail(queue), queue)
           /\ \A y \in Requests : req[y].att # "decide"
           /\ \A p \in alive : p \in {st.process, st.deferred}
           /\ Doomed => Barred /\ (x \in Requests => o \notin {"gate", "check"})
<1>1. /\ Takes(Tail(queue), queue, o, x) /\ Tail(queue) \in Seq(Operation) /\ hold = None
  BY Taken
<1>2. \A y \in Requests : req[y].att # "decide"
  BY DEF Turn
<1>3. Doomed => Barred
  BY <1>1, DoomedTurn DEF Apart
<1>4. Barred /\ x \in Requests => o \notin {"gate", "check"}
  BY <1>1 DEF Takes, Barred
<1> QED
  BY <1>1, <1>2, <1>3, <1>4 DEF Takes, Apart, ChildInv

LEMMA DetachFrom ==
    ASSUME TypeOK, Apart, NEW o, NEW x, Turn(o, x), NEW op, op \notin {"adopt", "check"},
           NEW s \in BrokerState,
           s.process \in {st.process, None}, s.deferred = st.deferred,
           s.process = None => st.process \notin alive,
           st.startup # None => s.process = None,
           s.startup = st.startup, s.reserved = st.reserved, s.fallback = st.fallback,
           s.close = st.close, s.pending = st.pending, s.fenced = st.fenced,
           s.tearing = st.tearing, Active(s) => Active(st)
    PROVE  From(op, Child(s), Detach(s))
<1> DEFINE t == Detach(s)
           p == Child(s)
           kept == p \in alive /\ s.deferred = None
<1>1. st \in BrokerState /\ None \notin alive /\ made \in Counts
  BY TypeParts, Nones
<1>2. /\ t \in BrokerState /\ Marked(s, t) /\ p \in Procs \cup {None}
      /\ t.client = None /\ t.process = None /\ t.startup = s.startup /\ t.users = s.users
      /\ t.reserved = s.reserved /\ t.fallback = s.fallback
      /\ t.close = s.close /\ t.tearing = s.tearing
      /\ t.deferred = IF kept THEN p ELSE s.deferred
      /\ t.teardown <=> p # None \/ s.client # None
  BY <1>1, DetachEffect
<1>3. p = IF s.process # None THEN s.process ELSE s.deferred
  BY DEF Child
<1> HIDE DEF t, p
<1>4. /\ \A q \in alive : q \in {st.process, st.deferred}
      /\ \A y \in Requests : req[y].att # "decide"
      /\ Doomed => Barred
  BY TurnFacts
<1>5. Torn(t)
  BY <1>2, <1>3 DEF Torn
<1>6. Active(t) => Active(st)
  BY <1>2 DEF Active
<1>7. /\ t.deferred # None => t.deferred \in alive
      /\ \A q \in alive : q \in {t.deferred, p}
      /\ p # None => p <= made.proc
  BY <1>1, <1>2, <1>3, <1>4 DEF Apart, ChildInv
<1>8. st.startup # None => t.deferred = None /\ p \notin alive
  BY <1>1, <1>2, <1>3 DEF Apart, StartInv
<1>9. From(op, p, t)
  BY <1>1, <1>2, <1>4, <1>5, <1>6, <1>7, <1>8 DEF From, Marked
<1> QED
  BY <1>9 DEF t, p

LEMMA StillKeeps ==
    ASSUME TypeOK, Apart, st' = st, req' = req, gen' = gen, hold' = hold, alive' = alive,
           open' = open, made' = made,
           Within(queue', queue) \/ \E x : Adds(queue', queue, "unadopted", x)
    PROVE  Apart'
<1>1. /\ \A O, x : In(queue', O, x) /\ "unadopted" \notin O => In(queue, O, x)
      /\ Once(queue, {"prepare"}, None) => Once(queue', {"prepare"}, None)
      /\ Once(queue, {"detach"}, None) => Once(queue', {"detach"}, None)
  BY DEF Within, Adds
<1>2. Calm
  BY <1>1 DEF Calm
<1>3. Quiet
  BY <1>1, <1>2 DEF Quiet
<1> QED
  BY <1>3, QuietKeeps

LEMMA CheckFacts ==
    ASSUME TypeOK, Apart, NEW r \in Requests, Turn("check", r), Clear, ~AcquireBlocked(st)
    PROVE  /\ st.deferred = None /\ ~st.tearing /\ st.close = "none" /\ ~Doomed /\ st.fenced = {}
           /\ st.client # None => ~st.unavailable /\ st.startup = None
<1>1. ~Doomed
  BY TurnFacts
<1>2. ~st.tearing /\ st.close = "none"
  BY DEF Clear, Apart, FenceInv
<1>3. st.deferred # None => st.teardown /\ Unresolved(st)
  BY DEF Apart, TearInv, Torn, Unresolved
<1>4. st.client # None => Unresolved(st) /\ (st.unavailable => st.teardown) /\ st.startup = None
  BY DEF Apart, TearInv, Torn, Unresolved, StartInv
<1>5. st.fenced # {} => Unresolved(st)
  BY DEF Unresolved
<1> QED
  BY <1>1, <1>2, <1>3, <1>4, <1>5 DEF AcquireBlocked

LEMMA CheckKeeps ==
    ASSUME TypeOK, TypeOK', QueueInv, StageInv, Apart, NEW r \in Requests, AttemptCheck(r)
    PROVE  Apart'
<1> DEFINE c == st.client
           q == Tail(queue)
           s1 == Unset(st)
           s2 == Retire(s1, c)
<1>1. /\ st \in BrokerState /\ req \in [Requests -> ReqState] /\ None \notin alive
      /\ c \in Clients \cup {None}
  BY TypeParts, Nones DEF BrokerState
<1>2. /\ Turn("check", r) /\ gen' = gen /\ alive' = alive /\ open' = open /\ made' = made
  BY DEF AttemptCheck, Rest
<1>3. /\ Takes(q, queue, "check", r) /\ q \in Seq(Operation) /\ hold = None
      /\ Within(q, queue)
      /\ \A y \in Requests : req[y].att # "decide"
      /\ \A p \in alive : p \in {st.process, st.deferred}
  BY <1>2, Taken, TurnFacts
<1>4. req[r].att = "queued" /\ ~In(q, {"check"}, r)
  BY <1>3 DEF Takes, QueueInv, QueueOf
<1> HIDE DEF q
<1>5. CASE AttemptError(r, st) /\ queue' = q /\ hold' = None
  BY <1>2, <1>3, <1>4, <1>5, ErrorKeeps
<1>6. /\ s1 \in BrokerState /\ s1.client = None /\ s1.process = st.process
      /\ s1.deferred = st.deferred
      /\ s1.startup = st.startup /\ s1.unavailable = TRUE
      /\ s1.closing = st.closing /\ s1.users = st.users /\ s1.teardown = st.teardown
      /\ s1.tearing = st.tearing /\ s1.close = st.close /\ s1.fallback = st.fallback
      /\ s1.reserved = st.reserved /\ s1.pending = st.pending /\ s1.fenced = st.fenced
  BY <1>1 DEF BrokerState, Unset
<1> HIDE DEF s1
<1>7. /\ s2.client = None /\ s2.process = st.process /\ s2.deferred = st.deferred
      /\ s2.startup = st.startup /\ s2.unavailable = TRUE
      /\ s2.closing = st.closing /\ s2.users = st.users /\ s2.teardown = TRUE
      /\ s2.tearing = st.tearing /\ s2.close = st.close /\ s2.fallback = st.fallback
      /\ s2.reserved = st.reserved /\ s2.pending = st.pending /\ s2.fenced = st.fenced
  BY <1>6 DEF BrokerState, Retire
<1> HIDE DEF s2
<1>8. CASE /\ Clear /\ ~AcquireBlocked(st)
           /\ req' = [req EXCEPT ![r].att = "decide"] /\ queue' = q /\ hold' = None
           /\ \/ st' = st /\ (c = None \/ c \in open)
              \/ st' = s2 /\ c # None
  <2>1. /\ st.deferred = None /\ ~st.tearing /\ st.close = "none" /\ ~Doomed /\ st.fenced = {}
        /\ st.client # None => ~st.unavailable /\ st.startup = None
    BY <1>2, <1>8, CheckFacts
  <2>2. \A x \in Requests : /\ x # r => req'[x] = req[x]
                            /\ req'[x].err = req[x].err /\ req'[x].gen = req[x].gen
                            /\ req'[r].att = "decide"
    BY <1>1, <1>8 DEF ReqState
  <2>3. /\ \/ /\ st'.client = st.client /\ st'.unavailable = st.unavailable
              /\ st.client = None \/ st.client \in open
           \/ st'.client = None
        /\ st'.process = st.process /\ st'.deferred = None
        /\ st'.startup = st.startup
        /\ st'.users = st.users
        /\ st'.tearing = st.tearing /\ st'.close = "none" /\ st'.fallback = st.fallback
        /\ st'.reserved = st.reserved /\ st'.pending = st.pending /\ st'.fenced = {}
    BY <1>7, <1>8, <2>1
  <2>4. \A g : Joined(g)' = Joined(g)
    BY <1>4, <2>2 DEF Joined
  <2>5. LegacyInv' /\ ChildInv' /\ GenInv'
    <3>1. \A x : In(queue', {"exit"}, x) => In(queue, {"exit"}, x)
      BY <1>3, <1>8 DEF Within
    <3>2. LegacyInv'
      BY <1>2, <2>3 DEF Apart, LegacyInv, Active
    <3>3. ChildInv'
      BY <1>2, <1>3, <1>8, <2>1, <2>3, <3>1 DEF Apart, ChildInv
    <3>4. GenInv'
      BY <1>2, <2>3 DEF Apart, GenInv
    <3> QED
      BY <3>2, <3>3, <3>4
  <2>6. FenceInv'
    BY <1>3, <1>8, <2>1, <2>3 DEF Within, Apart, FenceInv
  <2>7. JoinInv'
    BY <1>2, <1>4, <2>2, <2>3, <2>4 DEF Apart, JoinInv
  <2>8. StartInv' /\ TearInv'
    BY <1>8, <2>1, <2>3 DEF Apart, StartInv, Hidden, TearInv, Torn
  <2>9. DecideInv' /\ CloseInv'
    BY <1>2, <1>3, <1>8, <2>1, <2>2, <2>3 DEF Apart, DecideInv, CloseInv
  <2>10. ~Doomed'
    <3>1. \A x \in Joined(st.startup) : x \in Requests
      BY DEF Joined
    <3> QED
      BY <1>2, <2>1, <2>2, <2>3, <2>4, <3>1 DEF Doomed
  <2> QED
    BY <2>5, <2>6, <2>7, <2>8, <2>9, <2>10 DEF Apart, DoomInv
<1>9. CASE Clear /\ ~AcquireBlocked(st) /\ c # None /\ Closing("check", r, c, None, s1)
  <2>1. /\ st.deferred = None /\ ~st.tearing /\ st.close = "none" /\ ~Doomed
        /\ st.startup = None
    BY <1>2, <1>9, CheckFacts
  <2>2. Closes("check", r, q)
    BY <1>4 DEF Closes
  <2>3. From("check", None, s1)
    BY <1>1, <1>3, <1>6, <2>1 DEF From, Active, Torn
  <2>4. Outcome("check", r, None, s1)
    BY <1>1, <1>3, <1>9, <2>2, <2>3, ClosingOutcome DEF q
  <2> QED
    BY <1>2, <2>3, <2>4, OutcomeKeeps
<1> QED
  BY <1>5, <1>8, <1>9 DEF AttemptCheck, Unset, Retire, s1, s2, q

\* The operation that waited at the head of the queue goes on.
LEMMA HoldKeeps ==
    ASSUME TypeOK, TypeOK', QueueInv, StageInv, Apart, HoldEnds
    PROVE  Apart'
<1>1. /\ st \in BrokerState /\ None \notin alive /\ queue \in Seq(Operation)
  BY TypeParts, Nones
<1>2. /\ hold # None /\ Continue(hold.op, hold.r, hold.c, hold.p, st, queue)
      /\ hold' = None /\ gen' = gen /\ alive' = alive /\ open' = open /\ made' = made
      /\ HoldReady \/ Idle
  BY DEF HoldEnds, HoldReady, Rest
<1>3. /\ hold.c \in Clients \cup {None} /\ hold.p \in Procs \cup {None}
      /\ hold.op \in {"check", "adopt", "cleanup", "late", "unlease"} => hold.r \in Requests
      /\ hold.op \notin {"check", "adopt", "cleanup", "late", "unlease"} => hold.r = None
  BY <1>2, TypeParts DEF Holding
<1>4. Closes(hold.op, hold.r, queue)
  BY <1>2, <1>3 DEF Closes, QueueInv, QueueOf, StageInv, StageOf, Waits
<1>5. Within(queue, queue)
  BY DEF Within
<1>6. Doomed => Barred /\ hold.op # "check"
  BY <1>2, DoomedBusy, DoomedTurn DEF Apart
<1>7. From(hold.op, hold.p, st)
  <2>1. /\ st.deferred # None => st.deferred \in alive /\ st.deferred # st.process
        /\ \A q \in alive : q \in {st.process, st.deferred, hold.p}
        /\ hold.p \in alive => hold.p # st.process
        /\ hold.p # None => hold.p <= made.proc
        /\ hold.op = "adopt" => hold.p = None
    BY <1>2 DEF Apart, ChildInv
  <2>2. st.startup # None => st.client = None /\ st.deferred = None /\ hold.p \notin alive
    BY <1>1, <1>2 DEF Apart, StartInv, Hidden
  <2>3. /\ hold.op = "check" => /\ st.client = None /\ st.deferred = None /\ hold.p = None
                                /\ st.startup = None
                                /\ st.close \notin {"reserve", "users", "detach", "closing"}
        /\ \A x \in Requests : req[x].att # "decide"
    BY <1>2 DEF Apart, DecideInv, CloseInv
  <2>4. Torn(st)
    BY DEF Apart, TearInv
  <2> QED
    BY <1>1, <1>3, <1>6, <2>1, <2>2, <2>3, <2>4 DEF From
<1>8. Outcome(hold.op, hold.r, hold.p, st)
  <2>1. hold.op = "adopt" => hold.p = None
    BY <1>7 DEF From
  <2> QED
    BY <1>1, <1>2, <1>3, <1>4, <1>5, <2>1, ContinueOutcome
<1> QED
  BY <1>2, <1>7, <1>8, OutcomeKeeps

\* An own child's exit is handled, and a client nobody adopted is closed again.
LEMMA EventKeeps ==
    ASSUME TypeOK, TypeOK', QueueInv, StageInv, Apart, NEW p \in Procs, ProcEvent(p)
    PROVE  Apart'
<1> DEFINE c == st.client
           q == Tail(queue)
           s1 == [st EXCEPT !.process = None, !.unavailable = TRUE]
           s2 == [s1 EXCEPT !.retired = @ \cup {c}, !.teardown = TRUE]
<1>1. /\ st \in BrokerState /\ None \notin alive /\ c \in Clients \cup {None}
  BY TypeParts, Nones DEF BrokerState
<1>2. /\ Turn("exit", p) /\ gen' = gen /\ alive' = alive /\ open' = open /\ made' = made
  BY DEF ProcEvent, Rest
<1>3. /\ hold = None /\ q \in Seq(Operation) /\ Within(q, queue)
      /\ \A y \in Requests : req[y].att # "decide"
      /\ \A x \in alive : x \in {st.process, st.deferred}
      /\ Doomed => Barred
  BY <1>2, TurnFacts
<1>4. p \notin alive
  BY <1>2, Taken DEF Takes, Apart, ChildInv
<1> HIDE DEF q
<1>5. /\ s1 \in BrokerState /\ s1.client = st.client /\ s1.process = None
      /\ s1.deferred = st.deferred
      /\ s1.startup = st.startup /\ s1.unavailable = TRUE
      /\ s1.closing = st.closing /\ s1.users = st.users /\ s1.teardown = st.teardown
      /\ s1.tearing = st.tearing /\ s1.close = st.close /\ s1.fallback = st.fallback
      /\ s1.reserved = st.reserved /\ s1.pending = st.pending /\ s1.fenced = st.fenced
  BY <1>1 DEF BrokerState
<1> HIDE DEF s1
<1>6. CASE st' = st /\ queue' = q /\ req' = req /\ hold' = None
  BY <1>2, <1>3, <1>6, StillKeeps
<1>7. CASE /\ st.process = p /\ c # None
           /\ st' = s2 /\ queue' = q /\ req' = req /\ hold' = None
  <2>1. s2 \in BrokerState /\ s2.client = st.client /\ s2.process = None
        /\ s2.deferred = st.deferred
        /\ s2.startup = st.startup /\ s2.users = st.users /\ s2.teardown = TRUE
        /\ s2.tearing = st.tearing /\ s2.close = st.close /\ s2.fallback = st.fallback
        /\ s2.reserved = st.reserved /\ s2.pending = st.pending /\ s2.fenced = st.fenced
    BY <1>1, <1>5, <1>7 DEF BrokerState
  <2> HIDE DEF s2
  <2>2. st.startup = None
    BY <1>7 DEF Apart, StartInv
  <2>3. Active(s2) => Active(st)
    BY <2>1 DEF Active
  <2>4. From("exit", None, s2)
    BY <1>1, <1>3, <1>4, <1>7, <2>1, <2>2, <2>3 DEF From, Torn, Apart, ChildInv
  <2>5. Settles(s2, s2)
    BY <2>1 DEF Settles, BrokerState
  <2>6. Outcome("exit", None, None, s2)
    BY <1>1, <1>3, <1>7, <2>5, Nones DEF Outcome, Within
  <2> QED
    BY <1>2, <2>4, <2>6, OutcomeKeeps
<1>8. CASE st.process = p /\ Closing("exit", None, c, s1.deferred, Detach(s1))
  <2>1. Child(s1) = s1.deferred
    BY <1>5 DEF Child
  <2>2. Active(s1) => Active(st)
    BY <1>5 DEF Active
  <2>3. From("exit", Child(s1), Detach(s1))
    BY <1>2, <1>4, <1>5, <1>8, <2>2, DetachFrom
  <2>4. Closes("exit", None, q)
    BY DEF Closes
  <2>5. s1.deferred \in Procs \cup {None}
    BY <1>5 DEF BrokerState
  <2>6. Outcome("exit", None, s1.deferred, Detach(s1))
    BY <1>1, <1>3, <1>8, <2>1, <2>3, <2>4, <2>5, ClosingOutcome DEF q
  <2> QED
    BY <1>2, <2>1, <2>3, <2>6, OutcomeKeeps
<1> QED
  BY <1>6, <1>7, <1>8 DEF ProcEvent, s1, s2, q

LEMMA UnadoptedKeeps ==
    ASSUME TypeOK, TypeOK', QueueInv, StageInv, Apart, NEW c \in Clients, Unadopted(c)
    PROVE  Apart'
<1> DEFINE q == Tail(queue)
           s1 == [st EXCEPT !.publication = None]
<1>1. /\ st \in BrokerState /\ None \notin alive /\ c # None
  BY TypeParts, Nones
<1>2. /\ Turn("unadopted", c) /\ gen' = gen /\ alive' = alive /\ open' = open /\ made' = made
  BY DEF Unadopted, Rest
<1>3. /\ hold = None /\ q \in Seq(Operation) /\ Within(q, queue)
  BY <1>2, TurnFacts
<1> HIDE DEF q
<1>4. CASE UNCHANGED <<st, req, hold>> /\ queue' = q
  BY <1>2, <1>3, <1>4, StillKeeps
<1>5. CASE st.client = c /\ Closing("unadopted", None, c, Child(st), Detach(s1))
  <2>1. /\ s1 \in BrokerState /\ s1.process = st.process /\ s1.deferred = st.deferred
        /\ s1.startup = st.startup /\ s1.users = st.users
        /\ s1.tearing = st.tearing /\ s1.close = st.close /\ s1.fallback = st.fallback
        /\ s1.reserved = st.reserved /\ s1.pending = st.pending /\ s1.fenced = st.fenced
    BY <1>1 DEF BrokerState
  <2> HIDE DEF s1
  <2>2. Child(s1) = Child(st) /\ (Active(s1) => Active(st))
    BY <2>1 DEF Child, Active
  <2>3. st.startup = None
    BY <1>1, <1>5 DEF Apart, StartInv
  <2>4. From("unadopted", Child(s1), Detach(s1))
    BY <1>1, <1>2, <2>1, <2>2, <2>3, DetachFrom
  <2>5. Closes("unadopted", None, q)
    BY DEF Closes
  <2>6. Child(st) \in Procs \cup {None}
    BY <1>1 DEF Child, BrokerState
  <2>7. Outcome("unadopted", None, Child(st), Detach(s1))
    BY <1>1, <1>3, <1>5, <2>2, <2>4, <2>5, <2>6, ClosingOutcome DEF q
  <2> QED
    BY <1>2, <2>2, <2>4, <2>7, OutcomeKeeps
<1> QED
  BY <1>4, <1>5 DEF Unadopted, s1, q

LEMMA AdoptKeeps ==
    ASSUME TypeOK, TypeOK', QueueInv, StageInv, Apart, NEW r \in Requests, Adopt(r)
    PROVE  Apart'
<1> DEFINE c == req[r].cand
           q == Tail(queue)
           s1 == [st EXCEPT !.users[c] = @ \cup {r}, !.unavailable = FALSE, !.closed = @ \ {c},
                            !.pending = @ \ {r}, !.fenced = @ \ {r}]
           s2 == [Finalize(s1) EXCEPT !.publication = IF @ = c THEN None ELSE @]
           s3 == [st EXCEPT !.retired = @ \cup {c}]
<1>1. /\ st \in BrokerState /\ req \in [Requests -> ReqState] /\ None \notin alive
      /\ st.users \in [Clients -> SUBSET Requests]
  BY TypeParts, Nones DEF BrokerState
<1>2. /\ Turn("adopt", r) /\ gen' = gen /\ alive' = alive /\ open' = open /\ made' = made
  BY DEF Adopt, Rest
<1>3. /\ hold = None /\ q \in Seq(Operation) /\ Within(q, queue)
      /\ \A y \in Requests : req[y].att # "decide"
      /\ \A x \in alive : x \in {st.process, st.deferred}
      /\ Doomed => Barred
  BY <1>2, TurnFacts
<1>4. /\ In(queue, {"gate", "adopt"}, r) /\ In(queue, {"adopt", "unlease"}, r)
      /\ In(queue, Main, r)
  BY <1>2, Taken DEF Takes, Main
<1>5. /\ c \in Clients /\ req[r].att = "settled" /\ r \in st.reserved /\ req[r].pc = "queued"
      /\ st.fallback = None
  BY <1>4, CandType DEF StageInv, StageOf, QueueInv, QueueOf, Apart, LegacyInv
<1> HIDE DEF c, q
<1>6. CASE \E e \in {"abort", "fence", "broker"} : Fail(r, st, e, q) /\ hold' = None
  BY <1>2, <1>3, <1>5, <1>6, FailKeeps
<1>7. CASE Closing("adopt", r, c, None, s3)
  <2>1. /\ s3 \in BrokerState /\ s3.client = st.client /\ s3.process = st.process
        /\ s3.deferred = st.deferred /\ s3.teardown = st.teardown
        /\ s3.unavailable = st.unavailable
        /\ s3.startup = st.startup /\ s3.users = st.users
        /\ s3.tearing = st.tearing /\ s3.close = st.close /\ s3.fallback = st.fallback
        /\ s3.reserved = st.reserved /\ s3.pending = st.pending /\ s3.fenced = st.fenced
    BY <1>1, <1>5 DEF BrokerState
  <2> HIDE DEF s3
  <2>2. From("adopt", None, s3)
    <3>1. Torn(s3) /\ (Active(s3) => Active(st))
      BY <2>1 DEF Apart, TearInv, Torn, Active
    <3> QED
      BY <1>1, <1>3, <2>1, <3>1 DEF From, Apart, ChildInv, StartInv
  <2>3. Closes("adopt", r, q)
    <3>1. ~In(q, Main, r)
      BY <1>2, Taken DEF Takes, QueueInv, QueueOf, Main, q
    <3> QED
      BY <1>1, <1>3, <1>5, <3>1, Nones DEF Closes
  <2>4. Outcome("adopt", r, None, s3)
    BY <1>3, <1>5, <1>7, <2>2, <2>3, ClosingOutcome DEF q
  <2> QED
    BY <1>2, <2>2, <2>4, OutcomeKeeps
<1>8. CASE /\ ~st.tearing /\ st' = s2
           /\ req' = [req EXCEPT ![r].client = c, ![r].adopted = TRUE]
           /\ queue' = Append(q, <<"unreserve", r>>)
           /\ hold' = None
  <2>1. /\ s1 \in BrokerState /\ s1.client = st.client /\ s1.process = st.process
        /\ s1.deferred = st.deferred /\ s1.teardown = st.teardown
        /\ s1.unavailable = FALSE
        /\ s1.startup = st.startup
        /\ s1.tearing = st.tearing /\ s1.close = st.close /\ s1.fallback = st.fallback
        /\ s1.reserved = st.reserved /\ s1.pending = st.pending \ {r}
        /\ s1.fenced = st.fenced \ {r}
    BY <1>1, <1>5 DEF BrokerState
  <2> HIDE DEF s1
  <2> DEFINE t == Finalize(s1)
  <2>2. /\ t \in BrokerState /\ Stable(s1, t) /\ Marked(s1, t) /\ t.deferred = s1.deferred
        /\ t.teardown <=> s1.teardown /\ ~Cleared(s1)
        /\ t.tearing <=> s1.tearing /\ ~Over(s1)
    BY <2>1, FinalizeEffect
  <2> HIDE DEF t
  <2>3. /\ st'.client = st.client /\ st'.process = st.process
        /\ st'.deferred = st.deferred /\ st'.unavailable = FALSE
        /\ st'.startup = st.startup /\ st'.fallback = None
        /\ st'.tearing = FALSE /\ st'.close = st.close
        /\ st'.reserved = st.reserved /\ st'.pending = st.pending \ {r}
        /\ st'.fenced = st.fenced \ {r}
        /\ st'.deferred # None => (st'.teardown <=> st.teardown)
    <3>1. st' = [t EXCEPT !.publication = IF @ = c THEN None ELSE @]
      BY <1>8 DEF t
    <3>2. Cleared(s1) => s1.deferred = None
      BY DEF Cleared
    <3>3. /\ st'.client = t.client /\ st'.process = t.process
          /\ st'.deferred = t.deferred /\ st'.unavailable = t.unavailable
          /\ st'.startup = t.startup /\ st'.fallback = t.fallback
          /\ st'.tearing = t.tearing /\ st'.close = t.close
          /\ st'.reserved = t.reserved /\ st'.pending = t.pending /\ st'.fenced = t.fenced
          /\ st'.teardown = t.teardown
      BY <2>2, <3>1 DEF BrokerState
    <3>4. t.tearing = FALSE
      BY <1>8, <2>1, <2>2 DEF BrokerState
    <3> QED
      BY <1>5, <2>1, <2>2, <3>2, <3>3, <3>4 DEF Stable, Marked
  <2>4. \A x \in Requests :
           /\ req'[x].pc = req[x].pc /\ req'[x].err = req[x].err
           /\ req'[x].att = req[x].att /\ req'[x].gen = req[x].gen
    BY <1>1, <1>8 DEF ReqState
  <2>5. Adds(queue', q, "unreserve", r)
    BY <1>3, <1>8, Appended, Entries
  <2>6. /\ \A O, x : In(queue', O, x) /\ "unreserve" \notin O => In(queue, O, x)
        /\ Once(queue, {"prepare"}, None) => Once(queue', {"prepare"}, None)
        /\ Once(queue, {"detach"}, None) => Once(queue', {"detach"}, None)
    BY <1>3, <2>5 DEF Adds, Within
  <2>7. \A g : Joined(g)' = Joined(g)
    BY <2>4 DEF Joined
  <2>8. st.close = "none"
    BY <1>8 DEF Apart, FenceInv
  <2>9. LegacyInv' /\ GenInv' /\ TearInv'
    BY <1>2, <2>3 DEF Apart, LegacyInv, GenInv, TearInv, Torn
  <2>10. ChildInv' /\ StartInv'
    <3>1. \A x : In(queue', {"exit"}, x) => In(queue, {"exit"}, x)
      BY <2>6
    <3>2. hold' = None
      BY <1>8
    <3>4. ChildInv'
      BY <1>2, <1>3, <2>3, <3>1, <3>2 DEF Apart, ChildInv
    <3>3. StartInv'
      BY <1>8, <2>3 DEF Apart, StartInv, Hidden
    <3> QED
      BY <3>3, <3>4
  <2>11. JoinInv'
    BY <1>2, <2>3, <2>4, <2>7 DEF Apart, JoinInv
  <2>12. FenceInv'
    <3>1. st.fenced \subseteq Requests
      BY <1>1 DEF BrokerState
    <3>2. ASSUME NEW x \in st'.fenced
          PROVE  /\ req'[x].att # "ok" /\ (req'[x].err = "none" => st'.tearing)
                 /\ req'[x].att # "decide"
      <4>1. x \in Requests /\ x \in st.fenced
        BY <2>3, <3>1, <3>2
      <4>2. req[x].att # "ok" /\ req[x].err # "none" /\ req[x].att # "decide"
        BY <1>3, <1>8, <4>1 DEF Apart, FenceInv
      <4> QED
        BY <2>4, <4>1, <4>2
    <3>3. /\ ~In(queue', {"prepare"}, None) /\ ~In(queue', {"detach"}, None)
          /\ Once(queue', {"prepare"}, None) /\ Once(queue', {"detach"}, None)
      BY <2>6, <2>8 DEF Apart, FenceInv
    <3> QED
      BY <2>3, <2>8, <3>2, <3>3 DEF FenceInv
  <2>13. DecideInv' /\ CloseInv'
    <3>1. \A x \in Requests : req'[x].att \notin {"decide", "deferred"}
      BY <1>3, <2>4 DEF Apart, DecideInv
    <3> QED
      BY <1>8, <2>3, <2>8, <3>1 DEF DecideInv, CloseInv
  <2>14. DoomInv'
    <3> SUFFICES ASSUME Doomed' PROVE DoomInv'
      BY DEF DoomInv
    <3>1. st'.startup = st.startup /\ Joined(st.startup)' = Joined(st.startup)
      BY <2>3, <2>7
    <3>2. \A x \in Joined(st.startup) : x \in Requests
      BY DEF Joined
    <3>3. Doomed
      BY <1>2, <2>4, <3>1, <3>2 DEF Doomed
    <3> QED
      BY <1>3, <1>8, <2>4, <2>6, <3>3 DEF DoomInv, Barred
  <2> QED
    BY <2>9, <2>10, <2>11, <2>12, <2>13, <2>14 DEF Apart
<1> QED
  BY <1>6, <1>7, <1>8 DEF Adopt, c, q

LEMMA ReleaseKeeps ==
    ASSUME TypeOK, TypeOK', QueueInv, StageInv, Apart, NEW r \in Requests, ReleaseLease(r)
    PROVE  Apart'
<1> DEFINE c == req[r].client
           q == Tail(queue)
           s1 == Drop(st, c, r)
           s2 == [s1 EXCEPT !.retired = @ \ {c}, !.client = IF @ = c THEN None ELSE @]
<1>1. /\ st \in BrokerState /\ None \notin alive
      /\ st.users \in [Clients -> SUBSET Requests]
  BY TypeParts, Nones DEF BrokerState
<1>2. /\ Turn("unlease", r) /\ gen' = gen /\ alive' = alive /\ open' = open /\ made' = made
  BY DEF ReleaseLease, Rest
<1>3. /\ hold = None /\ q \in Seq(Operation) /\ Within(q, queue)
      /\ \A y \in Requests : req[y].att # "decide"
      /\ \A x \in alive : x \in {st.process, st.deferred}
      /\ Doomed => Barred
  BY <1>2, TurnFacts
<1>4. c \in Clients /\ req[r].att = "settled" /\ Closes("unlease", r, q)
  <2>1. Takes(q, queue, "unlease", r)
    BY <1>2, Taken
  <2>2. /\ In(queue, {"unlease"}, r) /\ In(queue, {"adopt", "unlease"}, r)
        /\ In(queue, Main, r) /\ ~In(q, Main, r)
    BY <2>1 DEF Takes, Main, QueueInv, QueueOf
  <2> HIDE DEF q
  <2>3. /\ c \in Clients /\ req[r].att = "settled" /\ st.fallback # r
        /\ req[r].pc = "queued"
    BY <2>2, CandType DEF StageInv, StageOf, QueueInv, QueueOf
  <2> QED
    BY <1>3, <2>2, <2>3 DEF Closes
<1> HIDE DEF c, q
<1>5. /\ s1 \in BrokerState /\ s1.client = st.client /\ s1.process = st.process
      /\ s1.deferred = st.deferred /\ s1.teardown = st.teardown
      /\ s1.unavailable = st.unavailable /\ s1.startup = st.startup
      /\ s1.tearing = st.tearing /\ s1.close = st.close /\ s1.fallback = st.fallback
      /\ s1.reserved = st.reserved /\ s1.pending = st.pending /\ s1.fenced = st.fenced
      /\ \A d \in Clients : s1.users[d] \subseteq st.users[d]
  BY <1>1, DropUserEffect DEF Marked
<1> HIDE DEF s1
<1>6. /\ s2 \in BrokerState /\ s2.client \in {st.client, None} /\ s2.process = st.process
      /\ s2.deferred = st.deferred /\ s2.teardown = st.teardown
      /\ s2.unavailable = st.unavailable /\ s2.startup = st.startup
      /\ s2.tearing = st.tearing /\ s2.close = st.close /\ s2.fallback = st.fallback
      /\ s2.reserved = st.reserved /\ s2.pending = st.pending /\ s2.fenced = st.fenced
      /\ s2.users = s1.users
  BY <1>5 DEF BrokerState
<1> HIDE DEF s2
<1>7. (Active(s1) => Active(st)) /\ (Active(s2) => Active(st))
  BY <1>5, <1>6 DEF Active
<1>8. Torn(s1) /\ Torn(s2)
  BY <1>5, <1>6 DEF Apart, TearInv, Torn
<1>9. Child(st) = Child(s1) /\ Child(st) \in Procs \cup {None}
      /\ st.deferred \in Procs \cup {None}
  BY <1>1, <1>5 DEF Child, BrokerState
<1>10. CASE Closing("unlease", r, c, st.deferred, s2)
  <2>1. From("unlease", st.deferred, s2)
    <3>1. st.deferred # None => st.deferred <= made.proc
      BY DEF Apart, ChildInv
    <3> QED
      BY <1>1, <1>3, <1>6, <1>7, <1>8, <1>9, <3>1 DEF From, Apart, ChildInv, StartInv
  <2>2. Outcome("unlease", r, st.deferred, s2)
    BY <1>3, <1>4, <1>9, <1>10, <2>1, ClosingOutcome DEF q
  <2> QED
    BY <1>2, <2>1, <2>2, OutcomeKeeps
<1>11. CASE st.client = c /\ Closing("unlease", r, c, Child(st), Detach(s1))
  <2>1. st.startup = None
    BY <1>1, <1>4, <1>11, Nones DEF Apart, StartInv
  <2>2. From("unlease", Child(s1), Detach(s1))
    BY <1>1, <1>2, <1>5, <1>7, <2>1, DetachFrom
  <2>3. Outcome("unlease", r, Child(st), Detach(s1))
    BY <1>3, <1>4, <1>9, <1>11, <2>2, ClosingOutcome DEF q
  <2> QED
    BY <1>2, <1>9, <2>2, <2>3, OutcomeKeeps
<1>12. CASE Continue("unlease", r, None, None, s1, q) /\ hold' = None
  <2>1. From("unlease", None, s1)
    BY <1>1, <1>3, <1>5, <1>7, <1>8 DEF From, Apart, ChildInv, StartInv
  <2>2. Outcome("unlease", r, None, s1)
    BY <1>3, <1>4, <1>5, <1>12, ContinueOutcome
  <2> QED
    BY <1>2, <2>1, <2>2, OutcomeKeeps
<1> QED
  BY <1>10, <1>11, <1>12 DEF ReleaseLease, Drop, s1, s2, c, q

LEMMA CleanupKeeps ==
    ASSUME TypeOK, TypeOK', QueueInv, StageInv, Apart, NEW r \in Requests, Cleanup(r)
    PROVE  Apart'
<1> DEFINE c == req[r].client
           cand == req[r].cand
           q == Tail(queue)
           s1 == Drop(st, c, r)
           s2 == Retire(s1, c)
           s3 == [s2 EXCEPT !.retired = @ \ {c}, !.deferred = None]
           s5 == Retire(st, cand)
           s6 == DropMarkers(st, {r})
<1>1. /\ st \in BrokerState /\ None \notin alive /\ None \notin Clients
      /\ st.users \in [Clients -> SUBSET Requests]
  BY TypeParts, Nones DEF BrokerState
<1>2. /\ Turn("cleanup", r) /\ gen' = gen /\ alive' = alive /\ open' = open /\ made' = made
  BY DEF Cleanup, Rest
<1>3. /\ hold = None /\ q \in Seq(Operation) /\ Within(q, queue)
      /\ \A y \in Requests : req[y].att # "decide"
      /\ \A x \in alive : x \in {st.process, st.deferred}
      /\ Doomed => Barred
  BY <1>2, TurnFacts
<1>4. /\ req[r].err # "none" /\ c \in Clients \cup {None} /\ (Unowned(r) => cand \in Clients)
      /\ Closes("cleanup", r, q) /\ (Unowned(r) => Closes("late", r, q))
  <2>1. Takes(q, queue, "cleanup", r)
    BY <1>2, Taken
  <2>2. /\ In(queue, {"cleanup"}, r) /\ In(queue, Main, r) /\ ~In(q, Main, r)
    BY <2>1 DEF Takes, Main, QueueInv, QueueOf
  <2> HIDE DEF q
  <2>3. /\ c \in Clients \cup {None} /\ (Unowned(r) => cand \in Clients)
        /\ req[r].err # "none" /\ st.fallback # r /\ req[r].pc = "queued"
    BY <2>2, CandType DEF StageInv, StageOf, QueueInv, QueueOf
  <2> QED
    BY <1>3, <2>2, <2>3 DEF Closes, Unowned
<1> HIDE DEF c, q, cand
<1>5. /\ s1 \in BrokerState /\ s1.client = st.client /\ s1.process = st.process
      /\ s1.deferred = st.deferred /\ s1.teardown = st.teardown
      /\ s1.unavailable = st.unavailable /\ s1.startup = st.startup
      /\ s1.tearing = st.tearing /\ s1.close = st.close /\ s1.fallback = st.fallback
      /\ s1.reserved = st.reserved /\ s1.pending = st.pending /\ s1.fenced = st.fenced
      /\ \A d \in Clients : s1.users[d] \subseteq st.users[d]
  <2>1. Drop(st, c, r).users[c] \subseteq st.users[c] \/ c \notin Clients
    BY <1>1, DropUserEffect
  <2> QED
    BY <1>1, <2>1, DropUserEffect DEF Marked
<1> HIDE DEF s1
<1>6. c \in Clients =>
      /\ s2 \in BrokerState /\ s2.client = st.client /\ s2.process = st.process
      /\ s2.deferred = st.deferred /\ s2.teardown = TRUE
      /\ s2.unavailable = st.unavailable /\ s2.startup = st.startup
      /\ s2.tearing = st.tearing /\ s2.close = st.close /\ s2.fallback = st.fallback
      /\ s2.reserved = st.reserved /\ s2.pending = st.pending /\ s2.fenced = st.fenced
      /\ s2.users = s1.users
  BY <1>5 DEF BrokerState, Retire
<1> HIDE DEF s2
<1>7. c \in Clients =>
      /\ s3 \in BrokerState /\ s3.client = st.client /\ s3.process = st.process
      /\ s3.deferred = None /\ s3.teardown = TRUE
      /\ s3.unavailable = st.unavailable /\ s3.startup = st.startup
      /\ s3.tearing = st.tearing /\ s3.close = st.close /\ s3.fallback = st.fallback
      /\ s3.reserved = st.reserved /\ s3.pending = st.pending /\ s3.fenced = st.fenced
      /\ s3.users = s1.users
  BY <1>6 DEF BrokerState
<1> HIDE DEF s3
<1>8. Unowned(r) =>
      /\ s5 \in BrokerState /\ s5.client = st.client /\ s5.process = st.process
      /\ s5.deferred = st.deferred /\ s5.teardown = TRUE
      /\ s5.unavailable = st.unavailable /\ s5.startup = st.startup
      /\ s5.tearing = st.tearing /\ s5.close = st.close /\ s5.fallback = st.fallback
      /\ s5.reserved = st.reserved /\ s5.pending = st.pending /\ s5.fenced = st.fenced
      /\ s5.users = st.users
  BY <1>1, <1>4 DEF BrokerState, Retire
<1> HIDE DEF s5
<1>9. /\ Active(s1) => Active(st)
      /\ c \in Clients => (Active(s2) => Active(st)) /\ (Active(s3) => Active(st))
      /\ Unowned(r) => (Active(s5) => Active(st))
  BY <1>5, <1>6, <1>7, <1>8 DEF Active
<1>10. /\ Torn(st) /\ Torn(s1)
       /\ c \in Clients => Torn(s2) /\ Torn(s3)
       /\ Unowned(r) => Torn(s5)
  BY <1>5, <1>6, <1>7, <1>8 DEF Apart, TearInv, Torn
<1>11. Child(st) \in Procs \cup {None} /\ st.deferred \in Procs \cup {None}
  BY <1>1 DEF Child, BrokerState
<1>12. From("cleanup", None, st)
  BY <1>1, <1>3, <1>10 DEF From, Apart, ChildInv, StartInv
<1>13. CASE CleanedUp(r, s1, FALSE, q) /\ hold' = None
  <2>1. From("cleanup", None, s1)
    BY <1>1, <1>3, <1>5, <1>9, <1>10 DEF From, Apart, ChildInv, StartInv
  <2>2. Settles(s1, s1)
    BY <1>5 DEF Settles, BrokerState
  <2>3. Outcome("cleanup", r, None, s1)
    BY <1>1, <1>3, <1>4, <1>13, <2>2, CleanedUpOutcome
  <2> QED
    BY <1>2, <2>1, <2>3, OutcomeKeeps
<1>14. CASE c # None /\ st.client = c /\ Closing("cleanup", r, c, Child(st), Detach(s2))
  <2>1. c \in Clients /\ st.startup = None
    BY <1>4, <1>14 DEF Apart, StartInv
  <2>2. Child(s2) = Child(st)
    BY <1>6, <2>1 DEF Child
  <2>3. From("cleanup", Child(s2), Detach(s2))
    BY <1>1, <1>2, <1>6, <1>9, <2>1, DetachFrom
  <2>4. Outcome("cleanup", r, Child(st), Detach(s2))
    BY <1>3, <1>4, <1>11, <1>14, <2>2, <2>3, ClosingOutcome DEF q
  <2> QED
    BY <1>2, <2>2, <2>3, <2>4, OutcomeKeeps
<1>15. CASE c # None /\ Closing("cleanup", r, c, st.deferred, s3)
  <2>1. c \in Clients
    BY <1>4, <1>15
  <2>2. From("cleanup", st.deferred, s3)
    <3>1. st.deferred # None => st.deferred <= made.proc
      BY DEF Apart, ChildInv
    <3> QED
      BY <1>1, <1>3, <1>7, <1>9, <1>10, <1>11, <2>1, <3>1 DEF From, Apart, ChildInv, StartInv
  <2>3. Outcome("cleanup", r, st.deferred, s3)
    BY <1>3, <1>4, <1>11, <1>15, <2>2, ClosingOutcome DEF q
  <2> QED
    BY <1>2, <2>2, <2>3, OutcomeKeeps
<1>16. CASE CleanedUp(r, st, TRUE, q) /\ hold' = None
  <2>1. Settles(st, st)
    BY <1>1 DEF Settles, BrokerState
  <2>2. Outcome("cleanup", r, None, st)
    BY <1>1, <1>3, <1>4, <1>16, <2>1, CleanedUpOutcome
  <2> QED
    BY <1>2, <1>12, <2>2, OutcomeKeeps
<1>17. CASE CleanedUp(r, s6, TRUE, q) /\ hold' = None
  <2>1. Settles(st, s6) /\ s6.deferred = st.deferred
    BY <1>1, DropSettles, DropEffect
  <2> HIDE DEF s6
  <2>2. Outcome("cleanup", r, None, st)
    BY <1>1, <1>3, <1>4, <1>17, <2>1, CleanedUpOutcome
  <2> QED
    BY <1>2, <1>12, <2>2, OutcomeKeeps
<1>18. CASE Unowned(r) /\ Closing("late", r, cand, None, s5)
  <2>1. From("late", None, s5)
    BY <1>1, <1>3, <1>8, <1>9, <1>10, <1>18 DEF From, Apart, ChildInv, StartInv
  <2>2. Outcome("late", r, None, s5)
    BY <1>3, <1>4, <1>18, <2>1, ClosingOutcome DEF q
  <2> QED
    BY <1>2, <2>1, <2>2, OutcomeKeeps
<1> QED
  BY <1>13, <1>14, <1>15, <1>16, <1>17, <1>18
     DEF Cleanup, CloseLate, Drop, Retire, s1, s2, s3, s5, s6, c, q, cand

LEMMA DoomedMeans ==
    ASSUME st'.startup = st.startup, req' = req, gen' = gen, Doomed'
    PROVE  Doomed
<1>1. Joined(st.startup)' = Joined(st.startup)
  BY DEF Joined
<1> QED
  BY <1>1 DEF Doomed

LEMMA ExitKeeps ==
    ASSUME TypeOK, TypeOK', Apart, NEW p \in Procs, ProcExit(p)
    PROVE  Apart'
<1> DEFINE s1 == [st EXCEPT !.deferred = None]
<1>1. /\ st \in BrokerState /\ None \notin alive /\ queue \in Seq(Operation) /\ p # None
  BY TypeParts, Nones
<1>2. /\ Idle /\ p \in alive /\ alive' = alive \ {p} /\ req' = req /\ gen' = gen /\ hold' = hold
      /\ open' = open /\ made' = made
      /\ queue' = Append(queue, <<"exit", p>>)
      /\ st' = IF st.deferred = p THEN Finalize(s1) ELSE st
  BY DEF ProcExit, Enqueue
<1>3. /\ s1 \in BrokerState /\ s1.client = st.client /\ s1.process = st.process
      /\ s1.startup = st.startup /\ s1.unavailable = st.unavailable /\ s1.users = st.users
      /\ s1.reserved = st.reserved /\ s1.fallback = st.fallback /\ s1.close = st.close
      /\ s1.pending = st.pending /\ s1.fenced = st.fenced /\ s1.tearing = st.tearing
      /\ s1.deferred = None /\ s1.teardown = st.teardown
  BY <1>1 DEF BrokerState
<1> HIDE DEF s1
<1>4. Settles(s1, Finalize(s1)) /\ Finalize(s1).deferred = None
  BY <1>3, FinalizeSettles, FinalizeEffect
<1>5. alive' = {} /\ (st.deferred # None => st.deferred = p) /\ st.fallback = None
  BY <1>2 DEF Apart, ChildInv, LegacyInv
<1>6. /\ st'.client = st.client /\ st'.process = st.process /\ st'.startup = st.startup
      /\ st'.unavailable = st.unavailable /\ st'.fallback = None
      /\ st'.close = st.close /\ st'.deferred = None
      /\ st'.pending \subseteq st.pending /\ st'.fenced \subseteq st.fenced
      /\ st.pending \subseteq st.fenced => st'.pending \subseteq st'.fenced
      /\ st'.tearing => st.tearing
      /\ st.tearing /\ ~st'.tearing => st'.close = "none" /\ st'.fenced = {}
      /\ Torn(st')
  <2>1. Torn(st)
    BY DEF Apart, TearInv
  <2>2. CASE st.deferred = p
    <3>1. Torn(s1)
      BY <1>3, <2>1 DEF Torn
    <3> QED
      BY <1>2, <1>3, <1>4, <1>5, <2>2, <3>1 DEF Settles
  <2>3. CASE st.deferred # p
    BY <1>2, <1>5, <2>1, <2>3
  <2> QED
    BY <2>2, <2>3
<1>7. Adds(queue', queue, "exit", p)
  BY <1>1, <1>2, Appended, Entries
<1>8. /\ \A O, x : In(queue', O, x) /\ "exit" \notin O => In(queue, O, x)
      /\ \A x : In(queue', {"exit"}, x) => In(queue, {"exit"}, x) \/ x = p
      /\ Once(queue, {"prepare"}, None) => Once(queue', {"prepare"}, None)
      /\ Once(queue, {"detach"}, None) => Once(queue', {"detach"}, None)
  BY <1>7 DEF Adds
<1>9. LegacyInv' /\ GenInv' /\ StartInv' /\ TearInv' /\ CloseInv'
  BY <1>2, <1>5, <1>6 DEF Apart, LegacyInv, GenInv, StartInv, Hidden, TearInv, CloseInv
<1>10. ChildInv'
  BY <1>2, <1>5, <1>6, <1>8 DEF Apart, ChildInv
<1>11. JoinInv'
  <2>1. \A g : Joined(g)' = Joined(g)
    BY <1>2 DEF Joined
  <2> QED
    BY <1>2, <1>6, <2>1 DEF Apart, JoinInv
<1>12. DecideInv'
  BY <1>2, <1>6, IdleFacts DEF Apart, DecideInv
<1>13. FenceInv'
  <2>1. ASSUME NEW x \in st'.fenced
        PROVE  /\ req'[x].att # "ok" /\ (req'[x].err = "none" => st'.tearing)
               /\ req'[x].att = "decide" => st'.client = None
    BY <1>2, <1>6, <2>1 DEF Apart, FenceInv
  <2>2. /\ st'.close # "none" => st'.tearing
        /\ st'.close = "prepare" => st'.pending \subseteq st'.fenced
        /\ In(queue', {"prepare"}, None) => st'.close = "prepare"
        /\ In(queue', {"detach"}, None) => st'.close = "detach"
        /\ Once(queue', {"prepare"}, None) /\ Once(queue', {"detach"}, None)
    BY <1>6, <1>8 DEF Apart, FenceInv
  <2> QED
    BY <2>1, <2>2 DEF FenceInv
<1>14. DoomInv'
  BY <1>2, <1>6, <1>11, DoomedMeans, DoomedBusy DEF Apart, DoomInv
<1> QED
  BY <1>9, <1>10, <1>11, <1>12, <1>13, <1>14 DEF Apart

LEMMA DisconnectKeeps ==
    ASSUME TypeOK, Apart, NEW c \in Clients, Disconnect(c)
    PROVE  Apart'
<1>1. /\ Idle /\ UNCHANGED <<st, req, gen, queue, hold, alive, made>>
  BY DEF Disconnect
<1>2. \A g : Joined(g)' = Joined(g)
  BY <1>1 DEF Joined
<1>3. LegacyInv' /\ ChildInv' /\ GenInv' /\ StartInv' /\ TearInv' /\ CloseInv'
  BY <1>1 DEF Apart, LegacyInv, ChildInv, GenInv, StartInv, Hidden, TearInv, CloseInv, Active
<1>4. FenceInv'
  BY <1>1 DEF Apart, FenceInv
<1>5. JoinInv'
  BY <1>1, <1>2 DEF Apart, JoinInv
<1>6. DecideInv'
  BY <1>1, IdleFacts DEF Apart, DecideInv
<1>7. DoomInv'
  BY <1>1, <1>5, DoomedMeans, DoomedBusy DEF Apart, DoomInv
<1> QED
  BY <1>3, <1>4, <1>5, <1>6, <1>7 DEF Apart

LEMMA TimerKeeps ==
    ASSUME TypeOK, Apart,
           (\E c \in Clients : PublicationTimer(c)) \/ Toggle \/ UNCHANGED vars
    PROVE  Apart'
<1>1. /\ st' = st /\ req' = req /\ gen' = gen /\ hold' = hold /\ alive' = alive
      /\ open' = open /\ made' = made
  BY DEF PublicationTimer, Toggle, vars
<1>2. queue' = queue \/ \E c \in Clients : queue' = Append(queue, <<"unadopted", c>>)
  BY DEF PublicationTimer, Toggle, vars, Enqueue
<1>3. \A c \in Clients : Adds(Append(queue, <<"unadopted", c>>), queue, "unadopted", c)
  BY TypeParts, Appended, Entries
<1>4. Within(queue, queue)
  BY DEF Within
<1> QED
  BY <1>1, <1>2, <1>3, <1>4, StillKeeps

LEMMA SettlesKeeps ==
    ASSUME TypeOK, TypeOK', Apart, NEW c \in Clients, CloseSettles(c)
    PROVE  Apart'
<1> DEFINE mine == {r \in Requests : req[r].closeStarted /\ req[r].cand = c}
           s0 == [st EXCEPT !.closing = @ \ {c}]
           s1 == IF hold # None /\ hold.c = c THEN RetainDeferred(s0, hold.p) ELSE s0
           good == [s1 EXCEPT !.closed = @ \cup {c}, !.retired = @ \ {c}, !.failed = @ \ {c}]
           bad == Failed(s1, c)
           d == IF hold # None /\ hold.c = c /\ hold.p \in alive /\ st.deferred = None
                THEN hold.p ELSE st.deferred
<1>1. /\ st \in BrokerState /\ None \notin alive
  BY TypeParts, Nones
<1>2. /\ Idle /\ UNCHANGED <<req, queue, hold, gen, alive, open, made>>
      /\ st' = DropMarkers(good, mine) \/ st' = DropMarkers(bad, mine)
  BY DEF CloseSettles, Rest
<1>3. Torn(st)
  BY DEF Apart, TearInv
<1>4. /\ s0 \in BrokerState /\ s0.client = st.client /\ s0.process = st.process
      /\ s0.startup = st.startup /\ s0.unavailable = st.unavailable /\ s0.users = st.users
      /\ s0.reserved = st.reserved /\ s0.fallback = st.fallback /\ s0.close = st.close
      /\ s0.pending = st.pending /\ s0.fenced = st.fenced /\ s0.tearing = st.tearing
      /\ s0.deferred = st.deferred /\ s0.teardown = st.teardown
  BY <1>1 DEF BrokerState
<1> HIDE DEF s0, mine
<1>5. hold # None => hold.p \in Procs \cup {None}
  BY TypeParts DEF Holding
<1>6. /\ s1 \in BrokerState /\ s1.client = st.client /\ s1.process = st.process
      /\ s1.startup = st.startup /\ s1.unavailable = st.unavailable /\ s1.users = st.users
      /\ s1.reserved = st.reserved /\ s1.fallback = st.fallback /\ s1.close = st.close
      /\ s1.pending = st.pending /\ s1.fenced = st.fenced /\ s1.tearing = st.tearing
      /\ s1.deferred = d /\ (st.teardown => s1.teardown) /\ (d # st.deferred => s1.teardown)
  <2>1. CASE hold # None /\ hold.c = c
    <3> DEFINE t == RetainDeferred(s0, hold.p)
    <3>1. /\ t \in BrokerState /\ Stable(s0, t) /\ Marked(s0, t)
          /\ t.deferred = IF hold.p \in alive /\ s0.deferred = None THEN hold.p ELSE s0.deferred
          /\ t.teardown <=> s0.teardown \/ (hold.p \in alive /\ s0.deferred = None)
          /\ t.tearing = s0.tearing
      BY <1>1, <1>4, <1>5, <2>1, RetainEffect
    <3>2. s1 = t
      BY <2>1
    <3> HIDE DEF t, s1
    <3> QED
      BY <1>4, <2>1, <3>1, <3>2 DEF Stable, Marked
  <2>2. CASE ~(hold # None /\ hold.c = c)
    BY <1>4, <2>2
  <2> QED
    BY <2>1, <2>2
<1> HIDE DEF s1
<1>7. /\ good \in BrokerState /\ good.client = st.client /\ good.process = st.process
      /\ good.startup = st.startup /\ good.unavailable = st.unavailable /\ good.users = st.users
      /\ good.reserved = st.reserved /\ good.fallback = st.fallback /\ good.close = st.close
      /\ good.pending = st.pending /\ good.fenced = st.fenced /\ good.tearing = st.tearing
      /\ good.deferred = d /\ good.teardown = s1.teardown
  BY <1>6 DEF BrokerState
<1>8. /\ bad \in BrokerState /\ bad.client = st.client /\ bad.process = st.process
      /\ bad.startup = st.startup /\ bad.unavailable = st.unavailable /\ bad.users = st.users
      /\ bad.reserved = st.reserved /\ bad.fallback = st.fallback /\ bad.close = st.close
      /\ bad.pending = st.pending /\ bad.fenced = st.fenced /\ bad.tearing = st.tearing
      /\ bad.deferred = d /\ bad.teardown = TRUE
  BY <1>6, FailedEffect DEF Marked
<1> HIDE DEF good, bad
<1>9. Torn(good) /\ Torn(bad)
  BY <1>3, <1>6, <1>7, <1>8 DEF Torn
<1>10. /\ st'.client = st.client /\ st'.process = st.process /\ st'.startup = st.startup
       /\ st'.users = st.users /\ st'.unavailable = st.unavailable
       /\ st'.reserved = st.reserved /\ st'.fallback = st.fallback /\ st'.close = st.close
       /\ st'.deferred = d
       /\ st'.pending \subseteq st.pending /\ st'.fenced \subseteq st.fenced
       /\ st.pending \subseteq st.fenced => st'.pending \subseteq st'.fenced
       /\ st'.tearing => st.tearing
       /\ st.tearing /\ ~st'.tearing => st'.close = "none" /\ st'.fenced = {}
       /\ Torn(st')
  <2>1. \/ Settles(good, st') /\ st'.deferred = good.deferred
        \/ Settles(bad, st') /\ st'.deferred = bad.deferred
    BY <1>2, <1>7, <1>8, DropSettles, DropEffect
  <2> HIDE DEF d
  <2> QED
    BY <1>7, <1>8, <1>9, <2>1 DEF Settles
<1>11. LegacyInv' /\ GenInv' /\ TearInv' /\ CloseInv'
  BY <1>2, <1>10 DEF Apart, LegacyInv, GenInv, TearInv, CloseInv, Active
<1>12. ChildInv'
  BY <1>1, <1>2, <1>10 DEF Apart, ChildInv
<1>13. StartInv'
  BY <1>1, <1>2, <1>10 DEF Apart, StartInv, Hidden
<1>14. JoinInv'
  <2>1. \A g : Joined(g)' = Joined(g)
    BY <1>2 DEF Joined
  <2> QED
    BY <1>2, <1>10, <2>1 DEF Apart, JoinInv
<1>15. DecideInv'
  BY <1>1, <1>2, <1>10, IdleFacts DEF Apart, DecideInv
<1>16. FenceInv'
  BY <1>2, <1>10 DEF Apart, FenceInv
<1>17. DoomInv'
  BY <1>2, <1>10, <1>14, DoomedMeans, DoomedBusy DEF Apart, DoomInv
<1> QED
  BY <1>11, <1>12, <1>13, <1>14, <1>15, <1>16, <1>17 DEF Apart

LEMMA PrepareKeeps ==
    ASSUME TypeOK, TypeOK', Apart, ClosePrepare
    PROVE  Apart'
<1>1. /\ st \in BrokerState /\ gen \in [Gens -> GenState] /\ None \notin alive
      /\ None \notin Gens
  BY TypeParts, Nones
<1>2. /\ Turn("prepare", None) /\ queue' = Tail(queue)
      /\ gen' = IF st.startup # None THEN [gen EXCEPT ![st.startup].cancelled = TRUE] ELSE gen
      /\ req' = req /\ hold' = hold /\ alive' = alive /\ open' = open /\ made' = made
  BY DEF ClosePrepare
<1>3. /\ hold = None /\ \A y \in Requests : req[y].att # "decide"
      /\ \A x \in alive : x \in {st.process, st.deferred}
  BY <1>2, TurnFacts
<1>4. /\ Takes(queue', queue, "prepare", None)
  BY <1>2, Taken
<1>5. st.close = "prepare" /\ st.tearing /\ st.pending \subseteq st.fenced
      /\ ~In(queue', {"prepare"}, None) /\ ~In(queue', {"detach"}, None)
  BY <1>4 DEF Takes, Within, Apart, FenceInv
<1>6. /\ st'.client = st.client /\ st'.users = st.users
      /\ st'.reserved = st.reserved /\ st'.fallback = st.fallback
      /\ st'.pending = st.pending /\ st'.fenced = st.fenced
      /\ st'.close = "reserve" /\ st'.startup = None /\ st'.process = None
      /\ st'.deferred = IF st.process \in alive /\ st.deferred = None
                        THEN st.process ELSE st.deferred
      /\ Torn(st') /\ st'.tearing
  BY <1>5, PrepareEffect DEF Apart, TearInv, Torn
<1>7. \A g \in Gens : /\ gen'[g].pc = gen[g].pc /\ gen'[g].proc = gen[g].proc
                      /\ gen'[g].cancelled = (gen[g].cancelled \/ g = st.startup)
  <2>1. CASE st.startup = None
    BY <1>1, <1>2, <2>1 DEF GenState
  <2>2. CASE st.startup # None
    <3>1. st.startup \in Gens
      BY <1>1, <2>2 DEF BrokerState
    <3> QED
      BY <1>1, <1>2, <2>2, <3>1 DEF GenState
  <2> QED
    BY <2>1, <2>2
<1>8. LegacyInv' /\ StartInv' /\ TearInv'
  BY <1>2, <1>6 DEF Apart, LegacyInv, Active, StartInv, TearInv
<1>9. ChildInv'
  <2>1. \A x : In(queue', {"exit"}, x) => In(queue, {"exit"}, x)
    BY <1>4 DEF Takes, Within
  <2> QED
    BY <1>1, <1>2, <1>3, <1>6, <2>1 DEF Apart, ChildInv
<1>10. GenInv'
  BY <1>1, <1>2, <1>6, <1>7 DEF Apart, GenInv, GenState
<1>11. JoinInv'
  <2>1. ASSUME NEW r \in Requests, req[r].att = "joined"
        PROVE  req[r].gen # None /\ gen'[req[r].gen].cancelled
    <3>1. req[r].gen # None /\ (gen[req[r].gen].cancelled \/ st.startup = req[r].gen)
      BY <2>1 DEF Apart, JoinInv
    <3>2. req[r].gen \in Gens
      BY <3>1, TypeParts DEF ReqState
    <3> QED
      BY <1>7, <3>1, <3>2
  <2> QED
    BY <1>2, <1>6, <2>1 DEF JoinInv
<1>12. DecideInv' /\ CloseInv' /\ DoomInv'
  BY <1>2, <1>3, <1>6 DEF Apart, DecideInv, CloseInv, DoomInv, Doomed
<1>13. FenceInv'
  <2>1. /\ Once(queue', {"prepare"}, None) /\ Once(queue', {"detach"}, None)
    BY <1>4 DEF Takes, Within, Apart, FenceInv
  <2> QED
    BY <1>2, <1>3, <1>5, <1>6, <2>1 DEF Apart, FenceInv
<1> QED
  BY <1>8, <1>9, <1>10, <1>11, <1>12, <1>13 DEF Apart

LEMMA DrainsKeeps ==
    ASSUME TypeOK, TypeOK', Apart, CloseDrains
    PROVE  Apart'
<1> DEFINE gone == {c \in st.retired \cup ({st.client} \ {None}) :
                       c = st.client \/ st.users[c] = {}}
           s1 == Detach(st)
           s2 == [s1 EXCEPT !.retired = @ \ gone, !.closing = @ \cup (gone \ st.closed),
                            !.failed = @ \ (gone \cap st.closed),
                            !.close = "closing", !.targets = gone]
<1>1. /\ st \in BrokerState /\ None \notin alive /\ queue \in Seq(Operation)
  BY TypeParts, Nones
<1>2. /\ req' = req /\ gen' = gen /\ hold' = hold /\ alive' = alive /\ open' = open
      /\ made' = made
  BY DEF CloseDrains, Others
<1>3. CASE st.close = "reserve" /\ st' = [st EXCEPT !.close = "users"] /\ queue' = queue
  <2>1. ~In(queue, {"prepare"}, None) /\ ~In(queue, {"detach"}, None) /\ st.tearing
    BY <1>3 DEF Apart, FenceInv
  <2>2. /\ st'.client = st.client /\ st'.process = st.process /\ st'.deferred = st.deferred
        /\ st'.startup = st.startup /\ st'.unavailable = st.unavailable
        /\ st'.closing = st.closing /\ st'.users = st.users /\ st'.fallback = st.fallback
        /\ st'.reserved = st.reserved /\ st'.pending = st.pending /\ st'.fenced = st.fenced
        /\ st'.tearing = st.tearing /\ st'.close = "users" /\ st'.teardown = st.teardown
    BY <1>1, <1>3 DEF BrokerState
  <2>3. Calm
    BY <1>2, <1>3, <2>2 DEF Calm, Torn
  <2>4. Quiet
    BY <1>2, <1>3, <2>1, <2>2, <2>3 DEF Quiet
  <2> QED
    BY <2>4, QuietKeeps
<1>4. CASE /\ st.close = "users" /\ st' = [st EXCEPT !.close = "detach"]
           /\ Enqueue("detach", None)
  <2>1. ~In(queue, {"prepare"}, None) /\ ~In(queue, {"detach"}, None) /\ st.tearing
    BY <1>4 DEF Apart, FenceInv
  <2>2. /\ st'.client = st.client /\ st'.process = st.process /\ st'.deferred = st.deferred
        /\ st'.startup = st.startup /\ st'.unavailable = st.unavailable
        /\ st'.closing = st.closing /\ st'.users = st.users /\ st'.fallback = st.fallback
        /\ st'.reserved = st.reserved /\ st'.pending = st.pending /\ st'.fenced = st.fenced
        /\ st'.tearing = st.tearing /\ st'.close = "detach" /\ st'.teardown = st.teardown
    BY <1>1, <1>4 DEF BrokerState
  <2>3. Adds(queue', queue, "detach", None)
    BY <1>1, <1>4, Appended, Entries DEF Enqueue
  <2>4. /\ \A O, x : In(queue', O, x) /\ "detach" \notin O => In(queue, O, x)
        /\ Once(queue, {"prepare"}, None) => Once(queue', {"prepare"}, None)
        /\ Once(queue, {"detach"}, None) => Once(queue', {"detach"}, None)
    BY <2>1, <2>3 DEF Adds
  <2>5. Calm
    BY <1>2, <1>4, <2>2, <2>4 DEF Calm, Torn
  <2>6. Quiet
    BY <1>2, <1>4, <2>1, <2>2, <2>4, <2>5 DEF Quiet
  <2> QED
    BY <2>6, QuietKeeps
<1>5. CASE Turn("detach", None) /\ queue' = Tail(queue) /\ st' = s2
  <2>1. /\ hold = None /\ \A y \in Requests : req[y].att # "decide"
        /\ \A x \in alive : x \in {st.process, st.deferred}
    BY <1>5, TurnFacts
  <2>2. Takes(queue', queue, "detach", None)
    BY <1>5, Taken
  <2>3. /\ st.close = "detach" /\ st.tearing /\ st.startup = None
        /\ ~In(queue', {"prepare"}, None) /\ ~In(queue', {"detach"}, None)
        /\ Once(queue', {"prepare"}, None) /\ Once(queue', {"detach"}, None)
    BY <2>2 DEF Takes, Within, Apart, FenceInv, CloseInv
  <2>4. /\ s1 \in BrokerState /\ Marked(st, s1)
        /\ s1.client = None /\ s1.process = None /\ s1.startup = st.startup
        /\ s1.users = st.users /\ s1.tearing = st.tearing
        /\ s1.reserved = st.reserved /\ s1.fallback = st.fallback
        /\ s1.deferred = IF Child(st) \in alive /\ st.deferred = None
                         THEN Child(st) ELSE st.deferred
        /\ s1.teardown <=> Child(st) # None \/ st.client # None
    BY <1>1, DetachEffect
  <2> HIDE DEF s1, gone
  <2>5. /\ st'.client = None /\ st'.process = None /\ st'.startup = None
        /\ st'.users = st.users /\ st'.tearing
        /\ st'.reserved = st.reserved /\ st'.fallback = st.fallback
        /\ st'.pending = st.pending /\ st'.fenced = st.fenced /\ st'.close = "closing"
        /\ st'.deferred = IF st.process \in alive /\ st.deferred = None
                          THEN st.process ELSE st.deferred
        /\ Torn(st')
    <3>1. /\ st'.client = s1.client /\ st'.process = s1.process /\ st'.startup = s1.startup
          /\ st'.users = s1.users /\ st'.tearing = s1.tearing
          /\ st'.reserved = s1.reserved /\ st'.fallback = s1.fallback
          /\ st'.pending = s1.pending /\ st'.fenced = s1.fenced /\ st'.close = "closing"
          /\ st'.deferred = s1.deferred /\ st'.teardown = s1.teardown
      BY <1>5, <2>4 DEF BrokerState
    <3>2. Child(st) = IF st.process # None THEN st.process ELSE st.deferred
      BY DEF Child
    <3> QED
      BY <1>1, <2>3, <2>4, <3>1, <3>2 DEF Marked, Torn
  <2>6. LegacyInv' /\ StartInv' /\ TearInv' /\ GenInv'
    BY <1>2, <2>3, <2>5 DEF Apart, LegacyInv, Active, StartInv, TearInv, GenInv
  <2>7. ChildInv'
    <3>1. \A x : In(queue', {"exit"}, x) => In(queue, {"exit"}, x)
      BY <2>2 DEF Takes, Within
    <3> QED
      BY <1>1, <1>2, <2>1, <2>5, <3>1 DEF Apart, ChildInv
  <2>8. JoinInv'
    BY <1>2, <2>3, <2>5 DEF Apart, JoinInv
  <2>9. DecideInv' /\ CloseInv' /\ DoomInv'
    BY <1>2, <2>1, <2>5 DEF Apart, DecideInv, CloseInv, DoomInv, Doomed
  <2>10. FenceInv'
    BY <1>2, <2>1, <2>3, <2>5 DEF Apart, FenceInv
  <2> QED
    BY <2>6, <2>7, <2>8, <2>9, <2>10 DEF Apart
<1> QED
  BY <1>3, <1>4, <1>5 DEF CloseDrains

LEMMA EndsKeeps ==
    ASSUME TypeOK, TypeOK', Apart, CloseEnds
    PROVE  Apart'
<1> DEFINE late == st.targets \cap st.closing
           ok == /\ st.close = "closing" /\ late \cup (st.targets \cap st.failed) = {}
                 /\ st.deferred = None
           s1 == [st EXCEPT !.close = "none", !.targets = {}, !.failed = @ \cup late,
                            !.retired = @ \cup late, !.teardown = @ \/ late # {}]
<1>1. /\ st \in BrokerState /\ req \in [Requests -> ReqState]
  BY TypeParts
<1>2. /\ st.close \in {"reserve", "users", "closing"}
      /\ gen' = gen /\ hold' = hold /\ alive' = alive /\ open' = open
      /\ made' = made /\ queue' = queue
      /\ st' = Finalize(s1) \/ st' = MaybeFinish(s1)
      /\ req' = [r \in Requests |-> IF req[r].pc = "closeWait"
                        THEN [req[r] EXCEPT !.pc = IF ok THEN "legacyWait" ELSE "failed"]
                        ELSE req[r]]
  BY DEF CloseEnds, Others
<1>3. /\ s1 \in BrokerState /\ s1.client = st.client /\ s1.process = st.process
      /\ s1.startup = st.startup /\ s1.unavailable = st.unavailable /\ s1.users = st.users
      /\ s1.reserved = st.reserved /\ s1.fallback = st.fallback /\ s1.close = "none"
      /\ s1.pending = st.pending /\ s1.fenced = st.fenced /\ s1.tearing = st.tearing
      /\ s1.deferred = st.deferred /\ (st.teardown => s1.teardown)
      /\ s1.closing = st.closing
  BY <1>1 DEF BrokerState
<1> HIDE DEF s1, ok
<1>4. /\ Settles(s1, st') /\ st'.deferred = st.deferred /\ st'.closing = st.closing
  BY <1>2, <1>3, FinalizeSettles, FinalizeEffect, MaybeFinishSettles, MaybeFinishEffect
     DEF Stable
<1>5. \A x \in Requests : /\ req'[x].att = req[x].att /\ req'[x].gen = req[x].gen
                          /\ req'[x].err = req[x].err
                          /\ req'[x].pc = "gated" => req[x].pc = "gated"
  BY <1>1, <1>2 DEF ReqState
<1>6. ~In(queue, {"prepare"}, None) /\ ~In(queue, {"detach"}, None)
  BY <1>2 DEF Apart, FenceInv
<1>7. Torn(st) => Torn(st')
  BY <1>3, <1>4 DEF Settles, Torn
<1>8. Calm
  BY <1>2, <1>3, <1>4, <1>5, <1>7 DEF Calm, Settles
<1>9. Quiet
  BY <1>2, <1>3, <1>4, <1>5, <1>6, <1>8 DEF Quiet, Settles
<1> QED
  BY <1>9, QuietKeeps

\* Between two events everybody who waits for a startup still wants it.
LEMMA IdleDooms ==
    ASSUME Idle, JoinInv',
           \A x \in Requests : req'[x].att = "joined" =>
              req[x].att = "joined" /\ req'[x].err = req[x].err
    PROVE  ~Doomed'
<1> SUFFICES ASSUME Doomed' PROVE FALSE
  OBVIOUS
<1>1. PICK x \in Requests : req'[x].att = "joined" /\ req'[x].gen = st'.startup
  BY DEF Doomed, JoinInv, Joined
<1>2. req'[x].err # "none"
  BY <1>1 DEF Doomed, Joined
<1> QED
  BY <1>1, <1>2, IdleFacts

\* A step of a generation that leaves the profile and the requests as they are.
LEMMA StageKeeps ==
    ASSUME TypeOK, TypeOK', Apart, Idle, NEW g \in Gens,
           gen[g].pc \in {"connect", "spawn"},
           NEW v \in {"connect", "spawn"}, gen' = [gen EXCEPT ![g].pc = v],
           UNCHANGED <<req, queue, hold, alive>>, made'.proc = made.proc, made'.gen = made.gen,
           open \subseteq open',
           st'.client = st.client, st'.process = st.process, st'.startup = st.startup,
           st'.deferred = st.deferred, st'.unavailable = st.unavailable,
           st'.teardown = st.teardown, st'.tearing = st.tearing, st'.users = st.users,
           st'.pending = st.pending, st'.fenced = st.fenced, st'.close = st.close,
           st'.reserved = st.reserved, st'.fallback = st.fallback
    PROVE  Apart'
<1>1. \A h \in Gens : /\ gen'[h].cancelled = gen[h].cancelled /\ gen'[h].proc = gen[h].proc
                      /\ gen'[h].pc = IF h = g THEN v ELSE gen[h].pc
  BY TypeParts DEF GenState
<1>2. LegacyInv' /\ StartInv' /\ TearInv' /\ CloseInv'
  BY DEF Apart, LegacyInv, StartInv, Hidden, TearInv, Torn, CloseInv, Active
<1>3. ChildInv'
  BY DEF Apart, ChildInv
<1>4. GenInv'
  BY <1>1 DEF Apart, GenInv
<1>5. JoinInv'
  <2>1. \A h : Joined(h)' = Joined(h)
    BY DEF Joined
  <2>2. \A r \in Requests : req[r].att = "joined" /\ req[r].gen # None => req[r].gen \in Gens
    BY TypeParts DEF ReqState
  <2> QED
    BY <1>1, <2>1, <2>2 DEF Apart, JoinInv
<1>6. FenceInv'
  BY DEF Apart, FenceInv
<1>7. DecideInv'
  BY IdleFacts DEF Apart, DecideInv
<1>8. DoomInv'
  BY <1>5, IdleDooms DEF DoomInv
<1> QED
  BY <1>2, <1>3, <1>4, <1>5, <1>6, <1>7, <1>8 DEF Apart

LEMMA ConnectKeeps ==
    ASSUME TypeOK, TypeOK', Apart, NEW g \in Gens, StartupConnect(g)
    PROVE  Apart'
<1> DEFINE c == made.client + 1
<1>1. /\ st \in BrokerState /\ req \in [Requests -> ReqState] /\ gen \in [Gens -> GenState]
      /\ made \in Counts /\ None \notin alive /\ None \notin Gens
  BY TypeParts, Nones
<1>2. /\ Idle /\ gen[g].pc = "connect" /\ c \in Clients
      /\ made' = [made EXCEPT !.client = c] /\ open' = open \cup {c}
      /\ UNCHANGED <<queue, hold, alive>>
  BY DEF StartupConnect
<1>3. made'.proc = made.proc /\ made'.gen = made.gen
  BY <1>1, <1>2 DEF Counts
<1>4. CASE /\ st' = [st EXCEPT !.retired = @ \cup {c}, !.closing = @ \cup {c}]
           /\ gen' = [gen EXCEPT ![g].pc = "spawn"] /\ req' = req
  <2>1. /\ st'.client = st.client /\ st'.process = st.process /\ st'.startup = st.startup
        /\ st'.deferred = st.deferred /\ st'.unavailable = st.unavailable
        /\ st'.teardown = st.teardown /\ st'.tearing = st.tearing /\ st'.users = st.users
        /\ st'.pending = st.pending /\ st'.fenced = st.fenced /\ st'.close = st.close
        /\ st'.reserved = st.reserved /\ st'.fallback = st.fallback
    BY <1>1, <1>4 DEF BrokerState
  <2> QED
    BY <1>2, <1>3, <1>4, <2>1, StageKeeps
<1>5. CASE /\ ~gen[g].cancelled /\ ~st.tearing /\ st.startup = g /\ ~st.unavailable
           /\ st' = [st EXCEPT !.client = c, !.publication = c, !.startup = None]
           /\ gen' = [gen EXCEPT ![g].pc = "done"]
           /\ req' = [r \in Requests |-> IF r \in Joined(g)
                         THEN [req[r] EXCEPT !.att = "ok", !.cand = c] ELSE req[r]]
  <2>1. /\ st'.client = c /\ st'.process = st.process /\ st'.startup = None
        /\ st'.deferred = st.deferred /\ st'.unavailable = st.unavailable
        /\ st'.teardown = st.teardown /\ st'.tearing = st.tearing /\ st'.users = st.users
        /\ st'.pending = st.pending /\ st'.fenced = st.fenced /\ st'.close = st.close
        /\ st'.reserved = st.reserved /\ st'.fallback = st.fallback
    BY <1>1, <1>5 DEF BrokerState
  <2>2. \A x \in Requests :
           \/ req'[x] = req[x] /\ ~(req[x].att = "joined" /\ req[x].gen = g)
           \/ /\ req[x].att = "joined" /\ req[x].gen = g /\ req'[x].att = "ok"
              /\ req'[x].err = req[x].err
    <3> HIDE DEF c
    <3>1. SUFFICES ASSUME NEW x \in Requests
                   PROVE  \/ req'[x] = req[x] /\ ~(req[x].att = "joined" /\ req[x].gen = g)
                          \/ /\ req[x].att = "joined" /\ req[x].gen = g /\ req'[x].att = "ok"
                             /\ req'[x].err = req[x].err
      OBVIOUS
    <3>2. x \in Joined(g) <=> req[x].att = "joined" /\ req[x].gen = g
      BY DEF Joined
    <3>3. CASE x \in Joined(g)
      <4> DEFINE h == [req[x] EXCEPT !.att = "ok", !.cand = c]
      <4>1. req'[x] = h
        BY <1>5, <3>3
      <4>2. h.att = "ok" /\ h.err = req[x].err
        BY <1>1 DEF ReqState
      <4> HIDE DEF h
      <4> QED
        BY <3>2, <3>3, <4>1, <4>2
    <3>4. CASE x \notin Joined(g)
      BY <1>5, <3>2, <3>4
    <3> QED
      BY <3>3, <3>4
  <2>3. \A h \in Gens : /\ gen'[h].cancelled = gen[h].cancelled /\ gen'[h].proc = gen[h].proc
                        /\ gen'[h].pc = IF h = g THEN "done" ELSE gen[h].pc
    BY <1>1, <1>5 DEF GenState
  <2>4. st.fallback = None /\ st.deferred = None /\ st.close = "none" /\ g # None
    BY <1>1, <1>5 DEF Apart, LegacyInv, StartInv, FenceInv
  <2>5. LegacyInv' /\ StartInv' /\ TearInv' /\ CloseInv'
    BY <1>5, <2>1, <2>4 DEF LegacyInv, StartInv, TearInv, Torn, CloseInv
  <2>6. ChildInv'
    BY <1>2, <1>3, <2>1 DEF Apart, ChildInv
  <2>7. GenInv'
    <3>1. st.startup = g /\ ~gen[g].cancelled /\ gen[g].pc = "connect"
      BY <1>2, <1>5
    <3>2. ASSUME NEW h \in Gens
          PROVE  /\ gen[h].proc # None => gen[h].proc <= made.proc
                 /\ gen[h].cancelled /\ gen[h].proc # None => gen[h].proc # st.process
                 /\ gen[h].pc # "none" => h <= made.gen
                 /\ gen[h].pc \in {"connect", "spawn"} /\ ~gen[h].cancelled => h = g
                 /\ gen[h].pc = "none" => ~gen[h].cancelled /\ gen[h].proc = None
      BY <3>1 DEF Apart, GenInv
    <3>3. \A h \in Gens : h # None
      BY <1>1
    <3> QED
      BY <1>3, <2>1, <2>3, <3>1, <3>2, <3>3 DEF GenInv
  <2>8. JoinInv'
    <3>1. ASSUME NEW x \in Requests, req'[x].att = "joined"
          PROVE  /\ req'[x].gen # None
                 /\ gen'[req'[x].gen].cancelled
      <4>1. req'[x] = req[x] /\ req[x].gen # g
        BY <2>2, <3>1
      <4>2. req[x].gen # None /\ gen[req[x].gen].cancelled
        BY <1>5, <3>1, <4>1 DEF Apart, JoinInv
      <4>3. req[x].gen \in Gens
        BY <1>1, <4>2 DEF ReqState
      <4> QED
        BY <2>3, <4>1, <4>2, <4>3
    <3> QED
      BY <2>1, <3>1 DEF JoinInv
  <2>9. FenceInv'
    <3>1. st.fenced \subseteq Requests
      BY <1>1 DEF BrokerState
    <3>2. ASSUME NEW x \in st.fenced
          PROVE  /\ req'[x].att # "ok" /\ (req'[x].err = "none" => st'.tearing)
                 /\ req'[x].att # "decide"
      <4>1. x \in Requests /\ req[x].att # "ok" /\ req[x].err # "none"
        BY <1>5, <3>1, <3>2 DEF Apart, FenceInv
      <4>2. req[x].att # "joined" /\ req[x].att # "decide"
        BY <1>2, <4>1, IdleFacts
      <4>3. req'[x] = req[x]
        BY <2>2, <4>1, <4>2
      <4> QED
        BY <4>1, <4>2, <4>3
    <3>3. /\ ~In(queue', {"prepare"}, None) /\ ~In(queue', {"detach"}, None)
          /\ Once(queue', {"prepare"}, None) /\ Once(queue', {"detach"}, None)
      BY <1>2, <2>4 DEF Apart, FenceInv
    <3> QED
      BY <2>1, <2>4, <3>2, <3>3 DEF FenceInv
  <2>10. DecideInv'
    <3>1. ASSUME NEW x \in Requests PROVE req'[x].att \notin {"decide", "deferred"}
      <4>1. req[x].att \notin {"decide", "deferred"}
        BY <1>2, IdleFacts DEF Apart, DecideInv
      <4> QED
        BY <2>2, <4>1
    <3>2. hold # None => hold.op # "check"
      BY <1>5, <2>4 DEF Apart, DecideInv
    <3> QED
      BY <1>2, <3>1, <3>2 DEF DecideInv
  <2>11. DoomInv'
    BY <2>1 DEF DoomInv, Doomed
  <2> QED
    BY <2>5, <2>6, <2>7, <2>8, <2>9, <2>10, <2>11 DEF Apart
<1> QED
  BY <1>4, <1>5 DEF StartupConnect

LEMMA SpawnKeeps ==
    ASSUME TypeOK, TypeOK', Apart, NEW g \in Gens, StartupSpawn(g)
    PROVE  Apart'
<1> DEFINE p == made.proc + 1
<1>1. /\ st \in BrokerState /\ req \in [Requests -> ReqState] /\ gen \in [Gens -> GenState]
      /\ made \in Counts /\ None \notin alive /\ None \notin Gens /\ None \notin Procs
      /\ alive \subseteq Procs /\ made.proc \in Nat /\ Procs \subseteq Nat
  BY TypeParts, Nones, LaneAssumption DEF Counts
<1>2. /\ Idle /\ gen[g].pc = "spawn" /\ ~gen[g].cancelled /\ st.deferred = None
      /\ UNCHANGED <<req, queue, hold, open>>
  BY DEF StartupSpawn
<1>3. CASE gen' = [gen EXCEPT ![g].pc = "connect"] /\ UNCHANGED <<st, alive, made>>
  BY <1>2, <1>3, StageKeeps
<1>4. CASE /\ st.process \notin alive /\ st.startup = g /\ p \in Procs
           /\ made' = [made EXCEPT !.proc = p]
           /\ st' = [st EXCEPT !.process = p, !.unavailable = FALSE]
           /\ gen' = [gen EXCEPT ![g].pc = "connect", ![g].proc = p]
           /\ alive' = alive \cup {p}
  <2>1. /\ st'.client = st.client /\ st'.process = p /\ st'.startup = st.startup
        /\ st'.deferred = None /\ st'.unavailable = FALSE
        /\ st'.teardown = st.teardown /\ st'.tearing = st.tearing /\ st'.users = st.users
        /\ st'.pending = st.pending /\ st'.fenced = st.fenced /\ st'.close = st.close
        /\ st'.reserved = st.reserved /\ st'.fallback = st.fallback
    BY <1>1, <1>2, <1>4 DEF BrokerState
  <2>2. made'.proc = p /\ made'.gen = made.gen
    BY <1>1, <1>4 DEF Counts
  <2>3. \A h \in Gens : /\ gen'[h].cancelled = gen[h].cancelled
                        /\ h # g => gen'[h] = gen[h]
                        /\ gen'[g].proc = p /\ gen'[g].pc = "connect"
    BY <1>1, <1>4 DEF GenState
  <2>4. alive = {}
    BY <1>1, <1>2, <1>4 DEF Apart, ChildInv, StartInv, Hidden
  <2>5. st.fallback = None /\ g # None /\ st.client = None
    BY <1>1, <1>4 DEF Apart, LegacyInv, StartInv
  <2>6. hold # None => hold.p # p
    <3>1. hold # None /\ hold.p # None => hold.p \in Nat /\ hold.p <= made.proc
      BY <1>1, TypeParts DEF Apart, ChildInv, Holding
    <3> QED
      BY <1>1, <1>4, <3>1
  <2>7. alive' = {p}
    BY <1>4, <2>4
  <2> HIDE DEF p
  <2>8. LegacyInv' /\ StartInv' /\ TearInv' /\ CloseInv'
    BY <1>2, <2>1, <2>5, <2>6, <2>7
       DEF Apart, LegacyInv, StartInv, Hidden, TearInv, Torn, CloseInv
  <2>9. ChildInv'
    <3>1. ASSUME NEW x \in Procs, In(queue, {"exit"}, x) PROVE x # p /\ x <= p
      <4>1. x \in Nat /\ x <= made.proc
        BY <1>1, <3>1 DEF Apart, ChildInv
      <4> QED
        BY <1>1, <4>1 DEF p
    <3>2. hold # None /\ hold.p # None => hold.p <= p
      <4>1. hold # None /\ hold.p # None => hold.p \in Nat /\ hold.p <= made.proc
        BY <1>1, TypeParts DEF Apart, ChildInv, Holding
      <4> QED
        BY <1>1, <4>1 DEF p
    <3>3. p \in Nat /\ p <= p
      BY <1>1 DEF p
    <3>4. hold # None /\ hold.op = "adopt" => hold.p = None
      BY DEF Apart, ChildInv
    <3> QED
      BY <1>2, <2>1, <2>2, <2>6, <2>7, <3>1, <3>2, <3>3, <3>4 DEF ChildInv
  <2>10. GenInv'
    <3>1. ASSUME NEW h \in Gens, h # g, gen[h].proc # None
          PROVE  gen[h].proc <= p /\ gen[h].proc # p
      <4>1. gen[h].proc \in Nat /\ gen[h].proc <= made.proc
        BY <1>1, <3>1 DEF Apart, GenInv, GenState
      <4> QED
        BY <1>1, <4>1 DEF p
    <3>2. p <= p
      BY <1>1 DEF p
    <3>3. ASSUME NEW h \in Gens, h # g
          PROVE  /\ gen'[h].proc # None => gen'[h].proc <= made'.proc
                 /\ gen'[h].cancelled /\ gen'[h].proc # None => gen'[h].proc # st'.process
                 /\ gen'[h].pc # "none" => h <= made'.gen
                 /\ (gen'[h].pc \in {"connect", "spawn"} /\ ~gen'[h].cancelled) <=> st'.startup = h
                 /\ gen'[h].pc = "none" => ~gen'[h].cancelled /\ gen'[h].proc = None
      <4>1. gen'[h] = gen[h]
        BY <2>3, <3>3
      <4> QED
        BY <2>1, <2>2, <3>1, <3>3, <4>1 DEF Apart, GenInv
    <3>4. /\ gen'[g].proc # None => gen'[g].proc <= made'.proc
          /\ ~gen'[g].cancelled /\ g <= made'.gen
          /\ gen'[g].pc = "connect" /\ st'.startup = g
      BY <1>2, <1>4, <2>1, <2>2, <2>3, <3>2 DEF Apart, GenInv
    <3> QED
      BY <3>3, <3>4 DEF GenInv
  <2>11. JoinInv'
    <3>1. \A h : Joined(h)' = Joined(h)
      BY <1>2 DEF Joined
    <3>2. \A r \in Requests : req[r].att = "joined" /\ req[r].gen # None => req[r].gen \in Gens
      BY <1>1 DEF ReqState
    <3> QED
      BY <1>2, <2>1, <2>3, <3>1, <3>2 DEF Apart, JoinInv
  <2>12. FenceInv'
    BY <1>2, <2>1 DEF Apart, FenceInv
  <2>13. DecideInv'
    <3>1. hold # None => hold.op # "check"
      BY <1>4, <2>5 DEF Apart, DecideInv
    <3>2. \A x \in Requests : req[x].att \notin {"decide", "deferred"}
      BY <1>2, IdleFacts DEF Apart, DecideInv
    <3> QED
      BY <1>2, <3>1, <3>2 DEF DecideInv
  <2>14. DoomInv'
    BY <1>2, <2>11, IdleDooms DEF DoomInv
  <2> QED
    BY <2>8, <2>9, <2>10, <2>11, <2>12, <2>13, <2>14 DEF Apart
<1> QED
  BY <1>3, <1>4 DEF StartupSpawn

LEMMA StartupFailKeeps ==
    ASSUME TypeOK, TypeOK', Apart, NEW g \in Gens, StartupFail(g)
    PROVE  Apart'
<1> DEFINE s0 == [st EXCEPT !.startup = IF @ = g THEN None ELSE @]
           s1 == TerminateOwn(s0, g)
           own == gen[g].proc # None /\ st.process = gen[g].proc
<1>1. /\ st \in BrokerState /\ req \in [Requests -> ReqState] /\ gen \in [Gens -> GenState]
      /\ None \notin alive /\ None \notin Gens /\ gen[g].proc \in Procs \cup {None}
  BY TypeParts, Nones DEF GenState
<1>2. /\ Idle /\ gen[g].pc = "spawn" /\ gen' = [gen EXCEPT ![g].pc = "done"]
      /\ st' = s1 \/ st' = DropMarkers(s1, Joined(g))
      /\ req' = [r \in Requests |-> IF r \in Joined(g) THEN [req[r] EXCEPT !.att = "err"]
                                    ELSE req[r]]
      /\ UNCHANGED <<queue, hold, alive, open, made>>
  BY DEF StartupFail
<1>3. /\ s0 \in BrokerState /\ s0.client = st.client /\ s0.process = st.process
      /\ s0.startup = (IF st.startup = g THEN None ELSE st.startup)
      /\ s0.unavailable = st.unavailable /\ s0.users = st.users
      /\ s0.reserved = st.reserved /\ s0.fallback = st.fallback /\ s0.close = st.close
      /\ s0.pending = st.pending /\ s0.fenced = st.fenced /\ s0.tearing = st.tearing
      /\ s0.deferred = st.deferred /\ s0.teardown = st.teardown
  BY <1>1 DEF BrokerState
<1> HIDE DEF s0
<1>4. own => st.startup = g
  BY <1>2 DEF Apart, GenInv
<1>5. st.startup = g => st.client = None /\ st.deferred = None /\ ~Hidden
  BY <1>1 DEF Apart, StartInv
<1>6. /\ s1 \in BrokerState /\ s1.client = st.client
      /\ s1.startup = (IF st.startup = g THEN None ELSE st.startup)
      /\ s1.users = st.users
      /\ s1.reserved = st.reserved /\ s1.fallback = st.fallback /\ s1.close = st.close
      /\ s1.pending = st.pending /\ s1.fenced = st.fenced /\ s1.tearing = st.tearing
      /\ s1.process = (IF own THEN None ELSE st.process)
      /\ s1.deferred = IF own /\ st.process \in alive THEN st.process ELSE st.deferred
      /\ Torn(s1)
  <2>1. /\ s1 \in BrokerState /\ Marked(s0, s1)
        /\ s1.client = s0.client /\ s1.startup = s0.startup
        /\ s1.users = s0.users
        /\ s1.reserved = s0.reserved /\ s1.fallback = s0.fallback
        /\ s1.close = s0.close /\ s1.tearing = s0.tearing
        /\ s1.process = (IF own THEN None ELSE s0.process)
        /\ s1.unavailable <=> s0.unavailable \/ own
        /\ s1.deferred = IF own /\ s0.process \in alive /\ s0.deferred = None
                         THEN s0.process ELSE s0.deferred
        /\ s1.teardown <=> s0.teardown \/ (own /\ s0.process \in alive /\ s0.deferred = None)
    BY <1>1, <1>3, TerminateEffect
  <2> HIDE DEF s1, own
  <2>2. Torn(st)
    BY DEF Apart, TearInv
  <2>3. Torn(s1)
    BY <1>3, <1>4, <1>5, <2>1, <2>2 DEF Torn
  <2> QED
    BY <1>3, <1>4, <1>5, <2>1, <2>3 DEF Marked
<1> HIDE DEF s1, own
<1>7. Settles(s1, st') /\ st'.deferred = s1.deferred
  <2>1. Settles(s1, s1)
    BY <1>6 DEF Settles, BrokerState
  <2> QED
    BY <1>2, <1>6, <2>1, DropSettles, DropEffect
<1>8. /\ st'.client = st.client
      /\ st'.startup = (IF st.startup = g THEN None ELSE st.startup)
      /\ st'.users = st.users
      /\ st'.reserved = st.reserved /\ st'.fallback = st.fallback /\ st'.close = st.close
      /\ st'.process = (IF own THEN None ELSE st.process)
      /\ st'.deferred = IF own /\ st.process \in alive THEN st.process ELSE st.deferred
      /\ st'.pending \subseteq st.pending /\ st'.fenced \subseteq st.fenced
      /\ st.pending \subseteq st.fenced => st'.pending \subseteq st'.fenced
      /\ st'.tearing => st.tearing
      /\ st.tearing /\ ~st'.tearing => st'.close = "none" /\ st'.fenced = {}
      /\ Torn(st')
  BY <1>6, <1>7 DEF Settles
<1>9. \A x \in Requests :
         \/ req'[x] = req[x] /\ ~(req[x].att = "joined" /\ req[x].gen = g)
         \/ /\ req[x].att = "joined" /\ req[x].gen = g /\ req'[x].att = "err"
            /\ req'[x].err = req[x].err
  <2>1. SUFFICES ASSUME NEW x \in Requests
                 PROVE  \/ req'[x] = req[x] /\ ~(req[x].att = "joined" /\ req[x].gen = g)
                        \/ /\ req[x].att = "joined" /\ req[x].gen = g /\ req'[x].att = "err"
                           /\ req'[x].err = req[x].err
    OBVIOUS
  <2>2. x \in Joined(g) <=> req[x].att = "joined" /\ req[x].gen = g
    BY DEF Joined
  <2>3. CASE x \in Joined(g)
    <3> DEFINE h == [req[x] EXCEPT !.att = "err"]
    <3>1. req'[x] = h
      BY <1>2, <2>3
    <3>2. h.att = "err" /\ h.err = req[x].err
      BY <1>1 DEF ReqState
    <3> HIDE DEF h
    <3> QED
      BY <2>2, <2>3, <3>1, <3>2
  <2>4. CASE x \notin Joined(g)
    BY <1>2, <2>2, <2>4
  <2> QED
    BY <2>3, <2>4
<1>10. \A h \in Gens : /\ gen'[h].cancelled = gen[h].cancelled /\ gen'[h].proc = gen[h].proc
                       /\ gen'[h].pc = IF h = g THEN "done" ELSE gen[h].pc
  BY <1>1, <1>2 DEF GenState
<1>11. UNCHANGED <<queue, hold, alive, open, made>>
  BY <1>2
<1>12. LegacyInv' /\ TearInv' /\ CloseInv'
  <2>1. \A x \in Requests : req'[x].att # "decide"
    BY <1>2, <1>9, IdleFacts
  <2> QED
    BY <1>8, <1>11, <2>1 DEF Apart, LegacyInv, TearInv, CloseInv, Active
<1>13. ChildInv'
  <2>1. own => st.deferred = None
    BY <1>4, <1>5
  <2> QED
    BY <1>1, <1>8, <1>11, <2>1 DEF Apart, ChildInv
<1>14. GenInv'
  <2>1. ASSUME NEW h \in Gens
        PROVE  /\ gen[h].proc # None => gen[h].proc <= made.proc
               /\ gen[h].cancelled /\ gen[h].proc # None => gen[h].proc # st'.process
               /\ gen[h].pc # "none" => h <= made.gen
               /\ (gen[h].pc \in {"connect", "spawn"} /\ ~gen[h].cancelled) <=> st.startup = h
               /\ gen[h].pc = "none" => ~gen[h].cancelled /\ gen[h].proc = None
    BY <1>8 DEF Apart, GenInv
  <2>2. ASSUME NEW h \in Gens, h # g PROVE st'.startup = h <=> st.startup = h
    BY <1>1, <1>8, <2>2
  <2>3. st'.startup # g
    BY <1>1, <1>8
  <2> QED
    BY <1>2, <1>10, <1>11, <2>1, <2>2, <2>3 DEF GenInv
<1>15. JoinInv'
  <2>1. ASSUME st'.startup # None
        PROVE  \E x \in Requests : req'[x].att = "joined" /\ req'[x].gen = st'.startup
    <3>1. st.startup # None /\ st.startup # g /\ st'.startup = st.startup
      BY <1>8, <2>1
    <3>2. PICK x \in Requests : req[x].att = "joined" /\ req[x].gen = st.startup
      BY <3>1 DEF Apart, JoinInv, Joined
    <3>3. req'[x] = req[x]
      BY <1>9, <3>1, <3>2
    <3> QED
      BY <3>1, <3>2, <3>3
  <2>2. ASSUME NEW x \in Requests, req'[x].att = "joined"
        PROVE  /\ req'[x].gen # None
               /\ gen'[req'[x].gen].cancelled \/ st'.startup = req'[x].gen
    <3>1. req'[x] = req[x] /\ req[x].gen # g
      BY <1>9, <2>2
    <3>2. req[x].gen # None /\ (gen[req[x].gen].cancelled \/ st.startup = req[x].gen)
      BY <2>2, <3>1 DEF Apart, JoinInv
    <3>3. req[x].gen \in Gens
      BY <1>1, <3>2 DEF ReqState
    <3> QED
      BY <1>8, <1>10, <3>1, <3>2, <3>3
  <2> QED
    BY <2>1, <2>2 DEF JoinInv, Joined
<1>16. StartInv'
  BY <1>4, <1>8, <1>11 DEF Apart, StartInv, Hidden
<1>17. FenceInv'
  <2>1. ASSUME NEW x \in st'.fenced
        PROVE  /\ req'[x].att # "ok" /\ (req'[x].err = "none" => st'.tearing)
               /\ req'[x].att # "decide"
    <3>1. x \in Requests /\ x \in st.fenced
      BY <1>1, <1>8, <2>1 DEF BrokerState
    <3>2. req[x].att \notin {"ok", "decide"} /\ (req[x].err = "none" => st.tearing)
      BY <1>2, <3>1, IdleFacts DEF Apart, FenceInv
    <3>3. st.tearing => st'.tearing
      BY <1>8, <2>1
    <3> QED
      BY <1>9, <3>1, <3>2, <3>3
  <2>2. /\ st'.close # "none" => st'.tearing
        /\ st'.close = "prepare" => st'.pending \subseteq st'.fenced
        /\ In(queue', {"prepare"}, None) => st'.close = "prepare"
        /\ In(queue', {"detach"}, None) => st'.close = "detach"
        /\ Once(queue', {"prepare"}, None) /\ Once(queue', {"detach"}, None)
    BY <1>8, <1>11 DEF Apart, FenceInv
  <2> QED
    BY <2>1, <2>2 DEF FenceInv
<1>18. DecideInv'
  <2>1. \A x \in Requests : req'[x].att \notin {"decide", "deferred"}
    <3>1. \A x \in Requests : req[x].att \notin {"decide", "deferred"}
      BY <1>2, IdleFacts DEF Apart, DecideInv
    <3> QED
      BY <1>9, <3>1
  <2>2. hold # None /\ hold.op = "check" =>
           /\ hold.p = None /\ st'.client = None /\ st'.startup = None /\ st'.deferred = None
    BY <1>1, <1>4, <1>8 DEF Apart, DecideInv
  <2> QED
    BY <1>11, <2>1, <2>2 DEF DecideInv
<1>19. DoomInv'
  BY <1>2, <1>9, <1>15, IdleDooms DEF DoomInv
<1> QED
  BY <1>12, <1>13, <1>14, <1>15, <1>16, <1>17, <1>18, <1>19 DEF Apart

-----------------------------------------------------------------------------
(* The invariant is inductive, and says what it should.                      *)

LEMMA ApartStep ==
    TypeOK /\ QueueInv /\ StageInv /\ Apart /\ [Next]_vars => Apart'
<1> SUFFICES ASSUME TypeOK, QueueInv, StageInv, Apart, [Next]_vars PROVE Apart'
  OBVIOUS
<1>1. TypeOK'
  BY TypeStep DEF Apart
<1>2. ASSUME NEW r \in Requests, Request(r) PROVE Apart'
  BY <1>1, <1>2, GoKeeps, MarkKeeps, AdoptKeeps, ReleaseKeeps, CleanupKeeps DEF Request
<1>3. ASSUME NEW r \in Requests, Attempt(r) PROVE Apart'
  BY <1>1, <1>3, WaitKeeps, CheckKeeps, DecideKeeps, LeavesKeeps DEF Attempt
<1>4. ASSUME NEW g \in Gens,
             StartupConnect(g) \/ StartupRefused(g) \/ StartupSpawn(g) \/ StartupFail(g)
      PROVE  Apart'
  <2>1. CASE StartupRefused(g)
    BY <1>1, <2>1, StageKeeps DEF StartupRefused
  <2> QED
    BY <1>1, <1>4, <2>1, ConnectKeeps, SpawnKeeps, StartupFailKeeps
<1>5. ASSUME NEW p \in Procs, ProcExit(p) \/ ProcEvent(p) PROVE Apart'
  BY <1>1, <1>5, ExitKeeps, EventKeeps
<1>6. ASSUME NEW c \in Clients,
             PublicationTimer(c) \/ Unadopted(c) \/ CloseSettles(c) \/ Disconnect(c)
      PROVE  Apart'
  BY <1>1, <1>6, TimerKeeps, UnadoptedKeeps, SettlesKeeps, DisconnectKeeps
<1>7. CASE HoldEnds \/ ClosePrepare \/ CloseDrains \/ CloseEnds
  BY <1>1, <1>7, HoldKeeps, PrepareKeeps, DrainsKeeps, EndsKeeps
<1>8. CASE Toggle \/ UNCHANGED vars
  BY <1>8, TimerKeeps
<1> QED
  BY <1>2, <1>3, <1>4, <1>5, <1>6, <1>7, <1>8 DEF Next

LEMMA InitInv == Init => Inv
<1> SUFFICES ASSUME Init PROVE Inv
  OBVIOUS
<1>1. /\ None \notin Requests /\ None \notin Clients /\ None \notin Procs /\ None \notin Gens
  BY LaneAssumption
<1>2. /\ st.client = None /\ st.process = None /\ st.deferred = None /\ st.startup = None
      /\ ~st.unavailable /\ ~st.tearing /\ st.users = [c \in Clients |-> {}]
      /\ st.pending = {} /\ st.fenced = {} /\ st.reserved = {} /\ st.fallback = None
      /\ st.close = "none"
      /\ alive = {} /\ hold = None /\ made = [client |-> 0, proc |-> 0, gen |-> 0]
  BY DEF Init
<1>3. \A r \in Requests : /\ req[r].pc = "idle" /\ req[r].err = "none" /\ req[r].client = None
                          /\ req[r].att = "none" /\ ~req[r].adopted /\ ~req[r].closeStarted
  BY DEF Init
<1>4. \A g \in Gens : gen[g].pc = "none" /\ ~gen[g].cancelled /\ gen[g].proc = None
  BY DEF Init
<1>5. /\ \A O, x : ~In(queue, O, x)
      /\ \A O, x : Once(queue, O, x)
  BY DEF Init, In, Once
<1>6. TypeOK
  <2>1. st \in BrokerState
    BY DEF Init, BrokerState
  <2>2. req \in [Requests -> ReqState]
    BY DEF Init, ReqState
  <2>3. gen \in [Gens -> GenState]
    BY DEF Init, GenState
  <2>4. /\ queue \in Seq(Operation) /\ hold \in Holding \cup {None}
        /\ alive \subseteq Procs /\ open \subseteq Clients /\ timers \subseteq Clients
        /\ made \in Counts /\ toggles \in Nat
    BY DEF Init, Counts
  <2> QED
    BY <2>1, <2>2, <2>3, <2>4, TypeParts
<1>7. QueueInv /\ StageInv
  BY <1>1, <1>2, <1>3, <1>5 DEF QueueInv, QueueOf, StageInv, StageOf, Waits
<1>8. LegacyInv /\ FenceInv /\ ChildInv
  BY <1>2, <1>5 DEF LegacyInv, FenceInv, ChildInv
<1>9. GenInv /\ JoinInv /\ StartInv /\ TearInv
  BY <1>1, <1>2, <1>3, <1>4 DEF GenInv, JoinInv, StartInv, TearInv, Torn
<1>10. DecideInv /\ CloseInv /\ DoomInv
  BY <1>2, <1>3 DEF DecideInv, CloseInv, DoomInv, Doomed
<1> QED
  BY <1>6, <1>7, <1>8, <1>9, <1>10 DEF Inv

LEMMA InvStep == Inv /\ [Next]_vars => Inv'
<1>1. Inv <=> TypeOK /\ QueueInv /\ StageInv /\ Apart
  BY DEF Inv, Apart
<1>2. Inv' <=> TypeOK' /\ QueueInv' /\ StageInv' /\ Apart'
  BY DEF Inv, Apart
<1>3. Apart => JoinInv
  BY DEF Apart
<1> QED
  BY <1>1, <1>2, <1>3, TypeStep, BookStep, ApartStep

LEMMA InvApart == Inv => LanesApart
<1> SUFFICES ASSUME Inv PROVE LanesApart
  OBVIOUS
<1>1. OneChild
  <2>1. \A p, q \in alive : p = q
    BY DEF Inv, ChildInv
  <2>2. CASE alive = {}
    BY <2>2, FS_EmptySet DEF OneChild
  <2>3. CASE alive # {}
    <3>1. PICK p : alive = {p}
      BY <2>1, <2>3
    <3>2. Cardinality({p}) = 1
      BY FS_Singleton
    <3> QED
      BY <3>1, <3>2 DEF OneChild
  <2> QED
    BY <2>2, <2>3
<1>2. LegacyAlone
  BY DEF Inv, LegacyInv, LegacyAlone
<1>3. FencedBringsNone
  BY DEF Inv, FenceInv, FencedBringsNone
<1> QED
  BY <1>1, <1>2, <1>3 DEF LanesApart

\* Whatever startups, cancellations, exits, closes and aborts come in between, a
\* profile has one child at most, the legacy search is alone, and a fenced connector
\* brings no client (ensureGoogleBroker(), closeGoogleBroker() and
\* googleSearchWithDependencies(), google-ai.ts).
THEOREM LanesStayApart == Spec => []LanesApart
<1>1. Init => Inv
  BY InitInv
<1>2. Inv /\ [Next]_vars => Inv'
  BY InvStep
<1>3. Inv => LanesApart
  BY InvApart
<1> QED
  BY <1>1, <1>2, <1>3, PTL DEF Spec

\* The profile, the requests, the startups, the lifecycle queue and what waits at its
\* head stay well-formed.
THEOREM LaneTypes == Spec => []TypeOK
<1>1. Init => Inv
  BY InitInv
<1>2. Inv /\ [Next]_vars => Inv'
  BY InvStep
<1>3. Inv => TypeOK
  BY DEF Inv
<1> QED
  BY <1>1, <1>2, <1>3, PTL DEF Spec

-----------------------------------------------------------------------------
(* EnabledSparesUsers, which the run lane checks too.                        *)

\* Nobody uses a client that does not exist yet, and what the global close takes
\* away has no users left: it has waited for them.
UsersInv ==
    /\ \A c \in Clients : st.users[c] # {} => c <= made.client
    /\ st.client # None => st.client <= made.client
    /\ \A r \in Requests : req[r].cand # None => req[r].cand <= made.client
    /\ st.close \in {"detach", "closing"} => ~Active(st)

Spared == \A c \in st'.closing \ st.closing : st'.users[c] = {}

\* The step leaves things as they are in s, but that it closes the clients C.
Leaves(s, C) ==
    /\ st'.users = s.users /\ st'.client = s.client /\ st'.close = s.close
    /\ st'.closing \subseteq s.closing \cup C
    /\ \A r \in Requests : req'[r].cand = req[r].cand

LEMMA LeavesSpares ==
    ASSUME TypeOK, TypeOK', UsersInv, NEW s, NEW C, Leaves(s, C), made' = made,
           \A c \in Clients : s.users[c] \subseteq st.users[c],
           s.client \in {st.client, None}, s.closing = st.closing,
           s.close \in {"detach", "closing"} => ~Active(st)
    PROVE  UsersInv' /\ ((\A c \in C : s.users[c] = {}) => Spared)
<1>1. Active(st') => Active(st)
  BY DEF Active, Leaves
<1> QED
  BY <1>1 DEF Leaves, UsersInv, Spared

LEMMA CleanedUpLeaves ==
    ASSUME TypeOK, NEW r \in Requests, NEW s \in BrokerState, NEW ok, NEW q,
           CleanedUp(r, s, ok, q)
    PROVE  Leaves(s, {})
<1>1. req \in [Requests -> ReqState]
  BY TypeParts
<1>2. st' = s /\ \E e, c, b, pc : req' = [req EXCEPT ![r].client = c, ![r].err = e,
                                             ![r].closeStarted = b, ![r].pc = pc]
  BY DEF CleanedUp
<1> QED
  BY <1>1, <1>2 DEF Leaves, ReqState

LEMMA FailLeaves ==
    ASSUME TypeOK, NEW r \in Requests, NEW s \in BrokerState, NEW e, NEW q, Fail(r, s, e, q)
    PROVE  Leaves(s, {})
<1>1. req \in [Requests -> ReqState]
  BY TypeParts
<1>2. req' = [req EXCEPT ![r].pc = "queued", ![r].err = e]
      /\ st' \in {s, [s EXCEPT !.fenced = @ \cup {r}]}
  BY DEF Fail
<1> QED
  BY <1>1, <1>2 DEF Leaves, ReqState, BrokerState

LEMMA GoLeaves ==
    ASSUME TypeOK, NEW r \in Requests, NEW pc, Go(r, pc)
    PROVE  \A x \in Requests : req'[x].cand = req[x].cand
<1>1. req \in [Requests -> ReqState] /\ req' = [req EXCEPT ![r].pc = pc]
  BY TypeParts DEF Go
<1> QED
  BY <1>1 DEF ReqState

LEMMA ErrorLeaves ==
    ASSUME TypeOK, NEW r \in Requests, NEW s \in BrokerState, AttemptError(r, s)
    PROVE  Leaves(s, {})
<1>1. req \in [Requests -> ReqState]
  BY TypeParts
<1>2. req' = [req EXCEPT ![r].att = "err"] /\ Stable(s, st')
  BY DropEffect DEF AttemptError
<1> QED
  BY <1>1, <1>2 DEF Leaves, ReqState, Stable

LEMMA ContinueLeaves ==
    ASSUME TypeOK, NEW op, NEW r,
           op \in {"check", "adopt", "cleanup", "late", "unlease"} => r \in Requests,
           NEW c \in Clients \cup {None}, NEW p \in Procs \cup {None},
           NEW s \in BrokerState, NEW q, Continue(op, r, c, p, s, q)
    PROVE  Leaves(s, {})
<1> DEFINE t == Ended(s, c, p)
<1>1. /\ t \in BrokerState /\ t.users = s.users /\ t.client = s.client /\ t.close = s.close
      /\ t.closing = s.closing
  BY EndedEffect, Nones
<1>2. /\ DropMarkers(t, {r}) \in BrokerState /\ Stable(t, DropMarkers(t, {r}))
  BY <1>1, DropEffect
<1>3. req \in [Requests -> ReqState]
  BY TypeParts
<1> HIDE DEF t
<1>4. \A u : Leaves(u, {}) /\ u \in {t, DropMarkers(t, {r})} => Leaves(s, {})
  BY <1>1, <1>2 DEF Leaves, Stable
<1>5. CASE op = "check" /\ st' \in {t, DropMarkers(t, {r})}
           /\ \E a : req' = [req EXCEPT ![r].att = a]
  BY <1>1, <1>2, <1>3, <1>5 DEF Leaves, Stable, ReqState
<1>6. CASE op = "adopt" /\ Fail(r, s, "abort", q)
  BY <1>6, FailLeaves
<1>7. CASE /\ op \in {"cleanup", "late"}
           /\ \E ok \in BOOLEAN : \/ CleanedUp(r, t, ok, q)
                                  \/ CleanedUp(r, DropMarkers(t, {r}), ok, q)
  BY <1>1, <1>2, <1>4, <1>7, CleanedUpLeaves
<1>8. CASE op = "unlease" /\ st' = t /\ Go(r, "done")
  BY <1>1, <1>8, GoLeaves DEF Leaves
<1>9. CASE st' = t /\ req' = req
  BY <1>1, <1>9 DEF Leaves
<1> QED
  BY <1>5, <1>6, <1>7, <1>8, <1>9, ContinueCases DEF t

LEMMA ClosingLeaves ==
    ASSUME TypeOK, NEW op, NEW r,
           op \in {"check", "adopt", "cleanup", "late", "unlease"} => r \in Requests,
           NEW c \in Clients \cup {None}, NEW p \in Procs \cup {None},
           NEW s \in BrokerState, Closing(op, r, c, p, s)
    PROVE  Leaves(s, {c} \ {None})
<1> DEFINE f == Forgive(s, c)
           u == RetainDeferred(f, p)
<1>1. /\ f \in BrokerState /\ f.users = s.users /\ f.client = s.client /\ f.close = s.close
      /\ f.closing = s.closing
  BY ForgiveEffect
<1>2. u \in BrokerState /\ Stable(f, u)
  BY <1>1, RetainEffect, Nones
<1> HIDE DEF u
<1>3. CASE Continue(op, r, c, p, u, Tail(queue))
  <2>1. Leaves(u, {})
    BY <1>2, <1>3, ContinueLeaves
  <2> QED
    BY <1>1, <1>2, <2>1 DEF Leaves, Stable
<1>4. CASE st' = u /\ req' = req
  BY <1>1, <1>2, <1>4 DEF Leaves, Stable
<1>5. CASE st' = Shut(s, c) /\ c # None /\ req' = req
  <2>1. c \in Clients
    BY <1>5
  <2> QED
    BY <1>5, <2>1, ShutEffect DEF Leaves
<1> QED
  BY <1>3, <1>4, <1>5, ClosingCases DEF u, f

\* The actions that close no client.
LEMMA RequestSpares ==
    ASSUME TypeOK, TypeOK', UsersInv, NEW r \in Requests,
           \/ Start(r) \/ Reserve(r) \/ Reserved(r) \/ EnsureChrome(r) \/ Gate(r)
           \/ Connect(r) \/ ConnectFails(r) \/ Unreserve(r) \/ Search(r) \/ Abandon(r)
           \/ LegacyWait(r) \/ LegacyReserve(r) \/ LegacySettles(r) \/ LegacyLifts(r)
           \/ LegacyAbandoned(r) \/ CloseStart(r) \/ CloseAbandoned(r)
    PROVE  UsersInv' /\ Spared
<1>1. st \in BrokerState /\ req \in [Requests -> ReqState]
  BY TypeParts
<1>2. made' = made
  BY DEF Start, Reserve, Reserved, EnsureChrome, Gate, Connect, ConnectFails, Unreserve,
         Search, Abandon, LegacyWait, LegacyReserve, LegacySettles, LegacyLifts,
         LegacyAbandoned, CloseStart, CloseAbandoned, Others
<1> DEFINE t == [st EXCEPT !.reserved = @ \ {r}]
           Alike(s) == /\ s.users = st.users /\ s.client = st.client
                       /\ s.closing = st.closing
                       /\ s.close \in {st.close, "prepare"}
<1>3. ASSUME NEW s, Alike(s), Leaves(s, {}) PROVE UsersInv' /\ Spared
  <2>1. s.close \in {"detach", "closing"} => ~Active(st)
    BY <1>3 DEF UsersInv
  <2>2. s.closing = st.closing /\ \A c \in Clients : s.users[c] \subseteq st.users[c]
    BY <1>3
  <2> QED
    BY <1>2, <1>3, <2>1, <2>2, LeavesSpares
<1>4. CASE Reserved(r) \/ EnsureChrome(r) \/ ConnectFails(r) \/ Search(r) \/ Abandon(r)
  <2>1. CASE \E e, q : Fail(r, st, e, q)
    BY <1>1, <1>3, <2>1, FailLeaves
  <2>2. CASE st' = st /\ \E pc : Go(r, pc)
    BY <1>3, <2>2, GoLeaves DEF Leaves
  <2>3. CASE st' = [st EXCEPT !.reserved = @ \cup {r}] /\ Go(r, "chrome")
    <3>1. Alike(st')
      BY <1>1, <2>3 DEF BrokerState
    <3> QED
      BY <1>3, <2>3, <3>1, GoLeaves DEF Leaves
  <2> QED
    BY <1>4, <2>1, <2>2, <2>3 DEF Reserved, EnsureChrome, ConnectFails, Search, Abandon
<1>5. CASE Start(r) \/ Reserve(r) \/ LegacyWait(r) \/ LegacyAbandoned(r) \/ CloseAbandoned(r)
  BY <1>3, <1>5, GoLeaves
     DEF Leaves, Start, Reserve, LegacyWait, LegacyAbandoned, CloseAbandoned
<1>6. CASE Gate(r)
  <2>1. CASE \E e, q : Fail(r, st, e, q)
    BY <1>1, <1>3, <2>1, FailLeaves
  <2>2. CASE st' = st /\ \E pc : Go(r, pc)
    BY <1>3, <2>2, GoLeaves DEF Leaves
  <2> QED
    BY <1>6, <2>1, <2>2 DEF Gate
<1>7. CASE Connect(r)
  <2>1. Alike(st') /\ \A x \in Requests : req'[x].cand = req[x].cand
    BY <1>1, <1>7 DEF Connect, BrokerState, ReqState
  <2> QED
    BY <1>3, <2>1 DEF Leaves
<1>8. CASE Unreserve(r)
  <2>1. t \in BrokerState /\ Alike(t) /\ st' = MaybeFinish(t)
    BY <1>1, <1>8 DEF Unreserve, BrokerState
  <2> HIDE DEF t
  <2>2. Stable(t, st') /\ \E pc : Go(r, pc)
    BY <1>8, <2>1, MaybeFinishEffect DEF Unreserve
  <2>3. Leaves(t, {})
    BY <2>2, GoLeaves DEF Leaves, Stable
  <2> QED
    BY <1>3, <2>1, <2>3
<1>9. CASE LegacyReserve(r) \/ LegacyLifts(r) \/ LegacySettles(r)
  <2>1. Alike(st')
    BY <1>1, <1>9 DEF LegacyReserve, LegacyLifts, LegacySettles, BrokerState
  <2>2. req' = req \/ \E pc : Go(r, pc)
    BY <1>9 DEF LegacyReserve, LegacyLifts, LegacySettles
  <2> QED
    BY <1>3, <2>1, <2>2, GoLeaves DEF Leaves
<1>10. CASE CloseStart(r)
  <2>1. Alike(st') /\ Go(r, "closeWait")
    BY <1>1, <1>10 DEF CloseStart, BrokerState
  <2> QED
    BY <1>3, <2>1, GoLeaves DEF Leaves
<1> QED
  BY <1>4, <1>5, <1>6, <1>7, <1>8, <1>9, <1>10

\* A connect attempt is given the client there is, or closes the one there was.
LEMMA AttemptSpares ==
    ASSUME TypeOK, TypeOK', JoinInv, UsersInv, NEW r \in Requests, Attempt(r)
    PROVE  UsersInv' /\ Spared
<1>1. st \in BrokerState /\ req \in [Requests -> ReqState] /\ gen \in [Gens -> GenState]
      /\ made \in Counts /\ made' \in Counts /\ open \subseteq Clients
  BY TypeParts, TypePartsNext
<1>2. st.close \in {"detach", "closing"} => ~Active(st)
  BY DEF UsersInv
<1>3. ASSUME NEW s, NEW C, Leaves(s, C), made' = made, s.users = st.users,
             s.client \in {st.client, None}, s.closing = st.closing, s.close = st.close,
             \A c \in C : st.users[c] = {}
      PROVE  UsersInv' /\ Spared
  BY <1>2, <1>3, LeavesSpares
<1>4. CASE AttemptWait(r) \/ AttemptConnects(r) \/ AttemptSettles(r)
  <2>1. made' = made
    BY <1>4 DEF AttemptWait, AttemptConnects, AttemptSettles, Others
  <2>2. CASE AttemptError(r, st)
    BY <1>1, <1>3, <2>1, <2>2, ErrorLeaves
  <2>3. CASE st' = st /\ \A x \in Requests : req'[x].cand = req[x].cand
    <3>1. Leaves(st, {})
      BY <2>3 DEF Leaves
    <3> QED
      BY <1>3, <2>1, <3>1
  <2>4. CASE AttemptSettles(r)
    <3> DEFINE t == [st EXCEPT !.pending = @ \ {r}]
    <3>1. t \in BrokerState /\ t.users = st.users /\ t.client = st.client
          /\ t.closing = st.closing /\ t.close = st.close
      BY <1>1 DEF BrokerState
    <3>2. req' = req /\ st' \in {st, Finalize(t)}
      BY <2>4 DEF AttemptSettles
    <3> HIDE DEF t
    <3>3. Stable(t, Finalize(t))
      BY <3>1, FinalizeEffect
    <3>4. Leaves(st, {})
      BY <3>1, <3>2, <3>3 DEF Leaves, Stable
    <3> QED
      BY <1>3, <2>1, <3>4
  <2>5. CASE AttemptConnects(r)
    BY <1>1, <2>3, <2>5 DEF AttemptConnects, ReqState
  <2>6. CASE AttemptWait(r)
    BY <1>1, <2>2, <2>3, <2>6 DEF AttemptWait, ReqState
  <2> QED
    BY <1>4, <2>4, <2>5, <2>6
<1>5. CASE AttemptCheck(r)
  <2> DEFINE c == st.client
             s1 == [st EXCEPT !.client = None, !.unavailable = TRUE]
             s2 == [s1 EXCEPT !.retired = @ \cup {c}, !.teardown = TRUE]
  <2>1. made' = made /\ c \in Clients \cup {None}
    BY <1>1, <1>5 DEF AttemptCheck, Rest, BrokerState
  <2>2. s1 \in BrokerState /\ s1.users = st.users /\ s1.client = None
        /\ s1.closing = st.closing /\ s1.close = st.close
    BY <1>1 DEF BrokerState
  <2>3. s2.users = st.users /\ s2.client = None /\ s2.closing = st.closing
        /\ s2.close = st.close
    BY <1>1 DEF BrokerState
  <2> HIDE DEF s1, s2
  <2>4. CASE AttemptError(r, st)
    BY <1>1, <1>3, <2>1, <2>4, ErrorLeaves
  <2>5. CASE st' \in {st, s2} /\ req' = [req EXCEPT ![r].att = "decide"]
    <3>1. Leaves(st', {})
      BY <1>1, <2>5 DEF Leaves, ReqState
    <3> QED
      BY <1>3, <2>1, <2>3, <2>5, <3>1
  <2>6. CASE c # None /\ ~Leased(c) /\ Closing("check", r, c, None, s1)
    <3>1. Leaves(s1, {c} \ {None})
      BY <2>1, <2>2, <2>6, ClosingLeaves
    <3>2. st.users[c] = {}
      BY <2>6 DEF Leased
    <3> QED
      BY <1>3, <2>1, <2>2, <3>1, <3>2
  <2> QED
    BY <1>5, <2>4, <2>5, <2>6 DEF AttemptCheck, s1, s2
<1>6. CASE AttemptDecide(r)
  <2>1. /\ st'.users = st.users /\ st'.client = st.client /\ st'.closing = st.closing
        /\ st'.close = st.close
        /\ made'.client = made.client
        /\ \A x \in Requests : \/ req'[x].cand = req[x].cand
                               \/ req'[x].cand = st.client /\ st.client # None
    <3>1. CASE AttemptError(r, st) /\ made' = made
      <4>1. Leaves(st, {})
        BY <1>1, <3>1, ErrorLeaves
      <4>2. Stable(st, st')
        BY <1>1, <3>1, DropEffect DEF AttemptError
      <4> QED
        BY <3>1, <4>1, <4>2 DEF Leaves, Stable
    <3>2. CASE /\ req' = [req EXCEPT ![r].att = "ok", ![r].cand = st.client]
               /\ UNCHANGED <<st, made>> /\ st.client \in open
      <4>1. st.client # None
        BY <1>1, <3>2, LaneAssumption
      <4> QED
        BY <1>1, <3>2, <4>1 DEF ReqState
    <3>3. CASE /\ \E a, g : req' = [req EXCEPT ![r].att = a, ![r].gen = g]
               /\ st' = st \/ \E g : st' = [st EXCEPT !.startup = g]
               /\ made' = made \/ \E g : made' = [made EXCEPT !.gen = g]
      BY <1>1, <3>3 DEF ReqState, BrokerState, Counts
    <3>4. \/ AttemptError(r, st) /\ made' = made
          \/ /\ req' = [req EXCEPT ![r].att = "ok", ![r].cand = st.client]
             /\ UNCHANGED <<st, made>> /\ st.client \in open
          \/ /\ \/ req' = [req EXCEPT ![r].att = "deferred", ![r].gen = None]
                \/ req' = [req EXCEPT ![r].att = "joined", ![r].gen = st.startup]
             /\ UNCHANGED <<st, made>>
          \/ /\ made' = [made EXCEPT !.gen = made.gen + 1]
             /\ st' = [st EXCEPT !.startup = made.gen + 1]
             /\ req' = [req EXCEPT ![r].att = "joined", ![r].gen = made.gen + 1]
      BY <1>6 DEF AttemptDecide
    <3> QED
      BY <3>1, <3>2, <3>3, <3>4
  <2> QED
    BY <2>1 DEF UsersInv, Spared, Active
<1>7. CASE AttemptLeaves(r)
  <2> DEFINE g == req[r].gen
             u == Cancel(st, g)
  <2>1. g \in Gens
    BY <1>1, <1>7 DEF AttemptLeaves, JoinInv, ReqState
  <2>2. u \in BrokerState /\ u.users = st.users /\ u.client = st.client
        /\ u.closing = st.closing /\ u.close = st.close
    BY <1>1, <2>1, CancelEffect, Nones DEF GenState
  <2> HIDE DEF u
  <2>3. made' = made /\ (AttemptError(r, st) \/ AttemptError(r, u))
    BY <1>7 DEF AttemptLeaves, u
  <2> QED
    BY <1>1, <1>3, <2>2, <2>3, ErrorLeaves
<1> QED
  BY <1>4, <1>5, <1>6, <1>7 DEF Attempt

\* A request closes a client when it was the last to use it, or nobody did; only a
\* request that finds the broker disabled closes what others use.
LEMMA CloserSpares ==
    ASSUME TypeOK, TypeOK', StageInv, FenceInv, UsersInv, NEW r \in Requests,
           Adopt(r) \/ ReleaseLease(r) \/ Cleanup(r)
    PROVE  UsersInv' /\ (enabled => Spared)
<1>1. st \in BrokerState /\ req \in [Requests -> ReqState] /\ None \notin alive
  BY TypeParts, Nones
<1>2. made' = made /\ Head(queue) \in {<<"adopt", r>>, <<"unlease", r>>, <<"cleanup", r>>}
      /\ queue # <<>>
  BY DEF Adopt, ReleaseLease, Cleanup, Rest, Turn
<1>3. \A o : Head(queue) = <<o, r>> => In(queue, {o}, r)
  BY <1>2, TypeParts, TailQ
<1>4. st.close \in {"detach", "closing"} => ~Active(st)
  BY DEF UsersInv
<1>5. ASSUME NEW s, NEW C, Leaves(s, C), \A c \in Clients : s.users[c] \subseteq st.users[c],
             s.client \in {st.client, None}, s.closing = st.closing, s.close = st.close
      PROVE  UsersInv' /\ ((\A c \in C : s.users[c] = {}) => Spared)
  BY <1>2, <1>4, <1>5, LeavesSpares
<1>6. ASSUME NEW s \in BrokerState, NEW q, NEW ok, CleanedUp(r, s, ok, q),
             \A c \in Clients : s.users[c] \subseteq st.users[c],
             s.client \in {st.client, None}, s.closing = st.closing, s.close = st.close
      PROVE  UsersInv' /\ Spared
  BY <1>5, <1>6, CleanedUpLeaves
<1>7. ASSUME NEW op \in {"adopt", "unlease", "cleanup", "late"}, NEW c \in Clients,
             NEW p \in Procs \cup {None}, NEW s \in BrokerState, Closing(op, r, c, p, s),
             \A d \in Clients : s.users[d] \subseteq st.users[d],
             s.client \in {st.client, None}, s.closing = st.closing, s.close = st.close
      PROVE  UsersInv' /\ (s.users[c] = {} => Spared)
  <2>1. Leaves(s, {c} \ {None})
    BY <1>7, ClosingLeaves
  <2> QED
    BY <1>5, <1>7, <2>1
<1>8. CASE Adopt(r)
  <2> DEFINE c == req[r].cand
             s1 == [st EXCEPT !.users[c] = @ \cup {r}, !.unavailable = FALSE, !.closed = @ \ {c},
                              !.pending = @ \ {r}, !.fenced = @ \ {r}]
             s2 == [Finalize(s1) EXCEPT !.publication = IF @ = c THEN None ELSE @]
  <2>1. c \in Clients
    BY <1>3, <1>8, CandType DEF Adopt, Turn
  <2>2. CASE \E e \in {"abort", "fence", "broker"} : Fail(r, st, e, Tail(queue))
    BY <1>1, <1>5, <2>2, FailLeaves
  <2>3. CASE Closing("adopt", r, c, None, [st EXCEPT !.retired = @ \cup {c}]) /\ ~enabled
    <3> DEFINE s == [st EXCEPT !.retired = @ \cup {c}]
    <3>1. /\ s \in BrokerState /\ s.users = st.users /\ s.client = st.client
          /\ s.closing = st.closing /\ s.close = st.close
      BY <1>1, <2>1 DEF BrokerState
    <3> HIDE DEF s
    <3>2. Closing("adopt", r, c, None, s)
      BY <2>3 DEF s
    <3> QED
      BY <1>7, <2>1, <2>3, <3>1, <3>2
  <2>4. CASE st' = s2 /\ ~st.tearing /\ req' = [req EXCEPT ![r].client = c, ![r].adopted = TRUE]
    <3>1. /\ s1 \in BrokerState /\ s1.client = st.client /\ s1.closing = st.closing
          /\ s1.close = st.close /\ \A d \in Clients : d # c => s1.users[d] = st.users[d]
      BY <1>1, <2>1 DEF BrokerState
    <3> HIDE DEF s1
    <3>2. Finalize(s1) \in BrokerState /\ Stable(s1, Finalize(s1))
      BY <3>1, FinalizeEffect
    <3>3. /\ st'.client = s1.client /\ st'.closing = s1.closing /\ st'.close = s1.close
          /\ st'.users = s1.users
      BY <2>4, <3>2 DEF BrokerState, Stable
    <3>4. \A x \in Requests : req'[x].cand = req[x].cand
      BY <1>1, <2>4 DEF ReqState
    <3>5. st.close = "none" /\ c <= made.client
      BY <1>1, <2>1, <2>4, LaneAssumption DEF FenceInv, UsersInv
    <3> QED
      BY <1>2, <3>1, <3>3, <3>4, <3>5 DEF UsersInv, Spared
  <2> QED
    BY <1>8, <2>2, <2>3, <2>4 DEF Adopt
<1>9. CASE ReleaseLease(r)
  <2> DEFINE c == req[r].client
             s1 == [st EXCEPT !.users[c] = @ \ {r}]
             s2 == [s1 EXCEPT !.retired = @ \ {c}, !.client = IF @ = c THEN None ELSE @]
  <2>1. c \in Clients
    BY <1>3, <1>9, CandType DEF ReleaseLease, Turn
  <2>2. /\ s1 \in BrokerState /\ \A d \in Clients : s1.users[d] \subseteq st.users[d]
        /\ s1.client = st.client /\ s1.closing = st.closing /\ s1.close = st.close
    BY <1>1, <2>1 DEF BrokerState
  <2> HIDE DEF s1
  <2>3. /\ s2 \in BrokerState /\ s2.users = s1.users /\ s2.client \in {st.client, None}
        /\ s2.closing = st.closing /\ s2.close = st.close
    BY <2>2 DEF BrokerState
  <2>4. /\ st.deferred \in Procs \cup {None} /\ Child(st) \in Procs \cup {None}
        /\ Detach(s1) \in BrokerState /\ Detach(s1).users = s1.users
        /\ Detach(s1).client = None /\ Detach(s1).closing = s1.closing
        /\ Detach(s1).close = s1.close
    BY <1>1, <2>2, DetachEffect DEF BrokerState
  <2> HIDE DEF s2
  <2>5. CASE s1.users[c] = {} /\ Closing("unlease", r, c, st.deferred, s2)
    BY <1>7, <2>1, <2>2, <2>3, <2>4, <2>5
  <2>6. CASE s1.users[c] = {} /\ Closing("unlease", r, c, Child(st), Detach(s1))
    <3> DEFINE s == Detach(s1)
    <3> HIDE DEF s
    <3>1. Closing("unlease", r, c, Child(st), s) /\ s \in BrokerState /\ s.users = s1.users
          /\ s.client = None /\ s.closing = st.closing /\ s.close = st.close
      BY <2>2, <2>4, <2>6 DEF s
    <3> QED
      BY <1>7, <2>1, <2>2, <2>4, <2>6, <3>1
  <2>7. CASE Continue("unlease", r, None, None, s1, Tail(queue))
    BY <1>5, <2>2, <2>7, ContinueLeaves
  <2> QED
    BY <1>9, <2>5, <2>6, <2>7 DEF ReleaseLease, s1, s2
<1>10. CASE Cleanup(r)
  <2> DEFINE c == req[r].client
             cand == req[r].cand
             s1 == [st EXCEPT !.users[c] = @ \ {r}]
             s2 == CloseLate(s1, c)
             s3 == [s2 EXCEPT !.retired = @ \ {c}, !.deferred = None]
  <2>1. c \in Clients \cup {None} /\ (Unowned(r) => cand \in Clients)
    BY CandType
  <2>2. /\ s1 \in BrokerState /\ \A d \in Clients : s1.users[d] \subseteq st.users[d]
        /\ s1.client = st.client /\ s1.closing = st.closing /\ s1.close = st.close
    <3>1. s1 = Drop(st, c, r)
      BY DEF Drop
    <3> HIDE DEF s1
    <3> QED
      BY <1>1, <3>1, DropUserEffect
  <2> HIDE DEF s1
  <2>3. c # None => /\ s2 \in BrokerState /\ s2.users = s1.users
                    /\ s2.client = st.client /\ s2.closing = st.closing /\ s2.close = st.close
    BY <2>1, <2>2 DEF CloseLate, BrokerState
  <2> HIDE DEF s2
  <2>4. c # None => /\ s3 \in BrokerState /\ s3.users = s1.users
                    /\ s3.client = st.client /\ s3.closing = st.closing /\ s3.close = st.close
    BY <2>3 DEF BrokerState
  <2> HIDE DEF s3
  <2>5. /\ st.deferred \in Procs \cup {None} /\ Child(st) \in Procs \cup {None}
    BY <1>1, DetachEffect DEF BrokerState
  <2>6. CASE CleanedUp(r, s1, FALSE, Tail(queue))
    BY <1>6, <2>2, <2>6
  <2>7. CASE c # None /\ s1.users[c] = {} /\ Closing("cleanup", r, c, Child(st), Detach(s2))
    <3> DEFINE s == Detach(s2)
    <3>1. /\ s \in BrokerState /\ s.users = s1.users
          /\ s.client = None /\ s.closing = st.closing /\ s.close = st.close
      BY <1>1, <2>3, <2>7, DetachEffect
    <3> HIDE DEF s
    <3>2. Closing("cleanup", r, c, Child(st), s)
      BY <2>7 DEF s
    <3> QED
      BY <1>7, <2>1, <2>2, <2>5, <2>7, <3>1, <3>2
  <2>8. CASE c # None /\ s1.users[c] = {} /\ Closing("cleanup", r, c, st.deferred, s3)
    BY <1>7, <2>1, <2>2, <2>4, <2>5, <2>8
  <2>9. CASE CleanedUp(r, st, TRUE, Tail(queue))
    BY <1>1, <1>6, <2>9
  <2>10. CASE CleanedUp(r, DropMarkers(st, {r}), TRUE, Tail(queue))
    <3> DEFINE s == DropMarkers(st, {r})
    <3>1. s \in BrokerState /\ Stable(st, s)
      BY <1>1, DropEffect
    <3> HIDE DEF s
    <3>2. CleanedUp(r, s, TRUE, Tail(queue))
      BY <2>10 DEF s
    <3> QED
      BY <1>6, <3>1, <3>2 DEF Stable
  <2>11. CASE Unowned(r) /\ ~Shared(r) /\ Closing("late", r, cand, None, CloseLate(st, cand))
    <3> DEFINE s == CloseLate(st, cand)
    <3>1. /\ s \in BrokerState /\ s.users = st.users /\ s.client = st.client
          /\ s.closing = st.closing /\ s.close = st.close
      BY <1>1, <2>1, <2>11 DEF CloseLate, BrokerState
    <3> HIDE DEF s
    <3>2. Closing("late", r, cand, None, s) /\ st.users[cand] = {}
      BY <2>11 DEF s, Shared, Leased
    <3> QED
      BY <1>7, <2>1, <2>11, <3>1, <3>2
  <2> QED
    BY <1>10, <2>6, <2>7, <2>8, <2>9, <2>10, <2>11 DEF Cleanup, s1, s2, s3
<1> QED
  BY <1>8, <1>9, <1>10

\* A connector that comes too late brings a client nobody uses yet.
LEMMA StartupSpares ==
    ASSUME TypeOK, TypeOK', UsersInv, NEW g \in Gens,
           StartupConnect(g) \/ StartupRefused(g) \/ StartupSpawn(g) \/ StartupFail(g)
    PROVE  UsersInv' /\ Spared
<1>1. /\ st \in BrokerState /\ req \in [Requests -> ReqState] /\ gen \in [Gens -> GenState]
      /\ made \in Counts /\ None \notin alive
  BY TypeParts, Nones
<1>2. st.close \in {"detach", "closing"} => ~Active(st)
  BY DEF UsersInv
<1>3. CASE StartupConnect(g)
  <2> DEFINE c == made.client + 1
  <2>1. c \in Clients /\ made' = [made EXCEPT !.client = c]
    BY <1>3 DEF StartupConnect
  <2>2. made'.client = c /\ made.client \in Nat /\ Clients \subseteq Nat
    BY <1>1, <2>1, LaneAssumption DEF Counts
  <2>3. /\ st'.users = st.users /\ st'.close = st.close
        /\ st'.closing \subseteq st.closing \cup {c} /\ st'.client \in {st.client, c}
        /\ \A r \in Requests : req'[r].cand \in {req[r].cand, c}
    <3>1. CASE /\ st' = [st EXCEPT !.retired = @ \cup {c}, !.closing = @ \cup {c}]
               /\ req' = req
      BY <1>1, <3>1 DEF BrokerState
    <3>2. CASE /\ st' = [st EXCEPT !.client = c, !.publication = c, !.startup = None]
               /\ req' = [r \in Requests |-> IF r \in Joined(g)
                            THEN [req[r] EXCEPT !.att = "ok", !.cand = c] ELSE req[r]]
      BY <1>1, <3>2 DEF BrokerState, ReqState
    <3> QED
      BY <1>3, <3>1, <3>2 DEF StartupConnect
  <2>4. st.users[c] = {}
    BY <2>1, <2>2 DEF UsersInv
  <2>5. Active(st') => Active(st)
    BY <2>3 DEF Active
  <2> QED
    BY <1>1, <2>1, <2>2, <2>3, <2>4, <2>5 DEF UsersInv, Spared, BrokerState, ReqState
<1>4. CASE StartupRefused(g) \/ StartupSpawn(g)
  <2>1. /\ st'.users = st.users /\ st'.close = st.close /\ st'.closing = st.closing
        /\ st'.client = st.client /\ req' = req /\ made'.client = made.client
    BY <1>1, <1>4 DEF StartupRefused, StartupSpawn, BrokerState, Counts
  <2>2. Active(st') => Active(st)
    BY <2>1 DEF Active
  <2> QED
    BY <2>1, <2>2 DEF UsersInv, Spared
<1>5. CASE StartupFail(g)
  <2> DEFINE s == [st EXCEPT !.startup = IF @ = g THEN None ELSE @]
             t == TerminateOwn(s, g)
  <2>1. /\ s \in BrokerState /\ s.users = st.users /\ s.close = st.close
        /\ s.closing = st.closing /\ s.client = st.client
    BY <1>1 DEF BrokerState
  <2> HIDE DEF s
  <2>2. /\ t \in BrokerState /\ t.users = st.users /\ t.close = st.close
        /\ t.closing = st.closing /\ t.client = st.client
    BY <1>1, <2>1, TerminateEffect DEF GenState
  <2> HIDE DEF t
  <2>3. st' \in {t, DropMarkers(t, Joined(g))} /\ made' = made
    BY <1>5 DEF StartupFail, s, t
  <2>4. Stable(t, DropMarkers(t, Joined(g)))
    BY <2>2, DropEffect
  <2>5. \A r \in Requests : req'[r].cand = req[r].cand
    BY <1>1, <1>5 DEF StartupFail, ReqState
  <2>6. Leaves(t, {})
    BY <2>3, <2>4, <2>5 DEF Leaves, Stable
  <2> QED
    BY <1>2, <2>2, <2>3, <2>6, LeavesSpares
<1> QED
  BY <1>3, <1>4, <1>5

\* Events close a client that nobody uses, or leave it to its users.
LEMMA EventSpares ==
    ASSUME TypeOK, TypeOK', UsersInv,
           \/ \E p \in Procs : ProcExit(p) \/ ProcEvent(p)
           \/ \E c \in Clients : \/ PublicationTimer(c) \/ Unadopted(c) \/ CloseSettles(c)
                                 \/ Disconnect(c)
           \/ HoldEnds \/ Toggle \/ UNCHANGED vars
    PROVE  UsersInv' /\ Spared
<1>1. st \in BrokerState /\ req \in [Requests -> ReqState] /\ None \notin alive
      /\ hold \in Holding \cup {None}
  BY TypeParts, Nones
<1>2. st.close \in {"detach", "closing"} => ~Active(st)
  BY DEF UsersInv
<1>3. made' = made
  BY DEF ProcExit, ProcEvent, PublicationTimer, Unadopted, CloseSettles, Disconnect, HoldEnds,
         Toggle, vars, Rest
<1>4. ASSUME NEW s, NEW C, Leaves(s, C), s.users = st.users,
             s.client \in {st.client, None}, s.closing = st.closing, s.close = st.close,
             \A c \in C : s.users[c] = {}
      PROVE  UsersInv' /\ Spared
  BY <1>2, <1>3, <1>4, LeavesSpares
<1>5. ASSUME Stable(st, st') \/ st' = st, req' = req PROVE UsersInv' /\ Spared
  <2>1. Leaves(st, {})
    BY <1>5 DEF Leaves, Stable
  <2> QED
    BY <1>4, <2>1
<1>6. ASSUME NEW p \in Procs, ProcExit(p) PROVE UsersInv' /\ Spared
  <2> DEFINE s == [st EXCEPT !.deferred = None]
  <2>1. s \in BrokerState /\ Stable(st, s)
    BY <1>1 DEF BrokerState, Stable
  <2> HIDE DEF s
  <2>2. Stable(s, Finalize(s))
    BY <2>1, FinalizeEffect
  <2>3. st' \in {st, Finalize(s)} /\ req' = req
    BY <1>6 DEF ProcExit, s
  <2>4. Stable(st, Finalize(s))
    BY <2>1, <2>2 DEF Stable
  <2> QED
    BY <1>5, <2>3, <2>4
<1>7. ASSUME NEW p \in Procs, ProcEvent(p) PROVE UsersInv' /\ Spared
  <2> DEFINE c == st.client
             s1 == [st EXCEPT !.process = None, !.unavailable = TRUE]
             s2 == [s1 EXCEPT !.retired = @ \cup {c}, !.teardown = TRUE]
             s == Detach(s1)
  <2>1. /\ s1 \in BrokerState /\ s1.users = st.users /\ s1.client = st.client
        /\ s1.closing = st.closing /\ s1.close = st.close /\ s1.deferred = st.deferred
        /\ s2.users = st.users /\ s2.client = st.client
        /\ s2.closing = st.closing /\ s2.close = st.close
        /\ c \in Clients \cup {None} /\ st.deferred \in Procs \cup {None}
    BY <1>1 DEF BrokerState
  <2> HIDE DEF s1, s2
  <2>2. /\ s \in BrokerState /\ s.users = st.users /\ s.client = None
        /\ s.closing = st.closing /\ s.close = st.close
    BY <1>1, <2>1, DetachEffect
  <2> HIDE DEF s
  <2>3. CASE st' \in {st, s2} /\ req' = req
    <3>1. Leaves(st', {})
      BY <2>3 DEF Leaves
    <3> QED
      BY <1>4, <2>1, <2>3, <3>1
  <2>4. CASE (c # None => ~Leased(c)) /\ Closing("exit", None, c, s1.deferred, s)
    <3>1. Leaves(s, {c} \ {None})
      BY <2>1, <2>2, <2>4, ClosingLeaves
    <3>2. \A d \in {c} \ {None} : s.users[d] = {}
      BY <2>2, <2>4 DEF Leased
    <3> QED
      BY <1>4, <2>2, <3>1, <3>2
  <2> QED
    BY <1>7, <2>3, <2>4 DEF ProcEvent, s1, s2, s
<1>8. ASSUME NEW c \in Clients, Unadopted(c) PROVE UsersInv' /\ Spared
  <2> DEFINE s1 == [st EXCEPT !.publication = None]
             s == Detach(s1)
  <2>1. /\ s1 \in BrokerState /\ s1.users = st.users
        /\ s1.closing = st.closing /\ s1.close = st.close
    BY <1>1 DEF BrokerState
  <2> HIDE DEF s1
  <2>2. /\ s \in BrokerState /\ s.users = st.users /\ s.client = None
        /\ s.closing = st.closing /\ s.close = st.close
    BY <1>1, <2>1, DetachEffect
  <2>3. Child(st) \in Procs \cup {None}
    BY <1>1, DetachEffect
  <2> HIDE DEF s
  <2>4. CASE ~Leased(c) /\ Closing("unadopted", None, c, Child(st), s)
    <3>1. Leaves(s, {c} \ {None})
      BY <2>2, <2>3, <2>4, ClosingLeaves
    <3>2. \A d \in {c} \ {None} : s.users[d] = {}
      BY <2>2, <2>4 DEF Leased
    <3> QED
      BY <1>4, <2>2, <3>1, <3>2
  <2> QED
    BY <1>5, <1>8, <2>4 DEF Unadopted, s, s1
<1>9. ASSUME NEW c \in Clients, CloseSettles(c) PROVE UsersInv' /\ Spared
  <2> DEFINE mine == {r \in Requests : req[r].closeStarted /\ req[r].cand = c}
             s0 == [st EXCEPT !.closing = @ \ {c}]
             s1 == IF hold # None /\ hold.c = c THEN RetainDeferred(s0, hold.p) ELSE s0
             good == [s1 EXCEPT !.closed = @ \cup {c}, !.retired = @ \ {c}, !.failed = @ \ {c}]
             bad == Failed(s1, c)
  <2>1. /\ s0 \in BrokerState /\ s0.users = st.users /\ s0.client = st.client
        /\ s0.closing \subseteq st.closing /\ s0.close = st.close
    BY <1>1 DEF BrokerState
  <2> HIDE DEF s0
  <2>2. hold # None => hold.p \in Procs \cup {None}
    BY <1>1 DEF Holding
  <2>3. s1 \in BrokerState /\ Stable(s0, s1)
    <3>1. Stable(s0, s0)
      BY DEF Stable
    <3> QED
      BY <1>1, <2>1, <2>2, <3>1, RetainEffect
  <2> HIDE DEF s1
  <2>4. /\ good \in BrokerState /\ good.users = s1.users /\ good.client = s1.client
        /\ good.closing = s1.closing /\ good.close = s1.close
    BY <2>3 DEF BrokerState
  <2>5. /\ bad \in BrokerState /\ bad.users = s1.users /\ bad.client = s1.client
        /\ bad.closing = s1.closing /\ bad.close = s1.close
    BY <2>3, FailedEffect
  <2> HIDE DEF good, bad
  <2>6. Stable(good, DropMarkers(good, mine)) /\ Stable(bad, DropMarkers(bad, mine))
    BY <2>4, <2>5, DropEffect
  <2>7. st' \in {DropMarkers(good, mine), DropMarkers(bad, mine)} /\ req' = req
    BY <1>9 DEF CloseSettles, s0, s1, good, bad, mine
  <2>8. /\ st'.users = st.users /\ st'.client = st.client /\ st'.closing \subseteq st.closing
        /\ st'.close = st.close
    BY <2>1, <2>3, <2>4, <2>5, <2>6, <2>7 DEF Stable
  <2>9. Leaves(st, {})
    BY <2>7, <2>8 DEF Leaves
  <2> QED
    BY <1>4, <2>9
<1>10. CASE HoldEnds
  <2>1. Continue(hold.op, hold.r, hold.c, hold.p, st, queue) /\ hold \in Holding
    BY <1>1, <1>10 DEF HoldEnds, HoldReady
  <2>2. /\ hold.c \in Clients \cup {None} /\ hold.p \in Procs \cup {None}
        /\ hold.op \in {"check", "adopt", "cleanup", "late", "unlease"} => hold.r \in Requests
    BY <2>1 DEF Holding
  <2>3. Leaves(st, {})
    BY <1>1, <2>1, <2>2, ContinueLeaves
  <2> QED
    BY <1>4, <2>3
<1>11. CASE \/ \E c \in Clients : PublicationTimer(c) \/ Disconnect(c)
            \/ Toggle \/ UNCHANGED vars
  BY <1>5, <1>11 DEF PublicationTimer, Disconnect, Toggle, vars
<1> QED
  BY <1>6, <1>7, <1>8, <1>9, <1>10, <1>11

\* The global close takes a client away when it has waited for all users.
LEMMA CloseSpares ==
    ASSUME TypeOK, TypeOK', FenceInv, UsersInv, ClosePrepare \/ CloseDrains \/ CloseEnds
    PROVE  UsersInv' /\ Spared
<1>1. st \in BrokerState /\ req \in [Requests -> ReqState] /\ None \notin alive
  BY TypeParts, Nones
<1>2. made' = made
  BY DEF ClosePrepare, CloseDrains, CloseEnds, Others
<1>3. CASE ClosePrepare
  <2>1. /\ st'.users = st.users /\ st'.client = st.client /\ st'.closing = st.closing
        /\ st'.close = "reserve" /\ req' = req
    BY <1>3, PrepareEffect DEF ClosePrepare
  <2> QED
    BY <1>2, <2>1 DEF UsersInv, Spared
<1>4. CASE CloseDrains
  <2>1. req' = req
    BY <1>4 DEF CloseDrains
  <2>2. CASE \/ st' = [st EXCEPT !.close = "users"]
             \/ st' = [st EXCEPT !.close = "detach"] /\ ~Active(st)
    <3>1. /\ st'.users = st.users /\ st'.client = st.client /\ st'.closing = st.closing
          /\ st'.close = "users" \/ (st'.close = "detach" /\ ~Active(st))
      BY <1>1, <2>2 DEF BrokerState
    <3> QED
      BY <1>2, <2>1, <3>1 DEF UsersInv, Spared, Active
  <2>3. CASE Turn("detach", None)
    <3> DEFINE gone == {c \in st.retired \cup ({st.client} \ {None}) :
                           c = st.client \/ st.users[c] = {}}
               t == Detach(st)
    <3>1. st.close = "detach"
      <4>1. queue # <<>> /\ Head(queue) = <<"detach", None>>
        BY <2>3 DEF Turn
      <4>2. In(queue, {"detach"}, None)
        BY <4>1, TypeParts, TailQ DEF In
      <4> QED
        BY <4>2 DEF FenceInv
    <3>2. ~Active(st) /\ gone \subseteq Clients
      BY <1>1, <3>1 DEF UsersInv, BrokerState
    <3>3. t \in BrokerState /\ t.users = st.users /\ t.client = None /\ t.closing = st.closing
      BY <1>1, DetachEffect
    <3> HIDE DEF t, gone
    <3>4. st' = [t EXCEPT !.retired = @ \ gone, !.closing = @ \cup (gone \ st.closed),
                          !.failed = @ \ (gone \cap st.closed),
                          !.close = "closing", !.targets = gone]
      BY <1>4, <2>3, <3>1 DEF CloseDrains, t, gone
    <3>5. /\ st'.users = st.users /\ st'.client = None /\ st'.close = "closing"
          /\ st'.closing \subseteq st.closing \cup gone
      BY <3>3, <3>4 DEF BrokerState
    <3>6. ~Active(st')
      BY <3>2, <3>5 DEF Active
    <3> QED
      BY <1>2, <2>1, <3>2, <3>5, <3>6 DEF UsersInv, Spared, Active
  <2> QED
    BY <1>4, <2>2, <2>3 DEF CloseDrains
<1>5. CASE CloseEnds
  <2> DEFINE late == st.targets \cap st.closing
             s1 == [st EXCEPT !.close = "none", !.targets = {}, !.failed = @ \cup late,
                              !.retired = @ \cup late, !.teardown = @ \/ late # {}]
  <2>1. /\ s1 \in BrokerState /\ s1.users = st.users /\ s1.client = st.client
        /\ s1.closing = st.closing /\ s1.close = "none"
    BY <1>1 DEF BrokerState
  <2> HIDE DEF s1
  <2>2. st' \in {Finalize(s1), MaybeFinish(s1)}
    BY <1>5 DEF CloseEnds, s1, late
  <2>3. Stable(s1, st')
    BY <2>1, <2>2, FinalizeEffect, MaybeFinishEffect
  <2>4. \A r \in Requests : req'[r].cand = req[r].cand
    BY <1>1, <1>5 DEF CloseEnds, ReqState
  <2> QED
    BY <1>2, <2>1, <2>3, <2>4 DEF UsersInv, Spared, Stable
<1> QED
  BY <1>3, <1>4, <1>5

LEMMA UsersStep == Inv /\ UsersInv /\ [Next]_vars => UsersInv' /\ (enabled => Spared)
<1> SUFFICES ASSUME Inv, UsersInv, [Next]_vars PROVE UsersInv' /\ (enabled => Spared)
  OBVIOUS
<1>1. TypeOK /\ TypeOK' /\ StageInv /\ JoinInv /\ FenceInv
  BY InvStep DEF Inv
<1>2. ASSUME NEW r \in Requests, Request(r) PROVE UsersInv' /\ (enabled => Spared)
  BY <1>1, <1>2, RequestSpares, CloserSpares DEF Request
<1>3. ASSUME NEW r \in Requests, Attempt(r) PROVE UsersInv' /\ Spared
  BY <1>1, <1>3, AttemptSpares
<1>4. ASSUME NEW g \in Gens,
             StartupConnect(g) \/ StartupRefused(g) \/ StartupSpawn(g) \/ StartupFail(g)
      PROVE  UsersInv' /\ Spared
  BY <1>1, <1>4, StartupSpares
<1>5. CASE \/ \E p \in Procs : ProcExit(p) \/ ProcEvent(p)
           \/ \E c \in Clients : \/ PublicationTimer(c) \/ Unadopted(c) \/ CloseSettles(c)
                                 \/ Disconnect(c)
           \/ HoldEnds \/ Toggle \/ UNCHANGED vars
  BY <1>1, <1>5, EventSpares
<1>6. CASE ClosePrepare \/ CloseDrains \/ CloseEnds
  BY <1>1, <1>6, CloseSpares
<1> QED
  BY <1>2, <1>3, <1>4, <1>5, <1>6 DEF Next

\* While the broker is enabled, close() is never sent to a client that a request uses:
\* not by a lost socket, an exit, a late connector, the last of several users or the
\* global close (withBrokerLifecycle() and its callers, google-ai.ts).
THEOREM EnabledProtectsUsers == Spec => EnabledSparesUsers
<1>1. Init => Inv /\ UsersInv
  BY InitInv DEF Init, UsersInv, Active
<1>2. Inv /\ UsersInv /\ [Next]_vars => Inv' /\ UsersInv'
  BY InvStep, UsersStep
<1>3. Inv /\ UsersInv /\ [Next]_vars =>
          [\A c \in st'.closing \ st.closing : enabled => st'.users[c] = {}]_vars
  BY UsersStep DEF Spared
<1> QED
  BY <1>1, <1>2, <1>3, PTL DEF Spec, EnabledSparesUsers
=============================================================================
