----------------------------- MODULE GoogleLane -----------------------------
(* How one agent process uses the Google broker (src/google-ai.ts): searches  *)
(* share one broker client, start the broker's child process when nobody      *)
(* serves, and fall back to the legacy search when the broker fails. Flags    *)
(* and a lifecycle queue keep acquisition, teardown, the global close of a    *)
(* disabled broker and the legacy search apart.                               *)
(*                                                                            *)
(* One profile, the one production uses, and the managed broker. The process  *)
(* is one JavaScript thread: an event from outside is handled when no         *)
(* continuation is ready (Idle). An operation of the lifecycle queue is one   *)
(* action, or two when it waits for a client's close() and holds the queue.   *)
EXTENDS Naturals, FiniteSets, Sequences

CONSTANTS
    Requests,       \* calls of googleSearch()
    Clients,        \* connected broker clients, 1..n in the order of creation
    Procs,          \* broker children this process spawns, 1..n
    Gens,           \* startup generations, 1..n
    MaxToggles,     \* changes of PI_WEBAIO_CDP_BROKER while the process runs
    None

ASSUME LaneAssumption ==
    /\ \A S \in {Clients, Procs, Gens} : S \subseteq Nat \ {0}
    /\ MaxToggles \in Nat
    /\ None \notin Requests \cup Clients \cup Procs \cup Gens

VARIABLES
    st,         \* BrokerState of the profile and the flags of the module
    req,        \* per request: pc, error, lease, and its connect attempt
    gen,        \* per startup generation: pc, cancelled, its child
    queue,      \* the lifecycle queue: <<operation, its subject>>
    hold,       \* the operation that waits for a close() at the head of the queue
    alive,      \* children that have not exited
    open,       \* clients whose socket is connected
    timers,     \* the zero timers of published clients
    made,       \* how many clients, children and generations there have been
    toggles     \* changes of the environment variable so far

vars == <<st, req, gen, queue, hold, alive, open, timers, made, toggles>>

\* What the lifecycle queue runs, and what waits at its head for a close() of the
\* client c and for the exit of the child p.
Operation ==
    {"reserve", "gate", "adopt", "unreserve", "unlease", "cleanup", "legacy", "check",
     "settle", "lift", "exit", "unadopted", "prepare", "detach"}
        \X (Requests \cup Clients \cup Procs \cup {None})

Holding ==
    [op : {"check", "adopt", "cleanup", "late", "unlease"}, r : Requests,
     c : Clients \cup {None}, p : Procs \cup {None}]
    \cup [op : {"exit", "unadopted"}, r : {None},
          c : Clients \cup {None}, p : Procs \cup {None}]

ASSUME HoldingAssumption == None \notin Holding

enabled == toggles % 2 = 0

-----------------------------------------------------------------------------
(* The state and what its functions do to it.                                *)

BrokerState ==
    [client : Clients \cup {None}, process : Procs \cup {None},
     deferred : Procs \cup {None}, startup : Gens \cup {None},
     publication : Clients \cup {None},
     unavailable : BOOLEAN, teardown : BOOLEAN, tearing : BOOLEAN,
     retired : SUBSET Clients, failed : SUBSET Clients,
     closing : SUBSET Clients, closed : SUBSET Clients,
     users : [Clients -> SUBSET Requests],
     pending : SUBSET Requests, fenced : SUBSET Requests,
     reserved : SUBSET Requests, fallback : Requests \cup {None},
     close : {"none", "prepare", "reserve", "users", "detach", "closing"},
     targets : SUBSET Clients]

Active(s) == \E c \in Clients : s.users[c] # {}

\* Mutant: a client that lost its socket counts as unused.
Leased_Open(c) == st.users[c] # {} /\ c \in open

Leased(c) == st.users[c] # {}

Quarantined(s) == s.retired \cup s.failed \cup s.closing

Unresolved(s) ==
    \/ Active(s)
    \/ \E x \in {s.client, s.process, s.deferred, s.startup, s.publication} : x # None
    \/ Quarantined(s) # {}
    \/ s.pending \cup s.fenced # {}

\* Mutant: a child of this process does not keep the fallback out.
FallbackBlocked_Child(s) ==
    \/ s.teardown
    \/ Active(s)
    \/ \E x \in {s.startup, s.publication} : x # None
    \/ Quarantined(s) # {}
    \/ s.pending \cup s.fenced # {}
    \/ s.client # None /\ s.unavailable

FallbackBlocked(s) ==
    \/ s.teardown
    \/ Active(s)
    \/ \E x \in {s.process, s.deferred, s.startup, s.publication} : x # None
    \/ Quarantined(s) # {}
    \/ s.pending \cup s.fenced # {}
    \/ s.client # None /\ s.unavailable

\* What keeps an acquisition out: a teardown whose outcome is open.
AcquireBlocked(s) ==
    /\ Unresolved(s)
    /\ s.teardown \/ Quarantined(s) # {} \/ s.fenced # {}

MaybeFinish(s) ==
    IF s.tearing /\ s.close = "none" /\ s.reserved = {} /\ ~Unresolved(s)
    THEN [s EXCEPT !.tearing = FALSE] ELSE s

Finalize(s) ==
    MaybeFinish(
        IF /\ s.client = None \/ ~s.unavailable
           /\ \A x \in {s.process, s.deferred, s.publication} : x = None
           /\ Quarantined(s) \cup s.pending \cup s.fenced = {}
           /\ ~Active(s)
        THEN [s EXCEPT !.teardown = FALSE] ELSE s)

\* A child that still runs stays on record until it exits.
RetainDeferred(s, p) ==
    IF p \in alive /\ s.deferred = None
    THEN [s EXCEPT !.deferred = p, !.teardown = TRUE] ELSE s

Child(s) == IF s.process # None THEN s.process ELSE s.deferred

Detach(s) ==
    LET p == Child(s)
    IN RetainDeferred([s EXCEPT !.client = None, !.process = None,
                                !.publication = IF @ = s.client THEN None ELSE @,
                                !.unavailable = TRUE,
                                !.teardown = p # None \/ s.client # None], p)

Failed(s, c) ==
    [s EXCEPT !.failed = @ \cup {c}, !.retired = @ \cup {c}, !.teardown = TRUE]

\* Mutant: the fence of the profile is not looked at again.
DropMarkers_Stays(s, R) ==
    [s EXCEPT !.pending = @ \ R, !.fenced = @ \ R]

DropMarkers(s, R) ==
    Finalize([s EXCEPT !.pending = @ \ R, !.fenced = @ \ R])

\* Mutant: the killed child is not kept on record.
TerminateOwn_Forgets(s, g) ==
    IF gen[g].proc # None /\ s.process = gen[g].proc
    THEN [s EXCEPT !.process = None, !.unavailable = TRUE]
    ELSE s

\* The child of a startup that failed or was cancelled is killed, and awaited.
TerminateOwn(s, g) ==
    IF gen[g].proc # None /\ s.process = gen[g].proc
    THEN RetainDeferred([s EXCEPT !.process = None, !.unavailable = TRUE], gen[g].proc)
    ELSE s

Cancel(s, g) ==
    Finalize(TerminateOwn(IF s.startup = g
                          THEN [s EXCEPT !.startup = None, !.unavailable = TRUE] ELSE s, g))

-----------------------------------------------------------------------------
Init ==
    /\ st = [client |-> None, process |-> None, deferred |-> None, startup |-> None,
             publication |-> None, unavailable |-> FALSE, teardown |-> FALSE,
             tearing |-> FALSE, retired |-> {}, failed |-> {}, closing |-> {},
             closed |-> {}, users |-> [c \in Clients |-> {}], pending |-> {},
             fenced |-> {}, reserved |-> {}, fallback |-> None, close |-> "none",
             targets |-> {}]
    /\ req = [r \in Requests |-> [pc |-> "idle", err |-> "none", client |-> None,
                                  att |-> "none", gen |-> None, cand |-> None,
                                  adopted |-> FALSE, closeStarted |-> FALSE]]
    /\ gen = [g \in Gens |-> [pc |-> "none", cancelled |-> FALSE, proc |-> None]]
    /\ queue = <<>> /\ hold = None
    /\ alive = {} /\ open = {} /\ timers = {}
    /\ made = [client |-> 0, proc |-> 0, gen |-> 0]
    /\ toggles = 0

TypeOK ==
    /\ st \in BrokerState
    /\ req \in [Requests -> [pc : {"idle", "waiting", "queued", "chrome", "gated", "connect",
                                   "search", "closeWait", "legacyWait", "legacy",
                                   "done", "failed"},
                             err : {"none", "abort", "fence", "broker"},
                             client : Clients \cup {None},
                             att : {"none", "waiting", "queued", "decide", "deferred",
                                    "joined", "ok", "settled", "err"},
                             gen : Gens \cup {None}, cand : Clients \cup {None},
                             adopted : BOOLEAN, closeStarted : BOOLEAN]]
    /\ gen \in [Gens -> [pc : {"none", "connect", "spawn", "done"}, cancelled : BOOLEAN,
                         proc : Procs \cup {None}]]
    /\ queue \in Seq(Operation) /\ hold \in Holding \cup {None}
    /\ alive \subseteq Procs /\ open \subseteq Clients /\ timers \subseteq Clients
    /\ made \in [client : Nat, proc : Nat, gen : Nat] /\ toggles \in Nat

Clear == ~st.tearing /\ st.fallback = None

\* A continuation that runs before the next event.
Ready(r) ==
    \/ req[r].pc = "gated"
    \/ req[r].pc \in {"waiting", "legacyWait"} /\ Clear
    \/ req[r].pc = "connect" /\ req[r].att = "err"
    \/ req[r].att \in {"decide", "ok"}
    \/ req[r].att = "waiting" /\ (Clear \/ req[r].err # "none")
    \/ req[r].att = "deferred" /\ st.deferred = None
    \/ req[r].att = "joined" /\ req[r].err # "none"

HoldReady == /\ hold # None /\ hold.c \notin st.closing
             /\ hold.p \in alive => st.deferred # hold.p

Idle ==
    /\ queue = <<>> \/ hold # None
    /\ ~HoldReady
    /\ \A r \in Requests : ~Ready(r)

\* The next operation of the queue begins. ensureGoogleBroker() goes on from its
\* check before that: its reaction to the promise of withBrokerLifecycle() runs in
\* the turn that lets the queue go on.
Turn(op, x) ==
    /\ hold = None /\ queue # <<>> /\ Head(queue) = <<op, x>>
    /\ \A r \in Requests : req[r].att # "decide"

Enqueue(op, x) == queue' = Append(queue, <<op, x>>)

InQueue(op, x) == <<op, x>> \in {queue[i] : i \in 1 .. Len(queue)}

Go(r, pc) == req' = [req EXCEPT ![r].pc = pc]

\* The catch of the request: the fence of its connector is raised at once, the
\* cleanup goes to the queue q.
Fail(r, s, e, q) ==
    /\ req' = [req EXCEPT ![r].pc = "queued", ![r].err = e]
    /\ st' = IF ~req[r].adopted /\ req[r].att \notin {"none", "err"}
             THEN [s EXCEPT !.fenced = @ \cup {r}] ELSE s
    /\ queue' = Append(q, <<"cleanup", r>>)

AttemptError(r, s) ==
    /\ st' = DropMarkers(s, {r})
    /\ req' = [req EXCEPT ![r].att = "err"]

Rest == <<gen, alive, open, timers, made, toggles>>

Others == <<gen, hold, alive, open, timers, made, toggles>>

-----------------------------------------------------------------------------
(* Closing a client: closeBrokerClientOnce() and teardownBrokerResources().  *)

\* A client the attempt of r brought that nobody has adopted or closed.
Unowned(r) == req[r].att = "settled" /\ ~req[r].adopted /\ ~req[r].closeStarted

\* The cleanup of r is over: the reservation goes back, or the fallback is next.
CleanedUp(r, s, ok, q) ==
    LET e == IF ok \/ req[r].err = "abort" THEN req[r].err ELSE "fence"
    IN /\ st' = s
       /\ req' = [req EXCEPT ![r].client = None, ![r].err = e,
                             ![r].closeStarted = @ \/ Unowned(r),
                             ![r].pc = IF r \in s.reserved THEN "queued"
                                       ELSE IF e = "broker" THEN "legacyWait" ELSE "failed"]
       /\ queue' = q \o (IF r \in s.reserved THEN <<<<"unreserve", r>>>> ELSE <<>>)

\* What the operation that waited for close() of c does when that has ended well,
\* has failed, or has passed its bound.
Continue(op, r, c, p, s, q) ==
    LET closed == c = None \/ c \in s.closed
        ok == closed /\ p \notin alive
        s0 == RetainDeferred(s, p)
        s1 == IF closed THEN Finalize(s0) ELSE Failed(s0, c)
    IN CASE op = "check" ->
              /\ queue' = q
              /\ IF ok THEN st' = s1 /\ req' = [req EXCEPT ![r].att = "decide"]
                 ELSE AttemptError(r, s1)
         [] op = "adopt" -> Fail(r, s, "abort", q)
         [] op = "cleanup" -> CleanedUp(r, s1, ok, q)
         [] op = "late" -> CleanedUp(r, IF c \in s.closing THEN s1 ELSE DropMarkers(s1, {r}), ok, q)
         [] op = "unlease" -> st' = s1 /\ Go(r, "done") /\ queue' = q
         [] OTHER -> st' = s1 /\ req' = req /\ queue' = q

\* An operation closes c, then awaits the exit of the child p, on the state s. A
\* client that is known to be closed is not closed again; two that close the same
\* client share the close(). p may be off the record until close() has ended.
Closing(op, r, c, p, s) ==
    LET known == c = None \/ c \in s.closed
        s1 == IF known THEN RetainDeferred([s EXCEPT !.retired = @ \ {c}, !.failed = @ \ {c}], p)
              ELSE [s EXCEPT !.closing = @ \cup {c}]
    IN IF known /\ p \notin alive
       THEN Continue(op, r, c, p, s1, Tail(queue)) /\ hold' = None
       ELSE /\ st' = s1 /\ req' = req /\ queue' = Tail(queue)
            /\ hold' = [op |-> op, r |-> r, c |-> c, p |-> p]

HoldEnds ==
    /\ HoldReady \/ (hold # None /\ Idle)
    /\ Continue(hold.op, hold.r, hold.c, hold.p, st, queue)
    /\ hold' = None /\ UNCHANGED Rest

\* close() ends, well or not. The markers of a connector it belongs to go with it.
CloseSettles(c) ==
    /\ Idle /\ c \in st.closing
    /\ LET mine == {r \in Requests : req[r].closeStarted /\ req[r].cand = c}
           s0 == [st EXCEPT !.closing = @ \ {c}]
           s1 == IF hold # None /\ hold.c = c THEN RetainDeferred(s0, hold.p) ELSE s0
           good == [s1 EXCEPT !.closed = @ \cup {c}, !.retired = @ \ {c}, !.failed = @ \ {c}]
       IN st' \in {DropMarkers(good, mine), DropMarkers(Failed(s1, c), mine)}
    /\ UNCHANGED <<req, queue, hold>> /\ UNCHANGED Rest

-----------------------------------------------------------------------------
(* A startup generation: connect, or spawn the broker and connect again.     *)

Joined(g) == {r \in Requests : req[r].att = "joined" /\ req[r].gen = g}

\* The connector hands its client to the profile, unless the profile moved on.
StartupConnect(g) ==
    /\ Idle /\ gen[g].pc = "connect"
    /\ LET c == made.client + 1
           stale == \/ gen[g].cancelled \/ ~enabled \/ st.tearing
                    \/ st.startup # g \/ st.unavailable
       IN /\ c \in Clients
          /\ made' = [made EXCEPT !.client = c]
          /\ open' = open \cup {c}
          /\ \/ /\ stale
                /\ st' = [st EXCEPT !.retired = @ \cup {c}, !.closing = @ \cup {c}]
                /\ gen' = [gen EXCEPT ![g].pc = "spawn"]
                /\ UNCHANGED <<req, timers>>
             \/ /\ ~stale
                /\ st' = [st EXCEPT !.client = c, !.publication = c, !.startup = None]
                /\ gen' = [gen EXCEPT ![g].pc = "done"]
                /\ req' = [r \in Requests |-> IF r \in Joined(g)
                              THEN [req[r] EXCEPT !.att = "ok", !.cand = c] ELSE req[r]]
                /\ timers' = timers \cup {c}
    /\ UNCHANGED <<queue, hold, alive, toggles>>

StartupRefused(g) ==
    /\ Idle /\ gen[g].pc = "connect"
    /\ gen' = [gen EXCEPT ![g].pc = "spawn"]
    /\ UNCHANGED <<st, req, queue, hold, alive, open, timers, made, toggles>>

StartupSpawn(g) ==
    /\ Idle /\ gen[g].pc = "spawn" /\ ~gen[g].cancelled /\ enabled
    /\ st.deferred = None
    /\ \/ /\ st.process \in alive
          /\ gen' = [gen EXCEPT ![g].pc = "connect"]
          /\ UNCHANGED <<st, alive, made>>
       \/ /\ st.process \notin alive /\ st.startup = g
          /\ LET p == made.proc + 1
             IN /\ p \in Procs
                /\ made' = [made EXCEPT !.proc = p]
                /\ st' = [st EXCEPT !.process = p, !.unavailable = FALSE]
                /\ gen' = [gen EXCEPT ![g].pc = "connect", ![g].proc = p]
                /\ alive' = alive \cup {p}
    /\ UNCHANGED <<req, queue, hold, open, timers, toggles>>

\* Cancelled, disabled, superseded or out of time: its child goes with it.
StartupFail(g) ==
    /\ Idle /\ gen[g].pc = "spawn"
    /\ gen' = [gen EXCEPT ![g].pc = "done"]
    /\ LET s1 == TerminateOwn([st EXCEPT !.startup = IF @ = g THEN None ELSE @], g)
       IN st' = IF Joined(g) = {} THEN s1 ELSE DropMarkers(s1, Joined(g))
    /\ req' = [r \in Requests |-> IF r \in Joined(g) THEN [req[r] EXCEPT !.att = "err"] ELSE req[r]]
    /\ UNCHANGED <<queue, hold, alive, open, timers, made, toggles>>

\* An own child exits, and its exit event goes to the queue.
ProcExit(p) ==
    /\ Idle /\ p \in alive
    /\ alive' = alive \ {p}
    /\ Enqueue("exit", p)
    /\ st' = IF st.deferred = p THEN Finalize([st EXCEPT !.deferred = None]) ELSE st
    /\ UNCHANGED <<req, gen, hold, open, timers, made, toggles>>

ProcEvent(p) ==
    /\ Turn("exit", p)
    /\ LET c == st.client
           s1 == [st EXCEPT !.process = None, !.unavailable = TRUE]
           Quietly(s) == st' = s /\ queue' = Tail(queue) /\ req' = req /\ hold' = None
       IN IF st.process # p THEN Quietly(st)
          ELSE IF c # None /\ Leased(c)
          THEN Quietly([s1 EXCEPT !.retired = @ \cup {c}, !.teardown = TRUE])
          ELSE Closing("exit", None, c, s1.deferred, Detach(s1))
    /\ UNCHANGED Rest

\* A client nobody adopted is closed again.
PublicationTimer(c) ==
    /\ Idle /\ c \in timers
    /\ timers' = timers \ {c}
    /\ IF st.publication = c THEN Enqueue("unadopted", c) ELSE queue' = queue
    /\ UNCHANGED <<st, req, gen, hold, alive, open, made, toggles>>

Unadopted(c) ==
    /\ Turn("unadopted", c)
    /\ IF st.publication = c /\ st.client = c /\ ~Leased(c)
       THEN Closing("unadopted", None, c, Child(st), Detach([st EXCEPT !.publication = None]))
       ELSE UNCHANGED <<st, req, hold>> /\ queue' = Tail(queue)
    /\ UNCHANGED Rest

-----------------------------------------------------------------------------
(* The connect attempt of a request: ensureGoogleBroker().                   *)

AttemptWait(r) ==
    /\ req[r].att = "waiting"
    /\ \/ /\ Clear /\ st' = st /\ Enqueue("check", r)
          /\ req' = [req EXCEPT ![r].att = "queued"]
       \/ req[r].err # "none" /\ AttemptError(r, st) /\ queue' = queue
    /\ UNCHANGED Others

\* A client that lost its socket is closed, or left to its users.
AttemptCheck(r) ==
    /\ Turn("check", r)
    /\ LET c == st.client
           s1 == [st EXCEPT !.client = None, !.unavailable = TRUE]
           Decide(s) == st' = s /\ req' = [req EXCEPT ![r].att = "decide"]
       IN IF ~Clear \/ AcquireBlocked(st)
          THEN AttemptError(r, st) /\ queue' = Tail(queue) /\ hold' = None
          ELSE IF c = None \/ c \in open
          THEN Decide(st) /\ queue' = Tail(queue) /\ hold' = None
          ELSE IF Leased(c)
          THEN /\ Decide([s1 EXCEPT !.retired = @ \cup {c}, !.teardown = TRUE])
               /\ queue' = Tail(queue) /\ hold' = None
          ELSE Closing("check", r, c, None, s1)
    /\ UNCHANGED Rest

\* Share the client, share the startup under way, or begin one.
AttemptDecide(r) ==
    /\ req[r].att \in {"decide", "deferred"}
    /\ LET fresh == req[r].att = "decide"
           usable == fresh /\ st.client \in open /\ ~st.unavailable
           refused == fresh /\ ~usable /\ st.unavailable /\ st.teardown /\ Active(st)
           Att(a, g) == req' = [req EXCEPT ![r].att = a, ![r].gen = g]
       IN \/ /\ usable
             /\ req' = [req EXCEPT ![r].att = "ok", ![r].cand = st.client]
             /\ UNCHANGED <<st, gen, made>>
          \/ /\ refused \/ (~fresh /\ st.deferred # None)
             /\ ~fresh => Idle
             /\ AttemptError(r, st) /\ UNCHANGED <<gen, made>>
          \/ /\ ~usable /\ ~refused
             /\ \/ /\ fresh /\ st.deferred # None
                   /\ Att("deferred", None) /\ UNCHANGED <<st, gen, made>>
                \/ /\ st.deferred = None /\ st.startup # None
                   /\ Att("joined", st.startup) /\ UNCHANGED <<st, gen, made>>
                \/ /\ st.deferred = None /\ st.startup = None
                   /\ LET g == made.gen + 1
                      IN /\ g \in Gens
                         /\ made' = [made EXCEPT !.gen = g]
                         /\ gen' = [gen EXCEPT ![g].pc = "connect"]
                         /\ st' = [st EXCEPT !.startup = g]
                         /\ Att("joined", g)
    /\ UNCHANGED <<queue, hold, alive, open, timers, toggles>>

\* A request that gave up leaves the startup; the last one cancels it.
AttemptLeaves(r) ==
    /\ req[r].att = "joined" /\ req[r].err # "none"
    /\ LET g == req[r].gen
           last == Joined(g) = {r} /\ ~gen[g].cancelled
       IN /\ AttemptError(r, IF last THEN Cancel(st, g) ELSE st)
          /\ gen' = IF last THEN [gen EXCEPT ![g].cancelled = TRUE] ELSE gen
    /\ UNCHANGED <<queue, hold, alive, open, timers, made, toggles>>

\* The connector hands over its client and its marker goes. What the code does when
\* a fence was raised first is not here: FencedBringsNone.
AttemptConnects(r) ==
    /\ req[r].att = "ok"
    /\ LET adopts == req[r].pc = "connect"
       IN /\ req' = [req EXCEPT ![r].att = "settled", ![r].pc = IF adopts THEN "queued" ELSE @]
          /\ queue' = queue \o <<<<"settle", r>>>>
                            \o (IF adopts THEN <<<<"adopt", r>>>> ELSE <<>>)
    /\ st' = st /\ UNCHANGED Others

AttemptSettles(r) ==
    /\ Turn("settle", r) /\ queue' = Tail(queue)
    /\ st' = IF r \in st.fenced THEN st ELSE Finalize([st EXCEPT !.pending = @ \ {r}])
    /\ req' = req /\ UNCHANGED Others

\* closeUnadoptedConnectClient(): others use the client, share it, or it goes.
Shared(r) == \/ Leased(req[r].cand)
             \/ st.client = req[r].cand /\ ~st.unavailable

CloseLate(s, c) == [s EXCEPT !.retired = @ \cup {c}, !.teardown = TRUE]

-----------------------------------------------------------------------------
(* A request: googleSearchWithDependencies().                                *)

Start(r) ==
    /\ Idle /\ req[r].pc = "idle" /\ enabled
    /\ Go(r, "waiting") /\ UNCHANGED <<st, queue>> /\ UNCHANGED Others

\* The waits for a teardown and for a legacy search, then the queue.
Reserve(r) ==
    /\ req[r].pc = "waiting" /\ Clear
    /\ Go(r, "queued") /\ Enqueue("reserve", r)
    /\ st' = st /\ UNCHANGED Others

Reserved(r) ==
    /\ Turn("reserve", r)
    /\ \/ Fail(r, st, "abort", Tail(queue))
       \/ ~Clear /\ Fail(r, st, "fence", Tail(queue))
       \/ /\ Clear
          /\ Go(r, "chrome") /\ st' = [st EXCEPT !.reserved = @ \cup {r}]
          /\ queue' = Tail(queue)
    /\ UNCHANGED Others

EnsureChrome(r) ==
    /\ Idle /\ req[r].pc = "chrome"
    /\ \/ Fail(r, st, "broker", queue)
       \/ Go(r, "queued") /\ Enqueue("gate", r) /\ st' = st
    /\ UNCHANGED Others

Gate(r) ==
    /\ Turn("gate", r)
    /\ IF ~Clear \/ AcquireBlocked(st)
       THEN Fail(r, st, "fence", Tail(queue))
       ELSE Go(r, "gated") /\ queue' = Tail(queue) /\ st' = st
    /\ UNCHANGED Others

\* The attempt is on record from its first moment, fenced if a teardown began.
Connect(r) ==
    /\ req[r].pc = "gated"
    /\ req' = [req EXCEPT ![r].pc = "connect", ![r].att = "waiting"]
    /\ st' = [st EXCEPT !.pending = @ \cup {r},
                        !.fenced = IF st.tearing THEN @ \cup {r} ELSE @]
    /\ queue' = queue /\ UNCHANGED Others

ConnectFails(r) ==
    /\ req[r].pc = "connect" /\ req[r].att = "err"
    /\ \E e \in {"fence", "broker"} : Fail(r, st, e, queue)
    /\ UNCHANGED Others

\* The queued step that turns a connected client into a lease. A client that was
\* closed meanwhile is a new generation of itself.
Adopt(r) ==
    /\ Turn("adopt", r)
    /\ LET c == req[r].cand
           Throw(e) == Fail(r, st, e, Tail(queue)) /\ hold' = None
           s1 == [st EXCEPT !.users[c] = @ \cup {r}, !.unavailable = FALSE, !.closed = @ \ {c},
                            !.pending = @ \ {r}, !.fenced = @ \ {r}]
       IN \/ Throw("abort")
          \/ st.tearing /\ Throw("fence")
          \/ ~st.tearing /\ ~enabled
             /\ Closing("adopt", r, c, None, [st EXCEPT !.retired = @ \cup {c}])
          \/ /\ ~st.tearing /\ enabled
             /\ IF st.unavailable /\ st.teardown /\ Active(st) /\ st.client # c
                THEN Throw("broker")
                ELSE /\ st' = [Finalize(s1) EXCEPT !.publication = IF @ = c THEN None ELSE @]
                     /\ req' = [req EXCEPT ![r].client = c, ![r].adopted = TRUE]
                     /\ queue' = Append(Tail(queue), <<"unreserve", r>>)
                     /\ hold' = None
    /\ UNCHANGED Rest

\* The reservation of r goes back: to its search, or, after a failure, to the
\* legacy search, which only a plain failure of the broker may try.
Unreserve(r) ==
    /\ Turn("unreserve", r) /\ queue' = Tail(queue)
    /\ st' = MaybeFinish([st EXCEPT !.reserved = @ \ {r}])
    /\ Go(r, CASE req[r].err = "none" -> "search"
               [] req[r].err = "broker" -> "legacyWait"
               [] OTHER -> "failed")
    /\ UNCHANGED Others

\* The search succeeds, fails in the broker, or meets a captcha.
Search(r) ==
    /\ Idle /\ req[r].pc = "search"
    /\ \/ /\ req[r].client \in open \ st.closed
          /\ Go(r, "queued") /\ Enqueue("unlease", r) /\ st' = st
       \/ \E e \in {"fence", "broker"} : Fail(r, st, e, queue)
    /\ UNCHANGED Others

\* Abort or deadline, at an await before the result.
Abandon(r) ==
    /\ Idle /\ req[r].pc \in {"waiting", "chrome", "connect", "search"}
    /\ Fail(r, st, "abort", queue)
    /\ UNCHANGED Others

\* releaseBrokerLease(): the last user closes a client that was retired.
ReleaseLease(r) ==
    /\ Turn("unlease", r)
    /\ LET c == req[r].client
           s1 == [st EXCEPT !.users[c] = @ \ {r}]
           s2 == [s1 EXCEPT !.retired = @ \ {c}, !.client = IF @ = c THEN None ELSE @]
       IN IF s1.users[c] = {} /\ c \in st.retired THEN Closing("unlease", r, c, st.deferred, s2)
          ELSE IF s1.users[c] = {} /\ st.teardown /\ st.unavailable /\ st.client = c
          THEN Closing("unlease", r, c, Child(st), Detach(s1))
          ELSE Continue("unlease", r, None, None, s1, Tail(queue)) /\ hold' = None
    /\ UNCHANGED Rest

\* The queued cleanup of a request that failed: the last user closes the client,
\* and so does a connector whose client nobody else has.
Cleanup(r) ==
    /\ Turn("cleanup", r)
    /\ LET c == req[r].client
           cand == req[r].cand
           s1 == [st EXCEPT !.users[c] = @ \ {r}]
           s2 == CloseLate(s1, c)
       IN IF c # None
          THEN IF s1.users[c] # {} THEN CleanedUp(r, s1, FALSE, Tail(queue)) /\ hold' = None
               ELSE IF st.client = c THEN Closing("cleanup", r, c, Child(st), Detach(s2))
               ELSE Closing("cleanup", r, c, st.deferred,
                            [s2 EXCEPT !.retired = @ \ {c}, !.deferred = None])
          ELSE IF ~Unowned(r) THEN CleanedUp(r, st, TRUE, Tail(queue)) /\ hold' = None
          ELSE IF Shared(r)
          THEN CleanedUp(r, DropMarkers(st, {r}), TRUE, Tail(queue)) /\ hold' = None
          ELSE Closing("late", r, cand, None, CloseLate(st, cand))
    /\ UNCHANGED Rest

LegacyWait(r) ==
    /\ req[r].pc = "legacyWait"
    /\ \/ st.fallback = None /\ Go(r, "queued") /\ Enqueue("legacy", r)
       \/ Idle /\ Go(r, "failed") /\ queue' = queue
    /\ st' = st /\ UNCHANGED Others

LegacyReserve(r) ==
    /\ Turn("legacy", r) /\ queue' = Tail(queue)
    /\ IF st.fallback # None THEN Go(r, "legacyWait") /\ st' = st
       ELSE IF st.reserved # {} \/ FallbackBlocked(st)
       THEN Go(r, "failed") /\ st' = st
       ELSE Go(r, "legacy") /\ st' = [st EXCEPT !.fallback = r]
    /\ UNCHANGED Others

\* The barrier is the search's: a caller that gives up leaves it in place.
LegacySettles(r) ==
    /\ Idle /\ st.fallback = r /\ ~InQueue("lift", r)
    /\ Enqueue("lift", r) /\ UNCHANGED <<st, req>> /\ UNCHANGED Others

LegacyLifts(r) ==
    /\ Turn("lift", r) /\ queue' = Tail(queue)
    /\ st' = [st EXCEPT !.fallback = None]
    /\ Go(r, IF req[r].pc = "legacy" THEN "done" ELSE "failed") /\ UNCHANGED Others

LegacyAbandoned(r) ==
    /\ Idle /\ req[r].pc = "legacy" /\ Go(r, "failed") /\ UNCHANGED <<st, queue>> /\ UNCHANGED Others

-----------------------------------------------------------------------------
(* closeGoogleBroker() of everything, by a request that finds the broker     *)
(* disabled.                                                                 *)

\* The fence is raised before the close enters the queue; callers share one close.
CloseStart(r) ==
    /\ Idle /\ req[r].pc = "idle" /\ ~enabled
    /\ Go(r, "closeWait")
    /\ IF st.close # "none" THEN UNCHANGED <<st, queue>>
       ELSE /\ st' = [st EXCEPT !.tearing = TRUE, !.fenced = @ \cup st.pending,
                                !.close = "prepare"]
            /\ Enqueue("prepare", None)
    /\ UNCHANGED Others

ClosePrepare ==
    /\ Turn("prepare", None) /\ queue' = Tail(queue)
    /\ LET g == st.startup
           s0 == IF g # None THEN Cancel(st, g) ELSE st
           s1 == [s0 EXCEPT !.fenced = @ \cup s0.pending, !.unavailable = TRUE,
                            !.teardown = @ \/ s0.client # None,
                            !.retired = IF s0.client # None /\ Active(s0)
                                        THEN @ \cup {s0.client} ELSE @,
                            !.close = "reserve"]
       IN /\ st' = IF s1.process = None THEN s1
                   ELSE [RetainDeferred(s1, s1.process) EXCEPT !.process = None, !.teardown = TRUE]
          /\ gen' = IF g # None THEN [gen EXCEPT ![g].cancelled = TRUE] ELSE gen
    /\ UNCHANGED <<req, hold, alive, open, timers, made, toggles>>

\* Wait for the reservations, for the users, then take everything away.
CloseDrains ==
    /\ \/ /\ st.close = "reserve" /\ st.reserved = {}
          /\ st' = [st EXCEPT !.close = "users"] /\ queue' = queue
       \/ /\ st.close = "users" /\ ~Active(st)
          /\ st' = [st EXCEPT !.close = "detach"] /\ Enqueue("detach", None)
       \/ /\ Turn("detach", None) /\ queue' = Tail(queue)
          /\ LET gone == {c \in st.retired \cup ({st.client} \ {None}) :
                             c = st.client \/ st.users[c] = {}}
             IN st' = [Detach(st) EXCEPT !.retired = @ \ gone, !.closing = @ \cup (gone \ st.closed),
                                         !.failed = @ \ (gone \cap st.closed),
                                         !.close = "closing", !.targets = gone]
    /\ req' = req /\ UNCHANGED Others

\* It ends when all is closed and the child has exited, or by its bound.
CloseEnds ==
    /\ st.close \notin {"none", "detach"}
    /\ LET late == st.targets \cap st.closing
           ok == /\ st.close = "closing" /\ late \cup (st.targets \cap st.failed) = {}
                 /\ st.deferred = None
           expired == \/ st.close = "reserve" /\ st.reserved # {}
                      \/ st.close = "users" /\ Active(st)
                      \/ st.close = "closing" /\ ~ok
           s1 == [st EXCEPT !.close = "none", !.targets = {}, !.failed = @ \cup late,
                            !.retired = @ \cup late, !.teardown = @ \/ late # {}]
       IN /\ ok \/ (expired /\ Idle)
          /\ st' = IF ok THEN Finalize(s1) ELSE MaybeFinish(s1)
          /\ req' = [r \in Requests |-> IF req[r].pc = "closeWait"
                        THEN [req[r] EXCEPT !.pc = IF ok THEN "legacyWait" ELSE "failed"]
                        ELSE req[r]]
    /\ queue' = queue /\ UNCHANGED Others

CloseAbandoned(r) ==
    /\ Idle /\ req[r].pc = "closeWait" /\ Go(r, "failed") /\ UNCHANGED <<st, queue>> /\ UNCHANGED Others

-----------------------------------------------------------------------------
Disconnect(c) ==
    /\ Idle /\ c \in open
    /\ open' = open \ {c}
    /\ UNCHANGED <<st, req, gen, queue, hold, alive, timers, made, toggles>>

Toggle ==
    /\ Idle /\ toggles < MaxToggles
    /\ toggles' = toggles + 1
    /\ UNCHANGED <<st, req, gen, queue, hold, alive, open, timers, made>>

Request(r) ==
    \/ Start(r) \/ Reserve(r) \/ Reserved(r) \/ EnsureChrome(r) \/ Gate(r) \/ Connect(r)
    \/ ConnectFails(r) \/ Adopt(r) \/ Unreserve(r) \/ Search(r) \/ Abandon(r)
    \/ ReleaseLease(r) \/ Cleanup(r) \/ LegacyWait(r) \/ LegacyReserve(r)
    \/ LegacySettles(r) \/ LegacyLifts(r) \/ LegacyAbandoned(r)
    \/ CloseStart(r) \/ CloseAbandoned(r)

Attempt(r) ==
    \/ AttemptWait(r) \/ AttemptCheck(r) \/ AttemptDecide(r) \/ AttemptLeaves(r)
    \/ AttemptConnects(r) \/ AttemptSettles(r)

Next ==
    \/ \E r \in Requests : Request(r) \/ Attempt(r)
    \/ \E g \in Gens : StartupConnect(g) \/ StartupRefused(g) \/ StartupSpawn(g) \/ StartupFail(g)
    \/ \E p \in Procs : ProcExit(p) \/ ProcEvent(p)
    \/ \E c \in Clients : PublicationTimer(c) \/ Unadopted(c) \/ CloseSettles(c) \/ Disconnect(c)
    \/ HoldEnds \/ ClosePrepare \/ CloseDrains \/ CloseEnds \/ Toggle

Spec == Init /\ [][Next]_vars

-----------------------------------------------------------------------------
\* A profile never has two broker children at once.
OneChild == Cardinality(alive) <= 1

\* While the legacy search runs nobody holds a lease or a reservation, no child
\* of this process runs, and no startup can publish a client.
LegacyAlone ==
    st.fallback # None => /\ ~Active(st) /\ st.reserved = {}
                          /\ alive = {} /\ st.startup = None

\* A connector whose request was fenced brings no client any more: the fence itself
\* fails its check or its wait. The late close of observeConnectAttempt() is left to
\* connectors that tests inject.
FencedBringsNone == \A r \in st.fenced : req[r].att # "ok"

\* One child or the legacy search, and each of them alone.
LanesApart == OneChild /\ LegacyAlone /\ FencedBringsNone

\* Leases protect active users (the comment of withBrokerLifecycle()): close() is
\* never sent to a client somebody uses. It fails: a request that finds the broker
\* disabled when its turn to adopt comes closes the client the others share.
LeasesProtectUsers ==
    [][\A c \in st'.closing \ st.closing : st'.users[c] = {}]_vars

\* As long as the broker stays enabled they do, whatever aborts, disconnects, exits
\* and startups come in between.
EnabledSparesUsers ==
    [][\A c \in st'.closing \ st.closing : enabled => st'.users[c] = {}]_vars

\* Nothing is in progress and nothing is left to be torn down.
Settled ==
    /\ \A r \in Requests : req[r].pc \in {"idle", "done", "failed"}
    /\ \A g \in Gens : gen[g].pc \in {"none", "done"}
    /\ queue = <<>> /\ hold = None /\ Quarantined(st) = {} /\ timers = {}
    /\ st.deferred = None /\ st.close = "none" /\ st.fallback = None
    /\ st.client # None => ~st.unavailable
    /\ \A r \in Requests : ~Ready(r)

\* When everything has ended well and no child is left, no fence keeps the next
\* search out: finalizeBrokerTeardown() was called after the last of its conditions.
FencesLift == Settled /\ alive = {} /\ st.publication = None => ~st.teardown /\ ~st.tearing

\* The same without the exception, as ensureGoogleBroker() says it ("until a later
\* bounded close retry confirms the old client is closed"). It fails: a client that
\* disconnects before it was adopted stays in brokerPublicationPending for good.
EveryFenceLifts == Settled /\ alive = {} => ~st.teardown /\ ~st.tearing
=============================================================================
