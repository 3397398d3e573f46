----------------------------- MODULE HostProofs -----------------------------
(* What the processes of one host may not do to each other: proofs of         *)
(* SlotsHeld and OthersSpared, which the run chrome checks, of ResultsKept,   *)
(* PagesKept and OwnerKept, which the run host checks, and of what the        *)
(* connection to Chrome promises of each command. The parts run side by side, *)
(* each with variables of its own; names without a prefix are those of        *)
(* ChildSlots. MCHost extends this module and adds the client.                *)
EXTENDS ChildSlots, FiniteSetTheorems, WellFoundedInduction, TLAPS

CONSTANTS
    Brokers, Old, MaxTries,
    Launchers, Kind, Clients, Lsof, Sequential, Prompt,
    CliCalls, Sessions, Asks, SessionOf, OneByOne,
    Workers, NumPages, PathOf, Final, MaxRetries,
    Storers, Readers, Kept, MaxResults, Concurrent, MaxRestarts, Kills, DiskFails, Loaded,
    Commands, WebSockets

VARIABLES
    startup_lock, startup_aside, startup_seen, startup_tries, startup_socket, startup_pc,
    launch_run, launch_chrome, launch_client, launch_pidFile, launch_portFile,
    launch_modeFile, launch_reported,
    daemon_call, daemon_conn, daemon_daemon, daemon_owner, daemon_path, daemon_entry,
    daemon_live,
    queue_phase, queue_queue, queue_dirty, queue_resumed, queue_aborted, queue_pc, queue_job,
    queue_saves, queue_disk, queue_files, queue_got,
    store_pc, store_want, store_index, store_held, store_maps, store_born, store_snap,
    store_blobs, store_disk, store_expired, store_returned, store_dropped, store_restarts,
    cdp_socket, cdp_connected, cdp_generation, cdp_pending, cdp_ws, cdp_trying, cdp_wire,
    cdp_status, cdp_answer

Startup == INSTANCE BrokerStartup WITH
    Nothing <- None, lock <- startup_lock, aside <- startup_aside, seen <- startup_seen,
    tries <- startup_tries, socket <- startup_socket, pc <- startup_pc
Launch == INSTANCE ChromeLaunch WITH
    run <- launch_run, chrome <- launch_chrome, client <- launch_client,
    pidFile <- launch_pidFile, portFile <- launch_portFile, modeFile <- launch_modeFile,
    reported <- launch_reported
Daemon == INSTANCE CdpDaemon WITH
    Calls <- CliCalls, OwnerOf <- SessionOf, call <- daemon_call, conn <- daemon_conn,
    daemon <- daemon_daemon, owner <- daemon_owner, path <- daemon_path, entry <- daemon_entry, live <- daemon_live
Queue == INSTANCE RequestQueue WITH
    phase <- queue_phase, queue <- queue_queue, dirty <- queue_dirty, resumed <- queue_resumed,
    aborted <- queue_aborted, pc <- queue_pc, job <- queue_job, saves <- queue_saves,
    disk <- queue_disk, files <- queue_files, got <- queue_got
Store == INSTANCE ResultStore WITH
    Old <- Kept, pc <- store_pc, want <- store_want, index <- store_index, held <- store_held,
    maps <- store_maps, born <- store_born, snap <- store_snap, blobs <- store_blobs,
    disk <- store_disk, expired <- store_expired, returned <- store_returned,
    dropped <- store_dropped, restarts <- store_restarts
Transport == INSTANCE CdpTransport WITH
    Sockets <- WebSockets, socket <- cdp_socket, connected <- cdp_connected,
    generation <- cdp_generation, pending <- cdp_pending, ws <- cdp_ws, trying <- cdp_trying,
    wire <- cdp_wire, status <- cdp_status, answer <- cdp_answer

-----------------------------------------------------------------------------
(* ChildSlots. What makes the counter right is that every holder of a slot    *)
(* still has its one abort listener and that a waiter is in one place only    *)
(* (in the queue, with its listener, or woken, without): so the loop of an    *)
(* abort gives back each slot once, and a woken waiter takes the slot that    *)
(* was released for it.                                                       *)

Pcs == {"new", "queued", "running", "joined", "ended"}

SlotStates == [active : Nat, waiters : Seq(Calls), micro : Seq(Calls),
               listeners : Seq(Calls)]

Running == {c \in Calls : pc[c] = "running"}

Once(q) == \A i, j \in DOMAIN q : q[i] = q[j] => i = j

TypeOK ==
    /\ pc \in [Calls -> Pcs]
    /\ slots \in SlotStates
    /\ launch \in Calls \cup {None}
    /\ joined \in [Calls -> Calls \cup {None}]

\* A call is at most once in each list; a waiter has its listener, a woken one
\* has none.
Lists(s) ==
    /\ Once(s.waiters) /\ Once(s.micro) /\ Once(s.listeners)
    /\ Elems(s.waiters) \cap Elems(s.micro) = {}
    /\ Elems(s.waiters) \subseteq Elems(s.listeners)
    /\ Elems(s.micro) \cap Elems(s.listeners) = {}

\* What the lists say of their calls.
Places(s) ==
    /\ \A c \in Elems(s.waiters) \cup Elems(s.micro) : pc[c] = "queued"
    /\ \A c \in Elems(s.listeners) : pc[c] \notin {"new", "joined"}
    /\ Running \subseteq Elems(s.listeners)

\* The slots that are held and those that are promised.
Counted(s, holders) ==
    /\ s.active = Cardinality(holders)
    /\ s.active + Len(s.micro) <= MaxChildren

IInv ==
    /\ TypeOK
    /\ Lists(slots) /\ Places(slots) /\ Counted(slots, Running)
    /\ \A c \in Calls : joined[c] # None => pc[c] = "joined"

-----------------------------------------------------------------------------
\* Queues.
LEMMA ElemsIn == ASSUME NEW S, NEW q \in Seq(S) PROVE Elems(q) \subseteq S
  BY DEF Elems

LEMMA Appended ==
  ASSUME NEW S, NEW q \in Seq(S), NEW c \in S
  PROVE  /\ Append(q, c) \in Seq(S)
         /\ Elems(Append(q, c)) = Elems(q) \cup {c}
         /\ Len(Append(q, c)) = Len(q) + 1
         /\ Once(q) /\ c \notin Elems(q) => Once(Append(q, c))
<1> DEFINE r == Append(q, c)
<1>1. /\ r \in Seq(S) /\ Len(r) = Len(q) + 1
      /\ \A i \in 1 .. Len(q) : r[i] = q[i]
      /\ r[Len(q) + 1] = c
  OBVIOUS
<1>2. DOMAIN r = 1 .. Len(q) + 1 /\ DOMAIN q = 1 .. Len(q) /\ Len(q) \in Nat
  BY <1>1
<1> HIDE DEF r
<1>3. Elems(r) = Elems(q) \cup {c}
  <2>1. ASSUME NEW x \in Elems(r) PROVE x \in Elems(q) \cup {c}
    <3>1. PICK i \in 1 .. Len(q) + 1 : x = r[i]
      BY <1>2, <2>1 DEF Elems
    <3> QED
      BY <3>1, <1>1, <1>2 DEF Elems
  <2>2. ASSUME NEW x \in Elems(q) PROVE x \in Elems(r)
    <3>1. PICK i \in 1 .. Len(q) : x = q[i]
      BY <1>2, <2>2 DEF Elems
    <3>2. i \in 1 .. Len(q) + 1 /\ x = r[i]
      BY <3>1, <1>1, <1>2
    <3> QED
      BY <3>2, <1>2 DEF Elems
  <2>3. c \in Elems(r)
    <3>1. Len(q) + 1 \in 1 .. Len(q) + 1
      BY <1>2
    <3> QED
      BY <3>1, <1>1, <1>2 DEF Elems
  <2> QED
    BY <2>1, <2>2, <2>3
<1>4. ASSUME Once(q), c \notin Elems(q) PROVE Once(r)
  <2> SUFFICES ASSUME NEW i \in 1 .. Len(q) + 1, NEW j \in 1 .. Len(q) + 1, r[i] = r[j]
               PROVE  i = j
    BY <1>2 DEF Once
  <2>1. \A k \in 1 .. Len(q) : q[k] # c
    BY <1>4, <1>2 DEF Elems
  <2>2. CASE i \in 1 .. Len(q) /\ j \in 1 .. Len(q)
    BY <2>2, <1>1, <1>2, <1>4 DEF Once
  <2>3. CASE i = Len(q) + 1 \/ j = Len(q) + 1
    BY <2>1, <2>3, <1>1, <1>2
  <2> QED
    BY <2>2, <2>3, <1>2
<1> QED
  BY <1>1, <1>3, <1>4 DEF r

LEMMA HeadTail ==
  ASSUME NEW S, NEW q \in Seq(S), q # <<>>, Once(q)
  PROVE  /\ Head(q) \in Elems(q) /\ Tail(q) \in Seq(S) /\ Len(Tail(q)) = Len(q) - 1
         /\ Elems(Tail(q)) = Elems(q) \ {Head(q)} /\ Once(Tail(q)) /\ Len(q) >= 1
<1> DEFINE r == Tail(q)
<1>1. /\ r \in Seq(S) /\ Len(r) = Len(q) - 1 /\ Len(q) >= 1 /\ Head(q) = q[1]
      /\ \A i \in 1 .. Len(q) - 1 : r[i] = q[i + 1]
  OBVIOUS
<1>2. DOMAIN r = 1 .. Len(q) - 1 /\ DOMAIN q = 1 .. Len(q) /\ Len(q) \in Nat
  BY <1>1
<1> HIDE DEF r
<1>3. \A x \in Elems(r) : x \in Elems(q) /\ x # q[1]
  <2> SUFFICES ASSUME NEW i \in 1 .. Len(q) - 1 PROVE r[i] \in Elems(q) /\ r[i] # q[1]
    BY <1>2 DEF Elems
  <2>1. i + 1 \in DOMAIN q /\ r[i] = q[i + 1] /\ i + 1 # 1 /\ 1 \in DOMAIN q
    BY <1>1, <1>2
  <2> QED
    BY <2>1 DEF Elems, Once
<1>4. \A x \in Elems(q) : x # q[1] => x \in Elems(r)
  <2> SUFFICES ASSUME NEW i \in 1 .. Len(q), q[i] # q[1] PROVE q[i] \in Elems(r)
    BY <1>2 DEF Elems
  <2>1. i - 1 \in 1 .. Len(q) - 1 /\ q[i] = r[i - 1]
    <3>1. i # 1 /\ i - 1 \in 1 .. Len(q) - 1 /\ (i - 1) + 1 = i
      BY <1>2
    <3> QED
      BY <3>1, <1>1
  <2> QED
    BY <2>1, <1>2 DEF Elems
<1>5. Once(r)
  <2> SUFFICES ASSUME NEW i \in 1 .. Len(q) - 1, NEW j \in 1 .. Len(q) - 1, r[i] = r[j]
               PROVE  i = j
    BY <1>2 DEF Once
  <2>1. i + 1 \in DOMAIN q /\ j + 1 \in DOMAIN q /\ q[i + 1] = q[j + 1]
    BY <1>1, <1>2
  <2>2. i + 1 = j + 1
    BY <2>1 DEF Once
  <2> QED
    BY <2>2, <1>2
<1>6. q[1] \in Elems(q)
  BY <1>1, <1>2 DEF Elems
<1> QED
  BY <1>1, <1>3, <1>4, <1>5, <1>6 DEF r

LEMMA WithoutOne ==
  ASSUME NEW S, NEW q \in Seq(S), NEW c, Once(q)
  PROVE  /\ Without(q, c) \in Seq(S) /\ Once(Without(q, c))
         /\ Elems(Without(q, c)) = Elems(q) \ {c}
<1>1. CASE c \notin Elems(q)
  BY <1>1 DEF Without
<1>2. CASE c \in Elems(q)
  <2> DEFINE n == Len(q)
             at == CHOOSE i \in DOMAIN q : q[i] = c /\ \A j \in 1 .. i - 1 : q[j] # c
             r == [i \in 1 .. n - 1 |-> IF i < at THEN q[i] ELSE q[i + 1]]
  <2>1. n \in Nat /\ DOMAIN q = 1 .. n /\ \A i \in 1 .. n : q[i] \in S
    OBVIOUS
  <2>2. PICK k \in DOMAIN q : q[k] = c
    BY <1>2 DEF Elems
  <2>3. \A j \in 1 .. k - 1 : q[j] # c
    BY <2>1, <2>2 DEF Once
  <2>4. at \in DOMAIN q /\ q[at] = c
    BY <2>2, <2>3
  <2>5. Without(q, c) = r
    BY <1>2 DEF Without
  <2> HIDE DEF at
  <2>6. DOMAIN r = 1 .. n - 1 /\ n - 1 \in Nat /\ n >= 1
    BY <2>1, <2>4
  <2> DEFINE old(i) == IF i < at THEN i ELSE i + 1
  <2>7. \A i \in 1 .. n - 1 : old(i) \in 1 .. n /\ r[i] = q[old(i)] /\ old(i) # at
    BY <2>1, <2>4
  <2>8. r \in Seq(S)
    <3>1. \A i \in 1 .. n - 1 : r[i] \in S
      BY <2>1, <2>7
    <3>2. r \in [1 .. n - 1 -> S]
      BY <3>1
    <3> QED
      BY <3>2, <2>6
  <2>9. Once(r)
    <3> SUFFICES ASSUME NEW i \in 1 .. n - 1, NEW j \in 1 .. n - 1, r[i] = r[j] PROVE i = j
      BY <2>6 DEF Once
    <3>1. old(i) = old(j)
      <4> HIDE DEF old, r
      <4> QED
        BY <2>1, <2>7 DEF Once
    <3> QED
      BY <3>1, <2>1, <2>4
  <2>10. ASSUME NEW x \in Elems(r) PROVE x \in Elems(q) \ {c}
    <3> HIDE DEF r, old
    <3>1. PICK i \in 1 .. n - 1 : x = r[i]
      BY <2>6, <2>10 DEF Elems
    <3> QED
      BY <3>1, <2>1, <2>4, <2>7 DEF Elems, Once
  <2>11. ASSUME NEW x \in Elems(q) \ {c} PROVE x \in Elems(r)
    <3>1. PICK i \in 1 .. n : x = q[i]
      BY <2>1, <2>11 DEF Elems
    <3>2. CASE i < at
      <4>1. i \in 1 .. n - 1 /\ r[i] = q[i]
        BY <2>1, <2>4, <3>2
      <4> HIDE DEF r
      <4> QED
        BY <4>1, <3>1, <2>6 DEF Elems
    <3>3. CASE i > at
      <4>1. i - 1 \in 1 .. n - 1 /\ r[i - 1] = q[i]
        BY <2>1, <2>4, <3>3
      <4> HIDE DEF r
      <4> QED
        BY <4>1, <3>1, <2>6 DEF Elems
    <3>4. i # at
      BY <3>1, <2>4, <2>11
    <3> QED
      BY <3>2, <3>3, <3>4, <2>1, <2>4
  <2> HIDE DEF r
  <2> QED
    BY <2>5, <2>8, <2>9, <2>10, <2>11
<1> QED
  BY <1>1, <1>2

-----------------------------------------------------------------------------
\* What the operators do to a state of the slots.
LEMMA UnlistenIs ==
  ASSUME NEW s \in SlotStates, NEW c, Once(s.listeners)
  PROVE  /\ Unlisten(s, c) \in SlotStates
         /\ Unlisten(s, c).active = s.active
         /\ Unlisten(s, c).waiters = s.waiters
         /\ Unlisten(s, c).micro = s.micro
         /\ Elems(Unlisten(s, c).listeners) = Elems(s.listeners) \ {c}
         /\ Once(Unlisten(s, c).listeners)
<1>1. s.listeners \in Seq(Calls)
  BY DEF SlotStates
<1>2. /\ Without(s.listeners, c) \in Seq(Calls) /\ Once(Without(s.listeners, c))
      /\ Elems(Without(s.listeners, c)) = Elems(s.listeners) \ {c}
  BY <1>1, WithoutOne
<1> QED
  BY <1>2 DEF Unlisten, SlotStates

\* A waiter whose listener goes leaves the queue with it.
LEMMA LeaveIs ==
  ASSUME NEW s \in SlotStates, NEW c, Lists(s), c \notin Elems(s.micro)
  PROVE  LET t == [Unlisten(s, c) EXCEPT !.waiters = Without(@, c)]
         IN  /\ t \in SlotStates /\ Lists(t)
             /\ t.active = s.active /\ t.micro = s.micro
             /\ Elems(t.waiters) = Elems(s.waiters) \ {c}
             /\ Elems(t.listeners) = Elems(s.listeners) \ {c}
<1> DEFINE u == Unlisten(s, c)
           t == [u EXCEPT !.waiters = Without(@, c)]
<1>1. /\ u \in SlotStates /\ u.active = s.active /\ u.waiters = s.waiters
      /\ u.micro = s.micro /\ Elems(u.listeners) = Elems(s.listeners) \ {c}
      /\ Once(u.listeners)
  BY UnlistenIs DEF Lists
<1> HIDE DEF u
<1>2. s.waiters \in Seq(Calls) /\ Once(s.waiters)
  BY DEF SlotStates, Lists
<1>3. /\ Without(s.waiters, c) \in Seq(Calls) /\ Once(Without(s.waiters, c))
      /\ Elems(Without(s.waiters, c)) = Elems(s.waiters) \ {c}
  BY <1>2, WithoutOne
<1>4. /\ t \in SlotStates /\ t.waiters = Without(s.waiters, c)
      /\ t.active = s.active /\ t.micro = s.micro /\ t.listeners = u.listeners
  BY <1>1, <1>3 DEF SlotStates
<1> HIDE DEF t
<1>5. Lists(t)
  BY <1>1, <1>3, <1>4 DEF Lists
<1> QED
  BY <1>1, <1>3, <1>4, <1>5 DEF t, u

\* A released slot is promised to the waiter at the head, or it is free.
LEMMA ReleasedIs ==
  ASSUME NEW s \in SlotStates, Lists(s), s.active >= 1
  PROVE  /\ Released(s) \in SlotStates /\ Lists(Released(s))
         /\ Released(s).active = s.active - 1
         /\ Elems(Released(s).waiters) \subseteq Elems(s.waiters)
         /\ Elems(Released(s).waiters) \cup Elems(Released(s).micro)
               = Elems(s.waiters) \cup Elems(s.micro)
         /\ Elems(Released(s).listeners) \subseteq Elems(s.listeners)
         /\ \A c \in Elems(s.listeners) :
               c \notin Elems(s.waiters) => c \in Elems(Released(s).listeners)
         /\ Len(Released(s).micro) <= Len(s.micro) + 1
<1> DEFINE t == [s EXCEPT !.active = @ - 1]
           h == Head(s.waiters)
           u == Unlisten(t, h)
           r == [u EXCEPT !.waiters = Tail(@), !.micro = Append(@, h)]
<1>1. /\ t \in SlotStates /\ t.active = s.active - 1 /\ t.waiters = s.waiters
      /\ t.micro = s.micro /\ t.listeners = s.listeners
  BY DEF SlotStates
<1> HIDE DEF t
<1>2. CASE s.waiters = <<>>
  <2>1. Released(s) = t
    BY <1>2 DEF Released, t
  <2>2. Lists(t) /\ Len(s.micro) \in Nat
    BY <1>1 DEF Lists, SlotStates
  <2> QED
    BY <2>1, <2>2, <1>1
<1>3. CASE s.waiters # <<>>
  <2>1. Released(s) = r
    BY <1>3, <1>1 DEF Released, t
  <2>2. s.waiters \in Seq(Calls) /\ s.micro \in Seq(Calls) /\ Once(s.waiters)
    BY DEF SlotStates, Lists
  <2>3. /\ h \in Elems(s.waiters) /\ Tail(s.waiters) \in Seq(Calls)
        /\ Elems(Tail(s.waiters)) = Elems(s.waiters) \ {h} /\ Once(Tail(s.waiters))
    BY <2>2, <1>3, HeadTail
  <2> HIDE DEF h
  <2>4. h \in Calls /\ h \notin Elems(s.micro) /\ h \in Elems(s.listeners)
    BY <2>3, <2>2, ElemsIn DEF Lists
  <2>5. /\ Append(s.micro, h) \in Seq(Calls)
        /\ Elems(Append(s.micro, h)) = Elems(s.micro) \cup {h}
        /\ Len(Append(s.micro, h)) = Len(s.micro) + 1
        /\ Once(Append(s.micro, h))
    BY <2>2, <2>4, Appended DEF Lists
  <2>6. /\ u \in SlotStates /\ u.active = t.active /\ u.waiters = t.waiters
        /\ u.micro = t.micro /\ Elems(u.listeners) = Elems(t.listeners) \ {h}
        /\ Once(u.listeners)
    BY <1>1, UnlistenIs DEF Lists
  <2> HIDE DEF u
  <2>7. /\ r \in SlotStates /\ r.active = t.active /\ r.waiters = Tail(s.waiters)
        /\ r.micro = Append(s.micro, h) /\ r.listeners = u.listeners
    BY <1>1, <2>3, <2>5, <2>6 DEF SlotStates
  <2> HIDE DEF r
  <2>8. Lists(r)
    BY <1>1, <2>3, <2>5, <2>6, <2>7 DEF Lists
  <2>9. Len(s.micro) \in Nat
    BY <2>2
  <2>10. \A c \in Elems(s.listeners) : c \notin Elems(s.waiters) => c \in Elems(r.listeners)
    BY <1>1, <2>3, <2>6, <2>7
  <2>11. Elems(r.waiters) \cup Elems(r.micro) = Elems(s.waiters) \cup Elems(s.micro)
    BY <2>3, <2>5, <2>7
  <2> QED
    BY <1>1, <2>1, <2>3, <2>5, <2>6, <2>7, <2>8, <2>9, <2>10, <2>11
<1> QED
  BY <1>2, <1>3

-----------------------------------------------------------------------------
\* A run of listeners: Firing(sig) is defined, entry by entry.
Less == {p \in Nat \X Nat : p[1] < p[2]}

LEMMA LeastNat ==
  ASSUME NEW T \in SUBSET Nat, T # {}
  PROVE  \E n \in T : \A m \in T : n <= m
<1>1. IsWellFoundedOn(Less, Nat)
  BY NatLessThanWellFounded DEF OpToRel, Less
<1>2. PICK x \in T : \A y \in T : <<y, x>> \notin Less
  BY <1>1, WFMin
<1>3. \A y \in T : ~(y < x)
  <2> SUFFICES ASSUME NEW y \in T, y < x PROVE FALSE
    OBVIOUS
  <2>1. <<y, x>> \in Nat \X Nat /\ <<y, x>>[1] < <<y, x>>[2]
    OBVIOUS
  <2> QED
    BY <1>2, <2>1 DEF Less
<1> QED
  BY <1>3

LEMMA FiringIs ==
  ASSUME NEW sig, NEW n \in Nat, n = Len(slots.listeners)
  PROVE  /\ Firing(sig)[0] = slots
         /\ \A i \in 1 .. n :
              Firing(sig)[i] = Fired(Firing(sig)[i - 1], slots.listeners[i], sig)
<1> DEFINE Body(f, i) == IF i = 0 THEN slots ELSE Fired(f[i - 1], slots.listeners[i], sig)
           Made(f, k) == f = [i \in 0 .. k |-> Body(f, i)]
           Bad == {k \in 0 .. n : ~ \E f : Made(f, k)}
<1>1. Bad = {}
  <2> SUFFICES ASSUME Bad # {} PROVE FALSE
    OBVIOUS
  <2>1. Bad \in SUBSET Nat
    OBVIOUS
  <2>2. PICK k \in Bad : \A m \in Bad : k <= m
    BY <2>1, LeastNat
  <2>3. CASE k = 0
    <3>1. Made([i \in 0 .. 0 |-> slots], 0)
      OBVIOUS
    <3> QED
      BY <3>1, <2>2, <2>3
  <2>4. CASE k # 0
    <3>1. k - 1 \in 0 .. n /\ ~(k <= k - 1) /\ k \in 0 .. n
      BY <2>2, <2>4
    <3>2. PICK f : Made(f, k - 1)
      BY <3>1, <2>2
    <3> DEFINE g == [i \in 0 .. k |-> IF i = k THEN Body(f, k) ELSE f[i]]
    <3>3. ASSUME NEW i \in 0 .. k PROVE g[i] = Body(g, i)
      <4>1. CASE i = 0
        BY <4>1, <3>1, <3>2, <2>4
      <4>2. CASE i # 0
        <5>1. i - 1 \in 0 .. k - 1 /\ i - 1 # k /\ i - 1 \in 0 .. k
          BY <4>2, <3>1
        <5>2. g[i - 1] = f[i - 1]
          BY <5>1
        <5>3. i # k => i \in 0 .. k - 1
          BY <3>1
        <5>4. i # k => f[i] = Body(f, i)
          BY <5>3, <3>2
        <5> QED
          BY <5>2, <5>4
      <4> QED
        BY <4>1, <4>2
    <3>4. Made(g, k)
      BY <3>3
    <3> QED
      BY <3>4, <2>2
  <2> QED
    BY <2>3, <2>4
<1>2. \E f : Made(f, n)
  BY <1>1
<1>3. Made(Firing(sig), n)
  BY <1>2 DEF Firing
<1> DEFINE F == Firing(sig)
<1> HIDE DEF F
<1>4. Made(F, n)
  BY <1>3 DEF F
<1>5. \A i \in 0 .. n : F[i] = Body(F, i)
  BY <1>4
<1>6. 0 \in 0 .. n /\ \A i \in 1 .. n : i \in 0 .. n /\ i # 0
  OBVIOUS
<1> QED
  BY <1>5, <1>6 DEF F

-----------------------------------------------------------------------------
\* The loop of an abort. Behind it are the calls of sig among the first i
\* listeners; it has given back the slots of those and nothing else.
Behind(sig, i) ==
    {c \in Calls : SignalOf[c] = sig
                     /\ \E j \in 1 .. i : j \in DOMAIN slots.listeners /\ slots.listeners[j] = c}

LoopInv(s, sig, i) ==
    /\ s \in SlotStates /\ Lists(s)
    /\ Elems(s.waiters) \cup Elems(s.micro) \subseteq Elems(slots.waiters)
    /\ Elems(s.listeners) \subseteq Elems(slots.listeners)
    /\ Elems(s.listeners) \cap Behind(sig, i) = {}
    /\ Running \ Behind(sig, i) \subseteq Elems(s.listeners)
    /\ Counted(s, Running \ Behind(sig, i))

LEMMA LoopStep ==
  ASSUME NEW sig, NEW s, NEW i \in DOMAIN slots.listeners,
         MaxChildren \in Nat, IsFiniteSet(Calls), IInv, Quiet, LoopInv(s, sig, i - 1)
  PROVE  LoopInv(Fired(s, slots.listeners[i], sig), sig, i)
<1> DEFINE c == slots.listeners[i]
           B0 == Behind(sig, i - 1)
           B1 == Behind(sig, i)
           R0 == Running \ B0
           R1 == Running \ B1
<1>1. /\ slots.listeners \in Seq(Calls) /\ Once(slots.listeners) /\ i \in Nat /\ i >= 1
      /\ c \in Calls /\ c \in Elems(slots.listeners)
  BY DEF IInv, TypeOK, SlotStates, Lists, Elems
<1>2. B1 = IF SignalOf[c] = sig THEN B0 \cup {c} ELSE B0
  <2>1. \A j \in 1 .. i : j \in 1 .. i - 1 \/ j = i
    BY <1>1
  <2>2. \A j \in 1 .. i - 1 : j \in 1 .. i
    BY <1>1
  <2>3. i \in 1 .. i
    BY <1>1
  <2> QED
    BY <1>1, <2>1, <2>2, <2>3 DEF Behind
<1>3. c \notin B0
  <2>1. \A j \in 1 .. i - 1 : j # i
    BY <1>1
  <2> QED
    BY <1>1, <2>1 DEF Behind, Once
<1>4. /\ s \in SlotStates /\ Lists(s) /\ Len(s.micro) \in Nat /\ s.active \in Nat
      /\ Elems(s.waiters) \cup Elems(s.micro) \subseteq Elems(slots.waiters)
      /\ Elems(s.listeners) \subseteq Elems(slots.listeners)
      /\ Elems(s.listeners) \cap B0 = {} /\ R0 \subseteq Elems(s.listeners)
      /\ s.active = Cardinality(R0) /\ s.active + Len(s.micro) <= MaxChildren
  BY DEF LoopInv, SlotStates, Counted
<1>5. \A x \in Elems(slots.waiters) : pc[x] = "queued"
  BY DEF IInv, Places
<1>6. IsFiniteSet(R0)
  BY FS_Subset DEF Running
<1> HIDE DEF B0, B1, c
<1>7. CASE SignalOf[c] # sig
  <2>1. Fired(s, c, sig) = s /\ B1 = B0
    BY <1>7, <1>2 DEF Fired
  <2> QED
    BY <2>1 DEF LoopInv, B0, B1, c
<1>8. CASE SignalOf[c] = sig /\ c \notin Elems(s.listeners)
  <2>1. Fired(s, c, sig) = s /\ R1 = R0 /\ B1 = B0 \cup {c}
    BY <1>8, <1>2, <1>4 DEF Fired
  <2>2. Elems(s.listeners) \cap B1 = {}
    BY <2>1, <1>4, <1>8
  <2>3. LoopInv(s, sig, i)
    BY <2>1, <2>2, <1>4 DEF LoopInv, Counted, B1
  <2> QED
    BY <2>1, <2>3 DEF c
<1>9. CASE SignalOf[c] = sig /\ c \in Elems(s.listeners) /\ c \in Elems(s.waiters)
  <2> DEFINE t == Fired(s, c, sig)
  <2>1. t = [Unlisten(s, c) EXCEPT !.waiters = Without(@, c)]
    BY <1>9 DEF Fired
  <2>2. c \notin Elems(s.micro)
    BY <1>4, <1>9 DEF Lists
  <2>3. /\ t \in SlotStates /\ Lists(t) /\ t.active = s.active /\ t.micro = s.micro
        /\ Elems(t.waiters) = Elems(s.waiters) \ {c}
        /\ Elems(t.listeners) = Elems(s.listeners) \ {c}
    <3> DEFINE r == [Unlisten(s, c) EXCEPT !.waiters = Without(@, c)]
    <3>1. /\ r \in SlotStates /\ Lists(r) /\ r.active = s.active /\ r.micro = s.micro
          /\ Elems(r.waiters) = Elems(s.waiters) \ {c}
          /\ Elems(r.listeners) = Elems(s.listeners) \ {c}
      BY <2>2, <1>4, LeaveIs
    <3>2. t = r
      BY <2>1
    <3> HIDE DEF t, r
    <3> QED
      BY <3>1, <3>2
  <2> HIDE DEF t
  <2>4. c \notin Running
    BY <1>4, <1>5, <1>9 DEF Running
  <2>5. R1 = R0 /\ B1 = B0 \cup {c}
    BY <2>4, <1>2, <1>9
  <2>6. Elems(t.listeners) \cap B1 = {} /\ R1 \subseteq Elems(t.listeners)
    BY <2>3, <2>4, <2>5, <1>4
  <2>7. LoopInv(t, sig, i)
    BY <2>3, <2>5, <2>6, <1>4 DEF LoopInv, Counted, B1
  <2> QED
    BY <2>7 DEF t, c
<1>10. CASE /\ SignalOf[c] = sig /\ c \in Elems(s.listeners) /\ c \notin Elems(s.waiters)
            /\ pc[c] = "running"
  <2> DEFINE u == Unlisten(s, c)
             t == Released(u)
  <2>1. Fired(s, c, sig) = t
    BY <1>10 DEF Fired
  <2>2. /\ u \in SlotStates /\ u.active = s.active /\ u.waiters = s.waiters
        /\ u.micro = s.micro /\ Elems(u.listeners) = Elems(s.listeners) \ {c}
        /\ Once(u.listeners)
    BY <1>4, UnlistenIs DEF Lists
  <2> HIDE DEF u
  <2>3. Lists(u)
    BY <2>2, <1>4, <1>10 DEF Lists
  <2>4. c \in R0 /\ R1 = R0 \ {c} /\ B1 = B0 \cup {c}
    BY <1>1, <1>2, <1>3, <1>10 DEF Running, c
  <2>5. /\ Cardinality(R1) = Cardinality(R0) - 1 /\ Cardinality(R0) \in Nat
        /\ Cardinality(R1) \in Nat
    <3>1. IsFiniteSet(R1)
      BY <1>6, <2>4, FS_Subset
    <3> HIDE DEF R0, R1
    <3> QED
      BY <1>6, <2>4, <3>1, FS_RemoveElement, FS_CardinalityType
  <2>6. u.active >= 1
    BY <2>2, <2>5, <1>4
  <2>7. /\ t \in SlotStates /\ Lists(t) /\ t.active = s.active - 1
        /\ Elems(t.waiters) \cup Elems(t.micro) = Elems(s.waiters) \cup Elems(s.micro)
        /\ Elems(t.listeners) \subseteq Elems(u.listeners)
        /\ \A x \in Elems(u.listeners) : x \notin Elems(u.waiters) => x \in Elems(t.listeners)
        /\ Len(t.micro) <= Len(s.micro) + 1
    BY <2>2, <2>3, <2>6, ReleasedIs
  <2> HIDE DEF t
  <2>8. t.active = Cardinality(R1) /\ t.active + Len(t.micro) <= MaxChildren
    <3>1. Len(t.micro) \in Nat /\ t.active \in Nat
      BY <2>7 DEF SlotStates
    <3> HIDE DEF R0, R1
    <3> QED
      BY <3>1, <2>5, <2>7, <1>4
  <2>9. Elems(t.listeners) \cap B1 = {}
    BY <2>2, <2>4, <2>7, <1>4
  <2>10. R1 \subseteq Elems(t.listeners)
    <3>1. \A x \in R1 : x \notin Elems(s.waiters)
      BY <1>4, <1>5 DEF Running
    <3> QED
      BY <3>1, <2>2, <2>4, <2>7, <1>4
  <2>11. LoopInv(t, sig, i)
    BY <2>2, <2>7, <2>8, <2>9, <2>10, <1>4 DEF LoopInv, Counted, B1
  <2> QED
    BY <2>1, <2>11 DEF c
<1>11. CASE /\ SignalOf[c] = sig /\ c \in Elems(s.listeners) /\ c \notin Elems(s.waiters)
            /\ pc[c] # "running"
  <2> DEFINE u == Unlisten(s, c)
  <2>1. Fired(s, c, sig) = u
    BY <1>11 DEF Fired
  <2>2. /\ u \in SlotStates /\ u.active = s.active /\ u.waiters = s.waiters
        /\ u.micro = s.micro /\ Elems(u.listeners) = Elems(s.listeners) \ {c}
        /\ Once(u.listeners)
    BY <1>4, UnlistenIs DEF Lists
  <2> HIDE DEF u
  <2>3. Lists(u)
    BY <2>2, <1>4, <1>11 DEF Lists
  <2>4. R1 = R0 /\ B1 = B0 \cup {c}
    BY <1>2, <1>11 DEF Running
  <2>5. Elems(u.listeners) \cap B1 = {} /\ R1 \subseteq Elems(u.listeners)
    BY <2>2, <2>4, <1>4, <1>11 DEF Running
  <2>6. LoopInv(u, sig, i)
    BY <2>2, <2>3, <2>4, <2>5, <1>4 DEF LoopInv, Counted, B1
  <2> QED
    BY <2>1, <2>6 DEF c
<1> QED
  BY <1>7, <1>8, <1>9, <1>10, <1>11 DEF c

LEMMA LoopEnds ==
  ASSUME NEW sig, MaxChildren \in Nat, IsFiniteSet(Calls), IInv, Quiet
  PROVE  LET after == Firing(sig)[Len(slots.listeners)]
             mine == {c \in Calls : SignalOf[c] = sig}
         IN  /\ after \in SlotStates /\ Lists(after)
             /\ Elems(after.waiters) \cup Elems(after.micro) \subseteq Elems(slots.waiters)
             /\ Elems(after.listeners) \subseteq Elems(slots.listeners)
             /\ Elems(after.listeners) \cap mine = {}
             /\ Running \ mine \subseteq Elems(after.listeners)
             /\ Counted(after, Running \ mine)
<1> DEFINE n == Len(slots.listeners)
           L == slots.listeners
           F == Firing(sig)
           mine == {c \in Calls : SignalOf[c] = sig}
<1>1. L \in Seq(Calls) /\ n \in Nat /\ DOMAIN L = 1 .. n
  BY DEF IInv, TypeOK, SlotStates
<1>2. F[0] = slots /\ \A i \in 1 .. n : F[i] = Fired(F[i - 1], L[i], sig)
  BY <1>1, FiringIs
<1>3. LoopInv(slots, sig, 0)
  <2>1. Behind(sig, 0) = {}
    BY DEF Behind
  <2>2. Running \ {} = Running
    OBVIOUS
  <2>3. slots.micro = <<>> /\ Elems(slots.micro) = {}
    BY DEF Quiet, Elems
  <2> QED
    BY <2>1, <2>2, <2>3 DEF LoopInv, IInv, TypeOK, Places
<1> HIDE DEF F
<1>4. \A i \in 0 .. n : LoopInv(F[i], sig, i)
  <2> DEFINE Bad == {i \in 0 .. n : ~LoopInv(F[i], sig, i)}
  <2> SUFFICES ASSUME Bad # {} PROVE FALSE
    OBVIOUS
  <2>1. Bad \in SUBSET Nat
    OBVIOUS
  <2>2. PICK k \in Bad : \A m \in Bad : k <= m
    BY <2>1, LeastNat
  <2>3. k # 0
    BY <2>2, <1>2, <1>3
  <2>4. k \in 1 .. n /\ k - 1 \in 0 .. n /\ ~(k <= k - 1)
    BY <2>2, <2>3, <1>1
  <2>5. LoopInv(F[k - 1], sig, k - 1)
    BY <2>2, <2>4
  <2>6. LoopInv(Fired(F[k - 1], L[k], sig), sig, k)
    BY <2>4, <2>5, <1>1, LoopStep
  <2> QED
    BY <2>2, <2>4, <2>6, <1>2
<1>5. LoopInv(F[n], sig, n)
  BY <1>1, <1>4
<1>6. Behind(sig, n) = mine \cap Elems(L)
  BY <1>1 DEF Behind, Elems
<1>7. Running \ Behind(sig, n) = Running \ mine
  BY <1>6 DEF IInv, Places
<1>8. Elems(F[n].listeners) \cap mine = {}
  BY <1>5, <1>6 DEF LoopInv
<1> QED
  BY <1>5, <1>7, <1>8 DEF LoopInv, F

-----------------------------------------------------------------------------
\* The runs that settle end, with those that had joined them; all other calls
\* stay where they are.
LEMMA SettleIs ==
  ASSUME NEW cs \in SUBSET Calls, IInv, Settle(cs), None \notin Calls
  PROVE  /\ pc' \in [Calls -> Pcs] /\ launch' \in Calls \cup {None}
         /\ joined' \in [Calls -> Calls \cup {None}]
         /\ \A c \in Calls : pc'[c] \in {pc[c], "ended"}
         /\ \A c \in cs : pc'[c] = "ended"
         /\ \A c \in Calls \ cs : pc[c] # "joined" => pc'[c] = pc[c]
         /\ \A c \in Calls : joined'[c] # None => pc'[c] = "joined"
<1> DEFINE Over(c) == c \in cs \/ joined[c] \in cs
<1>1. /\ pc' = [c \in Calls |-> IF Over(c) THEN "ended" ELSE pc[c]]
      /\ joined' = [c \in Calls |-> IF Over(c) THEN None ELSE joined[c]]
      /\ launch' = IF launch \in cs THEN None ELSE launch
  BY DEF Settle
<1>2. \A c \in Calls : joined[c] # None => pc[c] = "joined"
  BY DEF IInv
<1>3. /\ pc \in [Calls -> Pcs] /\ launch \in Calls \cup {None}
      /\ joined \in [Calls -> Calls \cup {None}] /\ "ended" \in Pcs
  BY DEF IInv, TypeOK, Pcs
<1>4. \A c \in Calls : joined[c] \in cs => pc[c] = "joined"
  BY <1>2
<1>5. pc' \in [Calls -> Pcs] /\ joined' \in [Calls -> Calls \cup {None}]
  BY <1>1, <1>3
<1> QED
  BY <1>1, <1>2, <1>3, <1>4, <1>5

\* A step that ends the calls cs and leaves the slots s keeps IInv, when s has
\* no trace of them in the queue and counts the holders that are left.
LEMMA EndsKeep ==
  ASSUME NEW cs \in SUBSET Calls, NEW s, None \notin Calls, IInv, Settle(cs), slots' = s,
         s \in SlotStates, Lists(s),
         Elems(s.waiters) \cup Elems(s.micro) \subseteq Elems(slots.waiters) \cup Elems(slots.micro),
         (Elems(s.waiters) \cup Elems(s.micro)) \cap cs = {},
         \A c \in Elems(s.listeners) : c \in cs \/ pc[c] \notin {"new", "joined"},
         Running \ cs \subseteq Elems(s.listeners), Counted(s, Running \ cs)
  PROVE  IInv'
<1>1. /\ pc' \in [Calls -> Pcs] /\ launch' \in Calls \cup {None}
      /\ joined' \in [Calls -> Calls \cup {None}]
      /\ \A c \in Calls : pc'[c] \in {pc[c], "ended"}
      /\ \A c \in cs : pc'[c] = "ended"
      /\ \A c \in Calls \ cs : pc[c] # "joined" => pc'[c] = pc[c]
      /\ \A c \in Calls : joined'[c] # None => pc'[c] = "joined"
  BY SettleIs
<1>2. Running' = Running \ cs
  BY <1>1 DEF Running
<1>3. /\ Elems(s.waiters) \subseteq Calls /\ Elems(s.micro) \subseteq Calls
      /\ Elems(s.listeners) \subseteq Calls
  BY ElemsIn DEF SlotStates
<1>4. \A c \in Elems(slots.waiters) \cup Elems(slots.micro) : pc[c] = "queued"
  BY DEF IInv, Places
<1>5. \A c \in Elems(s.waiters) \cup Elems(s.micro) : pc'[c] = "queued"
  BY <1>1, <1>3, <1>4
<1>6. \A c \in Elems(s.listeners) : pc'[c] \notin {"new", "joined"}
  BY <1>1, <1>3
<1>7. Lists(slots)' /\ Places(slots)' /\ Counted(slots, Running)'
  BY <1>2, <1>5, <1>6 DEF Lists, Places, Counted
<1> QED
  BY <1>1, <1>7 DEF IInv, TypeOK

\* The call c goes on with the slots s, in which it has no place: it ends, or
\* it takes a slot that is free or promised to it.
LEMMA ProceedKeeps ==
  ASSUME NEW c \in Calls, NEW s \in SlotStates, MaxChildren \in Nat, None \notin Calls,
         IsFiniteSet(Calls), IInv, Proceed(c, s), pc[c] \in {"new", "queued"},
         Lists(s), s.active = slots.active, s.listeners = slots.listeners,
         c \notin Elems(s.waiters), c \notin Elems(s.micro), c \notin Elems(s.listeners),
         Elems(s.waiters) \cup Elems(s.micro) \subseteq Elems(slots.waiters) \cup Elems(slots.micro),
         s.active + Len(s.micro) <= MaxChildren,
         ~ (Cancelled(c) \/ c \in late) => s.active + 1 + Len(s.micro) <= MaxChildren
  PROVE  IInv'
<1>1. /\ \A x \in Elems(slots.waiters) \cup Elems(slots.micro) : pc[x] = "queued"
      /\ \A x \in Elems(slots.listeners) : pc[x] \notin {"new", "joined"}
      /\ Running \subseteq Elems(slots.listeners) /\ slots.active = Cardinality(Running)
  BY DEF IInv, Places, Counted
<1>2. CASE Cancelled(c) \/ c \in late
  <2>1. Settle({c}) /\ slots' = s
    BY <1>2 DEF Proceed
  <2>2. Running \ {c} = Running
    BY DEF Running
  <2>3. Counted(s, Running \ {c}) /\ Running \ {c} \subseteq Elems(s.listeners)
    BY <1>1, <2>2 DEF Counted
  <2> QED
    BY <1>1, <2>1, <2>3, EndsKeep
<1>3. CASE ~ (Cancelled(c) \/ c \in late)
  <2> DEFINE t == [s EXCEPT !.active = @ + 1, !.listeners = Append(@, c)]
  <2>1. /\ pc' = [pc EXCEPT ![c] = "running"] /\ slots' = t
        /\ launch' = (IF c \in Launches THEN c ELSE launch) /\ joined' = joined
    BY <1>3 DEF Proceed
  <2>2. /\ Append(s.listeners, c) \in Seq(Calls)
        /\ Elems(Append(s.listeners, c)) = Elems(s.listeners) \cup {c}
        /\ Once(Append(s.listeners, c))
    <3>1. s.listeners \in Seq(Calls)
      BY DEF SlotStates
    <3> QED
      BY <3>1, Appended DEF Lists
  <2>3. /\ t \in SlotStates /\ t.active = s.active + 1 /\ t.waiters = s.waiters
        /\ t.micro = s.micro /\ t.listeners = Append(s.listeners, c)
    <3>1. s.active \in Nat
      BY DEF SlotStates
    <3>2. s.active + 1 \in Nat
      BY <3>1
    <3> QED
      BY <3>2, <2>2 DEF SlotStates
  <2> HIDE DEF t
  <2>4. /\ pc \in [Calls -> Pcs] /\ launch \in Calls \cup {None}
        /\ joined \in [Calls -> Calls \cup {None}]
        /\ \A x \in Calls : joined[x] # None => pc[x] = "joined"
    BY DEF IInv, TypeOK
  <2>5. /\ pc' \in [Calls -> Pcs] /\ pc'[c] = "running"
        /\ \A x \in Calls : x # c => pc'[x] = pc[x]
    BY <2>1, <2>4 DEF Pcs
  <2>6. Running' = Running \cup {c} /\ c \notin Running
    BY <2>5 DEF Running
  <2>7. Cardinality(Running \cup {c}) = Cardinality(Running) + 1
    <3>1. IsFiniteSet(Running)
      BY FS_Subset DEF Running
    <3> QED
      BY <3>1, <2>6, FS_AddElement
  <2>8. TypeOK'
    BY <2>1, <2>3, <2>4, <2>5 DEF TypeOK
  <2>9. Lists(slots)'
    BY <2>1, <2>2, <2>3 DEF Lists
  <2>10. Places(slots)'
    <3>1. Elems(s.waiters) \subseteq Calls /\ Elems(s.micro) \subseteq Calls
          /\ Elems(s.listeners) \subseteq Calls
      BY ElemsIn DEF SlotStates
    <3>2. \A x \in Elems(s.waiters) \cup Elems(s.micro) : pc'[x] = "queued"
      BY <1>1, <2>5, <3>1
    <3>3. \A x \in Elems(s.listeners) \cup {c} : pc'[x] \notin {"new", "joined"}
      BY <1>1, <2>5, <3>1
    <3> QED
      BY <1>1, <2>1, <2>2, <2>3, <2>6, <3>2, <3>3 DEF Places
  <2>11. Counted(slots, Running)'
    BY <1>1, <1>3, <2>1, <2>3, <2>6, <2>7 DEF Counted
  <2>12. (\A x \in Calls : joined[x] # None => pc[x] = "joined")'
    BY <2>1, <2>4, <2>5
  <2> QED
    BY <2>8, <2>9, <2>10, <2>11, <2>12 DEF IInv
<1> QED
  BY <1>2, <1>3

-----------------------------------------------------------------------------
LEMMA InitHolds ==
  ASSUME MaxChildren \in Nat, Init PROVE IInv
<1>1. slots \in SlotStates
  BY DEF Init, SlotStates
<1>2. Running = {} /\ Cardinality(Running) = 0
  BY FS_EmptySet DEF Init, Running
<1>3. Elems(<<>>) = {} /\ Once(<<>>) /\ Len(<<>>) = 0
  BY DEF Elems, Once
<1>4. TypeOK
  BY <1>1 DEF Init, TypeOK, Pcs
<1>5. Lists(slots) /\ Places(slots)
  BY <1>2, <1>3 DEF Init, Lists, Places
<1>6. Counted(slots, Running)
  BY <1>2, <1>3 DEF Init, Counted
<1>7. \A c \in Calls : joined[c] # None => pc[c] = "joined"
  BY DEF Init
<1> QED
  BY <1>4, <1>5, <1>6, <1>7 DEF IInv

\* A run that settles by itself: its listener goes and its slot is released.
LEMMA ReleaseKeeps ==
  ASSUME NEW c \in Calls, MaxChildren \in Nat, None \notin Calls, IsFiniteSet(Calls), IInv, Quiet,
         pc[c] = "running", slots' = Released(Unlisten(slots, c)), Settle({c})
  PROVE  IInv'
<1> DEFINE u == Unlisten(slots, c)
           t == Released(u)
<1>1. /\ slots \in SlotStates /\ Lists(slots) /\ slots.active = Cardinality(Running)
      /\ slots.active + Len(slots.micro) <= MaxChildren /\ Running \subseteq Elems(slots.listeners)
      /\ \A x \in Elems(slots.waiters) : pc[x] = "queued"
      /\ \A x \in Elems(slots.listeners) : pc[x] \notin {"new", "joined"}
  BY DEF IInv, TypeOK, Places, Counted
<1>2. /\ u \in SlotStates /\ u.active = slots.active /\ u.waiters = slots.waiters
      /\ u.micro = slots.micro /\ Elems(u.listeners) = Elems(slots.listeners) \ {c}
      /\ Once(u.listeners)
  BY <1>1, UnlistenIs DEF Lists
<1> HIDE DEF u
<1>3. c \in Running /\ c \notin Elems(slots.waiters) /\ slots.micro = <<>>
  BY <1>1 DEF Running, Quiet
<1>4. Lists(u)
  BY <1>1, <1>2, <1>3 DEF Lists
<1>5. /\ Cardinality(Running \ {c}) = Cardinality(Running) - 1
      /\ Cardinality(Running) \in Nat /\ Cardinality(Running \ {c}) \in Nat
  <2>1. IsFiniteSet(Running) /\ IsFiniteSet(Running \ {c})
    BY FS_Subset DEF Running
  <2> QED
    BY <1>3, <2>1, FS_RemoveElement, FS_CardinalityType
<1>6. /\ t \in SlotStates /\ Lists(t) /\ t.active = slots.active - 1
      /\ Elems(t.waiters) \cup Elems(t.micro) = Elems(slots.waiters) \cup Elems(slots.micro)
      /\ Elems(t.listeners) \subseteq Elems(u.listeners)
      /\ \A x \in Elems(u.listeners) : x \notin Elems(u.waiters) => x \in Elems(t.listeners)
      /\ Len(t.micro) <= Len(slots.micro) + 1
  <2>1. u.active >= 1
    BY <1>1, <1>2, <1>5
  <2> QED
    BY <2>1, <1>2, <1>4, ReleasedIs
<1> HIDE DEF t
<1>7. Counted(t, Running \ {c})
  <2>1. Len(t.micro) \in Nat /\ t.active \in Nat /\ Len(slots.micro) = 0
    BY <1>3, <1>6 DEF SlotStates
  <2> QED
    BY <2>1, <1>1, <1>5, <1>6 DEF Counted
<1>8. Running \ {c} \subseteq Elems(t.listeners)
  BY <1>1, <1>2, <1>6 DEF Running
<1>9. (Elems(t.waiters) \cup Elems(t.micro)) \cap {c} = {}
  <2>1. Elems(<<>>) = {}
    BY DEF Elems
  <2> QED
    BY <2>1, <1>3, <1>6
<1>10. \A x \in Elems(t.listeners) : x \in {c} \/ pc[x] \notin {"new", "joined"}
  BY <1>1, <1>2, <1>6
<1>11. slots' = t /\ {c} \in SUBSET Calls
  BY DEF t, u
<1> QED
  BY <1>6, <1>7, <1>8, <1>9, <1>10, <1>11, EndsKeep

LEMMA JoinKeeps ==
  ASSUME NEW c \in Calls, None \notin Calls, IInv, Join(c) PROVE IInv'
<1>1. /\ pc \in [Calls -> Pcs] /\ launch \in Calls \cup {None} /\ slots \in SlotStates
      /\ joined \in [Calls -> Calls \cup {None}] /\ pc[c] = "new" /\ launch # None
      /\ slots' = slots /\ launch' = launch
      /\ \A x \in Calls : joined[x] # None => pc[x] = "joined"
  BY DEF IInv, TypeOK, Join
<1>2. /\ pc' \in [Calls -> Pcs] /\ pc'[c] \in {"ended", "joined"}
      /\ \A x \in Calls : x # c => pc'[x] = pc[x]
      /\ joined' \in [Calls -> Calls \cup {None}]
      /\ \A x \in Calls : joined'[x] # None => pc'[x] = "joined"
  BY <1>1 DEF Join, Pcs
<1>3. TypeOK'
  BY <1>1, <1>2 DEF TypeOK
<1>4. Lists(slots) /\ Places(slots) /\ Counted(slots, Running)
  BY DEF IInv
<1>5. Running' = Running
  BY <1>1, <1>2 DEF Running
<1>6. Elems(slots.waiters) \subseteq Calls /\ Elems(slots.micro) \subseteq Calls
      /\ Elems(slots.listeners) \subseteq Calls
  BY <1>1, ElemsIn DEF SlotStates
<1>7. c \notin Elems(slots.waiters) /\ c \notin Elems(slots.micro) /\ c \notin Elems(slots.listeners)
  BY <1>1, <1>4 DEF Places
<1>8. Places(slots)'
  BY <1>1, <1>2, <1>4, <1>5, <1>6, <1>7 DEF Places
<1>9. Lists(slots)' /\ Counted(slots, Running)'
  BY <1>1, <1>4, <1>5 DEF Lists, Counted
<1> QED
  BY <1>2, <1>3, <1>8, <1>9 DEF IInv

LEMMA CallKeeps ==
  ASSUME NEW c \in Calls, MaxChildren \in Nat, None \notin Calls, IsFiniteSet(Calls), IInv, Call(c)
  PROVE  IInv'
<1>1. /\ pc \in [Calls -> Pcs] /\ launch \in Calls \cup {None} /\ slots \in SlotStates
      /\ joined \in [Calls -> Calls \cup {None}] /\ pc[c] = "new" /\ slots.micro = <<>>
      /\ \A x \in Calls : joined[x] # None => pc[x] = "joined"
  BY DEF IInv, TypeOK, Call, Quiet
<1>2. Lists(slots) /\ Places(slots) /\ Counted(slots, Running)
  BY DEF IInv
<1>3. c \notin Elems(slots.waiters) /\ c \notin Elems(slots.micro) /\ c \notin Elems(slots.listeners)
  BY <1>1, <1>2 DEF Places
<1>4. slots.active \in Nat /\ Len(slots.micro) = 0 /\ slots.active + Len(slots.micro) <= MaxChildren
  BY <1>1, <1>2 DEF SlotStates, Counted
<1>5. CASE slots.active < MaxChildren \/ Cancelled(c)
  <2>1. Proceed(c, slots)
    BY <1>5 DEF Call
  <2>2. ~ (Cancelled(c) \/ c \in late) => slots.active + 1 + Len(slots.micro) <= MaxChildren
    BY <1>4, <1>5
  <2> QED
    BY <1>1, <1>2, <1>3, <1>4, <2>1, <2>2, ProceedKeeps
<1>6. CASE ~ (slots.active < MaxChildren \/ Cancelled(c))
  <2> DEFINE t == [slots EXCEPT !.waiters = Append(@, c), !.listeners = Append(@, c)]
  <2>1. /\ pc' = [pc EXCEPT ![c] = "queued"] /\ slots' = t /\ joined' = joined
        /\ launch' \in {c, launch}
    BY <1>6 DEF Call
  <2>2. slots.waiters \in Seq(Calls) /\ slots.listeners \in Seq(Calls)
    BY <1>1 DEF SlotStates
  <2>3. /\ Append(slots.waiters, c) \in Seq(Calls) /\ Append(slots.listeners, c) \in Seq(Calls)
        /\ Elems(Append(slots.waiters, c)) = Elems(slots.waiters) \cup {c}
        /\ Elems(Append(slots.listeners, c)) = Elems(slots.listeners) \cup {c}
        /\ Once(Append(slots.waiters, c)) /\ Once(Append(slots.listeners, c))
    BY <2>2, <1>2, <1>3, Appended DEF Lists
  <2>4. /\ t \in SlotStates /\ t.active = slots.active /\ t.micro = slots.micro
        /\ t.waiters = Append(slots.waiters, c) /\ t.listeners = Append(slots.listeners, c)
    BY <1>1, <2>3 DEF SlotStates
  <2> HIDE DEF t
  <2>5. /\ pc' \in [Calls -> Pcs] /\ pc'[c] = "queued"
        /\ \A x \in Calls : x # c => pc'[x] = pc[x]
    BY <1>1, <2>1 DEF Pcs
  <2>6. Running' = Running
    BY <1>1, <2>5 DEF Running
  <2>7. Elems(slots.waiters) \subseteq Calls /\ Elems(slots.micro) \subseteq Calls
        /\ Elems(slots.listeners) \subseteq Calls
    BY <1>1, ElemsIn DEF SlotStates
  <2>8. Places(slots)'
    BY <1>2, <2>1, <2>3, <2>4, <2>5, <2>6, <2>7 DEF Places
  <2>9. Lists(slots)'
    BY <1>2, <1>3, <2>1, <2>3, <2>4 DEF Lists
  <2>10. Counted(slots, Running)'
    BY <1>2, <2>1, <2>4, <2>6 DEF Counted
  <2>11. TypeOK' /\ (\A x \in Calls : joined[x] # None => pc[x] = "joined")'
    BY <1>1, <2>1, <2>4, <2>5 DEF TypeOK
  <2> QED
    BY <2>8, <2>9, <2>10, <2>11 DEF IInv
<1> QED
  BY <1>5, <1>6

LEMMA ResumeKeeps ==
  ASSUME MaxChildren \in Nat, None \notin Calls, IsFiniteSet(Calls), IInv, Resume
  PROVE  IInv'
<1> DEFINE c == Head(slots.micro)
           s == [slots EXCEPT !.micro = Tail(@)]
<1>1. slots \in SlotStates /\ slots.micro # <<>> /\ slots.micro \in Seq(Calls) /\ Proceed(c, s)
  BY DEF IInv, TypeOK, Resume, Quiet, SlotStates
<1>2. Lists(slots) /\ Places(slots) /\ Counted(slots, Running)
  BY DEF IInv
<1>3. /\ c \in Elems(slots.micro) /\ Tail(slots.micro) \in Seq(Calls)
      /\ Elems(Tail(slots.micro)) = Elems(slots.micro) \ {c} /\ Once(Tail(slots.micro))
      /\ Len(Tail(slots.micro)) = Len(slots.micro) - 1 /\ Len(slots.micro) \in Nat
  BY <1>1, <1>2, HeadTail DEF Lists
<1>4. c \in Calls /\ pc[c] = "queued"
  BY <1>1, <1>2, <1>3, ElemsIn DEF Places
<1>5. /\ s \in SlotStates /\ s.active = slots.active /\ s.waiters = slots.waiters
      /\ s.micro = Tail(slots.micro) /\ s.listeners = slots.listeners
  BY <1>1, <1>3 DEF SlotStates
<1> HIDE DEF c, s
<1>6. Lists(s)
  BY <1>2, <1>3, <1>5 DEF Lists
<1>7. c \notin Elems(s.waiters) /\ c \notin Elems(s.micro) /\ c \notin Elems(s.listeners)
  BY <1>2, <1>3, <1>5 DEF Lists
<1>8. s.active + 1 + Len(s.micro) <= MaxChildren /\ s.active + Len(s.micro) <= MaxChildren
  <2>1. slots.active \in Nat /\ slots.active + Len(slots.micro) <= MaxChildren
    BY <1>1, <1>2 DEF SlotStates, Counted
  <2> QED
    BY <2>1, <1>3, <1>5
<1>9. Elems(s.waiters) \cup Elems(s.micro) \subseteq Elems(slots.waiters) \cup Elems(slots.micro)
  BY <1>3, <1>5
<1> QED
  BY <1>1, <1>4, <1>5, <1>6, <1>7, <1>8, <1>9, ProceedKeeps

LEMMA SameSlots ==
  ASSUME IInv, UNCHANGED <<pc, slots, launch, joined>> PROVE IInv'
<1>1. pc' = pc /\ slots' = slots /\ launch' = launch /\ joined' = joined
  OBVIOUS
<1>2. TypeOK' /\ Running' = Running
  BY <1>1 DEF IInv, TypeOK, Running
<1>3. Lists(slots)'
  BY <1>1 DEF IInv, Lists
<1>4. Places(slots)' /\ Counted(slots, Running)'
  BY <1>1, <1>2 DEF IInv, Places, Counted
<1> QED
  BY <1>1, <1>2, <1>3, <1>4 DEF IInv

LEMMA TimerKeeps ==
  ASSUME NEW c \in Calls, MaxChildren \in Nat, None \notin Calls, IsFiniteSet(Calls), IInv, Timer(c)
  PROVE  IInv'
<1>1. CASE pc[c] = "running"
  BY <1>1, ReleaseKeeps DEF Timer
<1>2. CASE pc[c] # "running"
  <2> DEFINE t == [slots EXCEPT !.waiters = Without(@, c)]
  <2>1. slots' = t /\ Settle({c}) /\ pc[c] \in {"queued", "joined"} /\ slots.micro = <<>>
    BY <1>2 DEF Timer, Quiet
  <2>2. /\ slots \in SlotStates /\ Lists(slots) /\ Places(slots) /\ Counted(slots, Running)
        /\ slots.waiters \in Seq(Calls)
    BY DEF IInv, TypeOK, SlotStates
  <2>3. /\ Without(slots.waiters, c) \in Seq(Calls) /\ Once(Without(slots.waiters, c))
        /\ Elems(Without(slots.waiters, c)) = Elems(slots.waiters) \ {c}
    BY <2>2, WithoutOne DEF Lists
  <2>4. /\ t \in SlotStates /\ t.active = slots.active /\ t.micro = slots.micro
        /\ t.waiters = Without(slots.waiters, c) /\ t.listeners = slots.listeners
    BY <2>2, <2>3 DEF SlotStates
  <2> HIDE DEF t
  <2>5. Lists(t) /\ Elems(t.micro) = {}
    <3>1. Elems(<<>>) = {}
      BY DEF Elems
    <3> QED
      BY <3>1, <2>1, <2>2, <2>3, <2>4 DEF Lists
  <2>6. Running \ {c} = Running
    BY <2>1 DEF Running
  <2>7. Counted(t, Running \ {c}) /\ Running \ {c} \subseteq Elems(t.listeners)
    BY <2>2, <2>4, <2>6 DEF Counted, Places
  <2>8. (Elems(t.waiters) \cup Elems(t.micro)) \cap {c} = {}
    BY <2>3, <2>4, <2>5
  <2>9. Elems(t.waiters) \cup Elems(t.micro) \subseteq Elems(slots.waiters) \cup Elems(slots.micro)
    BY <2>3, <2>4, <2>5
  <2>10. \A x \in Elems(t.listeners) : x \in {c} \/ pc[x] \notin {"new", "joined"}
    BY <2>2, <2>4 DEF Places
  <2> QED
    BY <2>1, <2>4, <2>5, <2>7, <2>8, <2>9, <2>10, EndsKeep
<1> QED
  BY <1>1, <1>2

LEMMA AbortKeeps ==
  ASSUME NEW sig, MaxChildren \in Nat, None \notin Calls, IsFiniteSet(Calls), IInv, Abort(sig)
  PROVE  IInv'
<1> DEFINE t == Firing(sig)[Len(slots.listeners)]
           mine == {c \in Calls : SignalOf[c] = sig}
           cs == {c \in Calls : SignalOf[c] = sig /\ c \notin Elems(t.micro)
                                  /\ pc[c] \in {"queued", "running", "joined"}}
<1>1. Quiet /\ slots' = t /\ Settle(cs)
  BY DEF Abort
<1>2. /\ t \in SlotStates /\ Lists(t)
      /\ Elems(t.waiters) \cup Elems(t.micro) \subseteq Elems(slots.waiters)
      /\ Elems(t.listeners) \subseteq Elems(slots.listeners)
      /\ Elems(t.listeners) \cap mine = {}
      /\ Running \ mine \subseteq Elems(t.listeners)
      /\ Counted(t, Running \ mine)
  BY <1>1, LoopEnds
<1> HIDE DEF t
<1>3. /\ \A x \in Elems(slots.waiters) : pc[x] = "queued"
      /\ \A x \in Elems(slots.listeners) : pc[x] \notin {"new", "joined"}
  BY DEF IInv, Places
<1>4. \A x \in Elems(t.micro) : pc[x] = "queued"
  BY <1>2, <1>3
<1>5. Running \ cs = Running \ mine
  BY <1>4 DEF Running
<1>6. Elems(t.waiters) \cap mine = {}
  BY <1>2 DEF Lists
<1>7. (Elems(t.waiters) \cup Elems(t.micro)) \cap cs = {}
  BY <1>6
<1>8. cs \in SUBSET Calls
  OBVIOUS
<1> HIDE DEF cs, mine
<1>9. /\ Running \ cs \subseteq Elems(t.listeners) /\ Counted(t, Running \ cs)
      /\ \A x \in Elems(t.listeners) : x \in cs \/ pc[x] \notin {"new", "joined"}
      /\ Elems(t.waiters) \cup Elems(t.micro) \subseteq Elems(slots.waiters) \cup Elems(slots.micro)
  BY <1>2, <1>3, <1>5
<1> QED
  BY <1>1, <1>2, <1>7, <1>8, <1>9, EndsKeep

\* Every step keeps the invariant.
LEMMA StepKeeps ==
  ASSUME MaxChildren \in Nat, None \notin Calls, IsFiniteSet(Calls), IInv, [Next]_vars
  PROVE  IInv'
<1>1. ASSUME NEW c \in Calls, Join(c) PROVE IInv'
  BY <1>1, JoinKeeps
<1>2. ASSUME NEW c \in Calls, Call(c) PROVE IInv'
  BY <1>2, CallKeeps
<1>3. ASSUME NEW c \in Calls, Close(c) PROVE IInv'
  <2>1. CASE pc[c] = "running"
    BY <1>3, <2>1, ReleaseKeeps DEF Close
  <2>2. CASE pc[c] # "running"
    BY <1>3, <2>2, SameSlots DEF Close
  <2> QED
    BY <2>1, <2>2
<1>4. ASSUME NEW c \in Calls, Expire(c) PROVE IInv'
  BY <1>4, SameSlots DEF Expire
<1>5. ASSUME NEW c \in Calls, Timer(c) PROVE IInv'
  BY <1>5, TimerKeeps
<1>6. CASE Resume
  BY <1>6, ResumeKeeps
<1>7. ASSUME NEW sig, Abort(sig) PROVE IInv'
  BY <1>7, AbortKeeps
<1>8. CASE UNCHANGED vars
  BY <1>8, SameSlots DEF vars
<1> QED
  BY <1>1, <1>2, <1>3, <1>4, <1>5, <1>6, <1>7, <1>8 DEF Next

\* acquireGoogleChildSlot(), runNodeChild(): at every moment the counter of
\* child processes is the number of runs that hold a slot, and it is at most
\* MaxChildren; through time-outs, aborts that end many calls at once, and
\* slots that are handed to a waiter before it takes them.
THEOREM SlotsCounted ==
  ASSUME MaxChildren \in Nat, IsFiniteSet(Calls), None \notin Calls
  PROVE  Spec => []SlotsHeld
<1>1. Init => IInv
  BY InitHolds
<1>2. IInv /\ [Next]_vars => IInv'
  BY StepKeeps
<1>3. IInv => SlotsHeld
  <2> SUFFICES ASSUME IInv PROVE SlotsHeld
    OBVIOUS
  <2>1. slots.active \in Nat /\ Len(slots.micro) \in Nat
    BY DEF IInv, TypeOK, SlotStates
  <2> QED
    BY <2>1 DEF IInv, Counted, SlotsHeld, Running
<1> QED
  BY <1>1, <1>2, <1>3, PTL DEF Spec

-----------------------------------------------------------------------------
(* ChromeLaunch *)

Chromes == {"none", "up", "serving", "second", "dying", "dead"}
Runs == {"new", "cleaned", "answer?", "launch", "ready?", "ended"}
Usable(p) == launch_chrome[p] \in {"up", "serving"}

\* One run at a time; a Chrome that lives is the recorded one, no other is on its
\* way out beside it, and none lives when a run is about to start one.
LaunchInv ==
    /\ launch_run \in [Launchers -> Runs]
    /\ launch_chrome \in [Launchers -> Chromes]
    /\ launch_pidFile \in Launchers \cup {None}
    /\ \A k, l \in Launchers :
          launch_run[k] \notin {"new", "ended"} /\ launch_run[l] \notin {"new", "ended"} => k = l
    /\ \A p, q \in Launchers :
          Usable(p) => /\ launch_pidFile = p
                       /\ launch_chrome[q] = "dying" => q = p
                       /\ launch_run[q] # "launch"

LEMMA LaunchInit == ASSUME Launch!Init PROVE LaunchInv
  BY DEF Launch!Init, LaunchInv, Chromes, Runs, Usable

LEMMA LaunchStep ==
  ASSUME Sequential, Prompt, ~Lsof, Launchers \cap Clients = {}, None \notin Launchers,
         LaunchInv, [Launch!Next]_(Launch!vars)
  PROVE  /\ LaunchInv'
         /\ \A p \in Launchers :
              launch_chrome[p] = "serving" /\ launch_chrome'[p] = "dying"
                => \E l \in Launchers : launch_run'[l] # launch_run[l] /\ launch_run[l] = "cleaned"
<1> DEFINE Spared == \A p \in Launchers :
              launch_chrome[p] = "serving" /\ launch_chrome'[p] = "dying"
                => \E l \in Launchers : launch_run'[l] # launch_run[l] /\ launch_run[l] = "cleaned"
<1> USE DEF LaunchInv, Usable, Chromes, Runs, Launch!Goto, Launch!files
<1>1. ASSUME NEW l \in Launchers, Launch!Cleanup(l) PROVE LaunchInv' /\ Spared
  <2>1. Launch!PortPids \subseteq Launchers
    BY DEF Launch!PortPids, Launch!Listening
  <2>2. ASSUME NEW k \in Launchers PROVE launch_run'[k] \notin {"new", "ended"} => k = l
    BY <1>1 DEF Launch!Cleanup
  <2>3. CASE UNCHANGED <<launch_chrome, launch_client, Launch!files>>
    BY <1>1, <2>2, <2>3 DEF Launch!Cleanup
  <2>4. ASSUME NEW p \in Launch!PortPids, ~(p = launch_pidFile /\ Launch!Alive(p)),
               Launch!Kill(p), launch_pidFile' = None
        PROVE  LaunchInv' /\ Spared
    <3>1. launch_chrome[p] \in {"serving", "dying"} /\ p \in Launchers /\ p \notin Clients
      BY <2>1, <2>4 DEF Launch!PortPids, Launch!Listening
    <3>2. Launch!Alive(p) /\ p # launch_pidFile
      BY <2>4, <3>1 DEF Launch!Alive
    <3>3. \A q \in Launchers : ~Usable(q)
      BY <3>1, <3>2
    <3>4. launch_chrome' = launch_chrome
      BY <2>4, <3>1, <3>2, <3>3 DEF Launch!Kill
    <3> QED
      BY <1>1, <2>2, <2>4, <3>3, <3>4 DEF Launch!Cleanup
  <2> QED
    BY <1>1, <2>3, <2>4 DEF Launch!Cleanup
<1>2. ASSUME NEW l \in Launchers, Launch!Stop(l) PROVE LaunchInv' /\ Spared
  BY <1>2 DEF Launch!Stop, Launch!Kill, Launch!Alive, Launch!PortPids, Launch!Listening
<1>3. ASSUME NEW l \in Launchers, Launch!Status(l) PROVE LaunchInv' /\ Spared
  BY <1>3 DEF Launch!Status
<1>4. ASSUME NEW l \in Launchers, Launch!Decide(l) PROVE LaunchInv' /\ Spared
  BY <1>4 DEF Launch!Decide, Launch!Kill, Launch!Alive
<1>5. ASSUME NEW l \in Launchers, Launch!AlreadyRunning(l) \/ Launch!Ready(l) \/ Launch!GivesUp(l)
      PROVE LaunchInv' /\ Spared
  BY <1>5 DEF Launch!AlreadyRunning, Launch!Ready, Launch!GivesUp
<1>6. ASSUME NEW l \in Launchers, Launch!StalePid(l) PROVE LaunchInv' /\ Spared
  BY <1>6 DEF Launch!StalePid, Launch!Serving
<1>7. ASSUME NEW l \in Launchers, Launch!Spawn(l) PROVE LaunchInv' /\ Spared
  BY <1>7 DEF Launch!Spawn
<1>8. ASSUME NEW p \in Launchers, Launch!ChromeStep(p) PROVE LaunchInv' /\ Spared
  BY <1>8 DEF Launch!ChromeStep
<1>9. ASSUME NEW c \in Clients, Launch!Connect(c) PROVE LaunchInv' /\ Spared
  BY <1>9 DEF Launch!Connect
<1>10. CASE UNCHANGED Launch!vars
  BY <1>10 DEF Launch!vars
<1> QED
  BY <1>1, <1>2, <1>3, <1>4, <1>5, <1>6, <1>7, <1>8, <1>9, <1>10 DEF Launch!Next

-----------------------------------------------------------------------------
(* CdpDaemon *)

DaemonBusy(k) == daemon_call[k] \notin {"new", "ended"} \/ Daemon!Starting(k)

\* One call or start at a time, so the path names the daemon that was started last,
\* if any, and the registry entry names the one the path names.
DaemonInv ==
    /\ daemon_call \in [CliCalls -> {"new", "look", "refused", "retry", "connected", "ended"}]
    /\ daemon_daemon \in [CliCalls -> {"none", "attach", "bound", "serving", "gone"}]
    /\ daemon_conn \in [CliCalls -> CliCalls \cup {None}]
    /\ daemon_path \in CliCalls \cup {None}
    /\ \A j, k \in CliCalls : DaemonBusy(j) /\ DaemonBusy(k) => j = k
    /\ \A d \in CliCalls :
          /\ daemon_daemon[d] = "attach" => daemon_path = None /\ daemon_call[d] \in {"retry", "ended"}
          /\ daemon_daemon[d] = "bound" => daemon_path \in {None, d}
          /\ daemon_call[d] = "connected" =>
                daemon_conn[d] \in CliCalls /\ daemon_path \in {None, daemon_conn[d]}
    /\ daemon_path # None /\ daemon_daemon[daemon_path] = "serving" /\ daemon_entry # None
          => daemon_entry.pid = daemon_path

LEMMA DaemonInit == ASSUME Daemon!Init PROVE DaemonInv
  BY DEF Daemon!Init, DaemonInv, DaemonBusy, Daemon!Starting

LEMMA DaemonStep ==
  ASSUME OneByOne, None \notin CliCalls, DaemonInv, [Daemon!Next]_(Daemon!vars)
  PROVE  DaemonInv'
<1> USE DEF DaemonInv, DaemonBusy, Daemon!Starting, Daemon!Goto, Daemon!Listens
<1>1. ASSUME NEW c \in CliCalls, Daemon!Look(c) PROVE DaemonInv'
  BY <1>1 DEF Daemon!Look
<1>2. ASSUME NEW c \in CliCalls, Daemon!Connect(c) PROVE DaemonInv'
  BY <1>2 DEF Daemon!Connect
<1>3. ASSUME NEW c \in CliCalls, Daemon!Refused(c) PROVE DaemonInv'
  BY <1>3 DEF Daemon!Refused
<1>4. ASSUME NEW c \in CliCalls, Daemon!Start(c) PROVE DaemonInv'
  BY <1>4 DEF Daemon!Start
<1>5. ASSUME NEW d \in CliCalls, Daemon!Bind(d) PROVE DaemonInv'
  BY <1>5 DEF Daemon!Bind
<1>6. ASSUME NEW d \in CliCalls, Daemon!Register(d) PROVE DaemonInv'
  BY <1>6 DEF Daemon!Register
<1>7. ASSUME NEW d \in CliCalls, Daemon!Shutdown(d) PROVE DaemonInv'
  BY <1>7 DEF Daemon!Shutdown
<1>8. ASSUME NEW c \in CliCalls, Daemon!Command(c) PROVE DaemonInv'
  BY <1>8 DEF Daemon!Command
<1>9. ASSUME NEW d \in CliCalls, Daemon!Crash(d) PROVE DaemonInv'
  BY <1>9 DEF Daemon!Crash
<1>10. ASSUME NEW s \in Sessions, Daemon!SessionEnds(s) PROVE DaemonInv'
  BY <1>10 DEF Daemon!SessionEnds
<1>11. ASSUME NEW c \in CliCalls, Daemon!StopCommand(c) PROVE DaemonInv'
  BY <1>7, <1>11 DEF Daemon!StopCommand
<1>12. CASE UNCHANGED Daemon!vars
  BY <1>12 DEF Daemon!vars
<1> QED
  BY <1>1, <1>2, <1>3, <1>4, <1>5, <1>6, <1>7, <1>8, <1>9, <1>10, <1>11, <1>12
     DEF Daemon!Next, Daemon!Orphaned, Daemon!Leaves

LEMMA DaemonSpares ==
  ASSUME None \notin CliCalls, DaemonInv, [Daemon!Next]_(Daemon!vars),
         NEW d \in CliCalls, NEW e \in CliCalls, d # e,
         daemon_daemon[d] # "gone", daemon_daemon'[d] = "gone", daemon_daemon[e] = "serving"
  PROVE  /\ daemon_path = e => daemon_path' = e
         /\ daemon_entry # None /\ daemon_entry.pid = e => daemon_entry' = daemon_entry
<1> USE DEF DaemonInv
<1>1. ASSUME NEW k \in CliCalls, Daemon!Shutdown(k) PROVE k = d
  BY <1>1 DEF Daemon!Shutdown
<1>2. CASE Daemon!Shutdown(d)
  BY <1>2 DEF Daemon!Shutdown
<1>3. ASSUME NEW c \in CliCalls, Daemon!StopCommand(c) PROVE Daemon!Shutdown(d)
  BY <1>1, <1>3 DEF Daemon!StopCommand
<1>4. ASSUME NEW c \in CliCalls, Daemon!Orphaned(c) \/ Daemon!Leaves(c) PROVE Daemon!Shutdown(d)
  BY <1>1, <1>4 DEF Daemon!Orphaned, Daemon!Leaves
<1>5. ASSUME NEW k \in CliCalls, Daemon!Crash(k)
      PROVE UNCHANGED <<daemon_path, daemon_entry>>
  BY <1>5 DEF Daemon!Crash
<1>6. ASSUME NEW c \in CliCalls,
             Daemon!Look(c) \/ Daemon!Connect(c) \/ Daemon!Refused(c) \/ Daemon!Start(c)
                \/ Daemon!Command(c) \/ Daemon!Bind(c) \/ Daemon!Register(c)
      PROVE FALSE
  BY <1>6 DEF Daemon!Look, Daemon!Connect, Daemon!Refused, Daemon!Start, Daemon!Command,
     Daemon!Bind, Daemon!Register
<1>7. ASSUME NEW s \in Sessions, Daemon!SessionEnds(s) PROVE FALSE
  BY <1>7 DEF Daemon!SessionEnds
<1>8. ~UNCHANGED Daemon!vars
  BY DEF Daemon!vars
<1> QED
  BY <1>2, <1>3, <1>4, <1>5, <1>6, <1>7, <1>8 DEF Daemon!Next

\* What a process clears away is never what another one still uses: the Chrome
\* that a launcher has reported, the socket and the record of the daemon that
\* took over.
OthersSpared == Launch!ReportedSpared /\ Daemon!SuccessorKept

\* OthersSpared for any number of runs, calls and sessions, one run and one call at a
\* time, where Chrome is found by ss and answers within the five seconds it has.
THEOREM ProcessesSpareOthers ==
  ASSUME Sequential, Prompt, ~Lsof, Launchers \cap Clients = {}, None \notin Launchers,
         OneByOne, None \notin CliCalls
  PROVE  Launch!Spec /\ Daemon!Spec => OthersSpared
<1>1. Launch!Init /\ Daemon!Init => LaunchInv /\ DaemonInv
  BY LaunchInit, DaemonInit
<1>2. LaunchInv /\ DaemonInv /\ [Launch!Next]_(Launch!vars) /\ [Daemon!Next]_(Daemon!vars)
        => LaunchInv' /\ DaemonInv'
  BY LaunchStep, DaemonStep
<1> DEFINE Killed ==
      \A p \in Launchers :
         p \in launch_reported /\ launch_chrome[p] = "serving" /\ launch_chrome'[p] = "dying"
            => \E l \in Launchers : launch_run'[l] # launch_run[l] /\ launch_run[l] = "cleaned"
    Ended ==
      \A d, e \in CliCalls :
         d # e /\ daemon_daemon[d] # "gone" /\ daemon_daemon'[d] = "gone"
            /\ daemon_daemon[e] = "serving"
            => /\ daemon_path = e => daemon_path' = e
               /\ daemon_entry # None /\ daemon_entry.pid = e => daemon_entry' = daemon_entry
<1>3. LaunchInv /\ [Launch!Next]_(Launch!vars) => [Killed]_(Launch!vars)
  BY LaunchStep
<1>4. DaemonInv /\ [Daemon!Next]_(Daemon!vars) => [Ended]_(Daemon!vars)
  BY DaemonSpares
<1>5. (Launch!ReportedSpared <=> [][Killed]_(Launch!vars))
        /\ (Daemon!SuccessorKept <=> [][Ended]_(Daemon!vars))
  BY DEF Launch!ReportedSpared, Daemon!SuccessorKept
<1> HIDE DEF Killed, Ended
<1> QED
  BY <1>1, <1>2, <1>3, <1>4, <1>5, PTL DEF Launch!Spec, Daemon!Spec, OthersSpared

-----------------------------------------------------------------------------
(* ResultStore *)

StoreStates == {"idle", "load", "loaded", "evict", "blob", "save", "saving",
                "unlink", "read", "done", "dead"}
Valid == (store_returned \ store_dropped) \ store_expired

\* One call at a time works on the one Map there is. What was returned and is still
\* valid is in it, and in index.json too unless a save has just truncated the file;
\* that save writes what the Map holds.
StoreInv ==
    /\ store_pc \in [Store!Callers -> StoreStates]
    /\ store_index \in Store!Handles \cup {None}
    /\ store_held \in [Store!Callers -> Store!Handles \cup {None}]
    /\ store_maps \in [Store!Handles -> SUBSET Store!Ids]
    /\ store_snap \in [Store!Callers -> SUBSET Store!Ids]
    /\ store_disk \in [ids : SUBSET Store!Ids, whole : BOOLEAN]
    /\ \A c, d \in Store!Running : c = d
    /\ \A c \in Store!Running :
          /\ store_pc[c] = "load" => store_index = None
          /\ store_pc[c] # "load" => store_index # None /\ store_held[c] = store_index
          /\ store_pc[c] \in {"evict", "blob"} => c \in Storers
          /\ store_pc[c] \in {"unlink", "read"} => c \in Readers
          /\ store_pc[c] = "blob" => Cardinality(store_maps[store_index]) < MaxResults
          /\ store_pc[c] \in {"save", "saving"} =>
                /\ store_snap[c] = store_maps[store_index]
                /\ c \in Storers => c \in store_snap[c]
          /\ store_pc[c] = "saving" => store_disk = Store!Empty
    /\ (\A c \in Store!Callers : store_pc[c] # "saving") =>
          store_disk.whole /\ Valid \subseteq store_disk.ids
    /\ Cardinality(store_disk.ids) <= MaxResults
    /\ store_index # None => /\ Valid \subseteq store_maps[store_index]
                             /\ Cardinality(store_maps[store_index]) <= MaxResults

StoreAssumptions ==
    /\ IsFiniteSet(Storers) /\ IsFiniteSet(Readers) /\ IsFiniteSet(Kept)
    /\ Storers \cap Readers = {} /\ None \notin Storers \cup Readers \cup {"boot"}
    /\ "boot" \notin Storers \cup Readers
    /\ MaxResults \in Nat /\ Cardinality(Kept) <= MaxResults
    /\ Concurrent = 1 /\ ~Kills /\ "load" \notin DiskFails /\ "index" \notin DiskFails

\* The parts of an instance have a Cardinality of their own.
LEMMA SameCount == ASSUME NEW S PROVE Store!Cardinality(S) = Cardinality(S)
  BY DEF Store!Cardinality, Cardinality, Store!IsFiniteSet, IsFiniteSet

LEMMA Counts ==
  ASSUME StoreAssumptions
  PROVE  /\ \A s \in SUBSET Store!Ids : IsFiniteSet(s) /\ Cardinality(s) \in Nat
         /\ \A s \in SUBSET Store!Ids : \A t \in SUBSET s : Cardinality(t) <= Cardinality(s)
         /\ \A s \in SUBSET Store!Ids : \A c : Cardinality(s \cup {c}) <= Cardinality(s) + 1
         /\ Cardinality({}) = 0
         /\ IsFiniteSet(Store!Running)
<1> USE DEF StoreAssumptions
<1>1. IsFiniteSet(Store!Ids) /\ IsFiniteSet(Store!Callers)
  BY FS_Union DEF Store!Ids, Store!Callers
<1>2. ASSUME NEW s \in SUBSET Store!Ids PROVE IsFiniteSet(s) /\ Cardinality(s) \in Nat
  BY <1>1, FS_Subset, FS_CardinalityType
<1>3. ASSUME NEW s \in SUBSET Store!Ids, NEW t \in SUBSET s
      PROVE  Cardinality(t) <= Cardinality(s)
  BY <1>2, FS_Subset
<1>4. ASSUME NEW s \in SUBSET Store!Ids, NEW c PROVE Cardinality(s \cup {c}) <= Cardinality(s) + 1
  <2>1. s \cup {c} = s \/ Cardinality(s \cup {c}) = Cardinality(s) + 1
    BY <1>2, FS_AddElement
  <2> QED
    BY <1>2, <2>1
<1>5. IsFiniteSet(Store!Running)
  BY <1>1, FS_Subset DEF Store!Running
<1> QED
  BY <1>2, <1>3, <1>4, <1>5, FS_EmptySet

LEMMA StoreInit == ASSUME StoreAssumptions, Store!Init PROVE StoreInv
  BY Counts DEF StoreAssumptions, Store!Init, StoreInv, StoreStates, Valid, Store!Running,
     Store!Callers, Store!Handles, Store!Ids, Store!Boot, Store!Whole

LEMMA StoreStep ==
  ASSUME StoreAssumptions, StoreInv, [Store!Next]_(Store!vars) PROVE StoreInv'
<1> USE DEF StoreInv, StoreStates, Valid, Store!Running, Store!callVars, Store!fileVars,
        Store!pastVars, Store!At, Store!End, Store!Mine, Store!Boot
<1>0. /\ Store!Callers = Storers \cup Readers /\ Store!Handles = Store!Callers \cup {"boot"}
      /\ Storers \subseteq Store!Ids /\ None \notin Store!Handles
      /\ Storers \cap Readers = {} /\ MaxResults \in Nat
  BY DEF Store!Callers, Store!Handles, Store!Ids, StoreAssumptions
<1>1. ASSUME NEW c \in Store!Callers, Store!Start(c) PROVE StoreInv'
  <2> DEFINE R == Store!Running
  <2>1. IsFiniteSet(R) /\ Cardinality(R) < 1
    <3>1. Cardinality(Store!Running) < Concurrent /\ Concurrent = 1
      BY <1>1, SameCount DEF Store!Start, StoreAssumptions
    <3> QED
      BY <3>1, Counts
  <2>2. R = {}
    <3> HIDE DEF R
    <3> QED
      BY <2>1, FS_CardinalityType, FS_EmptySet
  <2> QED
    BY <1>0, <1>1, <2>2 DEF Store!Start
<1>2. ASSUME NEW c \in Store!Callers, Store!Load(c) PROVE StoreInv'
  BY <1>0, <1>2, Counts DEF Store!Load, StoreAssumptions
<1>3. ASSUME NEW c \in Store!Callers, Store!Evict(c) PROVE StoreInv'
  BY <1>0, <1>3, Counts DEF Store!Evict
<1>4. ASSUME NEW c \in Store!Callers, Store!Evicted(c) \/ Store!Make(c) \/ Store!Read(c)
      PROVE  StoreInv'
  <2>1. CASE Store!Evicted(c)
    BY <1>0, <2>1 DEF Store!Evicted
  <2>2. CASE Store!Make(c)
    <3>1. store_held[c] = store_index /\ Cardinality(store_maps[store_index]) < MaxResults
      BY <2>2, SameCount DEF Store!Make
    <3> QED
      BY <1>0, <2>2, <3>1 DEF Store!Make
  <2>3. CASE Store!Read(c)
    BY <1>0, <2>3 DEF Store!Read
  <2> QED
    BY <1>4, <2>1, <2>2, <2>3
<1>5. ASSUME NEW c \in Store!Callers, Store!Store(c) PROVE StoreInv'
  <2> DEFINE was == store_maps[store_index]
             now == was \cup {c}
  <2>1. store_pc[c] = "blob" /\ c \in Store!Running /\ c \in Storers
    BY <1>5 DEF Store!Store
  <2>2. store_index \in Store!Handles /\ store_held[c] = store_index /\ Cardinality(was) < MaxResults
    BY <2>1
  <2>3. now \in SUBSET Store!Ids /\ Cardinality(now) <= MaxResults
    <3>1. was \in SUBSET Store!Ids /\ Cardinality(was) \in Nat
      BY <2>2, Counts
    <3>2. now \in SUBSET Store!Ids /\ Cardinality(now) \in Nat /\ Cardinality(now) <= Cardinality(was) + 1
      <4> HIDE DEF was
      <4> QED
        BY <1>0, <2>1, <3>1, Counts
    <3> HIDE DEF was, now
    <3> QED
      BY <1>0, <2>2, <3>1, <3>2
  <2>4. store_maps' = [store_maps EXCEPT ![store_index] = now] /\ store_maps'[store_index] = now
    BY <1>5, <2>2 DEF Store!Store
  <2> HIDE DEF now
  <2>5. store_snap' = [store_snap EXCEPT ![c] = now] /\ c \in now /\ was \subseteq now
    BY <1>5, <2>4 DEF Store!Store, now
  <2> HIDE DEF was
  <2>6. /\ Valid' = Valid /\ UNCHANGED <<store_index, store_held, store_disk>>
        /\ store_pc' = [store_pc EXCEPT ![c] = "save"]
    BY <1>5 DEF Store!Store
  <2>7. /\ store_pc' \in [Store!Callers -> StoreStates]
        /\ store_maps' \in [Store!Handles -> SUBSET Store!Ids]
        /\ store_snap' \in [Store!Callers -> SUBSET Store!Ids]
    BY <2>2, <2>3, <2>4, <2>5, <2>6
  <2>8. Store!Running' = {c} /\ Store!Running = {c}
    BY <2>1, <2>6, <2>7
  <2>9. store_pc'[c] = "save" /\ store_snap'[c] = now /\ store_maps'[store_index'] = now
    BY <2>4, <2>5, <2>6
  <2>10. (\A d \in Store!Callers : store_pc[d] # "saving") /\ store_index # None
    BY <1>0, <2>1, <2>2, <2>8
  <2>11. Valid \subseteq now
    BY <2>5, <2>10 DEF was
  <2> HIDE DEF Valid, Store!Running
  <2> QED
    BY <2>1, <2>2, <2>3, <2>5, <2>6, <2>7, <2>8, <2>9, <2>10, <2>11
<1>6. ASSUME NEW c \in Store!Callers, Store!Throw(c) \/ Store!Missing(c) \/ Store!Found(c)
      PROVE  StoreInv'
  BY <1>0, <1>6 DEF Store!Throw, Store!Missing, Store!Found, StoreAssumptions
<1>7. ASSUME NEW c \in Store!Callers, Store!Truncate(c) PROVE StoreInv'
  BY <1>0, <1>7, Counts DEF Store!Truncate, Store!Empty
<1>8. ASSUME NEW c \in Store!Callers, Store!Save(c) PROVE StoreInv'
  <2>1. /\ c \in Store!Running /\ store_index \in Store!Handles
        /\ store_snap[c] = store_maps[store_index] /\ (c \in Storers => c \in store_snap[c])
        /\ store_disk = Store!Empty
    BY <1>8 DEF Store!Save
  <2>2. store_disk' = Store!Whole(store_snap[c])
    BY <1>8, <2>1 DEF Store!Save, Store!Mixed, Store!Empty
  <2>3. Valid' \subseteq store_snap[c] /\ Cardinality(store_snap[c]) <= MaxResults
    BY <1>8, <2>1 DEF Store!Save
  <2>4. store_disk'.whole /\ store_disk'.ids = store_snap[c] /\ store_snap[c] \in SUBSET Store!Ids
    BY <2>2 DEF Store!Whole
  <2> QED
    BY <1>0, <1>8, <2>1, <2>2, <2>3, <2>4 DEF Store!Save, Store!Whole
<1>9. ASSUME NEW c \in Store!Callers, Store!Expire(c) \/ Store!Unreadable(c) PROVE StoreInv'
  BY <1>0, <1>9, Counts DEF Store!Expire, Store!Unreadable, Store!Forget
<1>10. ASSUME NEW c \in Store!Callers, Store!Unlinked(c) PROVE StoreInv'
  BY <1>0, <1>10 DEF Store!Unlinked
<1>11. CASE Store!Time
  BY <1>11 DEF Store!Time
<1>12. CASE Store!Restart
  BY <1>12 DEF Store!Restart, StoreAssumptions
<1>13. CASE UNCHANGED Store!vars
  BY <1>13 DEF Store!vars
<1> QED
  BY <1>1, <1>2, <1>3, <1>4, <1>5, <1>6, <1>7, <1>8, <1>9, <1>10, <1>11, <1>12, <1>13
     DEF Store!Next

\* "Durable storage with response IDs that survive restarts" (storage.ts), no
\* more of them than MAX_RESULTS.
ResultsKept == Store!SurvivesRestart /\ Store!CapRespected

\* ResultsKept for any number of stores and reads one after the other, over any number
\* of restarts, whatever writes of blobs, reads and unlinks fail.
THEOREM ResultsStayKept ==
  ASSUME StoreAssumptions PROVE Store!Spec => []ResultsKept
<1>1. Store!Init => StoreInv
  BY StoreInit
<1>2. StoreInv /\ [Store!Next]_(Store!vars) => StoreInv'
  BY StoreStep
<1>3. StoreInv => ResultsKept
  <2>1. StoreInv /\ Store!Running = {} => \A c \in Store!Callers : store_pc[c] # "saving"
    BY DEF Store!Running
  <2>2. StoreInv => Store!SurvivesRestart
    BY <2>1 DEF StoreInv, Valid, Store!SurvivesRestart
  <2>3. StoreInv => Store!CapRespected
    BY SameCount DEF StoreInv, Store!CapRespected
  <2> QED
    BY <2>2, <2>3 DEF ResultsKept
<1> QED
  BY <1>1, <1>2, <1>3, PTL DEF Store!Spec

-----------------------------------------------------------------------------
(* RequestQueue *)

AtWork == {"fetch", "write"}
PageFiles == [url : Queue!Pages, whole : BOOLEAN]

\* None stands for none of these; no page is redirected to another one.
QueueAssumptions ==
    /\ NumPages \in Nat /\ MaxRetries \in Nat \ {0} /\ Workers # {}
    /\ None \notin Queue!Pages \cup Queue!Entry \cup PageFiles
    /\ \A u \in Queue!Pages : Final[u] = u

\* Entries of the queue or of a queue file: one per path, and the ones that are not
\* settled have a try left.
Sound(e) ==
    /\ e \in Queue!Entries
    /\ \A u, v \in Queue!Pages : e[u] # None /\ e[v] # None /\ PathOf[u] = PathOf[v] => u = v
    /\ \A u \in Queue!Pages :
          e[u] # None => /\ e[u].out \in {None, u}
                         /\ e[u].status \in {"queued", "in_progress"} => e[u].retries < MaxRetries

QueueTyped ==
    /\ queue_saves \in [Queue!Savers -> Queue!Entries \cup {None}]
    /\ queue_pc \in [Workers -> {"idle", "fetch", "write", "stopped"}]
    /\ queue_job \in [Workers -> Queue!Pages \cup {None}]
    /\ queue_files \in [Queue!Paths -> PageFiles \cup {None}]
    /\ queue_got \subseteq Queue!Pages

AllSound ==
    /\ Sound(queue_queue)
    /\ queue_disk # None => Sound(queue_disk)
    /\ \A s \in Queue!Savers : queue_saves[s] # None => Sound(queue_saves[s])

\* Each worker has an entry to itself, each entry in progress a worker unless the pull
\* was cancelled, and workers stop when no entry is queued.
Jobs ==
    /\ \A w \in Workers : queue_pc[w] \in AtWork =>
          queue_job[w] \in Queue!Pages /\ Queue!StatusIs(queue_job[w], "in_progress")
    /\ \A v, w \in Workers :
          queue_pc[v] \in AtWork /\ queue_pc[w] \in AtWork /\ queue_job[v] = queue_job[w] => v = w
    /\ ~queue_aborted => \A u \in Queue!Pages : Queue!StatusIs(u, "in_progress") =>
          \E w \in Workers : queue_pc[w] \in AtWork /\ queue_job[w] = u
    /\ (\A w \in Workers : queue_pc[w] = "stopped") =>
          \A u \in Queue!Pages : ~Queue!StatusIs(u, "queued")

\* The file of a page that counts as had is its text, nobody writes it, and a resumed
\* pull does not have it before it.
Had ==
    /\ \A u \in queue_got : queue_files[PathOf[u]] = [url |-> u, whole |-> TRUE]
    /\ \A w \in Workers : queue_pc[w] = "write" =>
          \A u \in queue_got : PathOf[u] # PathOf[queue_job[w]]
    /\ queue_resumed => \A u \in queue_got :
          queue_queue[u] # None => queue_queue[u].status \in {"completed", "failed"}

QueueInv == QueueTyped /\ AllSound /\ Jobs /\ Had

\* A page that counts as had is found by the scan of the page files.
LEMMA Found ==
  ASSUME QueueAssumptions, QueueTyped, Had, NEW u \in queue_got
  PROVE  u \in Queue!Pages /\ PathOf[u] \in Queue!FilePaths /\ u \in Queue!FileUrls
<1>1. u \in Queue!Pages /\ PathOf[u] \in Queue!Paths
  BY DEF QueueTyped, Queue!Paths
<1>2. queue_files[PathOf[u]] = [url |-> u, whole |-> TRUE]
  BY DEF Had
<1>3. [url |-> u, whole |-> TRUE] \in PageFiles
  BY <1>1 DEF PageFiles
<1>4. PathOf[u] \in Queue!FilePaths
  BY <1>1, <1>2, <1>3 DEF Queue!FilePaths, QueueAssumptions
<1> QED
  BY <1>1, <1>2, <1>4 DEF Queue!FileUrls

LEMMA QueueInit == ASSUME QueueAssumptions, Queue!Init PROVE QueueInv
<1> USE DEF Queue!Init, QueueAssumptions, Queue!NoEntries
<1>1. Sound(queue_queue)
  BY DEF Sound, Queue!Entries
<1> QED
  BY <1>1 DEF QueueInv, QueueTyped, AllSound, Jobs, Had, Queue!StatusIs, Queue!Has, AtWork, Queue!Pages

\* What resume() makes of an entry it finds: no entry is in progress, and one whose text
\* is on disk is completed.
LEMMA Resumes ==
  ASSUME QueueAssumptions, QueueInv, queue_disk # None,
         NEW u \in Queue!Pages, queue_disk[u] # None,
         NEW e, e = Queue!ResumedEntry(u)
  PROVE  /\ e \in Queue!Entry /\ e.out \in {None, u} /\ e.status # "in_progress"
         /\ e.status = "queued" => e.retries < MaxRetries
         /\ u \in queue_got => e.status = "completed"
<1> DEFINE d == Queue!ResumedStatus(queue_disk[u])
           claims == Queue!Claims(queue_disk, u)
<1>1. Sound(queue_disk) /\ queue_disk[u] \in Queue!Entry
  BY DEF QueueInv, AllSound, Sound, Queue!Entries
<1>2. /\ d \in Queue!Entry /\ d.out \in {None, u} /\ d.status # "in_progress"
      /\ d.status = "queued" => d.retries < MaxRetries
  BY <1>1 DEF Queue!ResumedStatus, Queue!Entry, Sound
<1>3. claims \subseteq {u}
  BY <1>1 DEF Queue!Claims, Queue!Names, Sound, Queue!FileUrls, Queue!FilePaths, Queue!Has,
     QueueInv, QueueTyped, PageFiles, QueueAssumptions
<1>4. ASSUME u \in queue_got PROVE u \in claims
  <2>2. u \in Queue!FileUrls
    BY <1>4, Found DEF QueueInv
  <2>3. ASSUME NEW t \in 1 .. u - 1 PROVE ~Queue!Names(queue_disk, t, u)
    <3>1. t \in Queue!Pages /\ t # u /\ u # None
      BY DEF Queue!Pages, QueueAssumptions
    <3> QED
      BY <1>1, <3>1 DEF Sound, Queue!Names, Queue!Has
  <2> QED
    BY <2>2, <2>3 DEF Queue!Claims, Queue!Names, Queue!Has
<1>5. claims # {} => (CHOOSE v \in claims : TRUE) = u
  <2> HIDE DEF claims
  <2> QED
    BY <1>3
<1>6. e = IF claims # {} THEN Queue!Completed(IF d.out = None THEN u ELSE d.out)
          ELSE IF d.status # "completed" /\ PathOf[u] \in Queue!FilePaths
               THEN Queue!Completed(d.out) ELSE d
  BY <1>5 DEF Queue!ResumedEntry, Queue!Has
<1> HIDE DEF d, claims
<1> QED
  BY <1>2, <1>3, <1>4, <1>6 DEF Queue!Completed, Queue!Entry, QueueAssumptions

LEMMA Repairs ==
  ASSUME QueueAssumptions, QueueInv, queue_disk # None,
         NEW q, q = [u \in Queue!Pages |-> Queue!Repaired(u)]
  PROVE  /\ Sound(q)
         /\ \A u \in Queue!Pages : q[u] # None => q[u].status # "in_progress"
         /\ \A u \in queue_got : q[u] # None => q[u].status = "completed"
<1>1. ASSUME NEW u \in Queue!Pages, queue_disk[u] # None
      PROVE  /\ q[u] \in Queue!Entry /\ q[u].out \in {None, u} /\ q[u].status # "in_progress"
             /\ q[u].status = "queued" => q[u].retries < MaxRetries
             /\ u \in queue_got => q[u].status = "completed"
  <2> DEFINE e == Queue!ResumedEntry(u)
  <2>1. /\ e \in Queue!Entry /\ e.out \in {None, u} /\ e.status # "in_progress"
        /\ e.status = "queued" => e.retries < MaxRetries
        /\ u \in queue_got => e.status = "completed"
    BY <1>1, Resumes
  <2>2. u \in queue_got => Queue!HasCompletedFile(u, e)
    BY Found DEF Queue!HasCompletedFile, QueueInv
  <2>3. q[u] = e \/ (q[u] = Queue!Queued(e.out) /\ ~Queue!HasCompletedFile(u, e))
    <3>1. e # None
      BY <2>1 DEF QueueAssumptions
    <3> HIDE DEF e
    <3> QED
      BY <3>1 DEF Queue!Repaired, e
  <2> HIDE DEF e
  <2> QED
    BY <2>1, <2>2, <2>3 DEF Queue!Queued, Queue!Entry, QueueAssumptions
<1>2. ASSUME NEW u \in Queue!Pages, queue_disk[u] = None, q[u] # None
      PROVE  /\ \A v \in Queue!Pages : queue_disk[v] # None => PathOf[v] # PathOf[u]
             /\ u = 1
             /\ q[u] \in {Queue!Queued(None), Queue!Completed(None)}
             /\ u \in queue_got => q[u] = Queue!Completed(None)
  <2>1. u \in queue_got => u \in Queue!FileUrls \/ PathOf[u] \in Queue!FilePaths
    BY Found DEF QueueInv
  <2> QED
    BY <1>2, <2>1 DEF Queue!Repaired, Queue!ResumedEntry, Queue!Has
<1>3. q \in Queue!Entries
  BY <1>1, <1>2 DEF Queue!Entries, Queue!Queued, Queue!Completed, Queue!Entry, QueueAssumptions
<1>4. ASSUME NEW u \in Queue!Pages, NEW v \in Queue!Pages, q[u] # None, q[v] # None,
             PathOf[u] = PathOf[v]
      PROVE  u = v
  <2>1. Sound(queue_disk)
    BY DEF QueueInv, AllSound
  <2> QED
    BY <1>2, <1>4, <2>1 DEF Sound
<1>5. ASSUME NEW u \in Queue!Pages, q[u] # None
      PROVE  /\ q[u].out \in {None, u} /\ q[u].status # "in_progress"
             /\ q[u].status = "queued" => q[u].retries < MaxRetries
             /\ u \in queue_got => q[u].status = "completed"
  BY <1>1, <1>2, <1>5 DEF Queue!Queued, Queue!Completed, QueueAssumptions
<1> QED
  BY <1>3, <1>4, <1>5 DEF Sound, QueueInv, QueueTyped

\* An entry is replaced by another one of the same page.
LEMMA Replaces ==
  ASSUME QueueAssumptions, Sound(queue_queue), NEW u \in Queue!Pages, queue_queue[u] # None,
         NEW n \in Queue!Entry, n.out \in {None, u},
         n.status \in {"queued", "in_progress"} => n.retries < MaxRetries,
         queue_queue' = [queue_queue EXCEPT ![u] = n]
  PROVE  /\ Sound(queue_queue)' /\ queue_queue'[u] = n /\ n # None
         /\ \A v \in Queue!Pages : v # u => queue_queue'[v] = queue_queue[v]
<1>1. queue_queue'[u] = n /\ n # None /\ queue_queue' \in Queue!Entries
      /\ \A v \in Queue!Pages : v # u => queue_queue'[v] = queue_queue[v]
  BY DEF Sound, Queue!Entries, QueueAssumptions
<1> QED
  BY <1>1 DEF Sound

LEMMA TakeKeeps ==
  ASSUME QueueAssumptions, QueueInv, NEW w \in Workers, Queue!Take(w) PROVE QueueInv'
<1> USE DEF Queue!StatusIs, Queue!Has, AtWork
<1>1. PICK u \in Queue!Pages :
        /\ Queue!Takeable(u)
        /\ queue_queue' = [queue_queue EXCEPT ![u].status = "in_progress"]
        /\ IF queue_aborted THEN UNCHANGED <<queue_pc, queue_job>>
           ELSE /\ queue_pc' = [queue_pc EXCEPT ![w] = "fetch"]
                /\ queue_job' = [queue_job EXCEPT ![w] = u]
  BY DEF Queue!Take, Queue!work
<1> DEFINE n == [queue_queue[u] EXCEPT !.status = "in_progress"]
<1>2. queue_queue[u] # None /\ queue_queue[u].status = "queued" /\ queue_queue[u] \in Queue!Entry
      /\ queue_queue[u].retries < MaxRetries /\ queue_queue[u].out \in {None, u}
  BY <1>1 DEF Queue!Takeable, QueueInv, AllSound, Sound, Queue!Entries
<1>3. n \in Queue!Entry /\ n.out \in {None, u} /\ n.retries < MaxRetries
      /\ n.status = "in_progress"
  BY <1>2 DEF Queue!Entry
<1>4. queue_queue' = [queue_queue EXCEPT ![u] = n]
  BY <1>1
<1> HIDE DEF n
<1>5. /\ Sound(queue_queue)' /\ queue_queue'[u] = n /\ n # None
      /\ \A v \in Queue!Pages : v # u => queue_queue'[v] = queue_queue[v]
  BY <1>2, <1>3, <1>4, Replaces DEF QueueInv, AllSound
<1>6. /\ queue_pc[w] = "idle" /\ u \in Queue!Pages
      /\ UNCHANGED <<queue_phase, queue_resumed, queue_aborted, queue_saves, queue_disk,
                     queue_files, queue_got>>
  BY DEF Queue!Take
<1>7. QueueTyped'
  BY <1>1, <1>6 DEF QueueInv, QueueTyped
<1>8. AllSound'
  BY <1>5, <1>6 DEF QueueInv, AllSound
<1>9. Jobs'
  <2>1. \A v \in Workers : queue_pc[v] \in AtWork => queue_job[v] # u
    BY <1>2 DEF QueueInv, Jobs
  <2>2. CASE queue_aborted
    BY <1>1, <1>2, <1>5, <1>6, <2>1, <2>2 DEF QueueInv, Jobs, QueueTyped
  <2>3. CASE ~queue_aborted
    <3>1. queue_pc'[w] = "fetch" /\ queue_job'[w] = u
          /\ \A v \in Workers : v # w => queue_pc'[v] = queue_pc[v] /\ queue_job'[v] = queue_job[v]
      BY <1>1, <2>3 DEF QueueInv, QueueTyped
    <3>2. ASSUME NEW v \in Queue!Pages, Queue!StatusIs(v, "in_progress")'
          PROVE  \E x \in Workers : queue_pc'[x] \in AtWork /\ queue_job'[x] = v
      <4>1. CASE v = u
        BY <3>1, <4>1
      <4>2. CASE v # u
        <5>1. PICK x \in Workers : queue_pc[x] \in AtWork /\ queue_job[x] = v
          BY <1>5, <2>3, <3>2, <4>2 DEF QueueInv, Jobs
        <5> QED
          BY <1>6, <3>1, <5>1
      <4> QED
        BY <4>1, <4>2
    <3> QED
      BY <1>3, <1>5, <1>6, <2>1, <3>1, <3>2 DEF QueueInv, Jobs
  <2> QED
    BY <2>2, <2>3
<1>10. Had'
  <2>1. \A v \in Workers : queue_pc'[v] = "write" => queue_pc[v] = "write" /\ queue_job'[v] = queue_job[v]
    BY <1>1, <1>6 DEF QueueInv, QueueTyped
  <2>2. queue_resumed => u \notin queue_got
    BY <1>2 DEF QueueInv, Had
  <2> QED
    BY <1>5, <1>6, <2>1, <2>2 DEF QueueInv, QueueTyped, Had
<1> QED
  BY <1>7, <1>8, <1>9, <1>10 DEF QueueInv

\* A worker leaves an entry that it had in progress, and nothing else changes of the
\* entries and the jobs.
LEMMA Leaves ==
  ASSUME QueueAssumptions, QueueInv, NEW w \in Workers, queue_pc[w] \in AtWork,
         NEW n \in Queue!Entry, n.out \in {None, queue_job[w]},
         n.status \in {"queued", "in_progress"} => n.retries < MaxRetries,
         n.status # "in_progress",
         queue_queue' = [queue_queue EXCEPT ![queue_job[w]] = n],
         queue_pc' = [queue_pc EXCEPT ![w] = "idle"],
         queue_job' = [queue_job EXCEPT ![w] = None],
         UNCHANGED <<queue_aborted, queue_saves, queue_disk>>
  PROVE  /\ AllSound' /\ Jobs'
         /\ queue_queue'[queue_job[w]] = n
         /\ \A v \in Queue!Pages : v # queue_job[w] => queue_queue'[v] = queue_queue[v]
         /\ \A v \in Workers : queue_pc'[v] \in AtWork =>
               v # w /\ queue_pc[v] = queue_pc'[v] /\ queue_job'[v] = queue_job[v]
<1> USE DEF Queue!StatusIs, Queue!Has, AtWork
<1> DEFINE u == queue_job[w]
<1>1. u \in Queue!Pages /\ queue_queue[u] # None
  BY DEF QueueInv, Jobs
<1> HIDE DEF u
<1>2. /\ Sound(queue_queue)' /\ queue_queue'[u] = n /\ n # None
      /\ \A v \in Queue!Pages : v # u => queue_queue'[v] = queue_queue[v]
  BY <1>1, Replaces DEF QueueInv, AllSound, u
<1>3. \A v \in Workers : queue_pc'[v] \in AtWork =>
        v # w /\ queue_pc[v] = queue_pc'[v] /\ queue_job'[v] = queue_job[v]
  BY DEF QueueInv, QueueTyped
<1>4. AllSound'
  BY <1>2 DEF QueueInv, AllSound
<1>5. \A v \in Workers : queue_pc[v] \in AtWork /\ v # w =>
        queue_pc'[v] = queue_pc[v] /\ queue_job'[v] = queue_job[v] /\ queue_job[v] # u
  BY DEF QueueInv, QueueTyped, Jobs, u
<1>6. ASSUME NEW v \in Queue!Pages, Queue!StatusIs(v, "in_progress")', ~queue_aborted'
      PROVE  \E x \in Workers : queue_pc'[x] \in AtWork /\ queue_job'[x] = v
  <2>1. v # u /\ queue_queue'[v] = queue_queue[v]
    BY <1>2, <1>6
  <2>2. PICK x \in Workers : queue_pc[x] \in AtWork /\ queue_job[x] = v
    BY <1>6, <2>1 DEF QueueInv, Jobs
  <2> QED
    BY <1>5, <2>1, <2>2 DEF u
<1>7. queue_pc'[w] = "idle"
  BY DEF QueueInv, QueueTyped
<1>8. Jobs'
  BY <1>2, <1>3, <1>5, <1>6, <1>7 DEF QueueInv, Jobs
<1> QED
  BY <1>2, <1>3, <1>4, <1>8 DEF u

LEMMA FailKeeps ==
  ASSUME QueueAssumptions, QueueInv, NEW w \in Workers, Queue!FetchFails(w) PROVE QueueInv'
<1> USE DEF Queue!StatusIs, Queue!Has, AtWork
<1> DEFINE u == queue_job[w]
           n == [queue_queue[u] EXCEPT
                   !.retries = @ + 1,
                   !.status = IF queue_queue[u].retries + 1 < MaxRetries THEN "queued" ELSE "failed"]
<1>1. u \in Queue!Pages /\ queue_pc[w] \in AtWork /\ queue_queue[u] # None
      /\ queue_queue[u].status = "in_progress"
  BY DEF Queue!FetchFails, QueueInv, Jobs
<1>2. queue_queue[u] \in Queue!Entry /\ queue_queue[u].retries < MaxRetries
      /\ queue_queue[u].out \in {None, u}
  BY <1>1 DEF QueueInv, AllSound, Sound, Queue!Entries
<1>3. /\ n \in Queue!Entry /\ n.out \in {None, u} /\ n.status # "in_progress"
      /\ n.status = "queued" => n.retries < MaxRetries
  <2> DEFINE r == queue_queue[u].retries + 1
             s == IF r < MaxRetries THEN "queued" ELSE "failed"
             m == [queue_queue[u] EXCEPT !.retries = r, !.status = s]
  <2>1. n = m
    OBVIOUS
  <2>2. r \in 0 .. MaxRetries /\ s \in {"queued", "failed"} /\ (s = "queued" => r < MaxRetries)
    BY <1>2 DEF Queue!Entry, QueueAssumptions
  <2> HIDE DEF n, r, s
  <2>3. m \in Queue!Entry /\ m.out = queue_queue[u].out /\ m.status = s /\ m.retries = r
    BY <1>2, <2>2 DEF Queue!Entry
  <2> HIDE DEF m
  <2> QED
    BY <1>2, <2>1, <2>2, <2>3
<1>4. queue_queue' = [queue_queue EXCEPT ![u] = n]
  BY <1>1, <1>2 DEF Queue!FetchFails, Queue!Fail, QueueInv, AllSound, Sound, Queue!Entries
<1> HIDE DEF n
<1>5. /\ queue_pc' = [queue_pc EXCEPT ![w] = "idle"] /\ queue_job' = [queue_job EXCEPT ![w] = None]
      /\ UNCHANGED <<queue_phase, queue_resumed, queue_aborted, queue_saves, queue_disk,
                     queue_files, queue_got>>
  BY DEF Queue!FetchFails
<1>6. /\ AllSound' /\ Jobs'
      /\ queue_queue'[u] = n
      /\ \A v \in Queue!Pages : v # u => queue_queue'[v] = queue_queue[v]
      /\ \A v \in Workers : queue_pc'[v] \in AtWork =>
            v # w /\ queue_pc[v] = queue_pc'[v] /\ queue_job'[v] = queue_job[v]
  BY <1>1, <1>3, <1>4, <1>5, Leaves
<1>7. QueueTyped'
  BY <1>5 DEF QueueInv, QueueTyped
<1>8. Had'
  <2>1. queue_resumed => u \notin queue_got
    BY <1>1 DEF QueueInv, Had
  <2> QED
    BY <1>5, <1>6, <2>1 DEF QueueInv, QueueTyped, Had
<1> QED
  BY <1>6, <1>7, <1>8 DEF QueueInv

LEMMA CompleteKeeps ==
  ASSUME QueueAssumptions, QueueInv, NEW w \in Workers, Queue!Complete(w) PROVE QueueInv'
<1> USE DEF Queue!StatusIs, Queue!Has, AtWork
<1> DEFINE u == queue_job[w]
           n == [queue_queue[u] EXCEPT !.status = "completed", !.out = u]
<1>1. u \in Queue!Pages /\ queue_pc[w] = "write" /\ queue_queue[u] # None /\ Final[u] = u
      /\ queue_queue[u] \in Queue!Entry
  BY DEF Queue!Complete, QueueInv, Jobs, QueueAssumptions, AllSound, Sound, Queue!Entries
<1>3. n \in Queue!Entry /\ n.out = u /\ n.status = "completed"
  BY <1>1 DEF Queue!Entry
<1>4. queue_queue' = [queue_queue EXCEPT ![u] = n]
  BY <1>1 DEF Queue!Complete, QueueInv, AllSound, Sound, Queue!Entries
<1> HIDE DEF n
<1>5. /\ queue_pc' = [queue_pc EXCEPT ![w] = "idle"] /\ queue_job' = [queue_job EXCEPT ![w] = None]
      /\ queue_files' = [queue_files EXCEPT ![PathOf[u]] = [url |-> u, whole |-> TRUE]]
      /\ queue_got' = queue_got \cup {u}
      /\ UNCHANGED <<queue_phase, queue_resumed, queue_aborted, queue_saves, queue_disk>>
  BY <1>1 DEF Queue!Complete, Queue!PathOfJob
<1>6. /\ AllSound' /\ Jobs'
      /\ queue_queue'[u] = n
      /\ \A v \in Queue!Pages : v # u => queue_queue'[v] = queue_queue[v]
      /\ \A v \in Workers : queue_pc'[v] \in AtWork =>
            v # w /\ queue_pc[v] = queue_pc'[v] /\ queue_job'[v] = queue_job[v]
  BY <1>1, <1>3, <1>4, <1>5, Leaves
<1>7. [url |-> u, whole |-> TRUE] \in PageFiles /\ PathOf[u] \in Queue!Paths
  BY <1>1 DEF PageFiles, Queue!Paths
<1>8. QueueTyped'
  BY <1>1, <1>5, <1>7 DEF QueueInv, QueueTyped
<1>9. Had'
  <2>1. \A v \in queue_got : PathOf[v] # PathOf[u] /\ PathOf[v] \in Queue!Paths
    BY <1>1 DEF QueueInv, Had, QueueTyped, Queue!Paths
  <2>2. \A v \in queue_got' : queue_files'[PathOf[v]] = [url |-> v, whole |-> TRUE]
    BY <1>5, <1>7, <2>1 DEF QueueInv, QueueTyped, Had
  <2>3. ASSUME NEW v \in Workers, queue_pc'[v] = "write"
        PROVE  PathOf[u] # PathOf[queue_job'[v]]
    <3>1. v # w /\ queue_pc[v] = "write" /\ queue_job'[v] = queue_job[v]
      BY <1>6, <2>3
    <3>2. queue_job[v] \in Queue!Pages /\ queue_queue[queue_job[v]] # None /\ queue_job[v] # u
      BY <1>1, <3>1 DEF QueueInv, Jobs
    <3> QED
      BY <1>1, <3>1, <3>2 DEF QueueInv, AllSound, Sound
  <2> QED
    BY <1>3, <1>5, <1>6, <2>2, <2>3 DEF QueueInv, QueueTyped, Had
<1> QED
  BY <1>6, <1>8, <1>9 DEF QueueInv

LEMMA WriteKeeps ==
  ASSUME QueueAssumptions, QueueInv, NEW w \in Workers, Queue!WritePage(w) PROVE QueueInv'
<1> USE DEF Queue!StatusIs, Queue!Has, AtWork
<1> DEFINE u == queue_job[w]
<1>1. u \in Queue!Pages /\ queue_pc[w] = "fetch" /\ Final[u] = u
  BY DEF Queue!WritePage, QueueInv, Jobs, QueueAssumptions
<1>2. /\ queue_pc' = [queue_pc EXCEPT ![w] = "write"]
      /\ queue_files' = [queue_files EXCEPT ![PathOf[u]] = [url |-> u, whole |-> FALSE]]
      /\ queue_got' = queue_got \ Queue!Holders(PathOf[u])
      /\ UNCHANGED <<queue_phase, queue_queue, queue_resumed, queue_aborted, queue_job,
                     queue_saves, queue_disk>>
  BY <1>1 DEF Queue!WritePage, Queue!PathOfJob, Queue!mem
<1>3. [url |-> u, whole |-> FALSE] \in PageFiles /\ PathOf[u] \in Queue!Paths
  BY <1>1 DEF PageFiles, Queue!Paths
<1>4. \A v \in queue_got' : v \in queue_got /\ PathOf[v] # PathOf[u] /\ PathOf[v] \in Queue!Paths
  BY <1>2 DEF Queue!Holders, QueueInv, QueueTyped, QueueAssumptions, Queue!Paths
<1>5. queue_pc'[w] = "write" /\ \A v \in Workers : v # w => queue_pc'[v] = queue_pc[v]
  BY <1>2 DEF QueueInv, QueueTyped
<1>6. QueueTyped'
  BY <1>2, <1>3 DEF QueueInv, QueueTyped
<1>7. AllSound'
  BY <1>2 DEF QueueInv, AllSound
<1>8. Jobs'
  <2>1. \A v \in Workers : queue_pc'[v] \in AtWork <=> queue_pc[v] \in AtWork
    BY <1>1, <1>5
  <2> QED
    BY <1>2, <1>5, <2>1 DEF QueueInv, Jobs
<1>9. Had'
  <2>1. \A v \in queue_got' : queue_files'[PathOf[v]] = [url |-> v, whole |-> TRUE]
    BY <1>2, <1>3, <1>4 DEF QueueInv, QueueTyped, Had
  <2> QED
    BY <1>2, <1>4, <1>5, <2>1 DEF QueueInv, Had
<1> QED
  BY <1>6, <1>7, <1>8, <1>9 DEF QueueInv

\* A save whose first lines are on disk is a queue file with fewer entries.
LEMMA TornSound ==
  ASSUME QueueAssumptions, NEW e, Sound(e), NEW k,
         NEW f, f = [u \in Queue!Pages |-> IF u <= k THEN e[u] ELSE None]
  PROVE  Sound(f)
<1>1. f \in Queue!Entries /\ \A u \in Queue!Pages : f[u] \in {e[u], None}
  BY DEF Sound, Queue!Entries
<1> QED
  BY <1>1 DEF Sound

LEMMA QueueStep ==
  ASSUME QueueAssumptions, QueueInv, [Queue!Next]_(Queue!vars) PROVE QueueInv'
<1> USE DEF Queue!mem, Queue!work, AtWork
<1>1. CASE Queue!Start
  <2>1. /\ Sound(queue_queue') /\ ~queue_aborted'
        /\ \A u \in Queue!Pages : ~Queue!StatusIs(u, "in_progress")'
        /\ queue_resumed' => \A u \in queue_got : queue_queue'[u] # None =>
              queue_queue'[u].status \in {"completed", "failed"}
    <3>1. CASE Queue!StartResumed
      BY <1>1, <3>1, Repairs DEF Queue!Start, Queue!StartResumed, Queue!StatusIs, Queue!Has
    <3>2. CASE Queue!StartFresh
      <4>1. \A u \in Queue!Pages : queue_queue'[u] \in {None, Queue!Queued(None)}
        BY <3>2 DEF Queue!StartFresh, Queue!AddFirst
      <4>2. ASSUME NEW u \in Queue!Pages, NEW v \in Queue!Pages, queue_queue'[u] # None,
                   queue_queue'[v] # None, PathOf[u] = PathOf[v]
            PROVE  u = v
        BY <3>2, <4>2 DEF Queue!StartFresh, Queue!AddFirst, Queue!Pages, QueueAssumptions
      <4>3. queue_queue' \in Queue!Entries
        BY <3>2, <4>1 DEF Queue!StartFresh, Queue!Entries, Queue!Queued, Queue!Entry,
           QueueAssumptions
      <4> QED
        BY <1>1, <3>2, <4>1, <4>2, <4>3
           DEF Queue!Start, Queue!StartFresh, Sound, Queue!Queued, Queue!StatusIs, Queue!Has,
               QueueAssumptions
    <3> QED
      BY <1>1, <3>1, <3>2 DEF Queue!Start
  <2> QED
    BY <1>1, <2>1 DEF Queue!Start, Queue!Idle, QueueInv, QueueTyped, AllSound, Jobs, Had,
       QueueAssumptions
<1>2. ASSUME NEW w \in Workers, Queue!Worker(w) PROVE QueueInv'
  <2>1. CASE Queue!Stop(w)
    <3>1. /\ queue_pc' = [queue_pc EXCEPT ![w] = "stopped"] /\ queue_pc[w] = "idle"
          /\ UNCHANGED <<queue_queue, queue_resumed, queue_aborted, queue_job, queue_saves,
                         queue_disk, queue_files, queue_got>>
      BY <2>1 DEF Queue!Stop
    <3>2. \A u \in Queue!Pages : ~Queue!StatusIs(u, "queued")
      BY <2>1 DEF Queue!Stop, Queue!Takeable, Queue!StatusIs, Queue!Has, QueueInv, AllSound, Sound
    <3>3. queue_pc'[w] = "stopped" /\ \A v \in Workers : v # w => queue_pc'[v] = queue_pc[v]
      BY <3>1 DEF QueueInv, QueueTyped
    <3>4. QueueTyped' /\ AllSound'
      BY <3>1 DEF QueueInv, QueueTyped, AllSound
    <3>5. Jobs' /\ Had'
      BY <3>1, <3>2, <3>3 DEF QueueInv, Jobs, Had, Queue!StatusIs, Queue!Has
    <3> QED
      BY <3>4, <3>5 DEF QueueInv
  <2> QED
    BY <1>2, <2>1, TakeKeeps, FailKeeps, WriteKeeps, CompleteKeeps DEF Queue!Worker
<1>3. CASE Queue!Abort \/ Queue!Close \/ Queue!CloseClean
  BY <1>3 DEF Queue!Abort, Queue!Close, Queue!CloseClean, QueueInv, QueueTyped, AllSound, Jobs,
     Had, Queue!StatusIs, Queue!Has
<1>4. CASE Queue!Crash
  <2>1. /\ queue_queue' = Queue!NoEntries /\ queue_saves' = [s \in Queue!Savers |-> None]
        /\ Queue!Idle /\ UNCHANGED <<queue_resumed, queue_aborted, queue_files, queue_got>>
    BY <1>4 DEF Queue!Crash
  <2>2. queue_disk' # None => Sound(queue_disk')
    BY <1>4, TornSound DEF Queue!Crash, QueueInv, AllSound
  <2>3. Sound(queue_queue') /\ \A u \in Queue!Pages : queue_queue'[u] = None
    BY <2>1 DEF Queue!NoEntries, Sound, Queue!Entries
  <2>4. QueueTyped'
    BY <2>1 DEF Queue!Idle, QueueInv, QueueTyped
  <2>5. Jobs'
    BY <2>1, <2>3 DEF Queue!Idle, Jobs, Queue!StatusIs, Queue!Has
  <2>6. Had'
    BY <2>1, <2>3 DEF Queue!Idle, QueueInv, QueueTyped, Had
  <2> QED
    BY <2>1, <2>2, <2>3, <2>4, <2>5, <2>6 DEF QueueInv, AllSound
<1>5. ASSUME NEW s \in Queue!Savers, Queue!Save(s) \/ Queue!SaveDone(s) \/ Queue!SaveFails(s)
      PROVE  QueueInv'
  <2>1. UNCHANGED <<queue_queue, queue_resumed, queue_aborted, queue_pc, queue_job, queue_files,
                    queue_got>>
    BY <1>5 DEF Queue!Save, Queue!SaveDone, Queue!SaveFails
  <2>2. /\ queue_saves' \in [Queue!Savers -> Queue!Entries \cup {None}]
        /\ \A r \in Queue!Savers : queue_saves'[r] # None => Sound(queue_saves'[r])
        /\ queue_disk' # None => Sound(queue_disk')
    <3>1. Sound(queue_queue) /\ queue_queue \in Queue!Entries
      BY DEF QueueInv, AllSound, Sound
    <3>2. PICK x \in {None, queue_queue} : queue_saves' = [queue_saves EXCEPT ![s] = x]
      BY <1>5 DEF Queue!Save, Queue!SaveDone, Queue!SaveFails
    <3>3. queue_disk' \in {queue_disk, queue_saves[s]} /\ (queue_disk' = queue_disk \/ queue_saves[s] # None)
      BY <1>5 DEF Queue!Save, Queue!SaveDone, Queue!SaveFails
    <3> QED
      BY <3>1, <3>2, <3>3 DEF QueueInv, QueueTyped, AllSound
  <2> QED
    BY <2>1, <2>2 DEF QueueInv, QueueTyped, AllSound, Jobs, Had, Queue!StatusIs, Queue!Has
<1>6. ASSUME NEW p \in Queue!Paths, Queue!DeleteFile(p) PROVE QueueInv'
  <2>1. UNCHANGED <<queue_queue, queue_resumed, queue_aborted, queue_pc, queue_job, queue_saves,
                    queue_disk>>
        /\ queue_files' = [queue_files EXCEPT ![p] = None]
        /\ queue_got' = queue_got \ Queue!Holders(p)
    BY <1>6 DEF Queue!DeleteFile
  <2>2. \A v \in queue_got' : v \in queue_got /\ PathOf[v] # p /\ PathOf[v] \in Queue!Paths
    BY <2>1 DEF Queue!Holders, QueueInv, QueueTyped, QueueAssumptions, Queue!Paths
  <2>3. QueueTyped' /\ Had'
    BY <2>1, <2>2 DEF QueueInv, QueueTyped, Had
  <2> QED
    BY <2>1, <2>3 DEF QueueInv, AllSound, Jobs, Queue!StatusIs, Queue!Has
<1>7. CASE UNCHANGED Queue!vars
  BY <1>7 DEF Queue!vars, QueueInv, QueueTyped, AllSound, Jobs, Had, Queue!StatusIs, Queue!Has
<1> QED
  BY <1>1, <1>2, <1>3, <1>4, <1>5, <1>6, <1>7 DEF Queue!Next, Queue!Saver

\* A pull that was interrupted: its workers write different files, no page is left behind
\* unless the user cancelled the pull, and the pull that resumes it fetches none again
\* that is on disk.
PagesKept ==
    []Queue!WritersApart /\ []Queue!AllSettled /\ Queue!ResumeKeepsPages

\* PagesKept for any number of workers and pages, whatever fails, is deleted or dies in
\* between, where no request is redirected.
THEOREM PagesStayKept ==
  ASSUME QueueAssumptions PROVE Queue!Spec => PagesKept
<1> DEFINE Again ==
      \A w \in Workers : (queue_resumed /\ queue_pc[w] = "idle" /\ queue_pc'[w] = "fetch")
                            => queue_job'[w] \notin queue_got
<1>1. Queue!Init => QueueInv
  BY QueueInit
<1>2. QueueInv /\ [Queue!Next]_(Queue!vars) => QueueInv'
  BY QueueStep
<1>3. QueueInv => Queue!WritersApart
  BY DEF QueueInv, Jobs, AllSound, Sound, Queue!WritersApart, Queue!StatusIs, Queue!Has, AtWork
<1>4. QueueInv => Queue!AllSettled
  <2> SUFFICES ASSUME QueueInv, ~queue_aborted, \A w \in Workers : queue_pc[w] = "stopped",
                      NEW u \in Queue!Pages, queue_queue[u] # None
               PROVE  queue_queue[u].status \in {"completed", "failed"}
    BY DEF Queue!AllSettled, Queue!Has
  <2>1. queue_queue[u] \in Queue!Entry
    BY DEF QueueInv, AllSound, Sound, Queue!Entries
  <2>2. queue_queue[u].status \notin {"queued", "in_progress"}
    BY DEF QueueInv, Jobs, Queue!StatusIs, Queue!Has, AtWork
  <2> QED
    BY <2>1, <2>2 DEF Queue!Entry
<1>5. QueueInv /\ [Queue!Next]_(Queue!vars) => [Again]_(Queue!vars)
  <2> SUFFICES ASSUME QueueInv, Queue!Next, NEW w \in Workers, queue_resumed,
                      queue_pc[w] = "idle", queue_pc'[w] = "fetch"
               PROVE  queue_job'[w] \notin queue_got
    OBVIOUS
  <2>1. Queue!Take(w)
    <3>1. ASSUME NEW v \in Workers, Queue!Worker(v), v # w PROVE queue_pc'[w] = queue_pc[w]
      BY <3>1 DEF Queue!Worker, Queue!Take, Queue!Stop, Queue!FetchFails, Queue!WritePage,
         Queue!Complete, Queue!work, QueueInv, QueueTyped
    <3>2. Queue!Worker(w) => Queue!Take(w)
      BY DEF Queue!Worker, Queue!Stop, Queue!FetchFails, Queue!WritePage, Queue!Complete,
         QueueInv, QueueTyped
    <3>3. ~(Queue!Start \/ Queue!Abort \/ Queue!Close \/ Queue!CloseClean \/ Queue!Crash)
      BY DEF Queue!Start, Queue!Abort, Queue!Close, Queue!CloseClean, Queue!Crash, Queue!Idle,
         Queue!work
    <3>4. \A s \in Queue!Savers : ~(Queue!Save(s) \/ Queue!Saver(s))
      BY DEF Queue!Save, Queue!Saver, Queue!SaveDone, Queue!SaveFails, Queue!work
    <3>5. \A p \in Queue!Paths : ~Queue!DeleteFile(p)
      BY DEF Queue!DeleteFile, Queue!work
    <3> QED
      BY <3>1, <3>2, <3>3, <3>4, <3>5 DEF Queue!Next
  <2>2. PICK u \in Queue!Pages :
          Queue!Takeable(u) /\ (queue_job' = [queue_job EXCEPT ![w] = u] \/ UNCHANGED queue_pc)
    BY <2>1 DEF Queue!Take, Queue!work
  <2>3. queue_job'[w] = u
    BY <2>2 DEF QueueInv, QueueTyped
  <2>4. u \notin queue_got
    BY <2>2 DEF Queue!Takeable, Queue!StatusIs, Queue!Has, QueueInv, Had
  <2> QED
    BY <2>3, <2>4
<1>6. Queue!ResumeKeepsPages <=> [][Again]_(Queue!vars)
  BY DEF Queue!ResumeKeepsPages
<1> HIDE DEF Again
<1> QED
  BY <1>1, <1>2, <1>3, <1>4, <1>5, <1>6, PTL DEF Queue!Spec, PagesKept

-----------------------------------------------------------------------------
(* BrokerStartup *)

\* Two contenders at most, and no process is mistaken for the dead one or for none.
StartupAssumptions ==
    /\ \A p, q, r \in Brokers : p = q \/ q = r \/ p = r
    /\ Old \notin Brokers /\ None \notin Brokers /\ Old # None
    /\ None \notin Startup!Directory

StartupTyped ==
    /\ startup_lock \in Startup!Directory \cup {None}
    /\ startup_aside \in [Brokers -> Startup!Directory \cup {None}]
    /\ startup_seen \in [Brokers -> Startup!Owner]
    /\ startup_pc \in [Brokers ->
          Startup!Claiming \cup Startup!Holding \cup {"check"} \cup Startup!Ended]

LockOwner == Startup!OwnerOf(startup_lock)
AsideOwner(p) == Startup!OwnerOf(startup_aside[p])
PcOf(p) == startup_pc[p]
Judging(p) == PcOf(p) \in {"judge", "restore"}
Claimed(p) == PcOf(p) = "write" \/ PcOf(p) \in Startup!Holding

\* What a process may rely on: a directory it moved aside is one, what it read of a
\* lock it moves away is a record of a dead process or of none, and who has not
\* written its record has none anywhere.
Relies(p) ==
    /\ PcOf(p) \in {"judge", "restore", "check"} => startup_aside[p] # None
    /\ PcOf(p) = "check" => AsideOwner(p) = p
    /\ PcOf(p) = "rename" \/ Judging(p) =>
          \A q \in Brokers : startup_seen[p] = q => PcOf(q) \in Startup!Ended
    /\ PcOf(p) \in Startup!Claiming =>
          LockOwner # p /\ \A q \in Brokers : AsideOwner(q) # p

\* The record of the dead process is moved away once, by one that has read it, and
\* never put back.
OldOnce ==
    /\ LockOwner = Old => \A p \in Brokers :
          \/ PcOf(p) \in {"mkdir", "read"} \cup Startup!Ended
          \/ PcOf(p) \in {"inspect", "rename"} /\ startup_seen[p] = Old
    /\ \A p \in Brokers : Judging(p) /\ AsideOwner(p) = Old =>
          PcOf(p) = "judge" /\ startup_seen[p] = Old

\* One process has claimed the lock, and the other one cannot find it free: the directory
\* is there, or the other has it aside and will put it back, if it lives.
OneClaim ==
    \A p, q \in Brokers : p # q /\ Claimed(p) =>
        /\ ~Claimed(q)
        /\ PcOf(p) = "write" => LockOwner = None /\ (startup_lock # None \/
              (Judging(q) /\ AsideOwner(q) = None) \/ PcOf(q) \in Startup!Ended)

\* Whoever has the lock has its record there, or the other one has it aside.
Recorded ==
    \A p \in Brokers : PcOf(p) \in Startup!Holding =>
        \/ LockOwner = p
        \/ /\ startup_lock = None
           /\ \E q \in Brokers \ {p} :
                AsideOwner(q) = p /\ (Judging(q) \/ PcOf(q) \in Startup!Ended)

StartupInv ==
    /\ StartupTyped /\ OldOnce /\ OneClaim /\ Recorded
    /\ \A p \in Brokers : Relies(p)
    /\ \A p \in Brokers : PcOf(p) = "serving" => startup_socket = p

\* A directory with an owner or without one is one, and is not none.
LEMMA Directories ==
  ASSUME StartupAssumptions, NEW o \in Startup!Owner, NEW g \in BOOLEAN
  PROVE  LET d == [owner |-> o, aged |-> g]
         IN  d \in Startup!Directory /\ d # None /\ d.owner = o
  BY DEF StartupAssumptions, Startup!Directory

LEMMA StartupInit == ASSUME StartupAssumptions, Startup!Init PROVE StartupInv
<1>1. startup_lock \in Startup!Directory \cup {None}
  BY Directories DEF Startup!Init, Startup!Owner
<1> QED
  BY <1>1 DEF StartupAssumptions, Startup!Init, StartupInv, StartupTyped, OldOnce, OneClaim,
     Recorded, Relies, LockOwner, AsideOwner, PcOf, Judging, Claimed, Startup!OwnerOf,
     Startup!Owner, Startup!Claiming, Startup!Holding, Startup!Ended

LEMMA StartupStep ==
  ASSUME StartupAssumptions, StartupInv, [Startup!Next]_(Startup!vars) PROVE StartupInv'
<1> USE DEF StartupAssumptions, LockOwner, AsideOwner, PcOf, Judging, Claimed, Startup!OwnerOf,
      Startup!Directory, Startup!Owner, Startup!Claiming, Startup!Holding, Startup!Ended,
      Startup!At, Startup!Goto, Startup!Alive, Startup!MoveBack, StartupInv, StartupTyped, OldOnce,
      OneClaim, Recorded, Relies
<1>1. ASSUME NEW p \in Brokers, Startup!Mkdir(p) PROVE StartupInv'
  <2>1. CASE startup_lock = None
    <3>1. startup_lock' = [owner |-> None, aged |-> FALSE] /\ None \in Startup!Owner
      BY <1>1, <2>1 DEF Startup!Mkdir
    <3>2. startup_lock' \in Startup!Directory /\ startup_lock' # None /\ startup_lock'.owner = None
      BY <3>1, Directories
    <3> QED
      BY <1>1, <2>1, <3>2 DEF Startup!Mkdir
  <2>2. CASE startup_lock # None
    BY <1>1, <2>2 DEF Startup!Mkdir
  <2> QED
    BY <2>1, <2>2
<1>2. ASSUME NEW p \in Brokers, Startup!Write(p) PROVE StartupInv'
  <2>1. CASE startup_lock # None
    <3>1. startup_lock' = [owner |-> p, aged |-> FALSE] /\ p \in Startup!Owner
      BY <1>2, <2>1 DEF Startup!Write
    <3>2. startup_lock' \in Startup!Directory /\ startup_lock' # None /\ startup_lock'.owner = p
      BY <3>1, Directories
    <3> QED
      BY <1>2, <2>1, <3>2 DEF Startup!Write
  <2>2. CASE startup_lock = None
    BY <1>2, <2>2 DEF Startup!Write
  <2> QED
    BY <2>1, <2>2
<1>3. ASSUME NEW p \in Brokers, Startup!WriteFails(p) PROVE StartupInv'
  BY <1>3 DEF Startup!WriteFails
<1>4. ASSUME NEW p \in Brokers, Startup!Read(p) PROVE StartupInv'
  BY <1>4 DEF Startup!Read
<1>5. ASSUME NEW p \in Brokers, Startup!Inspect(p) PROVE StartupInv'
  BY <1>5 DEF Startup!Inspect
<1>6. ASSUME NEW p \in Brokers, Startup!Rename(p) PROVE StartupInv'
  BY <1>6 DEF Startup!Rename
<1>7. ASSUME NEW p \in Brokers, Startup!Judge(p) PROVE StartupInv'
  BY <1>7 DEF Startup!Judge
<1>8. ASSUME NEW p \in Brokers, Startup!Restore(p) PROVE StartupInv'
  BY <1>8 DEF Startup!Restore
<1>9. ASSUME NEW p \in Brokers, Startup!Connect(p) PROVE StartupInv'
  BY <1>9 DEF Startup!Connect
<1>10. ASSUME NEW p \in Brokers, Startup!FindSocket(p) PROVE StartupInv'
  BY <1>10 DEF Startup!FindSocket
<1>11. ASSUME NEW p \in Brokers, Startup!Probe(p) PROVE StartupInv'
  BY <1>11 DEF Startup!Probe
<1>12. ASSUME NEW p \in Brokers, Startup!RemoveSocket(p) PROVE StartupInv'
  BY <1>12 DEF Startup!RemoveSocket
<1>13. ASSUME NEW p \in Brokers, Startup!Listen(p) PROVE StartupInv'
  BY <1>13 DEF Startup!Listen
<1>14. ASSUME NEW p \in Brokers, Startup!Stop(p) PROVE StartupInv'
  BY <1>14 DEF Startup!Stop
<1>15. ASSUME NEW p \in Brokers, Startup!Unlink(p) PROVE StartupInv'
  BY <1>15 DEF Startup!Unlink
<1>16. ASSUME NEW p \in Brokers, Startup!Release(p) PROVE StartupInv'
  BY <1>16 DEF Startup!Release
<1>17. ASSUME NEW p \in Brokers, Startup!Unlock(p) PROVE StartupInv'
  BY <1>17 DEF Startup!Unlock
<1>18. ASSUME NEW p \in Brokers, Startup!Check(p) PROVE StartupInv'
  BY <1>18 DEF Startup!Check
<1>19. ASSUME NEW p \in Brokers, Startup!Crash(p) PROVE StartupInv'
  BY <1>19 DEF Startup!Crash
<1>20. CASE Startup!Age
  <2>1. startup_lock' = [owner |-> startup_lock.owner, aged |-> TRUE]
        /\ startup_lock.owner \in Startup!Owner
    BY <1>20 DEF Startup!Age
  <2>2. startup_lock' \in Startup!Directory /\ startup_lock' # None
        /\ startup_lock'.owner = startup_lock.owner
    BY <2>1, Directories
  <2> QED
    BY <1>20, <2>2 DEF Startup!Age
<1>21. CASE UNCHANGED Startup!vars
  BY <1>21 DEF Startup!vars
<1> QED
  BY <1>1, <1>2, <1>3, <1>4, <1>5, <1>6, <1>7, <1>8, <1>9, <1>10, <1>11, <1>12, <1>13, <1>14, <1>15, <1>16, <1>17, <1>18, <1>19, <1>20, <1>21
     DEF Startup!Next, Startup!ClaimStep, Startup!StartStep, Startup!StopStep

LEMMA SameNumber == ASSUME NEW S PROVE Startup!Cardinality(S) = Cardinality(S)
  BY DEF Startup!Cardinality, Cardinality, Startup!IsFiniteSet, IsFiniteSet

\* A profile has one broker at a time, which its clients reach ("A broker already owns this
\* Chrome profile", claimStartupLock()), and the record of a live owner is never removed
\* ("Never unlink a live owner's lock"), whichever processes claim, start, stop or die
\* around a lock and a socket that a dead broker left.
OwnerKept ==
    []Startup!OneOwner /\ []Startup!ServingReachable /\ Startup!LiveRecordKept

\* OwnerKept for two contenders and any number of retries; it fails for three.
THEOREM OwnerStaysKept ==
  ASSUME StartupAssumptions PROVE Startup!Spec => OwnerKept
<1> DEFINE RecordKept ==
      \A p \in Brokers :
        (p \in Startup!Owners /\ p \in Startup!Owners'
            /\ p \in {Startup!OwnerOf(startup_lock)}
                      \cup {Startup!OwnerOf(startup_aside[q]) : q \in Brokers})
          => p \in {Startup!OwnerOf(startup_lock')}
                     \cup {Startup!OwnerOf(startup_aside'[q]) : q \in Brokers}
<1>1. Startup!Init => StartupInv
  BY StartupInit
<1>2. StartupInv /\ [Startup!Next]_(Startup!vars) => StartupInv'
  BY StartupStep
<1>3. StartupInv => Startup!OneOwner
  <2> SUFFICES ASSUME StartupInv PROVE Cardinality(Startup!Owners) <= 1
    BY SameNumber DEF Startup!OneOwner
  <2>1. \A p, q \in Startup!Owners : p = q
    BY DEF StartupInv, OneClaim, Claimed, PcOf, Startup!Owners
  <2>2. Startup!Owners = {} \/ \E p : Startup!Owners = {p}
    BY <2>1
  <2>3. Cardinality(Startup!Owners) \in {0, 1}
    BY <2>2, FS_EmptySet, FS_Singleton
  <2> QED
    BY <2>3
<1>4. StartupInv => Startup!ServingReachable
  BY DEF StartupInv, PcOf, Startup!ServingReachable
<1>5. StartupInv' => \A p \in Brokers : p \in Startup!Owners' =>
        p \in {Startup!OwnerOf(startup_lock')}
                \cup {Startup!OwnerOf(startup_aside'[q]) : q \in Brokers}
  BY DEF StartupInv, Recorded, LockOwner, AsideOwner, PcOf, Startup!Owners
<1>6. Startup!LiveRecordKept <=> [][RecordKept]_(Startup!vars)
  BY DEF Startup!LiveRecordKept
<1>7. StartupInv' => [RecordKept]_(Startup!vars)
  BY <1>5
<1> HIDE DEF RecordKept
<1> QED
  BY <1>1, <1>2, <1>3, <1>4, <1>6, <1>7, PTL DEF Startup!Spec, OwnerKept

-----------------------------------------------------------------------------
(* CdpTransport: TransportSettles without its liveness, for any number of     *)
(* commands and sockets. A command is in the table exactly while it is        *)
(* pending: whoever takes it out settles it.                                  *)

Outcomes == {"new", "pending", "answered", "failed"}

TransportInv ==
    /\ cdp_generation \in Nat
    /\ cdp_pending \in [Commands -> Nat \cup {None}]
    /\ cdp_status \in [Commands -> Outcomes]
    /\ cdp_answer = [c \in Commands |-> c]
    /\ \A c \in Commands : cdp_pending[c] # None <=> cdp_status[c] = "pending"

\* Commands that leave the table settle in one step of the ledger.
LEMMA SettleSettles ==
    ASSUME TransportInv, NEW C \in SUBSET Commands, C # {}, \A c \in C : cdp_pending[c] # None,
           NEW how \in {"answered", "failed"}, Transport!Settle(C, how), cdp_generation' \in Nat,
           cdp_answer' = cdp_answer
    PROVE  TransportInv' /\ Transport!Ledger!Next
<1>1. /\ cdp_pending' = [c \in Commands |-> IF c \in C THEN None ELSE cdp_pending[c]]
      /\ cdp_status' = [c \in Commands |-> IF c \in C THEN how ELSE cdp_status[c]]
  BY DEF Transport!Settle
<1>2. TransportInv'
  BY <1>1 DEF TransportInv, Outcomes
<1>3. Transport!Ledger!Settle(C)
  <2>1. [c \in C |-> how] \in [C -> {"answered", "failed"}]
    OBVIOUS
  <2>2. cdp_status' = [c \in Commands |-> IF c \in C THEN [d \in C |-> how][c] ELSE cdp_status[c]]
    BY <1>1
  <2>3. \A c \in C : cdp_status[c] = "pending"
    BY DEF TransportInv
  <2> QED
    BY <2>1, <2>2, <2>3 DEF Transport!Ledger!Settle
<1> QED
  BY <1>2, <1>3 DEF Transport!Ledger!Next

\* markClosed() settles everything pending, or changes nothing of the table.
LEMMA MarkClosedSettles ==
    ASSUME TransportInv, Transport!MarkClosed, cdp_answer' = cdp_answer
    PROVE  TransportInv' /\ (Transport!Ledger!Next \/ UNCHANGED Transport!Ledger!lvars)
<1> DEFINE P == {c \in Commands : cdp_pending[c] # None}
<1>1. CASE UNCHANGED <<cdp_generation, cdp_pending, cdp_status>>
  BY <1>1 DEF TransportInv, Transport!Ledger!lvars
<1>2. CASE cdp_generation' = cdp_generation + 1 /\ Transport!Settle(P, "failed")
  <2>1. cdp_generation' \in Nat
    BY <1>2 DEF TransportInv
  <2>2. CASE P # {}
    BY <1>2, <2>1, <2>2, SettleSettles
  <2>3. CASE P = {}
    <3>1. cdp_pending' = cdp_pending /\ cdp_status' = cdp_status
      BY <1>2, <2>3 DEF Transport!Settle, TransportInv
    <3> QED
      BY <2>1, <3>1 DEF TransportInv, Transport!Ledger!lvars
  <2> QED
    BY <2>2, <2>3
<1> QED
  BY <1>1, <1>2 DEF Transport!MarkClosed

LEMMA SendTakes ==
    ASSUME None \notin Nat, TransportInv, NEW c \in Commands, Transport!Send(c)
    PROVE  TransportInv' /\ Transport!Ledger!Next
<1>1. /\ cdp_status[c] = "new" /\ cdp_answer' = cdp_answer /\ cdp_generation' = cdp_generation
      /\ \/ cdp_status' = [cdp_status EXCEPT ![c] = "failed"] /\ cdp_pending' = cdp_pending
         \/ /\ cdp_status' = [cdp_status EXCEPT ![c] = "pending"]
            /\ cdp_pending' = [cdp_pending EXCEPT ![c] = cdp_generation]
  BY DEF Transport!Send
<1>2. TransportInv'
  BY <1>1 DEF TransportInv, Outcomes
<1>3. Transport!Ledger!Take(c)
  BY <1>1 DEF Transport!Ledger!Take
<1> QED
  BY <1>2, <1>3 DEF Transport!Ledger!Next

\* What a connection does settles each command once: by its answer, its deadline or the
\* loss of a socket, whichever comes first (settle() and markClosed()).
THEOREM TransportRefines ==
    ASSUME None \notin Nat
    PROVE  Transport!Spec => Transport!Ledger!Safe
<1>1. Transport!Init => TransportInv /\ Transport!Ledger!Init
  BY DEF Transport!Init, TransportInv, Outcomes, Transport!Ledger!Init
<1>2. TransportInv /\ [Transport!Next]_(Transport!vars) =>
          TransportInv' /\ [Transport!Ledger!Next]_(Transport!Ledger!lvars)
  <2> SUFFICES ASSUME TransportInv, [Transport!Next]_(Transport!vars)
               PROVE  TransportInv' /\ (Transport!Ledger!Next \/ UNCHANGED Transport!Ledger!lvars)
    OBVIOUS
  <2>1. CASE UNCHANGED <<cdp_generation, cdp_pending, cdp_status, cdp_answer>>
    BY <2>1 DEF TransportInv, Transport!Ledger!lvars
  <2>2. ASSUME NEW s \in WebSockets,
               \/ Transport!Connect(s) \/ Transport!Open(s)
               \/ Transport!ConnectFails(s) \/ Transport!Drops(s)
        PROVE  UNCHANGED <<cdp_generation, cdp_pending, cdp_status, cdp_answer>>
    BY <2>2
       DEF Transport!Connect, Transport!Open, Transport!ConnectFails, Transport!Drops
  <2>3. ASSUME NEW s \in WebSockets, Transport!Closed(s)
        PROVE  TransportInv' /\ (Transport!Ledger!Next \/ UNCHANGED Transport!Ledger!lvars)
    BY <2>3, MarkClosedSettles DEF Transport!Closed
  <2>4. ASSUME NEW s \in WebSockets, NEW c \in Commands, Transport!HandleMessage(s, c)
        PROVE  TransportInv' /\ (Transport!Ledger!Next \/ UNCHANGED Transport!Ledger!lvars)
    <3>1. CASE cdp_pending[c] = cdp_generation
      <4>1. cdp_pending[c] # None /\ cdp_generation' \in Nat
        BY <2>4, <3>1 DEF Transport!HandleMessage, TransportInv
      <4>2. PICK how \in {"answered", "failed"} : Transport!Settle({c}, how)
        BY <2>4, <3>1 DEF Transport!HandleMessage
      <4>3. cdp_answer' = cdp_answer
        BY <2>4, <3>1 DEF Transport!HandleMessage, TransportInv
      <4> QED
        BY <4>1, <4>2, <4>3, SettleSettles
    <3>2. CASE cdp_pending[c] # cdp_generation
      BY <2>1, <2>4, <3>2 DEF Transport!HandleMessage
    <3> QED
      BY <3>1, <3>2
  <2>5. ASSUME NEW c \in Commands, Transport!Send(c)
        PROVE  TransportInv' /\ (Transport!Ledger!Next \/ UNCHANGED Transport!Ledger!lvars)
    BY <2>5, SendTakes
  <2>6. ASSUME NEW c \in Commands, Transport!Abort(c)
        PROVE  TransportInv' /\ (Transport!Ledger!Next \/ UNCHANGED Transport!Ledger!lvars)
    <3>1. /\ cdp_pending[c] # None /\ Transport!Settle({c}, "failed")
          /\ cdp_generation' \in Nat /\ cdp_answer' = cdp_answer
      BY <2>6 DEF Transport!Abort, TransportInv
    <3> QED
      BY <3>1, SettleSettles
  <2>7. CASE Transport!Close
    BY <2>7, MarkClosedSettles DEF Transport!Close
  <2> QED
    BY <2>1, <2>2, <2>3, <2>4, <2>5, <2>6, <2>7 DEF Transport!Next, Transport!vars
<1> QED
  BY <1>1, <1>2, PTL DEF Transport!Spec, Transport!Ledger!Safe
=============================================================================
