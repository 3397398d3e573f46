----------------------------- MODULE ChildSlots -----------------------------
(* The child processes of the legacy Google lane (src/google-ai.ts): at most  *)
(* MaxChildren run at once, further callers wait in a queue under their own   *)
(* deadline and abort signal, and concurrent ensureChrome() calls share one   *)
(* run of the launcher.                                                       *)
(*                                                                            *)
(* One JavaScript thread: a callback runs to its end, then the continuations  *)
(* it made ready (micro, in order), then the next callback. Abort listeners   *)
(* of one signal run one after another in the order they were added.          *)
EXTENDS Naturals, FiniteSets, Sequences

CONSTANTS
    Calls,          \* calls of runNodeChild()
    Launches,       \* those of Calls made by ensureChrome()
    SignalOf,       \* [Calls -> abort signals, or None]
    MaxChildren,    \* MAX_GOOGLE_CHILD_PROCESSES
    None

VARIABLES
    pc,         \* per call: "new", "queued", "running", "joined", "ended"
    slots,      \* active, waiters: the counter and the queue of resolvers
                \* micro: woken waiters whose continuation has not run
                \* listeners: the abort listeners, in the order they were added
    aborted,    \* signals that have fired
    late,       \* calls whose deadline has passed
    kids,       \* calls whose child process exists
    launch,     \* the call whose run is chromeLaunchPromise, or None
    joined      \* per joined ensureChrome(): the call whose run it awaits

vars == <<pc, slots, aborted, late, kids, launch, joined>>

Cancelled(c) == SignalOf[c] \in aborted

Quiet == slots.micro = <<>>

\* Settled runs: their joiners get the outcome, and the first caller's
\* `finally` forgets the promise.
Settle(cs) ==
    LET Over(c) == c \in cs \/ joined[c] \in cs
    IN  /\ pc' = [c \in Calls |-> IF Over(c) THEN "ended" ELSE pc[c]]
        /\ joined' = [c \in Calls |-> IF Over(c) THEN None ELSE joined[c]]
        /\ launch' = IF launch \in cs THEN None ELSE launch

Elems(q) == {q[i] : i \in DOMAIN q}

\* indexOf() and splice(): the first c leaves the queue q.
Without(q, c) ==
    IF c \notin Elems(q) THEN q
    ELSE LET at == CHOOSE i \in DOMAIN q : q[i] = c /\ \A j \in 1 .. i - 1 : q[j] # c
         IN  [i \in 1 .. Len(q) - 1 |-> IF i < at THEN q[i] ELSE q[i + 1]]

Unlisten(s, c) == [s EXCEPT !.listeners = Without(@, c)]

\* A release: the waiter at the head is resolved, its timer and listener gone.
Released(s) ==
    LET t == [s EXCEPT !.active = @ - 1]
    IN  IF s.waiters = <<>> THEN t
        ELSE [Unlisten(t, Head(s.waiters)) EXCEPT
                !.waiters = Tail(@), !.micro = Append(@, Head(s.waiters))]

Init ==
    /\ pc = [c \in Calls |-> "new"]
    /\ slots = [active |-> 0, waiters |-> <<>>, micro |-> <<>>, listeners |-> <<>>]
    /\ aborted = {} /\ late = {} /\ kids = {}
    /\ launch = None
    /\ joined = [c \in Calls |-> None]

\* The end of acquireGoogleChildSlot(): abort and deadline are looked at, the
\* limit is not, and the child is spawned.
Proceed(c, s) ==
    IF Cancelled(c) \/ c \in late
    THEN Settle({c}) /\ slots' = s /\ UNCHANGED kids
    ELSE /\ pc' = [pc EXCEPT ![c] = "running"]
         /\ slots' = [s EXCEPT !.active = @ + 1, !.listeners = Append(@, c)]
         /\ kids' = kids \cup {c}
         /\ launch' = IF c \in Launches THEN c ELSE launch
         /\ UNCHANGED joined

\* An ensureChrome() that finds a launch under way awaits that one.
Join(c) ==
    /\ Quiet /\ pc[c] = "new" /\ c \in Launches /\ launch # None
    /\ IF Cancelled(c) \/ c \in late
       THEN pc' = [pc EXCEPT ![c] = "ended"] /\ UNCHANGED joined
       ELSE pc' = [pc EXCEPT ![c] = "joined"] /\ joined' = [joined EXCEPT ![c] = launch]
    /\ UNCHANGED <<slots, aborted, late, kids, launch>>

\* A call enters runNodeChild(): it takes a slot or queues for one.
Call(c) ==
    /\ Quiet /\ pc[c] = "new" /\ (c \in Launches => launch = None)
    /\ UNCHANGED <<aborted, late>>
    /\ IF slots.active < MaxChildren \/ Cancelled(c)
       THEN Proceed(c, slots)
       ELSE /\ pc' = [pc EXCEPT ![c] = "queued"]
            /\ slots' = [slots EXCEPT !.waiters = Append(@, c), !.listeners = Append(@, c)]
            /\ launch' = IF c \in Launches THEN c ELSE launch
            /\ UNCHANGED <<kids, joined>>

\* A woken waiter goes on.
Resume ==
    /\ ~Quiet
    /\ Proceed(Head(slots.micro), [slots EXCEPT !.micro = Tail(@)])
    /\ UNCHANGED <<aborted, late>>

\* Mutant: the close of a child that timed out releases its slot once more.
Close_Again(c) ==
    /\ Quiet /\ c \in kids
    /\ kids' = kids \ {c}
    /\ slots' = Released(Unlisten(slots, c))
    /\ IF pc[c] = "running" THEN Settle({c}) ELSE UNCHANGED <<pc, launch, joined>>
    /\ UNCHANGED <<aborted, late>>

\* The child's close event: the run settles and its slot is released.
Close(c) ==
    /\ Quiet /\ c \in kids
    /\ kids' = kids \ {c}
    /\ IF pc[c] = "running"
       THEN slots' = Released(Unlisten(slots, c)) /\ Settle({c})
       ELSE UNCHANGED <<slots, pc, launch, joined>>
    /\ UNCHANGED <<aborted, late>>

\* The clock passes a call's deadline.
Expire(c) ==
    /\ Quiet /\ c \notin late /\ pc[c] # "ended"
    /\ late' = late \cup {c}
    /\ UNCHANGED <<pc, slots, aborted, kids, launch, joined>>

\* Mutant: a waiter has no timer of its own.
Timer_Child(c) ==
    /\ Quiet /\ c \in late /\ pc[c] = "running"
    /\ slots' = Released(Unlisten(slots, c))
    /\ Settle({c})
    /\ UNCHANGED <<aborted, late, kids>>

\* Its timer: a running child is killed (kill() does not wait for its exit)
\* and the slot released; a waiter leaves the queue, its abort listener stays.
Timer(c) ==
    /\ Quiet /\ c \in late /\ pc[c] \in {"queued", "running", "joined"}
    /\ slots' = IF pc[c] = "running" THEN Released(Unlisten(slots, c))
                ELSE [slots EXCEPT !.waiters = Without(@, c)]
    /\ Settle({c})
    /\ UNCHANGED <<aborted, late, kids>>

\* One abort listener of sig. It does not run if an earlier one removed it
\* (that of a waiter which the earlier one woke).
Fired(s, c, sig) ==
    IF SignalOf[c] # sig \/ c \notin Elems(s.listeners) THEN s
    ELSE IF c \in Elems(s.waiters)
         THEN [Unlisten(s, c) EXCEPT !.waiters = Without(@, c)]
    ELSE IF pc[c] = "running" THEN Released(Unlisten(s, c)) ELSE Unlisten(s, c)

\* The slots after the first i listeners, in the order they were added.
Firing(sig) ==
    LET f[i \in 0 .. Len(slots.listeners)] ==
            IF i = 0 THEN slots ELSE Fired(f[i - 1], slots.listeners[i], sig)
    IN  f

\* A signal fires: its listeners run in this one callback.
Abort(sig) ==
    LET after == Firing(sig)[Len(slots.listeners)]
    IN  /\ Quiet /\ sig # None /\ sig \notin aborted
        /\ aborted' = aborted \cup {sig}
        /\ slots' = after
        /\ Settle({c \in Calls : SignalOf[c] = sig /\ c \notin Elems(after.micro)
                                   /\ pc[c] \in {"queued", "running", "joined"}})
        /\ UNCHANGED <<late, kids>>

Next ==
    \/ \E c \in Calls : Join(c) \/ Call(c) \/ Close(c) \/ Expire(c) \/ Timer(c)
    \/ Resume
    \/ \E sig \in {SignalOf[c] : c \in Calls} : Abort(sig)

\* Every caller sets a time limit, timers fire, the event loop turns.
Fairness ==
    /\ WF_vars(Resume)
    /\ \A c \in Calls : WF_vars(Expire(c)) /\ WF_vars(Timer(c))

Spec == Init /\ [][Next]_vars /\ Fairness

-----------------------------------------------------------------------------
\* Never do more than MaxChildren runs hold a slot, although a released slot
\* is handed to a waiter that takes it only in a later continuation and does
\* not look at the limit again; and the counter is the number of holders.
SlotsHeld ==
    /\ slots.active <= MaxChildren
    /\ slots.active = Cardinality({c \in Calls : pc[c] = "running"})

\* A call that has been made ends: a waiter whose wake-up was lost and a
\* joiner of another caller's launch included.
CallsEnd == \A c \in Calls : pc[c] # "new" ~> pc[c] = "ended"

\* Nobody waits for a slot while one is free and no wake-up is on its way.
\* It fails: a waiter that is woken and finds its signal fired, or its
\* deadline passed, throws and does not pass the slot on.
FreeSlotTaken == (slots.active < MaxChildren /\ Quiet) => slots.waiters = <<>>
=============================================================================
