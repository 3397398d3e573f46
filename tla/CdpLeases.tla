--------------------------------- MODULE CdpLeases ---------------------------------
(***********************************************************************************)
(* Leases in CDP mode of the Google CDP broker: a lease of the registry is backed  *)
(* by a tab of Chrome.  The handlers of the lease, release and reset operations    *)
(* await CDP commands, and between two commands everything else may run: sweeps,   *)
(* disconnects, the loss of the browser, other handlers of the same lease.         *)
(*                                                                                 *)
(* A tab is named, like the registry target it belongs to, after the lease call    *)
(* that created it.  A CDP command ends with an answer or with an error, an abort  *)
(* or a timeout; in the second case Chrome may have carried it out all the same.   *)
(***********************************************************************************)
EXTENDS Naturals, Sequences, FiniteSets, TLAPS

CONSTANTS Clients, Sessions, Conns, Providers, Requests, Cap, GlobalCap, MaxGeneration, None,
          Ops,            \* release and reset frames
          ConfirmAfter    \* CDP_CLOSE_CONFIRM_AFTER_ATTEMPTS

ASSUME ConfirmAfterAssumption == ConfirmAfter \in Nat \ {0}
ASSUME OpsAssumption == None \notin Ops /\ None \notin Requests

VARIABLES clients, sessions, calls, promise, leases, activeByKey, targets, waiters, generation,
          connected,  \* this.cdp.connected
          id,         \* targets whose cdpTargetId is set
          session,    \* targets whose cdpSessionId is set
          tracked,    \* this.cdpTargets
          retries,    \* this.cdpTargetCloseRetries: failed attempts
          closing,    \* this.cdpTargetClosePromises
          due,        \* targets that a loop of cleanupCdpTargets() has still to visit
          tab,        \* what Chrome shows for the target
          step,       \* where the handler of each lease frame has got to
          on,         \* the target of each lease handler
          op,         \* the release and reset handlers
          aborted,    \* frames whose AbortController has fired
          broker      \* "up"; "dead" after a crash; "next" when its successor has recovered

registryVars == <<clients, sessions, calls, promise, leases, activeByKey, targets, waiters,
                  generation>>
closeVars == <<id, session, tracked, retries, closing>>
tabVars == <<closeVars, due, tab>>
handlerVars == <<step, on, op, aborted>>
vars == <<registryVars, tabVars, handlerVars, connected, broker>>

Registry == INSTANCE LeaseRegistry

ASSUME CallAssumption == None \notin Registry!Call

\* For TLC: a provider has one slot.
OneSlot == [p \in Providers |-> 1]

Open == {"marker", "blank"}
Steps == {"none", "registry", "creating", "attaching", "resetting", "closing1", "closing2",
          "held", "failed"}
Op == [kind : {"release", "reset"}, lease : Requests, target : Requests,
       phase : {"resetting", "closing", "done"}]

TypeOK ==
  /\ connected \in BOOLEAN
  /\ id \subseteq Requests /\ session \subseteq id /\ closing \subseteq id
  /\ tracked \subseteq Requests /\ due \subseteq Requests
  /\ retries \in [Requests -> 0 .. ConfirmAfter]
  /\ tab \in [Requests -> {"none", "closed"} \cup Open]
  /\ step \in [Requests -> Steps]
  /\ on \in [Requests -> Requests \cup {None}]
  /\ op \in [Ops -> Op \cup {None}]
  /\ aborted \subseteq Requests \cup Ops
  /\ broker \in {"up", "dead", "next"}

NoTries == [t \in Requests |-> 0]
NoStep == [r \in Requests |-> "none"]
NoTarget == [r \in Requests |-> None]
NoOp == [o \in Ops |-> None]

Init ==
  /\ Registry!Init
  /\ connected = TRUE
  /\ id = {} /\ session = {} /\ tracked = {} /\ closing = {} /\ due = {}
  /\ retries = NoTries
  /\ tab = [t \in Requests |-> "none"]
  /\ step = NoStep /\ on = NoTarget /\ op = NoOp
  /\ aborted = {}
  /\ broker = "up"

----------------------------------------------------------------------------
Live == Registry!Live
Up == broker = "up" /\ UNCHANGED broker
KeepRegistry == UNCHANGED registryVars
Goto(r, s) == step' = [step EXCEPT ![r] = s]
OpGoto(o, p) == op' = [op EXCEPT ![o].phase = p]

\* cancelLease() of the lease of r, which may have ended already.
Cancel(r) == IF leases[r] # None THEN Registry!CancelLease(r) ELSE KeepRegistry

\* closeCdpTarget(t): nothing to close, an attempt in flight to wait for, no browser left,
\* or a new attempt.
StartClose(t) ==
  /\ IF t \in id /\ ~connected
     THEN /\ id' = id \ {t} /\ session' = session \ {t} /\ tracked' = tracked \ {t}
          /\ retries' = [retries EXCEPT ![t] = 0]
     ELSE UNCHANGED <<id, session, tracked, retries>>
  /\ closing' = IF t \in id /\ connected THEN closing \cup {t} ELSE closing

\* What Chrome shows after a command that failed: the command may have taken effect.
MaybeTab(t, url) == \E u \in {tab[t], url} : tab' = [tab EXCEPT ![t] = u]

\* Mutant: a close keeps the session of the tab it closed.
CloseKeepsSession(t) ==
  /\ Up /\ t \in closing
  /\ tab[t] = "closed" => retries[t] + 1 >= ConfirmAfter
  /\ tab' = [tab EXCEPT ![t] = "closed"]
  /\ id' = id \ {t} /\ tracked' = tracked \ {t}
  /\ retries' = [retries EXCEPT ![t] = 0]
  /\ closing' = closing \ {t}
  /\ KeepRegistry /\ UNCHANGED <<handlerVars, connected, due, session>>

\* Target.closeTarget is answered, or it fails, for the ConfirmAfter-th time or more, and
\* Target.getTargets no longer lists the tab.
CloseSucceeds(t) ==
  /\ Up /\ t \in closing
  /\ tab[t] = "closed" => retries[t] + 1 >= ConfirmAfter
  /\ tab' = [tab EXCEPT ![t] = "closed"]
  /\ id' = id \ {t} /\ session' = session \ {t} /\ tracked' = tracked \ {t}
  /\ retries' = [retries EXCEPT ![t] = 0]
  /\ closing' = closing \ {t}
  /\ KeepRegistry /\ UNCHANGED <<handlerVars, connected, due>>

\* Mutant: a failed close forgets the target.
CloseForgets(t) ==
  /\ Up /\ t \in closing
  /\ MaybeTab(t, "closed")
  /\ tracked' = tracked \ {t}
  /\ retries' = [retries EXCEPT ![t] = 1]
  /\ closing' = closing \ {t}
  /\ KeepRegistry /\ UNCHANGED <<handlerVars, connected, due, id, session>>

\* The attempt fails and the target waits for the next one.
CloseFails(t) ==
  /\ Up /\ t \in closing
  /\ MaybeTab(t, "closed")
  /\ retries' = [retries EXCEPT ![t] = IF @ < ConfirmAfter THEN @ + 1 ELSE @]
  /\ closing' = closing \ {t}
  /\ KeepRegistry /\ UNCHANGED <<handlerVars, connected, due, id, session, tracked>>

----------------------------------------------------------------------------
\* operation("lease") up to the await of registry.lease().
LeaseFrame(r, call) ==
  /\ Up
  /\ step[r] = "none"
  /\ Registry!CallStep(r, call)
  /\ Goto(r, "registry")
  /\ UNCHANGED <<tabVars, on, op, aborted, connected>>

\* The lease calls whose lease and target acquireCdpLease() still finds.
Usable == {r \in Live : targets[leases[r].target] # None}

\* operation("lease") after registry.lease(), and acquireCdpLease() up to its first command:
\* a warm target is reset, a new one attached.
Acquire(r) ==
  /\ Up
  /\ step[r] = "registry"
  /\ promise[r] = "resolved"
  /\ IF r \in aborted \/ r \notin Usable
     THEN Cancel(r) /\ Goto(r, "failed") /\ UNCHANGED <<closeVars, on>>
     ELSE LET t == leases[r].target
          IN \/ /\ connected
                /\ Goto(r, IF t \in session THEN "resetting" ELSE "creating")
                /\ on' = [on EXCEPT ![r] = t]
                /\ KeepRegistry /\ UNCHANGED closeVars
             \/ /\ ~connected
                /\ Cancel(r) /\ StartClose(t) /\ Goto(r, "failed")
                /\ UNCHANGED on
  /\ UNCHANGED <<due, tab, op, aborted, connected>>

Refused(r) ==
  /\ Up
  /\ step[r] = "registry"
  /\ promise[r] = "rejected"
  /\ Goto(r, "failed")
  /\ KeepRegistry /\ UNCHANGED <<tabVars, on, op, aborted, connected>>

\* A command of the handler of r can be answered.
Answered(r) == connected /\ r \notin aborted

\* Mutant: Target.createTarget is sent without the signal and the deadline of the frame.
CreatedUnbounded(r) ==
  /\ Up
  /\ step[r] = "creating"
  /\ connected
  /\ tab' = [tab EXCEPT ![on[r]] = "marker"]
  /\ id' = id \cup {on[r]}
  /\ Goto(r, "attaching")
  /\ KeepRegistry
  /\ UNCHANGED <<session, tracked, retries, closing, due, on, op, aborted, connected>>

\* attachCdpTarget(): Target.createTarget.
Created(r) ==
  /\ Up
  /\ step[r] = "creating"
  /\ \/ /\ Answered(r)
        /\ tab' = [tab EXCEPT ![on[r]] = "marker"]
        /\ id' = id \cup {on[r]}
        /\ Goto(r, "attaching")
        /\ KeepRegistry
     \/ /\ MaybeTab(on[r], "marker")
        /\ Cancel(r) /\ Goto(r, "failed")
        /\ UNCHANGED id
  /\ UNCHANGED <<session, tracked, retries, closing, due, on, op, aborted, connected>>

\* attachCdpTarget(): Target.attachToTarget; its catch block closes the target.
Attached(r) ==
  /\ Up
  /\ step[r] = "attaching"
  /\ \/ /\ Answered(r)
        /\ session' = session \cup {on[r]}
        /\ tracked' = tracked \cup {on[r]}
        /\ Goto(r, "held")
        /\ UNCHANGED <<id, retries, closing>>
     \/ StartClose(on[r]) /\ Goto(r, "closing1")
  /\ KeepRegistry /\ UNCHANGED <<due, tab, on, op, aborted, connected>>

\* resetCdpTarget() of a warm target.
Reset(r) ==
  /\ Up
  /\ step[r] = "resetting"
  /\ \/ /\ Answered(r) /\ on[r] \in session /\ tab[on[r]] \in Open
        /\ tab' = [tab EXCEPT ![on[r]] = "blank"]
        /\ Goto(r, "held")
        /\ KeepRegistry /\ UNCHANGED closeVars
     \/ /\ MaybeTab(on[r], IF tab[on[r]] \in Open THEN "blank" ELSE tab[on[r]])
        /\ Cancel(r) /\ StartClose(on[r]) /\ Goto(r, "closing2")
  /\ UNCHANGED <<due, on, op, aborted, connected>>

\* The close awaited in attachCdpTarget() is over; the catch block of acquireCdpLease()
\* cancels the lease and closes once more.
CloseAwaited(r) ==
  /\ Up
  /\ on[r] \notin closing
  /\ \/ /\ step[r] = "closing1"
        /\ Cancel(r) /\ StartClose(on[r]) /\ Goto(r, "closing2")
     \/ /\ step[r] = "closing2"
        /\ Goto(r, "failed")
        /\ KeepRegistry /\ UNCHANGED closeVars
  /\ UNCHANGED <<due, tab, on, op, aborted, connected>>

----------------------------------------------------------------------------
\* The release and the reset operation: findLease(), then resetCdpTarget().
OpFrame(o, kind, r) ==
  /\ Up
  /\ op[o] = None
  /\ step[r] = "held"
  /\ leases[r].generation = generation
  /\ Registry!Touch(calls[r].client, calls[r].session, calls[r].conn)
  /\ op' = [op EXCEPT ![o] = [kind |-> kind, lease |-> r, target |-> leases[r].target,
                              phase |-> "resetting"]]
  /\ UNCHANGED <<tabVars, step, on, aborted, connected>>

\* this.targets.delete() in retireLease().
Forgets(t) ==
  /\ targets' = [targets EXCEPT ![t] = None]
  /\ UNCHANGED <<clients, sessions, calls, promise, leases, activeByKey, waiters, generation>>

\* Mutant: the catch block frees the target and leaves its lease.
OpForgetsLease(o) ==
  Forgets(op[o].target) /\ StartClose(op[o].target) /\ OpGoto(o, "closing")

\* retireLease(lease, true) and closeCdpTarget() in the catch block.  The lease may have
\* ended since findLease(): the call then still deletes the target the lease had, which the
\* next lease may have by now.  It wakes nobody, since no slot is freed and no call queues
\* for a free one (NoLostWakeup).
OpRetires(o) ==
  /\ IF op[o].lease \in Live THEN Cancel(op[o].lease) ELSE Forgets(op[o].target)
  /\ StartClose(op[o].target)
  /\ OpGoto(o, "closing")

\* release() of the lease, its identity being that of the lease call.
ReleaseLease(r) == Registry!Release(r, calls[r].client, calls[r].session, calls[r].conn)

Resetting == {o \in Ops : op[o] # None /\ op[o].phase = "resetting"}

\* The reset of a release or reset operation ends well: release() follows, and fails when
\* the lease has ended in the meantime.
OpReset(o) ==
  /\ Up
  /\ Answered(o) /\ op[o].target \in session /\ tab[op[o].target] \in Open
  /\ tab' = [tab EXCEPT ![op[o].target] = "blank"]
  /\ CASE op[o].kind = "reset" ->
            OpGoto(o, "done") /\ KeepRegistry /\ UNCHANGED closeVars
       [] op[o].kind = "release" /\ op[o].lease \in Live ->
            OpGoto(o, "done") /\ ReleaseLease(op[o].lease) /\ UNCHANGED closeVars
       [] OTHER -> OpRetires(o)
  /\ UNCHANGED <<due, step, on, aborted, connected>>

\* Mutant: a release whose reset failed keeps the target for the next lease.
OpKeepsTarget(o) ==
  /\ Up
  /\ IF op[o].lease \in Live THEN ReleaseLease(op[o].lease) ELSE KeepRegistry
  /\ OpGoto(o, "done")
  /\ UNCHANGED <<tabVars, step, on, aborted, connected>>

\* The reset fails: the lease is retired and its target closed.
OpFails(o) ==
  /\ Up
  /\ MaybeTab(op[o].target, IF tab[op[o].target] \in Open THEN "blank" ELSE tab[op[o].target])
  /\ OpRetires(o)
  /\ UNCHANGED <<due, step, on, aborted, connected>>

OpClosed(o) ==
  /\ Up
  /\ op[o] # None /\ op[o].phase = "closing"
  /\ op[o].target \notin closing
  /\ OpGoto(o, "done")
  /\ KeepRegistry /\ UNCHANGED <<tabVars, step, on, aborted, connected>>

----------------------------------------------------------------------------
\* operation("cancel") hears the client of the frame it cancels; a deadline timer does not.
CancelFrame(r) == Registry!Touch(calls[r].client, calls[r].session, calls[r].conn)

\* A cancel frame or the deadline timer ends a lease frame in flight.
Abort(r) ==
  /\ Up
  /\ step[r] \in {"registry", "creating", "attaching", "resetting"}
  /\ IF promise[r] \in {"waiting", "drained"}
     THEN \E heard \in SUBSET {calls[r].client} : Registry!Abort(r, heard)
     ELSE KeepRegistry \/ CancelFrame(r)
  /\ aborted' = aborted \cup {r}
  /\ UNCHANGED <<tabVars, step, on, op, connected>>

AbortOp(o) ==
  /\ Up
  /\ o \in Resetting
  /\ aborted' = aborted \cup {o}
  /\ KeepRegistry \/ CancelFrame(op[o].lease)
  /\ UNCHANGED <<tabVars, step, on, op, connected>>

\* Mutant: cleanupCdpTargets() does not ask the registry.
DroppedOrNot == tracked

\* The targets that cleanupCdpTargets() finds dropped by the registry.
Dropped == {t \in tracked : targets'[t] = None}

\* cleanupCdpTargets() up to its first await: it starts the close of a dropped target whose
\* next attempt is due, and visits the others later.
StartCleanup ==
  \/ \E t \in Dropped : StartClose(t) /\ due' = due \cup (Dropped \ {t})
  \/ /\ \A t \in Dropped : retries[t] > 0
     /\ UNCHANGED <<closeVars, due>>

\* One of the loops of cleanupCdpTargets() goes on with t.
Cleanup(t) ==
  /\ Up
  /\ t \in due /\ due' = due \ {t}
  /\ \/ targets[t] = None /\ StartClose(t)
     \/ (targets[t] # None \/ retries[t] > 0) /\ UNCHANGED closeVars
  /\ KeepRegistry /\ UNCHANGED <<tab, handlerVars, connected>>

\* A connection closes: its frames in flight are aborted, the registry forgets its client,
\* and the targets of the client are closed.
Disconnect(c) ==
  /\ Up
  /\ Registry!Disconnect(c)
  /\ LET frames == {r \in Requests : calls[r] # None /\ calls[r].client = c}
     IN aborted' = aborted \cup frames \cup {o \in Ops : op[o] # None /\ op[o].lease \in frames}
  /\ StartCleanup
  /\ UNCHANGED <<tab, step, on, op, connected>>

\* The sweep timer.
Sweep ==
  /\ Up
  /\ Registry!Sweep
  /\ StartCleanup
  /\ UNCHANGED <<tab, handlerVars, connected>>

\* Registration, the wait timer of a queued call and the passing of time.
RegistryStep ==
  /\ Up
  /\ \/ \E c \in Clients, s \in Sessions, conn \in Conns : Registry!Register(c, s, conn)
     \/ \E r \in Requests : Registry!Expire(r) \/ Registry!Age(r)
     \/ \E c \in Clients : Registry!GoStale(c)
  /\ UNCHANGED <<tabVars, handlerVars, connected>>

\* A queued call is settled, by drain() or by its timer.
QueueStep(r) ==
  /\ Up
  /\ Registry!Settle(r) \/ Registry!WaitTimeout(r)
  /\ UNCHANGED <<tabVars, handlerVars, connected>>

\* handleCdpLoss(): the socket to Chrome is gone, and Chrome possibly with it.
Loss ==
  /\ Up
  /\ connected /\ connected' = FALSE
  /\ Registry!BumpBrowserGeneration
  /\ tracked' = {} /\ closing' = {}
  /\ id' = id \ closing /\ session' = session \ closing
  /\ retries' = NoTries
  /\ \E gone \in BOOLEAN :
       tab' = [t \in Requests |-> IF gone /\ tab[t] # "none" THEN "closed" ELSE tab[t]]
  /\ UNCHANGED <<handlerVars, due>>

\* The broker process dies and with it all it knew of its tabs; Chrome lives on.
Crash ==
  /\ broker = "up" /\ broker' = "dead"
  /\ id' = {} /\ session' = {} /\ tracked' = {} /\ closing' = {} /\ due' = {}
  /\ retries' = NoTries /\ step' = NoStep /\ on' = NoTarget /\ op' = NoOp
  /\ aborted' = {}
  /\ KeepRegistry /\ UNCHANGED <<tab, connected>>

\* recoverOrphanTargets() of the next broker closes the tabs that show a marker URL of
\* another nonce; a close that fails is skipped.
Recover ==
  /\ broker = "dead" /\ broker' = "next"
  /\ \E failed \in SUBSET {t \in Requests : tab[t] = "marker"} :
       tab' = [t \in Requests |-> IF tab[t] = "marker" /\ t \notin failed THEN "closed"
                                  ELSE tab[t]]
  /\ KeepRegistry
  /\ UNCHANGED <<closeVars, due, handlerVars, connected>>

LeaseHandler(r) ==
  Acquire(r) \/ Refused(r) \/ Created(r) \/ Attached(r) \/ Reset(r) \/ CloseAwaited(r)
OpHandler(o) == (o \in Resetting /\ (OpReset(o) \/ OpFails(o))) \/ OpClosed(o)
CloseReply(t) == CloseSucceeds(t) \/ CloseFails(t)

Next ==
  \/ \E r \in Requests, call \in Registry!Call : LeaseFrame(r, call)
  \/ \E r \in Requests : \/ LeaseHandler(r) \/ Abort(r) \/ QueueStep(r)
                         \/ CloseReply(r) \/ Cleanup(r)
  \/ \E o \in Ops, kind \in {"release", "reset"}, r \in Live : OpFrame(o, kind, r)
  \/ \E o \in Ops : OpHandler(o) \/ AbortOp(o)
  \/ \E c \in Clients : Disconnect(c)
  \/ RegistryStep
  \/ Sweep
  \/ Loss \/ Crash \/ Recover

\* Every CDP command has a deadline timer, callbacks run, and enqueue() sets a timer for
\* the calls it queues.  A handler that awaits a close goes on when that attempt ends, before
\* a timer can start the next one: strong fairness.
Fairness ==
  /\ \A r \in Requests : /\ WF_vars(LeaseHandler(r))
                         /\ SF_vars(CloseAwaited(r))
                         /\ WF_vars(CloseReply(r))
                         /\ WF_vars(QueueStep(r))
  /\ \A o \in Ops : WF_vars(OpHandler(o)) /\ SF_vars(OpClosed(o))

Spec == Init /\ [][Next]_vars
FairSpec == Spec /\ Fairness

----------------------------------------------------------------------------
\* The catch block of releaseCdpLease() for a lease that ended while its tab was reset: it
\* retires it a second time, which deletes the target it had.
RetiresEnded(o) ==
  /\ op[o] # None /\ op[o].phase = "resetting"
  /\ op[o].lease \notin Live
  /\ Forgets(op[o].target)

\* In CDP mode, too, the handlers, their catch blocks, sweeps and timers do nothing to the
\* registry that is not one of its own operations, except for the second retirement of a
\* lease that has ended.  With one release or reset frame per lease that one finds the
\* target gone; with two, the first may have released the target to the next lease, which
\* then loses it.
ImplementsRegistry ==
  Registry!Init /\ [][Registry!Next \/ \E o \in Ops : RetiresEnded(o)]_registryVars

\* A lease that was answered and is still live has its own tab: open, attached, tracked,
\* and never closed by another handler or by cleanupCdpTargets() (the comment in lease():
\* "each concurrent search gets its own CDP target (tab) up to the cap").
\* With two release or reset frames of one lease it fails (Ops of two).
LeaseHasItsTab ==
  \A r \in Requests :
    (broker = "up" /\ connected /\ step[r] = "held" /\ r \in Live) =>
      LET t == leases[r].target
      IN /\ targets[t] # None /\ t \in session /\ t \in tracked
         /\ tab[t] \in Open /\ t \notin closing

\* A warm tab shows nothing of its last lease: a target the registry offers for reuse is
\* open and was navigated to about:blank first.
WarmTabIsBlank ==
  \A t \in Requests :
    (broker = "up" /\ connected /\ targets[t] # None /\ ~targets[t].busy) => tab[t] = "blank" /\ t \in session

\* "Only forget the target after CDP confirms the close" (closeCdpTargetAttempt): a tracked
\* target is dropped only when its tab is closed or the browser or the broker is lost.
ForgottenOnlyWhenClosed ==
  [][\A t \in tracked \ tracked' : tab'[t] = "closed" \/ ~connected' \/ broker' # "up"]_vars

\* "A failed close remains tracked so the next bounded sweep can retry it"
\* (closeCdpTargetAttempt), once the handler of the lease has ended.
\* It does not hold when the attach has failed.
FailedCloseTracked ==
  \A t \in Requests :
    (retries[t] > 0 /\ ~\E r \in Requests : on[r] = t /\ step[r] \in {"closing1", "closing2"})
      => t \in tracked

\* "After a hard broker death, Chrome keeps the broker-created targets alive (plain marker
\* URLs, no owner record)" (recoverOrphanTargets): what a dead broker leaves open can be
\* told by its URL.
\* It does not hold of warm tabs.
OrphansCarryMarker ==
  broker # "up" => \A t \in Requests : tab[t] \in Open => tab[t] = "marker"

Unanswered == {o \in Ops : op[o] # None /\ op[o].phase # "done"}

\* Every handler ends: no lease, release or reset frame is left unanswered, whatever
\* becomes of the commands, the closes it waits for and the browser.
HandlersEnd ==
  /\ \A r \in Requests : step[r] # "none" ~> (step[r] \in {"held", "failed"} \/ broker # "up")
  /\ \A o \in Ops : o \in Unanswered ~> o \notin Unanswered

----------------------------------------------------------------------------
(* What drops a target from the tracked ones. *)

Tabs == {"none", "closed"} \cup Open
TabsTyped == tab \in [Requests -> Tabs]

LEMMA TabsInit == ASSUME Init PROVE TabsTyped
  BY DEF Init, TabsTyped, Tabs

\* A close started with the browser connected drops no target.
LEMMA StartDropsNone ==
  ASSUME NEW t, StartClose(t), connected' = connected
  PROVE  tracked \subseteq tracked' \/ ~connected'
  BY DEF StartClose

LEMMA TabsStep == ASSUME TabsTyped, [Next]_vars PROVE TabsTyped'
<1> USE DEF TabsTyped, Tabs, Open
<1>1. ASSUME NEW r \in Requests, LeaseHandler(r) PROVE TabsTyped'
  BY <1>1 DEF LeaseHandler, Acquire, Refused, Created, Attached, Reset, CloseAwaited, MaybeTab,
     tabVars
<1>2. ASSUME NEW r \in Requests, CloseReply(r) PROVE TabsTyped'
  BY <1>2 DEF CloseReply, CloseSucceeds, CloseFails, MaybeTab
<1>3. ASSUME NEW r \in Requests,
             \/ Abort(r) \/ QueueStep(r) \/ Cleanup(r)
             \/ \E call \in Registry!Call : LeaseFrame(r, call)
      PROVE  UNCHANGED tab
  BY <1>3 DEF LeaseFrame, Abort, QueueStep, Cleanup, tabVars
<1>4. ASSUME NEW o \in Ops, OpHandler(o) PROVE TabsTyped'
  BY <1>4 DEF OpHandler, OpReset, OpFails, OpClosed, MaybeTab, tabVars
<1>5. ASSUME NEW o \in Ops,
             \/ AbortOp(o)
             \/ \E kind \in {"release", "reset"}, r \in Live : OpFrame(o, kind, r)
      PROVE  UNCHANGED tab
  BY <1>5 DEF AbortOp, OpFrame, tabVars
<1>6. CASE RegistryStep \/ Sweep \/ \E c \in Clients : Disconnect(c)
  BY <1>6 DEF RegistryStep, Sweep, Disconnect, tabVars
<1>7. CASE Loss
  BY <1>7 DEF Loss
<1>8. CASE Crash \/ Recover
  BY <1>8 DEF Crash, Recover
<1>9. CASE UNCHANGED vars
  BY <1>9 DEF vars, tabVars
<1> QED
  BY <1>1, <1>2, <1>3, <1>4, <1>5, <1>6, <1>7, <1>8, <1>9 DEF Next

\* A target is dropped when its tab is closed, or the browser or the broker is lost.
Drops == \A t \in tracked \ tracked' : tab'[t] = "closed" \/ ~connected' \/ broker' # "up"

LEMMA DropsStep == ASSUME TabsTyped, Next PROVE Drops
<1>1. ASSUME NEW r \in Requests, LeaseHandler(r) PROVE Drops
  <2>1. connected' = connected
    BY <1>1 DEF LeaseHandler, Acquire, Refused, Created, Attached, Reset, CloseAwaited
  <2>2. tracked \subseteq tracked' \/ \E t : StartClose(t)
    BY <1>1 DEF LeaseHandler, Acquire, Refused, Created, Attached, Reset, CloseAwaited, tabVars,
       closeVars
  <2> QED
    BY <2>1, <2>2, StartDropsNone DEF Drops
<1>2. ASSUME NEW r \in Requests, CloseSucceeds(r) PROVE Drops
  BY <1>2 DEF CloseSucceeds, TabsTyped, Drops
<1>3. ASSUME NEW r \in Requests,
             \/ CloseFails(r) \/ Abort(r) \/ QueueStep(r)
             \/ \E call \in Registry!Call : LeaseFrame(r, call)
      PROVE  tracked' = tracked
  BY <1>3 DEF CloseFails, LeaseFrame, Abort, QueueStep, tabVars, closeVars
<1>4. ASSUME NEW o \in Ops, OpHandler(o) PROVE Drops
  <2>1. connected' = connected
    BY <1>4 DEF OpHandler, OpReset, OpFails, OpClosed
  <2>2. tracked' = tracked \/ \E t : StartClose(t)
    BY <1>4 DEF OpHandler, OpReset, OpFails, OpClosed, OpRetires, tabVars, closeVars
  <2> QED
    BY <2>1, <2>2, StartDropsNone DEF Drops
<1>5. ASSUME NEW o \in Ops,
             \/ AbortOp(o)
             \/ \E kind \in {"release", "reset"}, r \in Live : OpFrame(o, kind, r)
      PROVE  tracked' = tracked
  BY <1>5 DEF AbortOp, OpFrame, tabVars, closeVars
<1>6. CASE Sweep \/ (\E c \in Clients : Disconnect(c)) \/ \E r \in Requests : Cleanup(r)
  <2>1. connected' = connected
    BY <1>6 DEF Sweep, Disconnect, Cleanup
  <2>2. tracked' = tracked \/ \E t : StartClose(t)
    BY <1>6 DEF Sweep, Disconnect, Cleanup, StartCleanup, closeVars
  <2> QED
    BY <2>1, <2>2, StartDropsNone DEF Drops
<1>7. CASE RegistryStep \/ Recover
  BY <1>7 DEF RegistryStep, Recover, tabVars, closeVars, Drops
<1>8. CASE Loss \/ Crash
  BY <1>8 DEF Loss, Crash, Drops
<1> QED
  BY <1>1, <1>2, <1>3, <1>4, <1>5, <1>6, <1>7, <1>8 DEF Next, CloseReply, Drops

\* For any number of frames, tabs, failed closes and attempts.
THEOREM ForgetsOnlyClosed == Spec => ForgottenOnlyWhenClosed
<1>1. Init => TabsTyped
  BY TabsInit
<1>2. TabsTyped /\ [Next]_vars => TabsTyped'
  BY TabsStep
<1>3. TabsTyped /\ [Next]_vars => [Drops]_vars
  BY DropsStep
<1>4. ForgottenOnlyWhenClosed <=> [][Drops]_vars
  BY DEF ForgottenOnlyWhenClosed, Drops
<1> QED
  BY <1>1, <1>2, <1>3, <1>4, PTL DEF Spec

----------------------------------------------------------------------------
(* The handlers and the registry: ImplementsRegistry, for any number of frames of one   *)
(* lease.                                                                               *)

\* What the handlers know of the registry: a lease frame that has started has made its call,
\* and a release or reset frame is one of a lease call that was made.
HandlersKnow ==
  /\ calls \in [Requests -> Registry!Call \cup {None}]
  /\ DOMAIN step = Requests /\ DOMAIN op = Ops
  /\ \A r \in Requests : step[r] # "none" => calls[r] # None
  /\ \A o \in Ops : op[o] # None =>
       /\ DOMAIN op[o] = {"kind", "lease", "target", "phase"}
       /\ op[o].lease \in Requests /\ calls[op[o].lease] # None

RegistryOrEnded == Registry!Next \/ \E o \in Ops : RetiresEnded(o)

\* The identity of a call is that of a client the registry may know.
LEMMA CallIdentity ==
  ASSUME HandlersKnow, NEW r \in Requests, calls[r] # None
  PROVE  calls[r].client \in Clients /\ calls[r].session \in Sessions /\ calls[r].conn \in Conns
  BY DEF HandlersKnow, Registry!Call

LEMMA CancelImplements ==
  ASSUME NEW r \in Requests, Cancel(r) PROVE [RegistryOrEnded]_registryVars
  BY DEF Cancel, KeepRegistry, RegistryOrEnded, Registry!Next, Registry!RequestStep

LEMMA TouchImplements ==
  ASSUME HandlersKnow, NEW r \in Requests, calls[r] # None, CancelFrame(r)
  PROVE  RegistryOrEnded
  BY CallIdentity DEF CancelFrame, RegistryOrEnded, Registry!Next, Registry!ClientStep

\* A release or reset frame retires its lease, or a lease that has ended.
LEMMA OpImplements ==
  ASSUME HandlersKnow, NEW o \in Ops, OpHandler(o) PROVE [RegistryOrEnded]_registryVars
<1>1. ASSUME o \in Resetting, OpRetires(o) PROVE [RegistryOrEnded]_registryVars
  <2>1. op[o] # None /\ op[o].phase = "resetting" /\ op[o].lease \in Requests
    BY <1>1 DEF Resetting, HandlersKnow
  <2>2. CASE Cancel(op[o].lease)
    BY <2>1, <2>2, CancelImplements
  <2>3. CASE op[o].lease \notin Live /\ Forgets(op[o].target)
    BY <2>1, <2>3 DEF RetiresEnded, RegistryOrEnded
  <2> QED
    BY <1>1, <2>2, <2>3 DEF OpRetires
<1>2. ASSUME o \in Resetting, ReleaseLease(op[o].lease) PROVE [RegistryOrEnded]_registryVars
  <2>1. op[o].lease \in Requests /\ calls[op[o].lease] # None
    BY <1>2 DEF Resetting, HandlersKnow
  <2> QED
    BY <1>2, <2>1, CallIdentity
    DEF ReleaseLease, RegistryOrEnded, Registry!Next, Registry!ClientStep
<1> QED
  BY <1>1, <1>2 DEF OpHandler, OpReset, OpFails, OpClosed, KeepRegistry

LEMMA HandlerImplements ==
  ASSUME HandlersKnow, NEW r \in Requests, LeaseHandler(r) \/ CloseReply(r) \/ Cleanup(r)
  PROVE  [RegistryOrEnded]_registryVars
  BY CancelImplements DEF LeaseHandler, Acquire, Refused, Created, Attached, Reset, CloseAwaited,
    CloseReply, CloseSucceeds, CloseFails, Cleanup, KeepRegistry

\* Every step of the handlers is one of the registry, retires an ended lease, or leaves the
\* registry alone.
LEMMA CdpStepImplements ==
  ASSUME HandlersKnow, [Next]_vars PROVE [RegistryOrEnded]_registryVars
<1>1. ASSUME NEW r \in Requests, NEW call \in Registry!Call, LeaseFrame(r, call)
      PROVE  RegistryOrEnded
  BY <1>1 DEF LeaseFrame, RegistryOrEnded, Registry!Next
<1>2. ASSUME NEW r \in Requests, Abort(r) PROVE [RegistryOrEnded]_registryVars
  <2>1. calls[r] # None
    BY <1>2 DEF Abort, HandlersKnow
  <2>2. ASSUME NEW heard \in SUBSET {calls[r].client}, Registry!Abort(r, heard)
        PROVE  RegistryOrEnded
    BY <2>1, <2>2 DEF RegistryOrEnded, Registry!Next, Registry!RequestStep
  <2> QED
    BY <1>2, <2>1, <2>2, TouchImplements DEF Abort, KeepRegistry
<1>3. ASSUME NEW r \in Requests, QueueStep(r) PROVE RegistryOrEnded
  BY <1>3 DEF QueueStep, RegistryOrEnded, Registry!Next, Registry!RequestStep
<1>4. ASSUME NEW o \in Ops, AbortOp(o) PROVE [RegistryOrEnded]_registryVars
  <2>1. op[o].lease \in Requests /\ calls[op[o].lease] # None
    BY <1>4 DEF AbortOp, Resetting, HandlersKnow
  <2> QED
    BY <1>4, <2>1, TouchImplements DEF AbortOp, KeepRegistry
<1>5. ASSUME NEW o \in Ops, NEW kind \in {"release", "reset"}, NEW r \in Live,
             OpFrame(o, kind, r)
      PROVE  RegistryOrEnded
  <2>1. r \in Requests
    BY DEF Live, Registry!Live
  <2>2. calls[r] # None
    BY <1>5, <2>1 DEF OpFrame, HandlersKnow
  <2>3. CancelFrame(r)
    BY <1>5 DEF OpFrame, CancelFrame
  <2> QED
    BY <2>1, <2>2, <2>3, TouchImplements
<1>6. CASE RegistryStep
  BY <1>6 DEF RegistryStep, RegistryOrEnded, Registry!Next, Registry!ClientStep,
    Registry!RequestStep
<1>7. CASE Sweep \/ Loss \/ \E c \in Clients : Disconnect(c)
  BY <1>7 DEF Sweep, Loss, Disconnect, RegistryOrEnded, Registry!Next
<1>8. CASE Crash \/ Recover \/ UNCHANGED vars
  BY <1>8 DEF Crash, Recover, KeepRegistry, vars
<1> QED
  BY <1>1, <1>2, <1>3, <1>4, <1>5, <1>6, <1>7, <1>8, OpImplements, HandlerImplements DEF Next

----------------------------------------------------------------------------
\* Only lease() writes down a call, and no handler of the registry forgets one.
LEMMA CallsGrow ==
  ASSUME calls \in [Requests -> Registry!Call \cup {None}], [RegistryOrEnded]_registryVars
  PROVE  /\ calls' \in [Requests -> Registry!Call \cup {None}]
         /\ \A r \in Requests : calls[r] # None => calls'[r] # None
<1>1. ASSUME NEW r \in Requests, NEW call \in Registry!Call, Registry!CallStep(r, call)
      PROVE  calls' = [calls EXCEPT ![r] = call]
  BY <1>1 DEF Registry!CallStep, Registry!LeaseEnqueue, Registry!LeaseRefuse,
    Registry!LeaseAllocate, Registry!Called
<1>2. ASSUME NEW c, NEW s, NEW k, Registry!ClientStep(c, s, k) PROVE calls' = calls
  BY <1>2 DEF Registry!ClientStep, Registry!Register, Registry!Touch, Registry!Heartbeat,
    Registry!Release, Registry!Retire
<1>3. ASSUME NEW r, Registry!RequestStep(r) PROVE calls' = calls
  BY <1>3 DEF Registry!RequestStep, Registry!Settle, Registry!WaitTimeout, Registry!Abort,
    Registry!LeaveQueue, Registry!CancelLease, Registry!Retire, Registry!Expire, Registry!Age
<1>4. ASSUME NEW c, Registry!Disconnect(c) \/ Registry!GoStale(c) PROVE calls' = calls
  BY <1>4 DEF Registry!Disconnect, Registry!GoStale, Registry!Retire
<1>5. CASE Registry!Sweep \/ Registry!BumpBrowserGeneration
  BY <1>5 DEF Registry!Sweep, Registry!BumpBrowserGeneration, Registry!Retire
<1>6. ASSUME NEW o \in Ops, RetiresEnded(o) PROVE calls' = calls
  BY <1>6 DEF RetiresEnded, Forgets
<1>7. CASE UNCHANGED registryVars
  BY <1>7 DEF registryVars
<1> QED
  BY <1>1, <1>2, <1>3, <1>4, <1>5, <1>6, <1>7, CallAssumption DEF RegistryOrEnded, Registry!Next

\* Where a step leaves the lease handlers and the release and reset handlers.
StepsFollow ==
  /\ DOMAIN step' = Requests
  /\ \A r \in Requests : step'[r] # "none" => step[r] # "none" \/ calls'[r] # None

OpsFollow ==
  /\ DOMAIN op' = Ops
  /\ \A o \in Ops : op'[o] # None =>
       /\ DOMAIN op'[o] = {"kind", "lease", "target", "phase"}
       /\ \/ op[o] # None /\ op'[o].lease = op[o].lease
          \/ op'[o].lease \in Requests /\ calls[op'[o].lease] # None

LEMMA HandlersStep ==
  ASSUME HandlersKnow, [Next]_vars PROVE StepsFollow /\ OpsFollow
<1>1. ASSUME step' = step PROVE StepsFollow
  BY <1>1 DEF HandlersKnow, StepsFollow
<1>2. ASSUME op' = op PROVE OpsFollow
  BY <1>2 DEF HandlersKnow, OpsFollow
<1>3. ASSUME NEW o \in Ops, NEW p, op[o] # None, OpGoto(o, p) PROVE OpsFollow
  <2>1. op' = [op EXCEPT ![o] = [op[o] EXCEPT !.phase = p]]
    BY <1>3 DEF OpGoto, HandlersKnow
  <2>2. /\ DOMAIN [op[o] EXCEPT !.phase = p] = DOMAIN op[o]
        /\ [op[o] EXCEPT !.phase = p].lease = op[o].lease
    BY <1>3 DEF HandlersKnow
  <2> QED
    BY <1>3, <2>1, <2>2 DEF HandlersKnow, OpsFollow
<1>4. ASSUME NEW r \in Requests, NEW s, step[r] # "none", Goto(r, s) PROVE StepsFollow
  BY <1>4 DEF Goto, HandlersKnow, StepsFollow
<1>5. ASSUME NEW r \in Requests, NEW call \in Registry!Call, LeaseFrame(r, call)
      PROVE  StepsFollow /\ OpsFollow
  <2>1. calls' = [calls EXCEPT ![r] = call]
    BY <1>5 DEF LeaseFrame, Registry!CallStep, Registry!LeaseEnqueue, Registry!LeaseRefuse,
      Registry!LeaseAllocate, Registry!Called
  <2> QED
    BY <1>2, <1>5, <2>1, CallAssumption DEF LeaseFrame, Goto, HandlersKnow, StepsFollow
<1>6. ASSUME NEW r \in Requests, LeaseHandler(r) PROVE StepsFollow /\ OpsFollow
  BY <1>1, <1>2, <1>4, <1>6 DEF LeaseHandler, Acquire, Refused, Created, Attached, Reset,
    CloseAwaited
<1>7. ASSUME NEW r \in Requests, Abort(r) \/ QueueStep(r) \/ CloseReply(r) \/ Cleanup(r)
      PROVE  StepsFollow /\ OpsFollow
  BY <1>1, <1>2, <1>7 DEF Abort, QueueStep, CloseReply, CloseSucceeds, CloseFails, Cleanup,
    handlerVars
<1>8. ASSUME NEW o \in Ops, OpHandler(o) PROVE StepsFollow /\ OpsFollow
  <2>1. step' = step /\ op[o] # None
    BY <1>8 DEF OpHandler, OpReset, OpFails, OpClosed, Resetting
  <2>2. \E p : OpGoto(o, p)
    BY <1>8 DEF OpHandler, OpReset, OpFails, OpClosed, OpRetires
  <2> QED
    BY <1>1, <1>3, <2>1, <2>2
<1>9. ASSUME NEW o \in Ops, AbortOp(o) PROVE StepsFollow /\ OpsFollow
  BY <1>1, <1>2, <1>9 DEF AbortOp
<1>10. ASSUME NEW o \in Ops, NEW kind \in {"release", "reset"}, NEW r \in Live,
              OpFrame(o, kind, r)
       PROVE  StepsFollow /\ OpsFollow
  <2>1. r \in Requests /\ calls[r] # None
    BY <1>10 DEF Live, Registry!Live, OpFrame, HandlersKnow
  <2> QED
    BY <1>1, <1>10, <2>1 DEF OpFrame, HandlersKnow, OpsFollow
<1>11. CASE RegistryStep \/ Sweep \/ Loss \/ Recover \/ UNCHANGED vars
            \/ \E c \in Clients : Disconnect(c)
  BY <1>1, <1>2, <1>11 DEF RegistryStep, Sweep, Loss, Recover, Disconnect, handlerVars, vars
<1>12. CASE Crash
  BY <1>12 DEF Crash, NoStep, NoOp, StepsFollow, OpsFollow
<1> QED
  BY <1>5, <1>6, <1>7, <1>8, <1>9, <1>10, <1>11, <1>12 DEF Next

LEMMA HandlersKnowStep == ASSUME HandlersKnow, [Next]_vars PROVE HandlersKnow'
  BY CdpStepImplements, CallsGrow, HandlersStep DEF HandlersKnow, StepsFollow, OpsFollow

\* Whatever CDP commands, closes, aborts, sweeps and losses do, the handlers work the registry
\* by its own operations, and retire no lease twice but one that has ended.
THEOREM CdpRefines == Spec => ImplementsRegistry
<1>1. Init => HandlersKnow /\ Registry!Init
  BY DEF Init, HandlersKnow, Registry!Init, NoStep, NoOp
<1>2. HandlersKnow /\ [Next]_vars => HandlersKnow'
  BY HandlersKnowStep
<1>3. HandlersKnow /\ [Next]_vars => [RegistryOrEnded]_registryVars
  BY CdpStepImplements
<1>4. ImplementsRegistry <=> Registry!Init /\ [][RegistryOrEnded]_registryVars
  BY DEF ImplementsRegistry, RegistryOrEnded
<1> QED
  BY <1>1, <1>2, <1>3, <1>4, PTL DEF Spec

=============================================================================
