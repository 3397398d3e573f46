-------------------------------- MODULE BrowserPool --------------------------------
(***********************************************************************************)
(* The pool of browser processes behind page rendering (class BrowserPool): page   *)
(* acquisition with its awaits, launches shared by several callers, the page       *)
(* budget after which a browser is recycled, the background replacement, page      *)
(* crashes, browsers that die, and drain().                                        *)
(*                                                                                 *)
(* A caller takes one page at a time, so the page in hand is named by its caller.  *)
(* The loop of acquirePage() runs from one await to the next without interruption: *)
(* an event of the outside happens only when no caller is in the loop (Settled).   *)
(* A launch with a channel and its fallback without one is a single launch; a      *)
(* browser id is used again once nothing refers to it.                             *)
(***********************************************************************************)
EXTENDS Naturals, Sequences, FiniteSets

CONSTANTS Callers,      \* concurrent users of the pool
          MaxBrowsers,  \* options.maxBrowsers
          MaxPages,     \* options.maxPagesPerBrowser
          MaxProcs,     \* bound: browsers at once, MaxProcs - MaxBrowsers of them retired
          None          \* no browser

ASSUME BoundsAssumption == /\ MaxBrowsers \in Nat \ {0} /\ MaxPages \in Nat \ {0}
                           /\ MaxProcs \in Nat /\ MaxProcs > MaxBrowsers
                           /\ None \notin 1 .. MaxProcs
ASSUME CallersAssumption == IsFiniteSet(Callers)

VARIABLES browsers,   \* this.browsers, in order
          proc,       \* what each browser process does
          used,       \* pb.pagesUsed
          inUse,      \* pb.pagesInUse
          retired,    \* pb.closed
          replacing,  \* a background replacement awaits the launch in flight
          closed,     \* this._closed
          awaited,    \* the browsers drain() waits for
          drained,    \* drain() has returned
          pc,         \* where each caller is
          at          \* the browser it waits for or has a page of

pool == <<browsers, proc, used, inUse, retired, replacing>>
vars == <<browsers, proc, used, inUse, retired, replacing, closed, awaited, drained, pc, at>>

Procs == 1 .. MaxProcs

TypeOK ==
  /\ browsers \in Seq(Procs)
  /\ \A i, j \in DOMAIN browsers : browsers[i] = browsers[j] => i = j
  /\ proc \in [Procs -> {"none", "launching", "up", "closing", "dead"}]
  /\ used \in [Procs -> 0 .. MaxPages + Cardinality(Callers) - 1]
  /\ inUse \in [Procs -> SUBSET Callers]
  /\ retired \in [Procs -> BOOLEAN]
  /\ replacing \in BOOLEAN /\ closed \in BOOLEAN /\ drained \in BOOLEAN
  /\ awaited \subseteq Procs
  /\ pc \in [Callers -> {"out", "loop", "launch", "opening", "using", "crashed", "waiting"}]
  /\ at \in [Callers -> Procs \cup {None}]

Init ==
  /\ browsers = <<>>
  /\ proc = [b \in Procs |-> "none"]
  /\ used = [b \in Procs |-> 0]
  /\ inUse = [b \in Procs |-> {}]
  /\ retired = [b \in Procs |-> FALSE]
  /\ replacing = FALSE /\ closed = FALSE /\ drained = FALSE
  /\ awaited = {}
  /\ pc = [c \in Callers |-> "out"]
  /\ at = [c \in Callers |-> None]

Settled == \A c \in Callers : pc[c] # "loop"
Launching == {b \in Procs : proc[b] = "launching"}
Pooled == {browsers[i] : i \in DOMAIN browsers}
Fresh(b) == proc[b] = "none" /\ b \notin Pooled /\ \A c \in Callers : at[c] # b

\* Browsers that have left the pool and that somebody still refers to; their number is bounded.
Leftover == {b \in Procs : ~Fresh(b)} \ (Pooled \cup Launching)

\* Mutant: nobody is notified.
WakeNobody(where) == where

\* notifyWaiters()
Wake(where) == [c \in Callers |-> IF where[c] = "waiting" THEN "loop" ELSE where[c]]

Goto(c, l, b) == pc' = [pc EXCEPT ![c] = l] /\ at' = [at EXCEPT ![c] = b]

\* recycleBrowser() up to its await: the browsers leave the list, which keeps its order,
\* and start to close.
Retire(bs) ==
  /\ browsers' \in [1 .. Cardinality(Pooled \ bs) -> Pooled \ bs]
  /\ \A i, j \in DOMAIN browsers' : i < j =>
       \E k, l \in DOMAIN browsers :
         k < l /\ browsers[k] = browsers'[i] /\ browsers[l] = browsers'[j]
  /\ retired' = [b \in Procs |-> retired[b] \/ b \in bs]

----------------------------------------------------------------------------
\* Mutant: a spent browser is recycled with its pages checked out.
SpentBusy(b) == ~retired[b] /\ used[b] >= MaxPages

\* findAvailableBrowser(): browsers with room, and the browsers it recycles on the way.
HasRoom(b) == ~retired[b] /\ used[b] < MaxPages
Spent(b) == ~retired[b] /\ used[b] >= MaxPages /\ inUse[b] = {}

Roomy == {i \in DOMAIN browsers : HasRoom(browsers[i])}
Recyclable ==
  {browsers[i] : i \in {j \in DOMAIN browsers : /\ Spent(browsers[j])
                                                /\ \A k \in Roomy : j < k}}

Closing(bs) == [b \in Procs |-> IF b \in bs THEN "closing" ELSE proc[b]]

OpenPage(c) ==
  /\ \E i \in Roomy : /\ \A j \in Roomy : i <= j
                      /\ Goto(c, "opening", browsers[i])
  /\ proc' = Closing(Recyclable)
  /\ UNCHANGED <<used, inUse>>

\* A launch begins with a browser of no pages.
StartLaunch(procs) ==
  \E b \in Procs :
    /\ Fresh(b) /\ \A o \in Procs : Fresh(o) => b <= o
    /\ proc' = [procs EXCEPT ![b] = "launching"]
    /\ used' = [used EXCEPT ![b] = 0]
    /\ inUse' = [inUse EXCEPT ![b] = {}]

\* Mutant: a launch in flight is not shared.
LaunchAlways(procs) == StartLaunch(procs)

\* launchBrowser(): join the launch in flight or start one.
JoinOrLaunch(procs) ==
  \/ Launching # {} /\ proc' = procs /\ UNCHANGED <<used, inUse>>
  \/ Launching = {} /\ StartLaunch(procs)

AwaitLaunch(c) ==
  /\ Roomy = {}
  /\ Len(browsers) - Cardinality(Recyclable) < MaxBrowsers \/ Launching # {}
  /\ JoinOrLaunch(Closing(Recyclable))
  /\ Goto(c, "launch", CHOOSE b \in Procs : proc'[b] = "launching")

Wait(c) ==
  /\ Roomy = {} /\ Launching = {}
  /\ Len(browsers) - Cardinality(Recyclable) >= MaxBrowsers
  /\ Goto(c, "waiting", None)
  /\ proc' = Closing(Recyclable)
  /\ UNCHANGED <<used, inUse>>

\* acquirePage() from one await to the next; on a closed pool it throws.
Pass(c) ==
  /\ IF closed
     THEN Goto(c, "out", None) /\ UNCHANGED <<browsers, proc, used, inUse, retired>>
     ELSE Retire(Recyclable) /\ (OpenPage(c) \/ AwaitLaunch(c) \/ Wait(c))
  /\ UNCHANGED <<replacing, closed, awaited, drained>>

Acquire(c) == Settled /\ pc[c] = "out" /\ Pass(c)
Loop(c) == pc[c] = "loop" /\ Pass(c)

----------------------------------------------------------------------------
Joined(c, b) == pc[c] = "launch" /\ at[c] = b

\* _launchBrowser() resolves: everybody who awaited it opens a page of the new browser.
LaunchDone(b) ==
  /\ Settled /\ ~closed
  /\ proc[b] = "launching"
  /\ proc' = [proc EXCEPT ![b] = "up"]
  /\ retired' = [retired EXCEPT ![b] = FALSE]
  /\ browsers' = Append(browsers, b)
  /\ pc' = Wake([c \in Callers |-> IF Joined(c, b) THEN "opening" ELSE pc[c]])
  /\ replacing' = FALSE
  /\ UNCHANGED <<used, inUse, closed, awaited, drained, at>>

\* The pool was closed during the launch: the new browser is closed at once.
LaunchLate(b) ==
  /\ Settled /\ closed
  /\ proc[b] = "launching"
  /\ proc' = [proc EXCEPT ![b] = "closing"]
  /\ UNCHANGED <<browsers, used, inUse, retired, replacing, closed, awaited, drained, pc, at>>

\* The launch fails: a caller fails with it when the pool is empty and looks again
\* otherwise; a failed replacement wakes the waiters.
LaunchFails(b) ==
  /\ Settled
  /\ proc[b] = "launching"
  /\ proc' = [proc EXCEPT ![b] = "none"]
  /\ LET after == [c \in Callers |-> IF Joined(c, b)
                                     THEN IF browsers = <<>> THEN "out" ELSE "loop"
                                     ELSE pc[c]]
     IN  pc' = IF replacing THEN Wake(after) ELSE after
  /\ at' = [c \in Callers |-> IF Joined(c, b) THEN None ELSE at[c]]
  /\ replacing' = FALSE
  /\ UNCHANGED <<browsers, used, inUse, retired, closed, awaited, drained>>

\* browser.close() returns: an open pool with room launches a replacement; the callers of
\* a launch that came too late fail.
CloseEnds(b) ==
  /\ Settled
  /\ proc[b] = "closing"
  /\ LET gone == [proc EXCEPT ![b] = "none"]
     IN  IF ~closed /\ Len(browsers) < MaxBrowsers
         THEN JoinOrLaunch(gone) /\ replacing' = TRUE
         ELSE proc' = gone /\ UNCHANGED <<used, inUse, replacing>>
  /\ pc' = [c \in Callers |-> IF Joined(c, b) THEN "out" ELSE pc[c]]
  /\ at' = [c \in Callers |-> IF Joined(c, b) THEN None ELSE at[c]]
  /\ UNCHANGED <<browsers, retired, closed, awaited, drained>>

----------------------------------------------------------------------------
\* createPooledPage() after its awaits; a browser that closes meanwhile may still be in
\* time to open the page.
OpenDone(c) ==
  /\ Settled /\ pc[c] = "opening"
  /\ proc[at[c]] \in {"up", "closing"}
  /\ used' = [used EXCEPT ![at[c]] = @ + 1]
  /\ inUse' = [inUse EXCEPT ![at[c]] = @ \cup {c}]
  /\ pc' = [pc EXCEPT ![c] = "using"]
  /\ UNCHANGED <<browsers, proc, retired, replacing, closed, awaited, drained, at>>

\* newContext() or newPage() fails and acquirePage() with it.
OpenFails(c) ==
  /\ Settled /\ pc[c] = "opening"
  /\ Goto(c, "out", None)
  /\ UNCHANGED <<pool, closed, awaited, drained>>

\* What release() and the crash handler do when the page of c is the last one.
GiveBack(c, recycles) ==
  LET b == at[c]
      bs == IF inUse[b] \subseteq {c} /\ recycles /\ ~retired[b] THEN {b} ELSE {}
  IN  /\ bs # {} => Cardinality(Leftover) < MaxProcs - MaxBrowsers
      /\ inUse' = [inUse EXCEPT ![b] = @ \ {c}]
      /\ Retire(bs)
      /\ proc' = Closing(bs)
      /\ UNCHANGED <<used, replacing, closed, awaited, drained>>

\* Mutant: a release does not wake the waiters.
ReleaseQuietly(c) ==
  /\ Settled /\ pc[c] = "using"
  /\ GiveBack(c, used[at[c]] >= MaxPages)
  /\ pc' = [pc EXCEPT ![c] = "out"]
  /\ at' = [at EXCEPT ![c] = None]

Release(c) ==
  /\ Settled /\ pc[c] = "using"
  /\ GiveBack(c, used[at[c]] >= MaxPages)
  /\ pc' = Wake([pc EXCEPT ![c] = "out"])
  /\ at' = [at EXCEPT ![c] = None]

\* The "crash" event of a page: it is released for its caller and a browser left empty is
\* recycled.
PageCrashes(c) ==
  /\ Settled /\ pc[c] = "using"
  /\ GiveBack(c, TRUE)
  /\ pc' = Wake([pc EXCEPT ![c] = "crashed"])
  /\ at' = [at EXCEPT ![c] = None]

\* The caller of a crashed page releases it: it has been released already.
ReleaseAgain(c) ==
  /\ Settled /\ pc[c] = "crashed"
  /\ Goto(c, "out", None)
  /\ UNCHANGED <<pool, closed, awaited, drained>>

\* A browser process dies; the pool has no handler for it.
BrowserDies(b) ==
  /\ Settled /\ proc[b] = "up"
  /\ proc' = [proc EXCEPT ![b] = "dead"]
  /\ UNCHANGED <<browsers, used, inUse, retired, replacing, closed, awaited, drained, pc, at>>

\* Mutant: drain() forgets the launches in flight.
DrainPooledOnly ==
  /\ Settled /\ ~closed
  /\ closed' = TRUE
  /\ awaited' = Pooled
  /\ retired' = [b \in Procs |-> retired[b] \/ b \in Pooled]
  /\ proc' = Closing(Pooled)
  /\ pc' = Wake(pc)
  /\ UNCHANGED <<browsers, used, inUse, replacing, drained, at>>

\* drain() up to its await.
Drain ==
  /\ Settled /\ ~closed
  /\ closed' = TRUE
  /\ awaited' = Pooled \cup Launching
  /\ retired' = [b \in Procs |-> retired[b] \/ b \in Pooled]
  /\ proc' = Closing(Pooled)
  /\ pc' = Wake(pc)
  /\ UNCHANGED <<browsers, used, inUse, replacing, drained, at>>

DrainEnds ==
  /\ Settled /\ closed /\ ~drained
  /\ \A b \in awaited : proc[b] = "none"
  /\ browsers' = <<>>
  /\ drained' = TRUE
  /\ UNCHANGED <<proc, used, inUse, retired, replacing, closed, awaited, pc, at>>

Opened(c) == OpenDone(c) \/ OpenFails(c)
Launched(b) == LaunchDone(b) \/ LaunchLate(b) \/ LaunchFails(b)

Next ==
  \/ \E c \in Callers : \/ Acquire(c) \/ Loop(c) \/ Opened(c)
                        \/ Release(c) \/ PageCrashes(c) \/ ReleaseAgain(c)
  \/ \E b \in Procs : Launched(b) \/ CloseEnds(b) \/ BrowserDies(b)
  \/ Drain \/ DrainEnds

Spec == Init /\ [][Next]_vars

\* Playwright answers every call, one way or the other, and callers give pages back.  These
\* are tasks of the event loop, which passes of other callers may precede, again and again.
FairSpec ==
  /\ Spec
  /\ \A c \in Callers : /\ WF_vars(Loop(c)) /\ SF_vars(Opened(c))
                        /\ SF_vars(Release(c)) /\ SF_vars(ReleaseAgain(c))
  /\ \A b \in Procs : SF_vars(Launched(b)) /\ SF_vars(CloseEnds(b))
  /\ SF_vars(DrainEnds)

----------------------------------------------------------------------------
\* Browsers and the launch in flight together never exceed maxBrowsers, although the check
\* and the registration of a launched browser are an await apart.
CapHeld == Len(browsers) + Cardinality(Launching) <= MaxBrowsers

\* A caller waits only while every slot is taken by a browser at its budget that still has
\* a page checked out: somebody's release is yet to wake it.
WaitHasWaker ==
  \A c \in Callers : pc[c] = "waiting" =>
    /\ Len(browsers) = MaxBrowsers
    /\ \A b \in Pooled : used[b] >= MaxPages /\ inUse[b] # {}

\* When drain() returns, no browser runs or is being launched.
DrainComplete == drained => \A b \in Procs : proc[b] \notin {"launching", "up"}

\* Recycling never closes a browser with a checked-out page (the comment in
\* findAvailableBrowser()): only drain() does.
CheckedOutKept ==
  [][\A b \in Procs : (~retired[b] /\ retired'[b] /\ ~closed') => inUse'[b] = {}]_vars

\* The pool is never larger than its cap, leaves no caller waiting whom nobody will wake,
\* closes no browser with a page in use, and leaves none behind when it is drained.
PoolKept == []CapHeld /\ []WaitHasWaker /\ []DrainComplete /\ CheckedOutKept

\* Every acquirePage() returns: with a page, or with an error.
AcquireEnds ==
  \A c \in Callers :
    pc[c] \in {"loop", "launch", "opening", "waiting"} ~> pc[c] \in {"using", "out"}

\* "the page budget is still enforced": a browser never serves more than
\* maxPagesPerBrowser pages.  It does not hold: one does.
BudgetHeld == \A b \in Procs : used[b] <= MaxPages

\* "without ever killing in-flight work": recycling never closes a browser in which a page
\* is being opened for a caller.  It does not hold: it may be one.
InFlightKept ==
  [][\A b \in Procs : (~retired[b] /\ retired'[b] /\ ~closed') =>
       \A c \in Callers : ~(pc'[c] = "opening" /\ at'[c] = b)]_vars

\* "if a page/browser crashes, it's retired and replaced": callers are not sent to
\* the same dead browser for ever.  It does not hold: they are.
DeadRetired ==
  \A b \in Procs :
    []<>(proc[b] = "dead" /\ \E c \in Callers : pc[c] = "opening" /\ at[c] = b)
      => []<>(proc[b] # "dead")
=============================================================================
