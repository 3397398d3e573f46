----------------------------- MODULE BrowserPoolProofs -----------------------------
(***********************************************************************************)
(* Proofs about BrowserPool, for every number of callers and all bounds: what the  *)
(* pool keeps (PoolKept), and the typing, which holds how far the page budget of a *)
(* browser can be passed.                                                          *)
(*                                                                                 *)
(* The inductive invariant says where a browser can be: in the list exactly while  *)
(* it runs and is not retired, at most one of them being launched; and whom the    *)
(* pages of a caller belong to.                                                    *)
(***********************************************************************************)
EXTENDS BrowserPool, FiniteSetTheorems, SequenceTheorems, FunctionTheorems, TLAPS

States == {"none", "launching", "up", "closing", "dead"}
Places == {"out", "loop", "launch", "opening", "using", "crashed", "waiting"}

Shape ==
  /\ browsers \in Seq(Procs)
  /\ \A i, j \in DOMAIN browsers : browsers[i] = browsers[j] => i = j
  /\ proc \in [Procs -> States]
  /\ used \in [Procs -> Nat]
  /\ inUse \in [Procs -> SUBSET Callers]
  /\ retired \in [Procs -> BOOLEAN]
  /\ replacing \in BOOLEAN /\ closed \in BOOLEAN /\ drained \in BOOLEAN
  /\ awaited \subseteq Procs
  /\ pc \in [Callers -> Places]
  /\ at \in [Callers -> Procs \cup {None}]

\* The browsers in the list are those that run; drain() has asked all of them to close.
PooledRun ==
  /\ \A b \in Pooled : IF closed THEN proc[b] \in {"closing", "none"}
                       ELSE proc[b] \in {"up", "dead"} /\ ~retired[b]
  /\ \A b \in Procs : proc[b] \in {"up", "dead"} => b \in Pooled

\* One launch at a time, of a browser without pages.
OneLaunch ==
  /\ \A b, d \in Launching : b = d
  /\ \A b \in Launching : used[b] = 0

\* A caller has a page, or opens one, of a browser in the list or of a retired one, and
\* awaits the launch of a browser that nobody else refers to.
PagesOfPooled ==
  \A c \in Callers :
    /\ pc[c] \in {"opening", "using"} =>
         at[c] \in Procs /\ (retired[at[c]] \/ (~closed /\ at[c] \in Pooled))
    /\ at[c] \in Launching => pc[c] = "launch"
    /\ at[c] # None <=> pc[c] \in {"launch", "opening", "using"}

\* The launch in flight has its place in the list reserved.
Reserved ==
  /\ Len(browsers) <= MaxBrowsers
  /\ Launching # {} => Len(browsers) < MaxBrowsers

ClosedForGood ==
  /\ closed => Launching \subseteq awaited /\ \A c \in Callers : pc[c] # "waiting"
  /\ drained => closed /\ Launching = {}

OpeningAt(b) == {c \in Callers : pc[c] = "opening" /\ at[c] = b}

\* Only the callers that open a page at the same time can pass the budget.
BudgetPassed ==
  \A b \in Procs : used[b] + Cardinality(OpeningAt(b)) <= MaxPages - 1 + Cardinality(Callers)

IInv ==
  /\ Shape
  /\ PooledRun
  /\ OneLaunch
  /\ PagesOfPooled
  /\ Reserved
  /\ WaitHasWaker
  /\ ClosedForGood
  /\ BudgetPassed

----------------------------------------------------------------------------
LEMMA InitIInv == Init => IInv
<1> SUFFICES ASSUME Init PROVE IInv
  OBVIOUS
<1>1. Shape
  <2>1. browsers = <<>> /\ browsers \in Seq(Procs) /\ DOMAIN browsers = {}
    BY DEF Init
  <2>2. /\ proc \in [Procs -> States] /\ used \in [Procs -> Nat]
        /\ inUse \in [Procs -> SUBSET Callers] /\ retired \in [Procs -> BOOLEAN]
    BY DEF Init, States
  <2>3. pc \in [Callers -> Places] /\ at \in [Callers -> Procs \cup {None}]
    BY DEF Init, Places
  <2>4. /\ replacing \in BOOLEAN /\ closed \in BOOLEAN /\ drained \in BOOLEAN
        /\ awaited \subseteq Procs
    BY DEF Init
  <2> QED
    BY <2>1, <2>2, <2>3, <2>4 DEF Shape
<1>2. Pooled = {} /\ Launching = {}
  BY DEF Init, Pooled, Launching
<1>3. PooledRun /\ OneLaunch /\ PagesOfPooled /\ Reserved /\ ClosedForGood
  BY <1>2, BoundsAssumption
  DEF Init, PooledRun, OneLaunch, PagesOfPooled, Reserved, ClosedForGood
<1>4. WaitHasWaker
  BY DEF Init, WaitHasWaker
<1>5. BudgetPassed
  <2>1. \A b : OpeningAt(b) = {}
    BY DEF Init, OpeningAt
  <2>2. \A b \in Procs : used[b] = 0 /\ Cardinality(OpeningAt(b)) = 0
    BY <2>1, FS_EmptySet DEF Init
  <2>3. Cardinality(Callers) \in Nat /\ MaxPages \in Nat \ {0}
    BY FS_CardinalityType, CallersAssumption, BoundsAssumption
  <2> QED
    BY <2>2, <2>3 DEF BudgetPassed
<1> QED
  BY <1>1, <1>3, <1>4, <1>5 DEF IInv

\* The list without duplicates has as many entries as browsers.
LEMMA PooledSize ==
  ASSUME Shape
  PROVE  /\ Pooled \subseteq Procs
         /\ Len(browsers) \in Nat /\ DOMAIN browsers = 1 .. Len(browsers)
         /\ IsFiniteSet(Pooled)
         /\ Cardinality(Pooled) = Len(browsers)
<1>1. /\ Len(browsers) \in Nat /\ DOMAIN browsers = 1 .. Len(browsers)
      /\ \A i \in DOMAIN browsers : browsers[i] \in Procs
  BY DEF Shape
<1>2. Pooled \subseteq Procs
  BY <1>1 DEF Pooled
<1> DEFINE n == Len(browsers)
           f == [i \in 1 .. n |-> browsers[i]]
<1>3. f \in Bijection(1 .. n, Pooled)
  BY <1>1 DEF Bijection, Injection, Surjection, IsInjective, Shape, Pooled
<1>4. IsFiniteSet(1 .. n) /\ Cardinality(1 .. n) = n
  <2>1. n \in Nat /\ (IF 1 > n THEN n = 0 ELSE n - 1 + 1 = n)
    BY <1>1
  <2> HIDE DEF n
  <2> QED
    BY <2>1, FS_Interval
<1>5. ExistsBijection(1 .. n, Pooled)
  BY <1>3 DEF ExistsBijection
<1> HIDE DEF n, f
<1>6. IsFiniteSet(Pooled) /\ Cardinality(Pooled) = n
  BY <1>4, <1>5, FS_Bijection
<1> QED
  BY <1>1, <1>2, <1>6 DEF n

\* What recycleBrowser() leaves in the list.
Kept(bs) ==
  /\ browsers' \in Seq(Procs)
  /\ \A i, j \in DOMAIN browsers' : browsers'[i] = browsers'[j] => i = j
  /\ Pooled' = Pooled \ bs
  /\ Len(browsers') = Cardinality(Pooled \ bs)
  /\ Len(browsers') <= Len(browsers)
  /\ bs \cap Pooled # {} => Len(browsers') < Len(browsers)
  /\ bs \subseteq Pooled => Len(browsers') = Len(browsers) - Cardinality(bs)
  /\ retired' \in [Procs -> BOOLEAN]
  /\ \A b \in Procs : retired'[b] <=> retired[b] \/ b \in bs

LEMMA RetireKeeps ==
  ASSUME Shape, NEW bs, Retire(bs)
  PROVE  Kept(bs)
<1> DEFINE S == Pooled \ bs
           n == Cardinality(S)
<1>1. /\ Pooled \subseteq Procs /\ IsFiniteSet(Pooled) /\ Cardinality(Pooled) = Len(browsers)
      /\ Len(browsers) \in Nat
  BY PooledSize
<1>2. /\ IsFiniteSet(S) /\ n \in Nat /\ n <= Len(browsers)
      /\ bs \cap Pooled # {} => n < Len(browsers)
      /\ bs \subseteq Pooled => n = Len(browsers) - Cardinality(bs)
  <2> DEFINE m == Cardinality(Pooled \cap bs)
  <2>1. IsFiniteSet(S) /\ n \in Nat /\ n = Cardinality(Pooled) - m
    BY <1>1, FS_Difference, FS_CardinalityType
  <2>2. IsFiniteSet(Pooled \cap bs) /\ m \in Nat
    BY <1>1, FS_Intersection, FS_CardinalityType
  <2>3. bs \cap Pooled # {} => m # 0
    BY <2>2, FS_EmptySet
  <2>4. bs \subseteq Pooled => Pooled \cap bs = bs
    OBVIOUS
  <2>5. bs \subseteq Pooled => m = Cardinality(bs)
    BY <2>4
  <2> HIDE DEF m, S, n
  <2>6. n = Len(browsers) - m
    BY <1>1, <2>1
  <2> QED
    BY <1>1, <2>1, <2>2, <2>3, <2>5, <2>6
<1>3. /\ browsers' \in [1 .. n -> S]
      /\ \A i, j \in DOMAIN browsers' : i < j =>
           \E k, l \in DOMAIN browsers :
             k < l /\ browsers[k] = browsers'[i] /\ browsers[l] = browsers'[j]
  BY DEF Retire
<1> HIDE DEF n
<1>4. browsers' \in Seq(Procs) /\ Len(browsers') = n /\ DOMAIN browsers' = 1 .. n
  <2>1. browsers' \in [1 .. n -> Procs]
    BY <1>1, <1>3
  <2> QED
    BY <1>2, <2>1
<1>5. ASSUME NEW i \in DOMAIN browsers', NEW j \in DOMAIN browsers', i < j
      PROVE  browsers'[i] # browsers'[j]
  <2>1. PICK k, l \in DOMAIN browsers :
          k < l /\ browsers[k] = browsers'[i] /\ browsers[l] = browsers'[j]
    BY <1>3, <1>5
  <2>2. k # l
    BY <2>1, PooledSize
  <2> QED
    BY <2>1, <2>2 DEF Shape
<1>6. ASSUME NEW i \in DOMAIN browsers', NEW j \in DOMAIN browsers', browsers'[i] = browsers'[j]
      PROVE  i = j
  BY <1>2, <1>4, <1>5, <1>6
<1>7. browsers' \in Injection(1 .. n, S)
  BY <1>3, <1>4, <1>6 DEF Injection, IsInjective
<1>8. IsFiniteSet(1 .. n) /\ Cardinality(1 .. n) = n
  <2>1. IF 1 > n THEN n = 0 ELSE n - 1 + 1 = n
    BY <1>2
  <2> QED
    BY <1>2, <2>1, FS_Interval
<1>9. browsers' \in Surjection(1 .. n, S)
  BY <1>2, <1>7, <1>8, FS_Injection DEF n
<1>10. Pooled' = S
  BY <1>3, <1>4, <1>9 DEF Surjection, Pooled
<1>11. /\ retired' \in [Procs -> BOOLEAN]
       /\ \A b \in Procs : retired'[b] <=> retired[b] \/ b \in bs
  BY DEF Retire, Shape
<1> QED
  BY <1>2, <1>4, <1>6, <1>10, <1>11 DEF Kept, n

----------------------------------------------------------------------------
\* Pages opened at a browser, and the budget: it is passed only by those already on the way.
LEMMA OpeningSize ==
  ASSUME NEW b
  PROVE  /\ IsFiniteSet(OpeningAt(b)) /\ Cardinality(OpeningAt(b)) \in Nat
         /\ Cardinality(Callers) \in Nat
         /\ Cardinality(OpeningAt(b)) <= Cardinality(Callers)
<1>1. OpeningAt(b) \subseteq Callers
  BY DEF OpeningAt
<1> QED
  BY <1>1, CallersAssumption, FS_Subset, FS_CardinalityType

LEMMA BudgetStep ==
  ASSUME Shape, Shape', BudgetPassed,
         \A b \in Procs : \/ used'[b] < MaxPages
                          \/ used'[b] <= used[b] /\ OpeningAt(b)' \subseteq OpeningAt(b)
  PROVE  BudgetPassed'
<1> SUFFICES ASSUME NEW b \in Procs
             PROVE  used'[b] + Cardinality(OpeningAt(b)') <= MaxPages - 1 + Cardinality(Callers)
  BY DEF BudgetPassed
<1>1. /\ used[b] \in Nat /\ used'[b] \in Nat /\ MaxPages \in Nat
      /\ used[b] + Cardinality(OpeningAt(b)) <= MaxPages - 1 + Cardinality(Callers)
  BY BoundsAssumption DEF Shape, BudgetPassed
<1>2. /\ IsFiniteSet(OpeningAt(b)) /\ Cardinality(OpeningAt(b)) \in Nat
      /\ Cardinality(Callers) \in Nat
  BY OpeningSize
<1>3. /\ Cardinality(OpeningAt(b)') \in Nat
      /\ Cardinality(OpeningAt(b)') <= Cardinality(Callers)
  <2>1. OpeningAt(b)' \subseteq Callers
    BY DEF OpeningAt
  <2> QED
    BY <2>1, CallersAssumption, FS_Subset, FS_CardinalityType
<1>4. CASE used'[b] < MaxPages
  BY <1>1, <1>2, <1>3, <1>4
<1>5. CASE used'[b] <= used[b] /\ OpeningAt(b)' \subseteq OpeningAt(b)
  <2>1. Cardinality(OpeningAt(b)') <= Cardinality(OpeningAt(b))
    BY <1>2, <1>5, FS_Subset
  <2> QED
    BY <1>1, <1>2, <1>3, <1>5, <2>1
<1> QED
  BY <1>4, <1>5

\* While somebody waits, nothing can be opened, recycled or launched.
LEMMA WaitersStuck ==
  ASSUME IInv, NEW d \in Callers, pc[d] = "waiting"
  PROVE  /\ Roomy = {} /\ Recyclable = {} /\ Launching = {}
         /\ Len(browsers) = MaxBrowsers /\ ~closed
<1>1. Len(browsers) = MaxBrowsers /\ \A b \in Pooled : used[b] >= MaxPages /\ inUse[b] # {}
  BY DEF IInv, WaitHasWaker
<1>2. \A i \in DOMAIN browsers : browsers[i] \in Pooled
  BY DEF Pooled
<1>3. Pooled \subseteq Procs /\ MaxPages \in Nat
  BY PooledSize, BoundsAssumption DEF IInv
<1>4. \A b \in Pooled : ~HasRoom(b) /\ ~Spent(b)
  BY <1>1, <1>3 DEF HasRoom, Spent, IInv, Shape
<1>5. Roomy = {}
  BY <1>2, <1>4 DEF Roomy
<1>6. Recyclable = {}
  BY <1>2, <1>4 DEF Recyclable
<1>7. Launching = {}
  BY <1>1, BoundsAssumption DEF IInv, Reserved
<1> QED
  BY <1>1, <1>5, <1>6, <1>7 DEF IInv, ClosedForGood

\* What a pass recycles.
LEMMA RecyclableSpent ==
  ASSUME IInv
  PROVE  /\ Recyclable \subseteq Pooled
         /\ \A b \in Recyclable : b \in Procs /\ Spent(b)
<1>1. Pooled \subseteq Procs
  BY PooledSize DEF IInv
<1> QED
  BY <1>1 DEF Recyclable, Pooled

\* Browsers of an open pool that leave the list and start to close.
LEMMA RetirePart ==
  ASSUME IInv, ~closed, NEW bs, bs \subseteq Pooled, Retire(bs)
  PROVE  /\ Kept(bs)
         /\ Closing(bs) \in [Procs -> States]
         /\ \A b \in Procs : Closing(bs)[b] = "launching" <=> proc[b] = "launching"
         /\ \A b \in Procs : Closing(bs)[b] \in {"up", "dead"} <=>
                               proc[b] \in {"up", "dead"} /\ b \notin bs
         /\ \A b \in Pooled \ bs : Closing(bs)[b] = proc[b] /\ ~retired'[b]
         /\ Pooled \subseteq Procs
<1>1. Kept(bs)
  BY RetireKeeps DEF IInv
<1>2. Pooled \subseteq Procs
  BY PooledSize DEF IInv
<1>3. \A b \in Pooled : proc[b] \in {"up", "dead"} /\ ~retired[b]
  BY DEF IInv, PooledRun
<1>4. Closing(bs) \in [Procs -> States]
  BY DEF Closing, States, IInv, Shape
<1>5. /\ \A b \in Procs : Closing(bs)[b] = "launching" <=> proc[b] = "launching"
      /\ \A b \in Procs : Closing(bs)[b] \in {"up", "dead"} <=>
                            proc[b] \in {"up", "dead"} /\ b \notin bs
      /\ \A b \in Pooled \ bs : Closing(bs)[b] = proc[b]
  BY <1>2, <1>3 DEF Closing
<1>6. \A b \in Pooled \ bs : ~retired'[b]
  BY <1>1, <1>2, <1>3 DEF Kept
<1> QED
  BY <1>1, <1>2, <1>4, <1>5, <1>6

----------------------------------------------------------------------------
\* A launch starts with a browser nobody refers to, or is the one in flight.
LEMMA LaunchStarts ==
  ASSUME IInv, NEW procs \in [Procs -> States], JoinOrLaunch(procs),
         \A b \in Procs : procs[b] = "launching" <=> proc[b] = "launching"
  PROVE  \E b \in Procs :
           /\ proc' = [procs EXCEPT ![b] = "launching"]
           /\ proc' \in [Procs -> States] /\ Launching' = {b}
           /\ used' \in [Procs -> Nat] /\ used'[b] = 0
           /\ inUse' \in [Procs -> SUBSET Callers]
           /\ \A d \in Procs \ {b} : used'[d] = used[d] /\ inUse'[d] = inUse[d]
           /\ \/ Launching = {b} /\ used' = used /\ inUse' = inUse
              \/ Launching = {} /\ Fresh(b)
<1>1. CASE Launching # {} /\ proc' = procs /\ UNCHANGED <<used, inUse>>
  <2>1. PICK b \in Procs : Launching = {b} /\ used[b] = 0
    BY <1>1 DEF Launching, IInv, OneLaunch
  <2>2. procs[b] = "launching"
    BY <2>1 DEF Launching
  <2>3. Launching' = {b}
    BY <1>1, <2>1 DEF Launching
  <2>4. proc' = [procs EXCEPT ![b] = "launching"]
    BY <1>1, <2>2
  <2> QED
    BY <1>1, <2>1, <2>3, <2>4 DEF IInv, Shape
<1>2. CASE Launching = {} /\ StartLaunch(procs)
  <2>1. PICK b \in Procs : /\ Fresh(b)
                           /\ proc' = [procs EXCEPT ![b] = "launching"]
                           /\ used' = [used EXCEPT ![b] = 0]
                           /\ inUse' = [inUse EXCEPT ![b] = {}]
    BY <1>2 DEF StartLaunch
  <2>2. proc' \in [Procs -> States]
    BY <2>1 DEF States
  <2>3. \A d \in Procs : procs[d] # "launching"
    BY <1>2 DEF Launching
  <2>4. Launching' = {b}
    BY <2>1, <2>3 DEF Launching
  <2>5. /\ used' \in [Procs -> Nat] /\ used'[b] = 0
        /\ inUse' \in [Procs -> SUBSET Callers]
        /\ \A d \in Procs \ {b} : used'[d] = used[d] /\ inUse'[d] = inUse[d]
    BY <2>1 DEF IInv, Shape
  <2> QED
    BY <1>2, <2>1, <2>2, <2>4, <2>5
<1> QED
  BY <1>1, <1>2 DEF JoinOrLaunch

LEMMA PassClosedIInv ==
  ASSUME IInv, NEW c \in Callers, pc[c] \in {"out", "loop"}, closed, Pass(c)
  PROVE  IInv'
<1>1. /\ pc' = [pc EXCEPT ![c] = "out"] /\ at' = [at EXCEPT ![c] = None]
      /\ UNCHANGED <<browsers, proc, used, inUse, retired, replacing, closed, awaited, drained>>
  BY DEF Pass, Goto
<1>2. Shape'
  BY <1>1 DEF IInv, Shape, Places
<1>3. Pooled' = Pooled /\ Launching' = Launching
  BY <1>1 DEF Pooled, Launching
<1>4. PooledRun' /\ OneLaunch' /\ Reserved'
  BY <1>1, <1>3 DEF IInv, PooledRun, OneLaunch, Reserved
<1>5. None \notin Procs
  BY BoundsAssumption DEF Procs
<1>6. PagesOfPooled'
  BY <1>1, <1>3, <1>5 DEF IInv, PagesOfPooled, Shape, Launching
<1>7. WaitHasWaker' /\ ClosedForGood'
  BY <1>1, <1>3 DEF IInv, WaitHasWaker, ClosedForGood, Shape
<1>8. \A b \in Procs : OpeningAt(b)' \subseteq OpeningAt(b)
  BY <1>1 DEF OpeningAt, IInv, Shape
<1>9. \A b \in Procs : used'[b] <= used[b]
  BY <1>1 DEF IInv, Shape
<1>10. BudgetPassed'
  BY <1>2, <1>8, <1>9, BudgetStep DEF IInv
<1> QED
  BY <1>2, <1>4, <1>6, <1>7, <1>10 DEF IInv

\* A pass of an open pool: what becomes of the browsers that it recycles.
LEMMA PassRetires ==
  ASSUME IInv, NEW c \in Callers, pc[c] \in {"out", "loop"}, ~closed, Pass(c)
  PROVE  /\ Kept(Recyclable)
         /\ Closing(Recyclable) \in [Procs -> States]
         /\ \A b \in Procs : Closing(Recyclable)[b] = "launching" <=> proc[b] = "launching"
         /\ \A b \in Procs : Closing(Recyclable)[b] \in {"up", "dead"} <=>
                               proc[b] \in {"up", "dead"} /\ b \notin Recyclable
         /\ \A b \in Pooled \ Recyclable :
              Closing(Recyclable)[b] = proc[b] /\ ~retired'[b]
         /\ Pooled \subseteq Procs
         /\ at[c] = None /\ None \notin Procs
         /\ UNCHANGED <<replacing, closed, awaited, drained>> /\ ~drained
         /\ OpenPage(c) \/ AwaitLaunch(c) \/ Wait(c)
<1>1. /\ Retire(Recyclable) /\ (OpenPage(c) \/ AwaitLaunch(c) \/ Wait(c))
      /\ UNCHANGED <<replacing, closed, awaited, drained>>
  BY DEF Pass
<1>2. at[c] = None /\ None \notin Procs
  BY BoundsAssumption DEF IInv, PagesOfPooled, Procs
<1>3. ~drained
  BY DEF IInv, ClosedForGood
<1> QED
  BY <1>1, <1>2, <1>3, RecyclableSpent, RetirePart

LEMMA OpenPageIInv ==
  ASSUME IInv, NEW c \in Callers, pc[c] \in {"out", "loop"}, ~closed, Pass(c), OpenPage(c)
  PROVE  IInv'
<1>1. PICK i \in Roomy : Goto(c, "opening", browsers[i])
  BY DEF OpenPage
<1> DEFINE e == browsers[i]
           R == Recyclable
<1>2. e \in Pooled /\ HasRoom(e)
  BY DEF Roomy, Pooled
<1>3. /\ pc' = [pc EXCEPT ![c] = "opening"] /\ at' = [at EXCEPT ![c] = e]
      /\ proc' = Closing(R) /\ used' = used /\ inUse' = inUse
  BY <1>1 DEF OpenPage, Goto
<1>4. Kept(R) /\ UNCHANGED <<replacing, closed, awaited, drained>> /\ ~drained
  BY PassRetires
<1>5. /\ proc' \in [Procs -> States] /\ Pooled \subseteq Procs /\ None \notin Procs
      /\ Launching' = Launching
      /\ \A b \in Procs : proc'[b] \in {"up", "dead"} <=> proc[b] \in {"up", "dead"} /\ b \notin R
      /\ \A b \in Pooled \ R : proc'[b] = proc[b] /\ ~retired'[b]
  BY <1>3, PassRetires DEF Launching
<1>6. e \in Pooled \ R
  <2>1. MaxPages \in Nat /\ used[e] \in Nat
    BY <1>2, <1>5, BoundsAssumption DEF IInv, Shape
  <2> QED
    BY <1>2, <2>1, RecyclableSpent DEF HasRoom, Spent
<1> HIDE DEF e, R
<1>7. Shape'
  BY <1>2, <1>3, <1>4, <1>5 DEF IInv, Shape, Kept, Places
<1>8. Pooled' = Pooled \ R /\ \A b \in Procs : retired'[b] <=> retired[b] \/ b \in R
  BY <1>4 DEF Kept
<1>9. PooledRun'
  BY <1>4, <1>5, <1>8 DEF IInv, PooledRun
<1>10. OneLaunch'
  BY <1>3, <1>5 DEF IInv, OneLaunch
<1>11. PagesOfPooled'
  <2> SUFFICES ASSUME NEW d \in Callers
               PROVE  /\ pc'[d] \in {"opening", "using"} =>
                           /\ at'[d] \in Procs
                           /\ retired'[at'[d]] \/ (~closed' /\ at'[d] \in Pooled')
                      /\ at'[d] \in Launching' => pc'[d] = "launch"
                      /\ at'[d] # None <=> pc'[d] \in {"launch", "opening", "using"}
    BY DEF PagesOfPooled
  <2>1. CASE d = c
    <3>1. pc'[d] = "opening" /\ at'[d] = e
      BY <1>3, <2>1 DEF IInv, Shape
    <3>2. e \notin Launching
      BY <1>2 DEF Launching, IInv, PooledRun
    <3> QED
      BY <1>2, <1>4, <1>5, <1>6, <1>8, <3>1, <3>2
  <2>2. CASE d # c
    <3>1. pc'[d] = pc[d] /\ at'[d] = at[d]
      BY <1>3, <2>2 DEF IInv, Shape
    <3> QED
      BY <1>4, <1>5, <1>8, <3>1 DEF IInv, PagesOfPooled
  <2> QED
    BY <2>1, <2>2
<1>12. Reserved'
  BY <1>4, <1>5, <1>7, BoundsAssumption DEF IInv, Reserved, Kept, Shape
<1>13. WaitHasWaker'
  <2>1. \A d \in Callers : pc'[d] = "waiting" => pc[d] = "waiting"
    BY <1>3 DEF IInv, Shape
  <2>2. \A d \in Callers : pc[d] # "waiting"
    BY WaitersStuck DEF OpenPage
  <2> QED
    BY <2>1, <2>2 DEF WaitHasWaker
<1>14. ClosedForGood'
  BY <1>4 DEF ClosedForGood
<1>15. BudgetPassed'
  <2>1. \A b \in Procs : \/ used'[b] < MaxPages
                         \/ used'[b] <= used[b] /\ OpeningAt(b)' \subseteq OpeningAt(b)
    BY <1>2, <1>3 DEF HasRoom, OpeningAt, IInv, Shape
  <2> QED
    BY <1>7, <2>1, BudgetStep DEF IInv
<1> QED
  BY <1>7, <1>9, <1>10, <1>11, <1>12, <1>13, <1>14, <1>15 DEF IInv

LEMMA AwaitLaunchIInv ==
  ASSUME IInv, NEW c \in Callers, pc[c] \in {"out", "loop"}, ~closed, Pass(c), AwaitLaunch(c)
  PROVE  IInv'
<1> DEFINE R == Recyclable
<1>1. /\ Kept(R) /\ Closing(R) \in [Procs -> States]
      /\ \A b \in Procs : Closing(R)[b] = "launching" <=> proc[b] = "launching"
      /\ \A b \in Procs : Closing(R)[b] \in {"up", "dead"} <=>
                            proc[b] \in {"up", "dead"} /\ b \notin R
      /\ \A b \in Pooled \ R : Closing(R)[b] = proc[b] /\ ~retired'[b]
      /\ Pooled \subseteq Procs /\ None \notin Procs
      /\ UNCHANGED <<replacing, closed, awaited, drained>> /\ ~drained
  BY PassRetires
<1>2. /\ Roomy = {}
      /\ Len(browsers) - Cardinality(R) < MaxBrowsers \/ Launching # {}
      /\ JoinOrLaunch(Closing(R))
      /\ Goto(c, "launch", CHOOSE b \in Procs : proc'[b] = "launching")
  BY DEF AwaitLaunch
<1>3. R \subseteq Pooled
  BY RecyclableSpent
<1> HIDE DEF R
<1>4. PICK b \in Procs :
        /\ proc' = [Closing(R) EXCEPT ![b] = "launching"]
        /\ proc' \in [Procs -> States] /\ Launching' = {b}
        /\ used' \in [Procs -> Nat] /\ used'[b] = 0
        /\ inUse' \in [Procs -> SUBSET Callers]
        /\ \A d \in Procs \ {b} : used'[d] = used[d] /\ inUse'[d] = inUse[d]
        /\ \/ Launching = {b} /\ used' = used /\ inUse' = inUse
           \/ Launching = {} /\ Fresh(b)
  BY <1>1, <1>2, LaunchStarts
<1>5. b \notin Pooled /\ \A d \in Callers : at[d] = b => pc[d] = "launch"
  BY <1>4 DEF Launching, Fresh, IInv, PooledRun, PagesOfPooled
<1>6. pc' = [pc EXCEPT ![c] = "launch"] /\ at' = [at EXCEPT ![c] = b]
  <2>1. b = CHOOSE d \in Procs : proc'[d] = "launching"
    <3>1. proc'[b] = "launching" /\ \A d \in Procs : proc'[d] = "launching" => d = b
      BY <1>4 DEF Launching
    <3> QED
      BY <3>1
  <2> QED
    BY <1>2, <2>1 DEF Goto
<1>7. /\ Pooled' = Pooled \ R
      /\ \A d \in Procs : retired'[d] <=> retired[d] \/ d \in R
  BY <1>1 DEF Kept
<1>8. Shape'
  BY <1>1, <1>4, <1>6 DEF IInv, Shape, Kept, Places
<1>9. /\ \A d \in Procs : proc'[d] \in {"up", "dead"} <=>
                            proc[d] \in {"up", "dead"} /\ d \notin R /\ d # b
      /\ \A d \in Pooled \ R : proc'[d] = proc[d] /\ ~retired'[d]
  BY <1>1, <1>4, <1>5
<1>10. PooledRun'
  <2>1. \A d \in Procs : proc[d] \in {"up", "dead"} => d \in Pooled
    BY DEF IInv, PooledRun
  <2>2. \A d \in Pooled : proc[d] \in {"up", "dead"}
    BY DEF IInv, PooledRun
  <2> QED
    BY <1>1, <1>7, <1>9, <2>1, <2>2 DEF PooledRun
<1>11. OneLaunch'
  BY <1>4 DEF OneLaunch
<1>12. PagesOfPooled'
  <2> SUFFICES ASSUME NEW d \in Callers
               PROVE  /\ pc'[d] \in {"opening", "using"} =>
                           /\ at'[d] \in Procs
                           /\ retired'[at'[d]] \/ (~closed' /\ at'[d] \in Pooled')
                      /\ at'[d] \in Launching' => pc'[d] = "launch"
                      /\ at'[d] # None <=> pc'[d] \in {"launch", "opening", "using"}
    BY DEF PagesOfPooled
  <2>1. CASE d = c
    <3>1. pc'[d] = "launch" /\ at'[d] = b
      BY <1>6, <2>1 DEF IInv, Shape
    <3> QED
      BY <1>1, <3>1
  <2>2. CASE d # c
    <3>1. pc'[d] = pc[d] /\ at'[d] = at[d]
      BY <1>6, <2>2 DEF IInv, Shape
    <3>2. pc[d] \in {"opening", "using"} =>
            at[d] \in Procs /\ (retired[at[d]] \/ at[d] \in Pooled)
      BY DEF IInv, PagesOfPooled
    <3>3. at[d] # None <=> pc[d] \in {"launch", "opening", "using"}
      BY DEF IInv, PagesOfPooled
    <3> QED
      BY <1>1, <1>4, <1>5, <1>7, <3>1, <3>2, <3>3
  <2> QED
    BY <2>1, <2>2
<1>13. Reserved'
  <2>1. /\ Len(browsers) \in Nat /\ Len(browsers') \in Nat /\ MaxBrowsers \in Nat
        /\ Len(browsers') <= Len(browsers)
        /\ Len(browsers') = Len(browsers) - Cardinality(R)
    BY <1>1, <1>3, <1>8, BoundsAssumption, PooledSize DEF IInv, Shape, Kept
  <2>2. Launching # {} => Len(browsers) < MaxBrowsers
    BY DEF IInv, Reserved
  <2>3. Len(browsers') < MaxBrowsers
    BY <1>2, <2>1, <2>2
  <2> QED
    BY <2>1, <2>3 DEF Reserved
<1>14. WaitHasWaker'
  <2>1. \A d \in Callers : pc[d] # "waiting"
    <3> SUFFICES ASSUME NEW d \in Callers, pc[d] = "waiting" PROVE FALSE
      OBVIOUS
    <3>1. R = {} /\ Launching = {} /\ Len(browsers) = MaxBrowsers
      BY WaitersStuck DEF R
    <3>2. Cardinality(R) = 0 /\ MaxBrowsers \in Nat
      BY <3>1, FS_EmptySet, BoundsAssumption
    <3> QED
      BY <1>2, <3>1, <3>2
  <2>2. \A d \in Callers : pc'[d] = "waiting" => pc[d] = "waiting"
    BY <1>6 DEF IInv, Shape
  <2> QED
    BY <2>1, <2>2 DEF WaitHasWaker
<1>15. ClosedForGood'
  BY <1>1 DEF ClosedForGood
<1>16. BudgetPassed'
  <2>1. 0 < MaxPages
    BY BoundsAssumption
  <2>2. \A d \in Procs : OpeningAt(d)' \subseteq OpeningAt(d)
    BY <1>6 DEF OpeningAt, IInv, Shape
  <2>3. \A d \in Procs : \/ used'[d] < MaxPages
                         \/ used'[d] <= used[d] /\ OpeningAt(d)' \subseteq OpeningAt(d)
    BY <1>4, <2>1, <2>2 DEF IInv, Shape
  <2> QED
    BY <1>8, <2>3, BudgetStep DEF IInv
<1> QED
  BY <1>8, <1>10, <1>11, <1>12, <1>13, <1>14, <1>15, <1>16 DEF IInv

LEMMA WaitIInv ==
  ASSUME IInv, NEW c \in Callers, pc[c] \in {"out", "loop"}, ~closed, Pass(c), Wait(c)
  PROVE  IInv'
<1> DEFINE R == Recyclable
<1>1. Kept(R) /\ UNCHANGED <<replacing, closed, awaited, drained>> /\ ~drained
  BY PassRetires
<1>2. /\ pc' = [pc EXCEPT ![c] = "waiting"] /\ at' = [at EXCEPT ![c] = None]
      /\ proc' = Closing(R) /\ used' = used /\ inUse' = inUse
      /\ Roomy = {} /\ Launching = {}
      /\ Len(browsers) - Cardinality(R) >= MaxBrowsers
  BY DEF Wait, Goto
<1>3. /\ proc' \in [Procs -> States] /\ Pooled \subseteq Procs /\ None \notin Procs
      /\ Launching' = {} /\ at[c] = None
      /\ \A b \in Procs : proc'[b] \in {"up", "dead"} <=> proc[b] \in {"up", "dead"} /\ b \notin R
      /\ \A b \in Pooled \ R : proc'[b] = proc[b] /\ ~retired'[b]
  BY <1>2, PassRetires DEF Launching
<1>4. R \subseteq Pooled
  BY RecyclableSpent
<1>5. \A b \in Pooled \ R : used[b] >= MaxPages /\ inUse[b] # {}
  <2>1. \A b \in Pooled : ~HasRoom(b) /\ (Spent(b) => b \in R)
    BY <1>2 DEF Roomy, Recyclable, Pooled
  <2>2. \A b \in Pooled : b \in Procs /\ ~retired[b] /\ used[b] \in Nat
    BY <1>3 DEF IInv, PooledRun, Shape
  <2> QED
    BY <2>1, <2>2, BoundsAssumption DEF HasRoom, Spent
<1> HIDE DEF R
<1>6. /\ Pooled' = Pooled \ R /\ \A b \in Procs : retired'[b] <=> retired[b] \/ b \in R
      /\ Len(browsers') = Len(browsers) - Cardinality(R) /\ Len(browsers') <= Len(browsers)
  BY <1>1, <1>4 DEF Kept
<1>7. Shape'
  BY <1>1, <1>2, <1>3 DEF IInv, Shape, Kept, Places
<1>8. PooledRun'
  BY <1>1, <1>3, <1>6 DEF IInv, PooledRun
<1>9. OneLaunch'
  BY <1>3 DEF OneLaunch
<1>10. PagesOfPooled'
  BY <1>1, <1>2, <1>3, <1>6 DEF IInv, PagesOfPooled, Shape
<1>11. Reserved'
  BY <1>3, <1>6, <1>7, BoundsAssumption DEF IInv, Reserved, Shape
<1>12. WaitHasWaker'
  <2>1. Len(browsers') = MaxBrowsers
    BY <1>2, <1>6, <1>7, BoundsAssumption DEF IInv, Reserved, Shape
  <2> QED
    BY <1>2, <1>5, <1>6, <2>1 DEF WaitHasWaker
<1>13. ClosedForGood'
  BY <1>1 DEF ClosedForGood
<1>14. BudgetPassed'
  <2>1. \A b \in Procs : used'[b] <= used[b] /\ OpeningAt(b)' \subseteq OpeningAt(b)
    BY <1>2 DEF OpeningAt, IInv, Shape
  <2> QED
    BY <1>7, <2>1, BudgetStep DEF IInv
<1> QED
  BY <1>7, <1>8, <1>9, <1>10, <1>11, <1>12, <1>13, <1>14 DEF IInv

LEMMA PassIInv ==
  ASSUME IInv, NEW c \in Callers, Acquire(c) \/ Loop(c)
  PROVE  IInv'
<1>1. pc[c] \in {"out", "loop"} /\ Pass(c)
  BY DEF Acquire, Loop
<1>2. CASE closed
  BY <1>1, <1>2, PassClosedIInv
<1>3. CASE ~closed
  BY <1>1, <1>3, PassRetires, OpenPageIInv, AwaitLaunchIInv, WaitIInv
<1> QED
  BY <1>2, <1>3

----------------------------------------------------------------------------
LEMMA LaunchDoneIInv ==
  ASSUME IInv, NEW b \in Procs, LaunchDone(b)
  PROVE  IInv'
<1>1. /\ ~closed /\ proc[b] = "launching"
      /\ proc' = [proc EXCEPT ![b] = "up"]
      /\ retired' = [retired EXCEPT ![b] = FALSE]
      /\ browsers' = Append(browsers, b)
      /\ pc' = Wake([c \in Callers |-> IF Joined(c, b) THEN "opening" ELSE pc[c]])
      /\ replacing' = FALSE
      /\ UNCHANGED <<used, inUse, closed, awaited, drained, at>>
  BY DEF LaunchDone
<1>2. Launching = {b} /\ used[b] = 0
  BY <1>1 DEF Launching, IInv, OneLaunch
<1>3. b \notin Pooled /\ ~drained
  BY <1>1 DEF IInv, PooledRun, ClosedForGood
<1>4. Len(browsers) \in Nat /\ DOMAIN browsers = 1 .. Len(browsers)
  BY PooledSize DEF IInv
<1>5. /\ browsers' \in Seq(Procs) /\ Len(browsers') = Len(browsers) + 1
      /\ DOMAIN browsers' = 1 .. Len(browsers) + 1
      /\ browsers'[Len(browsers) + 1] = b
      /\ \A i \in DOMAIN browsers : browsers'[i] = browsers[i]
  BY <1>1, <1>4 DEF IInv, Shape
<1>6. Pooled' = Pooled \cup {b}
  BY <1>4, <1>5 DEF Pooled
<1>7. \A i, j \in DOMAIN browsers' : browsers'[i] = browsers'[j] => i = j
  <2>1. \A i \in DOMAIN browsers : browsers[i] # b
    BY <1>3 DEF Pooled
  <2>2. \A i \in DOMAIN browsers' : i \in DOMAIN browsers \/ i = Len(browsers) + 1
    BY <1>4, <1>5
  <2> QED
    BY <1>5, <2>1, <2>2 DEF IInv, Shape
<1>8. Launching' = {}
  <2>1. \A d \in Procs : proc'[d] = "launching" => d \in Launching /\ d # b
    BY <1>1 DEF IInv, Shape, Launching
  <2> QED
    BY <1>2, <2>1 DEF Launching
<1>9. \A c \in Callers :
        /\ Joined(c, b) => pc'[c] = "opening"
        /\ ~Joined(c, b) => pc'[c] = IF pc[c] = "waiting" THEN "loop" ELSE pc[c]
  BY <1>1 DEF Wake
<1>10. pc' \in [Callers -> Places]
  BY <1>1 DEF Wake, IInv, Shape, Places
<1>11. Shape'
  BY <1>1, <1>5, <1>7, <1>10 DEF IInv, Shape, States
<1>12. PooledRun'
  BY <1>1, <1>6 DEF IInv, PooledRun, Shape
<1>13. OneLaunch'
  BY <1>8 DEF OneLaunch
<1>14. PagesOfPooled'
  <2> SUFFICES ASSUME NEW d \in Callers
               PROVE  /\ pc'[d] \in {"opening", "using"} =>
                           /\ at'[d] \in Procs
                           /\ retired'[at'[d]] \/ (~closed' /\ at'[d] \in Pooled')
                      /\ at'[d] \in Launching' => pc'[d] = "launch"
                      /\ at'[d] # None <=> pc'[d] \in {"launch", "opening", "using"}
    BY DEF PagesOfPooled
  <2>1. at'[d] = at[d] /\ closed' = closed
    BY <1>1
  <2>2. CASE Joined(d, b)
    BY <1>1, <1>6, <1>8, <1>9, <2>1, <2>2 DEF Joined, IInv, PagesOfPooled
  <2>3. CASE ~Joined(d, b)
    <3>1. pc'[d] = IF pc[d] = "waiting" THEN "loop" ELSE pc[d]
      BY <1>9, <2>3
    <3>2. pc[d] \in {"opening", "using"} => at[d] # b
      BY <1>2 DEF IInv, PagesOfPooled
    <3> QED
      BY <1>1, <1>6, <1>8, <2>1, <3>1, <3>2 DEF IInv, PagesOfPooled, Shape
  <2> QED
    BY <2>2, <2>3
<1>15. Reserved'
  BY <1>2, <1>4, <1>5, <1>8, BoundsAssumption DEF IInv, Reserved
<1>16. WaitHasWaker'
  BY <1>9 DEF WaitHasWaker
<1>17. ClosedForGood'
  BY <1>1, <1>3 DEF ClosedForGood
<1>18. BudgetPassed'
  <2>1. \A d \in Procs \ {b} : OpeningAt(d)' \subseteq OpeningAt(d)
    BY <1>1, <1>9 DEF OpeningAt, Joined
  <2>2. used'[b] < MaxPages /\ \A d \in Procs : used'[d] <= used[d]
    BY <1>1, <1>2, BoundsAssumption DEF IInv, Shape
  <2>3. \A d \in Procs : \/ used'[d] < MaxPages
                         \/ used'[d] <= used[d] /\ OpeningAt(d)' \subseteq OpeningAt(d)
    BY <2>1, <2>2
  <2> QED
    BY <1>11, <2>3, BudgetStep DEF IInv
<1> QED
  BY <1>11, <1>12, <1>13, <1>14, <1>15, <1>16, <1>17, <1>18 DEF IInv

LEMMA LaunchLateIInv ==
  ASSUME IInv, NEW b \in Procs, LaunchLate(b)
  PROVE  IInv'
<1>1. /\ closed /\ proc[b] = "launching"
      /\ proc' = [proc EXCEPT ![b] = "closing"]
      /\ UNCHANGED <<browsers, used, inUse, retired, replacing, closed, awaited, drained, pc, at>>
  BY DEF LaunchLate
<1>2. Launching = {b}
  BY <1>1 DEF Launching, IInv, OneLaunch
<1>3. Launching' = {} /\ Pooled' = Pooled
  <2>1. \A d \in Procs : proc'[d] = "launching" => d \in Launching /\ d # b
    BY <1>1 DEF IInv, Shape, Launching
  <2> QED
    BY <1>1, <1>2, <2>1 DEF Launching, Pooled
<1>4. Shape'
  BY <1>1 DEF IInv, Shape, States
<1>5. PooledRun' /\ OneLaunch' /\ Reserved'
  BY <1>1, <1>3 DEF IInv, PooledRun, OneLaunch, Reserved, Shape
<1>6. PagesOfPooled'
  BY <1>1, <1>3 DEF IInv, PagesOfPooled
<1>7. WaitHasWaker' /\ ClosedForGood'
  BY <1>1, <1>3 DEF IInv, WaitHasWaker, ClosedForGood
<1>8. BudgetPassed'
  BY <1>1 DEF IInv, BudgetPassed, OpeningAt
<1> QED
  BY <1>4, <1>5, <1>6, <1>7, <1>8 DEF IInv

\* Callers of a browser that is not to be leave: nobody has or opens a page of it.
LEMMA LaunchFailsIInv ==
  ASSUME IInv, NEW b \in Procs, LaunchFails(b)
  PROVE  IInv'
<1> DEFINE after == [c \in Callers |-> IF Joined(c, b)
                                       THEN IF browsers = <<>> THEN "out" ELSE "loop"
                                       ELSE pc[c]]
<1>1. /\ proc[b] = "launching"
      /\ proc' = [proc EXCEPT ![b] = "none"]
      /\ pc' = IF replacing THEN Wake(after) ELSE after
      /\ at' = [c \in Callers |-> IF Joined(c, b) THEN None ELSE at[c]]
      /\ replacing' = FALSE
      /\ UNCHANGED <<browsers, used, inUse, retired, closed, awaited, drained>>
  BY DEF LaunchFails
<1>2. (Launching = {b} /\ b \notin Pooled) \/ closed
  BY <1>1 DEF Launching, IInv, OneLaunch, PooledRun
<1>3. Launching' = {} /\ Pooled' = Pooled
  <2>1. \A d \in Procs : proc'[d] = "launching" => d \in Launching /\ d # b
    BY <1>1 DEF IInv, Shape, Launching
  <2>2. Launching = {b}
    BY <1>1 DEF Launching, IInv, OneLaunch
  <2> QED
    BY <1>1, <2>1, <2>2 DEF Launching, Pooled
<1>4. \A c \in Callers :
        /\ Joined(c, b) => pc'[c] \in {"out", "loop"} /\ at'[c] = None
        /\ ~Joined(c, b) => /\ pc'[c] = pc[c] \/ (pc[c] = "waiting" /\ pc'[c] = "loop")
                            /\ at'[c] = at[c]
  BY <1>1 DEF Wake
<1>5. pc' \in [Callers -> Places]
  BY <1>1 DEF Wake, IInv, Shape, Places
<1>6. Shape'
  BY <1>1, <1>5 DEF IInv, Shape, States
<1>7. PooledRun' /\ OneLaunch' /\ Reserved'
  BY <1>1, <1>2, <1>3 DEF IInv, PooledRun, OneLaunch, Reserved, Shape
<1>8. None \notin Procs
  BY BoundsAssumption DEF Procs
<1>9. PagesOfPooled'
  BY <1>1, <1>3, <1>4, <1>8 DEF IInv, PagesOfPooled
<1>10. WaitHasWaker' /\ ClosedForGood'
  BY <1>1, <1>3, <1>4 DEF IInv, WaitHasWaker, ClosedForGood
<1>11. \A d \in Procs : used'[d] <= used[d]
  BY <1>1 DEF IInv, Shape
<1>12. BudgetPassed'
  <2>1. \A d \in Procs : OpeningAt(d)' \subseteq OpeningAt(d)
    BY <1>4 DEF OpeningAt
  <2> QED
    BY <1>6, <1>11, <2>1, BudgetStep DEF IInv
<1> QED
  BY <1>6, <1>7, <1>9, <1>10, <1>12 DEF IInv

LEMMA CloseEndsIInv ==
  ASSUME IInv, NEW b \in Procs, CloseEnds(b)
  PROVE  IInv'
<1> DEFINE gone == [proc EXCEPT ![b] = "none"]
<1>1. /\ proc[b] = "closing"
      /\ pc' = [c \in Callers |-> IF Joined(c, b) THEN "out" ELSE pc[c]]
      /\ at' = [c \in Callers |-> IF Joined(c, b) THEN None ELSE at[c]]
      /\ UNCHANGED <<browsers, retired, closed, awaited, drained>>
  BY DEF CloseEnds
<1>2. \/ ~closed /\ Len(browsers) < MaxBrowsers /\ JoinOrLaunch(gone) /\ replacing' = TRUE
      \/ proc' = gone /\ UNCHANGED <<used, inUse, replacing>>
  BY DEF CloseEnds
<1>3. /\ gone \in [Procs -> States]
      /\ \A d \in Procs : gone[d] = "launching" <=> proc[d] = "launching"
      /\ \A d \in Procs : gone[d] = IF d = b THEN "none" ELSE proc[d]
  BY <1>1 DEF IInv, Shape, States
<1> HIDE DEF gone
<1>4. Pooled' = Pooled /\ None \notin Procs
  BY <1>1, BoundsAssumption DEF Pooled, Procs
<1>5. \A c \in Callers :
        /\ Joined(c, b) => pc'[c] = "out" /\ at'[c] = None
        /\ ~Joined(c, b) => pc'[c] = pc[c] /\ at'[c] = at[c]
  BY <1>1
<1>6. pc' \in [Callers -> Places] /\ at' \in [Callers -> Procs \cup {None}]
  BY <1>1 DEF IInv, Shape, Places
<1>7. \A d \in Procs : OpeningAt(d)' \subseteq OpeningAt(d)
  BY <1>5 DEF OpeningAt
<1>8. CASE ~closed /\ Len(browsers) < MaxBrowsers /\ JoinOrLaunch(gone) /\ replacing' = TRUE
  <2>1. PICK e \in Procs :
          /\ proc' = [gone EXCEPT ![e] = "launching"]
          /\ proc' \in [Procs -> States] /\ Launching' = {e}
          /\ used' \in [Procs -> Nat] /\ used'[e] = 0
          /\ inUse' \in [Procs -> SUBSET Callers]
          /\ \A d \in Procs \ {e} : used'[d] = used[d] /\ inUse'[d] = inUse[d]
          /\ \/ Launching = {e} /\ used' = used /\ inUse' = inUse
             \/ Launching = {} /\ Fresh(e)
    BY <1>3, <1>8, LaunchStarts
  <2>2. e \notin Pooled /\ \A d \in Callers : at[d] = e => pc[d] = "launch"
    BY <2>1, <1>8 DEF Launching, Fresh, IInv, PooledRun, PagesOfPooled
  <2>3. \A d \in Procs : proc'[d] = IF d = e THEN "launching" ELSE IF d = b THEN "none" ELSE proc[d]
    BY <1>3, <2>1
  <2>4. Shape'
    BY <1>1, <1>6, <1>8, <2>1 DEF IInv, Shape
  <2>5. PooledRun'
    <3>1. Pooled \subseteq Procs
      BY PooledSize DEF IInv
    <3> QED
      BY <1>1, <1>4, <1>8, <2>2, <2>3, <3>1 DEF IInv, PooledRun
  <2>6. OneLaunch' /\ Reserved'
    BY <1>1, <1>8, <2>1, BoundsAssumption DEF OneLaunch, IInv, Reserved
  <2>7. PagesOfPooled'
    BY <1>1, <1>4, <1>5, <2>1, <2>2 DEF IInv, PagesOfPooled
  <2>8. \A d \in Callers : pc[d] # "waiting"
    BY <1>8, BoundsAssumption, WaitersStuck
  <2>9. WaitHasWaker' /\ ClosedForGood'
    BY <1>1, <1>5, <1>8, <2>8 DEF IInv, WaitHasWaker, ClosedForGood
  <2>10. \A d \in Procs : \/ used'[d] < MaxPages
                          \/ used'[d] <= used[d] /\ OpeningAt(d)' \subseteq OpeningAt(d)
    BY <1>7, <2>1, BoundsAssumption DEF IInv, Shape
  <2>11. BudgetPassed'
    BY <2>4, <2>10, BudgetStep DEF IInv
  <2> QED
    BY <2>4, <2>5, <2>6, <2>7, <2>9, <2>11 DEF IInv
<1>9. CASE proc' = gone /\ UNCHANGED <<used, inUse, replacing>>
  <2>1. Launching' = Launching
    BY <1>3, <1>9 DEF Launching
  <2>2. Shape'
    BY <1>1, <1>3, <1>6, <1>9 DEF IInv, Shape
  <2>3. PooledRun' /\ OneLaunch' /\ Reserved'
    <3>1. Pooled \subseteq Procs
      BY PooledSize DEF IInv
    <3> QED
      BY <1>1, <1>3, <1>4, <1>9, <2>1, <3>1 DEF IInv, PooledRun, OneLaunch, Reserved
  <2>4. PagesOfPooled'
    BY <1>1, <1>4, <1>5, <2>1 DEF IInv, PagesOfPooled, Launching
  <2>5. WaitHasWaker' /\ ClosedForGood'
    BY <1>1, <1>4, <1>5, <1>9, <2>1 DEF IInv, WaitHasWaker, ClosedForGood
  <2>6. \A d \in Procs : used'[d] <= used[d]
    BY <1>9 DEF IInv, Shape
  <2>7. BudgetPassed'
    BY <1>7, <2>2, <2>6, BudgetStep DEF IInv
  <2> QED
    BY <2>2, <2>3, <2>4, <2>5, <2>7 DEF IInv
<1> QED
  BY <1>2, <1>8, <1>9

----------------------------------------------------------------------------
\* The page that opens is counted where it was announced: the sum stays as it was.
LEMMA OpenDoneIInv ==
  ASSUME IInv, NEW c \in Callers, OpenDone(c)
  PROVE  IInv'
<1> DEFINE e == at[c]
<1>1. /\ pc[c] = "opening" /\ proc[e] \in {"up", "closing"}
      /\ used' = [used EXCEPT ![e] = @ + 1]
      /\ inUse' = [inUse EXCEPT ![e] = @ \cup {c}]
      /\ pc' = [pc EXCEPT ![c] = "using"]
      /\ UNCHANGED <<browsers, proc, retired, replacing, closed, awaited, drained, at>>
  BY DEF OpenDone
<1>2. e \in Procs
  BY <1>1 DEF IInv, PagesOfPooled
<1> HIDE DEF e
<1>3. Pooled' = Pooled /\ Launching' = Launching
  BY <1>1 DEF Pooled, Launching
<1>4. Shape'
  BY <1>1, <1>2 DEF IInv, Shape, Places
<1>5. PooledRun' /\ Reserved' /\ ClosedForGood'
  BY <1>1, <1>3 DEF IInv, PooledRun, Reserved, ClosedForGood, Shape
<1>6. OneLaunch'
  BY <1>1, <1>3 DEF IInv, OneLaunch, Shape, Launching
<1>7. PagesOfPooled'
  BY <1>1, <1>3 DEF IInv, PagesOfPooled, Shape
<1>8. WaitHasWaker'
  <2>1. Pooled \subseteq Procs
    BY PooledSize DEF IInv
  <2>2. \A b \in Procs : used'[b] >= used[b] /\ inUse[b] \subseteq inUse'[b]
    BY <1>1, <1>2 DEF IInv, Shape
  <2>3. \A b \in Procs : used[b] \in Nat /\ used'[b] \in Nat
    BY <1>4 DEF IInv, Shape
  <2>4. \A b \in Pooled : used[b] >= MaxPages /\ inUse[b] # {} =>
                            used'[b] >= MaxPages /\ inUse'[b] # {}
    BY <2>1, <2>2, <2>3, BoundsAssumption
  <2>5. \A d \in Callers : pc'[d] = "waiting" => pc[d] = "waiting"
    BY <1>1 DEF IInv, Shape
  <2> QED
    BY <1>1, <1>3, <2>4, <2>5 DEF IInv, WaitHasWaker
<1>9. BudgetPassed'
  <2> SUFFICES ASSUME NEW b \in Procs
               PROVE  used'[b] + Cardinality(OpeningAt(b)') <= MaxPages - 1 + Cardinality(Callers)
    BY DEF BudgetPassed
  <2>1. used[b] + Cardinality(OpeningAt(b)) <= MaxPages - 1 + Cardinality(Callers)
    BY DEF IInv, BudgetPassed
  <2>2. CASE b = e
    <3>1. OpeningAt(b)' = OpeningAt(b) \ {c} /\ c \in OpeningAt(b)
      BY <1>1, <2>2 DEF OpeningAt, IInv, Shape, e
    <3>2. /\ IsFiniteSet(OpeningAt(b)) /\ Cardinality(OpeningAt(b)) \in Nat
          /\ Cardinality(Callers) \in Nat
      BY OpeningSize
    <3>3. Cardinality(OpeningAt(b)') = Cardinality(OpeningAt(b)) - 1
      BY <3>1, <3>2, FS_RemoveElement
    <3>4. used'[b] = used[b] + 1 /\ used[b] \in Nat
      BY <1>1, <2>2 DEF IInv, Shape
    <3> QED
      BY <2>1, <3>2, <3>3, <3>4, BoundsAssumption
  <2>3. CASE b # e
    <3>1. OpeningAt(b)' = OpeningAt(b) /\ used'[b] = used[b]
      BY <1>1, <2>3 DEF OpeningAt, IInv, Shape, e
    <3> QED
      BY <2>1, <3>1
  <2> QED
    BY <2>2, <2>3
<1> QED
  BY <1>4, <1>5, <1>6, <1>7, <1>8, <1>9 DEF IInv

\* A caller that leaves without a page.
LEMMA LeaveIInv ==
  ASSUME IInv, NEW c \in Callers, pc[c] \in {"opening", "crashed"}, Goto(c, "out", None),
         UNCHANGED <<pool, closed, awaited, drained>>
  PROVE  IInv'
<1>1. /\ pc' = [pc EXCEPT ![c] = "out"] /\ at' = [at EXCEPT ![c] = None]
      /\ UNCHANGED <<browsers, proc, used, inUse, retired, replacing, closed, awaited, drained>>
  BY DEF Goto, pool
<1>2. Shape'
  BY <1>1 DEF IInv, Shape, Places
<1>3. Pooled' = Pooled /\ Launching' = Launching
  BY <1>1 DEF Pooled, Launching
<1>4. PooledRun' /\ OneLaunch' /\ Reserved'
  BY <1>1, <1>3 DEF IInv, PooledRun, OneLaunch, Reserved
<1>5. None \notin Procs
  BY BoundsAssumption DEF Procs
<1>6. PagesOfPooled'
  BY <1>1, <1>3, <1>5 DEF IInv, PagesOfPooled, Shape, Launching
<1>7. WaitHasWaker' /\ ClosedForGood'
  BY <1>1, <1>3 DEF IInv, WaitHasWaker, ClosedForGood, Shape
<1>8. \A b \in Procs : OpeningAt(b)' \subseteq OpeningAt(b)
  BY <1>1 DEF OpeningAt, IInv, Shape
<1>9. \A b \in Procs : used'[b] <= used[b]
  BY <1>1 DEF IInv, Shape
<1>10. BudgetPassed'
  BY <1>2, <1>8, <1>9, BudgetStep DEF IInv
<1> QED
  BY <1>2, <1>4, <1>6, <1>7, <1>10 DEF IInv

\* A page that is given back: a browser of which it was the last page may be recycled.
LEMMA GiveBackIInv ==
  ASSUME IInv, NEW c \in Callers, pc[c] = "using",
         NEW recycles \in BOOLEAN, GiveBack(c, recycles),
         NEW l \in {"out", "crashed"}, pc' = Wake([pc EXCEPT ![c] = l]),
         at' = [at EXCEPT ![c] = None]
  PROVE  IInv'
<1> DEFINE b == at[c]
           bs == IF inUse[b] \subseteq {c} /\ recycles /\ ~retired[b] THEN {b} ELSE {}
<1>1. /\ inUse' = [inUse EXCEPT ![b] = @ \ {c}]
      /\ Retire(bs) /\ proc' = Closing(bs)
      /\ UNCHANGED <<used, replacing, closed, awaited, drained>>
  BY DEF GiveBack
<1>2. b \in Procs /\ (retired[b] \/ (~closed /\ b \in Pooled))
  BY DEF IInv, PagesOfPooled
<1>3. bs \subseteq Pooled /\ (bs # {} => ~closed)
  BY <1>2
<1> HIDE DEF b, bs
<1>4. Kept(bs)
  BY <1>1, RetireKeeps DEF IInv
<1>5. /\ Pooled' = Pooled \ bs /\ \A d \in Procs : retired'[d] <=> retired[d] \/ d \in bs
      /\ Len(browsers') <= Len(browsers)
  BY <1>4 DEF Kept
<1>6. /\ proc' \in [Procs -> States]
      /\ \A d \in Procs : proc'[d] = "launching" <=> proc[d] = "launching"
      /\ \A d \in Procs : d \notin bs => proc'[d] = proc[d]
      /\ \A d \in bs : d \in Procs => proc'[d] = "closing"
  <2>1. \A d \in bs : d \in Procs => proc[d] \in {"up", "dead"}
    BY <1>3 DEF IInv, PooledRun
  <2> QED
    BY <1>1, <2>1 DEF Closing, States, IInv, Shape
<1>7. Launching' = Launching /\ Pooled \subseteq Procs /\ None \notin Procs
  BY <1>6, PooledSize, BoundsAssumption DEF Launching, IInv, Procs
<1>8. \A d \in Callers :
        /\ d = c => pc'[d] = l /\ at'[d] = None
        /\ d # c => /\ pc'[d] = IF pc[d] = "waiting" THEN "loop" ELSE pc[d]
                    /\ at'[d] = at[d]
  BY DEF Wake, IInv, Shape
<1>9. pc' \in [Callers -> Places]
  BY DEF Wake, IInv, Shape, Places
<1>10. Shape'
  BY <1>1, <1>2, <1>4, <1>6, <1>9 DEF IInv, Shape, Kept
<1>11. PooledRun'
  BY <1>1, <1>3, <1>5, <1>6, <1>7 DEF IInv, PooledRun
<1>12. OneLaunch'
  BY <1>1, <1>7 DEF IInv, OneLaunch
<1>13. PagesOfPooled'
  <2> SUFFICES ASSUME NEW d \in Callers
               PROVE  /\ pc'[d] \in {"opening", "using"} =>
                           /\ at'[d] \in Procs
                           /\ retired'[at'[d]] \/ (~closed' /\ at'[d] \in Pooled')
                      /\ at'[d] \in Launching' => pc'[d] = "launch"
                      /\ at'[d] # None <=> pc'[d] \in {"launch", "opening", "using"}
    BY DEF PagesOfPooled
  <2>1. CASE d = c
    BY <1>7, <1>8, <2>1 DEF Launching
  <2>2. CASE d # c
    <3>1. /\ pc[d] \in {"opening", "using"} =>
               at[d] \in Procs /\ (retired[at[d]] \/ (~closed /\ at[d] \in Pooled))
          /\ at[d] \in Launching => pc[d] = "launch"
          /\ at[d] # None <=> pc[d] \in {"launch", "opening", "using"}
      BY DEF IInv, PagesOfPooled
    <3>2. at'[d] = at[d] /\ pc'[d] = IF pc[d] = "waiting" THEN "loop" ELSE pc[d]
      BY <1>8, <2>2
    <3> QED
      BY <1>1, <1>5, <1>7, <3>1, <3>2
  <2> QED
    BY <2>1, <2>2
<1>14. Reserved'
  BY <1>5, <1>7, <1>10, BoundsAssumption DEF IInv, Reserved, Shape
<1>15. WaitHasWaker'
  BY <1>8 DEF WaitHasWaker
<1>16. ClosedForGood'
  BY <1>1, <1>7, <1>8 DEF IInv, ClosedForGood
<1>17. BudgetPassed'
  <2>1. \A d \in Procs : OpeningAt(d)' \subseteq OpeningAt(d)
    BY <1>8 DEF OpeningAt
  <2>2. \A d \in Procs : used'[d] <= used[d]
    BY <1>1 DEF IInv, Shape
  <2> QED
    BY <1>10, <2>1, <2>2, BudgetStep DEF IInv
<1> QED
  BY <1>10, <1>11, <1>12, <1>13, <1>14, <1>15, <1>16, <1>17 DEF IInv

LEMMA BrowserDiesIInv ==
  ASSUME IInv, NEW b \in Procs, BrowserDies(b)
  PROVE  IInv'
<1>1. /\ proc[b] = "up" /\ proc' = [proc EXCEPT ![b] = "dead"]
      /\ UNCHANGED <<browsers, used, inUse, retired, replacing, closed, awaited, drained, pc, at>>
  BY DEF BrowserDies
<1>2. Shape'
  BY <1>1 DEF IInv, Shape, States
<1>3. Pooled' = Pooled
  BY <1>1 DEF Pooled
<1>4. Launching' = Launching
  BY <1>1 DEF Launching, IInv, Shape
<1>5. PooledRun'
  BY <1>1, <1>3 DEF IInv, PooledRun, Shape
<1>6. OneLaunch' /\ PagesOfPooled' /\ Reserved' /\ WaitHasWaker' /\ ClosedForGood'
  BY <1>1, <1>3, <1>4
  DEF IInv, OneLaunch, PagesOfPooled, Reserved, WaitHasWaker, ClosedForGood
<1>7. BudgetPassed'
  BY <1>1 DEF IInv, BudgetPassed, OpeningAt
<1> QED
  BY <1>2, <1>5, <1>6, <1>7 DEF IInv

LEMMA DrainIInv ==
  ASSUME IInv, Drain
  PROVE  IInv'
<1>1. /\ ~closed /\ closed' = TRUE
      /\ awaited' = Pooled \cup Launching
      /\ retired' = [b \in Procs |-> retired[b] \/ b \in Pooled]
      /\ proc' = Closing(Pooled)
      /\ pc' = Wake(pc)
      /\ UNCHANGED <<browsers, used, inUse, replacing, drained, at>>
  BY DEF Drain
<1>2. Pooled \subseteq Procs /\ Pooled' = Pooled
  BY <1>1, PooledSize DEF IInv, Pooled
<1>3. \A b \in Procs : proc'[b] = IF b \in Pooled THEN "closing" ELSE proc[b]
  BY <1>1 DEF Closing
<1>4. Launching' = Launching
  BY <1>1, <1>3 DEF Launching, IInv, PooledRun
<1>5. \A c \in Callers : pc'[c] = IF pc[c] = "waiting" THEN "loop" ELSE pc[c]
  BY <1>1 DEF Wake
<1>6. pc' \in [Callers -> Places]
  BY <1>1 DEF Wake, IInv, Shape, Places
<1>7. proc' \in [Procs -> States] /\ awaited' \subseteq Procs
  BY <1>1, <1>2 DEF Closing, States, IInv, Shape, Launching
<1>8. Shape'
  BY <1>1, <1>6, <1>7 DEF IInv, Shape
<1>9. PooledRun'
  BY <1>1, <1>2, <1>3 DEF IInv, PooledRun
<1>10. OneLaunch' /\ Reserved'
  BY <1>1, <1>4 DEF IInv, OneLaunch, Reserved
<1>11. PagesOfPooled'
  BY <1>1, <1>2, <1>4, <1>5 DEF IInv, PagesOfPooled
<1>12. WaitHasWaker'
  BY <1>5 DEF WaitHasWaker
<1>13. ClosedForGood'
  BY <1>1, <1>4, <1>5 DEF IInv, ClosedForGood
<1>14. BudgetPassed'
  <2>1. \A d \in Procs : OpeningAt(d)' \subseteq OpeningAt(d)
    BY <1>1, <1>5 DEF OpeningAt
  <2>2. \A d \in Procs : used'[d] <= used[d]
    BY <1>1 DEF IInv, Shape
  <2> QED
    BY <1>8, <2>1, <2>2, BudgetStep DEF IInv
<1> QED
  BY <1>8, <1>9, <1>10, <1>11, <1>12, <1>13, <1>14 DEF IInv

LEMMA DrainEndsIInv ==
  ASSUME IInv, DrainEnds
  PROVE  IInv'
<1>1. /\ closed /\ browsers' = <<>> /\ drained' = TRUE
      /\ \A b \in awaited : proc[b] = "none"
      /\ UNCHANGED <<proc, used, inUse, retired, replacing, closed, awaited, pc, at>>
  BY DEF DrainEnds
<1>2. Pooled' = {} /\ Len(browsers') = 0
  BY <1>1 DEF Pooled
<1>3. Launching = {} /\ Launching' = {}
  BY <1>1 DEF IInv, ClosedForGood, Launching
<1>4. Shape'
  <2>1. browsers' \in Seq(Procs) /\ DOMAIN browsers' = {}
    BY <1>1
  <2> QED
    BY <1>1, <2>1 DEF IInv, Shape
<1>5. PooledRun'
  BY <1>1, <1>2 DEF IInv, PooledRun
<1>6. OneLaunch' /\ Reserved'
  BY <1>2, <1>3, BoundsAssumption DEF OneLaunch, Reserved
<1>7. PagesOfPooled'
  BY <1>1, <1>3 DEF IInv, PagesOfPooled
<1>8. WaitHasWaker' /\ ClosedForGood'
  BY <1>1, <1>3 DEF IInv, WaitHasWaker, ClosedForGood
<1>9. BudgetPassed'
  BY <1>1 DEF IInv, BudgetPassed, OpeningAt
<1> QED
  BY <1>4, <1>5, <1>6, <1>7, <1>8, <1>9 DEF IInv

LEMMA StutterIInv ==
  ASSUME IInv, UNCHANGED vars
  PROVE  IInv'
<1>1. UNCHANGED <<browsers, proc, used, inUse, retired, replacing, closed, awaited, drained, pc, at>>
  BY DEF vars
<1>2. Pooled' = Pooled /\ Launching' = Launching
  BY <1>1 DEF Pooled, Launching
<1> QED
  BY <1>1, <1>2
  DEF IInv, Shape, PooledRun, OneLaunch, PagesOfPooled, Reserved, WaitHasWaker, ClosedForGood,
      BudgetPassed, OpeningAt

LEMMA StepIInv == IInv /\ [Next]_vars => IInv'
<1> SUFFICES ASSUME IInv, [Next]_vars PROVE IInv'
  OBVIOUS
<1>1. CASE UNCHANGED vars
  BY <1>1, StutterIInv
<1>2. ASSUME NEW c \in Callers, Acquire(c) \/ Loop(c) PROVE IInv'
  BY <1>2, PassIInv
<1>3. ASSUME NEW c \in Callers, Opened(c) PROVE IInv'
  <2>1. CASE OpenDone(c)
    BY <2>1, OpenDoneIInv
  <2>2. CASE OpenFails(c)
    BY <2>2, LeaveIInv DEF OpenFails
  <2> QED
    BY <1>3, <2>1, <2>2 DEF Opened
<1>4. ASSUME NEW c \in Callers, Release(c) PROVE IInv'
  <2> DEFINE r == used[at[c]] >= MaxPages
  <2>1. /\ pc[c] = "using" /\ GiveBack(c, r) /\ pc' = Wake([pc EXCEPT ![c] = "out"])
        /\ at' = [at EXCEPT ![c] = None] /\ r \in BOOLEAN
    BY <1>4 DEF Release
  <2> HIDE DEF r
  <2> QED
    BY <2>1, GiveBackIInv
<1>5. ASSUME NEW c \in Callers, PageCrashes(c) PROVE IInv'
  BY <1>5, GiveBackIInv DEF PageCrashes
<1>6. ASSUME NEW c \in Callers, ReleaseAgain(c) PROVE IInv'
  BY <1>6, LeaveIInv DEF ReleaseAgain
<1>7. ASSUME NEW b \in Procs, Launched(b) PROVE IInv'
  BY <1>7, LaunchDoneIInv, LaunchLateIInv, LaunchFailsIInv DEF Launched
<1>8. ASSUME NEW b \in Procs, CloseEnds(b) PROVE IInv'
  BY <1>8, CloseEndsIInv
<1>9. ASSUME NEW b \in Procs, BrowserDies(b) PROVE IInv'
  BY <1>9, BrowserDiesIInv
<1>10. CASE Drain
  BY <1>10, DrainIInv
<1>11. CASE DrainEnds
  BY <1>11, DrainEndsIInv
<1> QED
  BY <1>1, <1>2, <1>3, <1>4, <1>5, <1>6, <1>7, <1>8, <1>9, <1>10, <1>11 DEF Next

----------------------------------------------------------------------------
\* The inductive invariant holds in every reachable state of a pool of any size.
THEOREM PoolInvariance == Spec => []IInv
<1>1. Init => IInv
  BY InitIInv
<1>2. IInv /\ [Next]_vars => IInv'
  BY StepIInv
<1> QED
  BY <1>1, <1>2, PTL DEF Spec

\* The pool stays well-typed: in particular a browser serves at most one page less than its
\* budget and the number of callers together, however their openings interleave.
THEOREM PoolTyped == Spec => []TypeOK
<1>1. IInv => TypeOK
  <2> SUFFICES ASSUME IInv PROVE TypeOK
    OBVIOUS
  <2>1. used \in [Procs -> 0 .. MaxPages + Cardinality(Callers) - 1]
    <3>1. \A b \in Procs : used[b] \in 0 .. MaxPages + Cardinality(Callers) - 1
      <4> TAKE b \in Procs
      <4>1. /\ Cardinality(OpeningAt(b)) \in Nat /\ Cardinality(Callers) \in Nat
            /\ used[b] \in Nat /\ MaxPages \in Nat
            /\ used[b] + Cardinality(OpeningAt(b)) <= MaxPages - 1 + Cardinality(Callers)
        BY OpeningSize, BoundsAssumption DEF IInv, Shape, BudgetPassed
      <4> QED
        BY <4>1
    <3> QED
      BY <3>1 DEF IInv, Shape
  <2> QED
    BY <2>1 DEF TypeOK, IInv, Shape, States, Places
<1> QED
  BY <1>1, PoolInvariance, PTL

\* A pass recycles browsers without pages, and opens none at them.
LEMMA PassRetiresEmpty ==
  ASSUME IInv, NEW c \in Callers, Acquire(c) \/ Loop(c),
         NEW b \in Procs, ~retired[b], retired'[b]
  PROVE  inUse'[b] = {}
<1>1. pc[c] \in {"out", "loop"} /\ Pass(c)
  BY DEF Acquire, Loop
<1>2. ~closed
  BY <1>1 DEF Pass
<1>3. Kept(Recyclable) /\ (OpenPage(c) \/ AwaitLaunch(c) \/ Wait(c))
  BY <1>1, <1>2, PassRetires
<1>4. b \in Recyclable
  BY <1>3 DEF Kept
<1>5. b \in Pooled /\ inUse[b] = {}
  BY <1>4, RecyclableSpent DEF Spent
<1>6. CASE UNCHANGED inUse
  BY <1>5, <1>6
<1>7. CASE AwaitLaunch(c)
  <2>1. JoinOrLaunch(Closing(Recyclable))
    BY <1>7 DEF AwaitLaunch
  <2>2. /\ Closing(Recyclable) \in [Procs -> States]
        /\ \A d \in Procs : Closing(Recyclable)[d] = "launching" <=> proc[d] = "launching"
    BY <1>1, <1>2, PassRetires
  <2>3. \E e \in Procs :
          /\ \A d \in Procs \ {e} : used'[d] = used[d] /\ inUse'[d] = inUse[d]
          /\ (Launching = {e} /\ used' = used /\ inUse' = inUse) \/ (Launching = {} /\ Fresh(e))
    BY <2>1, <2>2, LaunchStarts
  <2> QED
    BY <1>5, <2>3 DEF Fresh
<1> QED
  BY <1>3, <1>6, <1>7 DEF OpenPage, Wait

\* The page that is given back was the last one of a browser that is recycled for it.
LEMMA GiveBackRetiresEmpty ==
  ASSUME IInv, NEW c \in Callers, NEW recycles \in BOOLEAN, GiveBack(c, recycles),
         NEW b \in Procs, ~retired[b], retired'[b]
  PROVE  inUse'[b] = {}
<1> DEFINE bs == IF inUse[at[c]] \subseteq {c} /\ recycles /\ ~retired[at[c]]
                 THEN {at[c]} ELSE {}
<1>1. Retire(bs) /\ inUse' = [inUse EXCEPT ![at[c]] = @ \ {c}]
  BY DEF GiveBack
<1>2. b \in bs
  BY <1>1 DEF Retire
<1>3. b = at[c] /\ inUse[b] \subseteq {c}
  BY <1>2
<1> QED
  BY <1>1, <1>3 DEF IInv, Shape

LEMMA StepRetiresEmpty ==
  ASSUME IInv, [Next]_vars, NEW b \in Procs, ~retired[b], retired'[b], ~closed'
  PROVE  inUse'[b] = {}
<1>1. ASSUME NEW c \in Callers, Acquire(c) \/ Loop(c) PROVE inUse'[b] = {}
  BY <1>1, PassRetiresEmpty
<1>2. ASSUME NEW c \in Callers, Release(c) PROVE inUse'[b] = {}
  <2> DEFINE r == used[at[c]] >= MaxPages
  <2>1. GiveBack(c, r) /\ r \in BOOLEAN
    BY <1>2 DEF Release
  <2> HIDE DEF r
  <2> QED
    BY <2>1, GiveBackRetiresEmpty
<1>3. ASSUME NEW c \in Callers, PageCrashes(c) PROVE inUse'[b] = {}
  BY <1>3, GiveBackRetiresEmpty DEF PageCrashes
<1>4. ASSUME NEW d \in Procs, LaunchDone(d) PROVE FALSE
  BY <1>4 DEF LaunchDone, IInv, Shape
<1>5. ASSUME UNCHANGED retired PROVE FALSE
  BY <1>5
<1>6. ASSUME NEW c \in Callers, Opened(c) \/ ReleaseAgain(c) PROVE FALSE
  BY <1>6 DEF Opened, OpenDone, OpenFails, ReleaseAgain, pool
<1>7. ASSUME NEW d \in Procs, LaunchLate(d) \/ LaunchFails(d) \/ CloseEnds(d) \/ BrowserDies(d)
      PROVE  FALSE
  BY <1>7 DEF LaunchLate, LaunchFails, CloseEnds, BrowserDies
<1>8. CASE Drain
  BY <1>8 DEF Drain
<1> QED
  BY <1>1, <1>2, <1>3, <1>4, <1>5, <1>6, <1>7, <1>8 DEF Next, Launched, DrainEnds, vars

\* PoolKept, for every number of callers and browsers: the list and the launch in flight
\* together stay within maxBrowsers, whoever waits has somebody to wake it, recycling closes
\* no browser with a page in use, and drain() leaves none behind.
THEOREM PoolKeeps == Spec => PoolKept
<1>1. IInv => CapHeld
  <2> SUFFICES ASSUME IInv PROVE CapHeld
    OBVIOUS
  <2>1. Len(browsers) \in Nat /\ MaxBrowsers \in Nat
    BY PooledSize, BoundsAssumption DEF IInv
  <2>2. CASE Launching = {}
    BY <2>1, <2>2, FS_EmptySet DEF CapHeld, IInv, Reserved
  <2>3. CASE Launching # {}
    <3>1. PICK b \in Procs : Launching = {b}
      BY <2>3 DEF IInv, OneLaunch, Launching
    <3>2. Cardinality(Launching) = 1
      BY <3>1, FS_Singleton
    <3> QED
      BY <2>1, <2>3, <3>2 DEF CapHeld, IInv, Reserved
  <2> QED
    BY <2>2, <2>3
<1>2. IInv => WaitHasWaker
  BY DEF IInv
<1>3. IInv => DrainComplete
  BY DEF IInv, ClosedForGood, PooledRun, DrainComplete, Launching
<1>4. IInv /\ [Next]_vars =>
        [\A b \in Procs : (~retired[b] /\ retired'[b] /\ ~closed') => inUse'[b] = {}]_vars
  BY StepRetiresEmpty
<1>5. Spec => []CapHeld
  BY <1>1, PoolInvariance, PTL
<1>6. Spec => []WaitHasWaker
  BY <1>2, PoolInvariance, PTL
<1>7. Spec => []DrainComplete
  BY <1>3, PoolInvariance, PTL
<1>8. Spec => CheckedOutKept
  BY <1>4, PoolInvariance, PTL DEF Spec, CheckedOutKept
<1> QED
  BY <1>5, <1>6, <1>7, <1>8 DEF PoolKept
=============================================================================
