----------------------- MODULE PositionLifecycle_proofs -----------------------
(***************************************************************************)
(* Theorems about PositionLifecycle, for every ladder, plan and chart.     *)
(* A bar is: fills and expiry, then management of the open legs, then the  *)
(* time exit.  The last two phases are related to what they start from by  *)
(* Managed, which composes; the filling phase is the only one that moves a *)
(* leg's price or fill time, and is treated leg by leg.                    *)
(* Earned, the invariant of the exits, relates each leg's stops and status *)
(* to the best price printed since a bar after its fill.                   *)
(***************************************************************************)
EXTENDS PositionLifecycle, FiniteSetTheorems, WellFoundedInduction, TLAPS

-----------------------------------------------------------------------------
(* The parts of the inductive invariant                                    *)

\* A trailing open that has armed remembers its extreme.
Armed(e) == e.touchedAt # NoTime => e.extreme \in Int

LegOK(e)      == e \in LegType /\ Armed(e)
PositionOK(p) == p \in PositionType /\ \A i \in Legs : Armed(p.leg[i])

\* What managing an open leg may do to it: everything but where and when it was
\* filled.  A leg that is not open is left exactly as it is.
Managed(e, f) ==
    /\ LegOK(f)
    /\ e.status # "OPEN" => f = e
    /\ e.status = "OPEN" => f.status # "PENDING"
    /\ f.planned = e.planned /\ f.price = e.price /\ f.sl = e.sl
    /\ f.fill = e.fill

\* q is p after some of the management phases of one bar.
Phase(p, q) ==
    /\ PositionOK(q)
    /\ q.firstFill = p.firstFill
    /\ \A i \in Legs : Managed(p.leg[i], q.leg[i])

-----------------------------------------------------------------------------
(* Prices                                                                  *)

\* Away, Tighter, Looser and Distance map prices to prices.
LEMMA PriceOps ==
    ASSUME NEW side, NEW a \in Int, NEW x \in Int
    PROVE  /\ Away(side, a, x) \in Int
           /\ Tighter(side, a, x) \in Int
           /\ Looser(side, a, x) \in Int
           /\ Distance(a, x) \in Nat
BY DEF Away, Tighter, Looser, Distance

\* The tightening of two levels is one of them, whatever they are.
LEMMA RatchetType ==
    ASSUME NEW side, NEW a \in Prices, NEW x \in Int
    PROVE  Ratchet(side, a, x) \in Prices
BY DEF Ratchet, Tighter, Prices

\* A bar's dip, rebound and peak are prices.
LEMMA BarPrices ==
    ASSUME NEW side, NEW b \in BarType
    PROVE  /\ Dip(side, b) \in Int /\ Rebound(side, b) \in Int /\ Peak(side, b) \in Int
           /\ b.time \in Nat /\ b.high \in Int /\ b.low \in Int /\ b.close \in Int
           /\ b.spread \in Nat /\ b.atr \in Nat
BY DEF BarType, Dip, Rebound, Peak

\* The fields of a plan that the price computations read.
LEMMA PlanFields ==
    ASSUME NEW k \in PlanType
    PROVE  /\ \A n \in 1..3 : k.tp[n] \in Int
           /\ \A i \in Legs : k.entry[i] \in Int
           /\ k.bepBuffer \in Nat /\ k.lockHalves \in 0..2 /\ k.tp2LockTarget \in 1..2
           /\ k.baseDist \in Nat /\ k.trailOpen \in Nat /\ k.trailClose \in Nat
           /\ k.lockSlip \in Nat /\ k.finalTarget \in 1..3 /\ k.maxHold \in Nat
           /\ k.delay1 \in Nat /\ k.delay2 \in Nat /\ k.bepTrigger \in Nat
           /\ k.activation \in Nat /\ k.expiry \in Nat /\ k.trailAfter \in 0..2
           /\ k.side \in {"BUY", "SELL"} /\ k.signalSl \in Int
BY DEF PlanType

\* The shared ladder stop and each leg's initial stop are prices.
LEMMA InitialStopInt ==
    ASSUME NEW k \in PlanType, NEW i \in Legs
    PROVE  SharedLevel(k) \in Int /\ InitialStop(k, i) \in Int
BY PlanFields, LegsAssumption DEF SharedLevel, InitialStop, Away

\* The stop a leg is protected by is a price in every mode of the ladder.
LEMMA EffectiveStopInt ==
    ASSUME NEW k \in PlanType, NEW p \in PositionType, NEW e \in LegType
    PROVE  EffectiveStop(k, p, e) \in Int
<1>1. e.price \in Int /\ e.sl \in Int /\ e.trail \in Int \cup {NoPrice}
  BY DEF LegType, Prices
<1>2. HalfTp1Stop(k, e) \in Int
  <2>1. Distance(k.tp[1], e.price) \in Nat
    BY <1>1, PlanFields DEF Distance
  <2>2. (Distance(k.tp[1], e.price) * k.lockHalves) \div 2 \in Int
    BY <2>1, PlanFields
  <2> QED BY <1>1, <2>2 DEF HalfTp1Stop, Away
<1>3. ScaleOutStop(k, p, e) \in Int
  BY <1>1, PlanFields DEF ScaleOutStop, Away
<1>4. HalfModeStop(k, p, e) \in Int
  <2>1. k.tp[2] \in Int /\ k.tp[k.tp2LockTarget] \in Int
    BY PlanFields
  <2>2. Away(k.side, e.price, k.bepBuffer) \in Int
    BY <1>1, PlanFields DEF Away
  <2> QED BY <1>1, <1>2, <2>1, <2>2 DEF HalfModeStop
<1>5. TpLevelStop(k, p, e) \in Int
  BY <1>1, PlanFields DEF TpLevelStop, LockLevelStop
<1>6. BaseStop(k, p, e) \in Int
  BY <1>3, <1>4, <1>5 DEF BaseStop
<1>7. TrailFolded(k, p, e) => e.trail \in Int
  BY <1>1 DEF TrailFolded
<1> QED BY <1>6, <1>7 DEF EffectiveStop, Tighter

-----------------------------------------------------------------------------
(* Managing a leg                                                          *)

\* Managed is reflexive and composes, so a bar's phases can be taken one at a time.
LEMMA ManagedCompose ==
    ASSUME NEW e, NEW f, NEW g, Managed(e, f), Managed(f, g)
    PROVE  Managed(e, g)
BY DEF Managed

LEMMA ManagedSame ==
    ASSUME NEW e, LegOK(e)
    PROVE  Managed(e, e)
BY DEF Managed

\* Closing an open leg at a price is management.
LEMMA CloseManaged ==
    ASSUME NEW e, LegOK(e), e.status = "OPEN", NEW status \in Terminal,
           NEW t \in Nat, NEW price \in Int, NEW stop \in Prices
    PROVE  Managed(e, CloseLeg(e, status, t, price, stop))
<1> DEFINE f == CloseLeg(e, status, t, price, stop)
<1>1. /\ e \in LegType
      /\ status \in Status /\ t \in Times /\ price \in Prices
  BY DEF LegOK, Status, Times, Prices
<1>2. f \in LegType
  BY <1>1 DEF CloseLeg, LegType
<1>3. f.touchedAt = e.touchedAt /\ f.extreme = e.extreme /\ f.status = status
      /\ f.planned = e.planned /\ f.price = e.price /\ f.sl = e.sl /\ f.fill = e.fill
  BY <1>1 DEF CloseLeg, LegType
<1>4. f.status # "PENDING"
  BY <1>3 DEF Terminal
<1> QED BY <1>2, <1>3, <1>4 DEF Managed, LegOK, Armed

\* A stop names a terminal status, and a locked exit is booked at a price.
LEMMA StopStatusTerminal ==
    ASSUME NEW k \in PlanType, NEW p, NEW e, NEW stop
    PROVE  StopStatus(k, p, e, stop) \in Terminal
BY PlanFields DEF StopStatus, LockStatus, Terminal

LEMMA LockedExitFillInt ==
    ASSUME NEW k \in PlanType, NEW b \in BarType, NEW stop \in Int, NEW status
    PROVE  LockedExitFill(k, stop, status, b) \in Int
BY PlanFields, BarPrices DEF LockedExitFill

LEMMA TargetStatusTerminal ==
    ASSUME NEW n \in 1..3
    PROVE  TargetStatus(n) \in Terminal
BY DEF TargetStatus, Terminal

\* Arming the break-even stop only sets its flag.
LEMMA ArmBepManaged ==
    ASSUME NEW k, NEW e, NEW b, LegOK(e)
    PROVE  Managed(e, ArmBep(k, e, b))
<1>1. CASE ArmBep(k, e, b) = e
  BY <1>1, ManagedSame
<1>2. CASE ArmBep(k, e, b) # e
  <2>1. e.status = "OPEN" /\ ArmBep(k, e, b) = [e EXCEPT !.bep = TRUE]
    BY <1>2 DEF ArmBep, OpenBefore
  <2> QED BY <2>1 DEF Managed, LegOK, Armed, LegType
<1> QED BY <1>1, <1>2

\* A leg tested against its stop and the final target closes, or stays as it was.
LEMMA StopOrTargetManaged ==
    ASSUME NEW k \in PlanType, NEW p \in PositionType, NEW b \in BarType,
           NEW e, LegOK(e)
    PROVE  Managed(e, StopOrTarget(k, p, e, b))
<1> DEFINE stop   == EffectiveStop(k, p, e)
           status == StopStatus(k, p, e, stop)
<1>1. stop \in Int /\ status \in Terminal
  BY EffectiveStopInt, StopStatusTerminal DEF LegOK
<1>2. LockedExitFill(k, stop, status, b) \in Int /\ stop \in Prices
  BY <1>1, LockedExitFillInt DEF Prices
<1>3. TargetStatus(k.finalTarget) \in Terminal /\ k.tp[k.finalTarget] \in Int
  BY PlanFields, TargetStatusTerminal
<1>4. b.time \in Nat /\ NoPrice \in Prices
  BY BarPrices DEF Prices
<1>5. CASE e.status # "OPEN"
  BY <1>5, ManagedSame DEF StopOrTarget
<1>6. CASE e.status = "OPEN" /\ StopTrigger(k.side, b, stop)
  <2>1. StopOrTarget(k, p, e, b)
          = CloseLeg(e, status, b.time, LockedExitFill(k, stop, status, b), stop)
    BY <1>6 DEF StopOrTarget
  <2> HIDE DEF stop, status
  <2> QED BY <1>6, <1>1, <1>2, <1>4, <2>1, CloseManaged
<1>7. CASE e.status = "OPEN" /\ ~StopTrigger(k.side, b, stop)
  <2>1. \/ StopOrTarget(k, p, e, b) = e
        \/ StopOrTarget(k, p, e, b)
             = CloseLeg(e, TargetStatus(k.finalTarget), b.time, k.tp[k.finalTarget], NoPrice)
    BY <1>7 DEF StopOrTarget
  <2> QED BY <1>7, <1>3, <1>4, <2>1, CloseManaged, ManagedSame
<1> QED BY <1>5, <1>6, <1>7

\* Both trailing stops replace a trail of an open leg by a price.
LEMMA TrailManaged ==
    ASSUME NEW e, LegOK(e), e.status = "OPEN", NEW trail \in Prices
    PROVE  Managed(e, [e EXCEPT !.trail = trail])
BY DEF Managed, LegOK, Armed, LegType

LEMMA TrailLegManaged ==
    ASSUME NEW k \in PlanType, NEW b \in BarType, NEW e, LegOK(e)
    PROVE  Managed(e, TrailLeg(k, e, b))
<1> DEFINE candidate == Away(k.side, Peak(k.side, b), -k.trailClose)
<1>1. candidate \in Int
  BY BarPrices, PlanFields DEF Away
<1>2. e.trail \in Prices /\ e \in LegType
  BY DEF LegOK, LegType
<1>3. Ratchet(k.side, e.trail, candidate) \in Prices
  BY <1>1, <1>2, RatchetType
<1>4. \/ TrailLeg(k, e, b) = e
      \/ /\ e.status = "OPEN"
         /\ TrailLeg(k, e, b) = [e EXCEPT !.trail = Ratchet(k.side, e.trail, candidate)]
  BY <1>2 DEF TrailLeg, OpenBefore, LegType
<1> QED BY <1>3, <1>4, TrailManaged, ManagedSame

LEMMA RunnerLegManaged ==
    ASSUME NEW k \in PlanType, NEW b \in BarType, NEW e, LegOK(e)
    PROVE  Managed(e, RunnerLeg(k, e, b))
<1> DEFINE candidate == Tighter(k.side, Away(k.side, Peak(k.side, b), -b.atr), k.tp[2])
<1>1. candidate \in Int
  BY BarPrices, PlanFields DEF Away, Tighter
<1>2. e.trail \in Prices /\ e \in LegType
  BY DEF LegOK, LegType
<1>3. Ratchet(k.side, e.trail, candidate) \in Prices
  BY <1>1, <1>2, RatchetType
<1>4. \/ RunnerLeg(k, e, b) = e
      \/ /\ e.status = "OPEN"
         /\ RunnerLeg(k, e, b) = [e EXCEPT !.trail = Ratchet(k.side, e.trail, candidate)]
  BY <1>2 DEF RunnerLeg, OpenBefore, LegType
<1> QED BY <1>3, <1>4, TrailManaged, ManagedSame

-----------------------------------------------------------------------------
(* The management phases of a bar                                          *)

\* Replacing the ladder leg by leg with managed legs is a phase.
LEMMA LadderPhase ==
    ASSUME NEW p, PositionOK(p), NEW g, g = [i \in Legs |-> g[i]],
           \A i \in Legs : Managed(p.leg[i], g[i])
    PROVE  Phase(p, [p EXCEPT !.leg = g])
<1> DEFINE q == [p EXCEPT !.leg = g]
<1>1. p \in PositionType
  BY DEF PositionOK
<1>2. \A i \in Legs : g[i] \in LegType /\ Armed(g[i])
  BY DEF Managed, LegOK
<1>3. g \in [Legs -> LegType]
  BY <1>2
<1>4. q.leg = g /\ q.firstFill = p.firstFill
  BY <1>1 DEF PositionType
<1>5. q \in PositionType
  BY <1>1, <1>3 DEF PositionType
<1> QED BY <1>2, <1>4, <1>5 DEF Phase, PositionOK

\* A position whose legs and first fill are untouched is a phase away.
LEMMA StagePhase ==
    ASSUME NEW p, PositionOK(p), NEW q \in PositionType,
           q.leg = p.leg, q.firstFill = p.firstFill
    PROVE  Phase(p, q)
<1>1. \A i \in Legs : LegOK(p.leg[i])
  BY DEF PositionOK, PositionType, LegOK
<1> QED BY <1>1, ManagedSame DEF Phase, PositionOK

LEMMA PhaseCompose ==
    ASSUME NEW p, NEW q, NEW r, Phase(p, q), Phase(q, r)
    PROVE  Phase(p, r)
<1>1. \A i \in Legs : Managed(p.leg[i], r.leg[i])
  BY ManagedCompose DEF Phase
<1> QED BY <1>1 DEF Phase

LEMMA LegsOK ==
    ASSUME NEW p, PositionOK(p), NEW i \in Legs
    PROVE  LegOK(p.leg[i])
BY DEF PositionOK, PositionType, LegOK

LEMMA ExitsPhase ==
    ASSUME NEW k \in PlanType, NEW b \in BarType, NEW p, PositionOK(p)
    PROVE  Phase(p, Exits(k, p, b))
<1> DEFINE g == [i \in Legs |-> StopOrTarget(k, p, ArmBep(k, p.leg[i], b), b)]
<1>1. Exits(k, p, b) = [p EXCEPT !.leg = g]
  BY DEF Exits, PositionOK, PositionType
<1>2. ASSUME NEW i \in Legs PROVE Managed(p.leg[i], g[i])
  <2>1. Managed(p.leg[i], ArmBep(k, p.leg[i], b))
    BY LegsOK, ArmBepManaged
  <2>2. LegOK(ArmBep(k, p.leg[i], b))
    BY <2>1 DEF Managed
  <2>3. Managed(ArmBep(k, p.leg[i], b), g[i])
    BY <2>2, StopOrTargetManaged DEF PositionOK
  <2> QED BY <2>1, <2>3, ManagedCompose
<1>3. g = [i \in Legs |-> g[i]]
  OBVIOUS
<1> HIDE DEF g
<1> QED BY <1>1, <1>2, <1>3, LadderPhase

\* Among finitely many legs there is one with the greatest gap and, of those, the
\* least slot.
LEMMA FurthestLeg ==
    ASSUME NEW gap, \A i \in Legs : gap[i] \in Nat,
           NEW E \in SUBSET Legs, E # {}
    PROVE  \E i \in E : \A j \in E : gap[i] > gap[j] \/ (gap[i] = gap[j] /\ i <= j)
<1> DEFINE Best(T, i) == i \in T /\ \A j \in T : gap[i] > gap[j] \/ (gap[i] = gap[j] /\ i <= j)
           Bad == {T \in SUBSET Legs : T # {} /\ ~\E i \in T : Best(T, i)}
           Sizes == {Cardinality(T) : T \in Bad}
<1>1. \A T \in SUBSET Legs : IsFiniteSet(T) /\ Cardinality(T) \in Nat
  BY LegsAssumption, FS_Subset, FS_CardinalityType
<1>2. SUFFICES Bad = {}
  OBVIOUS
<1>3. SUFFICES ASSUME Bad # {} PROVE FALSE
  OBVIOUS
<1>4. Sizes \in SUBSET Nat /\ Sizes # {}
  BY <1>1, <1>3
<1>5. PICK n \in Sizes : \A m \in Sizes : n <= m
  <2> DEFINE Less == {ss \in Nat \X Nat : ss[1] < ss[2]}
  <2>1. IsWellFoundedOn(Less, Nat)
    BY NatLessThanWellFounded DEF OpToRel
  <2>2. \A x, y \in Nat : <<x, y>> \notin Less => y <= x
    OBVIOUS
  <2> HIDE DEF Sizes, Less
  <2>3. \E n \in Sizes : \A m \in Sizes : <<m, n>> \notin Less
    BY <1>4, <2>1, WFMin
  <2> QED BY <1>4, <2>2, <2>3
<1>6. PICK T \in Bad : Cardinality(T) = n
  BY <1>5
<1>7. PICK x \in T : TRUE
  OBVIOUS
<1> DEFINE R == T \ {x}
<1>8. IsFiniteSet(T) /\ Cardinality(R) = n - 1 /\ n \in Nat /\ Cardinality(R) \in Nat
  BY <1>1, <1>4, <1>6, <1>7, FS_RemoveElement
<1>9. R \notin Bad
  <2>1. Cardinality(R) \notin Sizes
    <3> HIDE DEF Sizes
    <3> QED BY <1>5, <1>8
  <2> QED BY <2>1
<1>10. CASE R = {}
  <2>1. T = {x}
    BY <1>7, <1>10
  <2>2. Best(T, x)
    BY <2>1, LegsAssumption
  <2> QED BY <2>2, <1>7
<1>11. CASE R # {}
  <2>1. PICK m \in R : Best(R, m)
    BY <1>9, <1>11
  <2>2. m \in Nat /\ x \in Nat /\ (\A j \in T : j \in Nat /\ gap[j] \in Nat)
    BY LegsAssumption
  <2>3. Best(T, m) \/ Best(T, x)
    BY <2>1, <2>2
  <2> QED BY <2>1, <2>3, <1>7
<1> QED BY <1>10, <1>11

\* The worst leg is one of the legs the bar may close.
LEMMA WorstLegEligible ==
    ASSUME NEW k \in PlanType, NEW b, NEW p \in PositionType, Eligible(p, b) # {}
    PROVE  WorstLeg(k, p, b) \in Eligible(p, b)
<1> DEFINE gap == [i \in Legs |-> Distance(p.leg[i].price, k.signalSl)]
<1>1. \A i \in Legs : gap[i] \in Nat
  <2>1. \A i \in Legs : p.leg[i].price \in Int
    BY DEF PositionType, LegType
  <2> QED BY <2>1, PlanFields DEF Distance
<1>2. Eligible(p, b) \in SUBSET Legs
  BY DEF Eligible
<1>3. \E i \in Eligible(p, b) : \A j \in Eligible(p, b) :
         gap[i] > gap[j] \/ (gap[i] = gap[j] /\ i <= j)
  <2> HIDE DEF gap
  <2> QED BY <1>1, <1>2, FurthestLeg
<1>4. \E i \in Eligible(p, b) : \A j \in Eligible(p, b) :
         LET g(x) == Distance(p.leg[x].price, k.signalSl)
         IN  g(i) > g(j) \/ (g(i) = g(j) /\ i <= j)
  BY <1>2, <1>3
<1> QED BY <1>4 DEF WorstLeg

\* Banking the worst leg closes a leg that is open.
LEMMA ScaleOutPhase ==
    ASSUME NEW k \in PlanType, NEW b \in BarType, NEW p, PositionOK(p), NEW n \in 1..2
    PROVE  Phase(p, ScaleOut(k, p, b, n))
<1> DEFINE w    == WorstLeg(k, p, b)
           shut == CloseLeg(p.leg[w], TargetStatus(n), b.time, k.tp[n], NoPrice)
<1>1. p \in PositionType
  BY DEF PositionOK
<1>2. CASE ScaleOut(k, p, b, n) = p
  BY <1>1, <1>2, StagePhase
<1>3. CASE ScaleOut(k, p, b, n) # p
  <2>1. ScaleOut(k, p, b, n)
          = [p EXCEPT !.scaled[n] = TRUE, !.leg[w] = CloseLeg(@, TargetStatus(n), b.time, k.tp[n], NoPrice)]
        /\ \E i, j \in Eligible(p, b) : i # j
    BY <1>3 DEF ScaleOut
  <2>2. w \in Eligible(p, b)
    BY <1>1, <2>1, WorstLegEligible
  <2>3. w \in Legs /\ p.leg[w].status = "OPEN" /\ LegOK(p.leg[w])
    BY <2>2, LegsOK DEF Eligible, OpenBefore
  <2>4. Managed(p.leg[w], shut)
    <3>1. TargetStatus(n) \in Terminal /\ k.tp[n] \in Int /\ b.time \in Nat
          /\ NoPrice \in Prices
      BY TargetStatusTerminal, PlanFields, BarPrices DEF Prices
    <3> QED BY <2>3, <3>1, CloseManaged
  <2> DEFINE g == [i \in Legs |-> IF i = w THEN shut ELSE p.leg[i]]
             q == [p EXCEPT !.scaled[n] = TRUE]
  <2>5. PositionOK(q) /\ Phase(p, q) /\ q.leg = p.leg
    <3>1. q \in PositionType /\ q.leg = p.leg /\ q.firstFill = p.firstFill
      BY <1>1 DEF PositionType
    <3> QED BY <3>1, StagePhase DEF PositionOK
  <2>6. ScaleOut(k, p, b, n) = [q EXCEPT !.leg = g]
    <3>1. [p.leg EXCEPT ![w] = shut] = g
      BY <1>1, <2>3 DEF PositionType
    <3> QED BY <1>1, <2>1, <3>1 DEF PositionType
  <2>7. \A i \in Legs : Managed(q.leg[i], g[i])
    BY <2>4, <2>5, LegsOK, ManagedSame
  <2>8. Phase(q, [q EXCEPT !.leg = g])
    <3> HIDE DEF q, g
    <3>1. g = [i \in Legs |-> g[i]]
      BY DEF g
    <3> QED BY <2>5, <2>7, <3>1, LadderPhase
  <2> QED BY <2>5, <2>6, <2>8, PhaseCompose
<1> QED BY <1>2, <1>3

\* Stage bookkeeping touches no leg.
LEMMA StagesPhase ==
    ASSUME NEW k \in PlanType, NEW b \in BarType, NEW p, PositionOK(p)
    PROVE  Phase(p, Stages(k, p, b))
<1> DEFINE Kept(q) == q \in PositionType /\ q.leg = p.leg /\ q.firstFill = p.firstFill
<1>1. ASSUME NEW q, Kept(q), NEW n \in 1..3, NEW cond PROVE Kept(SetTouch(q, n, cond, b))
  <2>1. b.time \in Times
    BY BarPrices DEF Times
  <2> QED BY <1>1, <2>1 DEF SetTouch, PositionType
<1>2. ASSUME NEW q, Kept(q), NEW n \in 1..3, NEW cond, NEW delay
      PROVE Kept(Promote(q, n, cond, delay, b))
  BY <1>2 DEF Promote, PositionType
<1>3. ASSUME NEW q, Kept(q) PROVE Kept([q EXCEPT !.stage = 3, !.touch[3] = b.time])
  <2>1. b.time \in Times
    BY BarPrices DEF Times
  <2>2. [q.touch EXCEPT ![3] = b.time] \in [1..3 -> Times] /\ 3 \in 0..3
    BY <1>3, <2>1 DEF PositionType
  <2>3. [q EXCEPT !.stage = 3, !.touch[3] = b.time]
          = [q EXCEPT !.stage = 3, !.touch = [q.touch EXCEPT ![3] = b.time]]
    BY <1>3 DEF PositionType
  <2> QED BY <1>3, <2>2, <2>3 DEF PositionType
<1>4. Kept(p)
  BY DEF PositionOK
<1>5. Kept(Stages(k, p, b))
  <2> DEFINE any == Eligible(p, b) # {}
             t1  == SetTouch(p, 1, any /\ Stage1Active(k) /\ HitTp(k, b, 1), b)
             t2  == SetTouch(t1, 2, any /\ Stage2Active(k) /\ HitTp(k, b, 2), b)
             s1  == Promote(t2, 1, any /\ Stage1Active(k), k.delay1, b)
             s2  == Promote(s1, 2, any /\ Stage2Active(k), k.delay2, b)
  <2> HIDE DEF Kept
  <2>1. Kept(t1)
    BY <1>1, <1>4
  <2>2. Kept(t2)
    <3> HIDE DEF t1
    <3> QED BY <1>1, <2>1
  <2>3. Kept(s1)
    <3> HIDE DEF t2
    <3> QED BY <1>2, <2>2
  <2>4. Kept(s2)
    <3> HIDE DEF s1
    <3> QED BY <1>2, <2>3
  <2>5. Kept([s2 EXCEPT !.stage = 3, !.touch[3] = b.time])
    <3> HIDE DEF s2
    <3> QED BY <1>3, <2>4
  <2>6. \/ Stages(k, p, b) = s2
        \/ Stages(k, p, b) = [s2 EXCEPT !.stage = 3, !.touch[3] = b.time]
    BY DEF Stages
  <2> QED BY <2>4, <2>5, <2>6
<1> QED BY <1>5, StagePhase

\* Both trailing stops only ratchet the trail of open legs.
LEMMA TrailsPhase ==
    ASSUME NEW k \in PlanType, NEW b \in BarType, NEW p, PositionOK(p), NEW ratchet
    PROVE  Phase(p, Trails(k, p, b, ratchet))
<1> DEFINE g       == [i \in Legs |-> TrailLeg(k, p.leg[i], b)]
           trailed == [p EXCEPT !.leg = g]
<1>1. Phase(p, trailed)
  <2>1. \A i \in Legs : Managed(p.leg[i], g[i])
    BY LegsOK, TrailLegManaged
  <2>2. g = [i \in Legs |-> g[i]]
    OBVIOUS
  <2> HIDE DEF g
  <2> QED BY <2>1, <2>2, LadderPhase
<1>2. trailed = [p EXCEPT !.leg = [i \in Legs |-> TrailLeg(k, @[i], b)]]
  BY DEF PositionOK, PositionType
<1>3. ASSUME NEW q, PositionOK(q) PROVE Phase(q, RunnerStop(k, q, b))
  <2> DEFINE h == [i \in Legs |-> RunnerLeg(k, q.leg[i], b)]
             r == [q EXCEPT !.leg = h]
             s == [r EXCEPT !.stage = 3,
                            !.touch[3] = IF @ = NoTime THEN b.time ELSE @,
                            !.runner = TRUE]
  <2>1. Phase(q, r)
    <3>1. \A i \in Legs : Managed(q.leg[i], h[i])
      BY <1>3, LegsOK, RunnerLegManaged
    <3>2. h = [i \in Legs |-> h[i]]
      OBVIOUS
    <3> HIDE DEF h
    <3> QED BY <1>3, <3>1, <3>2, LadderPhase
  <2>2. Phase(r, s)
    <3>1. PositionOK(r)
      BY <2>1 DEF Phase
    <3>2. b.time \in Times
      BY BarPrices DEF Times
    <3> HIDE DEF r
    <3> DEFINE t3 == IF r.touch[3] = NoTime THEN b.time ELSE r.touch[3]
               touch == [r.touch EXCEPT ![3] = t3]
    <3>3. t3 \in Times
      BY <3>1, <3>2 DEF PositionOK, PositionType
    <3>4. touch \in [1..3 -> Times] /\ 3 \in 0..3
      BY <3>1, <3>3 DEF PositionOK, PositionType
    <3>5. s = [r EXCEPT !.stage = 3, !.touch = touch, !.runner = TRUE]
      BY <3>1 DEF PositionOK, PositionType
    <3> HIDE DEF touch
    <3>6. s \in PositionType /\ s.leg = r.leg /\ s.firstFill = r.firstFill
      BY <3>1, <3>4, <3>5 DEF PositionOK, PositionType
    <3> QED BY <3>1, <3>6, StagePhase
  <2>3. RunnerStop(k, q, b) = q \/ RunnerStop(k, q, b) = s
    BY <1>3 DEF RunnerStop, PositionOK, PositionType
  <2>4. Phase(q, q)
    BY <1>3, StagePhase DEF PositionOK
  <2> QED BY <2>1, <2>2, <2>3, <2>4, PhaseCompose
<1>4. PositionOK(trailed)
  BY <1>1 DEF Phase
<1> HIDE DEF trailed
<1>5. Trails(k, p, b, ratchet) = trailed
      \/ Trails(k, p, b, ratchet) = RunnerStop(k, trailed, b)
  BY <1>2 DEF Trails
<1> QED BY <1>1, <1>3, <1>4, <1>5, PhaseCompose

\* Everything a bar does under `if open_entries` is management.
LEMMA ManageOpenPhase ==
    ASSUME NEW k \in PlanType, NEW b \in BarType, NEW p, PositionOK(p)
    PROVE  Phase(p, ManageOpen(k, p, b))
<1> DEFINE engaged == p.runner \/ RunnerHolds(k, b)
           closed  == Exits(k, p, b)
           exits   == [closed EXCEPT !.runner = engaged]
           banked  == ScaleOut(k, exits, b, 1)
           scaled  == ScaleOut(k, banked, b, 2)
           staged  == Stages(k, scaled, b)
<1>1. Phase(p, closed)
  BY ExitsPhase
<1>2. Phase(closed, exits)
  <2>1. PositionOK(closed) /\ engaged \in BOOLEAN
    BY <1>1 DEF Phase, PositionOK, PositionType, RunnerHolds
  <2> HIDE DEF closed, engaged
  <2>2. exits \in PositionType /\ exits.leg = closed.leg /\ exits.firstFill = closed.firstFill
    BY <2>1 DEF PositionOK, PositionType
  <2> QED BY <2>1, <2>2, StagePhase
<1>3. Phase(exits, banked)
  <2> HIDE DEF exits
  <2> QED BY <1>2, ScaleOutPhase DEF Phase
<1>4. Phase(banked, scaled)
  <2> HIDE DEF banked
  <2> QED BY <1>3, ScaleOutPhase DEF Phase
<1>5. Phase(scaled, staged)
  <2> HIDE DEF scaled
  <2> QED BY <1>4, StagesPhase DEF Phase
<1>6. Phase(staged, Trails(k, staged, b, engaged))
  <2> HIDE DEF staged
  <2> QED BY <1>5, TrailsPhase DEF Phase
<1>7. ManageOpen(k, p, b) = Trails(k, staged, b, engaged)
  BY DEF ManageOpen, PositionOK, PositionType
<1> HIDE DEF engaged, closed, exits, banked, scaled, staged
<1> QED BY <1>1, <1>2, <1>3, <1>4, <1>5, <1>6, <1>7, PhaseCompose

\* The time exit closes what is open and nothing else.
LEMMA TimeExitPhase ==
    ASSUME NEW k \in PlanType, NEW b \in BarType, NEW p, PositionOK(p)
    PROVE  Phase(p, TimeExit(k, p, b))
<1> DEFINE quote == IF k.side = "BUY" THEN b.close ELSE b.close + b.spread
           g == [i \in Legs |-> IF p.leg[i].status = "OPEN"
                                THEN CloseLeg(p.leg[i], "TIME_EXIT", b.time, quote, NoPrice)
                                ELSE p.leg[i]]
<1>1. \/ TimeExit(k, p, b) = p
      \/ TimeExit(k, p, b) = [p EXCEPT !.leg = g]
  BY DEF TimeExit, PositionOK, PositionType
<1>2. \A i \in Legs : Managed(p.leg[i], g[i])
  <2>1. quote \in Int /\ b.time \in Nat /\ "TIME_EXIT" \in Terminal /\ NoPrice \in Prices
    BY BarPrices DEF Terminal, Prices
  <2> HIDE DEF quote
  <2> QED BY <2>1, LegsOK, CloseManaged, ManagedSame
<1>3. g = [i \in Legs |-> g[i]]
  OBVIOUS
<1>4. Phase(p, p)
  BY StagePhase DEF PositionOK
<1> HIDE DEF g
<1> QED BY <1>1, <1>2, <1>3, <1>4, LadderPhase

-----------------------------------------------------------------------------
(* Filling a leg                                                           *)

\* A resting leg is priced where it was planned; once a trailing open has armed, its
\* extreme is at least `trailOpen` past the entry, so the rebound cannot chase.
Unchased(k, e) ==
    /\ e.status = "PENDING" => e.fill = NoTime /\ e.price = e.planned
    /\ e.status = "PENDING" /\ e.touchedAt # NoTime =>
         ~Beyond(k.side, e.extreme, Away(k.side, e.price, -k.trailOpen))
    /\ e.fill # NoTime => ~Beyond(k.side, e.price, e.planned)

\* What the filling phase of a bar may do to a leg.
Taken(k, e, f, b) ==
    /\ LegOK(f) /\ Unchased(k, f)
    /\ e.status # "PENDING" => f = e
    /\ f.fill # e.fill => f.fill = b.time

\* A limit fills at its own price.
LEMMA LimitTaken ==
    ASSUME NEW k \in PlanType, NEW b \in BarType, NEW e, LegOK(e), Unchased(k, e),
           e.status = "PENDING"
    PROVE  Taken(k, e, LimitFill(k, e, b), b)
<1> DEFINE f == LimitFill(k, e, b)
<1>1. e \in LegType /\ b.time \in Times /\ b.time \in Nat
  BY BarPrices DEF LegOK, Times
<1>2. PICK armed \in BOOLEAN :
        \/ f = [e EXCEPT !.armed = TRUE, !.status = "OPEN", !.fill = b.time]
        \/ f = [e EXCEPT !.armed = armed]
  <2>1. e.armed \in BOOLEAN
    BY <1>1 DEF LegType
  <2> QED BY <2>1 DEF LimitFill
<1>3. f \in LegType
  <2> DEFINE t == b.time
  <2>1. [e EXCEPT !.armed = armed] \in LegType
    BY <1>1 DEF LegType
  <2>2. t \in Times /\ "OPEN" \in Status
    BY <1>1 DEF Status
  <2> HIDE DEF t
  <2>3. [e EXCEPT !.armed = TRUE, !.status = "OPEN", !.fill = t] \in LegType
    BY <1>1, <2>2 DEF LegType
  <2> HIDE DEF f
  <2> QED BY <1>2, <2>1, <2>3 DEF t
<1>4. /\ f.touchedAt = e.touchedAt /\ f.extreme = e.extreme
      /\ f.price = e.price /\ f.planned = e.planned
      /\ \/ f.status = "OPEN" /\ f.fill = b.time
         \/ f.status = e.status /\ f.fill = e.fill
  BY <1>1, <1>2 DEF LegType
<1>5. e.price \in Int /\ e.planned = e.price /\ e.fill = NoTime
  BY <1>1 DEF Unchased, LegType
<1>6. ~Beyond(k.side, f.price, f.planned)
  BY <1>4, <1>5 DEF Beyond
<1> QED BY <1>3, <1>4, <1>5, <1>6 DEF Taken, LegOK, Armed, Unchased

\* A market-side fill is typed, and happens now at the price it is given.
LEMMA MarketSideFillFields ==
    ASSUME NEW k \in PlanType, NEW b \in BarType, NEW e \in LegType, NEW price \in Int
    PROVE  LET f == MarketSideFill(k, e, price, b) IN
           /\ f \in LegType
           /\ f.status = "OPEN" /\ f.fill = b.time /\ f.price = price
           /\ f.planned = e.planned /\ f.touchedAt = e.touchedAt /\ f.extreme = e.extreme
<1> DEFINE planned == IF k.sharedSl THEN Distance(e.price, SharedLevel(k)) ELSE k.baseDist
           sl      == Away(k.side, price, -planned)
<1>1. planned \in Nat
  <2>1. e.price \in Int /\ SharedLevel(k) \in Int
    BY InitialStopInt, LegsAssumption DEF LegType
  <2> QED BY <2>1, PlanFields, PriceOps
<1>2. sl \in Int
  BY <1>1 DEF Away
<1>3. MarketSideFill(k, e, price, b)
        = [e EXCEPT !.status = "OPEN", !.fill = b.time, !.price = price, !.sl = sl]
  BY DEF MarketSideFill
<1>4. b.time \in Times /\ "OPEN" \in Status
  BY BarPrices DEF Times, Status
<1> HIDE DEF sl
<1> QED BY <1>2, <1>3, <1>4 DEF LegType

\* A trailing open fills on the rebound, `trailOpen` off an extreme that was itself at
\* least `trailOpen` past the entry.
LEMMA TrailingOpenTaken ==
    ASSUME NEW k \in PlanType, NEW b \in BarType, NEW e, LegOK(e), Unchased(k, e),
           e.status = "PENDING"
    PROVE  Taken(k, e, TrailingOpenFill(k, e, b), b)
<1> DEFINE f       == TrailingOpenFill(k, e, b)
           dip     == Dip(k.side, b)
           extreme == Looser(k.side, e.extreme, dip)
           trigger == Away(k.side, extreme, k.trailOpen)
           seen    == [e EXCEPT !.extreme = extreme]
<1> SUFFICES Taken(k, e, f, b)
  OBVIOUS
<1>1. /\ e \in LegType /\ b.time \in Nat /\ dip \in Int /\ k.trailOpen \in Nat
      /\ e.price \in Int /\ e.planned = e.price /\ e.fill = NoTime
      /\ b.time \in Times /\ Int \subseteq Prices
  BY BarPrices, PlanFields DEF LegOK, Unchased, LegType, Times, Prices
<1>2. CASE e.touchedAt = NoTime
  <2>1. CASE f = e
    BY <1>1, <2>1 DEF Taken
  <2>2. CASE f # e
    <3>1. f = [e EXCEPT !.touchedAt = b.time, !.extreme = dip]
          /\ ~Beyond(k.side, dip, Away(k.side, e.price, -k.trailOpen))
      BY <1>2, <2>2 DEF TrailingOpenFill
    <3> HIDE DEF f, dip
    <3>2. f \in LegType
      BY <1>1, <3>1 DEF LegType
    <3>3. /\ f.status = e.status /\ f.fill = e.fill /\ f.price = e.price
          /\ f.planned = e.planned /\ f.extreme = dip
      BY <1>1, <3>1 DEF LegType
    <3> QED BY <1>1, <3>1, <3>2, <3>3 DEF Taken, LegOK, Armed, Unchased
  <2> QED BY <2>1, <2>2
<1>3. CASE e.touchedAt # NoTime
  <2>1. e.extreme \in Int
        /\ ~Beyond(k.side, e.extreme, Away(k.side, e.price, -k.trailOpen))
    BY <1>3 DEF LegOK, Armed, Unchased
  <2>2. extreme \in Int
        /\ ~Beyond(k.side, extreme, Away(k.side, e.price, -k.trailOpen))
    BY <1>1, <2>1 DEF Looser, Beyond, Away
  <2>3. trigger \in Int /\ ~Beyond(k.side, trigger, e.price)
    BY <1>1, <2>2 DEF Beyond, Away
  <2>4. f = seen \/ f = MarketSideFill(k, seen, trigger, b)
    BY <1>3 DEF TrailingOpenFill
  <2> HIDE DEF extreme, trigger
  <2>5. /\ seen \in LegType /\ seen.status = e.status /\ seen.fill = e.fill
        /\ seen.price = e.price /\ seen.planned = e.planned /\ seen.extreme = extreme
        /\ seen.touchedAt = e.touchedAt
    BY <1>1, <2>2 DEF LegType
  <2> HIDE DEF seen, f
  <2>6. CASE f = seen
    BY <1>1, <2>2, <2>5, <2>6 DEF Taken, LegOK, Armed, Unchased
  <2>7. CASE f = MarketSideFill(k, seen, trigger, b)
    <3>1. /\ f \in LegType /\ f.status = "OPEN" /\ f.fill = b.time /\ f.price = trigger
          /\ f.planned = e.planned /\ f.extreme = extreme
      BY <2>3, <2>5, <2>7, MarketSideFillFields
    <3> QED BY <1>1, <2>2, <2>3, <3>1 DEF Taken, LegOK, Armed, Unchased
  <2> QED BY <2>4, <2>6, <2>7
<1> QED BY <1>2, <1>3

LEMMA FillTaken ==
    ASSUME NEW k \in PlanType, NEW b \in BarType, NEW e, LegOK(e), Unchased(k, e)
    PROVE  Taken(k, e, FillLeg(k, e, b), b)
<1>1. CASE e.status # "PENDING"
  BY <1>1 DEF FillLeg, Taken
<1>2. CASE e.status = "PENDING"
  BY <1>2, LimitTaken, TrailingOpenTaken DEF FillLeg
<1> QED BY <1>1, <1>2

\* Expiring a resting leg keeps everything else about it.
LEMMA ExpireTaken ==
    ASSUME NEW k \in PlanType, NEW b, NEW e, LegOK(e), Unchased(k, e)
    PROVE  Taken(k, e, ExpireLeg(e), b) /\ ExpireLeg(e).status # "PENDING"
<1>1. CASE e.status # "PENDING"
  BY <1>1 DEF ExpireLeg, Taken
<1>2. CASE e.status = "PENDING"
  <2> DEFINE f == [e EXCEPT !.status = "NO_FILL"]
  <2>1. f \in LegType /\ f.status = "NO_FILL" /\ f.fill = e.fill /\ f.price = e.price
        /\ f.planned = e.planned /\ f.touchedAt = e.touchedAt /\ f.extreme = e.extreme
    BY DEF LegOK, LegType, Status, Terminal
  <2>2. ExpireLeg(e) = f
    BY <1>2 DEF ExpireLeg
  <2> HIDE DEF f
  <2> QED BY <1>2, <2>1, <2>2 DEF Taken, LegOK, Armed, Unchased
<1> QED BY <1>1, <1>2

-----------------------------------------------------------------------------
(* One bar                                                                 *)

\* A fill lies in the plan's window.
Windowed(k, e) == e.fill # NoTime => k.activation <= e.fill /\ e.fill <= k.expiry

\* The max-hold clock was started by the earliest fill.
Clocked(p, now) ==
    /\ p.firstFill <= now
    /\ \A i \in Legs : p.leg[i].fill # NoTime =>
           p.firstFill # NoTime /\ p.firstFill <= p.leg[i].fill

Steady(k, p, now) ==
    /\ PositionOK(p)
    /\ Clocked(p, now)
    /\ \A i \in Legs : Unchased(k, p.leg[i]) /\ Windowed(k, p.leg[i])

\* Management disturbs none of it.
LEMMA PhaseSteady ==
    ASSUME NEW k, NEW p, NEW q, NEW now, Steady(k, p, now), Phase(p, q)
    PROVE  Steady(k, q, now)
<1>1. PositionOK(q) /\ Clocked(q, now)
  BY DEF Phase, Steady, Clocked, Managed
<1>2. ASSUME NEW i \in Legs PROVE Unchased(k, q.leg[i]) /\ Windowed(k, q.leg[i])
  <2>1. Managed(p.leg[i], q.leg[i]) /\ Unchased(k, p.leg[i]) /\ Windowed(k, p.leg[i])
    BY DEF Phase, Steady
  <2> QED BY <2>1 DEF Managed, Unchased, Windowed
<1> QED BY <1>1, <1>2 DEF Steady

\* Replacing the ladder by well formed legs keeps the position well formed.
LEMMA LadderOK ==
    ASSUME NEW p, PositionOK(p), NEW g, g = [i \in Legs |-> g[i]],
           \A i \in Legs : LegOK(g[i])
    PROVE  /\ PositionOK([p EXCEPT !.leg = g])
           /\ [p EXCEPT !.leg = g].leg = g
           /\ [p EXCEPT !.leg = g].firstFill = p.firstFill
<1>1. \A i \in Legs : g[i] \in LegType /\ Armed(g[i])
  BY DEF LegOK
<1>2. g \in [Legs -> LegType] /\ p \in PositionType
  BY <1>1 DEF PositionOK
<1> QED BY <1>1, <1>2 DEF PositionOK, PositionType

\* The filling phase: a bar in the window may fill, the first bar past expiry expires
\* what still rests, and no other leg moves.
LEMMA FillsSteady ==
    ASSUME NEW k \in PlanType, NEW b \in BarType, NEW p, NEW now \in Times,
           Steady(k, p, now), now < b.time
    PROVE  LET q == FillsAndExpiry(k, p, b) IN
           /\ Steady(k, q, b.time)
           /\ \A i \in Legs : p.leg[i].status # "PENDING" => q.leg[i] = p.leg[i]
           /\ b.time > k.expiry => \A i \in Legs : q.leg[i].status # "PENDING"
<1> DEFINE g      == [i \in Legs |-> FillLeg(k, p.leg[i], b)]
           ladder == [p EXCEPT !.leg = g]
           inWin  == SetFirstFill(ladder, b)
           filled == IF InWindow(k, b) THEN inWin ELSE p
           Late(r) == [i \in Legs |-> ExpireLeg(r.leg[i])]
<1>1. /\ PositionOK(p) /\ p \in PositionType /\ b.time \in Nat /\ b.time \in Times
      /\ k.expiry \in Nat /\ k.activation \in Nat
      /\ p.firstFill \in Times /\ (\A i \in Legs : p.leg[i].fill \in Times)
      /\ (\A i \in Legs : LegOK(p.leg[i]) /\ Unchased(k, p.leg[i]) /\ Windowed(k, p.leg[i]))
  BY BarPrices, PlanFields, LegsOK DEF Steady, PositionOK, PositionType, LegType, Times
<1>2. \A i \in Legs : Taken(k, p.leg[i], g[i], b)
  BY <1>1, FillTaken
<1>3. PositionOK(ladder) /\ ladder.leg = g /\ ladder.firstFill = p.firstFill
  <2>1. g = [i \in Legs |-> g[i]]
    OBVIOUS
  <2> HIDE DEF g
  <2> QED BY <1>1, <1>2, <2>1, LadderOK DEF Taken
<1>4. FillsAndExpiry(k, p, b)
        = IF b.time > k.expiry THEN [filled EXCEPT !.leg = Late(filled)] ELSE filled
  <2>1. [p EXCEPT !.leg = [i \in Legs |-> FillLeg(k, @[i], b)]] = ladder
    BY <1>1 DEF PositionType
  <2>2. [filled EXCEPT !.leg = [i \in Legs |-> ExpireLeg(@[i])]]
          = [filled EXCEPT !.leg = Late(filled)]
    OBVIOUS
  <2> HIDE DEF ladder, Late
  <2> QED BY <2>1, <2>2 DEF FillsAndExpiry
<1> HIDE DEF g, ladder, Late
<1>5. /\ PositionOK(inWin) /\ inWin.leg = g
      /\ \/ inWin.firstFill = p.firstFill
            /\ (p.firstFill = NoTime => \A i \in Legs : g[i].fill = NoTime)
         \/ inWin.firstFill = b.time /\ p.firstFill = NoTime
  BY <1>1, <1>3 DEF SetFirstFill, PositionOK, PositionType
<1> HIDE DEF inWin
<1>6. /\ Steady(k, filled, b.time)
      /\ \A i \in Legs : p.leg[i].status # "PENDING" => filled.leg[i] = p.leg[i]
  <2>1. CASE ~InWindow(k, b)
    <3>1. filled = p
      BY <2>1
    <3>2. p.firstFill <= b.time
      BY <1>1 DEF Steady, Clocked, Times, NoTime
    <3> HIDE DEF filled
    <3> QED BY <3>1, <3>2 DEF Steady, Clocked
  <2>2. CASE InWindow(k, b)
    <3>1. filled = inWin
      BY <2>2
    <3> HIDE DEF filled
    <3>2. ASSUME NEW i \in Legs
          PROVE  /\ Unchased(k, g[i]) /\ Windowed(k, g[i])
                 /\ p.leg[i].status # "PENDING" => g[i] = p.leg[i]
                 /\ g[i].fill # NoTime =>
                      inWin.firstFill # NoTime /\ inWin.firstFill <= g[i].fill
      <4>1. Taken(k, p.leg[i], g[i], b) /\ Windowed(k, p.leg[i]) /\ p.leg[i].fill \in Times
        BY <1>1, <1>2
      <4>2. Windowed(k, g[i])
        BY <2>2, <4>1, <1>1 DEF Taken, Windowed, InWindow
      <4>3. g[i].fill = p.leg[i].fill \/ g[i].fill = b.time
        BY <4>1 DEF Taken
      <4>4. p.leg[i].fill # NoTime => p.firstFill # NoTime /\ p.firstFill <= p.leg[i].fill
        BY DEF Steady, Clocked
      <4>5. p.firstFill <= now
        BY DEF Steady, Clocked
      <4>6. g[i].fill # NoTime => inWin.firstFill # NoTime /\ inWin.firstFill <= g[i].fill
        BY <1>1, <1>5, <4>3, <4>4, <4>5 DEF Times, NoTime
      <4> QED BY <4>1, <4>2, <4>6 DEF Taken
    <3>3. inWin.firstFill <= b.time
      BY <1>1, <1>5 DEF Steady, Clocked, Times, NoTime
    <3> QED BY <1>5, <3>1, <3>2, <3>3 DEF Steady, Clocked
  <2> QED BY <2>1, <2>2
<1> HIDE DEF filled
<1>7. CASE b.time <= k.expiry
  BY <1>1, <1>4, <1>6, <1>7
<1>8. CASE b.time > k.expiry
  <2> DEFINE h == Late(filled)
             q == [filled EXCEPT !.leg = h]
  <2>1. \A i \in Legs : /\ Taken(k, filled.leg[i], h[i], b) /\ h[i].status # "PENDING"
                         /\ h[i].fill = filled.leg[i].fill
    <3>1. \A i \in Legs : LegOK(filled.leg[i]) /\ Unchased(k, filled.leg[i])
      BY <1>6, LegsOK DEF Steady
    <3>2. ASSUME NEW i \in Legs PROVE ExpireLeg(filled.leg[i]).fill = filled.leg[i].fill
      BY <3>1 DEF ExpireLeg, LegOK, LegType
    <3> QED BY <3>1, <3>2, ExpireTaken DEF Late
  <2>2. h = [i \in Legs |-> h[i]]
    BY DEF Late
  <2> HIDE DEF h
  <2>3. PositionOK(q) /\ q.leg = h /\ q.firstFill = filled.firstFill
    BY <1>6, <2>1, <2>2, LadderOK DEF Steady, Taken
  <2>4. FillsAndExpiry(k, p, b) = q
    BY <1>4, <1>8 DEF h
  <2> HIDE DEF q
  <2>5. Steady(k, q, b.time)
    BY <1>6, <2>1, <2>3 DEF Steady, Clocked, Taken, Windowed
  <2>6. \A i \in Legs : p.leg[i].status # "PENDING" => q.leg[i] = p.leg[i]
    BY <1>6, <2>1, <2>3 DEF Taken
  <2> QED BY <2>1, <2>3, <2>4, <2>5, <2>6
<1> QED BY <1>1, <1>7, <1>8

\* Once max_hold has run out since the first fill, the time exit leaves nothing open
\* unless a runner may override it.
LEMMA TimeExitCloses ==
    ASSUME NEW k \in PlanType, NEW b \in BarType, NEW p, PositionOK(p)
    PROVE  /\ TimeExit(k, p, b).runner = p.runner
           /\ (/\ p.firstFill # NoTime /\ b.time >= Deadline(k, p)
               /\ ~(k.overrideMaxHold /\ p.runner))
              => \A i \in Legs : TimeExit(k, p, b).leg[i].status # "OPEN"
<1> DEFINE quote == IF k.side = "BUY" THEN b.close ELSE b.close + b.spread
           g == [i \in Legs |-> IF p.leg[i].status = "OPEN"
                                THEN CloseLeg(p.leg[i], "TIME_EXIT", b.time, quote, NoPrice)
                                ELSE p.leg[i]]
           due == /\ p.firstFill # NoTime /\ b.time >= Deadline(k, p)
                  /\ ~(k.overrideMaxHold /\ p.runner)
<1>1. \A i \in Legs : p.leg[i] \in LegType
  BY DEF PositionOK, PositionType
<1>2. \A i \in Legs : g[i].status # "OPEN"
  BY <1>1 DEF CloseLeg, LegType
<1>3. /\ due => TimeExit(k, p, b) = [p EXCEPT !.leg = g]
      /\ ~due => TimeExit(k, p, b) = p
  BY DEF TimeExit, PositionOK, PositionType
<1> HIDE DEF g
<1> QED BY <1>2, <1>3 DEF PositionOK, PositionType

\* One bar, from end to end.
LEMMA AdvanceSteady ==
    ASSUME NEW k \in PlanType, NEW b \in BarType, NEW p,
           Steady(k, p, p.last), p.last < b.time
    PROVE  LET q == AdvanceOneBar(k, p, b) IN
           /\ Steady(k, q, q.last) /\ q.last = b.time
           /\ \A i \in Legs : p.leg[i].status \in Terminal => q.leg[i] = p.leg[i]
           /\ b.time > k.expiry => \A i \in Legs : q.leg[i].status # "PENDING"
           /\ (/\ q.firstFill # NoTime /\ b.time >= q.firstFill + k.maxHold
               /\ ~(k.overrideMaxHold /\ q.runner))
              => \A i \in Legs : q.leg[i].status # "OPEN"
<1> DEFINE filled  == FillsAndExpiry(k, p, b)
           managed == IF OpenLegs(filled) # {} THEN ManageOpen(k, filled, b) ELSE filled
           timed   == TimeExit(k, managed, b)
           q       == [timed EXCEPT !.last = b.time]
<1>1. p.last \in Times /\ b.time \in Times
  BY BarPrices DEF Steady, PositionOK, PositionType, Times
<1>2. /\ Steady(k, filled, b.time)
      /\ \A i \in Legs : p.leg[i].status # "PENDING" => filled.leg[i] = p.leg[i]
      /\ b.time > k.expiry => \A i \in Legs : filled.leg[i].status # "PENDING"
  BY <1>1, FillsSteady
<1> HIDE DEF filled
<1>3. Phase(filled, managed)
  BY <1>2, ManageOpenPhase, StagePhase DEF Steady, PositionOK
<1> HIDE DEF managed
<1>4. Phase(managed, timed)
  BY <1>3, TimeExitPhase DEF Phase
<1>5. Phase(filled, timed)
  BY <1>3, <1>4, PhaseCompose
<1>6. /\ timed.runner = managed.runner /\ timed.firstFill = managed.firstFill
      /\ (/\ managed.firstFill # NoTime /\ b.time >= Deadline(k, managed)
          /\ ~(k.overrideMaxHold /\ managed.runner))
         => \A i \in Legs : timed.leg[i].status # "OPEN"
  BY <1>3, <1>4, TimeExitCloses DEF Phase
<1> HIDE DEF timed
<1>7. /\ q.leg = timed.leg /\ q.firstFill = timed.firstFill /\ q.runner = timed.runner
      /\ q.last = b.time /\ PositionOK(q)
  BY <1>1, <1>5 DEF Phase, PositionOK, PositionType
<1>8. AdvanceOneBar(k, p, b) = q
  BY DEF AdvanceOneBar, filled, managed, timed
<1> HIDE DEF q
<1>9. Steady(k, q, q.last)
  <2>1. Steady(k, timed, b.time)
    BY <1>2, <1>5, PhaseSteady
  <2> QED BY <2>1, <1>7 DEF Steady, Clocked
<1>10. ASSUME NEW i \in Legs, p.leg[i].status \in Terminal PROVE q.leg[i] = p.leg[i]
  <2>1. p.leg[i].status # "PENDING" /\ p.leg[i].status # "OPEN"
    BY <1>10 DEF Terminal
  <2>2. filled.leg[i] = p.leg[i] /\ timed.leg[i] = filled.leg[i]
    BY <1>2, <1>5, <2>1 DEF Phase, Managed
  <2> QED BY <1>7, <2>2
<1>11. ASSUME NEW i \in Legs, b.time > k.expiry PROVE q.leg[i].status # "PENDING"
  BY <1>2, <1>5, <1>7, <1>11 DEF Phase, Managed
<1>12. (/\ q.firstFill # NoTime /\ b.time >= q.firstFill + k.maxHold
        /\ ~(k.overrideMaxHold /\ q.runner))
       => \A i \in Legs : q.leg[i].status # "OPEN"
  BY <1>6, <1>7 DEF Deadline
<1> QED BY <1>7, <1>8, <1>9, <1>10, <1>11, <1>12

-----------------------------------------------------------------------------
(* The inductive invariant                                                 *)

IInv ==
    /\ plan \in Plans
    /\ best \in [Legs -> Prices]
    /\ Steady(plan, pos, pos.last)
    /\ pos.last > plan.expiry => \A i \in Legs : pos.leg[i].status # "PENDING"
    /\ HoldBounded

\* A freshly opened ladder is steady.
LEMMA InitIInv == Init => IInv
<1> SUFFICES ASSUME Init PROVE IInv
  OBVIOUS
<1>1. plan \in Plans /\ plan \in PlanType
  BY PlansAssumption DEF Init
<1>2. best \in [Legs -> Prices]
  BY DEF Init, Prices
<1>3. \A i \in Legs : plan.entry[i] \in Int /\ InitialStop(plan, i) \in Int
  BY <1>1, PlanFields, InitialStopInt
<1>4. NoPrice \in Prices /\ NoTime \in Times /\ "PENDING" \in Status
  BY DEF Prices, Times, Status
<1> DEFINE e(i) == [planned |-> plan.entry[i], price |-> plan.entry[i],
                    sl |-> InitialStop(plan, i),
                    status |-> "PENDING", fill |-> NoTime, exit |-> NoTime,
                    exitPrice |-> NoPrice, stopAt |-> NoPrice,
                    armed |-> FALSE, bep |-> FALSE,
                    touchedAt |-> NoTime, extreme |-> NoPrice, trail |-> NoPrice]
<1>5. /\ pos.leg = [i \in Legs |-> e(i)] /\ pos.firstFill = NoTime /\ pos.last = NoTime
      /\ pos.stage = 0 /\ pos.touch = [n \in 1..3 |-> NoTime] /\ pos.runner = FALSE
      /\ pos.scaled = [n \in 1..2 |-> FALSE]
  BY DEF Init, OpenPosition
<1>6. \A i \in Legs : e(i) \in LegType
  BY <1>3, <1>4 DEF LegType
<1>7. pos \in PositionType
  <2> DEFINE ladder == [i \in Legs |-> e(i)]
  <2>1. ladder \in [Legs -> LegType]
    BY <1>6
  <2>2. pos = [leg |-> ladder, stage |-> 0, touch |-> [n \in 1..3 |-> NoTime],
               firstFill |-> NoTime, scaled |-> [n \in 1..2 |-> FALSE],
               runner |-> FALSE, last |-> NoTime]
    BY DEF Init, OpenPosition
  <2>3. /\ 0 \in 0..3 /\ FALSE \in BOOLEAN
        /\ [n \in 1..3 |-> NoTime] \in [1..3 -> Times]
        /\ [n \in 1..2 |-> FALSE] \in [1..2 -> BOOLEAN]
    BY <1>4
  <2> HIDE DEF ladder
  <2> QED BY <2>1, <2>2, <2>3, <1>4 DEF PositionType
<1>8. \A i \in Legs : /\ pos.leg[i].status = "PENDING" /\ pos.leg[i].fill = NoTime
                       /\ pos.leg[i].touchedAt = NoTime
                       /\ pos.leg[i].price = pos.leg[i].planned
  BY <1>5
<1>9. Steady(plan, pos, pos.last)
  BY <1>5, <1>7, <1>8
     DEF Steady, PositionOK, Armed, Clocked, Unchased, Windowed, NoTime
<1>10. HoldBounded
  BY <1>8 DEF HoldBounded, Filled
<1>11. ~(pos.last > plan.expiry)
  BY <1>1, <1>5, PlanFields DEF NoTime
<1> QED BY <1>1, <1>2, <1>9, <1>10, <1>11 DEF IInv

\* A bar of the chart is later than the last one the position has seen.
LEMMA NextBar ==
    ASSUME IInv, NEW s \in BarShapes(plan), NEW t \in NextTimes
    PROVE  BarAt(s, t) \in BarType /\ BarAt(s, t).time = t /\ pos.last < t
<1>1. plan.activation \in Nat /\ pos.last \in Times
  BY PlansAssumption, PlanFields DEF IInv, Steady, PositionOK, PositionType
<1>2. t \in Nat /\ pos.last < t
  BY <1>1, BoundsAssumption DEF NextTimes, Times, NoTime
<1>3. s \in ShapeType
  BY BarsAssumption DEF IInv
<1>4. BarAt(s, t) \in BarType
  BY <1>2, <1>3 DEF BarAt, BarType, ShapeType
<1> QED BY <1>2, <1>4 DEF BarAt

\* One step: the invariant is kept, and no terminal leg moves.
LEMMA StepIInv ==
    ASSUME IInv, [Next]_vars
    PROVE  /\ IInv'
           /\ \A i \in Legs : pos.leg[i].status \in Terminal => pos'.leg[i] = pos.leg[i]
<1>1. CASE UNCHANGED vars
  BY <1>1 DEF IInv, vars, HoldBounded, Filled
<1>2. CASE Next
  <2>1. PICK s \in BarShapes(plan), t \in NextTimes : Advance(BarAt(s, t))
    BY <1>2 DEF Next
  <2> DEFINE b == BarAt(s, t)
  <2>2. b \in BarType /\ b.time = t /\ pos.last < t
    BY NextBar
  <2> HIDE DEF b
  <2>3. /\ pos' = AdvanceOneBar(plan, pos, b) /\ plan' = plan
        /\ best' = [i \in Legs |-> IF OpenBefore(pos.leg[i], b)
                                   THEN Ratchet(plan.side, best[i], ExitQuote(b))
                                   ELSE best[i]]
    BY <2>1 DEF Advance, b
  <2>4. plan \in Plans /\ plan \in PlanType /\ Steady(plan, pos, pos.last)
    BY PlansAssumption DEF IInv
  <2>5. /\ Steady(plan, pos', pos'.last) /\ pos'.last = t
        /\ \A i \in Legs : pos.leg[i].status \in Terminal => pos'.leg[i] = pos.leg[i]
        /\ t > plan.expiry => \A i \in Legs : pos'.leg[i].status # "PENDING"
        /\ (/\ pos'.firstFill # NoTime /\ t >= pos'.firstFill + plan.maxHold
            /\ ~(plan.overrideMaxHold /\ pos'.runner))
           => \A i \in Legs : pos'.leg[i].status # "OPEN"
    BY <2>2, <2>3, <2>4, AdvanceSteady
  <2>6. best' \in [Legs -> Prices]
    <3>1. best \in [Legs -> Prices] /\ ExitQuote(b) \in Int
      BY <2>2, BarPrices DEF IInv, ExitQuote
    <3> QED BY <2>3, <3>1, RatchetType
  <2>7. HoldBounded'
    <3> SUFFICES ASSUME NEW i \in Legs, NEW j \in Legs,
                        pos'.leg[i].fill # NoTime,
                        pos'.last >= pos'.leg[i].fill + plan.maxHold,
                        pos'.leg[j].status = "OPEN"
                 PROVE  plan.overrideMaxHold /\ pos'.runner
      BY <2>3 DEF HoldBounded, Filled
    <3>1. pos'.firstFill # NoTime /\ pos'.firstFill <= pos'.leg[i].fill
      BY <2>5 DEF Steady, Clocked
    <3>2. /\ pos'.firstFill \in Int /\ pos'.leg[i].fill \in Int /\ plan.maxHold \in Nat
          /\ t \in Int
      BY <2>2, <2>4, <2>5, PlanFields, BarPrices
         DEF Steady, PositionOK, PositionType, LegType, Times, NoTime
    <3>3. t >= pos'.firstFill + plan.maxHold
      BY <2>5, <3>1, <3>2
    <3> QED BY <2>5, <3>1, <3>3
  <2> QED BY <2>3, <2>4, <2>5, <2>6, <2>7 DEF IInv
<1> QED BY <1>1, <1>2

-----------------------------------------------------------------------------
(* The theorems                                                            *)

\* In every reachable state every field has its type.
THEOREM TypeCorrect == Spec => []TypeOK
<1>1. IInv => TypeOK
  BY DEF IInv, TypeOK, Steady, PositionOK
<1> QED BY <1>1, InitIInv, StepIInv, PTL DEF Spec

\* A leg is filled only inside [activation, expiry], and nothing rests past expiry,
\* whatever holes the chart has.
THEOREM FillsInWindow == Spec => []FillWindow
<1>1. IInv => FillWindow
  BY DEF IInv, FillWindow, Steady, Windowed, Filled
<1> QED BY <1>1, InitIInv, StepIInv, PTL DEF Spec

\* No leg is filled worse than the entry it was planned at.
THEOREM FillsNeverChase == Spec => []NeverChases
<1>1. IInv => NeverChases
  BY DEF IInv, NeverChases, Steady, Unchased, Filled
<1> QED BY <1>1, InitIInv, StepIInv, PTL DEF Spec

\* Nothing is held past max_hold from the earliest fill, but by a trend runner that
\* may override it.
THEOREM HoldIsBounded == Spec => []HoldBounded
<1>1. IInv => HoldBounded
  BY DEF IInv
<1> QED BY <1>1, InitIInv, StepIInv, PTL DEF Spec

\* No phase of a bar, the scale-out and the time exit included, touches a leg that
\* has already ended.
THEOREM TerminalStaysFinal == Spec => TerminalIsFinal
<1>1. IInv /\ [Next]_vars =>
        [\A i \in Legs : pos.leg[i].status \in Terminal => pos'.leg[i] = pos.leg[i]]_vars
  BY StepIInv
<1> QED BY <1>1, InitIInv, StepIInv, PTL DEF Spec, TerminalIsFinal

-----------------------------------------------------------------------------
(* What a leg is owed: its locks are earned, its exits real                *)

\* The leg's best exit quote x got as far as `level`.
Got(k, x, level) == x # NoPrice /\ ~Beyond(k.side, level, x)

\* The break-even stop of every planned leg lies no further than target n.
BufferShort(k, n) ==
    \A i \in Legs : ~Beyond(k.side, Away(k.side, k.entry[i], k.bepBuffer), k.tp[n])

\* No break-even stop past TP2 is named a lock of TP2.
Lockable(k) == k.halfMode /\ k.bepAfterTp1 /\ k.trendRunner => BufferShort(k, 2)

\* Every stop is a price some bar printed before it was set.
Realistic(k) ==
    /\ ~k.trendRunner
    /\ k.halfMode => k.bepBuffer <= k.bepTrigger
    /\ k.bepAfterTp1 => BufferShort(k, 1)
    /\ k.side = "SELL" => k.lockSlip = 0
    /\ k.side = "SELL" /\ k.trailClose > 0 => \A s \in BarShapes(k) : s.spread <= k.trailClose

\* A scale-out ladder runs past TP3 under the trend runner's trail only.
RunnerTrails(k) == k.trendRunner /\ k.runnerAfterTp3 => ~ScaleOutMode(k)

\* The break-even stop of a half-lock ladder is no better than the half lock itself.
HalfLockTightens(k) ==
    k.halfMode /\ ~ScaleOutMode(k) =>
        \A i \in Legs : k.bepBuffer <= (Distance(k.tp[1], k.entry[i]) * k.lockHalves) \div 2

LockEarned(k, status, x) ==
    /\ status \in {"LOCK_TP1", "LOCK_HALF_TP1"} => Got(k, x, k.tp[1])
    /\ status = "LOCK_TP2" => Got(k, x, k.tp[2])
ExitReal(k, status, price, fillPrice, x) ==
    (status \in Terminal \ {"NO_FILL", "TIME_EXIT"} /\ Beyond(k.side, price, fillPrice))
        => Got(k, x, price)

\* The ladder's geometry.
Laddered(k, i, e) ==
    /\ e.planned = k.entry[i] /\ ~Beyond(k.side, e.price, e.planned)
    /\ ~Beyond(k.side, e.sl, e.price)

\* What an open leg can count on: every touch that applies to it was printed after its
\* fill, or a runner's trail covers it.
OpenSound(k, touch, e, x) ==
    /\ e.fill # NoTime
    /\ \A n \in 1..2 : TouchApplies(e, touch[n]) => Got(k, x, k.tp[n])
    /\ TouchApplies(e, touch[3]) =>
          \/ k.runnerAfterTp3 /\ Got(k, x, k.tp[3])
          \/ k.trendRunner /\ e.trail # NoPrice /\ ~Beyond(k.side, k.tp[2], e.trail)
    /\ e.bep => k.bepTrigger = 0 \/ Got(k, x, Away(k.side, e.price, k.bepTrigger))
    /\ Realistic(k) /\ e.trail # NoPrice => Got(k, x, e.trail)

LegSound(k, i, touch, e, x) ==
    /\ Laddered(k, i, e)
    /\ e.status = "PENDING" => ~e.bep /\ e.trail = NoPrice
    /\ e.status = "OPEN" => OpenSound(k, touch, e, x)
    /\ e.status \in Terminal => /\ Lockable(k) => LockEarned(k, e.status, x)
                                /\ Realistic(k) => ExitReal(k, e.status, e.exitPrice, e.price, x)

\* The marks a bar leaves on the position as a whole.
Marked(k, p, now) ==
    /\ \A n \in 1..3 : p.touch[n] <= now
    /\ p.touch[3] # NoTime => p.stage = 3
    /\ p.runner => k.trendRunner

-----------------------------------------------------------------------------
(* The order of the levels                                                 *)

\* What was got, was got up to any nearer level.
LEMMA GotNearer ==
    ASSUME NEW k \in PlanType, NEW x \in Prices, NEW a \in Int, NEW c \in Int,
           Got(k, x, a), ~Beyond(k.side, c, a)
    PROVE  Got(k, x, c)
BY PlanFields DEF Got, Beyond, Prices

\* The targets of a sound plan are in order, beyond every leg that is laddered.
LEMMA TargetOrder ==
    ASSUME NEW k \in Plans
    PROVE  /\ k \in PlanType
           /\ Beyond(k.side, k.tp[2], k.tp[1]) /\ Beyond(k.side, k.tp[3], k.tp[2])
           /\ \A x \in Prices : (Got(k, x, k.tp[3]) => Got(k, x, k.tp[2]))
                                /\ (Got(k, x, k.tp[2]) => Got(k, x, k.tp[1]))
           /\ \A i \in Legs : \A e \in LegType : Laddered(k, i, e) =>
                 \A n \in 1..3 : Beyond(k.side, k.tp[n], e.price) /\ Beyond(k.side, k.tp[n], e.sl)
<1>1. /\ k \in PlanType /\ SoundPlan(k)
      /\ \A n \in 1..3 : k.tp[n] \in Int
      /\ \A i \in Legs : k.entry[i] \in Int
      /\ k.side \in {"BUY", "SELL"}
  BY PlansAssumption, PlanFields
<1>2. Beyond(k.side, k.tp[2], k.tp[1]) /\ Beyond(k.side, k.tp[3], k.tp[2])
  BY <1>1 DEF SoundPlan
<1>3. ASSUME NEW x \in Prices
      PROVE  (Got(k, x, k.tp[3]) => Got(k, x, k.tp[2])) /\ (Got(k, x, k.tp[2]) => Got(k, x, k.tp[1]))
  BY <1>1, <1>2 DEF Got, Beyond, Prices
<1>4. ASSUME NEW i \in Legs, NEW e \in LegType, Laddered(k, i, e), NEW n \in 1..3
      PROVE  Beyond(k.side, k.tp[n], e.price) /\ Beyond(k.side, k.tp[n], e.sl)
  <2>1. e.price \in Int /\ e.sl \in Int /\ Beyond(k.side, k.tp[1], k.entry[i])
    BY <1>1 DEF LegType, SoundPlan
  <2>2. k.tp[n] = k.tp[1] \/ Beyond(k.side, k.tp[n], k.tp[1])
    BY <1>1, <1>2 DEF Beyond
  <2> QED BY <1>1, <1>4, <2>1, <2>2 DEF Laddered, Beyond
<1> QED BY <1>1, <1>2, <1>3, <1>4

\* Halves of a distance: between nothing and all of it, and monotone in it.
LEMMA Halves ==
    ASSUME NEW d \in Nat, NEW c \in Nat, NEW h \in 0..2
    PROVE  /\ (d * h) \div 2 \in Nat /\ (d * h) \div 2 <= d
           /\ c <= d => (c * h) \div 2 <= (d * h) \div 2
<1>1. CASE h = 0
  BY <1>1
<1>2. CASE h = 1
  BY <1>2
<1>3. CASE h = 2
  BY <1>3
<1> QED BY <1>1, <1>2, <1>3

\* The half lock lies between the fill and TP1.
LEMMA HalfLock ==
    ASSUME NEW k \in Plans, NEW i \in Legs, NEW e \in LegType, Laddered(k, i, e)
    PROVE  /\ HalfTp1Stop(k, e) \in Int
           /\ ~Beyond(k.side, HalfTp1Stop(k, e), k.tp[1])
           /\ ~Beyond(k.side, e.price, HalfTp1Stop(k, e))
           /\ k.bepBuffer <= (Distance(k.tp[1], k.entry[i]) * k.lockHalves) \div 2 =>
                 ~Beyond(k.side, Away(k.side, e.price, k.bepBuffer), HalfTp1Stop(k, e))
<1> DEFINE d == Distance(k.tp[1], e.price)
           c == Distance(k.tp[1], k.entry[i])
           half == (d * k.lockHalves) \div 2
<1>1. /\ k.tp[1] \in Int /\ e.price \in Int /\ k.entry[i] \in Int /\ k.lockHalves \in 0..2
      /\ k.side \in {"BUY", "SELL"} /\ k.bepBuffer \in Nat /\ 1 \in 1..3
      /\ Beyond(k.side, k.tp[1], e.price)
      /\ ~Beyond(k.side, e.price, k.entry[i])
      /\ Beyond(k.side, k.tp[1], k.entry[i])
  BY TargetOrder, PlanFields, PlansAssumption DEF LegType, Laddered, SoundPlan
<1>2. d \in Nat /\ c \in Nat /\ c <= d
      /\ (k.side = "BUY" => d = k.tp[1] - e.price) /\ (k.side = "SELL" => d = e.price - k.tp[1])
  BY <1>1 DEF Distance, Beyond
<1>3. HalfTp1Stop(k, e) = Away(k.side, e.price, half)
  BY DEF HalfTp1Stop
<1> HIDE DEF d, c
<1>4. half \in Nat /\ half <= d /\ (c * k.lockHalves) \div 2 <= half
      /\ (c * k.lockHalves) \div 2 \in Nat
  BY <1>1, <1>2, Halves
<1> HIDE DEF half
<1>5. k.bepBuffer <= (c * k.lockHalves) \div 2 => k.bepBuffer <= half
  BY <1>1, <1>4
<1> QED BY <1>1, <1>2, <1>3, <1>4, <1>5 DEF Away, Beyond, c

-----------------------------------------------------------------------------
(* What the stop of a sound leg is worth                                   *)

\* A lock stage applies through its own touch.
LEMMA StageTouches ==
    ASSUME NEW p \in PositionType, NEW e, NEW lock1, NEW lock2
    PROVE  LET n == StageOf(p, e, lock1, lock2) IN
           /\ n \in 0..3
           /\ n = 1 => TouchApplies(e, p.touch[1])
           /\ n = 2 => TouchApplies(e, p.touch[2])
           /\ n = 3 => TouchApplies(e, p.touch[3])
           /\ p.stage >= 3 /\ TouchApplies(e, p.touch[3]) => n = 3
BY DEF StageOf

\* A touch that applies was printed: one of TP3 up to TP2 or under a runner's trail.
LEMMA StageGot ==
    ASSUME NEW k \in Plans, NEW p \in PositionType, NEW e \in LegType, NEW x \in Prices,
           OpenSound(k, p.touch, e, x), NEW lock1, NEW lock2
    PROVE  LET n == StageOf(p, e, lock1, lock2) IN
           /\ n \in {1, 2} => Got(k, x, k.tp[n])
           /\ n = 2 => Got(k, x, k.tp[1])
           /\ n = 3 => \/ Got(k, x, k.tp[3]) /\ Got(k, x, k.tp[2]) /\ Got(k, x, k.tp[1])
                       \/ k.trendRunner /\ e.trail # NoPrice /\ ~Beyond(k.side, k.tp[2], e.trail)
<1> DEFINE n == StageOf(p, e, lock1, lock2)
<1>1. /\ n = 1 => TouchApplies(e, p.touch[1])
      /\ n = 2 => TouchApplies(e, p.touch[2])
      /\ n = 3 => TouchApplies(e, p.touch[3])
  BY StageTouches
<1> HIDE DEF n
<1>2. /\ n = 1 => Got(k, x, k.tp[1])
      /\ n = 2 => Got(k, x, k.tp[2])
      /\ n = 3 => \/ Got(k, x, k.tp[3])
                  \/ k.trendRunner /\ e.trail # NoPrice /\ ~Beyond(k.side, k.tp[2], e.trail)
  BY <1>1 DEF OpenSound
<1>3. (Got(k, x, k.tp[3]) => Got(k, x, k.tp[2])) /\ (Got(k, x, k.tp[2]) => Got(k, x, k.tp[1]))
  BY TargetOrder
<1> QED BY <1>2, <1>3 DEF n

\* A trail at TP2 or better is the stop at stage 3, whatever ladder lies under it.
LEMMA TrailRules ==
    ASSUME NEW k \in Plans, NEW i \in Legs, NEW p \in PositionType, NEW e \in LegType,
           Laddered(k, i, e), p.stage >= 3, TouchApplies(e, p.touch[3]),
           e.trail # NoPrice, ~Beyond(k.side, k.tp[2], e.trail)
    PROVE  /\ ~Beyond(k.side, k.tp[2], EffectiveStop(k, p, e))
           /\ (k.halfMode \/ ~ScaleOutMode(k)) /\ (k.halfMode /\ k.bepAfterTp1 => BufferShort(k, 2))
                 => EffectiveStop(k, p, e) = e.trail
<1>1. LockStage(k, p, e) = 3 /\ RawStage(p, e) = 3
  BY StageTouches DEF LockStage, RawStage
<1>2. TrailFolded(k, p, e)
  BY <1>1, TargetOrder, PlanFields DEF TrailFolded
<1>3. /\ e.trail \in Int /\ e.price \in Int /\ e.sl \in Int /\ k.tp[2] \in Int
      /\ k.entry[i] \in Int /\ k.bepBuffer \in Nat /\ k.side \in {"BUY", "SELL"}
      /\ Beyond(k.side, k.tp[2], e.sl)
      /\ ~Beyond(k.side, e.price, k.entry[i])
  BY TargetOrder, PlanFields DEF LegType, Prices, Laddered
<1>4. BaseStop(k, p, e) \in Int
  <2>1. CASE ScaleOutMode(k)
    BY <1>3, <2>1 DEF BaseStop, ScaleOutStop, Away
  <2>2. CASE ~ScaleOutMode(k)
    BY <1>1, <1>3, <2>2 DEF BaseStop, HalfModeStop, TpLevelStop, LockLevelStop
  <2> QED BY <2>1, <2>2
<1>5. EffectiveStop(k, p, e) = Tighter(k.side, e.trail, BaseStop(k, p, e))
  BY <1>2 DEF EffectiveStop
<1>6. ASSUME k.halfMode \/ ~ScaleOutMode(k), k.halfMode /\ k.bepAfterTp1 => BufferShort(k, 2)
      PROVE  ~Beyond(k.side, BaseStop(k, p, e), k.tp[2])
  <2>1. CASE ~ScaleOutMode(k)
    <3>1. BaseStop(k, p, e) = k.tp[2]
      BY <1>1, <2>1 DEF BaseStop, HalfModeStop, TpLevelStop, LockLevelStop
    <3> QED BY <1>3, <3>1 DEF Beyond
  <2>2. CASE ScaleOutMode(k)
    <3>1. CASE k.bepAfterTp1
      <4>1. BaseStop(k, p, e) = Away(k.side, e.price, k.bepBuffer)
        BY <1>1, <2>2, <3>1 DEF BaseStop, ScaleOutStop
      <4>2. ~Beyond(k.side, Away(k.side, k.entry[i], k.bepBuffer), k.tp[2])
        BY <1>6, <2>2, <3>1 DEF BufferShort
      <4> QED BY <1>3, <4>1, <4>2 DEF Beyond, Away
    <3>2. CASE ~k.bepAfterTp1
      <4>1. BaseStop(k, p, e) = e.sl
        BY <2>2, <3>2 DEF BaseStop, ScaleOutStop
      <4> QED BY <1>3, <4>1 DEF Beyond
    <3> QED BY <3>1, <3>2
  <2> QED BY <2>1, <2>2
<1> QED BY <1>3, <1>4, <1>5, <1>6 DEF Tighter, Beyond

\* The name a stop is booked under is earned: LOCK_TP1, LOCK_HALF_TP1 and LOCK_TP2 name
\* targets the market got to after the leg's fill.
LEMMA LockNameEarned ==
    ASSUME NEW k \in Plans, NEW i \in Legs, NEW p \in PositionType, NEW e \in LegType,
           NEW x \in Prices, Lockable(k), Laddered(k, i, e), OpenSound(k, p.touch, e, x)
    PROVE  LockEarned(k, StopStatus(k, p, e, EffectiveStop(k, p, e)), x)
<1> DEFINE n == LockStage(k, p, e)
           stop == EffectiveStop(k, p, e)
           status == StopStatus(k, p, e, stop)
<1> SUFFICES LockEarned(k, status, x)
  OBVIOUS
<1>1. /\ n \in 0..3
      /\ n = 1 => Got(k, x, k.tp[1])
      /\ n = 2 => Got(k, x, k.tp[1]) /\ Got(k, x, k.tp[2])
      /\ n = 3 => \/ Got(k, x, k.tp[1]) /\ Got(k, x, k.tp[2])
                  \/ k.trendRunner /\ e.trail # NoPrice /\ ~Beyond(k.side, k.tp[2], e.trail)
      /\ n = 3 => TouchApplies(e, p.touch[3])
  BY StageGot, StageTouches DEF LockStage
<1>2. n = 3 => p.stage >= 3
  BY DEF LockStage, StageOf
<1>3. ASSUME n = 3, k.trendRunner, e.trail # NoPrice, ~Beyond(k.side, k.tp[2], e.trail),
             k.halfMode \/ ~ScaleOutMode(k)
      PROVE  stop = e.trail
  BY <1>1, <1>2, <1>3, TrailRules DEF Lockable
<1> HIDE DEF n, stop
<1>4. CASE e.trail = stop
  BY <1>4 DEF StopStatus, LockEarned
<1>5. CASE e.trail # stop
  <2>1. CASE k.halfMode
    <3>1. status = IF n >= 3 THEN "LOCK_TP2"
                   ELSE IF n = 2 THEN LockStatus(k.tp2LockTarget)
                   ELSE IF n = 1 THEN "LOCK_HALF_TP1"
                   ELSE IF e.bep /\ stop = e.price THEN "BEP" ELSE "SL"
      BY <1>5, <2>1 DEF StopStatus, n
    <3> HIDE DEF status
    <3> QED BY <1>1, <1>3, <1>5, <2>1, <3>1 DEF LockEarned, LockStatus
  <2>2. CASE ~k.halfMode /\ ScaleOutMode(k)
    BY <1>5, <2>2 DEF StopStatus, LockEarned
  <2>3. CASE ~k.halfMode /\ ~ScaleOutMode(k)
    <3>1. status = IF n >= 2 THEN "LOCK_TP2" ELSE IF n = 1 THEN "LOCK_TP1" ELSE "SL"
      BY <1>5, <2>3 DEF StopStatus, n
    <3> HIDE DEF status
    <3> QED BY <1>1, <1>3, <1>5, <2>3, <3>1 DEF LockEarned
  <2> QED BY <2>1, <2>2, <2>3
<1> QED BY <1>4, <1>5

\* A stop in profit is a price the market got to.
LEMMA StopIsReal ==
    ASSUME NEW k \in Plans, NEW i \in Legs, NEW p \in PositionType, NEW e \in LegType,
           NEW x \in Prices, Realistic(k), Laddered(k, i, e), OpenSound(k, p.touch, e, x),
           Beyond(k.side, EffectiveStop(k, p, e), e.price)
    PROVE  Got(k, x, EffectiveStop(k, p, e))
<1>0. /\ e.price \in Int /\ e.sl \in Int /\ k.tp[1] \in Int /\ k.tp[2] \in Int /\ k.tp[3] \in Int
      /\ k.entry[i] \in Int /\ k.bepBuffer \in Nat /\ k.bepTrigger \in Nat
      /\ k.side \in {"BUY", "SELL"} /\ k.tp2LockTarget \in 1..2 /\ k \in PlanType
      /\ ~Beyond(k.side, e.price, k.entry[i]) /\ ~Beyond(k.side, e.sl, e.price)
      /\ ~k.trendRunner
  BY TargetOrder, PlanFields DEF LegType, Prices, Laddered, Realistic
<1>1. ASSUME NEW lock1, NEW lock2
      PROVE  LET n == StageOf(p, e, lock1, lock2) IN
             /\ n \in 0..3
             /\ n >= 1 => Got(k, x, k.tp[1])
             /\ n >= 2 => Got(k, x, k.tp[2])
  BY <1>0, StageGot, StageTouches
<1>2. ASSUME Beyond(k.side, BaseStop(k, p, e), e.price)
      PROVE  Got(k, x, BaseStop(k, p, e))
  <2>1. CASE ScaleOutMode(k)
    <3>1. CASE k.bepAfterTp1 /\ RawStage(p, e) >= 1
      <4>1. BaseStop(k, p, e) = Away(k.side, e.price, k.bepBuffer)
        BY <2>1, <3>1 DEF BaseStop, ScaleOutStop
      <4>2. ~Beyond(k.side, Away(k.side, k.entry[i], k.bepBuffer), k.tp[1])
        BY <3>1 DEF Realistic, BufferShort
      <4>3. Away(k.side, e.price, k.bepBuffer) \in Int
            /\ ~Beyond(k.side, Away(k.side, e.price, k.bepBuffer), k.tp[1])
        BY <1>0, <4>2 DEF Away, Beyond
      <4>4. Got(k, x, k.tp[1])
        BY <1>1, <3>1 DEF RawStage
      <4> QED BY <1>0, <4>1, <4>3, <4>4, GotNearer
    <3>2. CASE ~(k.bepAfterTp1 /\ RawStage(p, e) >= 1)
      BY <1>0, <1>2, <2>1, <3>2 DEF BaseStop, ScaleOutStop
    <3> QED BY <3>1, <3>2
  <2>2. CASE ~ScaleOutMode(k) /\ k.halfMode
    <3> DEFINE n == LockStage(k, p, e)
    <3>1. n \in 0..3 /\ (n >= 1 => Got(k, x, k.tp[1])) /\ (n >= 2 => Got(k, x, k.tp[2]))
      BY <1>1 DEF LockStage
    <3>2. BaseStop(k, p, e) = IF n >= 3 THEN k.tp[2]
                              ELSE IF n = 2 THEN k.tp[k.tp2LockTarget]
                              ELSE IF n = 1 THEN HalfTp1Stop(k, e)
                              ELSE IF e.bep THEN Away(k.side, e.price, k.bepBuffer)
                              ELSE e.sl
      BY <2>2 DEF BaseStop, HalfModeStop
    <3> HIDE DEF n
    <3>3. CASE n >= 2
      BY <1>0, <3>1, <3>2, <3>3
    <3>4. CASE n = 1
      <4>1. HalfTp1Stop(k, e) \in Int /\ ~Beyond(k.side, HalfTp1Stop(k, e), k.tp[1])
        BY HalfLock
      <4> QED BY <1>0, <3>1, <3>2, <3>4, <4>1, GotNearer
    <3>5. CASE n = 0 /\ e.bep
      <4>1. k.bepBuffer <= k.bepTrigger
        BY <2>2 DEF Realistic
      <4>2. BaseStop(k, p, e) = Away(k.side, e.price, k.bepBuffer)
        BY <3>2, <3>5
      <4>3. k.bepBuffer # 0
        BY <1>0, <1>2, <4>2 DEF Away, Beyond
      <4>4. Got(k, x, Away(k.side, e.price, k.bepTrigger))
        BY <1>0, <3>5, <4>1, <4>3 DEF OpenSound
      <4>5. /\ Away(k.side, e.price, k.bepBuffer) \in Int /\ Away(k.side, e.price, k.bepTrigger) \in Int
            /\ ~Beyond(k.side, Away(k.side, e.price, k.bepBuffer), Away(k.side, e.price, k.bepTrigger))
        BY <1>0, <4>1 DEF Away, Beyond
      <4> QED BY <1>0, <4>2, <4>4, <4>5, GotNearer
    <3>6. CASE n = 0 /\ ~e.bep
      BY <1>0, <1>2, <3>2, <3>6
    <3> QED BY <3>1, <3>3, <3>4, <3>5, <3>6
  <2>3. CASE ~ScaleOutMode(k) /\ ~k.halfMode
    <3> DEFINE n == LockStage(k, p, e)
    <3>1. n \in 0..3 /\ (n >= 1 => Got(k, x, k.tp[1])) /\ (n >= 2 => Got(k, x, k.tp[2]))
      BY <1>1 DEF LockStage
    <3>2. BaseStop(k, p, e) = IF n >= 1 THEN (IF n >= 2 THEN k.tp[2] ELSE k.tp[1]) ELSE e.sl
      BY <2>3 DEF BaseStop, TpLevelStop, LockLevelStop
    <3> HIDE DEF n
    <3> QED BY <1>0, <1>2, <3>1, <3>2
  <2> QED BY <2>1, <2>2, <2>3
<1>3. CASE TrailFolded(k, p, e)
  <2>1. EffectiveStop(k, p, e) = e.trail \/ EffectiveStop(k, p, e) = BaseStop(k, p, e)
    BY <1>3 DEF EffectiveStop, Tighter
  <2>2. Got(k, x, e.trail)
    BY <1>3 DEF TrailFolded, OpenSound
  <2> QED BY <1>2, <2>1, <2>2
<1>4. CASE ~TrailFolded(k, p, e)
  BY <1>2, <1>4 DEF EffectiveStop
<1> QED BY <1>3, <1>4

\* Under a trend runner every leg its protection covers is stopped at TP2 or better.
LEMMA RunnerFloor ==
    ASSUME NEW k \in Plans, NEW i \in Legs, NEW p \in PositionType, NEW e \in LegType,
           NEW x \in Prices, RunnerTrails(k), k.trendRunner, Laddered(k, i, e),
           OpenSound(k, p.touch, e, x), p.stage >= 3, TouchApplies(e, p.touch[3])
    PROVE  ~Beyond(k.side, k.tp[2], EffectiveStop(k, p, e))
<1>1. CASE e.trail # NoPrice /\ ~Beyond(k.side, k.tp[2], e.trail)
  BY <1>1, TrailRules
<1>2. CASE k.runnerAfterTp3
  <2>1. ~ScaleOutMode(k)
    BY <1>2 DEF RunnerTrails
  <2>2. LockStage(k, p, e) = 3
    BY StageTouches DEF LockStage
  <2>3. BaseStop(k, p, e) = k.tp[2]
    BY <2>1, <2>2 DEF BaseStop, HalfModeStop, TpLevelStop, LockLevelStop
  <2>4. k.tp[2] \in Int /\ e.trail \in Prices
    BY TargetOrder, PlanFields DEF LegType
  <2>5. TrailFolded(k, p, e) => e.trail \in Int
    BY <2>4 DEF TrailFolded, Prices
  <2> QED BY <2>3, <2>4, <2>5 DEF EffectiveStop, Tighter, Beyond
<1> QED BY <1>1, <1>2 DEF OpenSound

\* What management never takes back: a stage, a touch, an armed break-even, a trail.
Firmer(k, e, f) ==
    /\ e.bep => f.bep
    /\ e.trail # NoPrice => f.trail # NoPrice /\ ~Beyond(k.side, e.trail, f.trail)
Onward(k, p, q) ==
    /\ p.stage <= q.stage
    /\ \A n \in 1..3 : p.touch[n] # NoTime => q.touch[n] = p.touch[n]
    /\ \A i \in Legs : Firmer(k, p.leg[i], q.leg[i])

\* Stages only rise.
LEMMA StageRises ==
    ASSUME NEW k, NEW p \in PositionType, NEW q \in PositionType, Onward(k, p, q),
           NEW e \in LegType, NEW f \in LegType, f.fill = e.fill, NEW lock1, NEW lock2
    PROVE  StageOf(p, e, lock1, lock2) <= StageOf(q, f, lock1, lock2)
<1>1. \A n \in 1..3 : TouchApplies(e, p.touch[n]) => TouchApplies(f, q.touch[n])
  BY DEF Onward, TouchApplies
<1>2. p.stage \in 0..3 /\ q.stage \in 0..3 /\ p.stage <= q.stage
  BY DEF Onward, PositionType
<1> QED BY <1>1, <1>2 DEF StageOf

\* The stop of a leg that stays open never moves away from price.
LEMMA StopTightens ==
    ASSUME NEW k \in Plans, NEW i \in Legs, NEW p \in PositionType, NEW q \in PositionType,
           NEW e \in LegType, NEW f \in LegType, HalfLockTightens(k), Laddered(k, i, e),
           Onward(k, p, q), Firmer(k, e, f),
           f.price = e.price /\ f.sl = e.sl /\ f.fill = e.fill /\ f.planned = e.planned
    PROVE  ~Beyond(k.side, EffectiveStop(k, p, e), EffectiveStop(k, q, f))
<1> DEFINE base == BaseStop(k, p, e)
           next == BaseStop(k, q, f)
<1>0. /\ e.price \in Int /\ e.sl \in Int /\ k.tp[1] \in Int /\ k.tp[2] \in Int
      /\ k.entry[i] \in Int /\ k.bepBuffer \in Nat
      /\ k.side \in {"BUY", "SELL"} /\ k.tp2LockTarget \in 1..2 /\ k \in PlanType
      /\ ~Beyond(k.side, e.sl, e.price) /\ Laddered(k, i, f)
      /\ Beyond(k.side, k.tp[1], e.price) /\ Beyond(k.side, k.tp[2], k.tp[1])
      /\ e.trail \in Prices /\ f.trail \in Prices
  BY TargetOrder, PlanFields DEF LegType, Prices, Laddered
<1>1. ASSUME NEW lock1, NEW lock2
      PROVE  /\ StageOf(p, e, lock1, lock2) \in 0..3 /\ StageOf(q, f, lock1, lock2) \in 0..3
             /\ StageOf(p, e, lock1, lock2) <= StageOf(q, f, lock1, lock2)
  BY StageRises, StageTouches
<1>2. ~Beyond(k.side, base, next)
  <2>1. CASE ScaleOutMode(k)
    <3>0. RawStage(p, e) \in 0..3 /\ RawStage(q, f) \in 0..3 /\ RawStage(p, e) <= RawStage(q, f)
      BY <1>1 DEF RawStage
    <3>1. RawStage(p, e) >= 1 => RawStage(q, f) >= 1
      BY <3>0
    <3>2. /\ base = IF k.bepAfterTp1 /\ RawStage(p, e) >= 1 THEN Away(k.side, e.price, k.bepBuffer) ELSE e.sl
          /\ next = IF k.bepAfterTp1 /\ RawStage(q, f) >= 1 THEN Away(k.side, e.price, k.bepBuffer) ELSE e.sl
      BY <2>1 DEF BaseStop, ScaleOutStop
    <3> HIDE DEF base, next
    <3> QED BY <1>0, <3>1, <3>2 DEF Away, Beyond
  <2>2. CASE ~ScaleOutMode(k) /\ k.halfMode
    <3> DEFINE m == LockStage(k, p, e)
               n == LockStage(k, q, f)
               half == HalfTp1Stop(k, e)
               bep  == Away(k.side, e.price, k.bepBuffer)
    <3>1. m \in 0..3 /\ n \in 0..3 /\ m <= n
      BY <1>1 DEF LockStage
    <3>2. HalfTp1Stop(k, f) = half
      BY DEF HalfTp1Stop
    <3>3. /\ base = IF m >= 3 THEN k.tp[2] ELSE IF m = 2 THEN k.tp[k.tp2LockTarget]
                    ELSE IF m = 1 THEN half ELSE IF e.bep THEN bep ELSE e.sl
          /\ next = IF n >= 3 THEN k.tp[2] ELSE IF n = 2 THEN k.tp[k.tp2LockTarget]
                    ELSE IF n = 1 THEN half ELSE IF f.bep THEN bep ELSE e.sl
      BY <2>2, <3>2 DEF BaseStop, HalfModeStop
    <3>4. /\ half \in Int /\ ~Beyond(k.side, half, k.tp[1]) /\ ~Beyond(k.side, e.price, half)
          /\ ~Beyond(k.side, bep, half)
      BY <2>2, HalfLock DEF HalfLockTightens
    <3>5. bep \in Int /\ ~Beyond(k.side, e.price, bep) /\ ~Beyond(k.side, e.sl, bep)
      BY <1>0 DEF Away, Beyond
    <3>6. (e.bep => f.bep) /\ (k.tp[k.tp2LockTarget] = k.tp[1] \/ k.tp[k.tp2LockTarget] = k.tp[2])
      BY <1>0 DEF Firmer
    <3> HIDE DEF m, n, half, bep, base, next
    <3> QED BY <1>0, <3>1, <3>3, <3>4, <3>5, <3>6 DEF Beyond
  <2>3. CASE ~ScaleOutMode(k) /\ ~k.halfMode
    <3> DEFINE m == LockStage(k, p, e)
               n == LockStage(k, q, f)
    <3>1. m \in 0..3 /\ n \in 0..3 /\ m <= n
      BY <1>1 DEF LockStage
    <3>2. /\ base = IF m >= 1 THEN (IF m >= 2 THEN k.tp[2] ELSE k.tp[1]) ELSE e.sl
          /\ next = IF n >= 1 THEN (IF n >= 2 THEN k.tp[2] ELSE k.tp[1]) ELSE e.sl
      BY <2>3 DEF BaseStop, TpLevelStop, LockLevelStop
    <3> HIDE DEF m, n, base, next
    <3> QED BY <1>0, <3>1, <3>2 DEF Beyond
  <2> QED BY <2>1, <2>2, <2>3
<1>3. TrailFolded(k, p, e) => TrailFolded(k, q, f)
  <2>1. RawStage(p, e) <= RawStage(q, f) /\ RawStage(p, e) \in 0..3 /\ RawStage(q, f) \in 0..3
        /\ k.trailAfter \in 0..2
    BY <1>0, <1>1, PlanFields DEF RawStage
  <2> QED BY <2>1 DEF TrailFolded, Firmer
<1>4. TrailFolded(k, p, e) => /\ e.trail \in Int /\ f.trail \in Int
                              /\ ~Beyond(k.side, e.trail, f.trail)
  BY <1>0, <1>3 DEF TrailFolded, Firmer, Prices
<1>5. /\ TrailFolded(k, q, f) => f.trail \in Int
      /\ EffectiveStop(k, p, e) = IF TrailFolded(k, p, e) THEN Tighter(k.side, e.trail, base) ELSE base
      /\ EffectiveStop(k, q, f) = IF TrailFolded(k, q, f) THEN Tighter(k.side, f.trail, next) ELSE next
  BY <1>0 DEF TrailFolded, EffectiveStop, Prices
<1>6. base \in Int /\ next \in Int
  <2>1. /\ HalfTp1Stop(k, e) \in Int /\ HalfTp1Stop(k, f) \in Int /\ f.price \in Int /\ f.sl \in Int
        /\ Away(k.side, e.price, k.bepBuffer) \in Int
    BY <1>0, HalfLock DEF Away
  <2> QED BY <1>0, <2>1 DEF BaseStop, ScaleOutStop, HalfModeStop, TpLevelStop, LockLevelStop
<1> HIDE DEF base, next
<1> QED BY <1>0, <1>2, <1>3, <1>4, <1>5, <1>6 DEF Tighter, Beyond

-----------------------------------------------------------------------------
(* Keeping a bar's legs sound                                              *)

\* The exit quote of a bar, and that the leg's history has seen it.
Quote(k, b) == IF k.side = "BUY" THEN b.high ELSE b.low + b.spread
Seen(k, e, b, x) == OpenBefore(e, b) => Got(k, x, Quote(k, b))

\* A bar under the plan, as far as its trail needs to know.
Printed(k, b) == b \in BarType /\ \E s \in BarShapes(k) : s.spread = b.spread

\* A position in the middle of bar b, whose legs have the histories x.
Good(k, p, x, b) ==
    /\ PositionOK(p) /\ Marked(k, p, b.time) /\ x \in [Legs -> Prices]
    /\ \A i \in Legs : LegSound(k, i, p.touch, p.leg[i], x[i]) /\ Seen(k, p.leg[i], b, x[i])

\* A level the bar reached was got by every leg that was open before it.
LEMMA TargetSeen ==
    ASSUME NEW k \in PlanType, NEW b \in BarType, NEW e, NEW x \in Prices, NEW level \in Int,
           Seen(k, e, b, x), OpenBefore(e, b), TargetTrigger(k.side, b, level)
    PROVE  Got(k, x, level)
<1>1. b.high \in Int /\ b.low \in Int /\ b.spread \in Nat
  BY DEF BarType
<1>2. Quote(k, b) \in Int /\ ~Beyond(k.side, level, Quote(k, b))
  BY <1>1 DEF Quote, TargetTrigger, Beyond
<1> QED BY <1>2, GotNearer DEF Seen

\* Firmness and onwardness compose.
LEMMA FirmerCompose ==
    ASSUME NEW k \in PlanType, NEW e \in LegType, NEW f \in LegType, NEW g \in LegType,
           Firmer(k, e, f), Firmer(k, f, g)
    PROVE  Firmer(k, e, g)
<1>1. e.trail \in Prices /\ f.trail \in Prices /\ g.trail \in Prices
  BY DEF LegType
<1> QED BY <1>1, PlanFields DEF Firmer, Beyond, Prices

LEMMA OnwardCompose ==
    ASSUME NEW k \in PlanType, NEW p, NEW q, NEW r, PositionOK(p), PositionOK(q), PositionOK(r),
           Onward(k, p, q), Onward(k, q, r)
    PROVE  Onward(k, p, r)
<1>1. p \in PositionType /\ q \in PositionType /\ r \in PositionType
  BY DEF PositionOK
<1>2. p.stage <= r.stage
  BY <1>1 DEF Onward, PositionType
<1>3. ASSUME NEW n \in 1..3, p.touch[n] # NoTime PROVE r.touch[n] = p.touch[n]
  BY <1>3 DEF Onward
<1>4. ASSUME NEW i \in Legs PROVE Firmer(k, p.leg[i], r.leg[i])
  <2>1. p.leg[i] \in LegType /\ q.leg[i] \in LegType /\ r.leg[i] \in LegType
    BY <1>1 DEF PositionType
  <2> QED BY <2>1, FirmerCompose DEF Onward
<1> QED BY <1>2, <1>3, <1>4 DEF Onward

LEMMA FirmerSame ==
    ASSUME NEW k, NEW e \in LegType, NEW f, f.bep <=> e.bep, f.trail = e.trail
    PROVE  Firmer(k, e, f)
<1>1. e.trail \in Prices
  BY DEF LegType
<1> QED BY <1>1 DEF Firmer, Beyond, Prices

LEMMA OnwardSame ==
    ASSUME NEW k, NEW p, PositionOK(p)
    PROVE  Onward(k, p, p)
<1>1. p \in PositionType /\ \A i \in Legs : p.leg[i] \in LegType
  BY DEF PositionOK, PositionType
<1>2. p.stage <= p.stage
  BY <1>1 DEF PositionType
<1> QED BY <1>1, <1>2, FirmerSame DEF Onward

\* Replacing the legs by managed, sound and firmer ones.
LEMMA LadderGood ==
    ASSUME NEW k \in Plans, NEW b \in BarType, NEW p, NEW x, Good(k, p, x, b),
           NEW g, g = [i \in Legs |-> g[i]],
           \A i \in Legs : /\ Managed(p.leg[i], g[i]) /\ LegSound(k, i, p.touch, g[i], x[i])
                           /\ Firmer(k, p.leg[i], g[i])
    PROVE  LET q == [p EXCEPT !.leg = g] IN Good(k, q, x, b) /\ Onward(k, p, q)
<1> DEFINE q == [p EXCEPT !.leg = g]
<1>1. PositionOK(p) /\ p \in PositionType
  BY DEF Good, PositionOK
<1>2. PositionOK(q)
  BY <1>1, LadderPhase DEF Phase
<1>3. q.leg = g /\ q.stage = p.stage /\ q.touch = p.touch /\ q.runner = p.runner
  BY <1>1 DEF PositionType
<1> HIDE DEF q
<1>4. Marked(k, q, b.time)
  BY <1>3 DEF Good, Marked
<1>5. ASSUME NEW i \in Legs PROVE Seen(k, q.leg[i], b, x[i])
  BY <1>3 DEF Good, Seen, OpenBefore, Managed
<1>6. Good(k, q, x, b)
  BY <1>2, <1>3, <1>4, <1>5 DEF Good
<1>7. p.stage <= q.stage
  BY <1>1, <1>3 DEF PositionType
<1>8. Onward(k, p, q)
  BY <1>3, <1>7 DEF Onward
<1> QED BY <1>6, <1>8 DEF q

\* Marking the position: the legs stay, and what is owed to the open ones grows.
LEMMA MarksGood ==
    ASSUME NEW k \in Plans, NEW b \in BarType, NEW p, NEW x, Good(k, p, x, b),
           NEW q \in PositionType, q.leg = p.leg, Marked(k, q, b.time), p.stage <= q.stage,
           \A n \in 1..3 : p.touch[n] # NoTime => q.touch[n] = p.touch[n],
           \A i \in Legs : p.leg[i].status = "OPEN" => OpenSound(k, q.touch, p.leg[i], x[i])
    PROVE  Good(k, q, x, b) /\ Onward(k, p, q)
<1>1. PositionOK(q) /\ PositionOK(p)
  BY DEF Good, PositionOK
<1>2. ASSUME NEW i \in Legs PROVE LegSound(k, i, q.touch, q.leg[i], x[i])
  BY DEF Good, LegSound
<1>3. Good(k, q, x, b)
  BY <1>1, <1>2 DEF Good
<1>4. Onward(k, p, q)
  BY <1>1, OnwardSame DEF Onward
<1> QED BY <1>3, <1>4

-----------------------------------------------------------------------------
(* What management does to one sound leg                                   *)

\* Arming the break-even stop.
LEMMA ArmBepSound ==
    ASSUME NEW k \in Plans, NEW b \in BarType, NEW i \in Legs, NEW touch, NEW e, LegOK(e),
           NEW x \in Prices, LegSound(k, i, touch, e, x), Seen(k, e, b, x)
    PROVE  LET f == ArmBep(k, e, b) IN LegSound(k, i, touch, f, x) /\ Firmer(k, e, f)
<1>1. k \in PlanType /\ e \in LegType
  BY PlansAssumption DEF LegOK
<1>2. CASE ArmBep(k, e, b) = e
  BY <1>1, <1>2, FirmerSame
<1>3. CASE ArmBep(k, e, b) # e
  <2> DEFINE f == [e EXCEPT !.bep = TRUE]
             level == Away(k.side, e.price, k.bepTrigger)
  <2>1. /\ ArmBep(k, e, b) = f /\ OpenBefore(e, b)
        /\ k.bepTrigger <= 0 \/ TargetTrigger(k.side, b, level)
    BY <1>3 DEF ArmBep
  <2>2. /\ f.status = e.status /\ f.fill = e.fill /\ f.price = e.price /\ f.sl = e.sl
        /\ f.planned = e.planned /\ f.trail = e.trail /\ f.bep
    BY <1>1 DEF LegType
  <2>3. level \in Int /\ k.bepTrigger \in Nat
    BY <1>1, PlanFields DEF LegType, Away
  <2>4. k.bepTrigger = 0 \/ Got(k, x, level)
    <3> HIDE DEF level
    <3> QED BY <1>1, <2>1, <2>3, TargetSeen
  <2>5. e.status = "OPEN" /\ OpenSound(k, touch, e, x) /\ Laddered(k, i, e)
    BY <2>1 DEF OpenBefore, LegSound
  <2> HIDE DEF f
  <2>6. OpenSound(k, touch, f, x) /\ Laddered(k, i, f)
    BY <2>2, <2>4, <2>5 DEF OpenSound, Laddered, TouchApplies
  <2>7. LegSound(k, i, touch, f, x)
    BY <2>2, <2>5, <2>6 DEF LegSound, Terminal
  <2>8. Firmer(k, e, f)
    <3>1. e.trail \in Prices
      BY <1>1 DEF LegType
    <3> QED BY <2>2, <3>1 DEF Firmer, Beyond, Prices
  <2> QED BY <2>1, <2>7, <2>8
<1> QED BY <1>2, <1>3

\* Closing a leg under an earned name at a real price.
LEMMA CloseSound ==
    ASSUME NEW k, NEW i \in Legs, NEW touch, NEW e, LegOK(e), NEW x,
           LegSound(k, i, touch, e, x), NEW status \in Terminal, NEW t, NEW price, NEW stop,
           Lockable(k) => LockEarned(k, status, x),
           Realistic(k) => ExitReal(k, status, price, e.price, x)
    PROVE  LET f == CloseLeg(e, status, t, price, stop) IN
           LegSound(k, i, touch, f, x) /\ Firmer(k, e, f)
<1> DEFINE f == CloseLeg(e, status, t, price, stop)
<1>1. /\ f.status = status /\ f.fill = e.fill /\ f.price = e.price /\ f.sl = e.sl
      /\ f.planned = e.planned /\ f.exitPrice = price
      /\ f.trail = e.trail /\ (f.bep <=> e.bep)
  BY DEF LegOK, LegType, CloseLeg
<1>2. status # "PENDING" /\ status # "OPEN"
  BY DEF Terminal
<1> HIDE DEF f
<1>3. LegSound(k, i, touch, f, x)
  BY <1>1, <1>2 DEF LegSound, Laddered
<1>4. Firmer(k, e, f)
  BY <1>1, FirmerSame DEF LegOK
<1> QED BY <1>3, <1>4 DEF f

\* A locked exit is never booked better than its stop while no slip is modelled on a SELL.
LEMMA SlipGivesBack ==
    ASSUME NEW k \in PlanType, NEW b \in BarType, NEW stop \in Int, NEW status,
           k.side = "SELL" => k.lockSlip = 0, StopTrigger(k.side, b, stop)
    PROVE  ~Beyond(k.side, LockedExitFill(k, stop, status, b), stop)
BY BarPrices, PlanFields DEF LockedExitFill, StopTrigger, Beyond

\* A leg tested against its stop and the final target.
LEMMA StopOrTargetSound ==
    ASSUME NEW k \in Plans, NEW b \in BarType, NEW i \in Legs, NEW p \in PositionType,
           NEW e, LegOK(e), NEW x \in Prices,
           LegSound(k, i, p.touch, e, x), Seen(k, e, b, x)
    PROVE  LET f == StopOrTarget(k, p, e, b) IN
           LegSound(k, i, p.touch, f, x) /\ Firmer(k, e, f)
<1> DEFINE stop   == EffectiveStop(k, p, e)
           status == StopStatus(k, p, e, stop)
           fill   == LockedExitFill(k, stop, status, b)
<1>1. k \in PlanType /\ e \in LegType
  BY PlansAssumption DEF LegOK
<1>2. stop \in Int /\ status \in Terminal
  BY <1>1, EffectiveStopInt, StopStatusTerminal
<1>3. fill \in Int
  BY <1>1, <1>2, LockedExitFillInt
<1>4. CASE e.status # "OPEN"
  BY <1>1, <1>4, FirmerSame DEF StopOrTarget
<1>5. CASE e.status = "OPEN" /\ StopTrigger(k.side, b, stop)
  <2>1. StopOrTarget(k, p, e, b) = CloseLeg(e, status, b.time, fill, stop)
    BY <1>5 DEF StopOrTarget
  <2>2. OpenSound(k, p.touch, e, x) /\ Laddered(k, i, e)
    BY <1>5 DEF LegSound
  <2>3. Lockable(k) => LockEarned(k, status, x)
    BY <1>1, <2>2, LockNameEarned
  <2>4. ASSUME Realistic(k), Beyond(k.side, fill, e.price) PROVE Got(k, x, fill)
    <3>1. ~Beyond(k.side, fill, stop)
      BY <1>1, <1>2, <1>5, <2>4, SlipGivesBack DEF Realistic
    <3>2. Beyond(k.side, stop, e.price)
      <4>1. e.price \in Int
        BY <1>1 DEF LegType
      <4> HIDE DEF stop, fill
      <4> QED BY <1>2, <1>3, <2>4, <3>1, <4>1 DEF Beyond
    <3>3. Got(k, x, stop)
      BY <1>1, <2>2, <2>4, <3>2, StopIsReal
    <3> HIDE DEF stop, fill
    <3> QED BY <1>1, <1>2, <1>3, <3>1, <3>3, GotNearer
  <2> HIDE DEF stop, status, fill
  <2>5. Realistic(k) => ExitReal(k, status, fill, e.price, x)
    BY <2>4 DEF ExitReal
  <2> QED BY <1>2, <2>1, <2>3, <2>5, CloseSound
<1>6. CASE e.status = "OPEN" /\ ~StopTrigger(k.side, b, stop) /\ TargetCloses(k, p, b) /\ OpenBefore(e, b)
  <2> DEFINE n == k.finalTarget
  <2>1. StopOrTarget(k, p, e, b) = CloseLeg(e, TargetStatus(n), b.time, k.tp[n], NoPrice)
    BY <1>6 DEF StopOrTarget
  <2>2. n \in 1..3 /\ k.tp[n] \in Int /\ TargetTrigger(k.side, b, k.tp[n])
    BY <1>1, <1>6, PlanFields DEF TargetCloses, HitTp
  <2> HIDE DEF n
  <2>3. Got(k, x, k.tp[n])
    BY <1>1, <1>6, <2>2, TargetSeen
  <2>4. TargetStatus(n) \in Terminal /\ LockEarned(k, TargetStatus(n), x)
        /\ ExitReal(k, TargetStatus(n), k.tp[n], e.price, x)
    BY <2>2, <2>3, TargetStatusTerminal DEF TargetStatus, LockEarned, ExitReal
  <2> QED BY <2>1, <2>4, CloseSound
<1>7. CASE e.status = "OPEN" /\ ~StopTrigger(k.side, b, stop) /\ ~(TargetCloses(k, p, b) /\ OpenBefore(e, b))
  BY <1>1, <1>7, FirmerSame DEF StopOrTarget
<1> QED BY <1>4, <1>5, <1>6, <1>7

\* Tightening a trail by a candidate that was itself got.
LEMMA TrailSound ==
    ASSUME NEW k \in Plans, NEW i \in Legs, NEW touch, NEW e, LegOK(e), NEW x \in Prices,
           LegSound(k, i, touch, e, x), e.status = "OPEN", NEW candidate \in Int,
           Realistic(k) => Got(k, x, candidate)
    PROVE  LET f == [e EXCEPT !.trail = Ratchet(k.side, e.trail, candidate)] IN
           /\ LegSound(k, i, touch, f, x) /\ Firmer(k, e, f)
           /\ f.trail # NoPrice /\ ~Beyond(k.side, candidate, f.trail)
<1> DEFINE trail == Ratchet(k.side, e.trail, candidate)
           f == [e EXCEPT !.trail = trail]
<1>1. /\ k \in PlanType /\ e \in LegType /\ e.trail \in Prices /\ k.side \in {"BUY", "SELL"}
      /\ k.tp[2] \in Int /\ NoPrice \notin Int
  BY PlansAssumption, PlanFields, NoPriceAssumption DEF LegOK, LegType
<1>2. /\ trail \in Int /\ ~Beyond(k.side, candidate, trail)
      /\ e.trail # NoPrice => ~Beyond(k.side, e.trail, trail)
      /\ trail = candidate \/ (e.trail # NoPrice /\ trail = e.trail)
  BY <1>1 DEF Ratchet, Tighter, Beyond, Prices
<1>3. /\ f.status = e.status /\ f.fill = e.fill /\ f.price = e.price /\ f.sl = e.sl
      /\ f.planned = e.planned /\ f.trail = trail /\ (f.bep <=> e.bep)
  BY <1>1 DEF LegType
<1> HIDE DEF f, trail
<1>4. OpenSound(k, touch, e, x) /\ Laddered(k, i, e)
  BY DEF LegSound
<1>5. Laddered(k, i, f)
  BY <1>3, <1>4 DEF Laddered
<1>6. e.trail # NoPrice /\ ~Beyond(k.side, k.tp[2], e.trail) =>
        f.trail # NoPrice /\ ~Beyond(k.side, k.tp[2], f.trail)
  BY <1>1, <1>2, <1>3 DEF Beyond, Prices
<1>7. Realistic(k) => Got(k, x, f.trail)
  BY <1>2, <1>3, <1>4 DEF OpenSound
<1>8. OpenSound(k, touch, f, x)
  BY <1>3, <1>4, <1>6, <1>7 DEF OpenSound, TouchApplies
<1>9. LegSound(k, i, touch, f, x)
  BY <1>3, <1>5, <1>8 DEF LegSound, Terminal
<1>10. Firmer(k, e, f) /\ f.trail # NoPrice
  BY <1>1, <1>2, <1>3 DEF Firmer
<1> QED BY <1>2, <1>3, <1>9, <1>10 DEF f, trail

LEMMA TrailLegSound ==
    ASSUME NEW k \in Plans, NEW b, Printed(k, b), NEW i \in Legs, NEW touch, NEW e, LegOK(e),
           NEW x \in Prices, LegSound(k, i, touch, e, x), Seen(k, e, b, x)
    PROVE  LET f == TrailLeg(k, e, b) IN LegSound(k, i, touch, f, x) /\ Firmer(k, e, f)
<1> DEFINE candidate == Away(k.side, Peak(k.side, b), -k.trailClose)
<1>1. k \in PlanType /\ e \in LegType /\ b \in BarType /\ candidate \in Int /\ Quote(k, b) \in Int
  BY PlansAssumption, BarPrices, PlanFields DEF LegOK, Printed, Away, Quote
<1>2. CASE TrailLeg(k, e, b) = e
  BY <1>1, <1>2, FirmerSame
<1>3. CASE TrailLeg(k, e, b) # e
  <2>1. /\ TrailLeg(k, e, b) = [e EXCEPT !.trail = Ratchet(k.side, e.trail, candidate)]
        /\ OpenBefore(e, b) /\ k.trailClose > 0
    BY <1>1, <1>3 DEF TrailLeg, LegType
  <2>2. ASSUME Realistic(k) PROVE Got(k, x, candidate)
    <3>1. ~Beyond(k.side, candidate, Quote(k, b))
      <4>1. k.side = "SELL" => b.spread <= k.trailClose
        BY <2>1, <2>2 DEF Realistic, Printed
      <4>2. /\ b.high \in Int /\ b.low \in Int /\ b.spread \in Nat /\ k.trailClose \in Nat
            /\ k.side \in {"BUY", "SELL"}
        BY <1>1, PlanFields DEF BarType
      <4> QED BY <4>1, <4>2 DEF Away, Peak, Quote, Beyond
    <3> HIDE DEF candidate
    <3> QED BY <1>1, <2>1, <3>1, GotNearer DEF Seen
  <2> HIDE DEF candidate
  <2> QED BY <1>1, <2>1, <2>2, TrailSound DEF OpenBefore
<1> QED BY <1>2, <1>3

\* The runner's trail is never short of TP2, on every leg that was open before the bar.
LEMMA RunnerLegSound ==
    ASSUME NEW k \in Plans, NEW b \in BarType, NEW i \in Legs, NEW touch, NEW e, LegOK(e),
           NEW x \in Prices, LegSound(k, i, touch, e, x), k.trendRunner
    PROVE  LET f == RunnerLeg(k, e, b) IN
           /\ LegSound(k, i, touch, f, x) /\ Firmer(k, e, f)
           /\ OpenBefore(e, b) => f.trail # NoPrice /\ ~Beyond(k.side, k.tp[2], f.trail)
<1> DEFINE candidate == Tighter(k.side, Away(k.side, Peak(k.side, b), -b.atr), k.tp[2])
<1>1. /\ k \in PlanType /\ e \in LegType /\ candidate \in Int /\ k.tp[2] \in Int
      /\ ~Beyond(k.side, k.tp[2], candidate)
  BY PlansAssumption, BarPrices, PlanFields DEF LegOK, Away, Tighter, Beyond
<1>2. CASE ~OpenBefore(e, b)
  BY <1>1, <1>2, FirmerSame DEF RunnerLeg
<1>3. CASE OpenBefore(e, b)
  <2> DEFINE f == [e EXCEPT !.trail = Ratchet(k.side, e.trail, candidate)]
  <2>1. RunnerLeg(k, e, b) = f
    BY <1>1, <1>3 DEF RunnerLeg, LegType
  <2>2. ~Realistic(k)
    BY DEF Realistic
  <2> HIDE DEF candidate
  <2>3. /\ LegSound(k, i, touch, f, x) /\ Firmer(k, e, f)
        /\ f.trail # NoPrice /\ ~Beyond(k.side, candidate, f.trail)
    BY <1>1, <1>3, <2>2, TrailSound DEF OpenBefore
  <2>4. f.trail \in Prices
    BY <1>1, RatchetType DEF LegType
  <2> HIDE DEF f
  <2>5. ~Beyond(k.side, k.tp[2], f.trail)
    BY <1>1, <2>3, <2>4, PlanFields DEF Beyond, Prices
  <2> QED BY <2>1, <2>3, <2>5
<1> QED BY <1>2, <1>3

-----------------------------------------------------------------------------
(* The management phases keep a position good and only move it onward      *)

LEMMA ExitsGood ==
    ASSUME NEW k \in Plans, NEW b \in BarType, NEW p, NEW x, Good(k, p, x, b)
    PROVE  LET q == Exits(k, p, b) IN Good(k, q, x, b) /\ Onward(k, p, q)
<1> DEFINE g == [i \in Legs |-> StopOrTarget(k, p, ArmBep(k, p.leg[i], b), b)]
<1>1. k \in PlanType /\ PositionOK(p) /\ p \in PositionType
  BY PlansAssumption DEF Good, PositionOK
<1>2. Exits(k, p, b) = [p EXCEPT !.leg = g]
  BY <1>1 DEF Exits, PositionType
<1>3. ASSUME NEW i \in Legs
      PROVE  /\ Managed(p.leg[i], g[i]) /\ LegSound(k, i, p.touch, g[i], x[i])
             /\ Firmer(k, p.leg[i], g[i])
  <2> DEFINE e == p.leg[i]
             a == ArmBep(k, e, b)
             f == StopOrTarget(k, p, a, b)
  <2>1. LegOK(e) /\ LegSound(k, i, p.touch, e, x[i]) /\ Seen(k, e, b, x[i]) /\ x[i] \in Prices
    BY <1>1, LegsOK DEF Good
  <2> HIDE DEF e
  <2>2. Managed(e, a) /\ LegSound(k, i, p.touch, a, x[i]) /\ Firmer(k, e, a)
    BY <2>1, ArmBepManaged, ArmBepSound
  <2>3. LegOK(a) /\ Seen(k, a, b, x[i])
    BY <2>1, <2>2 DEF Managed, Seen, OpenBefore
  <2> HIDE DEF a
  <2>4. Managed(a, f) /\ LegSound(k, i, p.touch, f, x[i]) /\ Firmer(k, a, f)
    BY <1>1, <2>1, <2>2, <2>3, StopOrTargetManaged, StopOrTargetSound
  <2>5. e \in LegType /\ a \in LegType /\ f \in LegType
    BY <2>1, <2>3, <2>4 DEF LegOK, Managed
  <2>6. g[i] = f
    BY DEF f, a, e
  <2> HIDE DEF f
  <2>7. Managed(e, f) /\ Firmer(k, e, f)
    BY <1>1, <2>2, <2>4, <2>5, ManagedCompose, FirmerCompose
  <2> QED BY <2>4, <2>6, <2>7 DEF e
<1>4. g = [i \in Legs |-> g[i]]
  OBVIOUS
<1> HIDE DEF g
<1> QED BY <1>2, <1>3, <1>4, LadderGood

\* The runner flag, raised for the rest of the bar.
LEMMA EngagedGood ==
    ASSUME NEW k \in Plans, NEW b \in BarType, NEW p, NEW x, Good(k, p, x, b),
           NEW engaged \in BOOLEAN, engaged => k.trendRunner
    PROVE  LET q == [p EXCEPT !.runner = engaged] IN Good(k, q, x, b) /\ Onward(k, p, q)
<1> DEFINE q == [p EXCEPT !.runner = engaged]
<1>1. p \in PositionType
  BY DEF Good, PositionOK
<1>2. /\ q \in PositionType /\ q.leg = p.leg /\ q.stage = p.stage /\ q.touch = p.touch
      /\ (q.runner <=> engaged) /\ p.stage <= q.stage
  BY <1>1 DEF PositionType
<1> HIDE DEF q
<1>3. Marked(k, q, b.time)
  BY <1>2 DEF Good, Marked
<1>4. \A i \in Legs : p.leg[i].status = "OPEN" => OpenSound(k, q.touch, p.leg[i], x[i])
  BY <1>2 DEF Good, LegSound
<1>5. Good(k, q, x, b) /\ Onward(k, p, q)
  BY <1>2, <1>3, <1>4, MarksGood
<1> QED BY <1>5 DEF q

\* Banking the worst leg at a target that was reached.
LEMMA ScaleOutGood ==
    ASSUME NEW k \in Plans, NEW b \in BarType, NEW p, NEW x, Good(k, p, x, b), NEW n \in 1..2
    PROVE  LET q == ScaleOut(k, p, b, n) IN Good(k, q, x, b) /\ Onward(k, p, q)
<1> DEFINE w    == WorstLeg(k, p, b)
           shut == CloseLeg(p.leg[w], TargetStatus(n), b.time, k.tp[n], NoPrice)
<1>1. k \in PlanType /\ PositionOK(p) /\ p \in PositionType /\ x \in [Legs -> Prices]
  BY PlansAssumption DEF Good, PositionOK
<1>2. CASE ScaleOut(k, p, b, n) = p
  BY <1>1, <1>2, OnwardSame
<1>3. CASE ScaleOut(k, p, b, n) # p
  <2>1. /\ ScaleOut(k, p, b, n)
             = [p EXCEPT !.scaled[n] = TRUE, !.leg[w] = CloseLeg(@, TargetStatus(n), b.time, k.tp[n], NoPrice)]
        /\ \E i, j \in Eligible(p, b) : i # j
        /\ TargetTrigger(k.side, b, k.tp[n])
    BY <1>3 DEF ScaleOut, HitTp
  <2>2. w \in Eligible(p, b)
    BY <1>1, <2>1, WorstLegEligible
  <2>3. /\ w \in Legs /\ p.leg[w].status = "OPEN" /\ LegOK(p.leg[w]) /\ OpenBefore(p.leg[w], b)
        /\ LegSound(k, w, p.touch, p.leg[w], x[w]) /\ Seen(k, p.leg[w], b, x[w]) /\ x[w] \in Prices
    BY <1>1, <2>2, LegsOK DEF Eligible, OpenBefore, Good
  <2>4. TargetStatus(n) \in Terminal /\ k.tp[n] \in Int /\ b.time \in Nat /\ NoPrice \in Prices
    BY <1>1, TargetStatusTerminal, PlanFields, BarPrices DEF Prices
  <2>5. Managed(p.leg[w], shut)
    BY <2>3, <2>4, CloseManaged
  <2>6. LegSound(k, w, p.touch, shut, x[w]) /\ Firmer(k, p.leg[w], shut)
    <3>1. Got(k, x[w], k.tp[n])
      BY <1>1, <2>1, <2>3, <2>4, TargetSeen
    <3>2. /\ LockEarned(k, TargetStatus(n), x[w])
          /\ ExitReal(k, TargetStatus(n), k.tp[n], p.leg[w].price, x[w])
      BY <3>1 DEF TargetStatus, LockEarned, ExitReal
    <3> HIDE DEF w
    <3> QED BY <2>3, <2>4, <3>2, CloseSound
  <2> DEFINE g == [i \in Legs |-> IF i = w THEN shut ELSE p.leg[i]]
             q == [p EXCEPT !.scaled[n] = TRUE]
  <2>7. Good(k, q, x, b) /\ Onward(k, p, q) /\ q.leg = p.leg /\ q.touch = p.touch
    <3>1. /\ q \in PositionType /\ q.leg = p.leg /\ q.touch = p.touch /\ q.stage = p.stage
          /\ (q.runner <=> p.runner) /\ p.stage <= q.stage
      <4> DEFINE scaled == [p.scaled EXCEPT ![n] = TRUE]
      <4>1. scaled \in [1..2 -> BOOLEAN]
        BY <1>1 DEF PositionType
      <4>2. q = [p EXCEPT !.scaled = scaled]
        BY <1>1 DEF PositionType
      <4> HIDE DEF scaled, q
      <4> QED BY <1>1, <4>1, <4>2 DEF PositionType
    <3> HIDE DEF q
    <3>2. Marked(k, q, b.time)
      BY <3>1 DEF Good, Marked
    <3>3. \A i \in Legs : p.leg[i].status = "OPEN" => OpenSound(k, q.touch, p.leg[i], x[i])
      BY <3>1 DEF Good, LegSound
    <3> QED BY <3>1, <3>2, <3>3, MarksGood
  <2>8. ScaleOut(k, p, b, n) = [q EXCEPT !.leg = g]
    <3>1. [p.leg EXCEPT ![w] = shut] = g
      BY <1>1, <2>3 DEF PositionType
    <3> QED BY <1>1, <2>1, <3>1 DEF PositionType
  <2>9. \A i \in Legs : /\ Managed(q.leg[i], g[i]) /\ LegSound(k, i, q.touch, g[i], x[i])
                         /\ Firmer(k, q.leg[i], g[i])
    <3> HIDE DEF q, shut, w
    <3>1. \A i \in Legs : LegOK(p.leg[i]) /\ p.leg[i] \in LegType
                          /\ LegSound(k, i, p.touch, p.leg[i], x[i])
      BY <1>1, LegsOK DEF Good, LegOK
    <3> QED BY <2>5, <2>6, <2>7, <3>1, ManagedSame, FirmerSame
  <2>10. Good(k, [q EXCEPT !.leg = g], x, b) /\ Onward(k, q, [q EXCEPT !.leg = g])
    <3>1. g = [i \in Legs |-> g[i]]
      OBVIOUS
    <3> HIDE DEF q, g
    <3> QED BY <2>7, <2>9, <3>1, LadderGood
  <2> HIDE DEF q, g
  <2> QED BY <1>1, <2>7, <2>8, <2>10, OnwardCompose DEF Good
<1> QED BY <1>2, <1>3

\* Recording a touch that this bar printed.
LEMMA TouchGood ==
    ASSUME NEW k \in Plans, NEW b \in BarType, NEW p, NEW x, Good(k, p, x, b), NEW n \in 1..2,
           NEW cond \in BOOLEAN, cond => HitTp(k, b, n)
    PROVE  LET q == SetTouch(p, n, cond, b) IN
           Good(k, q, x, b) /\ Onward(k, p, q) /\ q.leg = p.leg
<1>1. k \in PlanType /\ PositionOK(p) /\ p \in PositionType /\ x \in [Legs -> Prices]
      /\ k.tp[n] \in Int /\ b.time \in Nat /\ NoTime \notin Nat
  BY PlansAssumption, PlanFields, BarPrices DEF Good, PositionOK, NoTime
<1>2. CASE SetTouch(p, n, cond, b) = p
  BY <1>1, <1>2, OnwardSame
<1>3. CASE SetTouch(p, n, cond, b) # p
  <2> DEFINE touch == [p.touch EXCEPT ![n] = b.time]
             q == [p EXCEPT !.touch = touch]
  <2>1. cond /\ p.touch[n] = NoTime /\ SetTouch(p, n, cond, b) = q
    BY <1>1, <1>3 DEF SetTouch, PositionType
  <2>2. /\ touch \in [1..3 -> Times] /\ touch[n] = b.time
        /\ \A m \in 1..3 : m # n => touch[m] = p.touch[m]
        /\ \A m \in 1..3 : p.touch[m] \in Times
    BY <1>1 DEF PositionType, Times
  <2> HIDE DEF touch
  <2>3. /\ q \in PositionType /\ q.leg = p.leg /\ q.touch = touch /\ q.stage = p.stage
        /\ (q.runner <=> p.runner) /\ p.stage <= q.stage
    BY <1>1, <2>2 DEF PositionType
  <2> HIDE DEF q
  <2>4. Marked(k, q, b.time)
    BY <1>1, <2>2, <2>3 DEF Good, Marked
  <2>5. ASSUME NEW i \in Legs, p.leg[i].status = "OPEN"
        PROVE  OpenSound(k, q.touch, p.leg[i], x[i])
    <3>1. OpenSound(k, p.touch, p.leg[i], x[i]) /\ Seen(k, p.leg[i], b, x[i]) /\ x[i] \in Prices
      BY <1>1, <2>5 DEF Good, LegSound
    <3>2. TouchApplies(p.leg[i], touch[n]) => Got(k, x[i], k.tp[n])
      <4>1. SUFFICES ASSUME TouchApplies(p.leg[i], touch[n]) PROVE Got(k, x[i], k.tp[n])
        OBVIOUS
      <4>2. OpenBefore(p.leg[i], b)
        BY <2>2, <2>5, <4>1 DEF OpenBefore, TouchApplies
      <4>3. TargetTrigger(k.side, b, k.tp[n])
        BY <2>1 DEF HitTp
      <4> QED BY <1>1, <3>1, <4>2, <4>3, TargetSeen
    <3>3. touch[3] = p.touch[3] /\ \A m \in 1..2 : m = n \/ touch[m] = p.touch[m]
      BY <2>2
    <3> QED BY <2>3, <3>1, <3>2, <3>3 DEF OpenSound
  <2>6. \A m \in 1..3 : p.touch[m] # NoTime => q.touch[m] = p.touch[m]
    BY <2>1, <2>2, <2>3
  <2> QED BY <2>1, <2>3, <2>4, <2>5, <2>6, MarksGood
<1> QED BY <1>2, <1>3

\* Promoting the stage.
LEMMA PromoteGood ==
    ASSUME NEW k \in Plans, NEW b \in BarType, NEW p, NEW x, Good(k, p, x, b), NEW n \in 1..2,
           NEW cond, NEW delay
    PROVE  LET q == Promote(p, n, cond, delay, b) IN
           Good(k, q, x, b) /\ Onward(k, p, q) /\ q.leg = p.leg
<1>1. PositionOK(p) /\ p \in PositionType
  BY DEF Good, PositionOK
<1>2. CASE Promote(p, n, cond, delay, b) = p
  BY <1>1, <1>2, OnwardSame
<1>3. CASE Promote(p, n, cond, delay, b) # p
  <2> DEFINE q == [p EXCEPT !.stage = n]
  <2>1. Promote(p, n, cond, delay, b) = q /\ p.stage < n
    BY <1>3 DEF Promote
  <2>2. /\ q \in PositionType /\ q.leg = p.leg /\ q.touch = p.touch /\ q.stage = n
        /\ (q.runner <=> p.runner) /\ p.stage <= q.stage
    BY <1>1, <2>1 DEF PositionType
  <2> HIDE DEF q
  <2>3. p.touch[3] = NoTime
    BY <2>1 DEF Good, Marked
  <2>4. Marked(k, q, b.time)
    BY <2>2, <2>3 DEF Good, Marked
  <2>5. \A i \in Legs : p.leg[i].status = "OPEN" => OpenSound(k, q.touch, p.leg[i], x[i])
    BY <2>2 DEF Good, LegSound
  <2> QED BY <2>1, <2>2, <2>4, <2>5, MarksGood
<1> QED BY <1>2, <1>3

\* Stage 3 of a runner that goes on past TP3.
LEMMA ThirdStageGood ==
    ASSUME NEW k \in Plans, NEW b \in BarType, NEW p, NEW x, Good(k, p, x, b),
           p.stage < 3, k.runnerAfterTp3, HitTp(k, b, 3)
    PROVE  LET q == [p EXCEPT !.stage = 3, !.touch[3] = b.time] IN
           Good(k, q, x, b) /\ Onward(k, p, q)
<1> DEFINE touch == [p.touch EXCEPT ![3] = b.time]
           q == [p EXCEPT !.stage = 3, !.touch = touch]
<1>1. /\ k \in PlanType /\ PositionOK(p) /\ p \in PositionType /\ x \in [Legs -> Prices]
      /\ k.tp[3] \in Int /\ b.time \in Nat
  BY PlansAssumption, PlanFields, BarPrices DEF Good, PositionOK
<1>2. [p EXCEPT !.stage = 3, !.touch[3] = b.time] = q
  BY <1>1 DEF PositionType
<1>3. /\ touch \in [1..3 -> Times] /\ touch[3] = b.time
      /\ touch[1] = p.touch[1] /\ touch[2] = p.touch[2]
      /\ \A m \in 1..3 : m # 3 => touch[m] = p.touch[m]
      /\ \A m \in 1..3 : p.touch[m] \in Times
  BY <1>1 DEF PositionType, Times
<1> HIDE DEF touch
<1>4. /\ q \in PositionType /\ q.leg = p.leg /\ q.touch = touch /\ q.stage = 3
      /\ (q.runner <=> p.runner) /\ p.stage <= q.stage
  <2>1. 3 \in 0..3 /\ p.stage \in 0..3
    BY <1>1 DEF PositionType
  <2>2. /\ q \in PositionType /\ q.leg = p.leg /\ q.touch = touch /\ q.stage = 3
        /\ (q.runner <=> p.runner)
    BY <1>1, <1>3, <2>1 DEF PositionType
  <2> HIDE DEF q
  <2>3. p.stage <= q.stage
    BY <2>1, <2>2
  <2> QED BY <2>2, <2>3
<1> HIDE DEF q
<1>5. Marked(k, q, b.time) /\ p.touch[3] = NoTime
  BY <1>1, <1>3, <1>4 DEF Good, Marked
<1>6. ASSUME NEW i \in Legs, p.leg[i].status = "OPEN"
      PROVE  OpenSound(k, q.touch, p.leg[i], x[i])
  <2>1. OpenSound(k, p.touch, p.leg[i], x[i]) /\ Seen(k, p.leg[i], b, x[i]) /\ x[i] \in Prices
    BY <1>1, <1>6 DEF Good, LegSound
  <2>2. TouchApplies(p.leg[i], touch[3]) => Got(k, x[i], k.tp[3])
    <3>1. SUFFICES ASSUME TouchApplies(p.leg[i], touch[3]) PROVE Got(k, x[i], k.tp[3])
      OBVIOUS
    <3>2. OpenBefore(p.leg[i], b)
      BY <1>3, <1>6, <3>1 DEF OpenBefore, TouchApplies
    <3>3. TargetTrigger(k.side, b, k.tp[3])
      BY DEF HitTp
    <3> QED BY <1>1, <2>1, <3>2, <3>3, TargetSeen
  <2> QED BY <1>3, <1>4, <2>1, <2>2 DEF OpenSound
<1>7. \A m \in 1..3 : p.touch[m] # NoTime => q.touch[m] = p.touch[m]
  BY <1>3, <1>4, <1>5
<1>8. Good(k, q, x, b) /\ Onward(k, p, q)
  BY <1>4, <1>5, <1>6, <1>7, MarksGood
<1> QED BY <1>2, <1>8

LEMMA StagesGood ==
    ASSUME NEW k \in Plans, NEW b \in BarType, NEW p, NEW x, Good(k, p, x, b)
    PROVE  LET q == Stages(k, p, b) IN Good(k, q, x, b) /\ Onward(k, p, q)
<1> DEFINE any == Eligible(p, b) # {}
           t1  == SetTouch(p, 1, any /\ Stage1Active(k) /\ HitTp(k, b, 1), b)
           t2  == SetTouch(t1, 2, any /\ Stage2Active(k) /\ HitTp(k, b, 2), b)
           s1  == Promote(t2, 1, any /\ Stage1Active(k), k.delay1, b)
           s2  == Promote(s1, 2, any /\ Stage2Active(k), k.delay2, b)
           s3  == [s2 EXCEPT !.stage = 3, !.touch[3] = b.time]
<1>0. k \in PlanType
  BY PlansAssumption
<1>3. Good(k, t1, x, b) /\ Onward(k, p, t1)
  <2> DEFINE cond == any /\ Stage1Active(k) /\ HitTp(k, b, 1)
  <2>1. cond \in BOOLEAN /\ (cond => HitTp(k, b, 1)) /\ 1 \in 1..2
    OBVIOUS
  <2> HIDE DEF cond
  <2>2. Good(k, SetTouch(p, 1, cond, b), x, b) /\ Onward(k, p, SetTouch(p, 1, cond, b))
    BY <2>1, TouchGood
  <2> QED BY <2>2 DEF cond
<1>4. Good(k, t2, x, b) /\ Onward(k, t1, t2)
  <2> HIDE DEF t1
  <2> DEFINE cond == any /\ Stage2Active(k) /\ HitTp(k, b, 2)
  <2>1. cond \in BOOLEAN /\ (cond => HitTp(k, b, 2)) /\ 2 \in 1..2
    OBVIOUS
  <2> HIDE DEF cond
  <2>2. Good(k, SetTouch(t1, 2, cond, b), x, b) /\ Onward(k, t1, SetTouch(t1, 2, cond, b))
    BY <1>3, <2>1, TouchGood
  <2> QED BY <2>2 DEF cond
<1>5. Good(k, s1, x, b) /\ Onward(k, t2, s1)
  <2> HIDE DEF t2
  <2> QED BY <1>4, PromoteGood
<1>6. Good(k, s2, x, b) /\ Onward(k, s1, s2)
  <2> HIDE DEF s1
  <2> QED BY <1>5, PromoteGood
<1>7. Onward(k, p, s2)
  <2>1. PositionOK(p) /\ PositionOK(t1) /\ PositionOK(t2) /\ PositionOK(s1) /\ PositionOK(s2)
    BY <1>3, <1>4, <1>5, <1>6 DEF Good
  <2> HIDE DEF t1, t2, s1, s2
  <2>2. Onward(k, p, t2)
    BY <1>0, <1>3, <1>4, <2>1, OnwardCompose
  <2>3. Onward(k, p, s1)
    BY <1>0, <1>5, <2>1, <2>2, OnwardCompose
  <2> QED BY <1>0, <1>6, <2>1, <2>3, OnwardCompose
<1>8. Stages(k, p, b) = IF any /\ RunnerAfterTp3(k) /\ s2.stage < 3 /\ HitTp(k, b, 3) THEN s3 ELSE s2
  BY DEF Stages
<1>9. CASE any /\ RunnerAfterTp3(k) /\ s2.stage < 3 /\ HitTp(k, b, 3)
  <2> HIDE DEF s2
  <2>1. k.runnerAfterTp3
    BY <1>9 DEF RunnerAfterTp3
  <2>2. Good(k, s3, x, b) /\ Onward(k, s2, s3)
    BY <1>6, <1>9, <2>1, ThirdStageGood
  <2>3. Stages(k, p, b) = s3
    BY <1>8, <1>9
  <2> HIDE DEF s3
  <2>4. PositionOK(p) /\ PositionOK(s2) /\ PositionOK(s3)
    BY <1>6, <2>2 DEF Good
  <2> QED BY <1>0, <1>7, <2>2, <2>3, <2>4, OnwardCompose
<1>10. CASE ~(any /\ RunnerAfterTp3(k) /\ s2.stage < 3 /\ HitTp(k, b, 3))
  <2> HIDE DEF s2
  <2> QED BY <1>6, <1>7, <1>8, <1>10
<1> QED BY <1>9, <1>10

\* The runner's protection: a trail at TP2 or better under every leg it covers.
LEMMA RunnerStopGood ==
    ASSUME NEW k \in Plans, NEW b \in BarType, NEW p, NEW x, Good(k, p, x, b), k.trendRunner
    PROVE  LET q == RunnerStop(k, p, b) IN Good(k, q, x, b) /\ Onward(k, p, q)
<1> DEFINE h  == [i \in Legs |-> RunnerLeg(k, p.leg[i], b)]
           r  == [p EXCEPT !.leg = h]
           t3 == IF r.touch[3] = NoTime THEN b.time ELSE r.touch[3]
           touch == [r.touch EXCEPT ![3] = t3]
           s  == [r EXCEPT !.stage = 3, !.touch = touch, !.runner = TRUE]
<1>1. k \in PlanType /\ PositionOK(p) /\ p \in PositionType /\ x \in [Legs -> Prices] /\ b.time \in Nat
  BY PlansAssumption, BarPrices DEF Good, PositionOK
<1>2. ASSUME NEW i \in Legs
      PROVE  /\ Managed(p.leg[i], h[i]) /\ LegSound(k, i, p.touch, h[i], x[i])
             /\ Firmer(k, p.leg[i], h[i])
             /\ OpenBefore(p.leg[i], b) =>
                  h[i].trail # NoPrice /\ ~Beyond(k.side, k.tp[2], h[i].trail)
  <2>1. \A j \in Legs : LegOK(p.leg[j]) /\ LegSound(k, j, p.touch, p.leg[j], x[j]) /\ x[j] \in Prices
    BY <1>1, LegsOK DEF Good
  <2> QED BY <1>1, <2>1, RunnerLegManaged, RunnerLegSound
<1>3. h = [i \in Legs |-> h[i]]
  OBVIOUS
<1>4. RunnerStop(k, p, b) = p \/ RunnerStop(k, p, b) = s
  <2>1. /\ [p EXCEPT !.leg = [i \in Legs |-> RunnerLeg(k, @[i], b)]] = r
        /\ DOMAIN r = {"leg", "stage", "touch", "firstFill", "scaled", "runner", "last"}
    BY <1>1 DEF PositionType
  <2>2. RunnerStop(k, p, b) = p
        \/ RunnerStop(k, p, b) = [[p EXCEPT !.leg = [i \in Legs |-> RunnerLeg(k, @[i], b)]]
                                    EXCEPT !.stage = 3,
                                           !.touch[3] = IF @ = NoTime THEN b.time ELSE @,
                                           !.runner = TRUE]
    BY <1>1 DEF RunnerStop, PositionType
  <2> HIDE DEF r
  <2>3. [r EXCEPT !.stage = 3, !.touch[3] = IF @ = NoTime THEN b.time ELSE @, !.runner = TRUE] = s
    BY <2>1
  <2> QED BY <2>1, <2>2, <2>3
<1>5. r.leg = h
  BY <1>1 DEF PositionType
<1> HIDE DEF h
<1>6. Good(k, r, x, b) /\ Onward(k, p, r)
  BY <1>2, <1>3, LadderGood
<1> HIDE DEF r
<1>7. PositionOK(r) /\ r \in PositionType /\ \A m \in 1..3 : r.touch[m] \in Times
  BY <1>6 DEF Good, PositionOK, PositionType
<1>8. /\ touch \in [1..3 -> Times] /\ touch[3] = t3 /\ t3 \in Times
      /\ touch[1] = r.touch[1] /\ touch[2] = r.touch[2]
      /\ \A m \in 1..3 : m # 3 => touch[m] = r.touch[m]
  BY <1>1, <1>7 DEF PositionType, Times
<1>9. \A m \in 1..3 : r.touch[m] # NoTime => touch[m] = r.touch[m]
  BY <1>8
<1>10. \A m \in 1..3 : touch[m] <= b.time
  <2>1. \A m \in 1..3 : r.touch[m] <= b.time
    BY <1>6 DEF Good, Marked
  <2> QED BY <1>1, <1>8, <2>1
<1> HIDE DEF touch
<1>11. /\ s \in PositionType /\ s.leg = r.leg /\ s.touch = touch /\ s.stage = 3 /\ s.runner
       /\ r.stage <= s.stage
  <2>1. 3 \in 0..3 /\ TRUE \in BOOLEAN /\ r.stage \in 0..3
    BY <1>7 DEF PositionType
  <2>2. s \in PositionType /\ s.leg = r.leg /\ s.touch = touch /\ s.stage = 3 /\ s.runner
    BY <1>7, <1>8, <2>1 DEF PositionType
  <2> HIDE DEF s
  <2>3. r.stage <= s.stage
    BY <2>1, <2>2
  <2> QED BY <2>2, <2>3
<1> HIDE DEF s
<1>12. Marked(k, s, b.time)
  BY <1>10, <1>11 DEF Marked
<1>13. ASSUME NEW i \in Legs, r.leg[i].status = "OPEN"
       PROVE  OpenSound(k, s.touch, r.leg[i], x[i])
  <2>1. OpenSound(k, r.touch, r.leg[i], x[i])
    BY <1>6, <1>13 DEF Good, LegSound
  <2>2. CASE r.touch[3] # NoTime
    BY <1>8, <1>11, <2>1, <2>2 DEF OpenSound
  <2>3. CASE r.touch[3] = NoTime
    <3>1. TouchApplies(r.leg[i], touch[3]) =>
             r.leg[i].trail # NoPrice /\ ~Beyond(k.side, k.tp[2], r.leg[i].trail)
      <4>1. SUFFICES ASSUME TouchApplies(r.leg[i], b.time)
                     PROVE  r.leg[i].trail # NoPrice /\ ~Beyond(k.side, k.tp[2], r.leg[i].trail)
        BY <1>8, <2>3
      <4>2. OpenBefore(h[i], b)
        BY <1>5, <1>13, <4>1 DEF OpenBefore, TouchApplies
      <4>3. /\ Managed(p.leg[i], h[i])
            /\ OpenBefore(p.leg[i], b) => h[i].trail # NoPrice /\ ~Beyond(k.side, k.tp[2], h[i].trail)
        BY <1>2
      <4>4. OpenBefore(p.leg[i], b)
        BY <4>2, <4>3 DEF Managed, OpenBefore
      <4> QED BY <1>5, <4>3, <4>4
    <3> QED BY <1>8, <1>11, <2>1, <3>1 DEF OpenSound
  <2> QED BY <2>2, <2>3
<1>14. Good(k, s, x, b) /\ Onward(k, r, s)
  BY <1>6, <1>9, <1>11, <1>12, <1>13, MarksGood
<1>15. Onward(k, p, s) /\ Onward(k, p, p)
  BY <1>1, <1>6, <1>14, OnwardCompose, OnwardSame DEF Good
<1> QED BY <1>4, <1>14, <1>15

LEMMA TrailsGood ==
    ASSUME NEW k \in Plans, NEW b, Printed(k, b), NEW p, NEW x, Good(k, p, x, b),
           NEW ratchet \in BOOLEAN, ratchet => k.trendRunner
    PROVE  LET q == Trails(k, p, b, ratchet) IN Good(k, q, x, b) /\ Onward(k, p, q)
<1> DEFINE g       == [i \in Legs |-> TrailLeg(k, p.leg[i], b)]
           trailed == [p EXCEPT !.leg = g]
<1>1. k \in PlanType /\ PositionOK(p) /\ p \in PositionType /\ x \in [Legs -> Prices] /\ b \in BarType
  BY PlansAssumption DEF Good, PositionOK, Printed
<1>2. \A i \in Legs : /\ Managed(p.leg[i], g[i]) /\ LegSound(k, i, p.touch, g[i], x[i])
                       /\ Firmer(k, p.leg[i], g[i])
  <2>1. \A i \in Legs : /\ LegOK(p.leg[i]) /\ LegSound(k, i, p.touch, p.leg[i], x[i])
                         /\ Seen(k, p.leg[i], b, x[i]) /\ x[i] \in Prices
    BY <1>1, LegsOK DEF Good
  <2> QED BY <1>1, <2>1, TrailLegManaged, TrailLegSound
<1>3. g = [i \in Legs |-> g[i]]
  OBVIOUS
<1>4. \/ Trails(k, p, b, ratchet) = trailed
      \/ ratchet /\ Trails(k, p, b, ratchet) = RunnerStop(k, trailed, b)
  <2>1. trailed = [p EXCEPT !.leg = [i \in Legs |-> TrailLeg(k, @[i], b)]]
    BY <1>1 DEF PositionType
  <2> HIDE DEF trailed
  <2> QED BY <2>1 DEF Trails
<1> HIDE DEF g
<1>5. Good(k, trailed, x, b) /\ Onward(k, p, trailed)
  BY <1>1, <1>2, <1>3, LadderGood
<1> HIDE DEF trailed
<1>6. CASE Trails(k, p, b, ratchet) = trailed
  BY <1>5, <1>6
<1>7. CASE ratchet /\ Trails(k, p, b, ratchet) = RunnerStop(k, trailed, b)
  <2> DEFINE q == RunnerStop(k, trailed, b)
  <2>1. Good(k, q, x, b) /\ Onward(k, trailed, q)
    BY <1>1, <1>5, <1>7, RunnerStopGood
  <2> HIDE DEF q
  <2>2. Onward(k, p, q)
    BY <1>1, <1>5, <2>1, OnwardCompose DEF Good
  <2> QED BY <1>7, <2>1, <2>2 DEF q
<1> QED BY <1>4, <1>6, <1>7

LEMMA ManageOpenGood ==
    ASSUME NEW k \in Plans, NEW b, Printed(k, b), NEW p, NEW x, Good(k, p, x, b)
    PROVE  LET q == ManageOpen(k, p, b) IN Good(k, q, x, b) /\ Onward(k, p, q)
<1> DEFINE engaged == p.runner \/ RunnerHolds(k, b)
           closed  == Exits(k, p, b)
           exits   == [closed EXCEPT !.runner = engaged]
           banked  == ScaleOut(k, exits, b, 1)
           scaled  == ScaleOut(k, banked, b, 2)
           staged  == Stages(k, scaled, b)
           trailed == Trails(k, staged, b, engaged)
<1>1. k \in PlanType /\ b \in BarType /\ PositionOK(p) /\ p \in PositionType
      /\ 1 \in 1..2 /\ 2 \in 1..2
  BY PlansAssumption DEF Good, PositionOK, Printed
<1>2. engaged \in BOOLEAN /\ (engaged => k.trendRunner)
  BY <1>1 DEF RunnerHolds, Good, Marked, PositionType
<1>3. ManageOpen(k, p, b) = trailed
  BY <1>1 DEF ManageOpen, PositionType
<1> HIDE DEF engaged
<1>4. Good(k, closed, x, b) /\ Onward(k, p, closed)
  BY <1>1, ExitsGood
<1> HIDE DEF closed
<1>5. Good(k, exits, x, b) /\ Onward(k, closed, exits)
  BY <1>1, <1>2, <1>4, EngagedGood
<1> HIDE DEF exits
<1>6. Good(k, banked, x, b) /\ Onward(k, exits, banked)
  BY <1>1, <1>5, ScaleOutGood
<1> HIDE DEF banked
<1>7. Good(k, scaled, x, b) /\ Onward(k, banked, scaled)
  BY <1>1, <1>6, ScaleOutGood
<1> HIDE DEF scaled
<1>8. Good(k, staged, x, b) /\ Onward(k, scaled, staged)
  BY <1>1, <1>7, StagesGood
<1> HIDE DEF staged
<1>9. Good(k, trailed, x, b) /\ Onward(k, staged, trailed)
  BY <1>2, <1>8, TrailsGood
<1> HIDE DEF trailed
<1>10. /\ PositionOK(closed) /\ PositionOK(exits) /\ PositionOK(banked) /\ PositionOK(scaled)
       /\ PositionOK(staged) /\ PositionOK(trailed)
  BY <1>4, <1>5, <1>6, <1>7, <1>8, <1>9 DEF Good
<1>11. Onward(k, p, exits)
  BY <1>1, <1>4, <1>5, <1>10, OnwardCompose
<1>12. Onward(k, p, banked)
  BY <1>1, <1>6, <1>10, <1>11, OnwardCompose
<1>13. Onward(k, p, scaled)
  BY <1>1, <1>7, <1>10, <1>12, OnwardCompose
<1>14. Onward(k, p, staged)
  BY <1>1, <1>8, <1>10, <1>13, OnwardCompose
<1>15. Onward(k, p, trailed)
  BY <1>1, <1>9, <1>10, <1>14, OnwardCompose
<1> QED BY <1>3, <1>9, <1>15

LEMMA TimeExitGood ==
    ASSUME NEW k \in Plans, NEW b \in BarType, NEW p, NEW x, Good(k, p, x, b)
    PROVE  LET q == TimeExit(k, p, b) IN Good(k, q, x, b) /\ Onward(k, p, q)
<1> DEFINE quote == IF k.side = "BUY" THEN b.close ELSE b.close + b.spread
           g == [i \in Legs |-> IF p.leg[i].status = "OPEN"
                                THEN CloseLeg(p.leg[i], "TIME_EXIT", b.time, quote, NoPrice)
                                ELSE p.leg[i]]
<1>1. k \in PlanType /\ PositionOK(p) /\ p \in PositionType
  BY PlansAssumption DEF Good, PositionOK
<1>2. \/ TimeExit(k, p, b) = p
      \/ TimeExit(k, p, b) = [p EXCEPT !.leg = g]
  BY <1>1 DEF TimeExit, PositionType
<1>3. quote \in Int /\ b.time \in Nat /\ "TIME_EXIT" \in Terminal /\ NoPrice \in Prices
  BY BarPrices DEF Terminal, Prices
<1> HIDE DEF quote
<1>4. ASSUME NEW i \in Legs
      PROVE  /\ Managed(p.leg[i], g[i]) /\ LegSound(k, i, p.touch, g[i], x[i])
             /\ Firmer(k, p.leg[i], g[i])
  <2>1. LegOK(p.leg[i]) /\ LegSound(k, i, p.touch, p.leg[i], x[i]) /\ p.leg[i] \in LegType
    BY <1>1, LegsOK DEF Good, LegOK
  <2>2. CASE p.leg[i].status = "OPEN"
    <3>1. LockEarned(k, "TIME_EXIT", x[i]) /\ ExitReal(k, "TIME_EXIT", quote, p.leg[i].price, x[i])
      BY DEF LockEarned, ExitReal
    <3>2. g[i] = CloseLeg(p.leg[i], "TIME_EXIT", b.time, quote, NoPrice)
      BY <2>2
    <3> QED BY <1>3, <2>1, <2>2, <3>1, <3>2, CloseManaged, CloseSound
  <2>3. CASE p.leg[i].status # "OPEN"
    BY <2>1, <2>3, ManagedSame, FirmerSame
  <2> QED BY <2>2, <2>3
<1>5. g = [i \in Legs |-> g[i]]
  OBVIOUS
<1> HIDE DEF g
<1> QED BY <1>1, <1>2, <1>4, <1>5, LadderGood, OnwardSame

-----------------------------------------------------------------------------
(* Filling a leg of a sound ladder                                         *)

\* What filling changes of a resting leg: nothing that ranks it, and when it fills it is
\* filled now, with a stop that is not better than its price.
Entered(e, f, k, b) ==
    /\ f.planned = e.planned /\ f.trail = e.trail /\ (f.bep <=> e.bep)
    /\ \/ f.status = e.status /\ f.fill = e.fill /\ f.price = e.price /\ f.sl = e.sl
       \/ f.status = "OPEN" /\ f.fill = b.time /\ ~Beyond(k.side, f.sl, f.price)

LEMMA LimitEntered ==
    ASSUME NEW k, NEW b, NEW e, LegOK(e), ~Beyond(k.side, e.sl, e.price)
    PROVE  Entered(e, LimitFill(k, e, b), k, b)
<1> DEFINE f == LimitFill(k, e, b)
<1>1. \E armed : \/ f = [e EXCEPT !.armed = TRUE, !.status = "OPEN", !.fill = b.time]
                 \/ f = [e EXCEPT !.armed = armed]
  BY DEF LimitFill
<1>2. PICK armed : \/ f = [e EXCEPT !.armed = TRUE, !.status = "OPEN", !.fill = b.time]
                   \/ f = [e EXCEPT !.armed = armed]
  BY <1>1
<1> HIDE DEF f
<1> SUFFICES Entered(e, f, k, b)
  BY DEF f
<1> QED BY <1>2 DEF Entered, LegOK, LegType

LEMMA MarketSideEntered ==
    ASSUME NEW k \in PlanType, NEW b, NEW e \in LegType, NEW price \in Int
    PROVE  Entered(e, MarketSideFill(k, e, price, b), k, b)
<1> DEFINE planned == IF k.sharedSl THEN Distance(e.price, SharedLevel(k)) ELSE k.baseDist
           sl      == Away(k.side, price, -planned)
           f       == [e EXCEPT !.status = "OPEN", !.fill = b.time, !.price = price, !.sl = sl]
<1>1. planned \in Nat
  <2>1. e.price \in Int /\ SharedLevel(k) \in Int
    BY InitialStopInt, LegsAssumption DEF LegType
  <2> QED BY <2>1, PlanFields, PriceOps
<1> HIDE DEF planned
<1>2. ~Beyond(k.side, sl, price)
  BY <1>1 DEF Away, Beyond
<1> HIDE DEF sl
<1>3. MarketSideFill(k, e, price, b) = f
  BY DEF MarketSideFill, planned, sl
<1>4. /\ f.planned = e.planned /\ f.trail = e.trail /\ (f.bep <=> e.bep)
      /\ f.status = "OPEN" /\ f.fill = b.time /\ f.price = price /\ f.sl = sl
  BY DEF LegType
<1> HIDE DEF f
<1> QED BY <1>2, <1>3, <1>4 DEF Entered

LEMMA TrailingOpenEntered ==
    ASSUME NEW k \in PlanType, NEW b \in BarType, NEW e, LegOK(e), ~Beyond(k.side, e.sl, e.price)
    PROVE  Entered(e, TrailingOpenFill(k, e, b), k, b)
<1> DEFINE f       == TrailingOpenFill(k, e, b)
           dip     == Dip(k.side, b)
           extreme == Looser(k.side, e.extreme, dip)
           trigger == Away(k.side, extreme, k.trailOpen)
           seen    == [e EXCEPT !.extreme = extreme]
           first   == [e EXCEPT !.touchedAt = b.time, !.extreme = dip]
<1>1. e \in LegType /\ dip \in Int /\ k.trailOpen \in Nat
  BY BarPrices, PlanFields DEF LegOK
<1>2. \/ e.touchedAt = NoTime /\ (f = e \/ f = first)
      \/ e.touchedAt # NoTime /\ (f = seen \/ f = MarketSideFill(k, seen, trigger, b))
  BY DEF TrailingOpenFill
<1> SUFFICES Entered(e, f, k, b)
  OBVIOUS
<1> HIDE DEF f, dip
<1>3. CASE f = e \/ f = first
  BY <1>1, <1>3 DEF Entered, LegType
<1>4. CASE e.touchedAt # NoTime /\ (f = seen \/ f = MarketSideFill(k, seen, trigger, b))
  <2>1. extreme \in Int /\ trigger \in Int
    BY <1>1, <1>4 DEF LegOK, Armed, Looser, Away
  <2> HIDE DEF extreme, trigger
  <2>2. /\ seen \in LegType /\ seen.planned = e.planned /\ seen.trail = e.trail /\ (seen.bep <=> e.bep)
        /\ seen.status = e.status /\ seen.fill = e.fill /\ seen.price = e.price /\ seen.sl = e.sl
    BY <1>1, <2>1 DEF LegType, Prices
  <2> HIDE DEF seen
  <2>3. CASE f = seen
    BY <2>2, <2>3 DEF Entered
  <2>4. CASE f = MarketSideFill(k, seen, trigger, b)
    <3>1. Entered(seen, f, k, b)
      BY <2>1, <2>2, <2>4, MarketSideEntered
    <3> QED BY <2>2, <3>1 DEF Entered
  <2> QED BY <1>4, <2>3, <2>4
<1> QED BY <1>2, <1>3, <1>4

\* A leg that fills on this bar starts clean: no touch applies to it yet.
LEMMA FillSound ==
    ASSUME NEW k \in Plans, NEW b \in BarType, NEW i \in Legs, NEW touch, NEW e, LegOK(e),
           Unchased(k, e), NEW x, LegSound(k, i, touch, e, x), Seen(k, e, b, x),
           \A n \in 1..3 : touch[n] \in Times /\ touch[n] < b.time
    PROVE  LET f == FillLeg(k, e, b) IN
           LegSound(k, i, touch, f, x) /\ Seen(k, f, b, x) /\ Firmer(k, e, f)
<1> DEFINE f == FillLeg(k, e, b)
<1>1. k \in PlanType /\ e \in LegType /\ Laddered(k, i, e) /\ b.time \in Nat /\ NoTime \notin Nat
  BY PlansAssumption, BarPrices DEF LegOK, LegSound, NoTime
<1>2. CASE e.status # "PENDING"
  BY <1>1, <1>2, FirmerSame DEF FillLeg
<1>3. CASE e.status = "PENDING"
  <2>1. Entered(e, f, k, b) /\ Taken(k, e, f, b)
    BY <1>1, <1>3, LimitEntered, TrailingOpenEntered, FillTaken DEF FillLeg, Laddered
  <2> SUFFICES LegSound(k, i, touch, f, x) /\ Seen(k, f, b, x) /\ Firmer(k, e, f)
    OBVIOUS
  <2> HIDE DEF f
  <2>2. ~e.bep /\ e.trail = NoPrice /\ e.fill = NoTime
    BY <1>3 DEF LegSound, Unchased
  <2>3. Firmer(k, e, f)
    BY <1>1, <2>1, FirmerSame DEF Entered
  <2>4. CASE f.status = e.status /\ f.fill = e.fill /\ f.price = e.price /\ f.sl = e.sl
    <3>1. LegSound(k, i, touch, f, x)
      BY <1>1, <1>3, <2>1, <2>2, <2>4 DEF LegSound, Laddered, Entered, Terminal
    <3>2. Seen(k, f, b, x)
      BY <1>3, <2>4 DEF Seen, OpenBefore
    <3> QED BY <2>3, <3>1, <3>2
  <2>5. CASE f.status = "OPEN" /\ f.fill = b.time /\ ~Beyond(k.side, f.sl, f.price)
    <3>1. Laddered(k, i, f)
      BY <1>1, <2>1, <2>5 DEF Laddered, Entered, Taken, Unchased
    <3>2. \A n \in 1..3 : ~TouchApplies(f, touch[n])
      BY <1>1, <2>5 DEF TouchApplies, Times
    <3>3. OpenSound(k, touch, f, x)
      BY <1>1, <2>1, <2>2, <2>5, <3>2 DEF OpenSound, Entered
    <3>4. LegSound(k, i, touch, f, x)
      BY <2>5, <3>1, <3>3 DEF LegSound, Terminal
    <3>5. Seen(k, f, b, x)
      BY <1>1, <2>5 DEF Seen, OpenBefore
    <3> QED BY <2>3, <3>4, <3>5
  <2> QED BY <2>1, <2>4, <2>5 DEF Entered
<1> QED BY <1>2, <1>3

LEMMA ExpireSound ==
    ASSUME NEW k, NEW b, NEW i, NEW touch, NEW e, LegOK(e), NEW x,
           LegSound(k, i, touch, e, x), Seen(k, e, b, x)
    PROVE  LET f == ExpireLeg(e) IN
           LegSound(k, i, touch, f, x) /\ Seen(k, f, b, x) /\ Firmer(k, e, f)
<1> DEFINE f == [e EXCEPT !.status = "NO_FILL"]
<1>1. e \in LegType
  BY DEF LegOK
<1>2. CASE e.status # "PENDING"
  BY <1>1, <1>2, FirmerSame DEF ExpireLeg
<1>3. CASE e.status = "PENDING"
  <2>1. /\ f.status = "NO_FILL" /\ f.planned = e.planned /\ f.price = e.price /\ f.sl = e.sl
        /\ f.trail = e.trail /\ (f.bep <=> e.bep)
    BY <1>1 DEF LegType
  <2>2. ExpireLeg(e) = f
    BY <1>3 DEF ExpireLeg
  <2> HIDE DEF f
  <2>3. LegSound(k, i, touch, f, x)
    BY <2>1 DEF LegSound, Laddered, LockEarned, ExitReal
  <2>4. Seen(k, f, b, x)
    BY <2>1 DEF Seen, OpenBefore
  <2> QED BY <1>1, <2>1, <2>2, <2>3, <2>4, FirmerSame
<1> QED BY <1>2, <1>3

\* The filling phase, leg by leg, and what of the position it leaves alone.
LEMMA FillsFields ==
    ASSUME NEW k, NEW b, NEW p \in PositionType
    PROVE  LET q == FillsAndExpiry(k, p, b) IN
           /\ q.stage = p.stage /\ q.touch = p.touch /\ (q.runner <=> p.runner)
           /\ \A i \in Legs : \E f \in {p.leg[i], FillLeg(k, p.leg[i], b)} :
                 q.leg[i] = f \/ q.leg[i] = ExpireLeg(f)
<1> DEFINE g      == [i \in Legs |-> FillLeg(k, p.leg[i], b)]
           ladder == [p EXCEPT !.leg = g]
           inWin  == SetFirstFill(ladder, b)
           filled == IF InWindow(k, b) THEN inWin ELSE p
           h      == [i \in Legs |-> ExpireLeg(filled.leg[i])]
           q      == FillsAndExpiry(k, p, b)
<1>1. [p EXCEPT !.leg = [i \in Legs |-> FillLeg(k, @[i], b)]] = ladder
  BY DEF PositionType
<1>2. /\ DOMAIN ladder = DOMAIN p
      /\ ladder.leg = g /\ ladder.stage = p.stage /\ ladder.touch = p.touch
      /\ (ladder.runner <=> p.runner)
      /\ DOMAIN p = {"leg", "stage", "touch", "firstFill", "scaled", "runner", "last"}
  BY DEF PositionType
<1>3. \A i \in Legs : g[i] = FillLeg(k, p.leg[i], b)
  OBVIOUS
<1>4. [filled EXCEPT !.leg = [i \in Legs |-> ExpireLeg(@[i])]] = [filled EXCEPT !.leg = h]
  OBVIOUS
<1> HIDE DEF g, ladder
<1>5. inWin.leg = g /\ inWin.stage = p.stage /\ inWin.touch = p.touch /\ (inWin.runner <=> p.runner)
      /\ DOMAIN inWin = DOMAIN p
  BY <1>2 DEF SetFirstFill
<1>6. \/ q = filled
      \/ q = [filled EXCEPT !.leg = h]
  BY <1>1, <1>4 DEF FillsAndExpiry
<1> HIDE DEF inWin, q
<1>7. /\ filled.stage = p.stage /\ filled.touch = p.touch /\ (filled.runner <=> p.runner)
      /\ DOMAIN filled = DOMAIN p
      /\ \A i \in Legs : filled.leg[i] \in {p.leg[i], FillLeg(k, p.leg[i], b)}
  BY <1>3, <1>5
<1>8. \A i \in Legs : h[i] = ExpireLeg(filled.leg[i])
  OBVIOUS
<1> HIDE DEF filled, h
<1>9. /\ q.stage = p.stage /\ q.touch = p.touch /\ (q.runner <=> p.runner)
      /\ q.leg = filled.leg \/ q.leg = h
  BY <1>2, <1>6, <1>7
<1>10. ASSUME NEW i \in Legs
       PROVE  \E f \in {p.leg[i], FillLeg(k, p.leg[i], b)} : q.leg[i] = f \/ q.leg[i] = ExpireLeg(f)
  BY <1>7, <1>8, <1>9
<1> QED BY <1>9, <1>10 DEF q

LEMMA FillsGood ==
    ASSUME NEW k \in Plans, NEW b \in BarType, NEW p, NEW now \in Times, now < b.time,
           Steady(k, p, now), Marked(k, p, now), NEW x, Good(k, p, x, b)
    PROVE  LET q == FillsAndExpiry(k, p, b) IN Good(k, q, x, b) /\ Onward(k, p, q)
<1> DEFINE q == FillsAndExpiry(k, p, b)
<1>1. /\ k \in PlanType /\ PositionOK(p) /\ p \in PositionType /\ x \in [Legs -> Prices]
      /\ b.time \in Nat
  BY PlansAssumption, BarPrices DEF Good, PositionOK
<1>2. PositionOK(q)
  BY <1>1, FillsSteady DEF Steady
<1>3. /\ q.stage = p.stage /\ q.touch = p.touch /\ (q.runner <=> p.runner)
      /\ \A i \in Legs : \E f \in {p.leg[i], FillLeg(k, p.leg[i], b)} :
            q.leg[i] = f \/ q.leg[i] = ExpireLeg(f)
  BY <1>1, FillsFields
<1> HIDE DEF q
<1>4. \A n \in 1..3 : p.touch[n] \in Times /\ p.touch[n] < b.time
  <2>1. \A n \in 1..3 : p.touch[n] \in Times /\ p.touch[n] <= now
    BY <1>1 DEF Marked, PositionType
  <2> QED BY <1>1, <2>1 DEF Times, NoTime
<1>5. ASSUME NEW i \in Legs
      PROVE  /\ LegSound(k, i, q.touch, q.leg[i], x[i]) /\ Seen(k, q.leg[i], b, x[i])
             /\ Firmer(k, p.leg[i], q.leg[i])
  <2> DEFINE e == p.leg[i]
  <2>1. /\ LegOK(e) /\ e \in LegType /\ Unchased(k, e) /\ LegSound(k, i, p.touch, e, x[i])
        /\ Seen(k, e, b, x[i]) /\ x[i] \in Prices
    BY <1>1, LegsOK DEF Good, Steady, LegOK
  <2> HIDE DEF e
  <2>2. PICK f \in {e, FillLeg(k, e, b)} : q.leg[i] = f \/ q.leg[i] = ExpireLeg(f)
    BY <1>3 DEF e
  <2>3. /\ LegOK(f) /\ Unchased(k, f) /\ LegSound(k, i, p.touch, f, x[i])
        /\ Seen(k, f, b, x[i]) /\ Firmer(k, e, f)
    <3>1. CASE f = e
      BY <2>1, <3>1, FirmerSame
    <3>2. CASE f = FillLeg(k, e, b)
      <4>1. Taken(k, e, f, b)
        BY <1>1, <2>1, <3>2, FillTaken
      <4>2. LegSound(k, i, p.touch, f, x[i]) /\ Seen(k, f, b, x[i]) /\ Firmer(k, e, f)
        BY <1>4, <2>1, <3>2, FillSound
      <4> QED BY <4>1, <4>2 DEF Taken
    <3> QED BY <2>2, <3>1, <3>2
  <2>4. CASE q.leg[i] = f
    BY <1>3, <2>3, <2>4 DEF e
  <2>5. CASE q.leg[i] = ExpireLeg(f)
    <3> DEFINE g == ExpireLeg(f)
    <3>1. LegSound(k, i, p.touch, g, x[i]) /\ Seen(k, g, b, x[i]) /\ Firmer(k, f, g)
      BY <2>3, ExpireSound
    <3>2. f \in LegType /\ g \in LegType
      BY <1>1, <2>3, ExpireTaken DEF Taken, LegOK
    <3>3. q.leg[i] = g
      BY <2>5
    <3> HIDE DEF g
    <3>4. Firmer(k, e, g)
      BY <1>1, <2>1, <2>3, <3>1, <3>2, FirmerCompose
    <3> QED BY <1>3, <3>1, <3>3, <3>4 DEF e
  <2> QED BY <2>2, <2>4, <2>5
<1>6. Marked(k, q, b.time)
  BY <1>3 DEF Good, Marked
<1>7. Good(k, q, x, b)
  BY <1>1, <1>2, <1>5, <1>6 DEF Good
<1>8. p.stage <= q.stage
  BY <1>1, <1>3 DEF PositionType
<1>9. Onward(k, p, q)
  BY <1>3, <1>5, <1>8 DEF Onward
<1> QED BY <1>7, <1>9 DEF q

-----------------------------------------------------------------------------
(* One bar, for the sound ladder                                           *)

LEMMA AdvanceGood ==
    ASSUME NEW k \in Plans, NEW b, Printed(k, b), NEW p, Steady(k, p, p.last),
           p.last < b.time, Marked(k, p, p.last), NEW x, Good(k, p, x, b)
    PROVE  LET q == AdvanceOneBar(k, p, b) IN
           /\ Good(k, q, x, b) /\ Onward(k, p, q)
           /\ \A i \in Legs : p.leg[i].status = "OPEN" =>
                /\ q.leg[i].price = p.leg[i].price /\ q.leg[i].sl = p.leg[i].sl
                /\ q.leg[i].fill = p.leg[i].fill /\ q.leg[i].planned = p.leg[i].planned
<1> DEFINE filled  == FillsAndExpiry(k, p, b)
           managed == IF OpenLegs(filled) # {} THEN ManageOpen(k, filled, b) ELSE filled
           timed   == TimeExit(k, managed, b)
           q       == [timed EXCEPT !.last = b.time]
<1>1. k \in PlanType /\ b \in BarType /\ p.last \in Times /\ PositionOK(p) /\ b.time \in Times
  BY PlansAssumption, BarPrices DEF Good, PositionOK, PositionType, Printed, Times
<1>2. AdvanceOneBar(k, p, b) = q
  BY DEF AdvanceOneBar
<1>3. Good(k, filled, x, b) /\ Onward(k, p, filled)
  BY <1>1, FillsGood
<1>4. \A i \in Legs : p.leg[i].status # "PENDING" => filled.leg[i] = p.leg[i]
  BY <1>1, FillsSteady
<1> HIDE DEF filled
<1>5. Good(k, managed, x, b) /\ Onward(k, filled, managed) /\ Phase(filled, managed)
  <2>1. PositionOK(filled) /\ filled \in PositionType
    BY <1>3 DEF Good, PositionOK
  <2> QED BY <1>1, <1>3, <2>1, ManageOpenGood, ManageOpenPhase, OnwardSame, StagePhase
<1> HIDE DEF managed
<1>6. Good(k, timed, x, b) /\ Onward(k, managed, timed) /\ Phase(managed, timed)
  BY <1>1, <1>5, TimeExitGood, TimeExitPhase DEF Good
<1> HIDE DEF timed
<1>7. PositionOK(filled) /\ PositionOK(managed) /\ PositionOK(timed) /\ timed \in PositionType
  BY <1>3, <1>5, <1>6 DEF Good, PositionOK
<1>8. Onward(k, p, managed)
  BY <1>1, <1>3, <1>5, <1>7, OnwardCompose
<1>9. Onward(k, p, timed) /\ Phase(filled, timed)
  BY <1>1, <1>5, <1>6, <1>7, <1>8, OnwardCompose, PhaseCompose
<1>10. /\ q.leg = timed.leg /\ q.stage = timed.stage /\ q.touch = timed.touch
       /\ (q.runner <=> timed.runner) /\ q \in PositionType
  BY <1>1, <1>7 DEF PositionType
<1> HIDE DEF q
<1>11. PositionOK(q)
  BY <1>7, <1>10 DEF PositionOK
<1>12. Marked(k, q, b.time)
  BY <1>6, <1>10 DEF Good, Marked
<1>13. Good(k, q, x, b)
  BY <1>6, <1>10, <1>11, <1>12 DEF Good
<1>14. Onward(k, p, q)
  BY <1>9, <1>10 DEF Onward
<1>15. ASSUME NEW i \in Legs, p.leg[i].status = "OPEN"
       PROVE  /\ q.leg[i].price = p.leg[i].price /\ q.leg[i].sl = p.leg[i].sl
              /\ q.leg[i].fill = p.leg[i].fill /\ q.leg[i].planned = p.leg[i].planned
  <2>1. Managed(filled.leg[i], timed.leg[i]) /\ filled.leg[i] = p.leg[i]
    BY <1>4, <1>9, <1>15 DEF Phase
  <2> QED BY <1>10, <2>1 DEF Managed
<1> QED BY <1>2, <1>13, <1>14, <1>15

-----------------------------------------------------------------------------
(* The invariant of the exits                                              *)

Earned ==
    /\ IInv
    /\ Marked(plan, pos, pos.last)
    /\ \A i \in Legs : LegSound(plan, i, pos.touch, pos.leg[i], best[i])

LEMMA InitEarned == Init => Earned
<1> SUFFICES ASSUME Init PROVE Earned
  OBVIOUS
<1>1. IInv
  BY InitIInv
<1>2. plan \in Plans /\ plan \in PlanType /\ SoundPlan(plan)
  BY PlansAssumption DEF Init
<1>3. /\ pos.touch = [n \in 1..3 |-> NoTime] /\ ~pos.runner /\ pos.last = NoTime
      /\ \A i \in Legs : /\ pos.leg[i].status = "PENDING" /\ ~pos.leg[i].bep
                         /\ pos.leg[i].trail = NoPrice
                         /\ pos.leg[i].planned = plan.entry[i] /\ pos.leg[i].price = plan.entry[i]
                         /\ pos.leg[i].sl = InitialStop(plan, i)
  BY DEF Init, OpenPosition
<1>4. Marked(plan, pos, pos.last)
  BY <1>3 DEF Marked, NoTime
<1>5. ASSUME NEW i \in Legs PROVE LegSound(plan, i, pos.touch, pos.leg[i], best[i])
  <2>1. plan.entry[i] \in Int /\ InitialStop(plan, i) \in Int
        /\ Beyond(plan.side, plan.entry[i], InitialStop(plan, i))
    BY <1>2, PlanFields, InitialStopInt DEF SoundPlan
  <2>2. Laddered(plan, i, pos.leg[i])
    BY <1>3, <2>1 DEF Laddered, Beyond
  <2> QED BY <1>3, <2>2 DEF LegSound, Terminal
<1> QED BY <1>1, <1>4, <1>5 DEF Earned

\* A bar only adds to what a leg's history has seen.
LEMMA QuoteSeen ==
    ASSUME NEW k \in Plans, NEW b \in BarType, NEW i \in Legs, NEW touch, NEW e, LegOK(e),
           NEW y \in Prices, LegSound(k, i, touch, e, y), NEW x,
           x = IF OpenBefore(e, b) THEN Ratchet(k.side, y, Quote(k, b)) ELSE y
    PROVE  LegSound(k, i, touch, e, x) /\ Seen(k, e, b, x)
<1>1. k \in PlanType /\ Quote(k, b) \in Int /\ NoPrice \notin Int /\ k.side \in {"BUY", "SELL"}
      /\ \A n \in 1..3 : k.tp[n] \in Int
  BY PlansAssumption, PlanFields, BarPrices, NoPriceAssumption DEF Quote
<1>2. CASE OpenBefore(e, b)
  <2>1. x = Ratchet(k.side, y, Quote(k, b))
    BY <1>2
  <2>2. x \in Int /\ ~Beyond(k.side, Quote(k, b), x)
        /\ (y # NoPrice => y \in Int /\ ~Beyond(k.side, y, x))
    BY <1>1, <2>1 DEF Ratchet, Tighter, Beyond, Prices
  <2>3. \A level : Got(k, y, level) /\ level \in Int => Got(k, x, level)
    BY <1>1, <2>2 DEF Got, Beyond
  <2>4. e.status = "OPEN" /\ OpenSound(k, touch, e, y)
    BY <1>2 DEF OpenBefore, LegSound
  <2>5. e.trail # NoPrice => e.trail \in Int
    BY DEF LegOK, LegType, Prices
  <2>6. Away(k.side, e.price, k.bepTrigger) \in Int
    BY <1>1, PlanFields DEF LegOK, LegType, Away
  <2>7. OpenSound(k, touch, e, x)
    BY <1>1, <2>3, <2>4, <2>5, <2>6 DEF OpenSound
  <2>8. LegSound(k, i, touch, e, x)
    BY <2>4, <2>7 DEF LegSound, Terminal
  <2>9. Seen(k, e, b, x)
    BY <1>1, <2>2 DEF Seen, Got
  <2> QED BY <2>8, <2>9
<1>3. CASE ~OpenBefore(e, b)
  BY <1>3 DEF Seen
<1> QED BY <1>2, <1>3

\* One step: the invariant is kept, and under a half lock that tightens no open leg's
\* stop moves away from price.
LEMMA StepEarned ==
    ASSUME Earned, [Next]_vars
    PROVE  /\ Earned'
           /\ HalfLockTightens(plan) =>
                [\A i \in Legs :
                   pos.leg[i].status = "OPEN" /\ pos'.leg[i].status = "OPEN" =>
                      ~Beyond(plan.side, EffectiveStop(plan, pos, pos.leg[i]),
                                         EffectiveStop(plan, pos', pos'.leg[i]))]_vars
<1>1. IInv /\ IInv'
  BY StepIInv DEF Earned
<1>2. CASE UNCHANGED vars
  BY <1>1, <1>2 DEF Earned, vars
<1>3. CASE Next
  <2>1. PICK s \in BarShapes(plan), t \in NextTimes : Advance(BarAt(s, t))
    BY <1>3 DEF Next
  <2> DEFINE b == BarAt(s, t)
             y == best'
  <2>2. /\ b \in BarType /\ pos.last < b.time /\ b.spread = s.spread
    BY <1>1, NextBar DEF BarAt
  <2> HIDE DEF b
  <2>3. /\ pos' = AdvanceOneBar(plan, pos, b) /\ plan' = plan
        /\ y = [i \in Legs |-> IF OpenBefore(pos.leg[i], b)
                               THEN Ratchet(plan.side, best[i], Quote(plan, b))
                               ELSE best[i]]
    BY <2>1 DEF Advance, b, ExitQuote, Quote
  <2>4. plan \in Plans /\ plan \in PlanType /\ Steady(plan, pos, pos.last) /\ PositionOK(pos)
        /\ best \in [Legs -> Prices] /\ y \in [Legs -> Prices]
    BY <1>1, PlansAssumption DEF IInv, Steady
  <2> HIDE DEF y
  <2>5. Printed(plan, b)
    BY <2>2 DEF Printed
  <2>6. \A i \in Legs : LegSound(plan, i, pos.touch, pos.leg[i], y[i]) /\ Seen(plan, pos.leg[i], b, y[i])
    <3>1. \A i \in Legs : LegOK(pos.leg[i]) /\ LegSound(plan, i, pos.touch, pos.leg[i], best[i])
      BY <2>4, LegsOK DEF Earned
    <3> QED BY <2>2, <2>3, <2>4, <3>1, QuoteSeen
  <2>7. Marked(plan, pos, pos.last) /\ Marked(plan, pos, b.time)
    <3>1. \A n \in 1..3 : pos.touch[n] \in Times
      BY <2>4 DEF PositionOK, PositionType
    <3>2. pos.last \in Times /\ b.time \in Nat
      BY <2>2, <2>4, BarPrices DEF PositionOK, PositionType
    <3> QED BY <2>2, <3>1, <3>2 DEF Earned, Marked, Times, NoTime
  <2>8. Good(plan, pos, y, b)
    BY <2>4, <2>6, <2>7 DEF Good
  <2>9. /\ Good(plan, pos', y, b) /\ Onward(plan, pos, pos')
        /\ \A i \in Legs : pos.leg[i].status = "OPEN" =>
              /\ pos'.leg[i].price = pos.leg[i].price /\ pos'.leg[i].sl = pos.leg[i].sl
              /\ pos'.leg[i].fill = pos.leg[i].fill /\ pos'.leg[i].planned = pos.leg[i].planned
    BY <2>2, <2>3, <2>4, <2>5, <2>7, <2>8, AdvanceGood
  <2>10. pos'.last = b.time
    BY <2>2, <2>3, <2>4, AdvanceSteady
  <2>11. Earned'
    BY <1>1, <2>3, <2>9, <2>10 DEF Earned, Good, y
  <2>12. ASSUME HalfLockTightens(plan), NEW i \in Legs,
                pos.leg[i].status = "OPEN", pos'.leg[i].status = "OPEN"
         PROVE  ~Beyond(plan.side, EffectiveStop(plan, pos, pos.leg[i]),
                                   EffectiveStop(plan, pos', pos'.leg[i]))
    <3>1. pos \in PositionType /\ pos' \in PositionType
      BY <2>4, <2>9 DEF Good, PositionOK
    <3>2. pos.leg[i] \in LegType /\ pos'.leg[i] \in LegType
      BY <3>1 DEF PositionType
    <3>3. Laddered(plan, i, pos.leg[i]) /\ Firmer(plan, pos.leg[i], pos'.leg[i])
      BY <2>9 DEF Earned, LegSound, Onward
    <3> QED BY <2>4, <2>9, <2>12, <3>1, <3>2, <3>3, StopTightens
  <2> QED BY <2>11, <2>12
<1> QED BY <1>2, <1>3

-----------------------------------------------------------------------------
(* The theorems about the exits                                            *)

\* A leg that ends on a lock had its target reached after its own fill bar, in every
\* ladder, if the plan's break-even stops stay within TP2 where a runner's scale-out
\* ladder names them locks.
THEOREM LocksAreEarned ==
    ASSUME \A k \in Plans : Lockable(k)
    PROVE  Spec => []LockIsEarned
<1>1. Earned => LockIsEarned
  <2> SUFFICES ASSUME Earned, NEW i \in Legs
               PROVE  /\ pos.leg[i].status \in {"LOCK_TP1", "LOCK_HALF_TP1"} => Reached(i, plan.tp[1])
                      /\ pos.leg[i].status = "LOCK_TP2" => Reached(i, plan.tp[2])
    BY DEF LockIsEarned
  <2>1. Lockable(plan) /\ LegSound(plan, i, pos.touch, pos.leg[i], best[i])
    BY DEF Earned, IInv
  <2> QED BY <2>1 DEF LegSound, LockEarned, Got, Reached, Terminal
<1> QED BY <1>1, InitEarned, StepEarned, PTL DEF Spec

\* A leg is never booked out better than anything printed since its fill, whenever the
\* plan's stops are set at prices that were printed: only then is the book the market's.
THEOREM ExitsAreReal ==
    ASSUME \A k \in Plans : ~k.trendRunner => Realistic(k)
    PROVE  Spec => []NoPhantomExit
<1>1. Earned => NoPhantomExit
  <2> SUFFICES ASSUME Earned, ~plan.trendRunner, NEW i \in Legs,
                      pos.leg[i].status \in Terminal \ {"NO_FILL", "TIME_EXIT"},
                      Beyond(plan.side, pos.leg[i].exitPrice, pos.leg[i].price)
               PROVE  Reached(i, pos.leg[i].exitPrice)
    BY DEF NoPhantomExit, RunnerExitIsReal
  <2>1. Realistic(plan) /\ LegSound(plan, i, pos.touch, pos.leg[i], best[i])
    BY DEF Earned, IInv
  <2> QED BY <2>1 DEF LegSound, ExitReal, Got, Reached
<1> QED BY <1>1, InitEarned, StepEarned, PTL DEF Spec

\* Every leg a trend runner protects is stopped at TP2 or better from then on.
THEOREM RunnerIsFloored ==
    ASSUME \A k \in Plans : RunnerTrails(k)
    PROVE  Spec => []RunnerLocksTp2
<1>1. Earned => RunnerLocksTp2
  <2> SUFFICES ASSUME Earned, NEW i \in Legs, pos.runner, pos.leg[i].status = "OPEN",
                      TouchApplies(pos.leg[i], pos.touch[3])
               PROVE  ~Beyond(plan.side, plan.tp[2], EffectiveStop(plan, pos, pos.leg[i]))
    BY DEF RunnerLocksTp2
  <2>1. /\ plan \in Plans /\ RunnerTrails(plan) /\ plan.trendRunner
        /\ pos \in PositionType /\ pos.leg[i] \in LegType /\ best[i] \in Prices
    BY DEF Earned, IInv, Marked, Steady, PositionOK, PositionType
  <2>2. /\ Laddered(plan, i, pos.leg[i])
        /\ OpenSound(plan, pos.touch, pos.leg[i], best[i])
    BY DEF Earned, LegSound
  <2>3. pos.stage = 3
    BY DEF Earned, Marked, TouchApplies
  <2> QED BY <2>1, <2>2, <2>3, RunnerFloor
<1> QED BY <1>1, InitEarned, StepEarned, PTL DEF Spec

\* No promotion, break-even, trail or switch of ladder ever moves the stop of an open
\* leg away from price, if a half lock is at least as tight as the break-even stop it
\* replaces.
THEOREM StopsNeverLoosen ==
    ASSUME \A k \in Plans : HalfLockTightens(k)
    PROVE  Spec => StopNeverLoosens
<1>1. Earned /\ [Next]_vars =>
        [\A i \in Legs :
           pos.leg[i].status = "OPEN" /\ pos'.leg[i].status = "OPEN" =>
              ~Beyond(plan.side, EffectiveStop(plan, pos, pos.leg[i]),
                                 EffectiveStop(plan, pos', pos'.leg[i]))]_vars
  <2>1. Earned => HalfLockTightens(plan)
    BY DEF Earned, IInv
  <2> QED BY <2>1, StepEarned
<1> QED BY <1>1, InitEarned, StepEarned, PTL DEF Spec, StopNeverLoosens

=============================================================================
