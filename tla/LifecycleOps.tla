----------------------------- MODULE LifecycleOps -----------------------------
(***************************************************************************)
(* The position lifecycle that backtest and live replay share:             *)
(* trading/engine/core/{triggers,positions,trailing_positions,             *)
(* trend_runner}.py.  Everything here is a pure operator on                *)
(*                                                                         *)
(*   k : a plan, the signal as opened together with the StrategyConfig     *)
(*   p : a Position                                                        *)
(*   e : one Entry (a ladder leg) of p                                     *)
(*   b : one M1 bar (bid high/low, spread, and the trend/ATR reading)      *)
(*                                                                         *)
(* Prices and minutes are integers.  The chart is Bid, Ask = Bid + spread. *)
(* A definition named Faulty* is its neighbour with one plausible bug in   *)
(* it; it is used only to show that a property can fail.                   *)
(***************************************************************************)
EXTENDS Integers, FiniteSets

CONSTANTS Legs,      \* the ladder slots, 0 .. entry_count - 1
          NoPrice    \* Python's None for a price

ASSUME LegsAssumption == Legs \subseteq Nat /\ 0 \in Legs /\ IsFiniteSet(Legs)
ASSUME NoPriceAssumption == NoPrice \notin Int

NoTime == -1

Terminal == {"NO_FILL", "SL", "BEP", "LOCK_HALF_TP1", "LOCK_TP1", "LOCK_TP2",
             "TP1", "TP2", "TP3", "TIME_EXIT", "TRAILING_STOP"}
Locks    == {"LOCK_HALF_TP1", "LOCK_TP1", "LOCK_TP2"}
Status   == Terminal \cup {"PENDING", "OPEN"}

-----------------------------------------------------------------------------
(* Triggers and directions                                                 *)

FillTrigger(side, b, level) ==
    IF side = "BUY" THEN b.low <= level - b.spread ELSE b.high >= level

TargetTrigger(side, b, level) ==
    IF side = "BUY" THEN b.high >= level ELSE b.low <= level - b.spread

StopTrigger(side, b, level) ==
    IF side = "BUY" THEN b.low <= level ELSE b.high >= level - b.spread

\* `d` price units from `price` in the trade's favour (against it when d < 0).
Away(side, price, d) == IF side = "BUY" THEN price + d ELSE price - d

\* `a` lies strictly on the profitable side of `x`.
Beyond(side, a, x) == IF side = "BUY" THEN a > x ELSE a < x

\* The more, and the less, protective of two levels.
Tighter(side, a, x) == IF Beyond(side, a, x) THEN a ELSE x
Looser(side, a, x)  == IF Beyond(side, a, x) THEN x ELSE a

\* The bar's best quote for entering, its rebound, and its best exit print.
Dip(side, b)     == IF side = "BUY" THEN b.low + b.spread ELSE b.high
Rebound(side, b) == IF side = "BUY" THEN b.high + b.spread ELSE b.low
Peak(side, b)    == IF side = "BUY" THEN b.high ELSE b.low

Distance(a, x) == IF a >= x THEN a - x ELSE x - a

-----------------------------------------------------------------------------
(* Reading a position                                                      *)

OpenLegs(p)   == {i \in Legs : p.leg[i].status = "OPEN"}
IsTerminal(p) == \A i \in Legs : p.leg[i].status \in Terminal

\* _entry_open_before_bar: a touch on the fill bar does not count.
OpenBefore(e, b) == e.status = "OPEN" /\ e.fill # NoTime /\ e.fill < b.time

ScaleOutMode(k) ==
    k.scaleOut1 \/ k.scaleOut2 \/ k.bepAfterTp1 \/ k.trailAfter > 0 \/ k.noFinalCap
Stage1Active(k) == k.lock1 \/ k.bepAfterTp1 \/ k.trailAfter = 1
Stage2Active(k) == k.lock2 \/ k.trailAfter = 2

FaultyTouchApplies(e, t) == e.fill # NoTime /\ t # NoTime /\ e.fill <= t
TouchApplies(e, t) == e.fill # NoTime /\ t # NoTime /\ e.fill < t

StageOf(p, e, lock1, lock2) ==
    IF p.stage >= 3 /\ TouchApplies(e, p.touch[3]) THEN 3
    ELSE IF lock2 /\ p.stage >= 2 /\ TouchApplies(e, p.touch[2]) THEN 2
    ELSE IF lock1 /\ p.stage >= 1 /\ TouchApplies(e, p.touch[1]) THEN 1
    ELSE 0
LockStage(k, p, e) == StageOf(p, e, k.lock1, k.lock2)
RawStage(p, e)     == StageOf(p, e, TRUE, TRUE)

\* tp1_lock_fraction is counted in halves.
HalfTp1Stop(k, e) ==
    Away(k.side, e.price, (Distance(k.tp[1], e.price) * k.lockHalves) \div 2)

LockLevelStop(k, stage) == IF stage >= 2 THEN k.tp[2] ELSE k.tp[1]

ScaleOutStop(k, p, e) ==
    IF k.bepAfterTp1 /\ RawStage(p, e) >= 1 THEN Away(k.side, e.price, k.bepBuffer)
    ELSE e.sl

HalfModeStop(k, p, e) ==
    LET stage == LockStage(k, p, e) IN
    IF stage >= 3 THEN k.tp[2]
    ELSE IF stage = 2 THEN k.tp[k.tp2LockTarget]
    ELSE IF stage = 1 THEN HalfTp1Stop(k, e)
    ELSE IF e.bep THEN Away(k.side, e.price, k.bepBuffer)
    ELSE e.sl

TpLevelStop(k, p, e) ==
    LET stage == LockStage(k, p, e) IN
    IF stage >= 1 THEN LockLevelStop(k, stage) ELSE e.sl

BaseStop(k, p, e) ==
    IF ScaleOutMode(k) THEN ScaleOutStop(k, p, e)
    ELSE IF k.halfMode THEN HalfModeStop(k, p, e)
    ELSE TpLevelStop(k, p, e)

\* trailing_close_after_stage > 0 selects scale-out mode, so the gate of the
\* tp_levels branch (positions.py 241-243) never runs.
TrailFolded(k, p, e) ==
    /\ e.trail # NoPrice
    /\ ScaleOutMode(k) /\ k.trailAfter > 0 => RawStage(p, e) >= k.trailAfter

EffectiveStop(k, p, e) ==
    IF TrailFolded(k, p, e) THEN Tighter(k.side, e.trail, BaseStop(k, p, e))
    ELSE BaseStop(k, p, e)

-----------------------------------------------------------------------------
(* Opening                                                                 *)

\* entry_stop_levels: one shared level, or baseDist from each entry.
SharedLevel(k) == Away(k.side, k.entry[0], -k.baseDist)
InitialStop(k, i) ==
    IF k.sharedSl THEN SharedLevel(k) ELSE Away(k.side, k.entry[i], -k.baseDist)

OpenPosition(k) ==
    [leg |-> [i \in Legs |->
                [planned |-> k.entry[i], price |-> k.entry[i], sl |-> InitialStop(k, i),
                 status |-> "PENDING", fill |-> NoTime, exit |-> NoTime,
                 exitPrice |-> NoPrice, stopAt |-> NoPrice,
                 armed |-> FALSE, bep |-> FALSE,
                 touchedAt |-> NoTime, extreme |-> NoPrice, trail |-> NoPrice]],
     stage |-> 0, touch |-> [n \in 1..3 |-> NoTime],
     firstFill |-> NoTime, scaled |-> [n \in 1..2 |-> FALSE],
     runner |-> FALSE, last |-> NoTime]

Deadline(k, p) == p.firstFill + k.maxHold

-----------------------------------------------------------------------------
(* Fills                                                                   *)

\* A limit fills only after price has been seen on its safe side.
LimitFill(k, e, b) ==
    LET openedSafe   == IF k.side = "BUY" THEN b.open + b.spread > e.price
                                          ELSE b.open < e.price
        returnedSafe == IF k.side = "BUY" THEN b.high + b.spread > e.price
                                          ELSE b.low < e.price
        touchable    == e.armed \/ openedSafe
    IN  IF touchable /\ FillTrigger(k.side, b, e.price)
        THEN [e EXCEPT !.armed = TRUE, !.status = "OPEN", !.fill = b.time]
        ELSE [e EXCEPT !.armed = touchable \/ returnedSafe]

FaultyMarketSideFill(k, e, price, b) ==   \* keeps the frozen shared level
    [e EXCEPT !.status = "OPEN", !.fill = b.time, !.price = price]

\* _fill_entry_at_market_side: the stop keeps the leg's own planned distance.
MarketSideFill(k, e, price, b) ==
    LET planned == IF k.sharedSl THEN Distance(e.price, SharedLevel(k)) ELSE k.baseDist
    IN  [e EXCEPT !.status = "OPEN", !.fill = b.time, !.price = price,
                  !.sl = Away(k.side, price, -planned)]

TrailingOpenFill(k, e, b) ==
    IF e.touchedAt = NoTime
    THEN IF Beyond(k.side, Dip(k.side, b), Away(k.side, e.price, -k.trailOpen))
         THEN e
         ELSE [e EXCEPT !.touchedAt = b.time, !.extreme = Dip(k.side, b)]
    ELSE LET extreme == Looser(k.side, e.extreme, Dip(k.side, b))
             trigger == Away(k.side, extreme, k.trailOpen)
             seen    == [e EXCEPT !.extreme = extreme]
         IN  IF b.time > e.touchedAt /\ ~Beyond(k.side, trigger, Rebound(k.side, b))
             THEN MarketSideFill(k, seen, trigger, b)
             ELSE seen

FillLeg(k, e, b) ==
    IF e.status # "PENDING" THEN e
    ELSE IF k.trailOpen > 0 THEN TrailingOpenFill(k, e, b)
    ELSE LimitFill(k, e, b)

FaultySetFirstFill(p, b) ==   \* every fill restarts the max-hold clock
    IF \E i \in Legs : p.leg[i].fill = b.time
    THEN [p EXCEPT !.firstFill = b.time] ELSE p

SetFirstFill(p, b) ==
    IF p.firstFill = NoTime /\ \E i \in Legs : p.leg[i].fill # NoTime
    THEN [p EXCEPT !.firstFill = b.time] ELSE p

ExpireLeg(e) == IF e.status = "PENDING" THEN [e EXCEPT !.status = "NO_FILL"] ELSE e

FaultyInWindow(k, b) == k.activation <= b.time
InWindow(k, b) == k.activation <= b.time /\ b.time <= k.expiry

FillsAndExpiry(k, p, b) ==
    LET filled  == IF InWindow(k, b)
                   THEN SetFirstFill([p EXCEPT !.leg = [i \in Legs |-> FillLeg(k, @[i], b)]], b)
                   ELSE p
    IN  IF b.time > k.expiry
        THEN [filled EXCEPT !.leg = [i \in Legs |-> ExpireLeg(@[i])]]
        ELSE filled

-----------------------------------------------------------------------------
(* Exits                                                                   *)

CloseLeg(e, status, t, price, stop) ==
    [e EXCEPT !.status = status, !.exit = t, !.exitPrice = price, !.stopAt = stop]

ArmBep(k, e, b) ==
    IF k.halfMode /\ OpenBefore(e, b)
       /\ (k.bepTrigger <= 0
           \/ TargetTrigger(k.side, b, Away(k.side, e.price, k.bepTrigger)))
    THEN [e EXCEPT !.bep = TRUE] ELSE e

LockStatus(n) == IF n = 2 THEN "LOCK_TP2" ELSE "LOCK_TP1"

\* _stop_status under stop_status_for, which names a trailing exit first.
StopStatus(k, p, e, stop) ==
    LET stage == LockStage(k, p, e) IN
    IF e.trail = stop THEN "TRAILING_STOP"
    ELSE IF k.halfMode
    THEN IF stage >= 3 THEN "LOCK_TP2"
         ELSE IF stage = 2 THEN LockStatus(k.tp2LockTarget)
         ELSE IF stage = 1 THEN "LOCK_HALF_TP1"
         ELSE IF e.bep /\ stop = e.price THEN "BEP" ELSE "SL"
    ELSE IF ScaleOutMode(k)
    THEN IF k.bepAfterTp1 /\ stop \in {e.price + k.bepBuffer, e.price - k.bepBuffer}
         THEN "BEP" ELSE "SL"
    ELSE IF stage >= 2 THEN "LOCK_TP2" ELSE IF stage = 1 THEN "LOCK_TP1" ELSE "SL"

\* A locked stop gives back lockSlip, but never more than the bar's range.
LockedExitFill(k, stop, status, b) ==
    IF status \notin Locks \/ k.lockSlip <= 0 THEN stop
    ELSE IF k.side = "BUY"
         THEN IF stop - k.lockSlip >= b.low THEN stop - k.lockSlip ELSE b.low
         ELSE IF stop + k.lockSlip <= b.high THEN stop + k.lockSlip ELSE b.high

TargetStatus(n) == IF n = 1 THEN "TP1" ELSE IF n = 2 THEN "TP2" ELSE "TP3"

HitTp(k, b, n) == TargetTrigger(k.side, b, k.tp[n])

RunnerAfterTp3(k) == k.runnerAfterTp3 /\ k.finalTarget = 3
RunnerHolds(k, b) ==
    /\ HitTp(k, b, k.finalTarget)
    /\ k.trendRunner /\ k.finalTarget = 3 /\ b.trend
PureTrail(k) == ScaleOutMode(k) /\ k.noFinalCap /\ k.trailClose > 0

TargetCloses(k, p, b) ==
    /\ HitTp(k, b, k.finalTarget)
    /\ ~RunnerAfterTp3(k) /\ ~RunnerHolds(k, b) /\ ~p.runner /\ ~PureTrail(k)

\* The stop is tested first: on a bar that reaches both, the stop wins.
StopOrTarget(k, p, e, b) ==
    LET stop   == EffectiveStop(k, p, e)
        status == StopStatus(k, p, e, stop)
    IN  IF e.status # "OPEN" THEN e
        ELSE IF StopTrigger(k.side, b, stop)
        THEN CloseLeg(e, status, b.time, LockedExitFill(k, stop, status, b), stop)
        ELSE IF TargetCloses(k, p, b) /\ OpenBefore(e, b)
        THEN CloseLeg(e, TargetStatus(k.finalTarget), b.time, k.tp[k.finalTarget], NoPrice)
        ELSE e

Exits(k, p, b) ==
    [p EXCEPT !.leg = [i \in Legs |-> StopOrTarget(k, p, ArmBep(k, @[i], b), b)]]

Eligible(p, b) == {i \in Legs : OpenBefore(p.leg[i], b)}

\* The open leg furthest from the signal's own SL; the first of equals.
WorstLeg(k, p, b) ==
    LET gap(i) == Distance(p.leg[i].price, k.signalSl)
    IN  CHOOSE i \in Eligible(p, b) : \A j \in Eligible(p, b) :
            gap(i) > gap(j) \/ (gap(i) = gap(j) /\ i <= j)

ScaleOut(k, p, b, n) ==
    IF /\ IF n = 1 THEN k.scaleOut1 ELSE k.scaleOut2
       /\ HitTp(k, b, n) /\ ~p.scaled[n]
       /\ \E i, j \in Eligible(p, b) : i # j
    THEN [p EXCEPT !.scaled[n] = TRUE,
                   !.leg[WorstLeg(k, p, b)] = CloseLeg(@, TargetStatus(n), b.time, k.tp[n], NoPrice)]
    ELSE p

-----------------------------------------------------------------------------
(* Stage promotion and the trailing stops                                  *)

SetTouch(p, n, cond, b) ==
    IF cond /\ p.touch[n] = NoTime THEN [p EXCEPT !.touch[n] = b.time] ELSE p

Promote(p, n, cond, delay, b) ==
    IF cond /\ p.stage < n /\ p.touch[n] # NoTime /\ b.time >= p.touch[n] + delay
    THEN [p EXCEPT !.stage = n] ELSE p

Stages(k, p, b) ==
    LET any == Eligible(p, b) # {}
        t1  == SetTouch(p, 1, any /\ Stage1Active(k) /\ HitTp(k, b, 1), b)
        t2  == SetTouch(t1, 2, any /\ Stage2Active(k) /\ HitTp(k, b, 2), b)
        s1  == Promote(t2, 1, any /\ Stage1Active(k), k.delay1, b)
        s2  == Promote(s1, 2, any /\ Stage2Active(k), k.delay2, b)
    IN  IF any /\ RunnerAfterTp3(k) /\ s2.stage < 3 /\ HitTp(k, b, 3)
        THEN [s2 EXCEPT !.stage = 3, !.touch[3] = b.time]
        ELSE s2

FaultyRatchet(side, trail, candidate) == candidate
Ratchet(side, trail, candidate) ==
    IF trail = NoPrice THEN candidate ELSE Tighter(side, trail, candidate)

TrailLeg(k, e, b) ==
    LET candidate == Away(k.side, Peak(k.side, b), -k.trailClose) IN
    IF k.trailClose > 0 /\ OpenBefore(e, b) /\ Beyond(k.side, candidate, e.price)
    THEN [e EXCEPT !.trail = Ratchet(k.side, @, candidate)] ELSE e

FaultyRunnerLeg(k, e, b) ==   \* forgets the TP2 floor
    LET candidate == Away(k.side, Peak(k.side, b), -b.atr) IN
    IF OpenBefore(e, b) THEN [e EXCEPT !.trail = Ratchet(k.side, @, candidate)] ELSE e

\* update_runner_stop; b.atr is ATR x multiplier, 0 when there is no reading.
RunnerLeg(k, e, b) ==
    LET candidate == Tighter(k.side, Away(k.side, Peak(k.side, b), -b.atr), k.tp[2]) IN
    IF OpenBefore(e, b) THEN [e EXCEPT !.trail = Ratchet(k.side, @, candidate)] ELSE e

RunnerStop(k, p, b) ==
    IF b.atr <= 0 THEN p
    ELSE [p EXCEPT !.leg = [i \in Legs |-> RunnerLeg(k, @[i], b)],
                   !.stage = 3,
                   !.touch[3] = IF @ = NoTime THEN b.time ELSE @,
                   !.runner = TRUE]

Trails(k, p, b, ratchet) ==
    LET trailed == [p EXCEPT !.leg = [i \in Legs |-> TrailLeg(k, @[i], b)]]
    IN  IF ratchet /\ OpenLegs(p) # {} THEN RunnerStop(k, trailed, b) ELSE trailed

\* The part of advance_one_bar under `if open_entries`.
ManageOpen(k, p, b) ==
    LET engaged == [p EXCEPT !.runner = @ \/ RunnerHolds(k, b)]
        exits   == [Exits(k, p, b) EXCEPT !.runner = engaged.runner]
        scaled  == ScaleOut(k, ScaleOut(k, exits, b, 1), b, 2)
    IN  Trails(k, Stages(k, scaled, b), b, engaged.runner)

\* max_hold_minutes after the first fill everything still open closes at market.
TimeExit(k, p, b) ==
    IF /\ p.firstFill # NoTime /\ b.time >= Deadline(k, p)
       /\ ~(k.overrideMaxHold /\ p.runner)
    THEN [p EXCEPT !.leg = [i \in Legs |->
            IF @[i].status = "OPEN"
            THEN CloseLeg(@[i], "TIME_EXIT", b.time,
                          IF k.side = "BUY" THEN b.close ELSE b.close + b.spread, NoPrice)
            ELSE @[i]]]
    ELSE p

AdvanceOneBar(k, p, b) ==
    LET filled  == FillsAndExpiry(k, p, b)
        managed == IF OpenLegs(filled) # {} THEN ManageOpen(k, filled, b) ELSE filled
    IN  [TimeExit(k, managed, b) EXCEPT !.last = b.time]
=============================================================================
