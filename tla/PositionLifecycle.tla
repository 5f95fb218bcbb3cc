-------------------------- MODULE PositionLifecycle --------------------------
(***************************************************************************)
(* One position replayed bar by bar: open_position, then advance_bars over *)
(* an M1 chart chosen by the environment, until every leg is terminal.     *)
(* Backtest, `decide` and the live executor's replay all run this machine. *)
(***************************************************************************)
EXTENDS LifecycleOps

CONSTANTS Plans,      \* the plans a run explores
          BarShapes(_),  \* the bars, without their time, that may print under a plan
          MaxTime,    \* bound: the last bar time
          MaxGap      \* bound: minutes between consecutive bars (holes, weekends)

VARIABLES plan,       \* the signal and its StrategyConfig, fixed
          pos,        \* the Position
          best        \* history: per leg, the best exit quote printed after its fill bar

vars == <<plan, pos, best>>

Prices == Int \cup {NoPrice}
Times  == Nat \cup {NoTime}

LegType == [planned : Int, price : Int, sl : Int, status : Status,
            fill : Times, exit : Times, exitPrice : Prices,
            stopAt : Prices, armed : BOOLEAN, bep : BOOLEAN,
            touchedAt : Times, extreme : Prices, trail : Prices]

PositionType == [leg : [Legs -> LegType], stage : 0..3, touch : [1..3 -> Times],
                 firstFill : Times, scaled : [1..2 -> BOOLEAN],
                 runner : BOOLEAN, last : Times]

PlanType == [side : {"BUY", "SELL"}, entry : [Legs -> Int], signalSl : Int,
             baseDist : Nat, tp : [1..3 -> Int],
             activation : Nat, expiry : Nat, maxHold : Nat,
             finalTarget : 1..3, lock1 : BOOLEAN, lock2 : BOOLEAN,
             delay1 : Nat, delay2 : Nat, halfMode : BOOLEAN, bepTrigger : Nat,
             bepBuffer : Nat, lockHalves : 0..2, tp2LockTarget : 1..2,
             scaleOut1 : BOOLEAN, scaleOut2 : BOOLEAN, bepAfterTp1 : BOOLEAN,
             trailAfter : 0..2, noFinalCap : BOOLEAN, trailOpen : Nat,
             trailClose : Nat, runnerAfterTp3 : BOOLEAN, trendRunner : BOOLEAN,
             overrideMaxHold : BOOLEAN, lockSlip : Nat, sharedSl : BOOLEAN]

ShapeType == [open : Int, high : Int, low : Int, close : Int, spread : Nat,
              trend : BOOLEAN, atr : Nat]
BarType == [time : Nat, open : Int, high : Int, low : Int, close : Int,
            spread : Nat, trend : BOOLEAN, atr : Nat]

\* What _validate (core/signal.py) calls a structurally sound signal: the stop,
\* the entries and the targets in that order, whichever side the trade is on.
SoundPlan(k) ==
    /\ \A i \in Legs : Beyond(k.side, k.entry[i], InitialStop(k, i))
    /\ \A i \in Legs : Beyond(k.side, k.tp[1], k.entry[i])
    /\ Beyond(k.side, k.tp[2], k.tp[1])
    /\ Beyond(k.side, k.tp[3], k.tp[2])

ASSUME PlansAssumption ==
    /\ Plans \subseteq PlanType
    /\ \A k \in Plans : SoundPlan(k)
ASSUME BarsAssumption ==
    \A k \in Plans :
        /\ BarShapes(k) \subseteq ShapeType
        /\ \A s \in BarShapes(k) : s.low <= s.open /\ s.open <= s.high
                                   /\ s.low <= s.close /\ s.close <= s.high
ASSUME BoundsAssumption == MaxTime \in Nat /\ MaxGap \in Nat

-----------------------------------------------------------------------------

BarAt(s, t) == [time |-> t, open |-> s.open, high |-> s.high, low |-> s.low,
                close |-> s.close, spread |-> s.spread,
                trend |-> s.trend, atr |-> s.atr]

\* chart.bars_between(activation, ...): the first bar is at or after activation.
NextTimes ==
    LET after == IF pos.last = NoTime THEN plan.activation - 1 ELSE pos.last
    IN  {t \in (after + 1)..(after + MaxGap) : t <= MaxTime}

Init ==
    /\ plan \in Plans
    /\ pos = OpenPosition(plan)
    /\ best = [i \in Legs |-> NoPrice]

\* The quote a target or a lock is measured on: bid for a BUY, ask for a SELL.
ExitQuote(b) == IF plan.side = "BUY" THEN b.high ELSE b.low + b.spread

\* advance_bars stops at the first terminal bar.
Advance(b) ==
    /\ ~IsTerminal(pos)
    /\ pos' = AdvanceOneBar(plan, pos, b)
    /\ best' = [i \in Legs |-> IF OpenBefore(pos.leg[i], b)
                               THEN Ratchet(plan.side, best[i], ExitQuote(b))
                               ELSE best[i]]
    /\ UNCHANGED plan

Next == \E s \in BarShapes(plan), t \in NextTimes : Advance(BarAt(s, t))

Spec == Init /\ [][Next]_vars

-----------------------------------------------------------------------------
(* Properties                                                              *)

Filled(e)  == e.fill # NoTime
Reached(i, level) == best[i] # NoPrice /\ ~Beyond(plan.side, level, best[i])

\* Every field of the position keeps its type.
TypeOK == plan \in Plans /\ pos \in PositionType /\ best \in [Legs -> Prices]

\* A leg is filled inside [activation, expiry] and nothing rests past expiry,
\* however the bars are spaced (the window test of advance_one_bar).
FillWindow ==
    \A i \in Legs :
        /\ Filled(pos.leg[i]) => plan.activation <= pos.leg[i].fill
                                 /\ pos.leg[i].fill <= plan.expiry
        /\ pos.last > plan.expiry => pos.leg[i].status # "PENDING"

\* No leg is ever filled worse than the entry it was planned at, on a limit or on
\* the rebound of a trailing open.
NeverChases ==
    \A i \in Legs : Filled(pos.leg[i]) =>
        ~Beyond(plan.side, pos.leg[i].price, pos.leg[i].planned)

\* A leg exits on a lock only if a bar after its own fill bar reached the target the
\* lock is named for (the touch-applies rule of lock_stage_for).
LockIsEarned ==
    \A i \in Legs :
        /\ pos.leg[i].status \in {"LOCK_TP1", "LOCK_HALF_TP1"} => Reached(i, plan.tp[1])
        /\ pos.leg[i].status = "LOCK_TP2" => Reached(i, plan.tp[2])

\* No leg is booked out at a price better than anything printed since it was filled:
\* a stop the market was already beyond when it was set is not an exit.  The ATR
\* trail of a trend runner breaks it (RunnerExitIsReal), the other stops do not.
RunnerExitIsReal ==
    \A i \in Legs :
        LET e == pos.leg[i] IN
        (e.status \in Terminal \ {"NO_FILL", "TIME_EXIT"} /\ Beyond(plan.side, e.exitPrice, e.price))
            => Reached(i, e.exitPrice)
NoPhantomExit == ~plan.trendRunner => RunnerExitIsReal

\* After a bar max_hold or more past the EARLIEST fill of the ladder no leg is open,
\* unless a trend runner holds and may override the time exit.
HoldBounded ==
    \A i, j \in Legs :
        (/\ Filled(pos.leg[i]) /\ pos.last >= pos.leg[i].fill + plan.maxHold
         /\ pos.leg[j].status = "OPEN")
        => plan.overrideMaxHold /\ pos.runner

\* Every leg that was open before a trend runner's protection began is stopped at TP2
\* or better from then on, in every stop ladder.
RunnerLocksTp2 ==
    \A i \in Legs :
        (/\ pos.runner /\ pos.leg[i].status = "OPEN"
         /\ TouchApplies(pos.leg[i], pos.touch[3]))
        => ~Beyond(plan.side, plan.tp[2], EffectiveStop(plan, pos, pos.leg[i]))

\* The stop a leg is protected by never moves away from price: neither a stage
\* promotion, an armed BEP, a trailing ratchet nor a mode switch may loosen it.
StopNeverLoosens ==
    [][\A i \in Legs :
         pos.leg[i].status = "OPEN" /\ pos'.leg[i].status = "OPEN" =>
            ~Beyond(plan.side, EffectiveStop(plan, pos, pos.leg[i]),
                               EffectiveStop(plan, pos', pos'.leg[i]))]_vars

\* A leg that was filled or expired and closed is never touched again.
TerminalIsFinal ==
    [][\A i \in Legs : pos.leg[i].status \in Terminal => pos'.leg[i] = pos.leg[i]]_vars

=============================================================================
