------------------------- MODULE MCPositionLifecycle -------------------------
(* Plans and bars for PositionLifecycle: a two-leg ladder at 5 and 4, its   *)
(* stops two units away, targets at 6, 7 and 8, and the same mirrored.      *)
EXTENDS PositionLifecycle

Base ==
    [side |-> "BUY", entry |-> [i \in Legs |-> 5 - i], signalSl |-> 3, baseDist |-> 2,
     tp |-> [n \in 1..3 |-> 5 + n],
     activation |-> 1, expiry |-> 3, maxHold |-> 3, finalTarget |-> 3,
     lock1 |-> TRUE, lock2 |-> FALSE, delay1 |-> 0, delay2 |-> 0,
     halfMode |-> FALSE, bepTrigger |-> 1, bepBuffer |-> 0, lockHalves |-> 1,
     tp2LockTarget |-> 1, scaleOut1 |-> FALSE, scaleOut2 |-> FALSE,
     bepAfterTp1 |-> FALSE, trailAfter |-> 0, noFinalCap |-> FALSE,
     trailOpen |-> 0, trailClose |-> 0, runnerAfterTp3 |-> FALSE,
     trendRunner |-> FALSE, overrideMaxHold |-> TRUE, lockSlip |-> 0,
     sharedSl |-> FALSE]

\* The same plan on the other side of the mirror price 9 / 2.
Mirror(k) == [k EXCEPT !.side = "SELL", !.entry = [i \in Legs |-> 9 - @[i]],
                       !.signalSl = 9 - @, !.tp = [n \in 1..3 |-> 9 - @[n]]]
Both(ks) == ks \cup {Mirror(k) : k \in ks}

LockPlans  == {Base,
               [Base EXCEPT !.lock2 = TRUE, !.delay1 = 1],
               [Base EXCEPT !.halfMode = TRUE, !.lock2 = TRUE, !.tp2LockTarget = 2,
                            !.runnerAfterTp3 = TRUE]}
TrailPlans == {[Base EXCEPT !.trailOpen = 1, !.trailClose = 1, !.sharedSl = TRUE],
               [Base EXCEPT !.halfMode = TRUE, !.trailClose = 2, !.bepTrigger = 2],
               [Base EXCEPT !.scaleOut1 = TRUE, !.scaleOut2 = TRUE, !.bepAfterTp1 = TRUE,
                            !.trailAfter = 2, !.trailClose = 1, !.noFinalCap = TRUE,
                            !.lock1 = FALSE]}
RunnerPlans == {[Base EXCEPT !.trendRunner = TRUE],
                Mirror([Base EXCEPT !.trendRunner = TRUE, !.overrideMaxHold = FALSE,
                                    !.scaleOut1 = TRUE])}

SlipPlan == [Base EXCEPT !.lock2 = TRUE, !.lockSlip = 1]

MCPlans       == Both(LockPlans \cup TrailPlans) \cup RunnerPlans \cup {SlipPlan}

Shapes(prices, widths, spreads, trends, atrs) ==
    {s \in [open : prices, high : prices, low : prices, close : prices,
            spread : spreads, trend : trends, atr : atrs] :
        /\ s.high - s.low \in widths
        /\ s.open \in {s.low, s.high}
        /\ s.close = IF s.open = s.low THEN s.high ELSE s.low}

\* The columns of a runner's indicators vary only where a runner reads them.
PlainShapes  == Shapes(1..8, {0, 1, 3}, {0, 1}, {FALSE}, {0})
RunnerShapes == Shapes(0..9, {0, 4}, {0}, BOOLEAN, {1, 3})
MCShapes(k)  == IF k.trendRunner THEN RunnerShapes ELSE PlainShapes
=============================================================================
