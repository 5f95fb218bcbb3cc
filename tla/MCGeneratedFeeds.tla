--------------------------- MODULE MCGeneratedFeeds ---------------------------
(* Arguments and bar shapes for GeneratedFeeds: an M15 bar of two minutes,   *)
(* two of them an hour, three hours a day, and bars that rise, fall or rest. *)
EXTENDS GeneratedFeeds

Rise == [high |-> 30, low |-> -5, close |-> 25]
Fall == [high |-> 5, low |-> -30, close |-> -25]
Rest == [high |-> 10, low |-> -10, close |-> 0]
Hammer == [high |-> 8, low |-> -30, close |-> 6]
Shooting == [high |-> 30, low |-> -8, close |-> -6]

Base == [program |-> "replay", path |-> <<>>, minutes |-> <<>>, warm |-> 0, monthLen |-> 12,
         fetchMonths |-> 2, recentMonths |-> 0, startDays |-> Never, faults |-> 0, torn |-> FALSE,
         window |-> 100, cap |-> 2, expiry |-> 6, maxLoss |-> 1, equities |-> {1, 2},
         spreads |-> {FALSE}, family |-> "self", step |-> 1, maxBars |-> 8, maxGaps |-> 1, price |-> 1000,
         shapes |-> {Rise, Fall}, start |-> 0, end |-> 1000,
         atrPeriod |-> 2, minAtr |-> 1, maxAtr |-> 200, maxPerDay |-> 3, spacing |-> 2,
         offset |-> 3, width |-> 10, gap |-> 20, tp |-> <<20, 40, 60>>,
         fast |-> 2, slow |-> 4, h1Filter |-> TRUE, h1Fast |-> 1, h1Slow |-> 3,
         band |-> 1, lookback |-> 2, minBody |-> 0, break |-> 0,
         minutes5 |-> 1, hours |-> 0..2, barMinutes |-> 2,
         sessionStart |-> 0, sessionEnd |-> 0, maxSpread |-> 5, minRange |-> 5,
         zoneSize |-> 20, zoneSpacing |-> 4, minWick |-> 10, wickRatio |-> 1, buffer |-> 5,
         position |-> 6, swing |-> 1, separation |-> 1, maxZone |-> 10, minZone |-> 0,
         coarse |-> 2, coarseAtr |-> 2, base |-> 1, impulse |-> 1, age |-> 2, baseMaxAtr |-> 1,
         impulseMinAtr |-> 0, candle |-> 1, cooldown |-> 2, qualCandle |-> 1, qualRows |-> 1,
         flat |-> 1, localRows |-> 2, progress |-> 0, points |-> 5, confirm |-> 0,
         minTarget |-> 0, maxTarget |-> 50, slBuffer |-> 2, stopsLevel |-> 3]
M15Plan(f) == [Base EXCEPT !.family = f, !.step = 2, !.maxBars = 5, !.maxGaps = 0, !.shapes = {Rise, Fall, Rest}]
Atr(p)     == [p EXCEPT !.width = 1, !.gap = 1, !.tp = <<1, 2, 3>>, !.offset = 0]
\* Over one-minute bars, whose open M15 or M5 bucket the generator decides on.
M1Plan(f)  == [Base EXCEPT !.family = f, !.maxBars = 6]
PartialPlans == {M1Plan("better1"), Atr(M1Plan("adaptive1")),
                 [Atr(M1Plan("meanrev1")) EXCEPT !.fast = 6, !.maxBars = 8, !.maxGaps = 0],
                 [Atr(M1Plan("breakout1")) EXCEPT !.lookback = 1],
                 [M1Plan("risk02") EXCEPT !.minutes5 = 2]}
MCPlans == PartialPlans \cup {Base, [Base EXCEPT !.h1Filter = FALSE, !.maxPerDay = 2],
            [M15Plan("better") EXCEPT !.maxGaps = 1, !.shapes = {Rise, Fall}], Atr(M15Plan("adaptive")),
            [M15Plan("files") EXCEPT !.h1Filter = FALSE],
            M1Plan("risk02"),
            [Atr(M15Plan("meanrev")) EXCEPT !.maxBars = 6, !.fast = 6], Atr(M15Plan("breakout")),
            [M15Plan("rejection") EXCEPT !.shapes = {Hammer, Shooting, Rest}, !.sessionStart = 2,
                                         !.sessionEnd = 2],
            [M15Plan("momentum") EXCEPT !.sessionStart = 2, !.sessionEnd = 1],
            [Base EXCEPT !.family = "zones", !.step = 4, !.maxBars = 8, !.barMinutes = 4,
                         !.shapes = {Rise, Fall}],
            [Base EXCEPT !.family = "columns", !.maxBars = 7, !.step = 2, !.coarse = 4]}
MCPlansHtf    == {[Base EXCEPT !.family = "filtered"]}
MCPlansPartial == PartialPlans
MCPlansWinter == {p \in MCPlans : p.family = "risk02"}
=============================================================================
