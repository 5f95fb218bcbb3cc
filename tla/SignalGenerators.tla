--------------------------- MODULE SignalGenerators ---------------------------
(***************************************************************************)
(* The generator families that write the engine's self-made feeds from the *)
(* chart: trend pullback on M15 (self, better, adaptive, risk02), fade of  *)
(* a stretch (meanrev), breakout, wick rejection and momentum on closed    *)
(* bars, and supply/demand zones on H1.  Each is a pure function of the    *)
(* bars it is given and of its arguments `c`.                              *)
(*                                                                         *)
(* A scan goes over the bars once and keeps what it fired: the time of the *)
(* last signal of a side or zone and the count of a day are read off that. *)
(* Reasons, provenance fields and summaries are left out.                  *)
(***************************************************************************)
EXTENDS ChartBars

Signal(t, side, r1, r2, sl, tp) ==
    [time |-> t, side |-> side, r1 |-> r1, r2 |-> r2, sl |-> sl, tp |-> tp]

\* One pass over rows 1..n: what fires at a row depends on the row and on `fired`.
Scan(n, Fires(_, _), Make(_)) ==
    FoldLeft(LAMBDA fired, k : IF Fires(fired, k) THEN Append(fired, Make(k)) ELSE fired,
             <<>>, [k \in 1..n |-> k])

SpacedFrom(fired, side, t, gap) ==
    \A k \in DOMAIN fired : fired[k].side = side => t - fired[k].time >= gap
DayCount(fired, t) == Cardinality({k \in DOMAIN fired : DayOf(fired[k].time) = DayOf(t)})

\* The gates the M15 scans share: the date range, the ATR band, the daily cap, a side
\* and the spacing from the last signal of that side.
SignalTime(b) == b.time + Minutes15
InRange(t, c) == c.start <= t /\ t < c.end
InAtrBand(bars, k, c) ==
    /\ HasAtr(k, c.atrPeriod)
    /\ c.minAtr * c.atrPeriod <= AtrNum(bars, k, c.atrPeriod)
    /\ AtrNum(bars, k, c.atrPeriod) <= c.maxAtr * c.atrPeriod
Passes(fired, bars, k, side, c) ==
    LET t == SignalTime(bars[k]) IN
    /\ InRange(t, c) /\ InAtrBand(bars, k, c)
    /\ DayCount(fired, t) < c.maxPerDay
    /\ side # "none"
    /\ SpacedFrom(fired, side, t, c.spacing)

\* A ladder below (BUY) or above (SELL) the close; distances are numerators over `den`.
Ladder(b, side, d, den) ==
    LET s  == SignOf(side)
        r1 == Rounded(b.close * den - s * d.offset * den, den)
        r2 == Rounded(r1 * den - s * d.width, den)
    IN  Signal(SignalTime(b), side, r1, r2, Rounded(r2 * den - s * d.gap, den),
               [n \in 1..3 |-> Rounded(r1 * den + s * d.tp[n], den)])

\* Every distance a multiple of the row's ATR.
AtrDistances(bars, k, c) ==
    LET atr == AtrNum(bars, k, c.atrPeriod)
    IN  [offset |-> c.offset, width |-> c.width * atr, gap |-> c.gap * atr,
         tp |-> [n \in 1..3 |-> c.tp[n] * atr]]

-----------------------------------------------------------------------------
(* Trend pullback: generate_self_signals                                   *)

FastOver(bars, k, c) ==   \* > 0, = 0 or < 0 as ema_fast is above, on or below ema_slow
    EmaNum(bars, c.fast)[k] * EmaDen(c.slow, k) - EmaNum(bars, c.slow)[k] * EmaDen(c.fast, k)
FastRises(bars, k, c) ==  \* ema_delta, zero on the first row
    IF k = 1 THEN 0 ELSE EmaNum(bars, c.fast)[k] - (c.fast + 1) * EmaNum(bars, c.fast)[k - 1]
CloseOver(bars, k, span) == bars[k].close * EmaDen(span, k) - EmaNum(bars, span)[k]

TrendSide(bars, k, c) ==
    CASE FastOver(bars, k, c) > 0 /\ FastRises(bars, k, c) > 0
             /\ CloseOver(bars, k, c.fast) > 0 -> "BUY"
      [] FastOver(bars, k, c) < 0 /\ FastRises(bars, k, c) < 0
             /\ CloseOver(bars, k, c.fast) < 0 -> "SELL"
      [] OTHER -> "none"

\* The H1 trend, stamped at the close of its hour.
H1Trend(m15, c) ==
    LET h1 == ResampleOhlc(m15)
    IN  [k \in DOMAIN h1 |->
            [known |-> h1[k].time + HourLen,
             trend |-> FastOver(h1, k, [fast |-> c.h1Fast, slow |-> c.h1Slow])]]
\* The latest closed hour agrees with the side; before the first one none does.
H1Agrees(m15, t, side, c) ==
    LET known == SelectSeq(H1Trend(m15, c), LAMBDA h : h.known <= t)
    IN  known # <<>> /\ SignOf(side) * Last(known).trend > 0

SelfSignals(m15, c) ==
    Scan(Len(m15),
         LAMBDA fired, k : LET side == TrendSide(m15, k, c) IN
             /\ Passes(fired, m15, k, side, c)
             /\ c.h1Filter => H1Agrees(m15, SignalTime(m15[k]), side, c),
         LAMBDA k : Ladder(m15[k], TrendSide(m15, k, c), c, 1))
SelfFromM1(m1, c)         == SelfSignals(M1ToM15(BarsToFrame(m1)), c)
SelfFromFiles(m15, m1, c) == SelfSignals(Working(Loaded(m15), M1ToM15(Loaded(m1))), c)

-----------------------------------------------------------------------------
(* Its variants: better (fixed distances), adaptive (ATR distances), and   *)
(* the plain-LIMIT risk02 on M5, in step with M15                          *)

\* Each program has its own copy of the loader.
BetterBars(m15, m1)   == Working(Loaded(m15), LooseM15(Loaded(m1)))
AdaptiveBars(m15, m1) == Working(Loaded(m15), LooseM15(Loaded(m1)))
MeanrevBars(m15, m1)  == Working(Loaded(m15), LooseM15(Loaded(m1)))
BreakoutBars(m15, m1) == Working(Loaded(m15), LooseM15(Loaded(m1)))

BetterSignals(bars, c) ==
    Scan(Len(bars), LAMBDA fired, k : Passes(fired, bars, k, TrendSide(bars, k, c), c),
         LAMBDA k : Ladder(bars[k], TrendSide(bars, k, c), c, 1))

AdaptiveSignals(bars, c) ==
    Scan(Len(bars), LAMBDA fired, k : Passes(fired, bars, k, TrendSide(bars, k, c), c),
         LAMBDA k : Ladder(bars[k], TrendSide(bars, k, c), AtrDistances(bars, k, c), c.atrPeriod))

\* The M15 bar a decision at t may see is the last one that has closed by t.
Risk02Side(m5, m15, k, t, c) ==
    LET closed == SelectSeq(m15, LAMBDA b : SignalTime(b) <= t)
        h      == Len(closed)
        rises  == IF k = 1 THEN 0 ELSE m5[k].close - m5[k - 1].close
        Leans(s) == /\ h > 0 /\ s * rises > 0 /\ s * CloseOver(m5, k, c.fast) > 0
                    /\ s * CloseOver(m15, h, c.fast) > 0
    IN  CASE Leans(1) -> "BUY" [] Leans(-1) -> "SELL" [] OTHER -> "none"

Risk02Signals(m1, c) ==
    LET used == SelectSeq(m1, LAMBDA b : InRange(b.time, c))
        m5   == Resampled(used, c.minutes5, 1)
        m15  == Resampled(used, Minutes15, 1)
        At(k)   == m5[k].time + c.minutes5
        Side(k) == Risk02Side(m5, m15, k, At(k), c)
    IN  Scan(Len(m5),
             LAMBDA fired, k :
                 /\ InRange(At(k), c) /\ HourOf(At(k)) \in c.hours
                 /\ Side(k) # "none" /\ SpacedFrom(fired, Side(k), At(k), c.spacing),
             LAMBDA k : LET s == SignOf(Side(k))   r1 == m5[k].close - s * c.offset IN
                 Signal(At(k), Side(k), r1, r1 - s * c.width, r1 - s * c.gap,
                        [n \in 1..3 |-> r1 + s * c.tp[n]]))

-----------------------------------------------------------------------------
(* Mean reversion and breakout                                             *)

\* How far the close stands from the mean, times den * ema's den: compared with the band.
MeanrevSide(bars, k, c) ==
    LET stretch == CloseOver(bars, k, c.fast) * c.atrPeriod   \* over EmaDen * atrPeriod
        band    == c.band * AtrNum(bars, k, c.atrPeriod) * EmaDen(c.fast, k)
    IN  CASE AtrNum(bars, k, c.atrPeriod) = 0 -> IF c.band <= 0 THEN "SELL" ELSE "none"
          [] stretch >= band  -> "SELL"
          [] stretch <= -band -> "BUY"
          [] OTHER            -> "none"

\* Entries that fade further into the stretch, the stop beyond its extreme.
MeanrevSignal(bars, k, side, c) ==
    LET l   == Ladder(bars[k], side, AtrDistances(bars, k, c), c.atrPeriod)
        far == IF side = "BUY" THEN Min({l.r2, bars[k].low}) ELSE Max({l.r2, bars[k].high})
        gap == c.gap * AtrNum(bars, k, c.atrPeriod)
    IN  [l EXCEPT !.sl = Rounded(far * c.atrPeriod - SignOf(side) * gap, c.atrPeriod)]

MeanrevSignals(bars, c) ==
    Scan(Len(bars),
         LAMBDA fired, k : InAtrBand(bars, k, c)
                           /\ Passes(fired, bars, k, MeanrevSide(bars, k, c), c),
         LAMBDA k : MeanrevSignal(bars, k, MeanrevSide(bars, k, c), c))

\* The extremes of the `lookback` bars before row k, which closed before it.
HasPrior(k, c)  == k > c.lookback
PriorRows(k, c) == (k - c.lookback)..(k - 1)
PriorHigh(bars, k, c) == Max({bars[j].high : j \in PriorRows(k, c)})
PriorLow(bars, k, c)  == Min({bars[j].low : j \in PriorRows(k, c)})

BreakoutSide(bars, k, c) ==
    LET atr  == AtrNum(bars, k, c.atrPeriod)
        p    == c.atrPeriod
    IN  CASE AbsVal(bars[k].close - bars[k].open) * p < c.minBody * atr -> "none"
          [] (bars[k].close - PriorHigh(bars, k, c)) * p >= c.break * atr -> "BUY"
          [] (PriorLow(bars, k, c) - bars[k].close) * p >= c.break * atr  -> "SELL"
          [] OTHER -> "none"

\* Entries on the pullback, the stop back inside the broken range.
BreakoutSignal(bars, k, side, c) ==
    LET l   == Ladder(bars[k], side, AtrDistances(bars, k, c), c.atrPeriod)
        far == IF side = "BUY" THEN Min({l.r2, PriorHigh(bars, k, c)})
                               ELSE Max({l.r2, PriorLow(bars, k, c)})
        gap == c.gap * AtrNum(bars, k, c.atrPeriod)
    IN  [l EXCEPT !.sl = Rounded(far * c.atrPeriod - SignOf(side) * gap, c.atrPeriod)]

BreakoutSignals(bars, c) ==
    Scan(Len(bars),
         LAMBDA fired, k : /\ InAtrBand(bars, k, c) /\ HasPrior(k, c)
                           /\ Passes(fired, bars, k, BreakoutSide(bars, k, c), c),
         LAMBDA k : BreakoutSignal(bars, k, BreakoutSide(bars, k, c), c))
=============================================================================
