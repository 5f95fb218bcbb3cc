---------------------------- MODULE ScalperColumns ----------------------------
(***************************************************************************)
(* The columns generate_scalper_signals derives before it scans: averages, *)
(* swings, the session's mean, the day before, supply and demand bands and *)
(* the three readings of a coarser chart.  ScalperScan takes a row of them *)
(* as given; here they are computed from the bars, so that one can ask     *)
(* whether a row still reads the same when the chart has grown.  RSI,      *)
(* Bollinger bands, ADX and volume are left out.                           *)
(*                                                                         *)
(* A number that is not whole is a pair, numerator over denominator; an    *)
(* empty window gives Unknown, the NaN no comparison holds of.             *)
(***************************************************************************)
EXTENDS SignalGenerators

Unknown == <<0, 0>>
Mean(sum, n) == IF n = 0 THEN Unknown ELSE <<sum, n>>

RowsBefore(k, n) == (k - n)..(k - 1)       \* the n rows before k
SumOver(S, Term(_)) == FoldSet(LAMBDA k, s : Term(k) + s, 0, S)
HighestOf(bars, rows) == Max({bars[j].high : j \in rows})
LowestOf(bars, rows)  == Min({bars[j].low : j \in rows})

AtrOf(bars, k, c) == IF HasAtr(k, c.atrPeriod) THEN Mean(AtrNum(bars, k, c.atrPeriod), c.atrPeriod)
                     ELSE Unknown
EmaOf(bars, k, span) == <<EmaNum(bars, span)[k], EmaDen(span, k)>>
\* The rise of an average over `slope` rows.
EmaSlope(bars, k, span, slope) ==
    IF k <= slope THEN Unknown
    ELSE <<EmaNum(bars, span)[k] - EmaNum(bars, span)[k - slope] * (span + 1)^slope,
           EmaDen(span, k)>>
HasSwing(k, c) == k > c.swing
Swings(bars, k, c) ==
    IF HasSwing(k, c) THEN <<LowestOf(bars, RowsBefore(k, c.swing)), HighestOf(bars, RowsBefore(k, c.swing))>>
    ELSE Unknown

\* The mean typical price of the session, which is the calendar day so far.
Session(bars, k) == {j \in 1..k : DayOf(bars[j].time) = DayOf(bars[k].time)}
SessionVwap(bars, k) ==
    Mean(SumOver(Session(bars, k), LAMBDA j : bars[j].high + bars[j].low + bars[j].close),
         3 * Cardinality(Session(bars, k)))

\* High and low of the last day before this one that has bars.
PriorDay(bars, k) ==
    LET earlier == {j \in 1..k : DayOf(bars[j].time) < DayOf(bars[k].time)}
        day     == {j \in earlier : \A i \in earlier : DayOf(bars[i].time) <= DayOf(bars[j].time)}
    IN  IF day = {} THEN Unknown ELSE <<LowestOf(bars, day), HighestOf(bars, day)>>

-----------------------------------------------------------------------------
(* Supply and demand                                                       *)

\* A base of `base` tight rows, left by an impulse that is `impulse` rows old when seen.
BaseRows(k, c) == (k - c.impulse - c.base + 1)..(k - c.impulse)
HasBase(bars, k, c) ==
    /\ k - c.impulse >= c.base /\ HasAtr(k - c.impulse, c.atrPeriod)
    /\ (HighestOf(bars, BaseRows(k, c)) - LowestOf(bars, BaseRows(k, c))) * c.atrPeriod
           <= c.baseMaxAtr * AtrNum(bars, k - c.impulse, c.atrPeriod)
Leaves(bars, k, c, distance) ==
    HasBase(bars, k, c) /\ distance * c.atrPeriod >= c.impulseMinAtr * AtrNum(bars, k, c.atrPeriod)
UpImpulse(bars, k, c)   == Leaves(bars, k, c, bars[k].close - HighestOf(bars, BaseRows(k, c)))
DownImpulse(bars, k, c) == Leaves(bars, k, c, LowestOf(bars, BaseRows(k, c)) - bars[k].close)
\* The band of the last base left that way, for `age` rows.
LastBand(bars, k, c, Left(_, _, _)) ==
    LET left == {j \in (k - c.age)..k : j >= 1 /\ Left(bars, j, c)}
    IN  IF left = {} THEN Unknown
        ELSE <<LowestOf(bars, BaseRows(Max(left), c)), HighestOf(bars, BaseRows(Max(left), c))>>
Bands(bars, k, c) == <<LastBand(bars, k, c, UpImpulse), LastBand(bars, k, c, DownImpulse)>>

-----------------------------------------------------------------------------
(* The coarser chart                                                       *)

Buckets(bars, c) == Resampled(bars, c.coarse, 1)
\* A bucket's value is stamped at its completion and carried forward from there.
AsOf(b, t, c, Value(_)) ==
    LET done == {j \in DOMAIN b : b[j].time + c.coarse <= t}
    IN  IF done = {} THEN Unknown ELSE Value(Max(done))

\* fast - slow, and the same in units of the bucket ATR.
BucketTrend(b, j, c) == <<FastOver(b, j, c), EmaDen(c.fast, j) * EmaDen(c.slow, j)>>
OverAtr(b, j, c, from) ==
    LET t == BucketTrend(b, j, c)   n == j - from + 1
    IN  <<t[1] * n, t[2] * TrueRanges(b, from, j)>>
StructHtfDiff(b, t, c) == AsOf(b, t, c, LAMBDA j : BucketTrend(b, j, c))
ProgHtfDiff(b, t, c) ==
    AsOf(b, t, c, LAMBDA j : IF HasAtr(j, c.coarseAtr) THEN OverAtr(b, j, c, j - c.coarseAtr + 1)
                             ELSE Unknown)
QualHtfDiff(b, t, c) ==
    LET from(j) == Max({1, j - c.coarseAtr + 1}) IN
    AsOf(b, t, c, LAMBDA j : IF TrueRanges(b, from(j), j) = 0 THEN Unknown ELSE OverAtr(b, j, c, from(j)))
\* The trend of --htf-filter: a bucket's latest close, read while the bucket is open.
PlainHtfDiff(b, t, c) == BucketTrend(b, Max({j \in DOMAIN b : b[j].time <= t}), c)

-----------------------------------------------------------------------------
(* Impulses and progress                                                   *)

\* A candle of `candle` ATRs against the side, or a close beyond the swing behind it.
ImpulseAt(bars, k, side, c) ==
    LET s == SignOf(side) IN
    \/ /\ HasAtr(k, c.atrPeriod)
       /\ s * (bars[k].close - bars[k].open) * c.atrPeriod >= c.candle * AtrNum(bars, k, c.atrPeriod)
    \/ /\ HasSwing(k, c)
       /\ IF side = "BUY" THEN bars[k].close > Swings(bars, k, c)[2] ELSE bars[k].close < Swings(bars, k, c)[1]
StructRecent(bars, k, side, c) == \E j \in (k - c.cooldown + 1)..k : j >= 1 /\ ImpulseAt(bars, j, side, c)
QualRecent(bars, k, side, c)   == StructRecent(bars, k, side, [c EXCEPT !.candle = c.qualCandle,
                                                                        !.cooldown = c.qualRows])

\* The regime of the stall filter, by a tenth of the flat band.
RegimeOf(d, c) ==
    CASE d = Unknown                 -> "nan"
      [] d[1] * 10 > c.flat * d[2]   -> "bull"
      [] d[1] * 10 < -c.flat * d[2]  -> "bear"
      [] OTHER                       -> "flat"
Regimes(bars, c) ==
    LET b == Buckets(bars, c)
    IN  FoldLeft(LAMBDA r, bar : Append(r, RegimeOf(ProgHtfDiff(b, bar.time, c), c)), <<>>, bars)

\* A new extreme against the rows before, by a margin, and a close that confirms it.
ValidProgress(bars, k, regime, c) ==
    LET prior  == {j \in RowsBefore(k, c.localRows) : j >= 1}
        atr    == AtrNum(bars, k, c.atrPeriod)
        margin == Max({c.progress * atr, c.points * c.atrPeriod})
        breaks(by, confirmed) == by * c.atrPeriod >= margin /\ confirmed * c.atrPeriod >= c.confirm * atr
    IN  /\ prior # {} /\ HasAtr(k, c.atrPeriod)
        /\ \/ /\ regime = "bull"
              /\ breaks(bars[k].high - HighestOf(bars, prior), bars[k].close - HighestOf(bars, prior))
           \/ /\ regime = "bear"
              /\ breaks(LowestOf(bars, prior) - bars[k].low, LowestOf(bars, prior) - bars[k].close)

\* A leg is a run of one regime; within it, how much progress and how long without.
LegStart(k, regimes) ==
    CHOOSE s \in 1..k : /\ \A j \in s..k : regimes[j] = regimes[k]
                       /\ s > 1 => regimes[s - 1] # regimes[k]
Stall(bars, k, regimes, c) ==
    LET start == LegStart(k, regimes)
        valid == {j \in start..k : ValidProgress(bars, j, regimes[j], c)}
    IN  [epoch |-> Cardinality(valid), since |-> k - Max(valid \cup {start})]

\* A row, dated when its bar closes.
ScalperRow(bars, b, regimes, k, c) ==
    LET t == bars[k].time IN
    [time |-> t + c.step,
     atr  |-> AtrOf(bars, k, c), ema |-> <<EmaOf(bars, k, c.fast), EmaOf(bars, k, c.slow)>>,
     slope |-> EmaSlope(bars, k, c.slow, 1), swing |-> Swings(bars, k, c),
     vwap |-> SessionVwap(bars, k), day |-> PriorDay(bars, k), bands |-> Bands(bars, k, c),
     trend |-> <<StructHtfDiff(b, t, c), ProgHtfDiff(b, t, c), QualHtfDiff(b, t, c)>>,
     recent |-> [side \in {"BUY", "SELL"} |-> <<StructRecent(bars, k, side, c), QualRecent(bars, k, side, c)>>],
     stall |-> Stall(bars, k, regimes, c)]
ScalperRows(bars, c) ==
    LET b == Buckets(bars, c)   regimes == Regimes(bars, c)
    IN  [k \in DOMAIN bars |-> ScalperRow(bars, b, regimes, k, c)]
\* The rows of a feed that asks for --htf-filter.
FilteredRows(bars, c) ==
    LET b == Buckets(bars, c)
    IN  [k \in DOMAIN bars |-> [time |-> bars[k].time + c.step, htf_diff |-> PlainHtfDiff(b, bars[k].time, c)]]
=============================================================================
