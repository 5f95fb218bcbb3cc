------------------------------ MODULE ChartBars ------------------------------
(***************************************************************************)
(* The chart as the signal generators see it: CSV files of bars loaded and *)
(* merged, M1 bars aggregated to M15 and H1 (tools/generate_self_signals.py*)
(* and its siblings, tools/gen_zone_signals.py), and the indicators every  *)
(* generator computes.  Also the chart's clock (core/chart_tz.py).         *)
(*                                                                         *)
(* Times are minutes, prices are ticks.  An average is kept as an exact    *)
(* numerator over a known denominator, so comparisons do not round; the    *)
(* code's floats are read as the numbers they approximate.                 *)
(***************************************************************************)
EXTENDS Integers, Sequences, SequencesExt

CONSTANTS Minutes15,  \* minutes in an M15 bar
          HourLen,    \* minutes in an hour, a multiple of Minutes15
          DayLen,     \* minutes in a day, a multiple of HourLen
          Autumn      \* the chart-local minute at which the clock falls back to winter

ASSUME ClockAssumption ==
    /\ {Minutes15, HourLen, DayLen} \subseteq Nat \ {0} /\ Autumn \in Int
    /\ HourLen % Minutes15 = 0 /\ DayLen % HourLen = 0

Never == -10000
DayOf(t)  == t \div DayLen
HourOf(t) == (t % DayLen) \div HourLen
AbsVal(n) == IF n < 0 THEN -n ELSE n
SignOf(side) == IF side = "BUY" THEN 1 ELSE -1

\* round(x, 2) of num / den, ties to even.
Rounded(num, den) ==
    LET q == num \div den   r == num % den
    IN  CASE 2 * r < den -> q
          [] 2 * r > den -> q + 1
          [] OTHER       -> IF q % 2 = 0 THEN q ELSE q + 1

-----------------------------------------------------------------------------
(* The clock                                                               *)

\* Chart time is EET: three hours east of UTC in summer, two from Autumn on.
OffsetAtUtc(t)   == IF t + 3 * HourLen < Autumn THEN 3 ELSE 2
OffsetAtLocal(t) == IF t < Autumn THEN 3 ELSE 2
ToChartTz(t, source)   == LET utc == t - source * HourLen
                          IN  utc + OffsetAtUtc(utc) * HourLen
FromChartTz(t, target) == t - OffsetAtLocal(t) * HourLen + target * HourLen

-----------------------------------------------------------------------------
(* Files                                                                   *)

\* Bars of distinct times, the one with k - 1 earlier ones at k.
Chronological(bars) ==
    [k \in 1..Cardinality(bars) |->
        CHOOSE b \in bars : Cardinality({x \in bars : x.time < b.time}) = k - 1]

\* A bar of `direct` replaces the one `derived` has for the same minute.
Working(direct, derived) ==
    Chronological(Range(direct) \cup
        {b \in Range(derived) : \A d \in Range(direct) : d.time # b.time})

\* Of two files that hold the same minute, the one whose name sorts last wins.
Loaded(files) == FoldLeft(LAMBDA kept, f : Working(f, kept), <<>>, files)

\* Broker bars straight from the terminal, forming bar included or not.
BarsToFrame(bars) == Chronological(Range(bars))

-----------------------------------------------------------------------------
(* Coarser bars, labelled by their opening minute                          *)

Slot(t, len) == t - (t % len)
InSlot(bars, s, len) == SelectSeq(bars, LAMBDA b : Slot(b.time, len) = s)
Merged(s, g) ==
    [time |-> s, open |-> g[1].open, close |-> Last(g).close, spread |-> Last(g).spread,
     high |-> Max({g[k].high : k \in DOMAIN g}), low |-> Min({g[k].low : k \in DOMAIN g})]

\* The slots with at least `need` bars.
Resampled(bars, len, need) ==
    LET slots == {s \in {Slot(bars[k].time, len) : k \in DOMAIN bars} :
                      Len(InSlot(bars, s, len)) >= need}
    IN  Chronological({Merged(s, InSlot(bars, s, len)) : s \in slots})

\* The other M15 generators keep every bucket, the forming one included.
LooseM15(m1) == Resampled(m1, Minutes15, 1)
\* generate_self_signals drops a bucket that still misses a minute.
M1ToM15(m1)  == Resampled(m1, Minutes15, Minutes15)
\* The trend gate's hours: only hours with all their M15 bars.
ResampleOhlc(m15) == Resampled(m15, HourLen, HourLen \div Minutes15)
\* The zone generator drops the last hour, which may still be forming.
ResampleH1(m1) ==
    LET h1 == Resampled(m1, HourLen, 1) IN IF h1 = <<>> THEN h1 ELSE Front(h1)

-----------------------------------------------------------------------------
(* Indicators                                                              *)

\* close.ewm(span, adjust=False).mean(): the numerator over (span + 1)^(k - 1).
EmaNum(bars, span) ==
    LET f[k \in 1..Len(bars)] ==
            IF k = 1 THEN bars[1].close
            ELSE 2 * bars[k].close * (span + 1)^(k - 2) + (span - 1) * f[k - 1]
    IN  f
EmaDen(span, k) == (span + 1)^(k - 1)

TrueRange(bars, k) ==
    IF k = 1 THEN bars[1].high - bars[1].low
    ELSE Max({bars[k].high - bars[k].low, AbsVal(bars[k].high - bars[k - 1].close),
              AbsVal(bars[k].low - bars[k - 1].close)})
TrueRanges(bars, from, to) == FoldLeft(LAMBDA s, k : s + TrueRange(bars, from + k - 1), 0,
                                       [k \in 1..(to - from + 1) |-> k])
\* The rolling mean of the true range: the numerator over `period`, from bar `period` on.
HasAtr(k, period)       == k >= period
AtrNum(bars, k, period) == TrueRanges(bars, k - period + 1, k)

\* Wilder's average of the zone generator: the numerator over period^(k - period + 1).
WilderNum(bars, period) ==
    LET f[k \in period..Len(bars)] ==
            IF k = period THEN TrueRanges(bars, 1, period)
            ELSE f[k - 1] * (period - 1) + TrueRange(bars, k) * period^(k - period)
    IN  f
WilderDen(k, period) == period^(k - period + 1)
=============================================================================
