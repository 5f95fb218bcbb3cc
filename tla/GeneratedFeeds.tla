---------------------------- MODULE GeneratedFeeds ----------------------------
(***************************************************************************)
(* A generator run again and again over a growing chart, as its live       *)
(* callers do: at every step one more bar closes (a minute may be missing  *)
(* from the archive) and the whole feed is generated anew.                 *)
(***************************************************************************)
EXTENDS SignalText, ScalperColumns

CONSTANTS Plans,   \* generators with their arguments: records with .family
          FeedZone \* the zone the feed's header names, hours east of UTC

VARIABLES plan,   \* the generator under study
          chart,  \* its bars, closed, oldest first
          signals,\* what the generator makes of them
          feed    \* the lines it writes

vars == <<plan, chart, signals, feed>>

\* What a program leaves behind: its signals and their lines.
Output(s, zone) == <<s, RenderFeed(s, zone)>>
BetterMain(m15, m1, c)   == Output(BetterSignals(BetterBars(m15, m1), c), FeedZone)
AdaptiveMain(m15, m1, c) == Output(AdaptiveSignals(AdaptiveBars(m15, m1), c), FeedZone)
MeanrevMain(m15, m1, c)  == Output(MeanrevSignals(MeanrevBars(m15, m1), c), FeedZone)
BreakoutMain(m15, m1, c) == Output(BreakoutSignals(BreakoutBars(m15, m1), c), FeedZone)
ZonesMain(m1, c)         == Output(ZonesFromM1(Loaded(m1), c), 3)
SelfMain(m15, m1, c)     == Output(SelfFromFiles(m15, m1, c), FeedZone)
\* The chart's own clock under a header that always says GMT+3.
Risk02Main(m1, c) ==
    LET s == Risk02Signals(Loaded(m1), c) IN <<s, RenderChartClock(s, 3)>>

\* A family over its bars: M1 for self in process, zones, risk02 and the names that end in 1,
\* else M15.
\* The scalper's rows stand for its signals, which are a function of the rows up to them.
Generated(p, bars) ==
    CASE p.family = "self"      -> Output(SelfFromM1(bars, p), FeedZone)
      [] p.family = "files"     -> SelfMain(<<bars>>, <<>>, p)
      [] p.family = "better"    -> BetterMain(<<bars>>, <<>>, p)
      [] p.family = "adaptive"  -> AdaptiveMain(<<bars>>, <<>>, p)
      [] p.family = "files1"    -> SelfMain(<<>>, <<bars>>, p)
      [] p.family = "better1"   -> BetterMain(<<>>, <<bars>>, p)
      [] p.family = "adaptive1" -> AdaptiveMain(<<>>, <<bars>>, p)
      [] p.family = "meanrev"   -> MeanrevMain(<<bars>>, <<>>, p)
      [] p.family = "meanrev1"  -> MeanrevMain(<<>>, <<bars>>, p)
      [] p.family = "breakout"  -> BreakoutMain(<<bars>>, <<>>, p)
      [] p.family = "breakout1" -> BreakoutMain(<<>>, <<bars>>, p)
      [] p.family = "rejection" -> Output(RejectionSignals(bars, p), FeedZone)
      [] p.family = "momentum"  -> Output(MomentumSignals(bars, p), FeedZone)
      [] p.family = "zones"     -> ZonesMain(<<bars>>, p)
      [] p.family = "risk02"    -> Risk02Main(<<bars>>, p)
      [] p.family = "columns"   -> <<ScalperRows(bars, p), <<>>>>
      [] p.family = "filtered"  -> <<FilteredRows(bars, p), <<>>>>
HeaderZone == IF plan.family \in {"zones", "risk02"} THEN 3 ELSE FeedZone

NextTime == IF chart = <<>> THEN 0 ELSE Last(chart).time + plan.step
Gaps     == IF chart = <<>> THEN 0 ELSE Last(chart).time \div plan.step - (Len(chart) - 1)
Price    == IF chart = <<>> THEN plan.price ELSE Last(chart).close

\* A bar of a given shape closes after `missing` absent ones.
BarCloses(shape, missing) ==
    /\ Len(chart) < plan.maxBars
    /\ Gaps + missing <= plan.maxGaps
    /\ chart' = Append(chart, [time |-> NextTime + missing * plan.step, spread |-> 0,
                               open |-> Price, high |-> Price + shape.high,
                               low |-> Price + shape.low, close |-> Price + shape.close])
    /\ \E out \in {Generated(plan, chart')} : signals' = out[1] /\ feed' = out[2]
    /\ UNCHANGED plan

Init == plan \in Plans /\ chart = <<>> /\ signals = <<>> /\ feed = <<>>
Next == \E shape \in plan.shapes, missing \in 0..plan.maxGaps : BarCloses(shape, missing)
Spec == Init /\ [][Next]_vars

-----------------------------------------------------------------------------
(* Properties                                                              *)

ClosedBy(bars) == IF bars = <<>> THEN Never ELSE Last(bars).time + plan.step

\* One type invariant: the chart is chronological and whole.
TypeOK ==
    /\ plan \in Plans
    /\ \A k \in DOMAIN chart :
           /\ chart[k].low <= chart[k].open /\ chart[k].open <= chart[k].high
           /\ chart[k].low <= chart[k].close /\ chart[k].close <= chart[k].high
           /\ k > 1 => chart[k].time > chart[k - 1].time

UpTo(s, t) == SelectSeq(s, LAMBDA x : x.time <= t)

\* The minutes of the bucket a generator decides on as it forms: an M15 bucket of M1 bars for
\* better, adaptive, meanrev and breakout, an M5 one for risk02 (their _m1_to_m15 and _ohlc
\* keep partial buckets), and none but the bar itself for the others.
OpenBucket ==
    CASE plan.family \in {"better1", "adaptive1", "meanrev1", "breakout1"} -> Minutes15
      [] plan.family = "risk02" -> plan.minutes5
      [] OTHER -> plan.step
EndOfBucket(bars) == Slot(Last(bars).time, OpenBucket) + OpenBucket

\* The past of a feed is final: when a bar closes, every signal that was due before is still
\* there, unchanged and in its place, and a new one is dated after what had closed before and
\* not after the bar -- or after the bucket, of the generators that decide on an open bucket.
\* Live loops rely on it: they forward what they have not seen, and they key a signal by its
\* rank in the day.
PastStep ==
    LET past == UpTo(signals, ClosedBy(chart)) IN
    /\ IsPrefix(past, signals')
    /\ \A k \in (Len(past) + 1)..Len(signals') :
           ClosedBy(chart) <= signals'[k].time /\ signals'[k].time <= EndOfBucket(chart')
PastIsFinal == [][PastStep]_vars

\* What is written stays written, due or not.  The generators that decide on an open bucket
\* break it: they take back what the bucket's last minutes refute.
NothingTakenBack == [][IsPrefix(signals, signals')]_vars

\* Every entry the engine would place for a signal it reads as well-formed lies between
\* the range's best price and the stop, whatever the ladder mode; and a generator that
\* builds its own range writes only such signals.
Modes == {"range_uniform", "range_to_sl", "signal_range_3"}
WritesSignals == plan.family \notin {"columns", "filtered"}
LaddersAreSound ==
    WritesSignals => \A k \in DOMAIN signals :
        LET s == signals[k]   d == SignOf(s.side) IN
        /\ d * s.sl < d * s.r2 /\ d * s.r2 <= d * s.r1 /\ d * s.r1 < d * s.tp[1]
        /\ \A m \in Modes, n \in {1, 2, 3, 5}, gap \in {One, 4 * One} :
               LET e == ComputeEntries(s, m, n, gap) IN
               /\ Len(e) \in 1..n
               /\ ~Structural(s) =>
                      \A j \in DOMAIN e : /\ d * s.sl * Den(n) < d * e[j]
                                          /\ d * e[j] <= d * s.r1 * Den(n)

\* Text is no loss: the engine reads from a feed exactly the signals that were generated,
\* in their order and at their minute, on both sides of a clock change, and no two share
\* a day and a number.
ReadsBack ==
    LET read == ParseFeed(feed, HeaderZone) IN
    /\ Len(read) = Len(signals)
    /\ \A k \in DOMAIN read :
           /\ \A f \in {"time", "side", "r1", "r2", "sl", "tp"} : read[k][f] = signals[k][f]
           /\ \A j \in DOMAIN read : read[j].key = read[k].key => j = k
\* It holds of every family but risk02, whose writer does not convert.
RoundTrip == WritesSignals /\ plan.family # "risk02" => ReadsBack
=============================================================================
