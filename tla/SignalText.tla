------------------------------ MODULE SignalText ------------------------------
(***************************************************************************)
(* A feed as the engine reads it: the generated signals grouped by the day *)
(* they are displayed on and numbered from one (write_signal_file and      *)
(* format_generated_signals), and the parser of core/signal.py with its    *)
(* ladders of entries.  A line keeps its fields; the layout, the AM/PM     *)
(* clock and the two decimals of a price are left out.                     *)
(***************************************************************************)
EXTENDS ZoneSignals

CONSTANT One   \* ticks in a dollar

\* A line: header day, number, clock within that day, and the levels.
Line(day, n, clock, s) == [day |-> day, n |-> n, clock |-> clock, side |-> s.side,
                           r1 |-> s.r1, r2 |-> s.r2, sl |-> s.sl, tp |-> s.tp]

\* The lines of signals already in display order, the numbers of each day from one.
Numbered(signals, Display(_)) ==
    [k \in DOMAIN signals |->
        LET t == Display(signals[k].time)
        IN  Line(DayOf(t), Cardinality({j \in 1..k : DayOf(Display(signals[j].time)) = DayOf(t)}),
                 t % DayLen, signals[k])]

\* auto_self's own writer shows the chart's clock whatever the season.
RenderChartClock(signals, zone) ==
    Numbered(SortSeq(signals, ByTimeAndSide), LAMBDA t : t)
\* The generators convert to the zone the header names.
RenderFeed(signals, zone) ==
    Numbered(SortSeq(signals, ByTimeAndSide), LAMBDA t : FromChartTz(t, zone))

-----------------------------------------------------------------------------
(* core/signal.py                                                          *)

\* A ladder's ends, and its provider-native rungs.
RangeHigh(s) == Max({s.r1, s.r2})
RangeLow(s)  == Min({s.r1, s.r2})
EntriesFor(s) ==
    IF s.side = "BUY" THEN <<RangeHigh(s), RangeHigh(s) - One, RangeLow(s)>>
                      ELSE <<RangeLow(s), RangeLow(s) + One, RangeHigh(s)>>

\* What _validate calls a structural anomaly: stop, entries and targets out of order.
Structural(s) ==
    LET d == SignOf(s.side)   e == EntriesFor(s) IN
    \/ \E k \in 1..3 : d * s.sl >= d * e[k]
    \/ ~(d * s.tp[1] < d * s.tp[2] /\ d * s.tp[2] < d * s.tp[3])
    \/ \E k \in 1..3 : d * s.tp[1] <= d * e[k]

ParsedLine(l, zone) ==
    [time |-> ToChartTz(l.day * DayLen + l.clock, zone), side |-> l.side,
     r1 |-> l.r1, r2 |-> l.r2, sl |-> l.sl, tp |-> l.tp,
     key |-> <<l.day, l.n>>, structural |-> Structural(l)]
\* In chart-time order, in file order for equal times.
ParseFeed(lines, zone) ==
    LET s == [k \in DOMAIN lines |-> [sig |-> ParsedLine(lines[k], zone), id |-> k]]
        o == SortSeq(s, LAMBDA a, b : a.sig.time < b.sig.time
                                      \/ (a.sig.time = b.sig.time /\ a.id < b.id))
    IN  [k \in DOMAIN o |-> o[k].sig]

\* n prices from the first to the last, evenly spaced, as numerators over n - 1.
Linspace(first, last, n) == [k \in 1..n |-> first * (n - 1) + (last - first) * (k - 1)]

\* The deepest entry of a ladder towards the stop: the range's own end when the gap
\* would put it past the range's best price.
DeepEnd(s, gap) ==
    LET d == SignOf(s.side)   far == s.sl + d * gap
        best == IF s.side = "BUY" THEN RangeHigh(s) ELSE RangeLow(s)
        worst == IF s.side = "BUY" THEN RangeLow(s) ELSE RangeHigh(s)
    IN  IF d * far >= d * best THEN worst ELSE far

\* The first n of them that differ.
FirstDistinct(prices, n) ==
    LET out[k \in 0..Len(prices)] ==
            IF k = 0 THEN <<>>
            ELSE IF Len(out[k - 1]) < n /\ prices[k] \notin Range(out[k - 1])
            THEN Append(out[k - 1], prices[k]) ELSE out[k - 1]
    IN  out[Len(prices)]

\* The entry prices under a ladder mode, as numerators over Den(n).
Den(n) == IF n = 1 THEN 1 ELSE n - 1
ComputeEntries(s, mode, n, gap) ==
    LET best  == IF s.side = "BUY" THEN RangeHigh(s) ELSE RangeLow(s)
        worst == IF s.side = "BUY" THEN RangeLow(s) ELSE RangeHigh(s)
        scaled == [k \in 1..3 |-> EntriesFor(s)[k] * Den(n)]
        even   == Linspace(best, worst, n)
    IN  IF n = 1 THEN <<best>>
        ELSE CASE mode = "range_uniform"  -> even
               [] mode = "range_to_sl"    -> Linspace(best, DeepEnd(s, gap), n)
               [] mode = "signal_range_3" ->
                      IF n <= 3 THEN SubSeq(scaled, 1, n) ELSE FirstDistinct(scaled \o even, n)
=============================================================================
