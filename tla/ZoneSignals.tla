----------------------------- MODULE ZoneSignals -----------------------------
(***************************************************************************)
(* The generators of trading/engine/strategy that work on closed bars of   *)
(* any length: wick rejections (self_signals.py), momentum breakouts       *)
(* (momentum_signals.py) and supply/demand zones (zone_signals.py).        *)
(***************************************************************************)
EXTENDS SignalGenerators

InSession(hour, start, end) ==
    CASE start = end -> TRUE
      [] start < end -> start <= hour /\ hour < end
      [] OTHER       -> hour >= start \/ hour < end

\* The zone of an entry: its price rounded to a multiple of the zone size.
ZoneKey(side, anchor, size) == <<side, Rounded(anchor, size)>>

\* Entry at the anchor, the band behind it, fixed distances.
MakeSignal(t, side, anchor, c) ==
    LET s == SignOf(side)   r2 == anchor - s * c.width
    IN  Signal(t, side, anchor, r2, r2 - s * c.gap, [n \in 1..3 |-> anchor + s * c.tp[n]])

\* Rejection and momentum share their gates: session, spread, range, one cooldown for
\* every signal and a longer one for its zone.
BarPasses(fired, b, side, c) ==
    LET t == b.time + c.barMinutes IN
    /\ InSession(HourOf(t), c.sessionStart, c.sessionEnd)
    /\ b.spread <= c.maxSpread /\ b.high - b.low >= c.minRange
    /\ side # "none"
    /\ \A k \in DOMAIN fired : t - fired[k].time >= c.spacing
    /\ \A k \in DOMAIN fired :
           ZoneKey(fired[k].side, fired[k].r1, c.zoneSize) = ZoneKey(side, b.close, c.zoneSize)
               => t - fired[k].time >= c.zoneSpacing

RejectionSide(bars, k, c) ==
    LET b     == bars[k]
        body  == Max({AbsVal(b.close - b.open), 1})
        lower == Min({b.open, b.close}) - b.low
        upper == b.high - Max({b.open, b.close})
        Wick(w) == w >= c.minWick /\ w >= c.wickRatio * body
    IN  CASE b.low <= PriorLow(bars, k, c) + c.buffer /\ Wick(lower) /\ b.close > b.open -> "BUY"
          [] b.high >= PriorHigh(bars, k, c) - c.buffer /\ Wick(upper) /\ b.close < b.open -> "SELL"
          [] OTHER -> "none"

RejectionSignals(bars, c) ==
    Scan(Len(bars),
         LAMBDA fired, k : HasPrior(k, c) /\ BarPasses(fired, bars[k], RejectionSide(bars, k, c), c),
         LAMBDA k : MakeSignal(bars[k].time + c.barMinutes, RejectionSide(bars, k, c), bars[k].close, c))

\* A body that closes beyond the recent extreme, near the end of its range; the
\* fraction c.position is in tenths.
MomentumSide(bars, k, c) ==
    LET b == bars[k]   range == b.high - b.low IN
    CASE AbsVal(b.close - b.open) < c.minBody -> "none"
      [] b.close > PriorHigh(bars, k, c) + c.buffer /\ b.close > b.open
             /\ 10 * (b.close - b.low) >= c.position * range -> "BUY"
      [] b.close < PriorLow(bars, k, c) - c.buffer /\ b.close < b.open
             /\ 10 * (b.high - b.close) >= c.position * range -> "SELL"
      [] OTHER -> "none"

MomentumSignals(bars, c) ==
    Scan(Len(bars),
         LAMBDA fired, k : HasPrior(k, c) /\ BarPasses(fired, bars[k], MomentumSide(bars, k, c), c),
         LAMBDA k : MakeSignal(bars[k].time + c.barMinutes, MomentumSide(bars, k, c), bars[k].close, c))

-----------------------------------------------------------------------------
(* Zones                                                                   *)

\* A pivot low is a demand zone, a pivot high (and no pivot low) a supply zone.
PivotKind(bars, k, c) ==
    LET window == {bars[j] : j \in (k - c.swing)..(k + c.swing)} IN
    CASE \A b \in window : bars[k].low <= b.low   -> "demand"
      [] \A b \in window : bars[k].high >= b.high -> "supply"
      [] OTHER -> "none"

Proximal(b, kind) == IF kind = "demand" THEN Max({b.open, b.close}) ELSE Min({b.open, b.close})
Distal(b, kind)   == IF kind = "demand" THEN b.low ELSE b.high

\* A zone's height is bounded by ATR multiples, where an ATR is known and positive.
FitsAtr(bars, k, height, c) ==
    (k >= c.atrPeriod /\ WilderNum(bars, c.atrPeriod)[k] > 0) =>
        LET scaled == height * WilderDen(k, c.atrPeriod)
            atr    == WilderNum(bars, c.atrPeriod)[k]
        IN  /\ c.maxZone > 0 => scaled <= c.maxZone * atr
            /\ c.minZone > 0 => scaled >= c.minZone * atr

\* Known once the swing bars to the right of the pivot have closed.
ZoneAt(bars, k, c) ==
    LET kind == PivotKind(bars, k, c) IN
    [kind |-> kind, pivot |-> k, confirmed |-> bars[k + c.swing].time + c.barMinutes,
     proximal |-> Proximal(bars[k], kind), distal |-> Distal(bars[k], kind)]

DetectZones(bars, c) ==
    FoldLeft(LAMBDA zones, k :
        LET kind == PivotKind(bars, k, c)
            z    == ZoneAt(bars, k, c)
        IN  IF /\ kind # "none" /\ FitsAtr(bars, k, AbsVal(z.proximal - z.distal), c)
               /\ \A j \in DOMAIN zones : zones[j].kind = kind => k - zones[j].pivot >= c.separation
            THEN Append(zones, z) ELSE zones,
        <<>>, [j \in 1..Max({0, Len(bars) - 2 * c.swing}) |-> j + c.swing])

BrokenBefore(z, bars, cutoff) ==
    \E k \in DOMAIN bars :
        /\ z.confirmed <= bars[k].time /\ bars[k].time < cutoff
        /\ IF z.kind = "supply" THEN bars[k].close > z.distal ELSE bars[k].close < z.distal

\* The nearest opposite zone confirmed by then, on the right side, whole and in reach.
Targets(z, zones, bars, c) ==
    LET atr == WilderNum(bars, c.atrPeriod)[z.pivot]
        den == WilderDen(z.pivot, c.atrPeriod)
        Away(t) == (IF z.kind = "demand" THEN 1 ELSE -1) * (t.proximal - z.proximal)
        in == SelectSeq(zones, LAMBDA t :
                  /\ t.kind # z.kind /\ t.confirmed <= z.confirmed /\ Away(t) > 0
                  /\ c.minTarget * atr <= Away(t) * den /\ Away(t) * den <= c.maxTarget * atr
                  /\ ~BrokenBefore(t, bars, z.confirmed))
    IN  SelectSeq(in, LAMBDA t : \A j \in DOMAIN in : Away(t) <= Away(in[j]))

\* The stop clears the far edge, and the near edge by the broker's stops level; the
\* targets ladder across the opposite zone.
FaultyZoneSignal(z, t, c) ==
    LET side == IF z.kind = "demand" THEN "BUY" ELSE "SELL"
    IN  Signal(z.confirmed, side, z.proximal, z.distal,
               z.proximal - SignOf(side) * c.stopsLevel,
               <<t.proximal, Rounded(t.proximal + t.distal, 2), t.distal>>)
ZoneSignal(z, t, c) ==
    LET side == IF z.kind = "demand" THEN "BUY" ELSE "SELL"
        far  == z.distal - SignOf(side) * c.slBuffer
        near == z.proximal - SignOf(side) * c.stopsLevel
    IN  Signal(z.confirmed, side, z.proximal, z.distal,
               IF side = "BUY" THEN Min({far, near}) ELSE Max({far, near}),
               <<t.proximal, Rounded(t.proximal + t.distal, 2), t.distal>>)

ByTimeAndSide(a, b) ==
    a.time < b.time \/ (a.time = b.time /\ a.side = "BUY" /\ b.side = "SELL")

ZoneSignals(bars, c) ==
    LET zones == DetectZones(bars, c)
        sized == SelectSeq(zones, LAMBDA z : /\ z.pivot >= c.atrPeriod
                                             /\ WilderNum(bars, c.atrPeriod)[z.pivot] > 0)
        aimed == SelectSeq(sized, LAMBDA z : Targets(z, zones, bars, c) # <<>>)
    IN  SortSeq([k \in DOMAIN aimed |->
                    ZoneSignal(aimed[k], Targets(aimed[k], zones, bars, c)[1], c)], ByTimeAndSide)
ZonesFromM1(m1, c) == ZoneSignals(ResampleH1(m1), c)
=============================================================================
