--------------------------- MODULE ScalperFilters ---------------------------
(* What the EMA-pullback generator decides about one row: the structure     *)
(* guard, the quality classes and profiles, the extreme-entry mode, the     *)
(* entry filters and the geometry of a signal.  Prices are integers; NA is  *)
(* a column without a value.  A SELL is the mirror image of a BUY, so each  *)
(* rule is written once over prices seen from the side: Up(side, x).        *)
EXTENDS Integers, FiniteSetsExt

CONSTANT NA

Sign(side) == IF side = "BUY" THEN 1 ELSE -1
Known(x)   == x # NA

\* A price as the side sees it, a pair of values as the side orders them.
Up(side, x) == IF x = NA THEN NA ELSE Sign(side) * x
Mine(side, forBuy, forSell) == IF side = "BUY" THEN forBuy ELSE forSell

FloorToStep(x, step) == (x \div step) * step
-----------------------------------------------------------------------------
(* The structure guard. *)

\* The level behind the side and the impulse against it.
Behind(row, side)   == Up(side, Mine(side, row.swing_low, row.swing_high))
Against(row, side)  == Mine(side, row.struct_bear_recent, row.struct_bull_recent)
Trend(row, side)    == Up(side, row.struct_htf_diff)
Ahead(row, side)    == Up(side, row.close)

StructureScore(row, side) ==
    Cardinality({t \in {"trend", "vwap", "impulse", "swing"} :
        CASE t = "trend"   -> Known(row.struct_htf_diff) /\ Trend(row, side) > 0
          [] t = "vwap"    -> Known(row.vwap) /\ Ahead(row, side) > Up(side, row.vwap)
          [] t = "impulse" -> ~Against(row, side)
          [] t = "swing"   -> /\ Known(Behind(row, side))
                              /\ Ahead(row, side) >= Behind(row, side)})

StructureOk(row, side, a) ==
    /\ Known(row.struct_htf_diff)
    /\ Trend(row, side) >= 0
    /\ a.structure_require_vwap_side =>
         Known(row.vwap) /\ Ahead(row, side) >= Up(side, row.vwap)
    /\ ~(a.structure_impulse /\ Against(row, side))
    /\ StructureScore(row, side) >= a.structure_min_score
-----------------------------------------------------------------------------
(* Levels near the close. *)

Within(lo, x, hi) == lo <= x /\ x <= hi
RoundBelow(x, step) == IF step > 0 THEN {FloorToStep(x, step)} ELSE {}

\* The side's own prior-day level and round number, both at or behind the close.
Supports(row, side, step) ==
    {Up(side, l) : l \in {Mine(side, row.pday_low, row.pday_high)} \ {NA}}
        \cup RoundBelow(Ahead(row, side), step)

\* %B measured from the side's own band edge.
BandPos(row, side) ==
    IF row.bb_pctb = NA THEN NA ELSE Mine(side, row.bb_pctb, 100 - row.bb_pctb)
AtBandEdge(row, side, a) ==
    Known(row.bb_pctb) /\ BandPos(row, side) <= a.quality_bb_extreme_pctb

NearLevel(row, side, a) ==
    \/ AtBandEdge(row, side, a)
    \/ \E l \in Supports(row, side, a.quality_round_step) :
         Within(0, Ahead(row, side) - l, a.quality_proximity_atr * row.atr)

\* The demand band for a BUY, the supply band for a SELL: a pair, or NA.
Zone(row, side) == Mine(side, row.sd_demand, row.sd_supply)
InZone(row, side, tol) ==
    Known(Zone(row, side)) /\ Within(Zone(row, side)[1] - tol, row.close, Zone(row, side)[2] + tol)
-----------------------------------------------------------------------------
(* The quality classes.  Scores are in twentieths. *)

HtfState(row, a) == IF row.qual_htf_diff = NA THEN "na"
                    ELSE IF Within(-a.quality_htf_flat_atr, row.qual_htf_diff,
                                   a.quality_htf_flat_atr) THEN "flat"
                    ELSE IF row.qual_htf_diff > 0 THEN "bull" ELSE "bear"
Aligned(state, side) == state = Mine(side, "bull", "bear")
Opposed(state, side) == state = Mine(side, "bear", "bull")

Overextended(row, side, a) == Mine(side, row.rsi >= a.quality_rsi_overbought,
                                         row.rsi <= a.quality_rsi_oversold)
ReversalRsi(row, side, a)  == Mine(side, row.rsi <= a.quality_rsi_oversold,
                                         row.rsi >= a.quality_rsi_overbought)

FarFromVwap(row, side, a) ==
    /\ Known(row.vwap) /\ row.atr > 0
    /\ Ahead(row, side) - Up(side, row.vwap) >= a.quality_chase_vwap_atr * row.atr
DeepPullback(row, a) ==
    /\ Known(row.ema_mid) /\ row.atr > 0
    /\ \/ row.close - row.ema_mid >= a.quality_deep_pullback_atr * row.atr
       \/ row.ema_mid - row.close >= a.quality_deep_pullback_atr * row.atr

AtExtreme(row, side, a) ==
    NearLevel(row, side, a) \/ InZone(row, side, a.quality_proximity_atr * row.atr)
Chase(row, side, a) == Overextended(row, side, a) \/ FarFromVwap(row, side, a)
Classifiable(row, a) == HtfState(row, a) # "na" /\ Known(row.rsi) /\ Known(row.atr)

TrendClass(row, side, a) ==
    IF Chase(row, side, a) /\ ~AtExtreme(row, side, a) THEN "low_quality_chase"
    ELSE IF DeepPullback(row, a) \/ AtExtreme(row, side, a) THEN "deep_trend_pullback"
    ELSE "trend_pullback"
ReversalClass(row, side, a, class) ==
    IF AtExtreme(row, side, a) THEN class ELSE "low_quality_chase"

QualityClass(row, side, a) ==
    IF ~Classifiable(row, a) THEN "unknown"
    ELSE IF Aligned(HtfState(row, a), side) THEN TrendClass(row, side, a)
    ELSE IF Opposed(HtfState(row, a), side)
         THEN ReversalClass(row, side, a, "countertrend_reversal")
    ELSE ReversalClass(row, side, a, "range_extreme_reversal")

\* The weighted components, each with the condition that earns it.
Earned(row, side, a) ==
    LET aligned == Aligned(HtfState(row, a), side)
    IN  {[why |-> "level",   w |-> IF NearLevel(row, side, a) THEN 4 ELSE 0],
         [why |-> "zone",    w |-> IF InZone(row, side, a.quality_proximity_atr * row.atr)
                                   THEN 3 ELSE 0],
         [why |-> "trend",   w |-> IF aligned /\ ~Overextended(row, side, a) THEN 5 ELSE 0],
         [why |-> "turn",    w |-> IF aligned THEN 0
                                   ELSE IF ReversalRsi(row, side, a) THEN 5
                                   ELSE IF AtExtreme(row, side, a) THEN 2 ELSE 0],
         [why |-> "impulse", w |-> IF Mine(side, row.qual_bear_recent, row.qual_bull_recent)
                                   THEN 0 ELSE 3],
         [why |-> "life",    w |-> IF Known(row.adx) /\ row.adx >= 20 THEN 2
                                   ELSE IF Known(row.bb_bandwidth) /\ row.bb_bandwidth > 0
                                   THEN 1 ELSE 0],
         [why |-> "chase",   w |-> IF Chase(row, side, a) THEN -4 ELSE 0]}

QualityScore(row, side, a) ==
    LET sum  == MapThenSumSet(LAMBDA e : e.w, Earned(row, side, a))
        kept == IF QualityClass(row, side, a) = "low_quality_chase" /\ sum > 5 THEN 5 ELSE sum
    IN  IF QualityClass(row, side, a) = "unknown" \/ kept < 0 THEN 0
        ELSE IF kept > 20 THEN 20 ELSE kept

TrendClasses    == {"trend_pullback", "deep_trend_pullback"}
ReversalClasses == {"countertrend_reversal", "range_extreme_reversal"}

ProfileOk(class, score, a) ==
    CASE a.quality_profile = "trend_only" ->
           class \in TrendClasses /\ score >= a.min_quality_score
      [] a.quality_profile = "reversal_extreme" ->
           class \in ReversalClasses /\ score >= a.min_quality_score
      [] a.quality_profile = "hybrid_quality" ->
           /\ class \notin {"low_quality_chase", "unknown"}
           /\ class \in ReversalClasses => score >= a.min_quality_score
      [] a.quality_profile = "high_frequency_quality" ->
           class # "low_quality_chase" /\ score >= a.min_quality_score
      [] OTHER -> TRUE
-----------------------------------------------------------------------------
(* The extreme-entry mode: a matching extreme within reach, on either side. *)

Near(x, l, tol) == Within(-tol, x - l, tol)

ExtremeLevels(row, side) ==
    ({Mine(side, row.pday_low, row.pday_high), Mine(side, row.swing_low, row.swing_high)}
        \ {NA})

ExtremeOk(row, side, a) ==
    LET tol == a.extreme_proximity_atr * row.atr
    IN  /\ a.extreme_entry_mode \in {Mine(side, "support_demand", "supply_resistance"), "both"}
        /\ Known(row.atr) /\ row.atr > 0
        /\ \/ InZone(row, side, tol)
           \/ \E l \in ExtremeLevels(row, side) : Near(row.close, l, tol)
           \/ \E l \in RoundBelow(Ahead(row, side), a.extreme_round_step) :
                Near(Ahead(row, side), l, tol)
           \/ AtBandEdge(row, side, a)
-----------------------------------------------------------------------------
(* The entry filters.  An enabled filter rejects a column without a value.  *)

AtMost(x, limit)  == Known(x) /\ x <= limit
AtLeast(x, limit) == Known(x) /\ x >= limit

MomentumOk(row, side, a) ==
    /\ (side = "BUY" /\ a.rsi_buy_max < 100) => AtMost(row.rsi, a.rsi_buy_max)
    /\ (side = "SELL" /\ a.rsi_sell_min > 0) => AtLeast(row.rsi, a.rsi_sell_min)
    /\ (side = "BUY" /\ a.bb_buy_pctb_max < 200) => AtMost(row.bb_pctb, a.bb_buy_pctb_max)
    /\ (side = "SELL" /\ a.bb_sell_pctb_min > -100) => AtLeast(row.bb_pctb, a.bb_sell_pctb_min)
    /\ a.bb_bandwidth_min > 0 => AtLeast(row.bb_bandwidth, a.bb_bandwidth_min)
    /\ a.adx_min > 0 => AtLeast(row.adx, a.adx_min)

ContextOk(row, side, a) ==
    /\ a.vwap_filter => Known(row.vwap) /\ Ahead(row, side) >= Up(side, row.vwap)
    /\ a.htf_filter => Known(row.htf_diff) /\ Up(side, row.htf_diff) > 0
    /\ a.min_vol_mult > 0 => AtLeast(row.vol_ratio, a.min_vol_mult)

\* Both prior-day levels and both round numbers count for either side here.
SrLevels(row, side, step) ==
    {Up(side, l) : l \in {row.pday_high, row.pday_low} \ {NA}}
        \cup RoundBelow(Ahead(row, side), step)
SrOk(row, side, a) ==
    a.sr_proximity_atr > 0 =>
        \E l \in SrLevels(row, side, a.sr_round_step) :
            Within(0, Ahead(row, side) - l, a.sr_proximity_atr * row.atr)

ZoneOk(row, side, a) == a.sd_mode => InZone(row, side, a.sd_proximity_atr * row.atr)

EntryFiltersOk(row, side, a) ==
    /\ MomentumOk(row, side, a)
    /\ ContextOk(row, side, a)
    /\ SrOk(row, side, a)
    /\ ZoneOk(row, side, a)
    /\ a.structure_filter => StructureOk(row, side, a)
    /\ a.quality_profile # "off" =>
         ProfileOk(QualityClass(row, side, a), QualityScore(row, side, a), a)
    /\ a.extreme_entry_mode # "off" => ExtremeOk(row, side, a)
-----------------------------------------------------------------------------
(* The pullback setup of a row, and the signal built from it. *)

Setup(row, side, a) ==
    LET up(x) == Up(side, x)
    IN  /\ up(row.ema_fast) > up(row.ema_mid) /\ up(row.ema_mid) > up(row.ema_slow)
        /\ up(row.slope) >= a.min_slope
        /\ up(row.close) >= up(row.ema_fast)
        /\ up(Mine(side, row.low, row.high)) <= up(row.ema_mid) + row.atr * a.pullback_atr
        /\ up(row.close) > up(row.open) /\ up(row.close) > up(row.ema_mid)

Larger(x, y) == IF x > y THEN x ELSE y

\* The distance to the stop: the swing's, raised to the minimum, and capped or
\* refused above the maximum.
RawRisk(row, side, entry, a) == entry - (Behind(row, side) - row.atr * a.sl_buffer_atr)
Refused(raw, a) == raw <= 0 \/ (raw > a.max_risk /\ ~a.cap_oversized_risk)
Risk(raw, a) == IF raw < a.min_risk THEN a.min_risk
                ELSE IF raw > a.max_risk THEN a.max_risk ELSE raw

\* The stop, moved below the range when the risk would leave it inside.
StopRaw(entry, risk, a) == FloorToStep(entry - risk, a.price_step)
Stop(entry, far, risk, a) ==
    IF StopRaw(entry, risk, a) >= far THEN FloorToStep(far - a.price_step, a.price_step)
    ELSE StopRaw(entry, risk, a)

\* A signal in the side's own prices; {} when the geometry is refused.
Built(row, side, a) ==
    LET entry == FloorToStep(Ahead(row, side)
                     - Larger(a.min_entry_offset, row.atr * a.entry_offset_atr), a.price_step)
        far   == entry - a.range_width
        raw   == RawRisk(row, side, entry, a)
        sl    == Stop(entry, far, Risk(raw, a), a)
        risk  == IF StopRaw(entry, Risk(raw, a), a) >= far THEN entry - sl ELSE Risk(raw, a)
        tp(n) == -FloorToStep(-(entry + risk * a.rr[n]), a.price_step)
        fits  == /\ ~Refused(raw, a)
                 /\ Within(a.min_risk, risk, a.max_risk)
                 /\ tp(1) > entry /\ tp(1) < tp(2) /\ tp(2) < tp(3)
    IN  IF fits THEN {[side |-> side, entry |-> entry, far |-> far, sl |-> sl,
                       tp |-> [n \in 1..3 |-> tp(n)]]} ELSE {}
=============================================================================
