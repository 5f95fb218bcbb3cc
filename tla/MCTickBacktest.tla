---------------------------- MODULE MCTickBacktest ----------------------------
(* The three programs behind a tick-level backtest of the EMA-pullback feed,   *)
(* each with a data set of its own: the sync that keeps the tick archive, here *)
(* a month of four ticks on three days, two of them in the same millisecond    *)
(* and two to a part; the scan that generates the feed, over a pullback in a   *)
(* bull and in a bear market, with and without progress, one with a far swing, *)
(* and rows the filters tell apart; and the book of the backtest itself: a     *)
(* chart of nine minutes, ladders of two legs, and one configuration per gate  *)
(* and policy, with the pairs of them that interact.                           *)
EXTENDS BacktestBook, TickArchive, ScalperScan

MCPath == <<10, 12, 9, 13, 8, 12, 11, 7, 10>>
Leg(fill, exit) == [fill |-> fill, exit |-> exit]
MCLives == {<<Leg(0, 1), Leg(Never, Never)>>,   \* one leg in and out, the other never fills
            <<Leg(0, 3), Leg(1, 2)>>,           \* both fill, one outlives the other
            <<Leg(1, 2), Leg(2, 4)>>,           \* both rest first
            <<Leg(Never, Never), Leg(Never, Never)>>}
Off == [dailyLoss |-> 0, maxOpen |-> 0, maxLots |-> 0, maxZone |-> 0,
        opposite |-> "allow_hedge", sameSide |-> "allow_all",
        window |-> 0, clusterNum |-> 3, clusterDen |-> 2, entryGap |-> 1]
MCConfigs ==
    {[Off EXCEPT !.maxOpen = 1, !.dailyLoss = 8],
     [Off EXCEPT !.maxLots = 48, !.maxOpen = 2],
     [Off EXCEPT !.maxZone = 12, !.dailyLoss = 4],
     [Off EXCEPT !.opposite = "reject_opposite", !.maxOpen = 2],
     [Off EXCEPT !.opposite = "close_then_flip"],
     [Off EXCEPT !.opposite = "reduce_then_hedge"],
     [Off EXCEPT !.opposite = "profit_bank_rearm", !.sameSide = "reject_overlap"],
     [Off EXCEPT !.opposite = "reduce_then_hedge", !.sameSide = "scale_in_fixed_risk", !.window = 1],
     [Off EXCEPT !.sameSide = "scale_in_fixed_risk", !.maxLots = 64],
     [Off EXCEPT !.sameSide = "scale_in_better_entry_only"]}

MCInstants == <<1, 1, 2, 3>>
MCTickDays == <<1, 1, 2, 3>>

Quiet == [open |-> 10, high |-> 12, low |-> 9, close |-> 10, spread |-> 0, atr |-> 1,
          ema_fast |-> 10, ema_mid |-> 9, ema_slow |-> 8, slope |-> 1,
          swing_low |-> 6, swing_high |-> 14, rsi |-> 50, bb_pctb |-> 50,
          bb_bandwidth |-> 1, adx |-> 25, vwap |-> 9, vol_ratio |-> 1, htf_diff |-> 1,
          pday_low |-> 10, pday_high |-> 13, sd_demand |-> <<9, 10>>, sd_supply |-> NA,
          struct_htf_diff |-> 1, struct_bear_recent |-> FALSE, struct_bull_recent |-> FALSE,
          qual_htf_diff |-> 2, qual_bear_recent |-> FALSE, qual_bull_recent |-> FALSE,
          prog_diff |-> 2, brokeHigh |-> FALSE, brokeLow |-> FALSE]
Buy  == [Quiet EXCEPT !.close = 11]
Sell == [Quiet EXCEPT !.close = 9, !.open = 10, !.low = 8, !.ema_fast = 10, !.ema_mid = 11,
                      !.ema_slow = 12, !.slope = -1, !.high = 11, !.prog_diff = -2]

MCRows == {Quiet, Buy, Sell,
           [Quiet EXCEPT !.brokeHigh = TRUE],
           [Buy EXCEPT !.swing_low = 1, !.sd_demand = NA, !.pday_low = NA],
           [Buy EXCEPT !.prog_diff = 0, !.struct_htf_diff = -1, !.atr = 2, !.swing_low = 10,
                       !.qual_htf_diff = -2, !.rsi = 20, !.vwap = 12]}

Defaults ==
    [session_start |-> 0, session_end |-> 0, max_spread_points |-> 1,
     min_atr |-> 1, max_atr |-> 2, cooldown |-> 0, max_signals_per_day |-> 0,
     min_body_atr |-> 0, min_slope |-> 0, pullback_atr |-> 1,
     min_entry_offset |-> 0, entry_offset_atr |-> 0, price_step |-> 1, range_width |-> 2,
     sl_buffer_atr |-> 0, min_risk |-> 2, max_risk |-> 6, cap_oversized_risk |-> TRUE,
     rr |-> [n \in 1..3 |-> n],
     rsi_buy_max |-> 100, rsi_sell_min |-> 0, bb_buy_pctb_max |-> 200,
     bb_sell_pctb_min |-> -100, bb_bandwidth_min |-> 0, adx_min |-> 0,
     vwap_filter |-> FALSE, htf_filter |-> FALSE, min_vol_mult |-> 0,
     sr_proximity_atr |-> 0, sr_round_step |-> 0, sd_mode |-> FALSE, sd_proximity_atr |-> 1,
     structure_filter |-> FALSE, structure_require_vwap_side |-> TRUE,
     structure_impulse |-> TRUE, structure_min_score |-> 2,
     quality_profile |-> "off", min_quality_score |-> 0, quality_proximity_atr |-> 1,
     quality_round_step |-> 0, quality_bb_extreme_pctb |-> 10, quality_htf_flat_atr |-> 1,
     quality_rsi_overbought |-> 70, quality_rsi_oversold |-> 30,
     quality_chase_vwap_atr |-> 3, quality_deep_pullback_atr |-> 3,
     extreme_entry_mode |-> "off", extreme_proximity_atr |-> 1, extreme_round_step |-> 5,
     progress_min_diff |-> 1, progress_stall_n |-> 2, progress_min_no_progress_bars |-> 1,
     progress_probe_interval_bars |-> 3]

MCArgs == {Defaults,
           [Defaults EXCEPT !.progress_stall_n = 1, !.progress_probe_interval_bars = 2,
                            !.entry_offset_atr = 1, !.price_step = 2, !.range_width = 3],
           [Defaults EXCEPT !.structure_filter = TRUE, !.sr_proximity_atr = 1,
                            !.max_signals_per_day = 3, !.session_start = 22, !.session_end = 6],
           [Defaults EXCEPT !.quality_profile = "hybrid_quality", !.min_quality_score = 8,
                            !.adx_min = 20, !.vwap_filter = TRUE],
           [Defaults EXCEPT !.extreme_entry_mode = "both", !.sd_mode = TRUE,
                            !.cap_oversized_risk = FALSE, !.cooldown = 2]}

NoArchive == /\ disk = <<>> /\ broker = [lo |-> 1, hi |-> 0] /\ kind = "none"
             /\ trust = "sound" /\ owed = {}
NoFeed    == seen = MaxSignals /\ equity = Capital /\ last \in Starts /\ rows = <<>>
             /\ active = {} /\ account = <<>> /\ gate = NewGate
             /\ config = CHOOSE c \in Configs : TRUE
NoScan    == args = Defaults /\ read = MaxRows /\ progress = NoProgress /\ capped = NewScan

BacktestInit == \/ Init /\ NoArchive /\ NoScan
                \/ ArchiveInit /\ NoFeed /\ NoScan
                \/ ScanInit /\ NoFeed /\ NoArchive
BacktestNext == \/ Next /\ UNCHANGED <<ticksVars, scanVars>>
                \/ kind # "none" /\ ArchiveNext /\ UNCHANGED <<vars, scanVars>>
                \/ ScanNext /\ UNCHANGED <<vars, ticksVars>>
BacktestSpec == BacktestInit /\ [][BacktestNext]_<<vars, ticksVars, scanVars>>
ArchiveSpec  == ArchiveInit /\ NoFeed /\ NoScan
                /\ [][ArchiveNext /\ UNCHANGED <<vars, scanVars>>]_<<vars, ticksVars, scanVars>>
===============================================================================
