----------------------------- MODULE BacktestBook -----------------------------
(***************************************************************************)
(* The signal loop of a backtest: run_backtest and the tick-preferring     *)
(* _run_hybrid_loop.  Signals arrive in time order; each is gated on the   *)
(* account (DeploymentGate), replayed, gated on its replay, confronted     *)
(* with the signals still active (CollisionPolicy) and only then booked.   *)
(* A replay is known whole when its signal arrives, so what the two        *)
(* policies do to an older signal is a correction of a result that is      *)
(* already in the equity curve.  `account` is what a real account would    *)
(* have held instead: every leg from its fill to the moment it was really  *)
(* closed.                                                                 *)
(***************************************************************************)
EXTENDS Integers, Sequences, SequencesExt, FiniteSets, FiniteSetsExt

CONSTANTS Path,        \* the chart: the price at each minute 0 .. Horizon
          Configs,     \* the strategy configurations to run
          Lives,       \* how a signal's legs fill and exit, in minutes from its arrival
          Engines,     \* "M1" replays bars, "TICK" the executor on ticks
          Capital, Lot, StopDistance, MinLot,
          MaxHold, PendingExpiry,
          DayLength, DayShift,      \* the source day of a chart minute
          Starts, MaxSignals, MaxGap \* bounds: first minute, signals in the feed, minutes between two

Horizon == Len(Path) - 1
Never   == -1
Sides   == {"BUY", "SELL"}
PriceAt(t) == Path[t + 1]
DayOf(t)   == (t + DayShift) \div DayLength
Dir(side)  == IF side = "BUY" THEN 1 ELSE -1

ASSUME UnitsAssumption ==
    /\ {Len(Path), Capital, Lot, StopDistance, MinLot, MaxHold, PendingExpiry, DayLength} \subseteq Nat \ {0}
    /\ DayShift \in Nat /\ Starts \subseteq Nat

\* A leg that fills is closed at the latest when max_hold_minutes are over.
ASSUME LivesAssumption ==
    \A life \in Lives : \A i \in DOMAIN life :
        LET leg == life[i] IN
        leg.fill # Never => leg.fill \in Nat /\ leg.exit \in Nat /\ leg.exit <= leg.fill + MaxHold

VARIABLES config,   \* the run's StrategyConfig
          equity,
          seen, last, \* the feed: signals read, minute of the last
          rows,     \* the report rows, in order
          gate,     \* DeploymentGate
          active,   \* CollisionPolicy._active
          account   \* history: the legs a real account would have held

vars == <<config, equity, seen, last, rows, gate, active, account>>

-----------------------------------------------------------------------------
(* Replaying one signal                                                    *)

\* The legs of a signal that arrives at t and lives as `life` says, as far as
\* the data go: a filled leg at the price of its minute, one that never fills
\* at the planned price.
Reached(t, offset) == IF offset = Never \/ t + offset > Horizon THEN Never ELSE t + offset
Legs(t, side, life) ==
    [i \in DOMAIN life |->
        LET fill  == Reached(t, life[i].fill)
            exit  == Reached(t, life[i].exit)
            entry == PriceAt(IF fill = Never THEN t ELSE fill)
        IN  [entry |-> entry, lot |-> Lot, fill |-> fill, exit |-> exit,
             pnl |-> IF exit = Never THEN 0 ELSE Lot * Dir(side) * (PriceAt(exit) - entry)]]

Filled(leg) == leg.fill # Never
Closed(leg) == Filled(leg) /\ leg.exit # Never
SumOver(legs, Op(_)) == FoldLeft(LAMBDA acc, leg : acc + Op(leg), 0, legs)

\* _tick_signal_rows: an executed leg is known by its closing deal, and one
\* without a deal loses its fill.
TickRows(legs) == [i \in DOMAIN legs |-> IF Closed(legs[i]) THEN legs[i] ELSE [legs[i] EXCEPT !.fill = Never]]
RowsOf(engine, legs) == IF engine = "TICK" THEN TickRows(legs) ELSE legs

\* position_status: a leg the data end on, and one whose order they end before
\* the expiry of, leave the signal open.
StatusOf(t, legs) ==
    LET pnl     == SumOver(legs, LAMBDA leg : leg.pnl)
        Pending == t + PendingExpiry > Horizon
    IN  CASE \E i \in DOMAIN legs : ~Closed(legs[i]) /\ (Filled(legs[i]) \/ Pending) -> "OPEN"
          [] \A i \in DOMAIN legs : ~Filled(legs[i]) -> "NO_FILL"
          [] pnl > 0 -> "WIN"
          [] pnl < 0 -> "LOSS"
          [] OTHER   -> "BREAKEVEN"

\* replay_signal_rows, _tick_signal_rows: an open signal has no result yet.
Build(t, side, life, engine) ==
    LET legs   == Legs(t, side, life)
        status == StatusOf(t, legs)
        pnl    == IF status = "OPEN" THEN 0 ELSE SumOver(legs, LAMBDA leg : leg.pnl)
    IN  [t |-> t, side |-> side, legs |-> RowsOf(engine, legs), real |-> legs,
         status |-> status, pnl |-> pnl, before |-> equity, after |-> equity + pnl]

-----------------------------------------------------------------------------
(* DeploymentGate                                                          *)

NewGate == [windows |-> <<>>, day |-> Never, dayStart |-> 0, dayPnl |-> 0, blocked |-> FALSE]
UsesWindows == config.maxOpen > 0 \/ config.maxLots > 0

\* _signal_day: the source day, the report's.
FaultySignalDay(t) == t \div DayLength
SignalDay(t) == DayOf(t)

\* _roll_day, then the pruning of pre_check.
Rolled(t) ==
    LET day == IF SignalDay(t) = gate.day THEN gate
               ELSE [gate EXCEPT !.day = SignalDay(t), !.dayStart = equity, !.dayPnl = 0, !.blocked = FALSE]
    IN  IF UsesWindows THEN [day EXCEPT !.windows = SelectSeq(@, LAMBDA w : w.end > t)] ELSE day

DayBlocked(g) == config.dailyLoss > 0 /\ g.blocked
Crowded(g) == config.maxOpen > 0 /\ Len(g.windows) >= config.maxOpen

\* risk_budget_check: the ladder at the minimum lot, stopped out.
OverBudget(b) == config.maxZone > 0 /\ Len(b.legs) * StopDistance * MinLot * config.maxZone > equity

FilledLots(legs) == SumOver(legs, LAMBDA leg : IF Filled(leg) THEN leg.lot ELSE 0)
TooManyLots(g, b) ==
    /\ config.maxLots > 0
    /\ SumOver(g.windows, LAMBDA w : w.lots) + FilledLots(b.legs) > config.maxLots

\* Until every filled leg is out; a signal that never filled, until its orders expire.
LegEnds(legs) ==
    {IF Closed(legs[i]) THEN legs[i].exit ELSE legs[i].fill + MaxHold : i \in {j \in DOMAIN legs : Filled(legs[j])}}
EndOf(t, legs) ==
    LET ends == LegEnds(legs)
    IN  Max({t} \cup IF ends = {} THEN {t + PendingExpiry} ELSE ends)

\* register
Registered(g, b) ==
    LET counts == config.dailyLoss > 0 /\ b.status # "OPEN"
        pnl    == IF counts THEN g.dayPnl + (b.after - b.before) ELSE g.dayPnl
        window == [start |-> b.t, end |-> EndOf(b.t, b.legs), lots |-> FilledLots(b.legs)]
    IN  [g EXCEPT !.dayPnl = pnl,
                  !.blocked = @ \/ (counts /\ pnl * config.dailyLoss <= -g.dayStart),
                  !.windows = IF UsesWindows THEN Append(@, window) ELSE @]

-----------------------------------------------------------------------------
(* CollisionPolicy                                                         *)

RiskOf(legs) == SumOver(legs, LAMBDA leg : StopDistance * leg.lot)
BestEntry(side, legs) == LET all == {legs[i].entry : i \in DOMAIN legs} IN IF side = "BUY" THEN Max(all) ELSE Min(all)
CollisionOn == config.opposite # "allow_hedge" \/ config.sameSide # "allow_all"

OpenAt(leg, t) == Filled(leg) /\ leg.fill <= t /\ (leg.exit = Never \/ leg.exit > t)
Still(t) == {a \in active : a.end > t}
FaultyOpposite(t, side) ==
    IF config.opposite = "allow_hedge" THEN {}
    ELSE {a \in Still(t) : a.side # side /\ \E i \in DOMAIN a.legs : OpenAt(a.legs[i], t)}
Opposite(t, side) == IF config.opposite = "allow_hedge" THEN {} ELSE {a \in Still(t) : a.side # side}
Cluster(t, side)  == {a \in Still(t) : a.side = side /\ (config.window = 0 \/ t - a.start <= config.window)}
Anchor(members)   == CHOOSE a \in members : \A m \in members : a.id <= m.id

\* mark_profit: what it has made by t, its open legs at the price of t.
MarkProfit(a, t) ==
    SumOver(a.legs, LAMBDA leg :
        IF ~Filled(leg) \/ leg.fill > t THEN 0
        ELSE IF Closed(leg) /\ leg.exit <= t THEN leg.pnl
        ELSE leg.lot * Dir(a.side) * (PriceAt(t) - leg.entry))

\* What is closed of each opposite signal, in halves.
CloseHalves(a, t) ==
    CASE config.opposite = "close_then_flip"   -> 2
      [] config.opposite = "reduce_then_hedge" -> 1
      [] config.opposite = "profit_bank_rearm" ->
            IF a.risk > 0 /\ 2 * MarkProfit(a, t) >= a.risk THEN 2 ELSE 0
      [] OTHER -> 0

\* The same-side outcome: <<accepted, scale>>, the scale a fraction.
One == <<1, 1>>
SameSide(b) ==
    LET members == Cluster(b.t, b.side)
        before  == MapThenSumSet(LAMBDA a : a.risk, members)
        cap     == (Anchor(members).risk * config.clusterNum) \div config.clusterDen
        fresh   == RiskOf(b.legs)
        planned == {a.planned : a \in members}
        best    == IF b.side = "BUY" THEN Max(planned) ELSE Min(planned)
        better  == Dir(b.side) * (best - BestEntry(b.side, b.legs)) >= config.entryGap
        room    == Max({0, cap - before})
    IN  CASE config.sameSide = "allow_all" \/ members = {} -> <<TRUE, One>>
          [] config.sameSide = "reject_overlap"              -> <<FALSE, One>>
          [] config.sameSide = "scale_in_better_entry_only"  -> <<better /\ (cap > 0 => before + fresh <= cap), One>>
          [] fresh <= room -> <<TRUE, One>>
          [] OTHER         -> <<room > 0 /\ Lot * room >= MinLot * fresh, <<room, fresh>> >>

Share(x, scale) == (x * scale[1]) \div scale[2]
HedgeScale(b) == IF Opposite(b.t, b.side) # {} /\ config.opposite = "reduce_then_hedge" THEN <<1, 2>> ELSE One

\* A leg that is not over by t keeps only what was not closed, result included.
Untouched(leg, t) == ~Filled(leg) \/ (Closed(leg) /\ leg.exit <= t)
KeepPart(leg, t, halves) ==
    IF Untouched(leg, t) THEN leg
    ELSE [leg EXCEPT !.lot = (@ * (2 - halves)) \div 2, !.pnl = (@ * (2 - halves)) \div 2]

\* The correction for one leg: the price of t instead of its natural exit, or,
\* for an order that would have filled later, its result undone.
LegDelta(leg, side, t, halves) ==
    IF Untouched(leg, t) THEN 0
    ELSE (IF leg.fill <= t THEN (leg.lot * Dir(side) * (PriceAt(t) - leg.entry) * halves) \div 2 ELSE 0)
         - (leg.pnl * halves) \div 2

\* _apply_old_side
Reduced(a, t, halves) ==
    IF halves = 0 THEN a
    ELSE [a EXCEPT !.legs = [i \in DOMAIN a.legs |-> KeepPart(a.legs[i], t, halves)],
                   !.risk = (@ * (2 - halves)) \div 2,
                   !.end  = IF halves = 2 THEN t ELSE @]
OldSideDelta(t, side) ==
    MapThenSumSet(LAMBDA a : SumOver(a.legs, LAMBDA leg : LegDelta(leg, a.side, t, CloseHalves(a, t))),
                  Opposite(t, side))
OldSide(t, side) ==
    {IF a \in Opposite(t, side) THEN Reduced(a, t, CloseHalves(a, t)) ELSE a : a \in Still(t)}

\* decide: accepted, and at which scale; the old side is touched only then.
Decision(b) ==
    LET same == SameSide(b) IN
    [accept |-> /\ ~(config.opposite = "reject_opposite" /\ Opposite(b.t, b.side) # {})
                /\ same[1],
     scale  |-> <<HedgeScale(b)[1] * same[2][1], HedgeScale(b)[2] * same[2][2]>>,
     delta  |-> OldSideDelta(b.t, b.side)]

\* apply_collision_to_built
ScaledLegs(legs, scale) == [i \in DOMAIN legs |-> [legs[i] EXCEPT !.lot = Share(@, scale), !.pnl = Share(@, scale)]]
Applied(b, d) ==
    LET pnl == Share(b.pnl, d.scale) + d.delta IN
    [b EXCEPT !.legs = ScaledLegs(@, d.scale), !.real = ScaledLegs(@, d.scale), !.pnl = pnl, !.after = b.before + pnl]

\* CollisionPolicy.register
ActiveSignal(b, id) ==
    [id |-> id, side |-> b.side, start |-> b.t, end |-> EndOf(b.t, b.legs), legs |-> b.legs,
     planned |-> BestEntry(b.side, b.legs), risk |-> RiskOf(b.legs)]

-----------------------------------------------------------------------------
(* The real account: every accepted signal with its legs and the parts of  *)
(* it, in halves, that a policy closed early.                              *)

Cut(k, t, side) ==
    LET mine == {a \in Opposite(t, side) : a.id = k} IN
    IF mine = {} THEN 0 ELSE CloseHalves(CHOOSE a \in mine : TRUE, t)
Traded(b) ==
    [k \in 1 .. Len(rows) + 1 |->
        IF k > Len(rows) THEN [side |-> b.side, legs |-> b.real, cuts |-> {}]
        ELSE IF Cut(k, b.t, b.side) = 0 THEN account[k]
        ELSE [account[k] EXCEPT !.cuts = @ \cup {[t |-> b.t, halves |-> Cut(k, b.t, b.side)]}]]

\* A leg is held while it is open and was not closed whole; half of it is still held.
HeldAt(a, minute) ==
    /\ \E i \in DOMAIN a.legs : OpenAt(a.legs[i], minute) /\ a.legs[i].lot > 0
    /\ \A c \in a.cuts : c.t > minute \/ c.halves < 2

-----------------------------------------------------------------------------
(* The loop                                                                *)

Init ==
    /\ config \in Configs
    /\ equity = Capital
    /\ seen = 0 /\ last \in Starts
    /\ rows = <<>> /\ active = {} /\ account = <<>>
    /\ gate = NewGate

Excluded(t, stillActive) ==
    /\ gate' = Rolled(t)
    /\ active' = stillActive
    /\ UNCHANGED <<equity, rows, account>>

BlockedByDay(t) == DayBlocked(Rolled(t)) /\ Excluded(t, active)
TooManyOpen(t)  == ~DayBlocked(Rolled(t)) /\ Crowded(Rolled(t)) /\ Excluded(t, active)
Admitted(t)     == ~DayBlocked(Rolled(t)) /\ ~Crowded(Rolled(t))

RiskyForTheAccount(b) == Admitted(b.t) /\ OverBudget(b) /\ Excluded(b.t, active)
OverTheCeiling(b) == Admitted(b.t) /\ ~OverBudget(b) /\ TooManyLots(Rolled(b.t), b) /\ Excluded(b.t, active)
Affordable(b) == Admitted(b.t) /\ ~OverBudget(b) /\ ~TooManyLots(Rolled(b.t), b)

Collides(b) == Affordable(b) /\ CollisionOn /\ ~Decision(b).accept /\ Excluded(b.t, Still(b.t))

\* An open signal moves the equity only by what it closed of the others.
NewEquity(built, delta) == IF built.status # "OPEN" \/ delta # 0 THEN built.after ELSE equity

Take(b, built, delta) ==
    /\ rows' = Append(rows, [t |-> b.t, status |-> built.status, pnl |-> built.pnl, blind |-> b.legs # b.real,
                             before |-> built.before, after |-> built.after])
    /\ equity' = NewEquity(built, delta)
    /\ gate' = Registered(Rolled(b.t), built)

Book(b) == Affordable(b) /\ ~CollisionOn /\ Take(b, b, 0) /\ account' = Traded(b) /\ UNCHANGED active
BookColliding(b) ==
    LET d == Decision(b)
        built == Applied(b, d)
    IN  /\ Affordable(b) /\ CollisionOn /\ d.accept
        /\ Take(b, built, d.delta)
        /\ active' = OldSide(b.t, b.side) \cup {ActiveSignal(built, Len(rows) + 1)}
        /\ account' = Traded(built)

\* Equity at or below zero ends the run.
Next ==
    /\ seen < MaxSignals /\ equity > 0
    /\ seen' = seen + 1
    /\ UNCHANGED config
    /\ \E gap \in 0 .. MaxGap :
        /\ last + gap <= Horizon
        /\ last' = last + gap
        /\ \/ BlockedByDay(last + gap)
           \/ TooManyOpen(last + gap)
           \/ \E side \in Sides, life \in Lives, engine \in Engines :
                LET b == Build(last + gap, side, life, engine) IN
                RiskyForTheAccount(b) \/ OverTheCeiling(b) \/ Collides(b) \/ Book(b) \/ BookColliding(b)

Spec == Init /\ [][Next]_vars

-----------------------------------------------------------------------------
(* aggregate_backtest_result groups the rows by source day.                *)

OnDay(day) == {i \in DOMAIN rows : DayOf(rows[i].t) = day}

\* The running sum of a day's results over the rows rs; an open signal has none yet.
Made(rs, day) ==
    LET made[i \in 0 .. Len(rs)] ==
            IF i = 0 THEN 0
            ELSE IF DayOf(rs[i].t) # day \/ rs[i].status = "OPEN" THEN made[i - 1]
            ELSE made[i - 1] + (rs[i].after - rs[i].before)
    IN  made

-----------------------------------------------------------------------------
(* Properties                                                              *)

\* On the tick path a signal still open at the end of the data has lost the
\* fills of its open legs: neither policy sees them (_tick_signal_rows).
Seen(k) == ~rows[k].blind
HeldBy(minute) == {k \in DOMAIN account : Seen(k) /\ HeldAt(account[k], minute)}

\* Rejecting or flipping opposite signals leaves no minute with both sides in
\* the market: not by an order of the old side that fills after the flip, nor
\* by one of several older signals (CollisionPolicy.decide).
NeverBothWays ==
    config.opposite \in {"reject_opposite", "close_then_flip"} =>
        \A minute \in 0 .. Horizon : \A j, k \in HeldBy(minute) : account[j].side = account[k].side

\* Once the results of a source day's signals have lost the limit of the
\* equity the day began with, nothing more is booked on that day, the day being
\* the one the report groups by (DeploymentGate.register, _signal_day).
Breached(day) ==
    \E n \in OnDay(day) :
        /\ rows[n].status # "OPEN"
        /\ Made(rows, day)[n] * config.dailyLoss <= -rows[Min(OnDay(day))].before
BreakerHolds ==
    [][config.dailyLoss > 0 /\ Len(rows') > Len(rows) => ~Breached(DayOf(last'))]_vars

=============================================================================
