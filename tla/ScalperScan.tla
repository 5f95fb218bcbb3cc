---------------------------- MODULE ScalperScan ----------------------------
(* generate_signals of the EMA-pullback generator: one pass over the rows   *)
(* of a chart, with the session, spread, volatility, cooldown and daily     *)
(* gates, the setup and its filters, and the progress-stall cap as the last *)
(* gate.  The columns of a row are the environment's, except those of the   *)
(* stall cap (regime, leg, epoch, bars since progress), which evolve row by *)
(* row as the code derives them.                                            *)
EXTENDS ScalperFilters, Sequences, SequencesExt

CONSTANTS
    Rows,          \* columns a row may have
    ArgSets,       \* command lines
    MaxRows,       \* bound on the rows scanned
    RowsInDay,     \* rows of one calendar day
    StartHour      \* hour of the first row; a row is an hour here

\* _ProgressStall takes no value below these, whatever the command line says.
ArgsAssumption ==
    \A a \in ArgSets :
        /\ a.progress_stall_n \in Nat \ {0}
        /\ a.progress_min_no_progress_bars \in Nat
        /\ a.progress_probe_interval_bars \in Nat \ {0}
ASSUME ArgsAssumption

VARIABLES
    args,          \* the command line
    read,          \* rows seen so far
    progress,      \* regime, leg, epoch and last progress as of the last row
    capped         \* the scan: its signals, its gates and what the cap vetoed

scanVars == <<args, read, progress, capped>>

NoTime == -1
-----------------------------------------------------------------------------
(* The stall cap's columns. *)

Regime(row, a) == IF row.prog_diff = NA THEN "nan"
                  ELSE IF row.prog_diff > a.progress_min_diff THEN "bull"
                  ELSE IF row.prog_diff < -a.progress_min_diff THEN "bear" ELSE "flat"

NoProgress == [regime |-> "none", leg |-> 0, epoch |-> 0, at |-> 0]

\* A leg is a run of rows of one regime; the epoch counts its progress rows,
\* and the position of the last one (of the leg's start before any) dates it.
WithRow(p, row, a, pos) ==
    LET regime == Regime(row, a)
        moved  == regime # p.regime
        valid  == \/ regime = "bull" /\ row.brokeHigh
                  \/ regime = "bear" /\ row.brokeLow
    IN  [regime |-> regime,
         leg    |-> IF moved THEN p.leg + 1 ELSE p.leg,
         epoch  |-> (IF moved THEN 0 ELSE p.epoch) + (IF valid THEN 1 ELSE 0),
         at     |-> IF moved \/ valid THEN pos ELSE p.at,
         valid  |-> valid]
-----------------------------------------------------------------------------
(* The stall cap: one record per leg and side that has signalled. *)

FreshStall(p) == [count |-> 0, blocked |-> FALSE, probe |-> NoTime, epoch |-> p.epoch]
StallOf(s, p, side) ==
    IF <<p.leg, side>> \in DOMAIN s.stall THEN s.stall[<<p.leg, side>>] ELSE FreshStall(p)

InScope(p, side) == p.regime = Mine(side, "bull", "bear")
Rearmed(st, p)   == p.valid \/ p.epoch # st.epoch

FaultyDecide(st, p, pos, a) ==                    \* a probe unblocks
    LET n == [st EXCEPT !.count = @ + 1]
    IN  IF Rearmed(st, p) THEN [ok |-> TRUE, st |-> FreshStall(p)]
        ELSE IF st.blocked /\ pos - st.probe >= a.progress_probe_interval_bars
        THEN [ok |-> TRUE, st |-> FreshStall(p)]
        ELSE IF st.blocked THEN [ok |-> FALSE, st |-> st]
        ELSE IF n.count >= a.progress_stall_n
        THEN [ok |-> FALSE, st |-> [n EXCEPT !.blocked = TRUE, !.probe = pos]]
        ELSE [ok |-> TRUE, st |-> n]
FaultyDecideSliding(st, p, pos, a) ==             \* every veto delays the probe
    LET n == [st EXCEPT !.count = @ + 1]
    IN  IF Rearmed(st, p) THEN [ok |-> TRUE, st |-> FreshStall(p)]
        ELSE IF st.blocked /\ pos - st.probe >= a.progress_probe_interval_bars
        THEN [ok |-> TRUE, st |-> [st EXCEPT !.probe = pos]]
        ELSE IF st.blocked \/ n.count >= a.progress_stall_n
        THEN [ok |-> FALSE, st |-> [n EXCEPT !.blocked = TRUE, !.probe = pos]]
        ELSE [ok |-> TRUE, st |-> n]

\* What the cap answers for a would-be signal, and its state afterwards.
Decide(st, p, pos, a) ==
    LET n == [st EXCEPT !.count = @ + 1]
    IN  IF Rearmed(st, p) THEN [ok |-> TRUE, st |-> FreshStall(p)]
        ELSE IF st.blocked
        THEN IF pos - st.probe >= a.progress_probe_interval_bars
             THEN [ok |-> TRUE, st |-> [st EXCEPT !.probe = pos]]
             ELSE [ok |-> FALSE, st |-> st]
        ELSE IF n.count >= a.progress_stall_n
                /\ pos - p.at >= a.progress_min_no_progress_bars
        THEN [ok |-> FALSE, st |-> [n EXCEPT !.blocked = TRUE, !.probe = pos]]
        ELSE [ok |-> TRUE, st |-> n]
-----------------------------------------------------------------------------
(* The scan. *)

NewScan == [last |-> NoTime, day |-> 0, count |-> 0, stall |-> << >>,
            out |-> << >>, vetoed |-> {}]

HourOf(pos) == (StartHour + pos) % 24
DayAt(pos)  == pos \div RowsInDay
InSession(h, a) ==
    IF a.session_start = a.session_end THEN TRUE
    ELSE IF a.session_start < a.session_end
    THEN a.session_start <= h /\ h < a.session_end
    ELSE h >= a.session_start \/ h < a.session_end

Today(s, pos) == IF s.day = DayAt(pos) THEN s.count ELSE 0
Computable(row) ==
    \A x \in {row.atr, row.ema_fast, row.ema_mid, row.ema_slow,
              row.swing_low, row.swing_high} : Known(x)

RowOk(s, row, pos, a) ==
    /\ InSession(HourOf(pos), a)
    /\ row.spread <= a.max_spread_points
    /\ Computable(row)
    /\ Within(a.min_atr, row.atr, a.max_atr)
    /\ s.last # NoTime => pos - s.last >= a.cooldown
    /\ a.max_signals_per_day > 0 => Today(s, pos) < a.max_signals_per_day
    /\ Larger(row.close - row.open, row.open - row.close) >= row.atr * a.min_body_atr

\* The setups exclude each other; the filters and the geometry decide the rest.
WouldTake(row, a) ==
    UNION {Built(row, side, a) :
               side \in {d \in {"BUY", "SELL"} : Setup(row, d, a) /\ EntryFiltersOk(row, d, a)}}

Emitted(s, sig, p, pos) ==
    [s EXCEPT !.last = pos, !.day = DayAt(pos), !.count = Today(s, pos) + 1,
              !.out = Append(@, [at |-> pos, leg |-> p.leg, epoch |-> p.epoch,
                                 since |-> pos - p.at, inScope |-> InScope(p, sig.side),
                                 sig |-> sig])]

\* One row of the scan.
ScanCapped(s, row, p, pos, a) ==
    IF ~RowOk(s, row, pos, a) \/ WouldTake(row, a) = {} THEN s
    ELSE LET sig == CHOOSE x \in WouldTake(row, a) : TRUE
             d   == Decide(StallOf(s, p, sig.side), p, pos, a)
             key == <<p.leg, sig.side>>
             kept == [s EXCEPT !.stall = [k \in DOMAIN @ \cup {key} |->
                                            IF k = key THEN d.st ELSE @[k]]]
         IN  IF ~InScope(p, sig.side) THEN Emitted(s, sig, p, pos)
             ELSE IF d.ok THEN Emitted(kept, sig, p, pos)
             ELSE [kept EXCEPT !.vetoed = @ \cup {[at |-> pos, leg |-> p.leg,
                                                   epoch |-> p.epoch, side |-> sig.side]}]

ScanInit ==
    /\ args \in ArgSets
    /\ read = 0
    /\ progress = NoProgress
    /\ capped = NewScan

NextRow(row) ==
    LET p == WithRow(progress, row, args, read + 1)
    IN  /\ read < MaxRows
        /\ read' = read + 1
        /\ progress' = [regime |-> p.regime, leg |-> p.leg, epoch |-> p.epoch, at |-> p.at]
        /\ capped' = ScanCapped(capped, row, p, read + 1, args)
        /\ UNCHANGED args

ScanNext == \E row \in Rows : NextRow(row)
ScanSpec == ScanInit /\ [][ScanNext]_scanVars
-----------------------------------------------------------------------------
\* The signals the cap let through before the i-th in its leg, on its side, with
\* no progress between them.
Stalled(i) ==
    {k \in 1..(i - 1) : LET e == capped.out[k]
                            f == capped.out[i]
                        IN  /\ e.leg = f.leg /\ e.epoch = f.epoch
                            /\ e.sig.side = f.sig.side /\ e.inScope}

\* Once a cluster has its allowance of signals without progress, the cap lets
\* only probes through: what it takes from then on, once the trend has been
\* stalled for the configured time, is at least the probe interval after all
\* it took before (_ProgressStall.decide).
ProbesAreSpaced ==
    \A i \in DOMAIN capped.out :
        LET e == capped.out[i]
        IN  (e.inScope /\ e.since >= args.progress_min_no_progress_bars
               /\ Cardinality(Stalled(i)) >= args.progress_stall_n)
            => \A k \in Stalled(i) :
                  e.at - capped.out[k].at >= args.progress_probe_interval_bars

\* The cap never goes dark: between two vetoes a probe interval or more apart
\* on one side of one leg, a signal was let through (_ProgressStall.decide).
NeverGoesDark ==
    \A v, w \in capped.vetoed :
        (v.leg = w.leg /\ v.side = w.side
           /\ w.at - v.at >= args.progress_probe_interval_bars)
        => \E e \in ToSet(capped.out) :
              e.leg = v.leg /\ e.sig.side = v.side /\ v.at < e.at /\ e.at < w.at

=============================================================================
