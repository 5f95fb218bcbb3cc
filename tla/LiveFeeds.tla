------------------------------- MODULE LiveFeeds -------------------------------
(***************************************************************************)
(* The two live programs that keep a generated feed current.               *)
(*                                                                         *)
(*   - tools/live_feed_loop.py polls the terminal; when a bar has closed   *)
(*     it refreshes the month's CSV (archive_m1_by_month) and runs the     *)
(*     generator over the CSV files, then logs the lines it had not seen;  *)
(*   - tools/auto_self.py generates from the terminal's closed bars, cuts  *)
(*     the feed down to what the guards and the cap allow, appends every   *)
(*     signal to an archive and hands the feed to the auto pass.           *)
(*                                                                         *)
(* The market moves between any two steps of a program, a program can be   *)
(* killed between any two of its steps, and passes fail.                   *)
(***************************************************************************)
EXTENDS GeneratedFeeds

VARIABLES csv,       \* month -> the bars of its file
          loop,      \* live_feed_loop: where its pass is, and its memory
          log,       \* the lines live_feed_loop has announced
          runner,    \* auto_self: where its pass is, what it read
          guard,     \* the day-guard file
          served,    \* the lines of the feed auto_self serves
          archive,   \* its backtest archive
          registry,  \* positions.json: the keys of the signals it tracks
          open,      \* the keys the broker holds orders or positions of
          traded,    \* the keys ever placed, and whether their day had been halted
          lost,      \* history: the keys placed by a pass killed before it registered them
          halts,     \* history: the days on which the guard halted
          faults     \* kills and failed passes left

ASSUME LivePlansAssumption ==
    \A p \in Plans :
        /\ p.cap \in Nat
        /\ p.program = "self" =>
               /\ p.warm \in 0..Len(p.path) /\ Len(p.path) \in Nat
               /\ \A j, k \in 1..Len(p.path) :
                      p.minutes[k] \in Nat /\ (j <= k => p.minutes[j] <= p.minutes[k])

loopVars == <<csv, loop, log>>
bookVars == <<registry, open, traded, lost>>
selfVars == <<runner, guard, served, archive, bookVars, halts>>
live == <<plan, chart, signals, feed, csv, loop, log, runner, guard, served, archive, registry,
          open, traded, lost, halts, faults>>

-----------------------------------------------------------------------------
(* The terminal                                                            *)

\* A live chart follows the plan's path, over the breaks in its minutes; its newest bar is
\* still forming while the market is open, and is the last closed one when it is not.
MarketOpen == Len(chart) < Len(plan.path)
PriceAfter ==
    LET f[k \in 0..Len(plan.path)] == IF k = 0 THEN plan.price ELSE f[k - 1] + plan.path[k].close
    IN  f
Bar(k, shape) ==
    LET p == PriceAfter[k - 1]
    IN  [time |-> plan.minutes[k], spread |-> 0, open |-> p, high |-> p + shape.high,
         low |-> p + shape.low, close |-> p + shape.close]
NextBar(shape) == Append(chart, Bar(Len(chart) + 1, shape))
Flat       == [high |-> 0, low |-> 0, close |-> 0]
Terminal   == IF MarketOpen THEN NextBar(Flat) ELSE chart

Newest(s, n)         == SubSeq(s, Max({1, Len(s) - n + 1}), Len(s))
RecentClosedBars(n) == IF Len(Terminal) <= 1 THEN <<>> ELSE Front(Newest(Terminal, n + 1))
LastTime            == Last(Terminal).time

BarForms ==
    /\ MarketOpen
    /\ chart' = NextBar(plan.path[Len(chart) + 1])
    /\ UNCHANGED <<plan, signals, feed, loopVars, selfVars, faults>>

-----------------------------------------------------------------------------
(* live_feed_loop                                                          *)

MonthOf(t)  == t \div plan.monthLen
Months      == 0..MonthOf(Max({0} \cup Range(plan.minutes)))
FreshLoop   == [pc |-> "idle", polled |-> Never, lastSeen |-> Never, primed |-> FALSE, seen |-> {}]
ClosedTime  == LET closed == RecentClosedBars(1) IN IF closed = <<>> THEN Never ELSE Last(closed).time

FaultyShouldRegenerate == ClosedTime # Never /\ ClosedTime # loop.polled
ShouldRegenerate == ClosedTime # Never /\ ClosedTime # loop.lastSeen

Poll ==
    /\ loop.pc = "idle" /\ ShouldRegenerate
    /\ loop' = [loop EXCEPT !.pc = "fetch", !.polled = ClosedTime]
    /\ UNCHANGED <<plan, chart, signals, feed, csv, log, selfVars, faults>>

\* The bars of the last months are merged into their files, new over old.
BarsOfMonth(m) == SelectSeq(Terminal, LAMBDA b : MonthOf(b.time) = m)
ArchiveM1ByMonth(back) ==
    [m \in Months |->
        IF m \in (MonthOf(LastTime) - back + 1)..MonthOf(LastTime)
        THEN Working(BarsOfMonth(m), csv[m])
        ELSE csv[m]]
Fetch ==
    /\ loop.pc = "fetch"
    /\ csv' = ArchiveM1ByMonth(plan.fetchMonths)
    /\ loop' = [loop EXCEPT !.pc = "generate"]
    /\ UNCHANGED <<plan, chart, signals, feed, log, selfVars, faults>>

\* The argument list of a pass: a rolling start and the newest files only, if asked for.
EffectiveArgs ==
    IF plan.startDays = Never THEN plan
    ELSE [plan EXCEPT !.start = (DayOf(LastTime) - plan.startDays) * DayLen]
ChartFiles ==
    [k \in 1..Cardinality(Months) |->
        IF plan.recentMonths = 0 \/ k - 1 > MonthOf(LastTime) - plan.recentMonths
        THEN csv[k - 1] ELSE <<>>]

FaultyGenerate ==
    /\ loop.pc = "generate"
    /\ \E out \in {Generated(EffectiveArgs, Loaded(ChartFiles))} :
           signals' = out[1] /\ feed' = out[2]
    /\ loop' = [loop EXCEPT !.pc = "log", !.lastSeen = ClosedTime]
    /\ UNCHANGED <<plan, chart, csv, log, selfVars, faults>>
Generate ==
    /\ loop.pc = "generate"
    /\ \E out \in {Generated(EffectiveArgs, Loaded(ChartFiles))} :
           signals' = out[1] /\ feed' = out[2]
    /\ loop' = [loop EXCEPT !.pc = "log", !.lastSeen = loop.polled]
    /\ UNCHANGED <<plan, chart, csv, log, selfVars, faults>>

\* The first pass only learns what is there.
AnnounceNew ==
    /\ loop.pc = "log"
    /\ log' = IF loop.primed THEN log \o SelectSeq(feed, LAMBDA l : l \notin loop.seen) ELSE log
    /\ loop' = [loop EXCEPT !.pc = "idle", !.primed = TRUE, !.seen = @ \cup Range(feed)]
    /\ UNCHANGED <<plan, chart, signals, feed, csv, selfVars, faults>>

\* An exception or a generator's error: nothing is remembered of the pass.
PassFails ==
    /\ faults > 0 /\ loop.pc \in {"fetch", "generate"}
    /\ loop' = [loop EXCEPT !.pc = "idle"] /\ faults' = faults - 1
    /\ UNCHANGED <<plan, chart, signals, feed, csv, log, selfVars>>
LoopKilled ==
    /\ faults > 0 /\ loop # FreshLoop
    /\ loop' = FreshLoop /\ faults' = faults - 1
    /\ UNCHANGED <<plan, chart, signals, feed, csv, log, selfVars>>

LoopStep == Poll \/ Fetch \/ Generate \/ AnnounceNew

-----------------------------------------------------------------------------
(* auto_self                                                               *)

NoGuard     == [date |-> Never, start |-> 0, halted |-> FALSE]
NoKey       == <<Never, 0>>
FreshRunner == [pc |-> "idle", now |-> 0, block |-> FALSE, keyed |-> <<>>, key |-> NoKey]

\* The day's guard: restarted on a new day, halted for good when equity has fallen.
GuardFor(today, equity) ==
    IF guard.date = today THEN guard ELSE [date |-> today, start |-> equity, halted |-> FALSE]
FaultyEvaluateGuards(equity) ==
    LET g == GuardFor(DayOf(LastTime), equity)
    IN  [g EXCEPT !.halted = equity <= g.start - plan.maxLoss]
EvaluateGuards(equity) ==
    LET g == GuardFor(DayOf(LastTime), equity)
    IN  [g EXCEPT !.halted = @ \/ equity <= g.start - plan.maxLoss]
Guards ==
    /\ runner.pc = "idle" /\ Terminal # <<>>
    /\ \E equity \in plan.equities, wide \in plan.spreads :
           /\ guard' = EvaluateGuards(equity)
           /\ halts' = halts \cup (IF guard'.halted THEN {DayOf(LastTime)} ELSE {})
           /\ runner' = [FreshRunner EXCEPT !.pc = "generate", !.now = LastTime,
                                            !.block = guard'.halted \/ wide]
    /\ UNCHANGED <<plan, chart, signals, feed, loopVars, served, archive, bookVars, faults>>
\* Killed while the guard file is being rewritten: the next start reads nothing from it.
TornGuard ==
    /\ faults > 0 /\ plan.torn /\ runner.pc = "idle" /\ Terminal # <<>>
    /\ guard' = NoGuard /\ faults' = faults - 1
    /\ UNCHANGED <<plan, chart, signals, feed, loopVars, runner, served, archive, bookVars, halts>>

\* Signals with their keys: the day and the rank within it, by time and side.
Keyed(s) ==
    LET o == SortSeq(s, ByTimeAndSide)
    IN  [k \in DOMAIN o |->
            [sig |-> o[k], key |-> <<DayOf(o[k].time),
                 Cardinality({j \in 1..k : DayOf(o[j].time) = DayOf(o[k].time)})>>]]
FeedWindowDays == 2
FaultyInWindow(s, now) == SelectSeq(s, LAMBDA x : x.time >= now - (FeedWindowDays - 1) * DayLen)
InWindow(s, now) ==
    SelectSeq(s, LAMBDA x : DayOf(x.time) >= DayOf(now) - (FeedWindowDays - 1))

\* What was placed stays in the feed; the newest fresh signals fill the cap.
Fresh(keyed, now) ==
    {k \in DOMAIN keyed : keyed[k].key \notin registry /\ keyed[k].sig.time > now - plan.expiry}
NewestFirst(keyed, now) ==
    SetToSortSeq(Fresh(keyed, now), LAMBDA j, k : \/ keyed[j].sig.time > keyed[k].sig.time
                                                  \/ keyed[j].sig.time = keyed[k].sig.time /\ j < k)
Selected(keyed, now, block, remaining) ==
    LET newest == NewestFirst(keyed, now) IN
    {keyed[k].key : k \in {j \in DOMAIN keyed : keyed[j].key \in registry}}
        \cup {keyed[newest[n]].key : n \in {n \in 1..remaining : ~block /\ n \in DOMAIN newest}}
FaultySelect(keyed, now, block)      == Selected(keyed, now, block, plan.cap)
SelectAllowedKeys(keyed, now, block) ==
    Selected(keyed, now, block, plan.cap - Cardinality(registry))

SelfLine(x) == Line(x.key[1], x.key[2], x.sig.time % DayLen, x.sig)
ServedFeed(keyed, keys) ==
    {SelfLine(x) : x \in {y \in Range(keyed) : y.key \in keys}}
KeyOf(l) == <<l.day, l.n>>
AppendToArchive(keyed) ==
    LET unseen == SelectSeq(keyed, LAMBDA x : \A l \in Range(archive) : KeyOf(l) # x.key)
    IN  archive \o [k \in DOMAIN unseen |-> SelfLine(unseen[k])]

Window == RecentClosedBars(plan.window)
Regenerate ==
    /\ runner.pc = "generate"
    /\ \E keyed \in {Keyed(InWindow(SelfFromM1(Window, plan), runner.now))} :
           /\ served' = ServedFeed(keyed, SelectAllowedKeys(keyed, runner.now, runner.block))
           /\ runner' = [runner EXCEPT !.pc = "archive", !.keyed = keyed]
    /\ UNCHANGED <<plan, chart, signals, feed, loopVars, guard, archive, bookVars, halts, faults>>
ArchiveSignals ==
    /\ runner.pc = "archive"
    /\ archive' = AppendToArchive(runner.keyed)
    /\ runner' = [runner EXCEPT !.pc = "auto", !.keyed = <<>>]
    /\ UNCHANGED <<plan, chart, signals, feed, loopVars, guard, served, bookVars, halts, faults>>

\* The auto pass places signals of the feed that were never traded, each at the broker and
\* then in the registry; which, the market and the broker decide.
Place ==
    /\ runner.pc = "auto"
    /\ \E k \in {KeyOf(l) : l \in served} \ {x.key : x \in traded} :
           /\ open' = open \cup {k}
           /\ traded' = traded \cup {[key |-> k, late |-> DayOf(runner.now) \in halts]}
           /\ runner' = [runner EXCEPT !.pc = "register", !.key = k]
    /\ UNCHANGED <<plan, chart, signals, feed, loopVars, guard, served, archive, registry, lost,
                   halts, faults>>
Register ==
    /\ runner.pc = "register"
    /\ registry' = registry \cup {runner.key}
    /\ runner' = [runner EXCEPT !.pc = "auto", !.key = NoKey]
    /\ UNCHANGED <<plan, chart, signals, feed, loopVars, guard, served, archive, open, traded, lost,
                   halts, faults>>
\* Its end drops from the registry what the broker no longer holds.
Prune ==
    /\ runner.pc = "auto"
    /\ registry' = registry \cap open
    /\ runner' = FreshRunner
    /\ UNCHANGED <<plan, chart, signals, feed, loopVars, guard, served, archive, open, traded, lost,
                   halts, faults>>
SignalEnds ==
    /\ \E k \in open : open' = open \ {k}
    /\ UNCHANGED <<plan, chart, signals, feed, loopVars, runner, guard, served, archive, registry,
                   traded, lost, halts, faults>>
RunnerKilled ==
    /\ faults > 0 /\ runner.pc # "idle"
    /\ runner' = FreshRunner /\ faults' = faults - 1
    /\ lost' = lost \cup (IF runner.pc = "register" THEN {runner.key} ELSE {})
    /\ UNCHANGED <<plan, chart, signals, feed, loopVars, guard, served, archive, registry, open,
                   traded, halts>>

SelfStep == Guards \/ Regenerate \/ ArchiveSignals \/ Place \/ Register \/ Prune

-----------------------------------------------------------------------------
\* The files are those of a fetch just before the start.
LiveInit ==
    /\ plan \in Plans /\ signals = <<>> /\ feed = <<>>
    /\ chart = [k \in 1..plan.warm |-> Bar(k, plan.path[k])]
    /\ csv = [m \in Months |-> BarsOfMonth(m)] /\ loop = FreshLoop /\ log = <<>>
    /\ runner = FreshRunner /\ guard = NoGuard /\ served = {} /\ archive = <<>>
    /\ registry = {} /\ open = {} /\ traded = {} /\ lost = {} /\ halts = {}
    /\ faults = plan.faults
LiveNext ==
    \/ plan.program = "replay" /\ Next /\ UNCHANGED <<loopVars, selfVars, faults>>
    \/ plan.program # "replay" /\ BarForms
    \/ plan.program = "loop" /\ (LoopStep \/ PassFails \/ LoopKilled)
    \/ plan.program = "self" /\ (SelfStep \/ SignalEnds \/ TornGuard \/ RunnerKilled)
\* A program that runs keeps going; the market may stop at any bar, and faults end.  This
\* is weak fairness of the loop's steps, with their ENABLED spelled out.
LoopReady == plan.program = "loop" /\ (loop.pc # "idle" \/ ShouldRegenerate)
LiveFairness == []<>~LoopReady \/ []<><<plan.program = "loop" /\ LoopStep>>_live
LiveSpec == LiveInit /\ [][LiveNext]_live /\ LiveFairness

-----------------------------------------------------------------------------
(* Properties                                                              *)

\* For a chart replayed bar by bar, the past of every generator's feed is final.
ReplayIsFinal == [][plan.program = "replay" => PastStep]_vars

\* live_feed_loop: "Parity is the contract", and prior months are "immutable once rolled
\* over".  Unless the generator is told to see less of the chart, what the loop has generated
\* up to the last bar it saw closed is what the whole final chart gives: neither a month's end,
\* a failed pass or a kill, nor the bar that was still forming in the file changes it.
SeesWholeChart == plan.startDays = Never /\ plan.recentMonths = 0
ParityIsKept ==
    (plan.program = "loop" /\ SeesWholeChart /\ loop.lastSeen # Never) =>
        LET t == loop.lastSeen + plan.step
        IN  UpTo(signals, t) = UpTo(Generated(plan, chart)[1], t)

\* It takes a fetch of two months: of one, the default, the bar that was forming when its
\* month was last fetched stays in the file as it was, and parity ends with the month.
FirstMonth    == \A m \in Months : csv[m] # <<>> => m <= MonthOf(chart[1].time)
SettledIsTrue == (plan.fetchMonths > 1 \/ FirstMonth) => ParityIsKept

\* What the loop has announced stays in the feed: only closed bars make signals.
AnnouncedStays == loop.pc = "idle" => Range(log) \subseteq Range(feed)

\* After the market has closed and faults are over, the loop ends with the feed of the
\* last bar that had closed before, and rests.
CatchesUp == <>[](plan.program = "loop" => loop.pc = "idle" /\ loop.lastSeen = ClosedTime)

\* auto_self never has more signals at the broker than the cap allows, whatever ends, fails
\* or is killed between reading the registry, writing the feed and placing -- but for a signal
\* whose pass was killed after placing it and before registering it.
CapIsKept == Cardinality(open \ lost) <= plan.cap

\* A halt is for the day: once equity has fallen to the limit no signal is placed that
\* day, over recoveries, failed passes and kills.
HaltAlwaysKept == \A x \in traded : ~x.late
\* A guard file torn by a kill is the exception: it reads as a new day.
HaltIsKept == ~plan.torn => HaltAlwaysKept

\* A key means one signal: every line of the served feed and of the archive is the one the
\* whole chart has under its key, and no key is archived twice.  Numbers count from a day's
\* first signal, so the window of days that is served must not begin inside a day.
ArchiveAlwaysTrue ==
    plan.program = "self" =>
        LET truth == {SelfLine(x) : x \in Range(Keyed(SelfFromM1(chart, plan)))} IN
        /\ served \cup Range(archive) \subseteq truth
        /\ \A j, k \in DOMAIN archive : KeyOf(archive[j]) = KeyOf(archive[k]) => j = k
\* Nor may the bars it is generated from: a window that cuts them renumbers the day it begins in.
ArchiveIsTrue == plan.window >= Len(plan.path) => ArchiveAlwaysTrue
=============================================================================
