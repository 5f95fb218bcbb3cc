------------------------------ MODULE TickArchive ------------------------------
(***************************************************************************)
(* The tick archive a tick-level backtest reads: one month of it.          *)
(*                                                                         *)
(* tools/export_ticks.py pulls ticks from the terminal, which forgets old  *)
(* ones, into one file for the month; split_ticks_by_size.py and           *)
(* split_ticks_by_days.py cut that file into parts and join parts again,   *)
(* split_ticks.py keeps two half-month files, and                          *)
(* export_ticks_dukascopy.py fills a file of its own from a public feed.   *)
(* The archive only ever holds what these programs leave on the disk, and  *)
(* a tick the terminal has forgotten is nowhere else.                      *)
(*                                                                         *)
(* A program is modelled by its trace: the disks it goes through, one for  *)
(* every file it creates, rewrites or deletes.  A run that is killed, or   *)
(* that gives up on a file another program holds open, stops at any of     *)
(* them; a run the terminal refuses ticks stops between two chunks.        *)
(***************************************************************************)
EXTENDS Naturals, FiniteSets, SequencesExt

CONSTANTS MaxTick,     \* ticks of the month, 1..MaxTick in the order they come
          Instants,    \* the millisecond of each: two ticks may share one
          TickDays,    \* the day of the month of each
          WindowDays,  \* --split-days
          HalfDay,     \* the last day of the first half
          Cap,         \* lines that fit a part, its header among them
          Archives     \* kinds of archive: "parts", "halves", "dukascopy"

ASSUME ArchiveAssumption ==
    /\ MaxTick \in Nat \ {0} /\ WindowDays \in Nat \ {0} /\ Cap \in Nat \ {0, 1}
    /\ Instants \in [1..MaxTick -> Nat \ {0}] /\ TickDays \in [1..MaxTick -> Nat \ {0}]
    /\ \A s, t \in 1..MaxTick : s < t => Instants[s] <= Instants[t] /\ TickDays[s] <= TickDays[t]

VARIABLES disk,     \* file -> its lines, for the files that exist
          broker,   \* the oldest and the newest tick the source can give
          kind,     \* which archive this is
          trust,    \* "sound", "interrupted" by a kill, or "rerun" after one
          owed      \* instants that were on the disk, or offered to a run that ended

ticksVars == <<disk, broker, kind, trust, owed>>

-----------------------------------------------------------------------------
(* Files: a name is a path of labels, and a line is a tick or the header.  *)

Header   == 0
Full     == <<"month">>
PartPath(base, n) == base \o <<"p", n>>
WindowBase(s)     == Full \o <<"D", s>>
HalfPath(h)       == Full \o <<"H", h>>
NumberOf(part)    == Last(part)

WindowStartDay(day) == ((day - 1) \div WindowDays) * WindowDays + 1
LastDay == TickDays[MaxTick]

Put(d, f, lines) == [g \in DOMAIN d \cup {f} |-> IF g = f THEN lines ELSE d[g]]
Deleted(d, f)    == [g \in DOMAIN d \ {f} |-> d[g]]
Stored(d, f)     == f \in DOMAIN d /\ d[f] # <<>>
HeaderOnly(d, f) == f \in DOMAIN d /\ d[f] = <<Header>>
TicksIn(lines)   == SelectSeq(lines, LAMBDA l : l # Header)
LastTick(d, f)   ==
    IF f \notin DOMAIN d \/ TicksIn(d[f]) = <<>> THEN 0 ELSE Instants[Last(TicksIn(d[f]))]

\* The parts of a file in the order of their numbers, and the parts of all its windows.
PartsFor(d, base) ==
    SelectSeq([n \in 1..MaxTick |-> PartPath(base, n)], LAMBDA f : f \in DOMAIN d)
DayPartsFor(d) == FlattenSeq([s \in 1..LastDay |-> PartsFor(d, WindowBase(s))])

-----------------------------------------------------------------------------
(* Steps of a program: each adds a disk to the trace.                      *)

Now(trace)             == Last(trace)
Write(trace, f, lines) == Append(trace, Put(Now(trace), f, lines))
RobustRemove(trace, f) == IF f \in DOMAIN Now(trace) THEN Append(trace, Deleted(Now(trace), f)) ELSE trace
AddLines(trace, f, lines) == Write(trace, f, Now(trace)[f] \o lines)

RemoveAll(trace, files) == FoldLeft(RobustRemove, trace, files)

\* The first part with its header, the others without: dest grows part by part.
JoinParts(trace, parts, dest, removeParts) ==
    LET copy(t, f) == AddLines(t, dest, IF Now(t)[dest] = <<>> THEN Now(t)[f] ELSE Tail(Now(t)[f]))
        joined     == FoldLeft(copy, Write(trace, dest, <<>>), parts)
    IN  IF removeParts THEN RemoveAll(joined, parts) ELSE joined

\* A line that would not fit opens the next part; a file that fits as it is stays, unless forced.
SplitFile(trace, src, startPart, force) ==
    LET lines == Now(trace)[src]
        rows  == Tail(lines)
        room  == Cap - 1
        count == Max({1, (Len(rows) + room - 1) \div room})
        cut(t, k) == Write(t, PartPath(src, startPart + k - 1),
                        <<Header>> \o SubSeq(rows, (k - 1) * room + 1, Min({k * room, Len(rows)})))
    IN  IF lines = <<>> \/ (~force /\ Len(lines) <= Cap) THEN trace
        ELSE RobustRemove(FoldLeft(cut, trace, [k \in 1..count |-> k]), src)

Windows(rows) == {WindowStartDay(TickDays[t]) : t \in Range(rows)}
InWindow(rows, s) == SelectSeq(rows, LAMBDA t : WindowStartDay(TickDays[t]) = s)
EachWindow(rows)  == SelectSeq([s \in 1..LastDay |-> s], LAMBDA s : s \in Windows(rows))

\* The parts there were go first, while the full file still holds everything.
SplitFileByDays(trace) ==
    LET rows    == TicksIn(Now(trace)[Full])
        cleared == RemoveAll(trace, DayPartsFor(Now(trace)) \o PartsFor(Now(trace), Full))
        route(t, s) == Write(t, WindowBase(s), <<Header>> \o InWindow(rows, s))
        pack(t, s)  == SplitFile(t, WindowBase(s), 1, TRUE)
    IN  IF Now(trace)[Full] = <<>> THEN cleared
        ELSE RobustRemove(FoldLeft(pack, FoldLeft(route, cleared, EachWindow(rows)), EachWindow(rows)), Full)

-----------------------------------------------------------------------------
(* export_ticks                                                            *)

Offered     == [k \in 1..(broker.hi - broker.lo + 1) |-> broker.lo + k - 1]
FaultyNewer(than) == SelectSeq(Offered, LAMBDA t : Instants[t] >= than)
Newer(than) == SelectSeq(Offered, LAMBDA t : Instants[t] > than)
Chunks      == [day \in 1..LastDay |-> day]     \* the month in chunks of a day

\* _export_month up to its first fetch: parts are joined again and a file of no ticks goes.
Prepare(trace) ==
    LET d     == Now(trace)
        parts == IF DayPartsFor(d) # <<>> THEN DayPartsFor(d) ELSE PartsFor(d, Full)
        whole == IF ~Stored(d, Full) /\ parts # <<>> THEN JoinParts(trace, parts, Full, TRUE) ELSE trace
    IN  IF HeaderOnly(Now(whole), Full) THEN RobustRemove(whole, Full) ELSE whole

\* The chunks after the last tick stored, each written as it comes; a file that is to be
\* extended is opened for appending, any other one is written anew.
Pull(trace) ==
    LET resume == LastTick(Now(trace), Full)
        pull(t, day) ==
            LET rows == SelectSeq(Newer(resume), LAMBDA x : TickDays[x] = day) IN
            IF rows = <<>> THEN t
            ELSE IF LastTick(Now(t), Full) # 0 THEN AddLines(t, Full, rows)
            ELSE Write(t, Full, <<Header>> \o rows)
        pulled == FoldLeft(pull, trace, Chunks)
    IN  IF LastTick(Now(pulled), Full) = 0 THEN RobustRemove(pulled, Full) ELSE pulled
ExportMonth(trace) == Pull(Prepare(trace))

\* The incremental paths: only what the new ticks touch is joined and cut again.
SizeArchive(d) ==
    ~Stored(d, Full) /\ PartsFor(d, Full) # <<>> /\ LastTick(d, Last(PartsFor(d, Full))) # 0
FaultyMergeAppendSplitMonth(trace) ==
    LET tail == Last(PartsFor(Now(trace), Full))
        rows == Newer(LastTick(Now(trace), tail))
        copied == AddLines(Write(trace, Full, Now(trace)[tail]), Full, rows)
    IN  IF rows = <<>> THEN trace
        ELSE SplitFile(RobustRemove(copied, tail), Full, 1, TRUE)
MergeAppendSplitMonth(trace) ==
    LET tail == Last(PartsFor(Now(trace), Full))
        rows == Newer(LastTick(Now(trace), tail))
        copied == AddLines(Write(trace, Full, Now(trace)[tail]), Full, rows)
    IN  IF rows = <<>> THEN trace
        ELSE SplitFile(RobustRemove(copied, tail), Full, NumberOf(tail), TRUE)

DayArchive(d) ==
    ~Stored(d, Full) /\ DayPartsFor(d) # <<>> /\ LastTick(d, Last(DayPartsFor(d))) # 0
MergeAppendSplitDays(trace) ==
    LET d    == Now(trace)
        rows == Newer(LastTick(d, Last(DayPartsFor(d))))
        grow(t, s) ==
            LET base == WindowBase(s)
                new  == InWindow(rows, s)
                old  == PartsFor(d, base)
                whole == IF old # <<>> THEN AddLines(JoinParts(t, old, base, TRUE), base, new)
                         ELSE Write(t, base, <<Header>> \o new)
            IN  SplitFile(whole, base, 1, TRUE)
    IN  FoldLeft(grow, trace, EachWindow(rows))

SplitExported(trace, split) ==
    IF Full \notin DOMAIN Now(trace) \/ split = "none" THEN trace
    ELSE IF split = "size" THEN SplitFile(trace, Full, 1, FALSE)
    ELSE SplitFileByDays(trace)

MergeMonth(trace, split) ==
    IF split = "size" /\ SizeArchive(Now(trace)) THEN MergeAppendSplitMonth(trace)
    ELSE IF split = "days" /\ DayArchive(Now(trace)) THEN MergeAppendSplitDays(trace)
    ELSE SplitExported(ExportMonth(trace), split)

-----------------------------------------------------------------------------
(* The packaging tools, by hand                                            *)

ResplitByDays(trace) ==
    LET d     == Now(trace)
        parts == IF DayPartsFor(d) # <<>> THEN DayPartsFor(d) ELSE PartsFor(d, Full)
        whole == IF ~Stored(d, Full) /\ parts # <<>> THEN JoinParts(trace, parts, Full, TRUE) ELSE trace
    IN  IF Stored(Now(whole), Full) THEN SplitFileByDays(whole) ELSE trace
JoinSizeParts(trace) ==
    IF PartsFor(Now(trace), Full) = <<>> THEN trace
    ELSE JoinParts(trace, PartsFor(Now(trace), Full), Full, TRUE)

\* split_ticks: the rows after the last tick of their half are added to it, then the full
\* file goes.
NeedsFetch(d) == ~Stored(d, Full) \/ HeaderOnly(d, Full)
SplitMonthFile(trace) ==
    LET d == Now(trace)
        half(t) == HalfPath(IF TickDays[t] <= HalfDay THEN 1 ELSE 2)
        add(t, x) ==
            IF Instants[x] <= LastTick(d, half(x)) THEN t
            ELSE IF Stored(Now(t), half(x)) THEN AddLines(t, half(x), <<x>>)
            ELSE Write(t, half(x), <<Header, x>>)
    IN  RobustRemove(FoldLeft(add, trace, TicksIn(d[Full])), Full)
SyncHalves(trace) ==
    LET fetched == IF NeedsFetch(Now(trace)) THEN ExportMonth(trace) ELSE trace
    IN  IF NeedsFetch(Now(fetched)) THEN fetched ELSE SplitMonthFile(fetched)

\* export_ticks_dukascopy: the same file by file, an hour that cannot be fetched left out.
PullHours(trace, failed) ==
    LET found == IF HeaderOnly(Now(trace), Full) THEN RobustRemove(trace, Full) ELSE trace
        resume == LastTick(Now(found), Full)
        pull(t, hour) ==
            LET rows == SelectSeq(Newer(resume), LAMBDA x : TickDays[x] = hour) IN
            IF rows = <<>> \/ hour \in failed THEN t
            ELSE IF LastTick(Now(t), Full) # 0 THEN AddLines(t, Full, rows)
            ELSE Write(t, Full, <<Header>> \o rows)
        pulled == FoldLeft(pull, found, Chunks)
    IN  IF LastTick(Now(pulled), Full) = 0 THEN RobustRemove(pulled, Full) ELSE pulled

-----------------------------------------------------------------------------
(* Behaviours                                                              *)

ArchiveInit ==
    /\ disk = <<>> /\ broker = [lo |-> 1, hi |-> 0] /\ kind \in Archives
    /\ trust = "sound" /\ owed = {}

TickComes ==
    /\ broker.hi < MaxTick
    /\ broker' = [broker EXCEPT !.hi = @ + 1]
    /\ UNCHANGED <<disk, kind, trust, owed>>
TickForgotten ==
    /\ kind # "dukascopy" /\ broker.lo <= broker.hi
    /\ broker' = [broker EXCEPT !.lo = @ + 1]
    /\ UNCHANGED <<disk, kind, trust, owed>>

InstantsOf(ticks) == {Instants[t] : t \in Range(ticks)}
HeldOn(d) == UNION {InstantsOf(TicksIn(d[f])) : f \in DOMAIN d}
Broken == IF trust = "sound" THEN "interrupted" ELSE "rerun"
Rerun  == IF trust = "sound" THEN "sound" ELSE "rerun"

Leaves(d, due, standing) ==
    /\ disk' = d /\ owed' = owed \cup due \cup HeldOn(d) /\ trust' = standing
    /\ UNCHANGED <<broker, kind>>
\* A run that ends has taken what it was offered.
Completes(trace)  == Leaves(Now(trace), InstantsOf(Offered), Rerun)
Repacks(trace)    == Leaves(Now(trace), {}, Rerun)
StopsEarly(trace) ==
    \E at \in 1..(Len(trace) - 1) : Leaves(trace[at], {}, Broken)

SyncParts ==
    /\ kind = "parts"
    /\ \E split \in {"none", "size", "days"} :
           LET trace == MergeMonth(<<disk>>, split) IN Completes(trace) \/ StopsEarly(trace)
\* The terminal refuses a chunk: what came before it stays, the splitting is not reached.
FetchRefused ==
    /\ kind = "parts" /\ trust = "sound"
    /\ LET start == Prepare(<<disk>>)
           trace == Pull(start)
       IN  \E at \in Len(start)..Len(trace) : Leaves(trace[at], {}, "sound")
Repack ==
    /\ kind = "parts"
    /\ \E trace \in {ResplitByDays(<<disk>>), JoinSizeParts(<<disk>>)} : Repacks(trace) \/ StopsEarly(trace)
SyncHalvesRun ==
    /\ kind = "halves"
    /\ LET trace == SyncHalves(<<disk>>) IN Repacks(trace) \/ StopsEarly(trace)
SyncDukascopy ==
    /\ kind = "dukascopy"
    /\ LET trace == PullHours(<<disk>>, {}) IN Completes(trace) \/ StopsEarly(trace)
HourFails ==
    /\ kind = "dukascopy"
    /\ \E failed \in SUBSET Range(Chunks) \ {{}} :
           Leaves(Now(PullHours(<<disk>>, failed)), {}, Broken)

ArchiveNext == TickComes \/ TickForgotten \/ SyncParts \/ FetchRefused \/ Repack \/ SyncHalvesRun
               \/ SyncDukascopy \/ HourFails

-----------------------------------------------------------------------------
(* Properties                                                              *)

\* What a backtest loads: every tick line of every file of the archive.
Loads(t) == {<<f, k>> \in UNION {{f} \X DOMAIN disk[f] : f \in DOMAIN disk} : disk[f][k] = t}

\* What was on the disk once, and what a run that ended was offered, is on the disk in some
\* shape, also at every point where a run can be interrupted -- until a further run starts
\* from what an interrupted one left.  Half-month files keep it whatever happens.
NothingForgotten == (trust # "rerun" \/ kind = "halves") => owed \subseteq HeldOn(disk)
\* export_ticks.py promises as much of every merge.
NothingEverForgotten == owed \subseteq HeldOn(disk)

\* As long as every run ended or was refused ticks, a backtest loads no tick twice.
LoadedOnce == trust = "sound" => \A t \in 1..MaxTick : Cardinality(Loads(t)) <= 1
=============================================================================
