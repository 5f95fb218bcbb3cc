----------------------------- MODULE ProviderFeed -----------------------------
(***************************************************************************)
(* The provider's signals on their way to the live book: the listener      *)
(* keeps the raw file, tools/live_provider_signal_filter.py watches it and *)
(* writes the feed that is traded -- the signals of the preset's hours, in *)
(* GMT+3, with their targets moved to a ladder of risk multiples -- and    *)
(* the batch tools build the same feed for the backtest.                   *)
(*                                                                         *)
(* A modification time is a count of writes; reading the file's time and   *)
(* reading its text are two steps, and writing the feed is a third.        *)
(***************************************************************************)
EXTENDS SignalText

CONSTANTS ProviderZone,   \* the provider's clock, hours east of UTC
          Rules,          \* presets and ladders the filter may run under
          Messages,       \* what may be posted: side and levels
          PostTimes,      \* when, on the provider's clock
          MaxPosts, MaxEdits, MaxRestarts   \* bounds

VARIABLES rule,     \* this filter's arguments
          raw,      \* signals.txt: its lines, its modification time, the messages so far
          filter,   \* the watching process: its step, what it remembers and has read
          filtered  \* the feed it writes

provider == <<rule, raw, filter, filtered>>

-----------------------------------------------------------------------------
(* Which signals, when; `r` is the tool's arguments                        *)

\* The chart's clock to both tools is GMT+3, all year.
SourceToChartTime(t, zone) == t + (3 - zone) * HourLen

\* The presets: hours for each side, and months left out.
Keep(r, side, t) ==
    /\ HourOf(t) \in (IF side = "BUY" THEN r.buyHours ELSE r.sellHours)
    /\ DayOf(t) \notin r.weakDays

\* rewrite_tps: the targets at multiples of the posted risk, in halves, from the edge of the
\* range; a stop on the edge or too far away is a slip, and its line stays as it is.
EntryEdge(s) == IF s.side = "BUY" THEN RangeHigh(s) ELSE RangeLow(s)
RewriteTps(r, s) ==
    LET edge == EntryEdge(s)   risk == AbsVal(edge - s.sl)
        at(halves) == Rounded(2 * edge + SignOf(s.side) * halves * risk, 2)
    IN  IF r.ladder = <<>> \/ risk \notin 1..r.maxRisk THEN s
        ELSE [s EXCEPT !.tp = [k \in 1..3 |-> at(r.ladder[k])]]

StableByTime(s) ==
    [k \in DOMAIN s |-> s[CHOOSE i \in DOMAIN s : k =
        1 + Cardinality({j \in DOMAIN s : \/ s[j].time < s[i].time
                                          \/ s[j].time = s[i].time /\ j < i})]]

-----------------------------------------------------------------------------
(* The live filter                                                         *)

\* A line as parse_and_filter holds it: the provider's number and the chart's time.
FaultyProviderSignal(l) == [time |-> l.day * DayLen + l.clock, n |-> l.n, side |-> l.side,
                            r1 |-> l.r1, r2 |-> l.r2, sl |-> l.sl, tp |-> l.tp]
ProviderSignal(l) ==
    [time |-> SourceToChartTime(l.day * DayLen + l.clock, ProviderZone), n |-> l.n,
     side |-> l.side, r1 |-> l.r1, r2 |-> l.r2, sl |-> l.sl, tp |-> l.tp]
ParseAndFilter(r, lines) ==
    SelectSeq([k \in DOMAIN lines |-> ProviderSignal(lines[k])], LAMBDA s : Keep(r, s.side, s.time))
\* By chart day, in order of time, under the provider's own numbers.
WriteFiltered(kept) ==
    LET o == StableByTime(kept)
    IN  [k \in DOMAIN o |-> Line(DayOf(o[k].time), o[k].n, o[k].time % DayLen, o[k])]
RunOnce(r, lines) ==
    LET kept == ParseAndFilter(r, lines) IN WriteFiltered([k \in DOMAIN kept |-> RewriteTps(r, kept[k])])

-----------------------------------------------------------------------------
(* The batch tools: filter_provider_signals numbers each day anew, and     *)
(* generate_victor_rr_feed rewrites the lines of its output.               *)

ParseProviderSignals(lines) ==
    [k \in DOMAIN lines |->
        [ParsedLine(lines[k], ProviderZone) EXCEPT
            !.time = lines[k].day * DayLen + lines[k].clock + (3 - ProviderZone) * HourLen]]
\* A signal line of a feed with its targets replaced, every other line as it was.
RewriteLine(r, l) == RewriteTps(r, l)
BatchFeed(r, lines) ==
    LET kept == SelectSeq(ParseProviderSignals(lines), LAMBDA s : Keep(r, s.side, s.time))
        out  == Numbered(StableByTime(kept), LAMBDA t : t)
    IN  [k \in DOMAIN out |-> RewriteLine(r, out[k])]

-----------------------------------------------------------------------------
(* The listener's file                                                     *)

DayNumber(day) == Cardinality({k \in DOMAIN raw.posts : DayOf(raw.posts[k]) = day}) + 1
Written(lines) == [raw EXCEPT !.lines = lines, !.stamp = @ + 1]
LastPost == IF raw.posts = <<>> THEN Never ELSE raw.posts[Len(raw.posts)]

Post(t, s) ==
    /\ Len(raw.posts) < MaxPosts /\ t >= LastPost
    /\ raw' = [Written(Append(raw.lines, Line(DayOf(t), DayNumber(DayOf(t)), t % DayLen, s)))
                 EXCEPT !.posts = Append(@, t)]
    /\ UNCHANGED <<rule, filter, filtered>>

Edit(lines) ==
    /\ raw.edits < MaxEdits
    /\ raw' = [Written(lines) EXCEPT !.edits = @ + 1]
    /\ UNCHANGED <<rule, filter, filtered>>
\* An edited message keeps its number and its time; a deleted one takes its line away.
Amend(k, s) == Edit([raw.lines EXCEPT ![k].side = s.side, ![k].r1 = s.r1, ![k].r2 = s.r2,
                                      ![k].sl = s.sl, ![k].tp = s.tp])
Revoke(k)   == Edit(RemoveAt(raw.lines, k))

-----------------------------------------------------------------------------
(* The watch loop                                                          *)

FreshFilter == [pc |-> "stat", first |-> TRUE, last |-> 0, mtime |-> 0, kept |-> <<>>]

\* The modification time is the one of before the text is read; a missing file has none.
Stat ==
    /\ filter.pc = "stat" /\ (filter.first \/ raw.stamp # filter.last)
    /\ filter' = [filter EXCEPT !.pc = "read", !.mtime = raw.stamp]
    /\ UNCHANGED <<rule, raw, filtered>>

Read ==
    /\ filter.pc = "read"
    /\ filter' = [filter EXCEPT !.pc = "write", !.kept = RunOnce(rule, raw.lines)]
    /\ UNCHANGED <<rule, raw, filtered>>

FaultyWrite ==   \* asks for the time once more
    /\ filter.pc = "write"
    /\ filtered' = filter.kept
    /\ filter' = [FreshFilter EXCEPT !.first = FALSE, !.last = raw.stamp]
    /\ UNCHANGED <<rule, raw>>
\* A replacement, so no reader sees half of it.
Write ==
    /\ filter.pc = "write"
    /\ filtered' = filter.kept
    /\ filter' = [FreshFilter EXCEPT !.first = FALSE, !.last = filter.mtime]
    /\ UNCHANGED <<rule, raw>>

Restart ==
    /\ raw.restarts < MaxRestarts
    /\ filter' = FreshFilter /\ raw' = [raw EXCEPT !.restarts = @ + 1]
    /\ UNCHANGED <<rule, filtered>>

ProviderInit(rules) ==
    /\ rule \in rules
    /\ raw = [lines |-> <<>>, stamp |-> 0, posts |-> <<>>, edits |-> 0, restarts |-> 0]
    /\ filter = FreshFilter /\ filtered = <<>>
FilterStep == Stat \/ Read \/ Write
ProviderNext ==
    \/ \E t \in PostTimes, s \in Messages : Post(t, s)
    \/ \E k \in DOMAIN raw.lines : Revoke(k) \/ \E s \in Messages : Amend(k, s)
    \/ FilterStep \/ Restart

\* The loop polls every two seconds for as long as it runs: it is fair, and the provider and
\* the operator owe nothing.
FilterReady == filter.pc # "stat" \/ filter.first \/ raw.stamp # filter.last

-----------------------------------------------------------------------------
(* Properties                                                              *)

Settled == ~FilterReady
LiveTrades == ParseFeed(filtered, 3)
Trade(s) == [time |-> s.time, side |-> s.side, r1 |-> s.r1, r2 |-> s.r2, sl |-> s.sl, tp |-> s.tp]
Trades(s) == [k \in DOMAIN s |-> Trade(s[k])]

\* When the provider has finished, the traded feed comes to be what the raw file gives,
\* however its writes fall between the filter's steps and whenever the filter is restarted.
FilterCatchesUp == <>[](filtered = RunOnce(rule, raw.lines))

\* A feed the filter has settled on is the backtest's: the engine reads the same trades from
\* it as from the batch tools' file, and each at the moment it reads in the raw file.
LiveIsBacktest ==
    Settled =>
        /\ Trades(LiveTrades) = Trades(ParseFeed(BatchFeed(rule, raw.lines), 3))
        /\ \A x \in Range(LiveTrades) : \E y \in Range(ParseFeed(raw.lines, ProviderZone)) :
               [Trade(x) EXCEPT !.tp = <<>>] = [Trade(y) EXCEPT !.tp = <<>>]

\* The key the engine trades a signal under is its key in the channel's file.
KeysMatchChannel ==
    Settled =>
        \A x \in Range(LiveTrades) : \E y \in Range(ParseFeed(raw.lines, ProviderZone)) :
            x.key = y.key /\ x.time = y.time
=============================================================================
