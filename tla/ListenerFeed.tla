----------------------------- MODULE ListenerFeed -----------------------------
(***************************************************************************)
(* The Telegram listener (listeners/telegram/listener.py) between VICTOR's *)
(* channel and the engine's files.  The channel and Telegram's update      *)
(* stream are the environment; the listener keeps one record per message,  *)
(* rewrites the feed and appends to the override journal.                  *)
(*                                                                         *)
(* One asyncio lock serialises the handlers, so a handler is one step; a   *)
(* crash can stop it between two of its durable writes, in the order file, *)
(* state, journal.  Catch-up runs message by message between live updates. *)
(* Abstractions: one date section; a catch-up scan is one snapshot (it is, *)
(* up to one page); notices to the user are left out.                      *)
(***************************************************************************)
EXTENDS Integers, Sequences, FiniteSets, FiniteSetsExt

CONSTANTS Msgs,       \* message ids, 1 .. N, in posting order
          Signals,    \* what a message can parse to
          NoSignal,
          MinuteOf,   \* the post time of each message, to the minute
          MayPost,    \* bound: the bodies each message may be posted with
          MaxInbox,   \* bound: updates waiting at once
          MaxActs,    \* bound: edits, deletions and manual injections
          MaxFaults   \* bound: crashes and failed file writes

ASSUME MsgsAssumption == Msgs = 1..Cardinality(Msgs) /\ IsFiniteSet(Msgs)
ASSUME BodiesAssumption ==
    /\ Signals \cap {NoSignal, "junk", "plain", "unposted", "deleted"} = {}
    /\ \A m \in Msgs : MayPost[m] \subseteq Signals \cup {"junk", "plain"}
ASSUME ListenerBounds == {MaxInbox, MaxActs, MaxFaults} \subseteq Nat

\* "junk" has the signal marker but not every field; "plain" has no marker.
Bodies  == Signals \cup {"junk", "plain"}
Minutes == {MinuteOf[m] : m \in Msgs}
MaxNumber == Cardinality(Msgs) + MaxActs + MaxFaults   \* the most lines a run can add

VARIABLES channel,    \* the channel as Telegram would return it now
          inbox,      \* update events not yet handled; lost when the listener is down
          up,         \* "down", "starting", "catching", "revoking" or "live"
          scan,       \* the catch-up under way: work left, ids seen, window, last id
          records,    \* the persisted state file, one record per message
          feed, journal,
          acts, faults,
          owners,     \* history: every line number with the messages it was ever given to
          listed,     \* history: every number a line ever had
          raced,      \* history: messages that changed while a catch-up was running
          beyond      \* history: messages older than all the last catch-up saw

chanVars  == <<channel, acts>>
outVars   == <<records, feed, journal>>
lineage   == <<owners, listed>>
history   == <<owners, listed, raced, beyond>>
vars == <<channel, inbox, up, scan, records, feed, journal, acts, faults,
          owners, listed, raced, beyond>>

F == INSTANCE FeedContract WITH Signals <- Signals, Minutes <- Minutes, NoSignal <- NoSignal,
                               feed <- feed, journal <- journal, listed <- listed

NoRecord == [status |-> "none", n |-> 0, flags |-> {}]
Idle     == [todo |-> {}, seen |-> {}, low |-> 0, last |-> 0]

Present     == {m \in Msgs : channel[m] \in Bodies}
Running     == up # "down"
CatchingUp  == up \in {"starting", "catching", "revoking"}

\* last_processed_message_id: the largest id that ever got a record.
LastId == Max({0} \cup {m \in Msgs : records[m].status # "none"})
Written(m) == records[m].status = "written"

-----------------------------------------------------------------------------
(* VICTOR and the user                                                     *)

Send(kind, m, body) ==
    /\ Len(inbox) < MaxInbox
    /\ inbox' = IF Running THEN Append(inbox, [kind |-> kind, m |-> m, body |-> body]) ELSE inbox

\* A message touched while a catch-up runs may be judged on a stale snapshot.
Touch(m) ==
    /\ raced' = IF CatchingUp THEN raced \cup {m} ELSE raced
    /\ UNCHANGED beyond

Post(m, body) ==
    /\ channel[m] = "unposted" /\ \A l \in 1..(m - 1) : channel[l] # "unposted"
    /\ channel' = [channel EXCEPT ![m] = body]
    /\ Send("new", m, body)
    /\ Touch(m)
    /\ UNCHANGED <<up, scan, acts, faults>> /\ UNCHANGED outVars /\ UNCHANGED lineage

Edit(m, body) ==
    /\ acts > 0 /\ m \in Present /\ channel[m] # body
    /\ channel' = [channel EXCEPT ![m] = body]
    /\ acts' = acts - 1
    /\ Send("edit", m, body)
    /\ Touch(m)
    /\ UNCHANGED <<up, scan, faults>> /\ UNCHANGED outVars /\ UNCHANGED lineage

Delete(m) ==
    /\ acts > 0 /\ m \in Present
    /\ channel' = [channel EXCEPT ![m] = "deleted"]
    /\ acts' = acts - 1
    /\ Send("delete", m, NoSignal)
    /\ Touch(m)
    /\ UNCHANGED <<up, scan, faults>> /\ UNCHANGED outVars /\ UNCHANGED lineage

-----------------------------------------------------------------------------
(* The feed file                                                           *)

FaultyNextIndex(f) == Cardinality(f) + 1   \* counts the lines
NextIndex(f) == Max({0} \cup {l.n : l \in f}) + 1

FaultySameContent(f, body, minute) == {}   \* never looks for a duplicate
SameContent(f, body, minute) == {l \in f : l.body = body /\ l.minute = minute}

\* write_signal_to_file / append_manual_signal, on content that is not there yet.
WithLine(f, body, minute) ==
    f \cup {[n |-> NextIndex(f), body |-> body, minute |-> minute]}

\* update_signal_in_file keeps the number and the time; no line, no change.
Rewritten(f, n, body) == {IF l.n = n THEN [l EXCEPT !.body = body] ELSE l : l \in f}

Without(f, n) == {l \in f : l.n # n}

\* append_manual_signal, from Saved Messages.
Inject(body, minute) ==
    /\ Running /\ acts > 0
    /\ SameContent(feed, body, minute) = {}
    /\ feed' = WithLine(feed, body, minute)
    /\ acts' = acts - 1
    /\ listed' = listed \cup F!Numbers(feed')
    /\ UNCHANGED <<channel, inbox, up, scan, records, journal, faults, owners, raced, beyond>>

-----------------------------------------------------------------------------
(* Handlers.  Each leaves `up' = "down"` when a crash cut it short.        *)

Ignore == UNCHANGED <<up, faults>> /\ UNCHANGED outVars

\* The durable writes of one handler: the feed, then the record, then the journal.
Durably(f, m, r, note) ==
    /\ feed' = f
    /\ \/ /\ records' = [records EXCEPT ![m] = r]
          /\ journal' = journal \o note
          /\ UNCHANGED <<up, faults>>
       \/ /\ faults > 0 /\ faults' = faults - 1
          /\ up' = "down"
          /\ records' = records \/ records' = [records EXCEPT ![m] = r]
          /\ UNCHANGED journal

\* A written signal edited into something else is flagged, once, and left alone.
Flag(m, flag) ==
    IF flag \in records[m].flags THEN Ignore
    ELSE Durably(feed, m, [records[m] EXCEPT !.flags = @ \cup {flag}], <<>>)

Amend(m, body) ==
    LET n == records[m].n IN
    IF \A l \in feed : l.n = n => l.body = body
    THEN Ignore
    ELSE Durably(Rewritten(feed, n, body), m, [records[m] EXCEPT !.flags = {}],
                 <<F!Amend(n, body)>>)

List(m, body) ==
    LET same == SameContent(feed, body, MinuteOf[m])
        n    == IF same = {} THEN NextIndex(feed) ELSE (CHOOSE l \in same : \A k \in same : l.n <= k.n).n
    IN  Durably(IF same = {} THEN WithLine(feed, body, MinuteOf[m]) ELSE feed, m,
                [status |-> "written", n |-> n, flags |-> {}], <<>>)

\* The feed could not be written: the message is parked and the user told.
ListFails(m, body) ==
    /\ faults > 0 /\ faults' = faults - 1
    /\ SameContent(feed, body, MinuteOf[m]) = {}
    /\ records' = [records EXCEPT ![m] = [NoRecord EXCEPT !.status = "write_failed"]]
    /\ UNCHANGED <<up, feed, journal>>

\* _process_message
Process(m, body, isEdit) ==
    LET status == records[m].status IN
    \/ /\ ~isEdit /\ status \in {"written", "quarantined", "write_failed"}
       /\ Ignore
    \/ /\ isEdit \/ status \notin {"written", "quarantined", "write_failed"}
       /\ IF Written(m)
          THEN \/ body = "junk" /\ Flag(m, "unparseable")
               \/ body = "plain" /\ Flag(m, "no_marker")
               \/ body \in Signals /\ Amend(m, body)
          ELSE \/ /\ body = "junk"
                  /\ Durably(feed, m, [NoRecord EXCEPT !.status = "quarantined"], <<>>)
               \/ body = "plain" /\ Ignore
               \/ body \in Signals /\ (List(m, body) \/ ListFails(m, body))

\* _revoke_tracked_message
RevokeTracked(m) ==
    IF ~Written(m) THEN Ignore
    ELSE Durably(Without(feed, records[m].n), m, [records[m] EXCEPT !.status = "deleted"],
                 <<F!Revoke(records[m].n)>>)

-----------------------------------------------------------------------------
(* Live updates                                                            *)

\* A handler cut short by a crash takes the queue and the catch-up with it.
AfterHandler(nextInbox, nextScan) ==
    IF up' = "down" THEN inbox' = <<>> /\ scan' = Idle
    ELSE inbox' = nextInbox /\ scan' = nextScan

Remember ==
    /\ owners' = owners \cup {<<records'[m].n, m>> : m \in Msgs}
    /\ listed' = listed \cup F!Numbers(feed')

HandleUpdate ==
    /\ Running /\ inbox # <<>>
    /\ LET u == Head(inbox) IN
       IF u.kind = "delete" THEN RevokeTracked(u.m) ELSE Process(u.m, u.body, u.kind = "edit")
    /\ AfterHandler(Tail(inbox), scan)
    /\ Remember
    /\ UNCHANGED <<raced, beyond>> /\ UNCHANGED chanVars

\* An amend or a revoke whose file write raises is logged by the client and lost.
HandlerRaises ==
    /\ Running /\ inbox # <<>> /\ faults > 0
    /\ LET u == Head(inbox) IN
       /\ Written(u.m)
       /\ u.kind = "delete" \/ (u.kind = "edit" /\ u.body \in Signals)
       /\ raced' = raced \cup {u.m}
    /\ inbox' = Tail(inbox)
    /\ faults' = faults - 1
    /\ UNCHANGED <<up, scan, beyond>> /\ UNCHANGED chanVars /\ UNCHANGED outVars
    /\ UNCHANGED lineage

-----------------------------------------------------------------------------
(* Start and catch-up                                                      *)

\* setup registers the live handlers; catch_up then reads the last id.
Start ==
    /\ up = "down"
    /\ up' = "starting"
    /\ scan' = [Idle EXCEPT !.last = LastId]
    /\ UNCHANGED <<inbox, faults>> /\ UNCHANGED chanVars /\ UNCHANGED outVars /\ UNCHANGED history

Work(ms, isEdit) == {[m |-> m, body |-> channel[m], isEdit |-> isEdit] : m \in ms}

\* The new messages first, then the tracked ones, oldest first.
Precedes(w, v) == (~w.isEdit /\ v.isEdit) \/ (w.isEdit = v.isEdit /\ w.m <= v.m)

FaultyNew(seen) == {m \in seen : m > scan.last + 1}   \* off by one
New(seen) == {m \in seen : m > scan.last}

FaultyTracked(seen) == {m \in seen : m < scan.last /\ Written(m)}   \* off by one
Tracked(seen) == {m \in seen : m <= scan.last /\ Written(m)}

\* iter_messages over the look-back window, whose oldest message is `oldest`: a
\* downtime longer than the window is out of scope.
Scan(oldest) ==
    LET seen == {m \in Present : m >= oldest}
    IN  /\ up = "starting" /\ oldest <= scan.last + 1
        /\ up' = "catching"
        /\ scan' = [scan EXCEPT !.todo = Work(New(seen), FALSE) \cup Work(Tracked(seen), TRUE),
                                !.seen = seen,
                                !.low = IF seen = {} THEN 0 ELSE Min(seen)]
        /\ raced' = raced \ {m \in Msgs : m <= scan.last}
        /\ beyond' = {m \in Msgs : seen = {} \/ m < Min(seen)}
        /\ UNCHANGED <<inbox, faults>> /\ UNCHANGED chanVars /\ UNCHANGED outVars
        /\ UNCHANGED lineage

CatchUpMessage ==
    /\ up = "catching"
    /\ \E w \in scan.todo :
          /\ \A v \in scan.todo : Precedes(w, v)
          /\ Process(w.m, w.body, w.isEdit)
          /\ AfterHandler(inbox, [scan EXCEPT !.todo = @ \ {w}])
    /\ Remember
    /\ UNCHANGED <<raced, beyond>> /\ UNCHANGED chanVars

FaultyVanished ==   \* judges ids the scan came too early for
    {m \in Msgs : /\ Written(m) /\ scan.low # 0
                  /\ scan.low <= m /\ m \notin scan.seen}

\* plan_catchup_deletions
Vanished ==
    {m \in Msgs : /\ Written(m) /\ scan.low # 0
                  /\ scan.low <= m /\ m <= scan.last /\ m \notin scan.seen}

PlanDeletions ==
    /\ up = "catching" /\ scan.todo = {}
    /\ up' = "revoking"
    /\ scan' = [scan EXCEPT !.todo = Vanished]
    /\ UNCHANGED <<inbox, faults>> /\ UNCHANGED chanVars /\ UNCHANGED outVars /\ UNCHANGED history

CatchUpRevoke ==
    /\ up = "revoking"
    /\ \E m \in scan.todo :
          /\ \A l \in scan.todo : m <= l
          /\ RevokeTracked(m)
          /\ AfterHandler(inbox, [scan EXCEPT !.todo = @ \ {m}])
    /\ UNCHANGED chanVars /\ UNCHANGED history

CatchUpDone ==
    /\ up = "revoking" /\ scan.todo = {}
    /\ up' = "live"
    /\ scan' = Idle
    /\ UNCHANGED <<inbox, faults>> /\ UNCHANGED chanVars /\ UNCHANGED outVars /\ UNCHANGED history

Crash ==
    /\ Running /\ faults > 0
    /\ faults' = faults - 1
    /\ up' = "down" /\ inbox' = <<>> /\ scan' = Idle
    /\ UNCHANGED chanVars /\ UNCHANGED outVars /\ UNCHANGED history

-----------------------------------------------------------------------------

Init ==
    /\ channel = [m \in Msgs |-> "unposted"]
    /\ inbox = <<>> /\ up = "down" /\ scan = Idle
    /\ records = [m \in Msgs |-> NoRecord]
    /\ feed = {} /\ journal = <<>>
    /\ acts = MaxActs /\ faults = MaxFaults
    /\ owners = {} /\ listed = {} /\ raced = {} /\ beyond = {}

Listener ==
    \/ Start \/ (\E m \in Msgs : Scan(m)) \/ CatchUpMessage \/ PlanDeletions
    \/ CatchUpRevoke \/ CatchUpDone \/ HandleUpdate

Environment ==
    \/ \E m \in Msgs :
          \/ \E body \in MayPost[m] : Post(m, body)
          \/ \E body \in Bodies : Edit(m, body)
          \/ Delete(m)
    \/ \E body \in Signals, minute \in Minutes : Inject(body, minute)
    \/ HandlerRaises \/ Crash

Next == Listener \/ Environment

\* The event loop never sleeps on work it has, and a stopped listener is restarted.
Spec == Init /\ [][Next]_vars /\ WF_vars(Listener)

-----------------------------------------------------------------------------
(* Properties                                                              *)

UpdateType == [kind : {"new", "edit", "delete"}, m : Msgs, body : Bodies \cup {NoSignal}]
RecordType == [status : {"none", "written", "quarantined", "write_failed", "deleted"},
               n : 0..MaxNumber, flags : SUBSET {"unparseable", "no_marker"}]

\* Every variable keeps its type.
TypeOK ==
    /\ channel \in [Msgs -> Bodies \cup {"unposted", "deleted"}]
    /\ inbox \in Seq(UpdateType)
    /\ up \in {"down", "starting", "catching", "revoking", "live"}
    /\ scan.seen \subseteq Msgs /\ scan.low \in Msgs \cup {0} /\ scan.last \in Msgs \cup {0}
    /\ records \in [Msgs -> RecordType]
    /\ feed \subseteq F!Line /\ journal \in Seq(F!Record)
    /\ acts \in 0..MaxActs /\ faults \in 0..MaxFaults
    /\ owners \subseteq (0..MaxNumber) \X Msgs /\ listed \subseteq 1..MaxNumber
    /\ raced \subseteq Msgs /\ beyond \subseteq Msgs

AtRest == up = "live" /\ inbox = <<>>

\* No other message was ever given m's number: a content duplicate is, and so is
\* the successor of a revoked line.
Sole(m) == \A l \in Msgs : <<records[m].n, l>> \in owners => l = m

Follows(m) ==
    /\ (channel[m] \in Signals /\ Written(m) /\ Sole(m)) =>
           \E l \in feed : l.n = records[m].n /\ l.body = channel[m]
    /\ channel[m] = "deleted" => ~Written(m)

\* Two lines of a day never share a number: signal_key and the broker's magic are
\* derived from it (_next_index_in_section).
UniqueNumbers == \A k, l \in feed : k.n = l.n => k = l

\* When the listener is at rest every message's line carries its latest edit, and a
\* deleted message has no line, across crashes and downtime, unless the message
\* changed while a catch-up was running or lies outside its window.
FollowsWhenQuiet == AtRest => \A m \in Msgs \ (raced \cup beyond) : Follows(m)

\* The catch_up docstring without that exception: "signals.txt and MT5 follow
\* VICTOR's latest state even across restarts".
FollowsLatest == AtRest => \A m \in Msgs \ beyond : Follows(m)

\* A line disappears only when VICTOR deleted a message that was mapped to it, however
\* live updates and the catch-up's inference of deletions interleave.
RemovalIsEarned ==
    [][\A l \in feed : l.n \notin F!Numbers(feed') =>
         \E m \in Msgs : channel[m] = "deleted" /\ records[m].n = l.n]_vars

\* Every step of the listener is one the engine's contract allows.
Contract == F!Spec

\* A message that stays a signal is eventually judged (listed, or parked after a
\* failed write), unless a later one was judged before it.
EventuallyJudged ==
    \A m \in Msgs :
        channel[m] \in Signals ~>
            (channel[m] \notin Signals \/ records[m].status # "none" \/ m < LastId)
=============================================================================
