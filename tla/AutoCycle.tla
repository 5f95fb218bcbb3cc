------------------------------ MODULE AutoCycle ------------------------------
(***************************************************************************)
(* One cycle of the live executor (_auto_pass in trading/engine/cli.py,    *)
(* _consume_signal_overrides in cli_impl.py, the Mt5Executor classes)      *)
(* against a broker that fills, stops out and refuses between its calls.   *)
(* Every call that reads or changes the broker is a step of its own.       *)
(*                                                                         *)
(* Abstractions: prices are left out, so whether a leg is fresh, passed or *)
(* armed, what the replay says of it (the lifecycle module's subject) and  *)
(* whether a gate lets a signal in are choices; an order carries only the  *)
(* feed line's edition it was priced from.  Stop moves change no footprint *)
(* and are left out; a cycle that fails its sanity checks does nothing.    *)
(***************************************************************************)
EXTENDS Integers, Sequences, FiniteSets

CONSTANTS Signals, Legs,
          Tickets,          \* bound: broker tickets in use at once
          MaxLevel,         \* bound: editions of a signal's line
          MaxRecords,       \* bound: length of the override journal
          Backlog,          \* records journalled before the executor first ran
          TrailingOpen,     \* the strategy opens by trailing STOPs, not LIMITs
          ReplaceMissing,   \* --replace-missing-entries
          ReopenMissing,    \* --reopen-missing-positions
          Hazards,          \* which of "reject", "crash", "query", "hand", "lag" can happen
          MaxFaults         \* bound: rejections, crashes and failed queries

ASSUME FlagsAssumption == {TrailingOpen, ReplaceMissing, ReopenMissing} \subseteq BOOLEAN
ASSUME BoundsAssumption ==
    /\ {MaxLevel, MaxRecords, MaxFaults, Backlog} \subseteq Nat
    /\ MaxLevel > 0 /\ Backlog <= MaxRecords

Level     == 1..MaxLevel
Footprint == [ticket : Tickets, signal : Signals, leg : Legs, level : Level]
Verdict   == {"PENDING", "OPEN", "LOCKED", "GONE"}   \* GONE: closed otherwise, or never filled
Record    == [action : {"amend", "revoke"}, signal : Signals]

VARIABLES orders, positions,   \* the broker's book for the executor's magics
          deals,               \* per signal: the kinds of deal in the broker's history
          recent,              \* legs whose position closed within the re-open cooldown
          window,              \* per signal: "waiting", "open" or "expired" by the wall clock
          touched,             \* signals whose original SL or final target was touched
          channel,             \* the listener's feed: a line's edition, 0 when removed
          feed,                \* the feed file the executor parses
          journal,             \* the override journal
          registry,            \* positions.json: the edition tracked, 0 when untracked
          offset,              \* records consumed, -1 before the sidecar exists
          failed,              \* signals not retried in this process
          pc, cyc,             \* where the cycle stands, and its local state
          faults,
          applied,             \* history: journal records flattened
          watching,            \* history: the journal when overrides were first looked at
          abandoned            \* history: signals a refused close, a crash or a failed query let go

broker   == <<orders, positions, deals, recent>>
clock    == <<window, touched>>
provider == <<channel, feed, journal>>
disk     == <<registry, offset>>
history  == <<applied, watching, abandoned>>
vars == <<orders, positions, deals, recent, window, touched, channel, feed, journal,
          registry, offset, failed, pc, cyc, faults, applied, watching, abandoned>>

Of(book, s)    == {x \in book : x.signal = s}
Held(book, t)  == {x \in book : x.ticket = t}
Footprints(s)  == Of(orders, s) \cup Of(positions, s)
Ticket(book)   == {x.ticket : x \in book}
LegsOf(book)   == {x.leg : x \in book}
Tracked        == {s \in Signals : registry[s] # 0}

NoVerdict == [s \in Signals |-> [l \in Legs |-> "PENDING"]]
Fresh == [todo |-> {}, cur |-> CHOOSE s \in Signals : TRUE, work |-> {}, plan |-> {},
          sent |-> {}, kept |-> {}, stuck |-> FALSE, mirror |-> FALSE, seen |-> {},
          verdict |-> NoVerdict, parsed |-> [s \in Signals |-> 0], next |-> 0, upto |-> 0,
          force |-> {}, revoked |-> {}, refused |-> {}, spared |-> {}]

Fault(kind) == kind \in Hazards /\ faults < MaxFaults /\ faults' = faults + 1

-----------------------------------------------------------------------------
(* The broker, the clock, the operator and the provider                    *)

Fill(o) ==
    /\ o \in orders
    /\ orders' = orders \ {o}
    /\ positions' = positions \cup {o}
    /\ deals' = [deals EXCEPT ![o.signal] = @ \cup {"in"}]
    /\ UNCHANGED <<recent, clock, provider, disk, failed, pc, cyc, faults, history>>

\* Only the re-open pass reads how long ago a leg was closed.
Closed(p, reason) ==
    /\ positions' = positions \ {p}
    /\ deals' = [deals EXCEPT ![p.signal] = @ \cup {reason}]
    /\ recent' = IF ReopenMissing THEN recent \cup {<<p.signal, p.leg>>} ELSE recent

StopOrTarget(p) ==
    /\ p \in positions
    /\ Closed(p, "system")
    /\ UNCHANGED <<orders, clock, provider, disk, failed, pc, cyc, faults, history>>

HandClose(p) ==
    /\ "hand" \in Hazards
    /\ p \in positions
    /\ Closed(p, "manual")
    /\ UNCHANGED <<orders, clock, provider, disk, failed, pc, cyc, faults, history>>

HandCancel(o) ==
    /\ "hand" \in Hazards
    /\ o \in orders
    /\ orders' = orders \ {o}
    /\ UNCHANGED <<positions, deals, recent, clock, provider, disk, failed, pc, cyc, faults, history>>

Cooldown(x) ==
    /\ x \in recent
    /\ recent' = recent \ {x}
    /\ UNCHANGED <<orders, positions, deals, clock, provider, disk, failed, pc, cyc, faults, history>>

Tick(s) ==
    /\ window[s] # "expired"
    /\ window' = [window EXCEPT ![s] = IF @ = "waiting" THEN "open" ELSE "expired"]
    /\ UNCHANGED <<broker, touched, provider, disk, failed, pc, cyc, faults, history>>

\* A cycle judges the bars up to its own start, so a touch shows in the next one.
Touch(s) ==
    /\ pc = "idle" /\ window[s] # "waiting" /\ s \notin touched
    /\ touched' = touched \cup {s}
    /\ UNCHANGED <<broker, window, provider, disk, failed, pc, cyc, faults, history>>

Publish(s, edition, action) ==
    /\ channel[s] # 0 /\ Len(journal) < MaxRecords
    /\ channel' = [channel EXCEPT ![s] = edition]
    /\ feed' = IF "lag" \in Hazards THEN feed ELSE channel'
    /\ journal' = Append(journal, [action |-> action, signal |-> s])
    /\ UNCHANGED <<broker, clock, disk, failed, pc, cyc, faults, history>>

Edit(s)   == channel[s] < MaxLevel /\ Publish(s, channel[s] + 1, "amend")
Delete(s) == Publish(s, 0, "revoke")

Regenerate ==
    /\ feed # channel
    /\ feed' = channel
    /\ UNCHANGED <<broker, clock, channel, journal, disk, failed, pc, cyc, faults, history>>

World ==
    \/ \E o \in orders : Fill(o) \/ HandCancel(o)
    \/ \E p \in positions : StopOrTarget(p) \/ HandClose(p)
    \/ \E x \in recent : Cooldown(x)
    \/ \E s \in Signals : Tick(s) \/ Touch(s) \/ Edit(s) \/ Delete(s)
    \/ Regenerate

-----------------------------------------------------------------------------
(* The cycle, pass by pass                                                 *)

\* What the replay, with the broker's fills laid over it, may say of a leg.
ReplayOf(s, l) ==
    IF l \in LegsOf(Of(positions, s)) THEN {"OPEN", "LOCKED", "GONE"}
    ELSE (IF window[s] # "expired" THEN {"PENDING"} ELSE {})
         \cup (IF window[s] # "waiting" THEN {"OPEN", "GONE"} ELSE {})

StartCycle ==
    /\ pc = "idle"
    /\ \E v \in [Signals -> [Legs -> Verdict]] :
          /\ \A s \in Signals : IF s \in Tracked THEN \A l \in Legs : v[s][l] \in ReplayOf(s, l)
                                ELSE v[s] = NoVerdict[s]
          /\ cyc' = [Fresh EXCEPT !.todo = Tracked, !.verdict = v]
    /\ pc' = "manage"
    /\ UNCHANGED <<broker, clock, provider, disk, failed, faults, history>>

\* The loops over tracked signals: take one, or go on to the next loop.
Take(s, stage, next, work) ==
    /\ pc = stage /\ s \in cyc.todo
    /\ pc' = next
    /\ cyc' = [cyc EXCEPT !.todo = @ \ {s}, !.cur = s, !.work = work, !.plan = {}]
    /\ UNCHANGED <<broker, clock, provider, disk, failed, faults, history>>

NextLoop(stage, next, todo) ==
    /\ pc = stage /\ cyc.todo = {}
    /\ pc' = next
    /\ cyc' = [cyc EXCEPT !.todo = todo]
    /\ UNCHANGED <<broker, clock, provider, disk, failed, faults, history>>

\* Go on within a signal once the tickets at hand are dealt with.
Then(stage, next, work) ==
    /\ pc = stage /\ cyc.work = {}
    /\ pc' = next
    /\ cyc' = [cyc EXCEPT !.work = work]
    /\ UNCHANGED <<broker, clock, provider, disk, failed, faults, history>>

Cancelling == {"expire", "timeCancel", "terminalCancel", "flattenOrders", "rollback"}
Closing    == {"catchUp", "timeExit", "flattenPositions"}

\* flatten_signal logs a refusal, and its caller untracks the signal all the same.
LetGo == abandoned' = IF pc \in {"flattenOrders", "flattenPositions"}
                      THEN abandoned \cup {cyc.cur} ELSE abandoned

\* An order that filled meanwhile cannot be removed: the request fails.
CancelTicket(t) ==
    /\ pc \in Cancelling /\ t \in cyc.work
    /\ \/ /\ orders' = orders \ Held(orders, t)
          /\ cyc' = [cyc EXCEPT !.work = @ \ {t},
                                !.stuck = @ \/ (pc = "rollback" /\ Held(orders, t) = {})]
          /\ UNCHANGED <<faults, abandoned>>
       \/ /\ Held(orders, t) # {} /\ Fault("reject") /\ LetGo
          /\ cyc' = [cyc EXCEPT !.work = @ \ {t}, !.stuck = @ \/ pc = "rollback"]
          /\ UNCHANGED orders
    /\ UNCHANGED <<positions, deals, recent, clock, provider, disk, failed, pc, applied, watching>>

\* A leg the replay lock-exited is normally protected by a stop, not closed.
ClosePosition(t) ==
    /\ pc \in Closing /\ t \in cyc.work
    /\ cyc' = [cyc EXCEPT !.work = @ \ {t}]
    /\ \/ /\ \E p \in Held(positions, t) : Closed(p, "system")
          /\ UNCHANGED <<faults, abandoned>>
       \/ /\ \/ Held(positions, t) = {}
             \/ /\ pc = "catchUp"
                /\ \E p \in Held(positions, t) : cyc.verdict[p.signal][p.leg] = "LOCKED"
          /\ UNCHANGED <<positions, deals, recent, faults, abandoned>>
       \/ /\ Held(positions, t) # {} /\ Fault("reject") /\ LetGo
          /\ UNCHANGED <<positions, deals, recent>>
    /\ UNCHANGED <<orders, clock, provider, disk, failed, pc, applied, watching>>

\* manage_position: expired pendings, legs the replay has closed, the time exit.
Ended(s) == {p \in Of(positions, s) : cyc.verdict[s][p.leg] \in {"LOCKED", "GONE"}}
\* Faulty: trusts the replay, which has no pending leg left by then.
FaultyExpired(s) ==
    Ticket({o \in Of(orders, s) : window[s] = "expired" /\ cyc.verdict[s][o.leg] = "PENDING"})
Expired(s) == Ticket({o \in Of(orders, s) : window[s] = "expired"})
HasDeadline(s) == Of(positions, s) # {} \/ \E l \in Legs : cyc.verdict[s][l] # "PENDING"

ManagePosition ==
    \/ \E s \in cyc.todo : Take(s, "manage", "expire", Expired(s))
    \/ Then("expire", "catchUp", Ticket(Ended(cyc.cur)))
    \/ Then("catchUp", "manage", {})
    \/ HasDeadline(cyc.cur) /\ Then("catchUp", "timeExit", Ticket(Of(positions, cyc.cur)))
    \/ Then("timeExit", "timeCancel", Ticket(Of(orders, cyc.cur)))
    \/ Then("timeCancel", "manage", {})
    \/ NextLoop("manage", "terminal", Tracked)

CancelSignalPendings ==
    \/ \E s \in cyc.todo : Take(s, "terminal", "terminalCancel",
                                IF s \in touched THEN Ticket(Of(orders, s)) ELSE {})
    \/ Then("terminalCancel", "terminal", {})
    \/ NextLoop("terminal", "replace", IF ReplaceMissing THEN Tracked \ touched ELSE {})

-----------------------------------------------------------------------------
(* Orders and positions sent                                               *)

Free == Tickets \ (Ticket(orders) \cup Ticket(positions) \cup cyc.sent \cup cyc.kept)
New(s, l, edition) == [ticket |-> CHOOSE t \in Free : TRUE,
                       signal |-> s, leg |-> l, level |-> edition]

Rest(x) ==       \* a pending order is accepted
    orders' = orders \cup {x} /\ UNCHANGED <<positions, deals, recent, faults>>
AtMarket(x) ==   \* a market order is filled
    /\ positions' = positions \cup {x}
    /\ deals' = [deals EXCEPT ![x.signal] = @ \cup {"in"}]
    /\ UNCHANGED <<orders, recent, faults>>

\* What a query answers: the legs in the book, or none when the query fails.  Of the
\* queries a decision to send or to prune rests on, that of place_signal is exact here.
Answers(book, s, legs) ==
    \/ legs = LegsOf(Of(book, s)) /\ UNCHANGED faults
    \/ legs = {} /\ LegsOf(Of(book, s)) # {} /\ Fault("query")

\* Orders are read first, so a leg that fills in between is seen twice.
ReplaceReadsOrders(s) ==
    /\ pc = "replace" /\ s \in cyc.todo
    /\ pc' = "replaceRead"
    /\ \E legs \in SUBSET Legs :
          /\ Answers(orders, s, legs)
          /\ cyc' = [cyc EXCEPT !.todo = @ \ {s}, !.cur = s, !.seen = legs]
    /\ UNCHANGED <<broker, clock, provider, disk, failed, history>>

MissingPending(s, occupied) ==
    IF occupied = {} THEN {}
    ELSE {l \in Legs \ occupied : cyc.verdict[s][l] = "PENDING"}

\* Faulty: only the orders count, and one of them may just have filled.
FaultyReplaceReadsPositions ==
    /\ pc = "replaceRead"
    /\ pc' = "replaceSend"
    /\ cyc' = [cyc EXCEPT !.plan = MissingPending(cyc.cur, cyc.seen)]
    /\ UNCHANGED <<broker, clock, provider, disk, failed, faults, history>>

ReplaceReadsPositions ==
    /\ pc = "replaceRead"
    /\ pc' = "replaceSend"
    /\ \E legs \in SUBSET Legs :
          /\ Answers(positions, cyc.cur, legs)
          /\ cyc' = [cyc EXCEPT !.plan = MissingPending(cyc.cur, cyc.seen \cup legs)]
    /\ UNCHANGED <<broker, clock, provider, disk, failed, history>>

\* Positions are read first here; a signal past its deadline is left alone.
ReopenReadsPositions(s) ==
    /\ pc = "reopen" /\ s \in cyc.todo
    /\ pc' = "reopenRead"
    /\ \E legs \in SUBSET Legs, due \in BOOLEAN :
          /\ Answers(positions, s, legs)
          /\ cyc' = [cyc EXCEPT !.todo = @ \ {s}, !.cur = s,
                !.plan = {l \in Legs \ legs : cyc.verdict[s][l] = "OPEN" /\ ~due}]
    /\ UNCHANGED <<broker, clock, provider, disk, failed, history>>

ReopenReadsOrders ==
    /\ pc = "reopenRead"
    /\ pc' = "reopenSend"
    /\ \E legs \in SUBSET Legs :
          /\ Answers(orders, cyc.cur, legs)
          /\ cyc' = [cyc EXCEPT !.plan = {l \in @ \ legs : <<cyc.cur, l>> \notin recent}]
    /\ UNCHANGED <<broker, clock, provider, disk, failed, history>>

\* A pending order may rest: a LIMIT is re-opened only inside the pending window.
MayRest == \/ pc = "replaceSend" \/ TrailingOpen
           \/ window[cyc.cur] # "expired"
\* A re-opened LIMIT leg goes to market at its entry or better; a rejected STOP does
\* when its trigger was passed.
MayBuyNow == pc = "reopenSend" \/ TrailingOpen

Resend(l) ==
    /\ pc \in {"replaceSend", "reopenSend"} /\ l \in cyc.plan /\ Free # {}
    /\ cyc' = [cyc EXCEPT !.plan = @ \ {l}]
    /\ LET x == New(cyc.cur, l, registry[cyc.cur])
       IN \/ MayRest /\ Rest(x)
          \/ MayBuyNow /\ AtMarket(x)
          \/ /\ \/ MayBuyNow /\ UNCHANGED faults    \* not armed, not chased or no tick
                \/ Fault("reject")
             /\ UNCHANGED broker
    /\ UNCHANGED <<clock, provider, disk, failed, pc, history>>

ReplaceMissingEntries ==
    \/ \E s \in cyc.todo : ReplaceReadsOrders(s)
    \/ ReplaceReadsPositions
    \/ pc = "replaceSend" /\ \E l \in cyc.plan : Resend(l)
    \/ cyc.plan = {} /\ Then("replaceSend", "replace", {})
    \/ NextLoop("replace", "reopen", IF ReopenMissing THEN Tracked \ touched ELSE {})

ReopenMissingPositions ==
    \/ \E s \in cyc.todo : ReopenReadsPositions(s)
    \/ ReopenReadsOrders
    \/ pc = "reopenSend" /\ \E l \in cyc.plan : Resend(l)
    \/ cyc.plan = {} /\ Then("reopenSend", "reopen", {})
    \/ NextLoop("reopen", "override", {})

-----------------------------------------------------------------------------
(* Provider edits and deletions                                            *)

\* No journal yet, or nothing new in it.
NothingToConsume ==
    /\ pc = "override"
    /\ Len(journal) = 0 \/ offset = Len(journal)
    /\ pc' = "parse"
    /\ watching' = IF watching = -1 THEN Len(journal) ELSE watching
    /\ UNCHANGED <<broker, clock, provider, disk, failed, cyc, faults, applied, abandoned>>

AnchorAtEnd ==
    /\ pc = "override"
    /\ Len(journal) > 0 /\ offset = -1
    /\ offset' = Len(journal)
    /\ pc' = "parse"
    /\ watching' = IF watching = -1 THEN Len(journal) ELSE watching
    /\ UNCHANGED <<broker, clock, provider, registry, failed, cyc, faults, applied, abandoned>>

\* Faulty: the offset is saved before the records are applied.
FaultyReadRecords ==
    /\ pc = "override"
    /\ offset >= 0 /\ offset < Len(journal)
    /\ pc' = "record" /\ offset' = Len(journal)
    /\ cyc' = [cyc EXCEPT !.next = offset + 1, !.upto = Len(journal)]
    /\ UNCHANGED <<broker, clock, provider, registry, failed, faults, history>>

ReadRecords ==
    /\ pc = "override"
    /\ offset >= 0 /\ offset < Len(journal)
    /\ pc' = "record"
    /\ cyc' = [cyc EXCEPT !.next = offset + 1, !.upto = Len(journal)]
    /\ watching' = IF watching = -1 THEN offset ELSE watching
    /\ UNCHANGED <<broker, clock, provider, disk, failed, faults, applied, abandoned>>

\* flatten_signal: the orders first, then the positions it finds after that.
FlattenOrders ==
    /\ pc = "record" /\ cyc.next <= cyc.upto
    /\ LET s == journal[cyc.next].signal
       IN cyc' = [cyc EXCEPT !.cur = s, !.work = Ticket(Of(orders, s))]
    /\ pc' = "flattenOrders"
    /\ UNCHANGED <<broker, clock, provider, disk, failed, faults, history>>

ApplyRecord ==
    /\ pc = "flattenPositions" /\ cyc.work = {}
    /\ registry' = [registry EXCEPT ![cyc.cur] = 0]
    /\ LET action == journal[cyc.next].action
       IN cyc' = [cyc EXCEPT !.next = @ + 1,
                     !.force = IF action = "amend" THEN @ \cup {cyc.cur} ELSE @,
                     !.revoked = IF action = "revoke" THEN @ \cup {cyc.cur} ELSE @]
    /\ applied' = applied \cup {cyc.next}
    /\ pc' = "record"
    /\ UNCHANGED <<broker, clock, provider, offset, failed, faults, watching, abandoned>>

WriteOffset ==
    /\ pc = "record" /\ cyc.next > cyc.upto
    /\ offset' = cyc.upto
    /\ pc' = "parse"
    /\ UNCHANGED <<broker, clock, provider, registry, failed, cyc, faults, history>>

\* What is closed is what is open once the orders are gone.  Faulty: only the orders go.
FaultyFlattenPositions == Then("flattenOrders", "flattenPositions", {})
FlattenPositions == Then("flattenOrders", "flattenPositions", Ticket(Of(positions, cyc.cur)))

ConsumeSignalOverrides ==
    \/ NothingToConsume \/ AnchorAtEnd \/ ReadRecords
    \/ FlattenOrders \/ FlattenPositions \/ ApplyRecord
    \/ WriteOffset

-----------------------------------------------------------------------------
(* Candidates                                                              *)

ParseFeed ==
    /\ pc = "parse"
    /\ pc' = "candidates"
    /\ cyc' = [cyc EXCEPT !.parsed = feed,
                   !.todo = {s \in Signals \ cyc.revoked : feed[s] # 0 /\ registry[s] = 0}]
    /\ UNCHANGED <<broker, clock, provider, disk, failed, faults, history>>

Track(s) == registry' = [registry EXCEPT ![s] = cyc.parsed[s]]

\* Expired, played out, gated, guarded, still waiting, or not placeable at this tick;
\* a followed signal the replay holds open is tracked all the same when re-opening.
SkipCandidate(s) ==
    /\ pc = "candidates" /\ s \in cyc.todo
    /\ \/ cyc' = [cyc EXCEPT !.todo = @ \ {s}] /\ UNCHANGED registry
       \/ /\ ReopenMissing /\ window[s] = "open" /\ s \notin touched
          /\ cyc' = [cyc EXCEPT !.todo = @ \ {s}, !.spared = @ \cup {s}]
          /\ Track(s)
    /\ UNCHANGED <<broker, clock, provider, offset, failed, pc, faults, history>>

\* The guards of place_signal, up to the history gate.
Placeable(s) ==
    /\ window[s] = "open" /\ s \notin touched
    /\ TrailingOpen \/ s \notin failed
    /\ Footprints(s) = {}

\* Any deal blocks a LIMIT ladder, a close by the system a trailing one.  Only the
\* LIMIT path knows the amended signals; plan.force_replace is set nowhere.
AlreadyTraded(s) == IF TrailingOpen THEN "system" \in deals[s] ELSE deals[s] # {}
FaultyForceReplaced(s) == FALSE
ForceReplaced(s) == ~TrailingOpen /\ s \in cyc.force

PlaceSignal(s) ==
    /\ pc = "candidates" /\ s \in cyc.todo
    /\ Placeable(s) /\ (AlreadyTraded(s) => ForceReplaced(s))
    /\ pc' = "send"
    /\ \E legs \in SUBSET Legs \ {{}}, held \in BOOLEAN :
          /\ ReopenMissing \/ (legs = Legs /\ ~held)
          /\ cyc' = [cyc EXCEPT !.todo = @ \ {s}, !.cur = s, !.plan = legs, !.sent = {},
                                !.kept = {}, !.stuck = FALSE, !.mirror = held]
    /\ UNCHANGED <<broker, clock, provider, disk, failed, faults, history>>

RefuseTraded(s) ==
    /\ pc = "candidates" /\ s \in cyc.todo
    /\ Placeable(s) /\ AlreadyTraded(s) /\ ~ForceReplaced(s)
    /\ cyc' = [cyc EXCEPT !.todo = @ \ {s}, !.refused = @ \cup {s}]
    /\ UNCHANGED <<broker, clock, provider, disk, failed, pc, faults, history>>

SendLeg(l) ==
    /\ pc = "send" /\ l \in cyc.plan /\ Free # {}
    /\ LET x == New(cyc.cur, l, cyc.parsed[cyc.cur])
       IN \/ Rest(x) /\ cyc' = [cyc EXCEPT !.plan = @ \ {l}, !.sent = @ \cup {x.ticket}]
          \/ /\ TrailingOpen \/ ReopenMissing
             /\ \/ AtMarket(x) /\ cyc' = [cyc EXCEPT !.plan = @ \ {l}, !.kept = @ \cup {x.ticket}]
                \/ cyc' = [cyc EXCEPT !.plan = @ \ {l}] /\ UNCHANGED <<broker, faults>>
    /\ UNCHANGED <<clock, provider, disk, failed, pc, history>>

\* One refusal undoes the ladder; a LIMIT signal is not tried again by this process.
RejectLeg ==
    /\ pc = "send" /\ cyc.plan # {}
    /\ Fault("reject")
    /\ pc' = "rollback"
    /\ cyc' = [cyc EXCEPT !.plan = {}, !.work = cyc.sent]
    /\ failed' = IF TrailingOpen THEN failed ELSE failed \cup {cyc.cur}
    /\ UNCHANGED <<broker, clock, provider, disk, history>>

\* log.placed: a LIMIT rollback that failed leaves it counting what was sent.
\* Faulty: as if every rollback succeeded.
FaultyPlaced == IF pc = "send" THEN cyc.sent \cup cyc.kept ELSE cyc.kept
Placed == IF pc = "send" \/ (cyc.stuck /\ ~TrailingOpen) THEN cyc.sent \cup cyc.kept
          ELSE cyc.kept

FinishPlacing ==
    /\ pc \in {"send", "rollback"} /\ cyc.plan = {} /\ cyc.work = {}
    /\ pc' = "candidates"
    /\ IF Placed # {} \/ cyc.mirror THEN Track(cyc.cur) ELSE UNCHANGED registry
    /\ cyc' = [cyc EXCEPT !.sent = {}, !.kept = {}, !.stuck = FALSE, !.mirror = FALSE,
                  !.spared = IF Placed = {} /\ cyc.mirror THEN @ \cup {cyc.cur} ELSE @]
    /\ UNCHANGED <<broker, clock, provider, offset, failed, faults, history>>

Candidates ==
    \/ ParseFeed
    \/ \E s \in cyc.todo : SkipCandidate(s) \/ PlaceSignal(s) \/ RefuseTraded(s)
    \/ \E l \in cyc.plan : SendLeg(l)
    \/ RejectLeg
    \/ FinishPlacing
    \/ NextLoop("candidates", "prune", {})

-----------------------------------------------------------------------------
(* Pruning                                                                 *)

Alive(book) == {s \in Signals : Of(book, s) # {}}

\* all_alive_magics reads the orders, then the positions.
PruneReadsOrders ==
    /\ pc = "prune"
    /\ pc' = "pruneRead"
    /\ \/ /\ cyc' = [cyc EXCEPT !.spared = @ \cup Alive(orders)] /\ UNCHANGED faults
          /\ UNCHANGED abandoned
       \/ /\ orders # {} /\ Fault("query") /\ UNCHANGED cyc
          /\ abandoned' = abandoned \cup Alive(orders)
    /\ UNCHANGED <<broker, clock, provider, disk, failed, applied, watching>>

Mirrored == {s \in Signals : ReopenMissing /\ \E l \in Legs : cyc.verdict[s][l] = "OPEN"}

PruneReadsPositions ==
    /\ pc = "pruneRead"
    /\ pc' = "idle" /\ cyc' = Fresh
    /\ \E seen \in {Alive(positions), {}} :
          /\ IF seen = Alive(positions) THEN UNCHANGED <<faults, abandoned>>
             ELSE Fault("query") /\ abandoned' = abandoned \cup Alive(positions)
          /\ registry' = [s \in Signals |->
                            IF s \in cyc.spared \cup seen \cup Mirrored THEN registry[s] ELSE 0]
    /\ UNCHANGED <<broker, clock, provider, offset, failed, applied, watching>>

Prune == PruneReadsOrders \/ PruneReadsPositions

-----------------------------------------------------------------------------
(* The process                                                             *)

\* Killed and started again: only the disk and the broker remember.
Crash ==
    /\ pc # "idle" /\ Fault("crash")
    /\ pc' = "idle" /\ cyc' = Fresh /\ failed' = {}
    /\ abandoned' = abandoned \cup {s \in Signals : registry[s] = 0 /\ Footprints(s) # {}}
    /\ UNCHANGED <<broker, clock, provider, disk, applied, watching>>

Init ==
    /\ orders = {} /\ positions = {} /\ recent = {} /\ deals = [s \in Signals |-> {}]
    /\ window = [s \in Signals |-> "waiting"] /\ touched = {}
    /\ channel = [s \in Signals |-> 1] /\ feed = channel
    /\ journal \in [1..Backlog -> [action : {"amend"}, signal : Signals]]
    /\ registry = [s \in Signals |-> 0] /\ offset = -1 /\ failed = {}
    /\ pc = "idle" /\ cyc = Fresh /\ faults = 0
    /\ applied = {} /\ watching = -1 /\ abandoned = {}

Executor ==
    \/ StartCycle \/ ManagePosition
    \/ \E t \in cyc.work : CancelTicket(t) \/ ClosePosition(t)
    \/ CancelSignalPendings \/ ReplaceMissingEntries \/ ReopenMissingPositions
    \/ ConsumeSignalOverrides \/ Candidates \/ Prune

Next == Executor \/ World \/ Crash

\* The watch loop runs cycle after cycle; nothing is assumed of the rest.
Spec == Init /\ [][Next]_vars /\ WF_vars(Executor)

-----------------------------------------------------------------------------
(* Properties                                                              *)

TypeOK ==
    /\ orders \subseteq Footprint /\ positions \subseteq Footprint
    /\ deals \in [Signals -> SUBSET {"in", "system", "manual"}]
    /\ recent \subseteq Signals \X Legs
    /\ window \in [Signals -> {"waiting", "open", "expired"}] /\ touched \subseteq Signals
    /\ channel \in [Signals -> 0..MaxLevel] /\ feed \in [Signals -> 0..MaxLevel]
    /\ journal \in Seq(Record) /\ Len(journal) <= MaxRecords
    /\ registry \in [Signals -> 0..MaxLevel] /\ offset \in -1..MaxRecords
    /\ failed \subseteq Signals /\ faults \in 0..MaxFaults
    /\ cyc.verdict \in [Signals -> [Legs -> Verdict]]
    /\ applied \subseteq 1..MaxRecords /\ watching \in -1..MaxRecords
    /\ abandoned \subseteq Signals

\* A leg of a signal is live at most once, as an order or as a position, however
\* fills fall between the executor's looks at the broker.
OneFootprintPerLeg ==
    \A s \in Signals : \A x, y \in Footprints(s) : x.leg = y.leg => x = y

\* Between cycles whatever is live is tracked, unless a refused close, a crash or a
\* failed query let it go: no signal is pruned because its order just filled.
LiveMeansTracked ==
    pc = "idle" => \A s \in Signals : Footprints(s) # {} => s \in Tracked \cup abandoned

\* No record journalled after the executor began to watch is stepped over.
NoRecordSkipped == \A i \in 1..offset : i > watching => i \in applied

\* With every record consumed, what is live is priced from the provider's last edition.
FollowsCorrectedFeed ==
    pc = "idle" /\ offset = Len(journal) =>
        \A x \in orders \cup positions : x.level = channel[x.signal] \/ x.signal \in abandoned

\* The close an amendment made deliberately does not keep the signal out.
AmendmentNotRefused == cyc.force \cap cyc.refused = {}

\* An expired ladder does not stay in the market: the orders of a tracked signal whose
\* window has run out are pulled in the end, over rejections, crashes and failed queries.
ExpiredOrdersPulled ==
    \A s \in Signals : (window[s] = "expired" /\ s \in Tracked) ~> (Of(orders, s) = {} \/ s \in abandoned)

=============================================================================
