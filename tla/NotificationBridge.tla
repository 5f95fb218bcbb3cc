--------------------------- MODULE NotificationBridge ---------------------------
(***************************************************************************)
(* How the user learns what the executor did: `auto` appends events to     *)
(* notifications.jsonl (notifications.py, rotating_jsonl.py, the closures  *)
(* of closure_report.py and _handle_closures), and the listener tails the  *)
(* file by byte offset and forwards every text to Saved Messages.          *)
(*                                                                         *)
(* A file is a sequence of units (bytes); a line is SizeOf(text) of them,  *)
(* the last one its newline, so a torn line, an offset inside a line and a *)
(* file that shrank are states like any other.  The wording of a text is   *)
(* left out: a text is its kind and what it names.                         *)
(***************************************************************************)
EXTENDS Integers, Sequences, FiniteSets, SequencesExt

CONSTANTS Legs,          \* the positions of one tracked signal
          SizeOf(_),     \* the length of the line that carries a text
          MaxBytes,      \* the file is rotated before it grows past this
          MaxNotices,    \* bound: lock notices sent
          Hazards,       \* of "tear", "crash", "history", "send"
          MaxFaults      \* bound: how many of them happen

ASSUME BytesAssumption == MaxBytes \in Nat \ {0}
ASSUME BoundsAssumption == MaxNotices \in Nat /\ MaxFaults \in Nat /\ IsFiniteSet(Legs)

VARIABLES leg,           \* per leg: "none", "live" or "closed" at the broker
          tracked,       \* positions.json holds the signal
          ledger,        \* closed_deals.json: the deals already reported
          epc, cycle,    \* where the executor's cycle stands, and its local state
          file, backup,  \* notifications.jsonl and its .1
          written,       \* history: the texts emitted, in order
          offset,        \* the offset sidecar, -1 before it exists
          fpc, tail,     \* where the forwarder stands, and its local state
          delivered,     \* history: the emissions that reached the user
          failed,        \* history: those whose send failed and was only logged
          outdated,      \* history: which byte counts are of a file rotated away since
          notices, faults

engine    == <<leg, tracked, ledger, epc, cycle, notices>>
files     == <<file, backup, written, outdated>>
forwarder == <<offset, fpc, tail, delivered, failed>>
vars == <<leg, tracked, ledger, epc, cycle, file, backup, written, outdated, offset, fpc, tail,
          delivered, failed, notices, faults>>

Fault(kind) == kind \in Hazards /\ faults < MaxFaults /\ faults' = faults + 1

-----------------------------------------------------------------------------
(* Appending and rotating                                                  *)

Line(n, text) == [k \in 1..SizeOf(text) |-> [n |-> n, text |-> text, end |-> k = SizeOf(text)]]

\* append_jsonl_line: stat, rename and append change nothing that the reader could
\* take for something else, so they are one step.
Put(bytes) ==
    IF file # <<>> /\ Len(file) + Len(bytes) > MaxBytes
    THEN backup' = file /\ file' = bytes /\ outdated' = {"saved", "read"}
    ELSE file' = file \o bytes /\ UNCHANGED <<backup, outdated>>

Emit(text) ==
    /\ written' = Append(written, text)
    /\ Put(Line(Len(written) + 1, text))

-----------------------------------------------------------------------------
(* The executor                                                            *)

NoCycle == [tracked |-> FALSE, alive |-> FALSE, todo |-> {}, newly |-> {}]

StartCycle ==
    /\ epc = "idle"
    /\ epc' = "work"
    /\ cycle' = [NoCycle EXCEPT !.tracked = tracked]
    /\ UNCHANGED <<leg, tracked, ledger, notices, files, forwarder, faults>>

\* A cycle that moves stops reports the live legs it tried, whatever came of it.
LockNotice ==
    /\ epc = "work" /\ cycle.tracked /\ notices < MaxNotices
    /\ LET due == {l \in Legs : leg[l] = "live"}
       IN  due # {} /\ Emit([kind |-> "lock", legs |-> due])
    /\ notices' = notices + 1
    /\ UNCHANGED <<leg, tracked, ledger, epc, cycle, forwarder, faults>>

Place ==
    /\ epc = "work" /\ ~tracked /\ \A l \in Legs : leg[l] = "none"
    /\ leg' = [l \in Legs |-> "live"]
    /\ tracked' = TRUE
    /\ UNCHANGED <<ledger, epc, cycle, notices, files, forwarder, faults>>

BrokerCloses(l) ==
    /\ leg[l] = "live"
    /\ leg' = [leg EXCEPT ![l] = "closed"]
    /\ UNCHANGED <<tracked, ledger, epc, cycle, notices, files, forwarder, faults>>

\* all_alive_magics, before the deal history is read.
Look ==
    /\ epc = "work"
    /\ epc' = "history"
    /\ cycle' = [cycle EXCEPT !.alive = \E l \in Legs : leg[l] = "live"]
    /\ UNCHANGED <<leg, tracked, ledger, notices, files, forwarder, faults>>

ClosedLegs == {l \in Legs : leg[l] = "closed"}

\* Only signals tracked since the start of the cycle are reported; a query that fails
\* is taken for an empty history.
ReadHistory ==
    /\ epc = "history"
    /\ epc' = "announce"
    /\ \/ /\ cycle' = [cycle EXCEPT !.todo = IF cycle.tracked THEN ClosedLegs \ ledger ELSE {}]
          /\ UNCHANGED faults
       \/ Fault("history") /\ cycle' = [cycle EXCEPT !.todo = {}]
    /\ UNCHANGED <<leg, tracked, ledger, notices, files, forwarder>>

Announce(l) ==
    /\ epc = "announce" /\ l \in cycle.todo
    /\ Emit([kind |-> "closed", legs |-> {l}])
    /\ cycle' = [cycle EXCEPT !.todo = @ \ {l}, !.newly = @ \cup {l}]
    /\ UNCHANGED <<leg, tracked, ledger, epc, notices, forwarder, faults>>

\* The ledger is saved once, after all of a cycle's announcements.
SaveLedger ==
    /\ epc = "announce" /\ cycle.todo = {}
    /\ epc' = "closures"
    /\ ledger' = ledger \cup cycle.newly
    /\ UNCHANGED <<leg, tracked, cycle, notices, files, forwarder, faults>>

Gone == cycle.tracked /\ ~cycle.alive

\* _handle_closures and registry.prune.
HandleClosures ==
    /\ epc = "closures"
    /\ epc' = "idle" /\ cycle' = NoCycle
    /\ tracked' = (tracked /\ cycle.alive)
    /\ IF Gone THEN Emit([kind |-> "summary", legs |-> Legs]) ELSE UNCHANGED files
    /\ UNCHANGED <<leg, ledger, notices, forwarder, faults>>

\* Killed between two steps, or while a line is going out: its head stays in the file.
EngineCrash ==
    /\ epc # "idle"
    /\ \/ Fault("crash") /\ UNCHANGED files
       \/ /\ epc = "announce" /\ Fault("tear")
          /\ \E l \in cycle.todo :
                LET text == [kind |-> "closed", legs |-> {l}]
                IN  /\ SizeOf(text) > 1
                    /\ Put(SubSeq(Line(Len(written) + 1, text), 1, SizeOf(text) - 1))
                    /\ written' = Append(written, text)
    /\ epc' = "idle" /\ cycle' = NoCycle
    /\ UNCHANGED <<leg, tracked, ledger, notices, forwarder>>

Executor ==
    \/ StartCycle \/ Place \/ Look \/ ReadHistory \/ SaveLedger \/ HandleClosures
    \/ \E l \in Legs : Announce(l)

-----------------------------------------------------------------------------
(* The forwarder                                                           *)

\* `last` is the emission of the last text handed to Telegram, which only a running
\* forwarder remembers.
Down == [at |-> 0, queue |-> <<>>, upto |-> 0, last |-> 0]

\* The first run ever starts at the end of the file.
StartForwarder ==
    /\ fpc = "down"
    /\ fpc' = "poll"
    /\ offset' = IF offset < 0 THEN Len(file) ELSE offset
    /\ outdated' = IF offset < 0 THEN {} ELSE outdated
    /\ tail' = [Down EXCEPT !.at = offset']
    /\ UNCHANGED <<engine, file, backup, written, delivered, failed, faults>>

\* The complete lines after `at`: where each ends, and whether it is one line and whole.
Ends(at) == {i \in (at + 1)..Len(file) : file[i].end}
Intact(at, i) ==
    LET line  == Line(file[i].n, file[i].text)
        first == i - Len(line) + 1
    IN  /\ first > at /\ SubSeq(file, first, i) = line
        /\ first = at + 1 \/ file[first - 1].end

\* A file that shrank was rotated: start over.
From == IF tail.at > Len(file) THEN 0 ELSE tail.at

Batch(upto) ==
    LET whole == SetToSortSeq({i \in Ends(From) : Intact(From, i)}, <)
    IN  /\ fpc = "poll" /\ Len(file) # tail.at
        /\ fpc' = "send"
        /\ tail' = [tail EXCEPT !.queue = [j \in DOMAIN whole |-> file[whole[j]].n],
                                !.upto = upto]
        /\ outdated' = outdated \ {"read"}
        /\ UNCHANGED <<engine, file, backup, written, delivered, failed, faults>>

LastNewline == IF Ends(From) = {} THEN From ELSE Max(Ends(From))

FaultyReadAndSave ==   \* the offset goes to disk before the batch is sent
    Batch(LastNewline) /\ offset' = LastNewline

\* A rotation between the stat and the read leaves nothing to read until the next
\* poll, so the two are one step.
ReadEvents == Batch(LastNewline) /\ UNCHANGED offset

\* One event of the batch.  A text equal to the one before is not sent again, even if that
\* one was lost; a send that fails is logged, and the event is done with all the same.
Pending == fpc = "send" /\ tail.queue # <<>>
Event == Head(tail.queue)
Repeats == tail.last # 0 /\ written[tail.last] = written[Event]
HandOver(last) ==
    /\ tail' = [tail EXCEPT !.queue = Tail(@), !.last = last]
    /\ UNCHANGED <<engine, files, offset, fpc>>
Collapse ==
    /\ Pending /\ Repeats /\ HandOver(tail.last)
    /\ delivered' = delivered \cup {n \in {Event} : tail.last \in delivered}
    /\ failed' = failed \cup {n \in {Event} : tail.last \notin delivered}
    /\ UNCHANGED faults
Send ==
    /\ Pending /\ ~Repeats /\ HandOver(Event)
    /\ delivered' = delivered \cup {Event}
    /\ UNCHANGED <<failed, faults>>
SendFails ==
    /\ Pending /\ ~Repeats /\ HandOver(Event) /\ Fault("send")
    /\ failed' = failed \cup {Event}
    /\ UNCHANGED delivered
SendNext == Collapse \/ Send \/ SendFails

\* Persisted only after the batch is through, and only when it moved.
SaveOffset ==
    /\ fpc = "send" /\ tail.queue = <<>>
    /\ fpc' = "poll"
    /\ tail' = [tail EXCEPT !.at = tail.upto]
    /\ offset' = tail.upto
    /\ outdated' = IF "read" \in outdated THEN outdated ELSE {}
    /\ UNCHANGED <<engine, file, backup, written, delivered, failed, faults>>

ForwarderCrash ==
    /\ fpc # "down" /\ Fault("crash")
    /\ fpc' = "down" /\ tail' = Down
    /\ UNCHANGED <<engine, files, offset, delivered, failed>>

Forwarder == StartForwarder \/ ReadEvents \/ SendNext \/ SaveOffset

-----------------------------------------------------------------------------

\* Emissions: a notice each, a closure and a summary per leg and life of the executor.
MaxEmissions == MaxNotices + (MaxFaults + 1) * (Cardinality(Legs) + 1)

Init ==
    /\ leg = [l \in Legs |-> "none"] /\ tracked = FALSE /\ ledger = {}
    /\ epc = "idle" /\ cycle = NoCycle
    /\ file = <<>> /\ backup = <<>> /\ written = <<>>
    /\ offset = -1 /\ fpc = "down" /\ tail = Down
    /\ delivered = {} /\ failed = {} /\ outdated = {}
    /\ notices = 0 /\ faults = 0

Next ==
    \/ Executor \/ EngineCrash
    \/ LockNotice
    \/ \E l \in Legs : BrokerCloses(l)
    \/ Forwarder \/ ForwarderCrash

\* Both loops keep running and are started again after a crash.
Spec == Init /\ [][Next]_vars /\ WF_vars(Executor) /\ WF_vars(Forwarder)

-----------------------------------------------------------------------------
(* Properties                                                              *)

\* Emission n is a whole line of the file that a forwarder started from disk has yet to
\* reach, and the saved offset is one of this very file.
Ahead(n) ==
    /\ offset >= 0 /\ outdated = {}
    /\ \E i \in Ends(offset) : Intact(offset, i) /\ file[i].n = n

\* What lies ahead of the saved offset is delivered in the end, over crashes of both sides,
\* torn lines and lines re-read: only a send that failed, or a rotation of the file before
\* the offset of its batch was saved, can cost a line.
AnnouncedIsForwarded ==
    \A n \in 1..MaxEmissions : Ahead(n) ~> (n \in delivered \cup failed \/ outdated # {})

\* listener.py on the forwarder: "at-least-once delivery is the right bias for monitoring (a
\* crash re-sends, never drops)", and a failure "is logged and retried".  A send that fails
\* is logged and the line is dropped.
AtLeastOnce ==
    \A n \in 1..MaxEmissions : Ahead(n) ~> (n \in delivered \/ outdated # {})
=============================================================================
