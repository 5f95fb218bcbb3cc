--------------------------- MODULE AutoCycle_proofs ---------------------------
(***************************************************************************)
(* Theorems of AutoCycle, in two parts.  The journal: with one that        *)
(* existed when the executor began to watch no record is stepped over, and *)
(* a LIMIT strategy never refuses a signal for the close that its own      *)
(* amendment made.  The broker's book: a leg of a signal is live at most   *)
(* once; between cycles what is live is tracked; and with every record     *)
(* consumed what is live is priced from the provider's last edition.  The  *)
(* three of the book share an invariant on what each stage of the cycle    *)
(* knows of the book it read earlier (Sound).                              *)
(***************************************************************************)
EXTENDS AutoCycle, TLAPS

Batch == {"record", "flattenOrders", "flattenPositions"}
Early == Batch \cup {"idle", "manage", "expire", "catchUp", "timeExit", "timeCancel",
                     "terminal", "terminalCancel", "replace", "replaceRead", "replaceSend",
                     "reopen", "reopenRead", "reopenSend", "override"}

\* The fields of the cycle that the two arguments are about.
Traced == {"next", "upto", "force", "refused"}
Kept(f) == cyc'[f] = cyc[f]

Applied(n) == \A i \in Int : 1 <= i /\ i < n /\ i > watching => i \in applied

\* The offset, and within a batch the record at hand, divide the journal: what lies
\* before it was applied, or was there before the executor watched.
Journalled ==
    /\ journal \in Seq(Record) /\ Len(journal) > 0
    /\ offset \in Int /\ offset >= -1 /\ watching \in Int
    /\ offset = -1 <=> watching = -1
    /\ Applied(offset + 1)
    /\ pc \in Batch => cyc.next \in Int /\ cyc.upto \in Nat /\ offset >= 0 /\ Applied(cyc.next)

\* Nothing is refused before the records are consumed, and no forced signal after.
Forced == /\ pc \in Early => cyc.refused = {}
          /\ cyc.force \cap cyc.refused = {}

InCycle == Traced \subseteq DOMAIN cyc
InCycleNext == Traced \subseteq DOMAIN cyc'

\* Steps that leave the journal's bookkeeping alone, and the two sets.
JournalAside ==
    /\ UNCHANGED <<journal, offset, watching, applied>>
    /\ pc' \in Batch => pc \in Batch /\ Kept("next") /\ Kept("upto")
ForceAside ==
    \/ cyc'.refused = {}
    \/ Kept("force") /\ Kept("refused") /\ (pc' \in Early => pc \in Early)
Aside == InCycleNext /\ JournalAside /\ ForceAside

-----------------------------------------------------------------------------
(* The steps every loop is made of                                         *)

Onward(stage, next) == (next \in Batch => stage \in Batch) /\ (next \in Early => stage \in Early)

\* Taking a signal touches none of the fields above.
LEMMA TakeAside ==
    ASSUME InCycle, NEW s, NEW stage, NEW next, NEW work, Onward(stage, next),
           Take(s, stage, next, work)
    PROVE  Aside
BY DEF Take, Aside, JournalAside, ForceAside, InCycle, InCycleNext, Traced, Kept, Onward,
       broker, clock, provider, disk, history

\* Nor does going on within the signal,
LEMMA ThenAside ==
    ASSUME InCycle, NEW stage, NEW next, NEW work, Onward(stage, next),
           Then(stage, next, work)
    PROVE  Aside
BY DEF Then, Aside, JournalAside, ForceAside, InCycle, InCycleNext, Traced, Kept, Onward,
       broker, clock, provider, disk, history

\* nor going on to the next loop.
LEMMA NextLoopAside ==
    ASSUME InCycle, NEW stage, NEW next, NEW todo, Onward(stage, next),
           NextLoop(stage, next, todo)
    PROVE  Aside
BY DEF NextLoop, Aside, JournalAside, ForceAside, InCycle, InCycleNext, Traced, Kept, Onward,
       broker, clock, provider, disk, history

\* Every pair of stages the loops join is in order.
LEMMA StagesOnward ==
    /\ Onward("manage", "expire") /\ Onward("expire", "catchUp") /\ Onward("catchUp", "manage")
    /\ Onward("catchUp", "timeExit") /\ Onward("timeExit", "timeCancel")
    /\ Onward("timeCancel", "manage") /\ Onward("manage", "terminal")
    /\ Onward("terminal", "terminalCancel") /\ Onward("terminalCancel", "terminal")
    /\ Onward("terminal", "replace") /\ Onward("replaceSend", "replace")
    /\ Onward("replace", "reopen") /\ Onward("reopenSend", "reopen")
    /\ Onward("reopen", "override") /\ Onward("flattenOrders", "flattenPositions")
    /\ Onward("candidates", "prune")
BY DEF Onward, Early, Batch

-----------------------------------------------------------------------------
(* Managing, replacing, re-opening                                         *)

LEMMA StartAside == ASSUME StartCycle PROVE Aside
BY DEF StartCycle, Fresh, Aside, JournalAside, ForceAside, InCycleNext, Traced, Early, Batch,
       broker, clock, provider, disk, history

LEMMA CancelAside == ASSUME InCycle, NEW t, CancelTicket(t) PROVE Aside
BY DEF CancelTicket, LetGo, Aside, JournalAside, ForceAside, InCycle, InCycleNext, Traced, Kept,
       clock, provider, disk, history

LEMMA CloseAside == ASSUME InCycle, NEW t, ClosePosition(t) PROVE Aside
BY DEF ClosePosition, LetGo, Aside, JournalAside, ForceAside, InCycle, InCycleNext, Traced, Kept,
       clock, provider, disk, history

LEMMA ManageAside == ASSUME InCycle, ManagePosition PROVE Aside
BY TakeAside, ThenAside, NextLoopAside, StagesOnward DEF ManagePosition

LEMMA TerminalAside == ASSUME InCycle, CancelSignalPendings PROVE Aside
BY TakeAside, ThenAside, NextLoopAside, StagesOnward DEF CancelSignalPendings

LEMMA ReplaceAside == ASSUME InCycle, ReplaceMissingEntries PROVE Aside
<1>1. ASSUME NEW s \in cyc.todo, ReplaceReadsOrders(s) PROVE Aside
  BY <1>1 DEF ReplaceReadsOrders, Aside, JournalAside, ForceAside, InCycle, InCycleNext, Traced,
     Kept, Early, Batch, broker, clock, provider, disk, history
<1>2. ASSUME ReplaceReadsPositions PROVE Aside
  BY <1>2 DEF ReplaceReadsPositions, Aside, JournalAside, ForceAside, InCycle, InCycleNext,
     Traced, Kept, Early, Batch, broker, clock, provider, disk, history
<1>3. ASSUME NEW l \in cyc.plan, Resend(l) PROVE Aside
  BY <1>3 DEF Resend, Aside, JournalAside, ForceAside, InCycle, InCycleNext, Traced, Kept,
     clock, provider, disk, history
<1> QED
  BY <1>1, <1>2, <1>3, ThenAside, NextLoopAside, StagesOnward DEF ReplaceMissingEntries

LEMMA ReopenAside == ASSUME InCycle, ReopenMissingPositions PROVE Aside
<1>1. ASSUME NEW s \in cyc.todo, ReopenReadsPositions(s) PROVE Aside
  BY <1>1 DEF ReopenReadsPositions, Aside, JournalAside, ForceAside, InCycle, InCycleNext,
     Traced, Kept, Early, Batch, broker, clock, provider, disk, history
<1>2. ASSUME ReopenReadsOrders PROVE Aside
  BY <1>2 DEF ReopenReadsOrders, Aside, JournalAside, ForceAside, InCycle, InCycleNext,
     Traced, Kept, Early, Batch, broker, clock, provider, disk, history
<1>3. ASSUME NEW l \in cyc.plan, Resend(l) PROVE Aside
  BY <1>3 DEF Resend, Aside, JournalAside, ForceAside, InCycle, InCycleNext, Traced, Kept,
     clock, provider, disk, history
<1> QED
  BY <1>1, <1>2, <1>3, ThenAside, NextLoopAside, StagesOnward DEF ReopenMissingPositions

-----------------------------------------------------------------------------
(* Candidates and pruning                                                  *)

\* All of them but a refusal leave the two sets alone.
LEMMA CandidatesAside ==
    ASSUME InCycle, Candidates
    PROVE  Aside \/ \E s \in cyc.todo : RefuseTraded(s)
<1>1. ASSUME ParseFeed PROVE Aside
  BY <1>1 DEF ParseFeed, Aside, JournalAside, ForceAside, InCycle, InCycleNext, Traced, Kept,
     Early, Batch, broker, clock, provider, disk, history
<1>2. ASSUME NEW s \in cyc.todo, SkipCandidate(s) PROVE Aside
  BY <1>2 DEF SkipCandidate, Aside, JournalAside, ForceAside, InCycle, InCycleNext, Traced, Kept,
     broker, clock, provider, history
<1>3. ASSUME NEW s \in cyc.todo, PlaceSignal(s) PROVE Aside
  BY <1>3 DEF PlaceSignal, Aside, JournalAside, ForceAside, InCycle, InCycleNext, Traced, Kept,
     Early, Batch, broker, clock, provider, disk, history
<1>4. ASSUME NEW l \in cyc.plan, SendLeg(l) PROVE Aside
  BY <1>4 DEF SendLeg, Aside, JournalAside, ForceAside, InCycle, InCycleNext, Traced, Kept,
     clock, provider, disk, history
<1>5. ASSUME RejectLeg PROVE Aside
  BY <1>5 DEF RejectLeg, Aside, JournalAside, ForceAside, InCycle, InCycleNext, Traced, Kept,
     Early, Batch, broker, clock, provider, disk, history
<1>6. ASSUME FinishPlacing PROVE Aside
  BY <1>6 DEF FinishPlacing, Aside, JournalAside, ForceAside, InCycle, InCycleNext, Traced, Kept,
     Early, Batch, broker, clock, provider, history
<1> QED
  BY <1>1, <1>2, <1>3, <1>4, <1>5, <1>6, NextLoopAside, StagesOnward DEF Candidates

LEMMA PruneAside == ASSUME InCycle, Prune PROVE Aside
<1>1. ASSUME PruneReadsOrders PROVE Aside
  BY <1>1 DEF PruneReadsOrders, Aside, JournalAside, ForceAside, InCycle, InCycleNext, Traced,
     Kept, Early, Batch, broker, clock, provider, disk
<1>2. ASSUME PruneReadsPositions PROVE Aside
  BY <1>2 DEF PruneReadsPositions, Fresh, Aside, JournalAside, ForceAside, InCycleNext, Traced,
     Early, Batch, broker, clock, provider
<1> QED BY <1>1, <1>2 DEF Prune

-----------------------------------------------------------------------------
(* What a step aside preserves                                             *)

LEMMA AsideJournalled == ASSUME Journalled, JournalAside PROVE Journalled'
BY DEF Journalled, JournalAside, Applied, Kept

LEMMA AsideForced == ASSUME Forced, ForceAside PROVE Forced'
BY DEF Forced, ForceAside, Kept

-----------------------------------------------------------------------------
(* Consuming the journal                                                   *)

\* The flattening of one signal is no bookkeeping.
LEMMA FlattenAside == ASSUME InCycle, FlattenOrders \/ FlattenPositions PROVE Aside
<1>1. CASE FlattenOrders
  BY <1>1 DEF FlattenOrders, Aside, JournalAside, ForceAside, InCycle, InCycleNext, Traced, Kept,
     Early, Batch, broker, clock, provider, disk, history
<1>2. CASE FlattenPositions
  BY <1>2, ThenAside, StagesOnward DEF FlattenPositions
<1> QED BY <1>1, <1>2

\* A cycle with nothing new to read has looked at the journal all the same.
LEMMA NothingKeeps ==
    ASSUME InCycle, NothingToConsume
    PROVE  InCycleNext /\ ForceAside /\ (Journalled => Journalled')
<1>1. InCycleNext /\ ForceAside
  BY DEF NothingToConsume, InCycle, InCycleNext, Traced, ForceAside, Kept, Early, Batch
<1>2. ASSUME Journalled PROVE JournalAside
  <2>1. offset # -1
    BY <1>2 DEF Journalled, NothingToConsume
  <2> QED BY <1>2, <2>1 DEF JournalAside, Journalled, NothingToConsume, Batch, provider, disk
<1> QED BY <1>1, <1>2, AsideJournalled

\* The anchor: what is before it was there when the executor first looked.
LEMMA AnchorKeeps ==
    ASSUME InCycle, AnchorAtEnd
    PROVE  InCycleNext /\ ForceAside /\ (Journalled => Journalled')
<1>1. InCycleNext /\ ForceAside
  BY DEF AnchorAtEnd, InCycle, InCycleNext, Traced, ForceAside, Kept, Early, Batch
<1>2. ASSUME Journalled PROVE Journalled'
  <2>1. /\ watching' = Len(journal) /\ offset' = Len(journal) /\ Len(journal) \in Nat
        /\ UNCHANGED <<journal, applied>> /\ pc' \notin Batch
    BY <1>2 DEF Journalled, AnchorAtEnd, Batch, provider
  <2>2. Applied(offset + 1)'
    BY <2>1 DEF Applied
  <2> QED BY <1>2, <2>1, <2>2 DEF Journalled
<1> QED BY <1>1, <1>2

\* A batch begins behind the offset ...
LEMMA ReadKeeps ==
    ASSUME InCycle, ReadRecords
    PROVE  InCycleNext /\ ForceAside /\ (Journalled => Journalled')
<1>1. InCycleNext /\ ForceAside
  BY DEF ReadRecords, InCycle, InCycleNext, Traced, ForceAside, Kept, Early, Batch
<1>2. cyc'.next = offset + 1 /\ cyc'.upto = Len(journal) /\ UNCHANGED <<journal, offset, applied>>
  BY DEF ReadRecords, InCycle, Traced, provider, disk
<1>3. ASSUME Journalled PROVE Journalled'
  <2>1. offset >= 0 /\ offset \in Int /\ Len(journal) \in Nat
    BY <1>3 DEF Journalled, ReadRecords
  <2>2. watching' = watching
    BY <1>3, <2>1 DEF ReadRecords, Journalled
  <2> QED BY <1>2, <1>3, <2>1, <2>2 DEF Journalled, Applied
<1> QED BY <1>1, <1>3

\* ... each record extends what was applied by one ...
LEMMA ApplyKeepsJournal ==
    ASSUME InCycle, ApplyRecord
    PROVE  InCycleNext /\ (Journalled => Journalled') /\ (Forced => Forced')
<1>1. /\ cyc'.next = cyc.next + 1 /\ cyc'.upto = cyc.upto /\ cyc'.refused = cyc.refused
      /\ InCycleNext
  BY DEF ApplyRecord, InCycle, InCycleNext, Traced
<1>2. pc \in Batch /\ pc' \in Batch /\ pc \in Early
  BY DEF ApplyRecord, Early, Batch
<1>3. applied' = applied \cup {cyc.next} /\ UNCHANGED <<journal, offset, watching>>
  BY DEF ApplyRecord, provider
<1>4. Journalled => Journalled'
  BY <1>1, <1>2, <1>3 DEF Journalled, Applied
<1>5. Forced => Forced'
  BY <1>1, <1>2 DEF Forced
<1> QED BY <1>1, <1>4, <1>5

\* ... and the offset is written when the record at hand is past the last one read.
LEMMA WriteKeeps ==
    ASSUME InCycle, WriteOffset
    PROVE  InCycleNext /\ ForceAside /\ (Journalled => Journalled')
<1>1. InCycleNext /\ ForceAside
  BY DEF WriteOffset, InCycle, InCycleNext, Traced, ForceAside, Kept, Early, Batch
<1>2. /\ offset' = cyc.upto /\ cyc.next > cyc.upto /\ pc \in Batch /\ pc' \notin Batch
      /\ UNCHANGED <<journal, watching, applied>>
  BY DEF WriteOffset, Batch, provider, history
<1>3. Journalled => Journalled'
  BY <1>2 DEF Journalled, Applied
<1> QED BY <1>1, <1>3

-----------------------------------------------------------------------------
(* Every step                                                              *)

\* The broker, the clock and the provider: the journal only grows.
LEMMA WorldKeeps ==
    ASSUME InCycle, World
    PROVE  InCycleNext /\ ForceAside /\ (Journalled => Journalled')
<1>1. UNCHANGED <<offset, pc, cyc, watching, applied>>
  BY DEF World, Fill, HandCancel, StopOrTarget, HandClose, Cooldown, Tick, Touch, Edit, Delete,
     Publish, Regenerate, disk, history
<1>2. ASSUME journal \in Seq(Record), Len(journal) > 0
      PROVE  journal' \in Seq(Record) /\ Len(journal') > 0
  <2>1. ASSUME NEW s \in Signals, NEW edition, NEW action \in {"amend", "revoke"},
               Publish(s, edition, action)
        PROVE  journal' \in Seq(Record) /\ Len(journal') > 0
    <3>1. journal' = Append(journal, [action |-> action, signal |-> s])
      BY <2>1 DEF Publish
    <3>2. [action |-> action, signal |-> s] \in Record
      BY DEF Record
    <3> QED BY <1>2, <3>1, <3>2
  <2>2. UNCHANGED journal \/ \E s \in Signals : Edit(s) \/ Delete(s)
    BY DEF World, Fill, HandCancel, StopOrTarget, HandClose, Cooldown, Tick, Touch, Regenerate,
       provider
  <2> QED BY <1>2, <2>1, <2>2 DEF Edit, Delete
<1>3. Journalled => Journalled'
  BY <1>1, <1>2 DEF Journalled, Applied
<1> QED BY <1>1, <1>3 DEF InCycle, InCycleNext, ForceAside, Kept

LEMMA CrashAside == ASSUME Crash PROVE Aside
BY DEF Crash, Fresh, Aside, JournalAside, ForceAside, InCycleNext, Traced, Early, Batch,
   provider, disk

\* A LIMIT signal is refused only when it is not forced, and after the records.
LEMMA RefuseKeepsForced ==
    ASSUME InCycle, NEW s \in cyc.todo, RefuseTraded(s)
    PROVE  /\ InCycleNext /\ (Journalled => Journalled')
           /\ ~TrailingOpen /\ Forced => Forced'
<1>1. /\ cyc'.force = cyc.force /\ cyc'.refused = cyc.refused \cup {s} /\ InCycleNext
      /\ pc' = pc /\ pc \notin Early /\ pc \notin Batch
  BY DEF RefuseTraded, InCycle, InCycleNext, Traced, Early, Batch
<1>2. ~TrailingOpen => s \notin cyc.force
  BY DEF RefuseTraded, ForceReplaced
<1>3. JournalAside
  BY <1>1 DEF RefuseTraded, JournalAside, provider, disk, history
<1> QED BY <1>1, <1>2, <1>3, AsideJournalled DEF Forced

LEMMA StepKeepsJournal ==
    ASSUME InCycle, [Next]_vars
    PROVE  /\ InCycleNext /\ (Journalled => Journalled')
           /\ ~TrailingOpen /\ Forced => Forced'
<1> DEFINE Keeps == /\ InCycleNext /\ (Journalled => Journalled')
                    /\ ~TrailingOpen /\ Forced => Forced'
<1>1. ASSUME Aside PROVE Keeps
  BY <1>1, AsideJournalled, AsideForced DEF Aside
<1>2. ASSUME ConsumeSignalOverrides PROVE Keeps
  BY <1>1, <1>2, FlattenAside, NothingKeeps, AnchorKeeps, ReadKeeps, ApplyKeepsJournal, WriteKeeps,
     AsideForced DEF ConsumeSignalOverrides
<1>3. ASSUME Candidates PROVE Keeps
  BY <1>1, <1>3, CandidatesAside, RefuseKeepsForced
<1>4. CASE UNCHANGED vars
  BY <1>4 DEF vars, InCycle, InCycleNext, Journalled, Applied, Forced
<1>5. CASE Executor
  <2> HIDE DEF Keeps
  <2>1. Keeps
    BY <1>1, <1>2, <1>3, <1>5, StartAside, ManageAside, CancelAside, CloseAside, TerminalAside,
       ReplaceAside, ReopenAside, PruneAside DEF Executor
  <2> QED BY <2>1 DEF Keeps
<1>6. CASE World
  BY <1>6, WorldKeeps, AsideForced
<1> QED BY <1>1, <1>4, <1>5, <1>6, CrashAside DEF Next

-----------------------------------------------------------------------------
(* The theorems                                                            *)

\* The override bridge, with a journal that existed when the executor began: after any
\* history of edits, deletions, crashes and cycles every record behind the offset was
\* applied or was there before the executor watched.
THEOREM RecordsNeverSkipped ==
    ASSUME Backlog > 0
    PROVE  Spec => []NoRecordSkipped
<1> DEFINE Inv == InCycle /\ Journalled
<1>1. Init => Inv
  <2>1. ASSUME Init PROVE InCycle
    BY <2>1 DEF Init, Fresh, InCycle, Traced
  <2>2. ASSUME Init PROVE journal \in Seq(Record) /\ Len(journal) = Backlog
    <3>1. journal \in [1..Backlog -> Record] /\ Backlog \in Nat
      BY <2>2, BoundsAssumption DEF Init, Record
    <3> QED BY <3>1
  <2> QED BY <2>1, <2>2 DEF Init, Journalled, Applied, Batch
<1>2. Inv /\ [Next]_vars => Inv'
  BY StepKeepsJournal DEF InCycle, InCycleNext
<1>3. Inv => NoRecordSkipped
  BY DEF Journalled, Applied, NoRecordSkipped
<1> QED BY <1>1, <1>2, <1>3, PTL DEF Spec

\* The already-traded guard of the LIMIT path never refuses a signal for the close its
\* own amendment made in that cycle.
THEOREM AmendmentsNeverRefused ==
    ASSUME ~TrailingOpen
    PROVE  Spec => []AmendmentNotRefused
<1> DEFINE Inv == InCycle /\ Forced
<1>1. Init => Inv
  BY DEF Init, Fresh, InCycle, Traced, Forced
<1>2. Inv /\ [Next]_vars => Inv'
  BY StepKeepsJournal DEF InCycle, InCycleNext
<1>3. Inv => AmendmentNotRefused
  BY DEF Forced, AmendmentNotRefused
<1> QED BY <1>1, <1>2, <1>3, PTL DEF Spec

-----------------------------------------------------------------------------
(* The broker's book                                                        *)

Book    == orders \cup positions
Sending == {"send", "rollback"}
Pricing == {"candidates", "send", "rollback"}
Looping == {"replace", "reopen"}
Resending == {"replaceRead", "replaceSend", "reopenRead", "reopenSend"}

\* The stages at which the cycle relies on nothing it read earlier.
Plain == {"idle", "manage", "expire", "catchUp", "timeExit", "timeCancel", "terminal",
          "terminalCancel", "override", "record", "parse", "prune"}

\* The fields of the cycle the arguments are about.
Fields == {"todo", "cur", "work", "plan", "sent", "kept", "stuck", "seen", "parsed", "next",
           "upto", "spared"}
Shape == /\ Fields \subseteq DOMAIN cyc
         /\ DOMAIN registry = Signals

\* A ticket names one order or one position.
TicketsNameOne ==
    /\ \A x, y \in Book : x.ticket = y.ticket => x = y
    /\ orders \cap positions = {}
    /\ \A x \in Book : x.signal \in Signals

\* Flattening: first every order, then every position, is at hand or was let go.
Flattening ==
    /\ pc = "flattenOrders" =>
          \A o \in orders : o.signal = cyc.cur => o.ticket \in cyc.work \/ cyc.cur \in abandoned
    /\ pc = "flattenPositions" =>
          \A x \in Book : x.signal = cyc.cur =>
             (x \in positions /\ x.ticket \in cyc.work) \/ cyc.cur \in abandoned

\* What a loop takes up is tracked, or has a line in the feed parsed.
Taken ==
    /\ pc \in Looping => cyc.todo \subseteq Tracked
    /\ pc \in Resending => cyc.todo \subseteq Tracked /\ cyc.cur \in Tracked
    /\ pc \in Pricing => \A s \in cyc.todo : s \in Signals /\ cyc.parsed[s] # 0
    /\ pc \in Sending => cyc.cur \in Signals /\ cyc.parsed[cyc.cur] # 0

Sound == Shape /\ TicketsNameOne /\ Flattening /\ Taken

\* Placing: all that is live of the signal was sent in this pass; in a rollback it is
\* kept, still to be cancelled, or refused its cancellation.
Placing ==
    /\ pc = "send" => \A x \in Footprints(cyc.cur) : x.ticket \in cyc.sent \cup cyc.kept
    /\ pc = "rollback" => \A x \in Footprints(cyc.cur) :
          \/ x.ticket \in cyc.kept
          \/ x.ticket \in cyc.sent /\ (cyc.stuck \/ x.ticket \in cyc.work)

\* What is live is tracked or was let go, but for the signal being placed.
Accounted ==
    \A x \in Book : \/ registry[x.signal] # 0 \/ x.signal \in abandoned
                    \/ pc \in Sending /\ x.signal = cyc.cur

\* The orders read before pruning still cover those in the book.
Pruning == pc = "pruneRead" => \A o \in orders : o.signal \in cyc.spared \cup abandoned

Tracking == Placing /\ Accounted /\ Pruning

-----------------------------------------------------------------------------
(* Steps by what they do to the book and to what the cycle knows of it     *)

\* Orders fill, are pulled or are left; positions close or are left.
Thins == /\ orders' \subseteq orders /\ positions' \subseteq Book
         /\ orders' \cap positions' = {}
LetsGo == abandoned \subseteq abandoned'
Still == Thins /\ LetsGo /\ UNCHANGED <<pc, cyc, registry>>
Settles == Thins /\ LetsGo /\ Shape' /\ pc' \in Plain

\* A thinner book keeps its tickets apart.
LEMMA ThinsKeepsTickets == ASSUME TicketsNameOne, Thins PROVE TicketsNameOne'
BY DEF TicketsNameOne, Thins, Book

\* Nothing the cycle relies on is lost to the broker between its calls,
LEMMA StillSound == ASSUME Sound, Still PROVE Sound'
<1>1. Shape' /\ TicketsNameOne' /\ Taken'
  BY ThinsKeepsTickets DEF Sound, Still, Shape, Taken, Tracked
<1>2. Flattening'
  BY DEF Sound, TicketsNameOne, Still, Flattening, Thins, LetsGo, Book
<1> QED BY <1>1, <1>2 DEF Sound

LEMMA StillTracking == ASSUME Sound, Tracking, Still PROVE Tracking'
<1>1. Placing'
  BY DEF Tracking, Still, Placing, Thins, Footprints, Of, Book
<1>2. Accounted'
  BY DEF Tracking, Still, Accounted, Thins, LetsGo, Book
<1>3. Pruning'
  BY DEF Tracking, Still, Pruning, Thins, LetsGo
<1> QED BY <1>1, <1>2, <1>3 DEF Tracking

\* nor when the cycle comes to a stage that relies on nothing.
LEMMA SettlesSound == ASSUME Sound, Settles PROVE Sound'
<1>1. TicketsNameOne'
  BY ThinsKeepsTickets DEF Sound, Settles
<1>2. Flattening' /\ Taken'
  BY DEF Settles, Flattening, Taken, Plain, Looping, Resending, Pricing, Sending
<1> QED BY <1>1, <1>2 DEF Sound, Settles

LEMMA SettlesTracking ==
    ASSUME Sound, Tracking, Settles, pc \notin Sending, registry' = registry
    PROVE  Tracking'
<1>1. Placing' /\ Pruning'
  BY DEF Settles, Placing, Pruning, Plain
<1>2. Accounted'
  BY DEF Tracking, Settles, Accounted, Thins, LetsGo, Book
<1> QED BY <1>1, <1>2 DEF Tracking

-----------------------------------------------------------------------------
(* The broker, the clock and the provider                                  *)

LEMMA WorldStill == ASSUME Sound, World PROVE Still
<1>1. CASE UNCHANGED <<orders, positions, registry, pc, cyc, abandoned>>
  BY <1>1 DEF Sound, TicketsNameOne, Still, Thins, LetsGo, Book
<1>2. ASSUME NEW o \in orders, Fill(o) PROVE Still
  BY <1>2 DEF Fill, Sound, TicketsNameOne, Still, Thins, LetsGo, Book, disk, history
<1>3. ASSUME NEW o \in orders, HandCancel(o) PROVE Still
  BY <1>3 DEF HandCancel, Sound, TicketsNameOne, Still, Thins, LetsGo, Book, disk, history
<1>4. ASSUME NEW p \in positions, StopOrTarget(p) \/ HandClose(p) PROVE Still
  BY <1>4 DEF StopOrTarget, HandClose, Closed, Sound, TicketsNameOne, Still, Thins, LetsGo, Book,
     disk, history
<1> QED
  BY <1>1, <1>2, <1>3, <1>4 DEF World, Cooldown, Tick, Touch, Edit, Delete, Publish, Regenerate,
     broker, disk, history

-----------------------------------------------------------------------------
(* The steps every loop is made of                                         *)

\* Both parts of the invariant; the second holds of a LIMIT strategy only.
Keeps == Sound' /\ (Tracking /\ ~TrailingOpen => Tracking')
SameBook == UNCHANGED <<orders, positions, registry, abandoned>>

LEMMA StillKeeps == ASSUME Sound, Still PROVE Keeps
BY StillSound, StillTracking DEF Keeps

LEMMA SettlesKeeps ==
    ASSUME Sound, Settles, pc \notin Sending, registry' = registry
    PROVE  Keeps
BY SettlesSound, SettlesTracking DEF Keeps

\* With the book left alone a step to a plain stage settles.
LEMMA SameBookSettles ==
    ASSUME Sound, SameBook, Fields \subseteq DOMAIN cyc', pc' \in Plain, pc \notin Sending
    PROVE  Keeps
<1>1. Settles
  BY DEF Sound, TicketsNameOne, SameBook, Settles, Thins, LetsGo, Shape, Book
<1> QED BY <1>1, SettlesKeeps DEF SameBook

LEMMA TakeKeeps ==
    ASSUME Sound, NEW s, NEW stage, stage \notin Sending, NEW next \in Plain, NEW work,
           Take(s, stage, next, work)
    PROVE  Keeps
<1>1. Fields \subseteq DOMAIN cyc'
  BY DEF Take, Sound, Shape
<1> QED BY <1>1, SameBookSettles DEF Take, SameBook, broker, disk, history

LEMMA ThenKeeps ==
    ASSUME Sound, NEW stage, stage \notin Sending, NEW next \in Plain, NEW work,
           Then(stage, next, work)
    PROVE  Keeps
<1>1. Fields \subseteq DOMAIN cyc'
  BY DEF Then, Sound, Shape
<1> QED BY <1>1, SameBookSettles DEF Then, SameBook, broker, disk, history

LEMMA NextLoopKeeps ==
    ASSUME Sound, NEW stage, stage \notin Sending, NEW next \in Plain, NEW todo,
           NextLoop(stage, next, todo)
    PROVE  Keeps
<1>1. Fields \subseteq DOMAIN cyc'
  BY DEF NextLoop, Sound, Shape
<1> QED BY <1>1, SameBookSettles DEF NextLoop, SameBook, broker, disk, history

\* The two loops that send again take up tracked signals only.
LEMMA LoopsKeep ==
    ASSUME Sound, SameBook, Fields \subseteq DOMAIN cyc', pc' \in Looping,
           cyc'.todo \subseteq Tracked, pc \notin Sending
    PROVE  Keeps
<1>1. Sound'
  BY DEF Sound, SameBook, Shape, TicketsNameOne, Flattening, Taken, Tracked, Book, Looping,
     Resending, Pricing, Sending
<1>2. Tracking => Tracking'
  BY DEF Tracking, SameBook, Placing, Accounted, Pruning, Book, Looping, Sending
<1> QED BY <1>1, <1>2 DEF Keeps

LEMMA NextSendingLoopKeeps ==
    ASSUME Sound, NEW stage, stage \notin Sending, NEW next \in Looping, NEW todo \in SUBSET Tracked,
           NextLoop(stage, next, todo)
    PROVE  Keeps
<1>1. Fields \subseteq DOMAIN cyc' /\ cyc'.todo = todo
  BY DEF NextLoop, Sound, Shape, Fields
<1> QED BY <1>1, LoopsKeep DEF NextLoop, SameBook, broker, disk, history

LEMMA ThenLoopKeeps ==
    ASSUME Sound, NEW stage \in Resending, NEW next \in Looping, Then(stage, next, {})
    PROVE  Keeps
<1>1. Fields \subseteq DOMAIN cyc' /\ cyc'.todo = cyc.todo
  BY DEF Then, Sound, Shape, Fields
<1>2. cyc'.todo \subseteq Tracked /\ pc \notin Sending
  BY <1>1 DEF Then, Sound, Taken, Resending, Sending
<1> QED BY <1>1, <1>2, LoopsKeep DEF Then, SameBook, broker, disk, history

-----------------------------------------------------------------------------
(* Cancelling and closing                                                  *)

LEMMA StartKeeps == ASSUME Sound, StartCycle PROVE Keeps
<1>1. Fields \subseteq DOMAIN cyc'
  BY DEF StartCycle, Fresh, Fields
<1> QED BY <1>1, SameBookSettles DEF StartCycle, SameBook, Plain, Sending, broker, disk, history

LEMMA ManageKeeps == ASSUME Sound, ManagePosition PROVE Keeps
<1>1. /\ {"expire", "catchUp", "manage", "timeExit", "timeCancel", "terminal"} \subseteq Plain
      /\ Plain \cap Sending = {}
  BY DEF Plain, Sending
<1> QED BY <1>1, TakeKeeps, ThenKeeps, NextLoopKeeps DEF ManagePosition

LEMMA TerminalKeeps == ASSUME Sound, CancelSignalPendings PROVE Keeps
<1>1. /\ {"terminal", "terminalCancel"} \subseteq Plain /\ Plain \cap Sending = {}
      /\ "replace" \in Looping
  BY DEF Plain, Sending, Looping
<1>2. (IF ReplaceMissing THEN Tracked \ touched ELSE {}) \in SUBSET Tracked
  OBVIOUS
<1> QED BY <1>1, <1>2, TakeKeeps, ThenKeeps, NextSendingLoopKeeps DEF CancelSignalPendings

\* Cancelling: the orders of the ticket go, or the request was refused.
CancelEffect(t) ==
    /\ UNCHANGED <<positions, registry, pc>> /\ Fields \subseteq DOMAIN cyc'
    /\ cyc'.work = cyc.work \ {t}
    /\ \A f \in Fields \ {"work", "stuck"} : cyc'[f] = cyc[f]
    /\ cyc.stuck => cyc'.stuck
    /\ \/ /\ orders' = orders \ Held(orders, t) /\ abandoned' = abandoned
          /\ pc = "rollback" /\ Held(orders, t) = {} => cyc'.stuck
       \/ /\ orders' = orders
          /\ abandoned' = IF pc \in {"flattenOrders", "flattenPositions"}
                          THEN abandoned \cup {cyc.cur} ELSE abandoned
          /\ pc = "rollback" => cyc'.stuck

LEMMA CancelHas == ASSUME Sound, NEW t, CancelTicket(t) PROVE CancelEffect(t)
<1>1. /\ UNCHANGED <<positions, registry, pc>> /\ Fields \subseteq DOMAIN cyc'
      /\ cyc'.work = cyc.work \ {t}
      /\ \A f \in Fields \ {"work", "stuck"} : cyc'[f] = cyc[f]
      /\ cyc.stuck => cyc'.stuck
  BY DEF CancelTicket, Sound, Shape, Fields, disk
<1>2. \/ /\ orders' = orders \ Held(orders, t) /\ abandoned' = abandoned
         /\ pc = "rollback" /\ Held(orders, t) = {} => cyc'.stuck
      \/ /\ orders' = orders
         /\ abandoned' = IF pc \in {"flattenOrders", "flattenPositions"}
                         THEN abandoned \cup {cyc.cur} ELSE abandoned
         /\ pc = "rollback" => cyc'.stuck
  BY DEF CancelTicket, LetGo, Sound, Shape, Fields
<1> QED BY <1>1, <1>2 DEF CancelEffect

LEMMA CancelKeeps == ASSUME Sound, NEW t, CancelTicket(t) PROVE Keeps
<1>1. CancelEffect(t) /\ pc \in Cancelling
  BY CancelHas DEF CancelTicket
<1>2. /\ cyc'.cur = cyc.cur /\ cyc'.todo = cyc.todo /\ cyc'.parsed = cyc.parsed
      /\ cyc'.sent = cyc.sent /\ cyc'.kept = cyc.kept
  BY <1>1 DEF CancelEffect, Fields
<1>3. Thins /\ LetsGo
  BY <1>1 DEF CancelEffect, Thins, LetsGo, Sound, TicketsNameOne, Book
<1>4. Shape' /\ TicketsNameOne' /\ Taken'
  BY <1>1, <1>2, <1>3, ThinsKeepsTickets DEF Sound, CancelEffect, Shape, Taken, Tracked
<1>5. Flattening'
  BY <1>1, <1>2, <1>3
  DEF Sound, TicketsNameOne, Flattening, CancelEffect, Cancelling, Held, Thins, LetsGo, Book
<1>6. ASSUME Tracking PROVE Tracking'
  <2>1. Accounted' /\ Pruning'
    BY <1>1, <1>2, <1>3, <1>6
    DEF Tracking, Accounted, Pruning, CancelEffect, Cancelling, Thins, LetsGo, Book
  <2>2. pc' # "send"
    BY <1>1 DEF CancelEffect, Cancelling
  <2>3. ASSUME pc' = "rollback", NEW x \in Footprints(cyc.cur)'
        PROVE  \/ x.ticket \in cyc'.kept
               \/ x.ticket \in cyc'.sent /\ (cyc'.stuck \/ x.ticket \in cyc'.work)
    <3>1. x \in Footprints(cyc.cur) /\ pc = "rollback"
      BY <1>1, <1>2, <1>3, <2>3 DEF CancelEffect, Footprints, Of, Thins, Book
    <3>2. CASE x.ticket # t \/ cyc'.stuck
      BY <1>1, <1>2, <1>6, <3>1, <3>2 DEF Tracking, Placing, CancelEffect
    <3>3. CASE x.ticket = t /\ ~cyc'.stuck
      <4>1. PICK o \in orders : o.ticket = t
        BY <1>1, <3>1, <3>3 DEF CancelEffect, Held
      <4>2. x = o /\ x \notin positions
        BY <3>1, <3>3, <4>1 DEF Sound, TicketsNameOne, Footprints, Of, Book
      <4>3. x \notin orders' /\ x \notin positions'
        BY <1>1, <3>1, <3>3, <4>1, <4>2 DEF CancelEffect, Held
      <4> QED BY <2>3, <4>3 DEF Footprints, Of
    <3> QED BY <3>2, <3>3
  <2>4. Placing'
    BY <1>2, <2>2, <2>3 DEF Placing
  <2> QED BY <2>1, <2>4 DEF Tracking
<1> QED BY <1>4, <1>5, <1>6 DEF Sound, Keeps

\* Closing: one position goes, there was none, it stays for a stop to close, or the
\* request was refused.
LEMMA CloseKeeps == ASSUME Sound, NEW t, ClosePosition(t) PROVE Keeps
<1>1. /\ UNCHANGED <<orders, registry, pc>> /\ Fields \subseteq DOMAIN cyc'
      /\ cyc'.work = cyc.work \ {t} /\ pc \in Closing
      /\ cyc'.cur = cyc.cur /\ cyc'.todo = cyc.todo /\ cyc'.parsed = cyc.parsed
  BY DEF ClosePosition, Sound, Shape, Fields, disk
<1>2. Thins /\ LetsGo
  BY <1>1 DEF ClosePosition, Closed, LetGo, Thins, LetsGo, Sound, TicketsNameOne, Book
<1>3. Shape' /\ TicketsNameOne' /\ Taken'
  BY <1>1, <1>2, ThinsKeepsTickets DEF Sound, Shape, Taken, Tracked
<1>4. ASSUME pc = "flattenPositions", NEW x \in Book', x.signal = cyc.cur,
             cyc.cur \notin abandoned'
      PROVE  x \in positions' /\ x.ticket \in cyc'.work
  <2>1. x \in positions /\ x \notin orders /\ x.ticket \in cyc.work
    BY <1>1, <1>2, <1>4 DEF Sound, Flattening, TicketsNameOne, Thins, LetsGo, Book
  <2>2. x \in positions'
    BY <1>1, <1>4, <2>1 DEF Book
  <2>3. CASE x.ticket = t
    <3>1. PICK p \in Held(positions, t) : positions' = positions \ {p}
      BY <1>4, <2>1, <2>3 DEF ClosePosition, Closed, LetGo, Held
    <3>2. p = x
      BY <2>1, <2>3, <3>1 DEF Held, Sound, TicketsNameOne, Book
    <3> QED BY <2>2, <3>1, <3>2
  <2> QED BY <1>1, <2>1, <2>2, <2>3
<1>5. Flattening'
  BY <1>1, <1>4 DEF Flattening, Closing
<1>6. Tracking => Tracking'
  <2>1. pc' \notin Sending /\ pc' # "pruneRead"
    BY <1>1 DEF Closing, Sending
  <2> QED BY <1>1, <1>2, <2>1
    DEF Tracking, Placing, Accounted, Pruning, Thins, LetsGo, Book, Sending
<1> QED BY <1>3, <1>5, <1>6 DEF Sound, Keeps

-----------------------------------------------------------------------------
(* Replacing and re-opening                                                *)

\* A pass that reads the book for a tracked signal relies on its being tracked.
LEMMA ReadingKeeps ==
    ASSUME Sound, SameBook, Fields \subseteq DOMAIN cyc', pc \notin Sending, pc' \in Resending,
           cyc'.todo \subseteq Tracked, cyc'.cur \in Tracked
    PROVE  Keeps
<1>1. Sound'
  BY DEF Sound, SameBook, Shape, TicketsNameOne, Flattening, Taken, Tracked, Book, Looping,
     Resending, Pricing, Sending
<1>2. Tracking => Tracking'
  BY DEF Tracking, SameBook, Placing, Accounted, Pruning, Book, Resending, Sending
<1> QED BY <1>1, <1>2 DEF Keeps

LEMMA ReplaceReadKeeps ==
    ASSUME Sound, NEW s \in cyc.todo, ReplaceReadsOrders(s)
    PROVE  Keeps
<1>1. Fields \subseteq DOMAIN cyc' /\ cyc'.todo \subseteq cyc.todo /\ cyc'.cur = s
  BY DEF ReplaceReadsOrders, Sound, Shape, Fields
<1>2. cyc.todo \subseteq Tracked /\ pc \notin Sending
  BY DEF ReplaceReadsOrders, Sound, Taken, Looping, Sending
<1> QED
  BY <1>1, <1>2, ReadingKeeps DEF ReplaceReadsOrders, SameBook, Resending, broker, disk, history

LEMMA ReplacePlanKeeps == ASSUME Sound, ReplaceReadsPositions PROVE Keeps
<1>1. Fields \subseteq DOMAIN cyc' /\ cyc'.todo = cyc.todo /\ cyc'.cur = cyc.cur
  BY DEF ReplaceReadsPositions, Sound, Shape, Fields
<1>2. cyc.todo \subseteq Tracked /\ cyc.cur \in Tracked /\ pc \notin Sending
  BY DEF ReplaceReadsPositions, Sound, Taken, Resending, Sending
<1> QED
  BY <1>1, <1>2, ReadingKeeps
  DEF ReplaceReadsPositions, SameBook, Resending, broker, disk, history

LEMMA ReopenReadKeeps ==
    ASSUME Sound, NEW s \in cyc.todo, ReopenReadsPositions(s)
    PROVE  Keeps
<1>1. Fields \subseteq DOMAIN cyc' /\ cyc'.todo \subseteq cyc.todo /\ cyc'.cur = s
  BY DEF ReopenReadsPositions, Sound, Shape, Fields
<1>2. cyc.todo \subseteq Tracked /\ pc \notin Sending
  BY DEF ReopenReadsPositions, Sound, Taken, Looping, Sending
<1> QED
  BY <1>1, <1>2, ReadingKeeps
  DEF ReopenReadsPositions, SameBook, Resending, broker, disk, history

LEMMA ReopenPlanKeeps == ASSUME Sound, ReopenReadsOrders PROVE Keeps
<1>1. Fields \subseteq DOMAIN cyc' /\ cyc'.todo = cyc.todo /\ cyc'.cur = cyc.cur
  BY DEF ReopenReadsOrders, Sound, Shape, Fields
<1>2. cyc.todo \subseteq Tracked /\ cyc.cur \in Tracked /\ pc \notin Sending
  BY DEF ReopenReadsOrders, Sound, Taken, Resending, Sending
<1> QED
  BY <1>1, <1>2, ReadingKeeps DEF ReopenReadsOrders, SameBook, Resending, broker, disk, history

\* What is sent bears a ticket that nothing in the book and nothing sent before bears.
LEMMA NewIsNew ==
    ASSUME Free # {}, NEW s, NEW l, NEW edition
    PROVE  /\ New(s, l, edition).signal = s /\ New(s, l, edition).leg = l
           /\ New(s, l, edition).level = edition
           /\ \A x \in Book : x.ticket # New(s, l, edition).ticket
<1>1. New(s, l, edition).ticket \in Free
  BY DEF New
<1> QED BY <1>1 DEF New, Free, Ticket, Book

\* The book with one more order or position.
Gains(x) ==
    \/ orders' = orders \cup {x} /\ positions' = positions
    \/ positions' = positions \cup {x} /\ orders' = orders

LEMMA GainsKeepsTickets ==
    ASSUME TicketsNameOne, NEW x, x.signal \in Signals, \A y \in Book : y.ticket # x.ticket,
           Gains(x)
    PROVE  TicketsNameOne' /\ Book' = Book \cup {x}
BY DEF TicketsNameOne, Gains, Book

LEMMA ResendKeeps == ASSUME Sound, NEW l \in cyc.plan, Resend(l) PROVE Keeps
<1> DEFINE x == New(cyc.cur, l, registry[cyc.cur])
<1>1. /\ Fields \subseteq DOMAIN cyc' /\ cyc'.todo = cyc.todo /\ cyc'.cur = cyc.cur
      /\ cyc'.parsed = cyc.parsed /\ pc \in Resending /\ Free # {}
      /\ UNCHANGED <<registry, pc, abandoned>>
  BY DEF Resend, Sound, Shape, Fields, Resending, disk, history
<1>2. cyc.cur \in Tracked
  BY <1>1 DEF Sound, Taken
<1>3. x.signal = cyc.cur /\ \A y \in Book : y.ticket # x.ticket
  BY <1>1, NewIsNew
<1>4. UNCHANGED <<orders, positions>> \/ Gains(x)
  BY DEF Resend, Gains, Rest, AtMarket, broker
<1> HIDE DEF x
<1>5. TicketsNameOne' /\ Book' \subseteq Book \cup {x}
  <2>1. CASE UNCHANGED <<orders, positions>>
    BY <2>1 DEF Sound, TicketsNameOne, Book
  <2>2. CASE Gains(x)
    BY <1>2, <1>3, <2>2, GainsKeepsTickets DEF Sound, Tracked
  <2> QED BY <1>4, <2>1, <2>2
<1>6. Sound'
  BY <1>1, <1>2, <1>5
  DEF Sound, Shape, Flattening, Taken, Tracked, Resending, Looping, Pricing, Sending
<1>7. Tracking => Tracking'
  BY <1>1, <1>2, <1>3, <1>5
  DEF Tracking, Placing, Accounted, Pruning, Tracked, Resending, Sending
<1> QED BY <1>6, <1>7 DEF Keeps

LEMMA ReplaceKeeps == ASSUME Sound, ReplaceMissingEntries PROVE Keeps
<1>1. /\ "replaceSend" \in Resending /\ {"replace", "reopen"} \subseteq Looping
      /\ Looping \cap Sending = {}
  BY DEF Resending, Looping, Sending
<1>2. (IF ReopenMissing THEN Tracked \ touched ELSE {}) \in SUBSET Tracked
  OBVIOUS
<1> QED
  BY <1>1, <1>2, ReplaceReadKeeps, ReplacePlanKeeps, ResendKeeps, ThenLoopKeeps,
     NextSendingLoopKeeps DEF ReplaceMissingEntries

LEMMA ReopenKeeps == ASSUME Sound, ReopenMissingPositions PROVE Keeps
<1>1. /\ "reopenSend" \in Resending /\ "reopen" \in Looping
      /\ "override" \in Plain /\ "reopen" \notin Sending
  BY DEF Resending, Looping, Sending, Plain
<1> QED
  BY <1>1, ReopenReadKeeps, ReopenPlanKeeps, ResendKeeps, ThenLoopKeeps, NextLoopKeeps
  DEF ReopenMissingPositions

-----------------------------------------------------------------------------
(* Provider edits and deletions                                            *)

LEMMA FlattenOrdersKeeps == ASSUME Sound, FlattenOrders PROVE Keeps
<1>1. /\ Fields \subseteq DOMAIN cyc' /\ cyc'.work = Ticket(Of(orders, cyc'.cur))
      /\ pc' = "flattenOrders" /\ pc = "record" /\ SameBook
  BY DEF FlattenOrders, Sound, Shape, Fields, SameBook, broker, disk, history
<1>2. Sound'
  BY <1>1 DEF Sound, SameBook, Shape, TicketsNameOne, Flattening, Taken, Book, Ticket, Of,
     Looping, Resending, Pricing, Sending
<1>3. Tracking => Tracking'
  BY <1>1 DEF Tracking, SameBook, Placing, Accounted, Pruning, Book, Sending
<1> QED BY <1>2, <1>3 DEF Keeps

\* The orders are gone or let go, so every position is at hand.
LEMMA FlattenPositionsKeeps == ASSUME Sound, FlattenPositions PROVE Keeps
<1>1. /\ Fields \subseteq DOMAIN cyc' /\ cyc'.work = Ticket(Of(positions, cyc.cur))
      /\ cyc'.cur = cyc.cur /\ cyc.work = {}
      /\ pc' = "flattenPositions" /\ pc = "flattenOrders" /\ SameBook
  BY DEF FlattenPositions, Then, Sound, Shape, Fields, SameBook, broker, disk, history
<1>2. Flattening'
  BY <1>1 DEF Sound, SameBook, Flattening, Book, Ticket, Of
<1>3. Sound'
  BY <1>1, <1>2 DEF Sound, SameBook, Shape, TicketsNameOne, Taken, Book,
     Looping, Resending, Pricing, Sending
<1>4. Tracking => Tracking'
  BY <1>1 DEF Tracking, SameBook, Placing, Accounted, Pruning, Book, Sending
<1> QED BY <1>3, <1>4 DEF Keeps

\* What a record's signal leaves in the book once its tickets are dealt with was let go.
LEMMA NothingLeft ==
    ASSUME Sound, ApplyRecord
    PROVE  \A x \in Book : x.signal = cyc.cur => cyc.cur \in abandoned
BY DEF Sound, Flattening, ApplyRecord

LEMMA ApplyKeeps == ASSUME Sound, ApplyRecord PROVE Keeps
<1>1. /\ Fields \subseteq DOMAIN cyc' /\ DOMAIN registry' = Signals /\ pc' = "record"
      /\ pc = "flattenPositions" /\ UNCHANGED <<orders, positions, abandoned>>
      /\ \A s \in Signals : s # cyc.cur => registry'[s] = registry[s]
  BY DEF ApplyRecord, Sound, Shape, Fields, broker
<1>2. Settles
  BY <1>1 DEF Sound, TicketsNameOne, Settles, Thins, LetsGo, Shape, Book, Plain
<1>3. Tracking => Tracking'
  <2>1. \A x \in Book : x.signal \in Signals
    BY DEF Sound, TicketsNameOne
  <2> QED BY <1>1, <2>1, NothingLeft
    DEF Tracking, Placing, Accounted, Pruning, Book, Sending
<1> QED BY <1>2, <1>3, SettlesSound DEF Keeps

LEMMA ConsumeKeeps == ASSUME Sound, ConsumeSignalOverrides PROVE Keeps
<1>1. ASSUME NothingToConsume \/ AnchorAtEnd \/ ReadRecords \/ WriteOffset PROVE Keeps
  <2>1. /\ Fields \subseteq DOMAIN cyc' /\ pc' \in Plain /\ pc \in {"override", "record"}
        /\ SameBook
    BY <1>1 DEF NothingToConsume, AnchorAtEnd, ReadRecords, WriteOffset, Sound, Shape, SameBook,
       Plain, broker, disk, history
  <2> QED BY <2>1, SameBookSettles DEF Sending
<1> QED
  BY <1>1, FlattenOrdersKeeps, FlattenPositionsKeeps, ApplyKeeps DEF ConsumeSignalOverrides

-----------------------------------------------------------------------------
(* Candidates                                                              *)

LEMMA ParseKeeps == ASSUME Sound, ParseFeed PROVE Keeps
<1>1. /\ Fields \subseteq DOMAIN cyc' /\ cyc'.parsed = feed
      /\ \A s \in cyc'.todo : s \in Signals /\ feed[s] # 0
      /\ pc' = "candidates" /\ pc = "parse" /\ SameBook
  BY DEF ParseFeed, Sound, Shape, Fields, SameBook, broker, disk, history
<1>2. Sound'
  BY <1>1 DEF Sound, SameBook, Shape, TicketsNameOne, Flattening, Taken, Book,
     Looping, Resending, Pricing, Sending
<1>3. Tracking => Tracking'
  BY <1>1 DEF Tracking, SameBook, Placing, Accounted, Pruning, Book, Sending
<1> QED BY <1>2, <1>3 DEF Keeps

\* A step that stays at the candidates, tracking more of them at most.
LEMMA CandidateKeeps ==
    ASSUME Sound, UNCHANGED <<orders, positions, abandoned>>, pc' = "candidates",
           Fields \subseteq DOMAIN cyc', DOMAIN registry' = Signals,
           cyc'.todo \subseteq cyc.todo, cyc'.parsed = cyc.parsed, pc \in Pricing,
           Tracking /\ ~TrailingOpen => Accounted'
    PROVE  Keeps
<1>1. Sound'
  BY DEF Sound, Shape, TicketsNameOne, Flattening, Taken, Book,
     Looping, Resending, Pricing, Sending
<1>2. Placing' /\ Pruning'
  BY DEF Placing, Pruning
<1> QED BY <1>1, <1>2 DEF Keeps, Tracking

LEMMA SkipKeeps == ASSUME Sound, NEW s \in cyc.todo, SkipCandidate(s) PROVE Keeps
<1>1. /\ Fields \subseteq DOMAIN cyc' /\ DOMAIN registry' = Signals
      /\ cyc'.todo \subseteq cyc.todo /\ cyc'.parsed = cyc.parsed
      /\ pc = "candidates" /\ pc' = pc /\ UNCHANGED <<orders, positions, abandoned>>
  BY DEF SkipCandidate, Track, Sound, Shape, Fields, broker, history
<1>2. s \in Signals /\ cyc.parsed[s] # 0
  BY <1>1 DEF Sound, Taken, Pricing
<1>3. \A r \in Signals : registry'[r] = 0 => registry[r] = 0
  BY <1>2 DEF SkipCandidate, Track, Sound, Shape
<1>4. Tracking => Accounted'
  BY <1>1, <1>3 DEF Tracking, Accounted, Sound, TicketsNameOne, Book, Sending
<1> QED BY <1>1, <1>4, CandidateKeeps DEF Pricing

LEMMA RefuseKeeps == ASSUME Sound, NEW s \in cyc.todo, RefuseTraded(s) PROVE Keeps
<1>1. /\ Fields \subseteq DOMAIN cyc' /\ DOMAIN registry' = Signals
      /\ cyc'.todo \subseteq cyc.todo /\ cyc'.parsed = cyc.parsed
      /\ pc = "candidates" /\ pc' = pc /\ SameBook
  BY DEF RefuseTraded, SameBook, Sound, Shape, Fields, broker, disk, history
<1>2. Tracking => Accounted'
  BY <1>1 DEF Tracking, Accounted, Book, Sending, SameBook
<1> QED BY <1>1, <1>2, CandidateKeeps DEF Pricing, SameBook

\* A signal is placed only when nothing of it is live.
LEMMA PlaceKeeps == ASSUME Sound, NEW s \in cyc.todo, PlaceSignal(s) PROVE Keeps
<1>1. /\ Fields \subseteq DOMAIN cyc' /\ cyc'.cur = s /\ cyc'.parsed = cyc.parsed
      /\ cyc'.todo \subseteq cyc.todo /\ pc = "candidates" /\ pc' = "send"
      /\ Footprints(s) = {} /\ SameBook
  BY DEF PlaceSignal, Placeable, SameBook, Sound, Shape, Fields, broker, disk, history
<1>2. Sound'
  BY <1>1 DEF Sound, SameBook, Shape, TicketsNameOne, Flattening, Taken, Book,
     Looping, Resending, Pricing, Sending
<1>3. Placing' /\ Pruning'
  BY <1>1 DEF SameBook, Placing, Pruning, Footprints, Of
<1>4. Tracking => Accounted'
  BY <1>1 DEF Tracking, SameBook, Accounted, Book, Sending
<1> QED BY <1>2, <1>3, <1>4 DEF Keeps, Tracking

LEMMA SendKeeps == ASSUME Sound, NEW l \in cyc.plan, SendLeg(l) PROVE Keeps
<1> DEFINE x == New(cyc.cur, l, cyc.parsed[cyc.cur])
<1>1. /\ Fields \subseteq DOMAIN cyc' /\ cyc'.todo = cyc.todo /\ cyc'.cur = cyc.cur
      /\ cyc'.parsed = cyc.parsed /\ pc = "send" /\ Free # {}
      /\ cyc.sent \subseteq cyc'.sent /\ cyc.kept \subseteq cyc'.kept
      /\ UNCHANGED <<registry, pc, abandoned>>
  BY DEF SendLeg, Sound, Shape, Fields, disk, history
<1>2. cyc.cur \in Signals /\ cyc.parsed[cyc.cur] # 0
  BY <1>1 DEF Sound, Taken, Sending
<1>3. x.signal = cyc.cur /\ \A y \in Book : y.ticket # x.ticket
  BY <1>1, NewIsNew
<1>4. \/ UNCHANGED <<orders, positions>>
      \/ Gains(x) /\ x.ticket \in cyc'.sent \cup cyc'.kept
  BY DEF SendLeg, Gains, Rest, AtMarket, Sound, Shape, Fields, broker
<1> HIDE DEF x
<1>5. /\ TicketsNameOne'
      /\ \A y \in Book' : y \in Book \/ (y = x /\ x.ticket \in cyc'.sent \cup cyc'.kept)
  <2>1. CASE UNCHANGED <<orders, positions>>
    BY <2>1 DEF Sound, TicketsNameOne, Book
  <2>2. CASE Gains(x) /\ x.ticket \in cyc'.sent \cup cyc'.kept
    BY <1>2, <1>3, <2>2, GainsKeepsTickets DEF Sound
  <2> QED BY <1>4, <2>1, <2>2
<1>6. Sound'
  BY <1>1, <1>2, <1>5
  DEF Sound, Shape, Flattening, Taken, Tracked, Resending, Looping, Pricing, Sending
<1>7. Tracking => Tracking'
  BY <1>1, <1>3, <1>5
  DEF Tracking, Placing, Accounted, Pruning, Footprints, Of, Book, Sending
<1> QED BY <1>6, <1>7 DEF Keeps

LEMMA RejectKeeps == ASSUME Sound, RejectLeg PROVE Keeps
<1>1. /\ Fields \subseteq DOMAIN cyc' /\ cyc'.cur = cyc.cur /\ cyc'.parsed = cyc.parsed
      /\ cyc'.todo = cyc.todo /\ cyc'.sent = cyc.sent /\ cyc'.kept = cyc.kept
      /\ cyc'.work = cyc.sent /\ pc = "send" /\ pc' = "rollback" /\ SameBook
  BY DEF RejectLeg, SameBook, Sound, Shape, Fields, broker, disk, history
<1>2. Sound'
  BY <1>1 DEF Sound, SameBook, Shape, TicketsNameOne, Flattening, Taken, Tracked, Book,
     Looping, Resending, Pricing, Sending
<1>3. Tracking => Tracking'
  BY <1>1 DEF Tracking, SameBook, Placing, Accounted, Pruning, Footprints, Of, Book, Sending
<1> QED BY <1>2, <1>3 DEF Keeps

\* A LIMIT signal of which anything is live counts as placed, rolled back or not.
LEMMA LiveIsPlaced ==
    ASSUME Sound, Tracking, ~TrailingOpen, FinishPlacing, Footprints(cyc.cur) # {}
    PROVE  registry'[cyc.cur] # 0
<1>1. Placed # {}
  BY DEF FinishPlacing, Tracking, Placing, Placed
<1>2. cyc.cur \in Signals /\ cyc.parsed[cyc.cur] # 0
  BY DEF FinishPlacing, Sound, Taken, Sending
<1> QED BY <1>1, <1>2 DEF FinishPlacing, Track, Sound, Shape

LEMMA FinishKeeps == ASSUME Sound, FinishPlacing PROVE Keeps
<1>1. /\ Fields \subseteq DOMAIN cyc' /\ DOMAIN registry' = Signals
      /\ cyc'.todo = cyc.todo /\ cyc'.parsed = cyc.parsed
      /\ pc \in Sending /\ pc' = "candidates" /\ UNCHANGED <<orders, positions, abandoned>>
  BY DEF FinishPlacing, Track, Sound, Shape, Fields, Sending, broker, history
<1>2. ASSUME Tracking, ~TrailingOpen PROVE Accounted'
  <2>1. ASSUME NEW x \in Book PROVE registry'[x.signal] # 0 \/ x.signal \in abandoned
    <3>1. CASE x.signal = cyc.cur
      <4>1. x \in Footprints(cyc.cur)
        BY <3>1 DEF Footprints, Of, Book
      <4> QED BY <1>2, <3>1, <4>1, LiveIsPlaced
    <3>2. CASE x.signal # cyc.cur
      <4>1. registry[x.signal] # 0 \/ x.signal \in abandoned
        BY <1>2, <3>2 DEF Tracking, Accounted
      <4>2. x.signal \in Signals /\ registry'[x.signal] = registry[x.signal]
        BY <3>2 DEF FinishPlacing, Track, Sound, Shape, TicketsNameOne
      <4> QED BY <4>1, <4>2
    <3> QED BY <3>1, <3>2
  <2> QED BY <1>1, <2>1 DEF Accounted, Book
<1> QED BY <1>1, <1>2, CandidateKeeps DEF Sending, Pricing

LEMMA CandidatesKeep == ASSUME Sound, Candidates PROVE Keeps
<1>1. "candidates" \notin Sending /\ "prune" \in Plain
  BY DEF Sending, Plain
<1> QED
  BY <1>1, ParseKeeps, SkipKeeps, RefuseKeeps, PlaceKeeps, SendKeeps, RejectKeeps, FinishKeeps,
     NextLoopKeeps DEF Candidates

-----------------------------------------------------------------------------
(* Pruning                                                                 *)

\* A signal seen through its orders is spared; if they could not be read it is let go.
LEMMA PruneOrdersKeep == ASSUME Sound, PruneReadsOrders PROVE Keeps
<1>1. /\ Fields \subseteq DOMAIN cyc' /\ pc = "prune" /\ pc' = "pruneRead" /\ LetsGo
      /\ Alive(orders) \subseteq cyc'.spared \cup abandoned'
      /\ UNCHANGED <<orders, positions, registry>>
  BY DEF PruneReadsOrders, Sound, Shape, Fields, LetsGo, broker, disk
<1>2. Sound'
  BY <1>1 DEF Sound, Shape, TicketsNameOne, Flattening, Taken, Book,
     Looping, Resending, Pricing, Sending
<1>3. Placing' /\ Pruning'
  BY <1>1 DEF Sound, TicketsNameOne, Placing, Pruning, Alive, Of, Book
<1>4. Tracking => Accounted'
  BY <1>1 DEF Tracking, Accounted, Book, LetsGo, Sending
<1> QED BY <1>2, <1>3, <1>4 DEF Keeps, Tracking

\* An order that fills between the two reads is seen by one of them at least.
LEMMA PrunePositionsKeep == ASSUME Sound, PruneReadsPositions PROVE Keeps
<1>1. PICK seen \in {Alive(positions), {}} :
         /\ seen = Alive(positions) \/ Alive(positions) \subseteq abandoned'
         /\ registry' = [s \in Signals |->
                           IF s \in cyc.spared \cup seen \cup Mirrored THEN registry[s] ELSE 0]
  BY DEF PruneReadsPositions
<1>2. /\ Fields \subseteq DOMAIN cyc' /\ pc = "pruneRead" /\ pc' = "idle" /\ LetsGo
      /\ UNCHANGED <<orders, positions>>
  BY DEF PruneReadsPositions, Fresh, Fields, LetsGo, broker
<1>3. Settles
  BY <1>1, <1>2 DEF Sound, TicketsNameOne, Settles, Thins, Shape, Book, Plain
<1>4. ASSUME Tracking, NEW x \in Book PROVE registry'[x.signal] # 0 \/ x.signal \in abandoned'
  <2>1. x.signal \in Signals /\ (registry[x.signal] # 0 \/ x.signal \in abandoned)
    BY <1>2, <1>4 DEF Sound, TicketsNameOne, Tracking, Accounted, Sending
  <2>2. x.signal \in cyc.spared \cup abandoned \/ x.signal \in Alive(positions)
    BY <1>2, <1>4, <2>1 DEF Tracking, Pruning, Alive, Of, Book
  <2> QED BY <1>1, <1>2, <2>1, <2>2 DEF LetsGo
<1>5. Tracking => Tracking'
  BY <1>2, <1>4 DEF Tracking, Placing, Accounted, Pruning, Book, Sending
<1> QED BY <1>3, <1>5, SettlesSound DEF Keeps

-----------------------------------------------------------------------------
(* Every step                                                              *)

\* A crash forgets what the cycle had sent and not tracked: it is let go.
LEMMA CrashKeeps == ASSUME Sound, Crash PROVE Keeps
<1>1. /\ Fields \subseteq DOMAIN cyc' /\ pc' = "idle" /\ LetsGo
      /\ UNCHANGED <<orders, positions, registry>>
  BY DEF Crash, Fresh, Fields, LetsGo, broker, disk
<1>2. Settles
  BY <1>1 DEF Sound, TicketsNameOne, Settles, Thins, Shape, Book, Plain
<1>3. ASSUME NEW x \in Book PROVE registry[x.signal] # 0 \/ x.signal \in abandoned'
  BY <1>3 DEF Sound, TicketsNameOne, Crash, Footprints, Of, Book
<1>4. Tracking'
  BY <1>1, <1>3 DEF Tracking, Placing, Accounted, Pruning, Book
<1> QED BY <1>2, <1>4, SettlesSound DEF Keeps

LEMMA StepKeeps == ASSUME Sound, [Next]_vars PROVE Keeps
<1>1. CASE UNCHANGED vars
  BY <1>1, StillKeeps DEF vars, Sound, TicketsNameOne, Still, Thins, LetsGo, Book
<1>2. CASE World
  BY <1>2, WorldStill, StillKeeps
<1>3. CASE Executor
  BY <1>3, StartKeeps, ManageKeeps, CancelKeeps, CloseKeeps, TerminalKeeps, ReplaceKeeps,
     ReopenKeeps, ConsumeKeeps, CandidatesKeep, PruneOrdersKeep, PrunePositionsKeep
  DEF Executor, Prune
<1> QED BY <1>1, <1>2, <1>3, CrashKeeps DEF Next

\* At the start the book is empty and nothing is tracked.
LEMMA InitSound == ASSUME Init PROVE Sound /\ Tracking
BY DEF Init, Fresh, Sound, Shape, Fields, TicketsNameOne, Flattening, Taken, Tracking, Placing,
   Accounted, Pruning, Book, Looping, Resending, Pricing, Sending

-----------------------------------------------------------------------------
(* What is live is tracked                                                 *)

\* Between cycles everything live of a LIMIT strategy is tracked, or was let go by a
\* refused close, a crash or a failed query: an order that fills between the reads of a
\* pruning, a replacement or a rollback never becomes a position nobody manages.
THEOREM LiveStaysTracked ==
    ASSUME ~TrailingOpen
    PROVE  Spec => []LiveMeansTracked
<1> DEFINE Inv == Sound /\ Tracking
<1>1. Init => Inv
  BY InitSound
<1>2. Inv /\ [Next]_vars => Inv'
  BY StepKeeps DEF Keeps
<1>3. Inv => LiveMeansTracked
  BY DEF Tracking, Accounted, LiveMeansTracked, Footprints, Of, Tracked, Book, Sending
<1> QED BY <1>1, <1>2, <1>3, PTL DEF Spec

-----------------------------------------------------------------------------
(* A leg is live at most once                                              *)

\* A leg that is live twice comes from the re-open pass, which reads the positions first,
\* or from a query for the missing entries that failed.
ReadExactly ==
    /\ ~ReopenMissing
    /\ "query" \in Hazards => ~ReplaceMissing

Planned == {"replaceSend", "send"}
Guarded == {"replace", "replaceRead", "replaceSend", "reopen", "reopenRead", "reopenSend", "send"}

\* Passes that are switched off take up no signal.
Skipped ==
    /\ pc \notin {"reopenRead", "reopenSend"}
    /\ pc = "reopen" => cyc.todo = {}
    /\ ~ReplaceMissing => /\ pc \notin {"replaceRead", "replaceSend"}
                          /\ pc = "replace" => cyc.todo = {}

\* What a pass plans to send is not live; the orders it read cover those still there.
Footed ==
    /\ \A x, y \in Book : x.signal = y.signal /\ x.leg = y.leg => x = y
    /\ pc = "replaceRead" => \A o \in orders : o.signal = cyc.cur => o.leg \in cyc.seen
    /\ pc \in Planned => \A x \in Book : x.signal = cyc.cur => x.leg \notin cyc.plan

FootSound == Skipped /\ Footed
Shrinks == orders' \subseteq orders /\ Book' \subseteq Book

\* The broker may thin the book under any plan ...
LEMMA ShrunkKeeps ==
    ASSUME FootSound, Shrinks, UNCHANGED <<pc, cyc>>
    PROVE  FootSound'
BY DEF FootSound, Skipped, Footed, Shrinks

\* ... and a step to another stage drops the plan.
LEMMA ElsewhereKeeps ==
    ASSUME FootSound, Shrinks, pc' \notin Guarded
    PROVE  FootSound'
BY DEF FootSound, Skipped, Footed, Shrinks, Guarded, Planned

LEMMA LoopEndKeeps ==
    ASSUME FootSound, Shrinks, pc' \in Looping, cyc'.todo = {}
    PROVE  FootSound'
BY DEF FootSound, Skipped, Footed, Shrinks, Looping, Planned

LEMMA WorldFeet == ASSUME FootSound, World PROVE FootSound'
<1>1. UNCHANGED <<pc, cyc>>
  BY DEF World, Fill, HandCancel, StopOrTarget, HandClose, Cooldown, Tick, Touch, Edit, Delete,
     Publish, Regenerate
<1>2. Shrinks
  BY DEF World, Fill, HandCancel, StopOrTarget, HandClose, Closed, Cooldown, Tick, Touch, Edit,
     Delete, Publish, Regenerate, broker, Shrinks, Book
<1> QED BY <1>1, <1>2, ShrunkKeeps

LEMMA ManageFeet ==
    ASSUME FootSound, StartCycle \/ ManagePosition
    PROVE  FootSound'
<1>1. Shrinks /\ pc' \notin Guarded
  BY DEF StartCycle, ManagePosition, Take, Then, NextLoop, Shrinks, Book, Guarded, broker
<1> QED BY <1>1, ElsewhereKeeps

LEMMA WorkFeet ==
    ASSUME FootSound, NEW t, CancelTicket(t) \/ ClosePosition(t)
    PROVE  FootSound'
<1>1. Shrinks /\ pc' \notin Guarded
  BY DEF CancelTicket, ClosePosition, Closed, Cancelling, Closing, Shrinks, Book, Guarded
<1> QED BY <1>1, ElsewhereKeeps

LEMMA TerminalFeet ==
    ASSUME Sound, FootSound, CancelSignalPendings, ReadExactly
    PROVE  FootSound'
<1>1. Shrinks
  BY DEF CancelSignalPendings, Take, Then, NextLoop, Shrinks, Book, broker
<1>2. CASE pc' \notin Guarded
  BY <1>1, <1>2, ElsewhereKeeps
<1>3. CASE pc' \in Guarded
  <2>1. /\ pc' = "replace"
        /\ cyc'.todo = IF ReplaceMissing THEN Tracked \ touched ELSE {}
    BY <1>3 DEF CancelSignalPendings, Take, Then, NextLoop, Guarded, Sound, Shape, Fields
  <2> QED BY <1>1, <2>1, LoopEndKeeps DEF FootSound, Skipped, Footed, Shrinks, Looping, Planned
<1> QED BY <1>2, <1>3

\* The orders seen, and then the positions, occupy every leg that is live.
LEMMA ReplaceReadFeet ==
    ASSUME Sound, FootSound, ReadExactly, NEW s \in cyc.todo, ReplaceReadsOrders(s)
    PROVE  FootSound'
<1>1. ReplaceMissing
  BY DEF FootSound, Skipped, ReplaceReadsOrders, FlagsAssumption
<1>2. /\ cyc'.cur = s /\ cyc'.seen = LegsOf(Of(orders, s))
      /\ pc' = "replaceRead" /\ UNCHANGED <<orders, positions>>
  BY <1>1 DEF ReplaceReadsOrders, Answers, Fault, ReadExactly, Sound, Shape, Fields, broker
<1> QED BY <1>1, <1>2 DEF FootSound, Skipped, Footed, LegsOf, Of, Book, Planned

LEMMA ReplacePlanFeet ==
    ASSUME Sound, FootSound, ReadExactly, ReplaceReadsPositions
    PROVE  FootSound'
<1>1. ReplaceMissing
  BY DEF FootSound, Skipped, ReplaceReadsPositions, FlagsAssumption
<1>2. /\ cyc'.cur = cyc.cur
      /\ cyc'.plan = MissingPending(cyc.cur, cyc.seen \cup LegsOf(Of(positions, cyc.cur)))
      /\ pc = "replaceRead" /\ pc' = "replaceSend" /\ UNCHANGED <<orders, positions>>
  BY <1>1 DEF ReplaceReadsPositions, Answers, Fault, ReadExactly, Sound, Shape, Fields, broker
<1>3. ASSUME NEW x \in Book, x.signal = cyc.cur PROVE x.leg \notin cyc'.plan
  <2>1. x.leg \in cyc.seen \cup LegsOf(Of(positions, cyc.cur))
    BY <1>2, <1>3 DEF FootSound, Footed, LegsOf, Of, Book
  <2> QED BY <1>2, <2>1 DEF MissingPending
<1> QED BY <1>1, <1>2, <1>3 DEF FootSound, Skipped, Footed, Book, Planned

\* Sending takes a leg off the plan as it becomes live.
LEMMA SentKeeps ==
    ASSUME FootSound, pc \in Planned, UNCHANGED pc, cyc'.cur = cyc.cur,
           NEW l \in cyc.plan, cyc'.plan = cyc.plan \ {l},
           NEW x, x.signal = cyc.cur, x.leg = l,
           UNCHANGED <<orders, positions>> \/ Gains(x)
    PROVE  FootSound'
<1>1. Book' \subseteq Book \cup {x}
  BY DEF Gains, Book
<1>2. Skipped'
  BY DEF FootSound, Skipped, Planned
<1>3. Footed'
  BY <1>1 DEF FootSound, Footed, Planned
<1> QED BY <1>2, <1>3 DEF FootSound

LEMMA ResendFeet ==
    ASSUME Sound, FootSound, NEW l \in cyc.plan, Resend(l), pc = "replaceSend"
    PROVE  FootSound'
<1> DEFINE x == New(cyc.cur, l, registry[cyc.cur])
<1>1. /\ cyc'.cur = cyc.cur /\ cyc'.plan = cyc.plan \ {l} /\ UNCHANGED pc /\ Free # {}
      /\ UNCHANGED <<orders, positions>> \/ Gains(x)
  BY DEF Resend, Gains, Rest, AtMarket, Sound, Shape, Fields, broker
<1>2. x.signal = cyc.cur /\ x.leg = l
  BY <1>1, NewIsNew
<1> HIDE DEF x
<1> QED BY <1>1, <1>2, SentKeeps DEF Planned

LEMMA ReplaceFeet ==
    ASSUME Sound, FootSound, ReadExactly, ReplaceMissingEntries
    PROVE  FootSound'
<1>1. ASSUME Then("replaceSend", "replace", {}) PROVE FootSound'
  <2>1. Shrinks /\ pc' = "replace" /\ ReplaceMissing
    BY <1>1 DEF Then, Shrinks, Book, broker, FootSound, Skipped, FlagsAssumption
  <2> QED BY <2>1 DEF FootSound, Skipped, Footed, Shrinks, Planned
<1>2. ASSUME NextLoop("replace", "reopen", IF ReopenMissing THEN Tracked \ touched ELSE {})
      PROVE  FootSound'
  <2>1. Shrinks /\ pc' = "reopen" /\ cyc'.todo = {}
    BY <1>2 DEF NextLoop, ReadExactly, Shrinks, Book, broker, Sound, Shape, Fields
  <2> QED BY <2>1, LoopEndKeeps DEF Looping
<1> QED
  BY <1>1, <1>2, ReplaceReadFeet, ReplacePlanFeet, ResendFeet DEF ReplaceMissingEntries

LEMMA ReopenFeet == ASSUME FootSound, ReopenMissingPositions PROVE FootSound'
<1>1. NextLoop("reopen", "override", {})
  BY DEF ReopenMissingPositions, ReopenReadsPositions, ReopenReadsOrders, Then, FootSound, Skipped
<1>2. Shrinks /\ pc' \notin Guarded
  BY <1>1 DEF NextLoop, Shrinks, Book, Guarded, broker
<1> QED BY <1>2, ElsewhereKeeps

LEMMA ConsumeFeet == ASSUME FootSound, ConsumeSignalOverrides PROVE FootSound'
<1>1. Shrinks /\ pc' \notin Guarded
  BY DEF ConsumeSignalOverrides, NothingToConsume, AnchorAtEnd, ReadRecords, FlattenOrders,
     FlattenPositions, ApplyRecord, WriteOffset, Then, Shrinks, Book, Guarded, broker
<1> QED BY <1>1, ElsewhereKeeps

LEMMA CandidatesFeet == ASSUME Sound, FootSound, Candidates PROVE FootSound'
<1>1. ASSUME NEW s \in cyc.todo, PlaceSignal(s) PROVE FootSound'
  <2>1. /\ cyc'.cur = s /\ Footprints(s) = {} /\ pc' = "send"
        /\ UNCHANGED <<orders, positions>>
    BY <1>1 DEF PlaceSignal, Placeable, Sound, Shape, Fields, broker
  <2> QED BY <2>1 DEF FootSound, Skipped, Footed, Footprints, Of, Book, Planned
<1>2. ASSUME NEW l \in cyc.plan, SendLeg(l) PROVE FootSound'
  <2> DEFINE x == New(cyc.cur, l, cyc.parsed[cyc.cur])
  <2>1. /\ cyc'.cur = cyc.cur /\ cyc'.plan = cyc.plan \ {l} /\ UNCHANGED pc /\ Free # {}
        /\ pc = "send"
        /\ UNCHANGED <<orders, positions>> \/ Gains(x)
    BY <1>2 DEF SendLeg, Gains, Rest, AtMarket, Sound, Shape, Fields, broker
  <2>2. x.signal = cyc.cur /\ x.leg = l
    BY <2>1, NewIsNew
  <2> HIDE DEF x
  <2> QED BY <2>1, <2>2, SentKeeps DEF Planned
<1>3. ASSUME \/ ParseFeed \/ RejectLeg \/ FinishPlacing \/ NextLoop("candidates", "prune", {})
             \/ \E s \in cyc.todo : SkipCandidate(s) \/ RefuseTraded(s)
      PROVE  FootSound'
  <2>1. Shrinks /\ pc' \notin Guarded
    BY <1>3 DEF ParseFeed, RejectLeg, FinishPlacing, NextLoop, SkipCandidate, RefuseTraded,
       Shrinks, Book, Guarded, broker
  <2> QED BY <2>1, ElsewhereKeeps
<1> QED BY <1>1, <1>2, <1>3 DEF Candidates

LEMMA PruneFeet == ASSUME FootSound, Prune \/ Crash PROVE FootSound'
<1>1. Shrinks /\ pc' \notin Guarded
  BY DEF Prune, PruneReadsOrders, PruneReadsPositions, Crash, Shrinks, Book, Guarded, broker
<1> QED BY <1>1, ElsewhereKeeps

LEMMA StepFeet == ASSUME Sound, FootSound, ReadExactly, [Next]_vars PROVE FootSound'
<1>1. CASE UNCHANGED vars
  BY <1>1, ShrunkKeeps DEF vars, Shrinks, Book
<1>2. CASE Executor
  BY <1>2, ManageFeet, WorkFeet, TerminalFeet, ReplaceFeet, ReopenFeet, ConsumeFeet,
     CandidatesFeet, PruneFeet DEF Executor
<1> QED BY <1>1, <1>2, WorldFeet, PruneFeet DEF Next

\* Unless a query failed or the re-open pass is on, a leg is live at most once, however
\* fills, closes and cancellations fall between the two reads of the replacing pass.
THEOREM LegsLiveOnce ==
    ASSUME ReadExactly
    PROVE  Spec => []OneFootprintPerLeg
<1> DEFINE Inv == Sound /\ FootSound
<1>1. Init => Inv
  <2>1. Init => FootSound
    BY DEF Init, Fresh, FootSound, Skipped, Footed, Book, Planned
  <2> QED BY <2>1, InitSound
<1>2. Inv /\ [Next]_vars => Inv'
  BY StepKeeps, StepFeet DEF Keeps
<1>3. Inv => OneFootprintPerLeg
  BY DEF FootSound, Footed, OneFootprintPerLeg, Footprints, Of, Book
<1> QED BY <1>1, <1>2, <1>3, PTL DEF Spec

-----------------------------------------------------------------------------
(* What is live follows the corrected feed                                 *)

Late  == {"parse", "candidates", "send", "rollback", "prune", "pruneRead"}

\* Records not yet applied: within a batch those from the one at hand on.
Consumed == IF pc \in Batch THEN cyc.next - 1 ELSE offset
Pending(s) == \E i \in 1..Len(journal) : i > Consumed /\ journal[i].signal = s
Current(s, edition) == edition = channel[s] \/ Pending(s)

\* Where the executor stands in the journal; before it anchors nothing was placed.
AtRecord ==
    /\ journal \in Seq(Record) /\ Len(journal) > 0
    /\ offset \in Int /\ -1 <= offset /\ offset <= Len(journal)
    /\ pc \in Batch => /\ cyc.next \in Nat /\ cyc.upto \in Nat
                       /\ 0 <= offset /\ offset < cyc.next
                       /\ cyc.next <= cyc.upto + 1 /\ cyc.upto <= Len(journal)
    /\ pc \in Batch \ {"record"} => cyc.next <= cyc.upto /\ cyc.cur = journal[cyc.next].signal
    /\ offset = -1 => Book = {} /\ Tracked = {} /\ pc \notin Late

\* What is live, tracked or about to be sent is of the feed's last edition, unless a
\* record that will flatten it is still to come.
Priced ==
    /\ feed = channel /\ DOMAIN channel = Signals
    /\ \A x \in Book : Current(x.signal, x.level) \/ x.signal \in abandoned
    /\ \A s \in Tracked : Current(s, registry[s])
    /\ pc \in Pricing => \A s \in Signals : Current(s, cyc.parsed[s])

PriceSound == AtRecord /\ Priced
SameFeed == UNCHANGED <<channel, feed, journal, offset>>

\* Going back over the journal, or nowhere, leaves every pending record pending.
LEMMA PendingStays ==
    ASSUME NEW s, journal' = journal, Consumed' <= Consumed, Consumed \in Int, Consumed' \in Int,
           Pending(s), Len(journal) \in Nat
    PROVE  Pending(s)'
BY DEF Pending

\* A step outside the batch keeps what it leaves alone and must account for the rest.
LEMMA OutsideKeeps ==
    ASSUME PriceSound, SameFeed, LetsGo, pc' \notin Batch,
           offset = -1 => Book' = {} /\ Tracked' = {} /\ pc' \notin Late,
           \A x \in Book' : x \in Book \/ Current(x.signal, x.level),
           \A s \in Tracked' : Current(s, registry'[s]),
           pc' \in Pricing => \A s \in Signals : Current(s, cyc'.parsed[s])
    PROVE  PriceSound'
<1>1. AtRecord'
  BY DEF PriceSound, AtRecord, SameFeed
<1>2. Consumed \in Int /\ Consumed' \in Int /\ Consumed' <= Consumed /\ Len(journal) \in Nat
  BY DEF PriceSound, AtRecord, SameFeed, Consumed
<1>3. ASSUME NEW s, NEW edition, Current(s, edition) PROVE Current(s, edition)'
  BY <1>2, <1>3, PendingStays DEF Current, SameFeed
<1>4. Priced'
  BY <1>3 DEF PriceSound, Priced, SameFeed, LetsGo
<1> QED BY <1>1, <1>4 DEF PriceSound

\* A step that prices nothing: what is tracked stays as it was, or is dropped.
LEMMA QuietKeeps ==
    ASSUME PriceSound, SameFeed, LetsGo, pc' \notin Batch \cup Pricing, Book' \subseteq Book,
           \A s \in Tracked' : s \in Tracked /\ registry'[s] = registry[s],
           pc' \in Late => pc \in Late
    PROVE  PriceSound'
<1>1. offset = -1 => Book' = {} /\ Tracked' = {} /\ pc' \notin Late
  BY DEF PriceSound, AtRecord
<1> QED BY <1>1, OutsideKeeps DEF PriceSound, Priced

\* The book thins under the cycle, or the cycle works it off ticket by ticket.
LEMMA ThinKeeps ==
    ASSUME PriceSound, SameFeed, LetsGo, Book' \subseteq Book, UNCHANGED <<pc, registry>>,
           cyc'.next = cyc.next, cyc'.upto = cyc.upto, cyc'.cur = cyc.cur,
           cyc'.parsed = cyc.parsed
    PROVE  PriceSound'
<1>1. AtRecord'
  BY DEF PriceSound, AtRecord, SameFeed, Tracked
<1>2. \A s : Pending(s)' <=> Pending(s)
  BY DEF Pending, Consumed, SameFeed
<1>3. Priced'
  BY <1>2 DEF PriceSound, Priced, Current, SameFeed, LetsGo, Tracked
<1> QED BY <1>1, <1>3 DEF PriceSound

\* An edit or a deletion puts its signal on the journal as it changes the feed.
LEMMA PublishKeeps ==
    ASSUME PriceSound, "lag" \notin Hazards, Sound, NEW s \in Signals, NEW edition,
           NEW action \in {"amend", "revoke"}, Publish(s, edition, action)
    PROVE  PriceSound'
<1>1. /\ channel' = [channel EXCEPT ![s] = edition] /\ feed' = channel'
      /\ journal' = Append(journal, [action |-> action, signal |-> s])
      /\ UNCHANGED <<orders, positions, registry, offset, pc, cyc, abandoned>>
  BY DEF Publish, broker, disk, history
<1>2. [action |-> action, signal |-> s] \in Record
  BY DEF Record
<1>3. /\ journal' \in Seq(Record) /\ Len(journal') = Len(journal) + 1 /\ Len(journal) \in Nat
      /\ \A i \in 1..Len(journal) : journal'[i] = journal[i]
      /\ journal'[Len(journal) + 1] = [action |-> action, signal |-> s]
  BY <1>1, <1>2 DEF PriceSound, AtRecord
<1>4. AtRecord'
  BY <1>1, <1>3 DEF PriceSound, AtRecord, Book, Tracked, Batch
<1>5. Consumed' = Consumed /\ Consumed \in Int /\ Consumed <= Len(journal)
  BY <1>1 DEF PriceSound, AtRecord, Consumed
<1>6. Pending(s)'
  BY <1>3, <1>5 DEF Pending
<1>7. ASSUME NEW r, Pending(r) PROVE Pending(r)'
  BY <1>3, <1>5, <1>7 DEF Pending
<1>8. ASSUME NEW r \in Signals, NEW e, Current(r, e) PROVE Current(r, e)'
  BY <1>1, <1>6, <1>7, <1>8 DEF Current, PriceSound, Priced
<1>9. Priced'
  BY <1>1, <1>8 DEF PriceSound, Priced, Sound, TicketsNameOne, Book, Tracked
<1> QED BY <1>4, <1>9 DEF PriceSound

LEMMA WorldPrices ==
    ASSUME PriceSound, "lag" \notin Hazards, Sound, World
    PROVE  PriceSound'
<1>1. CASE \E s \in Signals : Edit(s) \/ Delete(s)
  BY <1>1, PublishKeeps DEF Edit, Delete
<1>2. CASE ~\E s \in Signals : Edit(s) \/ Delete(s)
  <2>1. SameFeed
    BY <1>2 DEF World, Fill, HandCancel, StopOrTarget, HandClose, Cooldown, Tick, Touch,
       Regenerate, provider, disk, SameFeed, PriceSound, Priced
  <2>2. Still
    BY WorldStill
  <2> QED BY <2>1, <2>2, ThinKeeps DEF Still, Thins, Book
<1> QED BY <1>1, <1>2

\* Most of the cycle prices nothing.
LEMMA QuietPrices ==
    ASSUME PriceSound,
           StartCycle \/ ManagePosition \/ CancelSignalPendings \/ Prune \/ Crash
    PROVE  PriceSound'
<1>1. /\ SameFeed /\ LetsGo /\ Book' \subseteq Book
      /\ pc' \notin Batch \cup Pricing /\ (pc' \in Late => pc \in Late)
  BY DEF StartCycle, ManagePosition, CancelSignalPendings, Prune, PruneReadsOrders,
     PruneReadsPositions, Crash, Take, Then, NextLoop, SameFeed, LetsGo, Book, Batch, Pricing,
     Late, broker, provider, disk, history
<1>2. \A s \in Tracked' : s \in Tracked /\ registry'[s] = registry[s]
  BY DEF StartCycle, ManagePosition, CancelSignalPendings, Prune, PruneReadsOrders,
     PruneReadsPositions, Crash, Take, Then, NextLoop, Tracked, disk
<1> QED BY <1>1, <1>2, QuietKeeps

LEMMA WorkPrices ==
    ASSUME Sound, PriceSound, NEW t, CancelTicket(t) \/ ClosePosition(t)
    PROVE  PriceSound'
<1>1. /\ SameFeed /\ LetsGo /\ Book' \subseteq Book /\ UNCHANGED <<pc, registry>>
  BY DEF CancelTicket, ClosePosition, Closed, LetGo, SameFeed, LetsGo, Book, provider, disk
<1>2. /\ cyc'.next = cyc.next /\ cyc'.upto = cyc.upto /\ cyc'.cur = cyc.cur
      /\ cyc'.parsed = cyc.parsed
  BY DEF CancelTicket, ClosePosition, Sound, Shape, Fields
<1> QED BY <1>1, <1>2, ThinKeeps

\* What is sent again is priced from the edition tracked.
LEMMA ResendPrices ==
    ASSUME Sound, PriceSound, NEW l \in cyc.plan, Resend(l)
    PROVE  PriceSound'
<1> DEFINE x == New(cyc.cur, l, registry[cyc.cur])
<1>1. /\ pc \in Resending /\ Free # {} /\ SameFeed /\ LetsGo /\ UNCHANGED <<pc, registry>>
      /\ UNCHANGED <<orders, positions>> \/ Gains(x)
  BY DEF Resend, Gains, Rest, AtMarket, Resending, SameFeed, LetsGo, broker, provider, disk,
     history
<1>2. x.signal = cyc.cur /\ x.level = registry[cyc.cur]
  BY <1>1, NewIsNew
<1> HIDE DEF x
<1>3. cyc.cur \in Tracked
  BY <1>1 DEF Sound, Taken
<1>4. offset # -1 /\ pc \notin Batch \cup Pricing
  BY <1>1, <1>3 DEF PriceSound, AtRecord, Resending, Batch, Pricing
<1>5. \A y \in Book' : y \in Book \/ Current(y.signal, y.level)
  BY <1>1, <1>2, <1>3 DEF PriceSound, Priced, Gains, Book
<1>6. \A s \in Tracked' : Current(s, registry'[s])
  BY <1>1 DEF PriceSound, Priced, Tracked
<1> QED BY <1>1, <1>4, <1>5, <1>6, OutsideKeeps

LEMMA ReplacePrices ==
    ASSUME Sound, PriceSound, ReplaceMissingEntries \/ ReopenMissingPositions
    PROVE  PriceSound'
<1>1. CASE \E l \in cyc.plan : Resend(l)
  BY <1>1, ResendPrices
<1>2. CASE ~\E l \in cyc.plan : Resend(l)
  <2>1. /\ SameFeed /\ LetsGo /\ Book' \subseteq Book /\ registry' = registry
        /\ pc' \notin Batch \cup Pricing /\ (pc' \in Late => pc \in Late)
    BY <1>2 DEF ReplaceMissingEntries, ReopenMissingPositions, ReplaceReadsOrders,
       ReplaceReadsPositions, ReopenReadsPositions, ReopenReadsOrders, Then, NextLoop, SameFeed,
       LetsGo, Book, Batch, Pricing, Late, broker, provider, disk, history
  <2> QED BY <2>1, QuietKeeps DEF Tracked
<1> QED BY <1>1, <1>2

\* The anchor: nothing was placed before it, whatever the journal holds.
LEMMA AnchorPrices ==
    ASSUME PriceSound, NothingToConsume \/ AnchorAtEnd
    PROVE  PriceSound'
<1>1. /\ UNCHANGED <<channel, feed, journal, orders, positions, registry, abandoned>>
      /\ pc = "override" /\ pc' = "parse" /\ offset' = Len(journal)
      /\ offset = -1 \/ offset' = offset
  BY DEF PriceSound, AtRecord, NothingToConsume, AnchorAtEnd, broker, provider, disk, history
<1>2. AtRecord'
  BY <1>1 DEF PriceSound, AtRecord, Batch
<1>3. CASE offset' = offset
  BY <1>1, <1>2, <1>3, OutsideKeeps
  DEF PriceSound, AtRecord, Priced, SameFeed, LetsGo, Book, Tracked, Batch, Pricing
<1>4. CASE offset = -1
  BY <1>1, <1>2, <1>4 DEF PriceSound, AtRecord, Priced, Book, Tracked, Pricing
<1> QED BY <1>1, <1>3, <1>4

\* Within the batch the record at hand stays pending until it is applied.
LEMMA BatchPrices ==
    ASSUME PriceSound, SameFeed, UNCHANGED <<orders, positions, registry, abandoned>>,
           AtRecord', Consumed' = Consumed, pc' \notin Pricing
    PROVE  PriceSound'
<1>1. \A s : Pending(s)' <=> Pending(s)
  BY DEF Pending, SameFeed
<1>2. Priced'
  BY <1>1 DEF PriceSound, Priced, Current, SameFeed, Book, Tracked
<1> QED BY <1>2 DEF PriceSound

LEMMA ReadPrices == ASSUME Sound, PriceSound, ReadRecords PROVE PriceSound'
<1>1. /\ cyc'.next = offset + 1 /\ cyc'.upto = Len(journal) /\ pc = "override"
      /\ pc' = "record" /\ offset >= 0 /\ offset < Len(journal)
      /\ SameFeed /\ UNCHANGED <<orders, positions, registry, abandoned>>
  BY DEF ReadRecords, Sound, Shape, Fields, SameFeed, broker, provider, disk
<1>2. AtRecord' /\ Consumed' = Consumed
  BY <1>1 DEF PriceSound, AtRecord, SameFeed, Batch, Consumed
<1> QED BY <1>1, <1>2, BatchPrices DEF Pricing

LEMMA FlattenPrices ==
    ASSUME Sound, PriceSound, FlattenOrders \/ FlattenPositions
    PROVE  PriceSound'
<1>1. /\ cyc'.next = cyc.next /\ cyc'.upto = cyc.upto /\ pc \in Batch
      /\ pc' \in {"flattenOrders", "flattenPositions"}
      /\ SameFeed /\ UNCHANGED <<orders, positions, registry, abandoned>>
  BY DEF FlattenOrders, FlattenPositions, Then, Sound, Shape, Fields, Batch, SameFeed, broker,
     provider, disk, history
<1>2. cyc'.cur = journal[cyc.next].signal /\ cyc.next <= cyc.upto
  BY DEF FlattenOrders, FlattenPositions, Then, Sound, Shape, Fields, PriceSound, AtRecord, Batch
<1>3. AtRecord' /\ Consumed' = Consumed
  BY <1>1, <1>2 DEF PriceSound, AtRecord, SameFeed, Batch, Consumed
<1> QED BY <1>1, <1>3, BatchPrices DEF Pricing

\* A record is applied: of its signal nothing is live or tracked, and the others wait for
\* the records behind it.
LEMMA ApplyPrices == ASSUME Sound, PriceSound, ApplyRecord PROVE PriceSound'
<1>1. /\ cyc'.next = cyc.next + 1 /\ cyc'.upto = cyc.upto /\ pc = "flattenPositions"
      /\ pc' = "record" /\ SameFeed /\ UNCHANGED <<orders, positions, abandoned>>
      /\ registry' = [registry EXCEPT ![cyc.cur] = 0]
  BY DEF ApplyRecord, Sound, Shape, Fields, SameFeed, broker, provider
<1>2. /\ cyc.next \in Nat /\ cyc.upto \in Nat /\ cyc.next <= cyc.upto /\ offset < cyc.next
      /\ 0 <= offset /\ cyc.cur = journal[cyc.next].signal
  BY <1>1 DEF PriceSound, AtRecord, Batch
<1>3. AtRecord'
  BY <1>1, <1>2 DEF PriceSound, AtRecord, SameFeed, Batch
<1>4. Consumed' = cyc.next /\ Consumed = cyc.next - 1
  BY <1>1, <1>2 DEF Consumed, Batch
<1>5. ASSUME NEW s, s # cyc.cur, NEW edition, Current(s, edition) PROVE Current(s, edition)'
  <2>1. Pending(s) => Pending(s)'
    BY <1>1, <1>2, <1>4, <1>5 DEF Pending, SameFeed
  <2> QED BY <1>1, <1>5, <2>1 DEF Current, SameFeed
<1>6. \A s \in Tracked' : s # cyc.cur /\ s \in Tracked /\ registry'[s] = registry[s]
  BY <1>1 DEF Tracked, Sound, Shape
<1>7. \A x \in Book : x.signal = cyc.cur => x.signal \in abandoned
  BY NothingLeft
<1>8. Priced'
  BY <1>1, <1>5, <1>6, <1>7 DEF PriceSound, Priced, SameFeed, Book, Pricing
<1> QED BY <1>3, <1>8 DEF PriceSound

LEMMA WritePrices == ASSUME Sound, PriceSound, WriteOffset PROVE PriceSound'
<1>1. /\ offset' = cyc.upto /\ cyc.next > cyc.upto /\ pc = "record" /\ pc' = "parse"
      /\ UNCHANGED <<channel, feed, journal, orders, positions, registry, abandoned>>
  BY DEF WriteOffset, broker, provider, history
<1>2. AtRecord'
  BY <1>1 DEF PriceSound, AtRecord, Batch
<1>3. /\ Consumed \in Int /\ Consumed' \in Int /\ Consumed' <= Consumed /\ Len(journal) \in Nat
  BY <1>1 DEF PriceSound, AtRecord, Batch, Consumed
<1>4. ASSUME NEW s, NEW edition, Current(s, edition) PROVE Current(s, edition)'
  BY <1>1, <1>3, <1>4, PendingStays DEF Current
<1>5. Priced'
  BY <1>1, <1>4 DEF PriceSound, Priced, Book, Tracked, Pricing
<1> QED BY <1>2, <1>5 DEF PriceSound

LEMMA ConsumePrices == ASSUME Sound, PriceSound, ConsumeSignalOverrides PROVE PriceSound'
BY AnchorPrices, ReadPrices, FlattenPrices, ApplyPrices, WritePrices DEF ConsumeSignalOverrides

\* Candidates are parsed from the feed as it is, and placed and tracked as parsed.
LEMMA CandidatePrices ==
    ASSUME PriceSound, SameFeed, LetsGo, pc \in Pricing, pc' \in Pricing,
           cyc'.parsed = cyc.parsed,
           \A x \in Book' : x \in Book \/ Current(x.signal, x.level),
           \A s \in Tracked' : registry'[s] \in {registry[s], cyc.parsed[s]}
    PROVE  PriceSound'
<1>1. offset # -1 /\ pc' \notin Batch
  BY DEF PriceSound, AtRecord, Pricing, Late, Batch
<1>2. \A s \in Signals : Current(s, cyc.parsed[s])
  BY DEF PriceSound, Priced
<1>3. \A s \in Tracked' : Current(s, registry'[s])
  BY <1>2 DEF PriceSound, Priced, Tracked
<1> QED BY <1>1, <1>2, <1>3, OutsideKeeps

LEMMA CandidatesPrice == ASSUME Sound, PriceSound, Candidates PROVE PriceSound'
<1>1. ASSUME ParseFeed PROVE PriceSound'
  <2>1. /\ cyc'.parsed = channel /\ pc = "parse" /\ pc' = "candidates"
        /\ SameFeed /\ UNCHANGED <<orders, positions, registry, abandoned>>
    BY <1>1 DEF ParseFeed, Sound, Shape, Fields, PriceSound, Priced, SameFeed, broker, provider,
       disk, history
  <2> QED BY <2>1, OutsideKeeps
    DEF PriceSound, AtRecord, Priced, Current, LetsGo, Book, Tracked, Late, Batch
<1>2. ASSUME NEW s \in cyc.todo, SkipCandidate(s) PROVE PriceSound'
  <2>1. /\ cyc'.parsed = cyc.parsed /\ pc = "candidates" /\ pc' = pc
        /\ SameFeed /\ UNCHANGED <<orders, positions, abandoned>>
    BY <1>2 DEF SkipCandidate, Sound, Shape, Fields, SameFeed, broker, provider, history
  <2>2. \A r \in Tracked' : registry'[r] \in {registry[r], cyc.parsed[r]}
    BY <1>2 DEF SkipCandidate, Track, Tracked, Sound, Shape
  <2> QED BY <2>1, <2>2, CandidatePrices DEF Pricing, LetsGo, Book
<1>3. ASSUME NEW l \in cyc.plan, SendLeg(l) PROVE PriceSound'
  <2> DEFINE x == New(cyc.cur, l, cyc.parsed[cyc.cur])
  <2>1. /\ cyc'.parsed = cyc.parsed /\ pc = "send" /\ pc' = pc /\ Free # {}
        /\ SameFeed /\ UNCHANGED <<registry, abandoned>>
        /\ UNCHANGED <<orders, positions>> \/ Gains(x)
    BY <1>3 DEF SendLeg, Gains, Rest, AtMarket, Sound, Shape, Fields, SameFeed, broker, provider,
       disk, history
  <2>2. x.signal = cyc.cur /\ x.level = cyc.parsed[cyc.cur]
    BY <2>1, NewIsNew
  <2> HIDE DEF x
  <2>3. Current(cyc.cur, cyc.parsed[cyc.cur])
    BY <2>1 DEF PriceSound, Priced, Pricing, Sound, Taken, Sending
  <2>4. \A y \in Book' : y \in Book \/ Current(y.signal, y.level)
    BY <2>1, <2>2, <2>3 DEF Gains, Book
  <2> QED BY <2>1, <2>4, CandidatePrices DEF Pricing, LetsGo
<1>4. ASSUME RejectLeg \/ \E s \in cyc.todo : PlaceSignal(s) \/ RefuseTraded(s) PROVE PriceSound'
  <2>1. /\ cyc'.parsed = cyc.parsed /\ pc \in Pricing /\ pc' \in Pricing
        /\ SameFeed /\ UNCHANGED <<orders, positions, registry, abandoned>>
    BY <1>4 DEF RejectLeg, PlaceSignal, RefuseTraded, Sound, Shape, Fields, Pricing, SameFeed,
       broker, provider, disk, history
  <2> QED BY <2>1, CandidatePrices DEF LetsGo, Book
<1>5. ASSUME FinishPlacing PROVE PriceSound'
  <2>1. /\ cyc'.parsed = cyc.parsed /\ pc \in Pricing /\ pc' \in Pricing
        /\ SameFeed /\ UNCHANGED <<orders, positions, abandoned>>
    BY <1>5 DEF FinishPlacing, Sound, Shape, Fields, Pricing, SameFeed, broker, provider, history
  <2>2. \A r \in Tracked' : registry'[r] \in {registry[r], cyc.parsed[r]}
    BY <1>5 DEF FinishPlacing, Track, Tracked, Sound, Shape
  <2> QED BY <2>1, <2>2, CandidatePrices DEF LetsGo, Book
<1>6. ASSUME NextLoop("candidates", "prune", {}) PROVE PriceSound'
  <2>1. /\ pc = "candidates" /\ pc' = "prune"
        /\ SameFeed /\ UNCHANGED <<orders, positions, registry, abandoned>>
    BY <1>6 DEF NextLoop, SameFeed, broker, provider, disk, history
  <2> QED BY <2>1, QuietKeeps DEF LetsGo, Book, Tracked, Batch, Pricing, Late
<1> QED BY <1>1, <1>2, <1>3, <1>4, <1>5, <1>6 DEF Candidates

LEMMA StepPrices ==
    ASSUME Sound, PriceSound, "lag" \notin Hazards, [Next]_vars
    PROVE  PriceSound'
<1>1. CASE UNCHANGED vars
  BY <1>1, ThinKeeps DEF vars, SameFeed, LetsGo, Book
<1>2. CASE Executor
  BY <1>2, QuietPrices, WorkPrices, ReplacePrices, ConsumePrices, CandidatesPrice DEF Executor
<1> QED BY <1>1, <1>2, WorldPrices, QuietPrices DEF Next

\* Between cycles, with every record consumed, what is live is priced from the provider's
\* last edition of the signal: no edit that lands while the executor flattens, parses or
\* sends leaves an order of the old edition behind.  The feed is taken to be written with
\* the journal, and the journal to exist before the executor anchors in it.
THEOREM LiveFollowsFeed ==
    ASSUME Backlog > 0, "lag" \notin Hazards
    PROVE  Spec => []FollowsCorrectedFeed
<1> DEFINE Inv == Sound /\ PriceSound
<1>1. Init => Inv
  <2>1. ASSUME Init PROVE journal \in Seq(Record) /\ Len(journal) = Backlog
    <3>1. journal \in [1..Backlog -> Record] /\ Backlog \in Nat
      BY <2>1, BoundsAssumption DEF Init, Record
    <3> QED BY <3>1
  <2>2. Init => AtRecord
    BY <2>1, BoundsAssumption DEF Init, AtRecord, Batch, Late, Book, Tracked
  <2>3. Init => Priced
    BY DEF Init, Priced, Book, Tracked, Pricing
  <2> QED BY <2>2, <2>3, InitSound DEF PriceSound
<1>2. Inv /\ [Next]_vars => Inv'
  BY StepKeeps, StepPrices DEF Keeps
<1>3. Inv => FollowsCorrectedFeed
  <2>1. ASSUME PriceSound, pc = "idle", offset = Len(journal), NEW s PROVE ~Pending(s)
    BY <2>1 DEF PriceSound, AtRecord, Pending, Consumed, Batch
  <2> QED BY <2>1 DEF PriceSound, Priced, Current, FollowsCorrectedFeed, Book
<1> QED BY <1>1, <1>2, <1>3, PTL DEF Spec

=============================================================================
