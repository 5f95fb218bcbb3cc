------------------------- MODULE ListenerFeed_proofs -------------------------
(***************************************************************************)
(* Theorems about ListenerFeed, for every set of messages and every bound. *)
(* Three arguments.  Numbers: the next exceeds every listed one, so a      *)
(* feed bounded by some number stays bounded and its numbers distinct.     *)
(* Removals: whatever waits to be revoked (a delete update, an id the      *)
(* catch-up inferred) is a message VICTOR deleted, and deletion is final;  *)
(* the inference is right because ids are posted in order.  Rest: for      *)
(* every message an update waits, or the catch-up has work, or its line    *)
(* says what the channel says.                                             *)
(***************************************************************************)
EXTENDS ListenerFeed, FiniteSetTheorems, SequenceTheorems, WellFoundedInduction, TLAPS

-----------------------------------------------------------------------------
(* The parts of the inductive invariant                                    *)

Posted(m) == channel[m] # "unposted"
Deleted   == {m \in Msgs : channel[m] = "deleted"}

FeedOK ==
    /\ \E b \in Nat : \A l \in feed : l.n <= b
    /\ \A l \in feed : l.n \in Nat /\ l = [n |-> l.n, body |-> l.body, minute |-> l.minute]
    /\ UniqueNumbers

\* Messages are posted in order.
ChannelOK ==
    /\ channel \in [Msgs -> Bodies \cup {"unposted", "deleted"}]
    /\ \A l, m \in Msgs : l <= m /\ Posted(m) => Posted(l)

RecordsOK ==
    /\ DOMAIN records = Msgs
    /\ \A m \in Msgs : records[m].status # "none" => Posted(m)

\* An update tells of a posted message, and a delete update of a deleted one.
Warranted ==
    {u \in UpdateType : Posted(u.m) /\ (u.kind = "delete" => u.m \in Deleted)}

InboxOK == inbox \in Seq(Warranted)

\* What the catch-up will process was posted, and what it will revoke was deleted.
WorkOK ==
    /\ up = "catching" => \A w \in scan.todo : w.m \in Msgs /\ Posted(w.m)
    /\ up = "revoking" => scan.todo \subseteq Deleted

\* An id the scan covered and did not return was deleted.
CoverOK ==
    /\ scan = [todo |-> scan.todo, seen |-> scan.seen, low |-> scan.low, last |-> scan.last]
    /\ CatchingUp => scan.last \in Nat /\ \A m \in Msgs : m <= scan.last => Posted(m)
    /\ up = "catching" =>
          \A m \in Msgs \ scan.seen :
             scan.low # 0 /\ scan.low <= m /\ m <= scan.last => m \in Deleted

WorldOK == ChannelOK /\ RecordsOK /\ InboxOK /\ WorkOK /\ CoverOK

-----------------------------------------------------------------------------
(* Extremes of sets of numbers                                             *)

\* A nonempty set of naturals has a minimum.
LEMMA MinExists ==
    ASSUME NEW S \in SUBSET Nat, S # {}
    PROVE  Min(S) \in S /\ \A x \in S : Min(S) <= x
<1> DEFINE Less == {ss \in Nat \X Nat : ss[1] < ss[2]}
<1>1. IsWellFoundedOn(Less, Nat)
  BY NatLessThanWellFounded DEF OpToRel
<1>2. \A x, y \in Nat : <<x, y>> \notin Less => y <= x
  OBVIOUS
<1> HIDE DEF Less
<1>3. \E x \in S : \A y \in S : <<y, x>> \notin Less
  BY <1>1, WFMin
<1>4. \E x \in S : \A y \in S : x <= y
  BY <1>2, <1>3
<1> QED BY <1>4 DEF Min

\* A nonempty bounded set of naturals has a maximum.
LEMMA MaxExists ==
    ASSUME NEW S \in SUBSET Nat, S # {}, NEW b \in Nat, \A x \in S : x <= b
    PROVE  Max(S) \in S /\ \A x \in S : x <= Max(S)
<1> DEFINE Above == {c \in Nat : \A x \in S : x <= c}
           top   == Min(Above)
<1>1. top \in Above /\ \A c \in Above : top <= c
  <2>1. Above \in SUBSET Nat /\ Above # {}
    OBVIOUS
  <2> HIDE DEF Above
  <2> QED BY <2>1, MinExists
<1> HIDE DEF top
<1>2. top \in S
  <2>1. SUFFICES ASSUME top \notin S PROVE FALSE
    OBVIOUS
  <2>2. \A x \in S : x < top
    BY <1>1, <2>1
  <2>3. PICK x \in S : TRUE
    OBVIOUS
  <2>4. top - 1 \in Above
    BY <1>1, <2>2, <2>3
  <2> QED BY <1>1, <2>4
<1>3. \E x \in S : \A y \in S : x >= y
  BY <1>1, <1>2
<1> QED BY <1>3 DEF Max

-----------------------------------------------------------------------------
(* The feed                                                                *)

\* The next number exceeds every number of the feed (_next_index_in_section).
LEMMA NextIsAbove ==
    ASSUME FeedOK
    PROVE  /\ NextIndex(feed) \in Nat \ {0} /\ \A l \in feed : l.n < NextIndex(feed)
           /\ NextIndex(feed) \in {1} \cup {k + 1 : k \in F!Numbers(feed)}
<1> DEFINE S == {0} \cup {l.n : l \in feed}
<1>1. PICK b \in Nat : \A l \in feed : l.n <= b
  BY DEF FeedOK
<1>2. S \in SUBSET Nat /\ S # {} /\ \A x \in S : x <= b
  BY <1>1 DEF FeedOK
<1>3. (\A l \in feed : l.n \in S) /\ \A x \in S : x = 0 \/ x \in F!Numbers(feed)
  BY DEF F!Numbers
<1>4. NextIndex(feed) = Max(S) + 1
  BY DEF NextIndex
<1> HIDE DEF S
<1>5. Max(S) \in S /\ \A x \in S : x <= Max(S)
  BY <1>2, MaxExists
<1>6. \A x \in S : x \in Nat
  BY <1>2
<1> QED BY <1>3, <1>4, <1>5, <1>6

\* Adding a line keeps every number and the feed well formed.
LEMMA AddedLine ==
    ASSUME FeedOK, NEW body, NEW minute, feed' = WithLine(feed, body, minute)
    PROVE  FeedOK' /\ F!Numbers(feed) \subseteq F!Numbers(feed')
<1> DEFINE new == [n |-> NextIndex(feed), body |-> body, minute |-> minute]
<1>1. feed' = feed \cup {new}
  BY DEF WithLine
<1>2. new.n \in Nat /\ (\A l \in feed : l.n < new.n)
      /\ new = [n |-> new.n, body |-> new.body, minute |-> new.minute]
  BY NextIsAbove
<1> HIDE DEF new
<1>3. \A l \in feed' : l.n <= new.n
  BY <1>1, <1>2 DEF FeedOK
<1>4. \A l \in feed' : l.n \in Nat /\ l = [n |-> l.n, body |-> l.body, minute |-> l.minute]
  BY <1>1, <1>2 DEF FeedOK
<1>5. UniqueNumbers'
  BY <1>1, <1>2 DEF FeedOK, UniqueNumbers
<1> QED BY <1>1, <1>2, <1>3, <1>4, <1>5 DEF FeedOK, F!Numbers

\* Rewriting a line keeps every number and the feed well formed.
LEMMA RewrittenLine ==
    ASSUME FeedOK, NEW n, NEW body, feed' = Rewritten(feed, n, body)
    PROVE  FeedOK' /\ F!Numbers(feed) \subseteq F!Numbers(feed')
<1> DEFINE new(l) == IF l.n = n THEN [l EXCEPT !.body = body] ELSE l
<1>1. feed' = {new(l) : l \in feed}
  BY DEF Rewritten
<1>2. \A l \in feed : /\ new(l).n = l.n
                      /\ new(l) = [n |-> new(l).n, body |-> new(l).body, minute |-> new(l).minute]
  <2>1. SUFFICES ASSUME NEW l \in feed
                 PROVE  /\ new(l).n = l.n
                        /\ new(l) = [n |-> new(l).n, body |-> new(l).body, minute |-> new(l).minute]
    OBVIOUS
  <2>2. l = [n |-> l.n, body |-> l.body, minute |-> l.minute]
    BY DEF FeedOK
  <2> QED BY <2>2
<1> HIDE DEF new
<1>3. PICK b \in Nat : \A l \in feed : l.n <= b
  BY DEF FeedOK
<1>4. \A l \in feed' : l.n <= b /\ l.n \in Nat
                       /\ l = [n |-> l.n, body |-> l.body, minute |-> l.minute]
  BY <1>1, <1>2, <1>3 DEF FeedOK
<1>5. UniqueNumbers'
  BY <1>1, <1>2 DEF FeedOK, UniqueNumbers
<1>6. F!Numbers(feed) \subseteq F!Numbers(feed')
  BY <1>1, <1>2 DEF F!Numbers
<1> QED BY <1>4, <1>5, <1>6 DEF FeedOK

\* A feed that loses a line, or none, stays well formed.
LEMMA SmallerFeed ==
    ASSUME FeedOK, feed' \subseteq feed
    PROVE  FeedOK'
BY DEF FeedOK, UniqueNumbers

-----------------------------------------------------------------------------
(* The handlers                                                            *)

\* What any handler of message m does to the records and to the listener.
Handles(m) ==
    /\ up' = up \/ up' = "down"
    /\ records' = records \/ \E r : records' = [records EXCEPT ![m] = r]

\* _process_message never loses a line of the feed.
LEMMA ProcessKeepsLines ==
    ASSUME FeedOK, NEW m, NEW body, NEW isEdit, Process(m, body, isEdit)
    PROVE  Handles(m) /\ FeedOK' /\ F!Numbers(feed) \subseteq F!Numbers(feed')
<1>1. CASE Ignore
  BY <1>1 DEF Ignore, outVars, Handles, FeedOK, UniqueNumbers
<1>2. ASSUME NEW r, NEW note, Durably(feed, m, r, note)
      PROVE  Handles(m) /\ FeedOK' /\ F!Numbers(feed) \subseteq F!Numbers(feed')
  BY <1>2 DEF Durably, Handles, FeedOK, UniqueNumbers
<1>3. CASE \E flag : Flag(m, flag)
  BY <1>1, <1>2, <1>3 DEF Flag
<1>4. CASE Amend(m, body)
  <2> DEFINE n == records[m].n
             r == [records[m] EXCEPT !.flags = {}]
             note == <<F!Amend(n, body)>>
  <2>1. Ignore \/ Durably(Rewritten(feed, n, body), m, r, note)
    BY <1>4 DEF Amend
  <2> HIDE DEF n, r, note
  <2>2. CASE Durably(Rewritten(feed, n, body), m, r, note)
    <3>1. feed' = Rewritten(feed, n, body) /\ Handles(m)
      BY <2>2 DEF Durably, Handles
    <3> QED BY <3>1, RewrittenLine
  <2> QED BY <1>1, <2>1, <2>2
<1>5. CASE List(m, body)
  <2>1. \E r, note : Durably(feed, m, r, note) \/ Durably(WithLine(feed, body, MinuteOf[m]), m, r, note)
    BY <1>5 DEF List
  <2>2. ASSUME NEW r, NEW note, Durably(WithLine(feed, body, MinuteOf[m]), m, r, note)
        PROVE  Handles(m) /\ FeedOK' /\ F!Numbers(feed) \subseteq F!Numbers(feed')
    <3>1. feed' = WithLine(feed, body, MinuteOf[m]) /\ Handles(m)
      BY <2>2 DEF Durably, Handles
    <3> QED BY <3>1, AddedLine
  <2> QED BY <1>2, <2>1, <2>2
<1>6. CASE ListFails(m, body)
  BY <1>6 DEF ListFails, Handles, FeedOK, UniqueNumbers
<1>7. CASE Durably(feed, m, [NoRecord EXCEPT !.status = "quarantined"], <<>>)
  BY <1>2, <1>7
<1> QED BY <1>1, <1>3, <1>4, <1>5, <1>6, <1>7 DEF Process

\* _revoke_tracked_message loses no line but the one mapped to its message.
LEMMA RevokeLosesOwnLine ==
    ASSUME FeedOK, NEW m, RevokeTracked(m)
    PROVE  /\ Handles(m) /\ FeedOK'
           /\ \A l \in feed : l.n \notin F!Numbers(feed') => l.n = records[m].n
<1>1. Handles(m) /\ (feed' = feed \/ feed' = Without(feed, records[m].n))
  BY DEF RevokeTracked, Ignore, outVars, Durably, Handles
<1>2. FeedOK'
  BY <1>1, SmallerFeed DEF Without
<1>3. \A l \in feed : l.n \notin F!Numbers(feed') => l.n = records[m].n
  BY <1>1 DEF Without, F!Numbers
<1> QED BY <1>1, <1>2, <1>3

-----------------------------------------------------------------------------
(* One line number, one line                                               *)

\* Every step keeps the feed well formed.
LEMMA FeedStep ==
    ASSUME FeedOK, [Next]_vars
    PROVE  FeedOK'
<1>1. CASE UNCHANGED feed
  BY <1>1 DEF FeedOK, UniqueNumbers
<1>2. CASE HandleUpdate
  BY <1>2, ProcessKeepsLines, RevokeLosesOwnLine DEF HandleUpdate
<1>3. CASE CatchUpMessage
  BY <1>3, ProcessKeepsLines DEF CatchUpMessage
<1>4. CASE CatchUpRevoke
  BY <1>4, RevokeLosesOwnLine DEF CatchUpRevoke
<1>5. CASE \E body \in Signals, minute \in Minutes : Inject(body, minute)
  BY <1>5, AddedLine DEF Inject
<1>6. UNCHANGED feed \/ HandleUpdate \/ CatchUpMessage \/ CatchUpRevoke
      \/ \E body \in Signals, minute \in Minutes : Inject(body, minute)
  BY DEF Next, Listener, Environment, vars, outVars, Post, Edit, Delete, HandlerRaises, Crash,
         Start, Scan, PlanDeletions, CatchUpDone
<1> QED BY <1>1, <1>2, <1>3, <1>4, <1>5, <1>6

\* No two lines of a day ever share a number, so no two signals share a signal_key or
\* a broker magic, whatever is injected, retried, revoked or crashed in between.
THEOREM NumbersNeverRepeat == Spec => []UniqueNumbers
<1>1. Init => FeedOK
  BY DEF Init, FeedOK, UniqueNumbers
<1>2. FeedOK /\ [Next]_vars => FeedOK'
  BY FeedStep
<1>3. FeedOK => UniqueNumbers
  BY DEF FeedOK
<1> QED BY <1>1, <1>2, <1>3, PTL DEF Spec

-----------------------------------------------------------------------------
(* Removals are earned                                                     *)

\* The message ids are naturals.
LEMMA IdsAreNat ==
    /\ Msgs \subseteq Nat \ {0}
    /\ \E N \in Nat : \A m \in Msgs : m <= N
    /\ \A m \in Msgs : \A l \in Nat \ {0} : l <= m => l \in Msgs
<1>1. Cardinality(Msgs) \in Nat /\ Msgs = 1..Cardinality(Msgs)
  BY MsgsAssumption, FS_CardinalityType
<1> QED BY <1>1

\* The bodies a message can have are none of the marks of an unposted or deleted one.
LEMMA BodiesAreNoMarks ==
    /\ "unposted" \notin Bodies /\ "deleted" \notin Bodies
    /\ \A m \in Msgs : MayPost[m] \subseteq Bodies
BY BodiesAssumption DEF Bodies

\* A channel in which nothing is unposted or undeleted.
Later ==
    /\ ChannelOK'
    /\ \A m \in Msgs : (Posted(m) => Posted(m)') /\ (m \in Deleted => m \in Deleted')

\* Posting is in order, and VICTOR cannot take back a post or a deletion.
LEMMA ChannelMovesOn ==
    ASSUME ChannelOK, NEW m \in Msgs,
           (\E body \in MayPost[m] : Post(m, body)) \/ (\E body \in Bodies : Edit(m, body)) \/ Delete(m)
    PROVE  Later
<1>1. CASE \E body \in MayPost[m] : Post(m, body)
  <2>1. PICK body \in MayPost[m] : Post(m, body)
    BY <1>1
  <2>2. body \in Bodies /\ body # "unposted"
    BY <2>1, BodiesAreNoMarks
  <2>3. /\ channel' = [channel EXCEPT ![m] = body]
        /\ channel[m] = "unposted"
        /\ \A l \in 1..(m - 1) : channel[l] # "unposted"
    BY <2>1 DEF Post
  <2>4. \A l \in Msgs : l <= m => Posted(l)'
    BY <2>2, <2>3, IdsAreNat DEF ChannelOK, Posted
  <2>5. \A l \in Msgs : (Posted(l) => Posted(l)') /\ (l \in Deleted => l \in Deleted')
    BY <2>2, <2>3 DEF ChannelOK, Posted, Deleted
  <2>6. \A l, k \in Msgs : l <= k /\ Posted(k)' => Posted(l)'
    BY <2>3, <2>4, <2>5 DEF ChannelOK, Posted
  <2>7. channel' \in [Msgs -> Bodies \cup {"unposted", "deleted"}]
    BY <2>2, <2>3 DEF ChannelOK
  <2> QED BY <2>5, <2>6, <2>7 DEF Later, ChannelOK
<1>2. ASSUME NEW body \in Bodies \cup {"deleted"}, m \in Present,
             channel' = [channel EXCEPT ![m] = body]
      PROVE  Later
  <2>1. body # "unposted" /\ Posted(m) /\ m \notin Deleted
    BY <1>2, BodiesAreNoMarks DEF Present, Posted, Deleted
  <2>2. \A l \in Msgs : (Posted(l) <=> Posted(l)') /\ (l \in Deleted => l \in Deleted')
    BY <1>2, <2>1 DEF ChannelOK, Posted, Deleted
  <2>3. channel' \in [Msgs -> Bodies \cup {"unposted", "deleted"}]
    BY <1>2 DEF ChannelOK
  <2> QED BY <2>2, <2>3 DEF Later, ChannelOK
<1> QED BY <1>1, <1>2 DEF Edit, Delete

\* What waits to be done stays warranted while the channel moves on.
LEMMA WarrantsLast ==
    ASSUME Later
    PROVE  /\ Warranted \subseteq Warranted'
           /\ \A s \in Seq(Warranted) : s \in Seq(Warranted')
<1>1. Warranted \subseteq Warranted'
  BY DEF Later, Warranted, UpdateType
<1> HIDE DEF Warranted
<1> QED BY <1>1

\* The channel's steps: the world stays in order and the update is warranted.
LEMMA ChannelStep ==
    ASSUME WorldOK, NEW m \in Msgs,
           (\E body \in MayPost[m] : Post(m, body)) \/ (\E body \in Bodies : Edit(m, body)) \/ Delete(m)
    PROVE  WorldOK'
<1>1. Later
  BY ChannelMovesOn DEF WorldOK
<1>2. UNCHANGED <<up, scan, records>>
  BY DEF Post, Edit, Delete, outVars
<1>3. RecordsOK' /\ WorkOK' /\ CoverOK'
  <2>1. RecordsOK'
    BY <1>1, <1>2 DEF WorldOK, RecordsOK, Later
  <2>2. WorkOK'
    BY <1>1, <1>2 DEF WorldOK, WorkOK, Later, Deleted
  <2>3. CoverOK'
    BY <1>1, <1>2 DEF WorldOK, CoverOK, Later, CatchingUp
  <2> QED BY <2>1, <2>2, <2>3
<1>4. inbox \in Seq(Warranted')
  BY <1>1, WarrantsLast DEF WorldOK, InboxOK
<1>5. inbox' = inbox \/ \E u \in Warranted' : inbox' = Append(inbox, u)
  <2>1. ASSUME NEW body \in MayPost[m], Post(m, body)
        PROVE  inbox' = inbox \/ \E u \in Warranted' : inbox' = Append(inbox, u)
    <3> DEFINE u == [kind |-> "new", m |-> m, body |-> body]
    <3>1. body \in Bodies /\ Posted(m)'
      BY <2>1, BodiesAreNoMarks DEF Post, Posted, WorldOK, ChannelOK
    <3>2. u \in Warranted'
      BY <3>1 DEF Warranted, UpdateType
    <3> QED BY <2>1, <3>2 DEF Post, Send
  <2>2. ASSUME NEW body \in Bodies, Edit(m, body)
        PROVE  inbox' = inbox \/ \E u \in Warranted' : inbox' = Append(inbox, u)
    <3> DEFINE u == [kind |-> "edit", m |-> m, body |-> body]
    <3>1. Posted(m)'
      BY <2>2, BodiesAreNoMarks DEF Edit, Posted, WorldOK, ChannelOK
    <3>2. u \in Warranted'
      BY <3>1 DEF Warranted, UpdateType
    <3> QED BY <2>2, <3>2 DEF Edit, Send
  <2>3. ASSUME Delete(m)
        PROVE  inbox' = inbox \/ \E u \in Warranted' : inbox' = Append(inbox, u)
    <3> DEFINE u == [kind |-> "delete", m |-> m, body |-> NoSignal]
    <3>1. Posted(m)' /\ m \in Deleted'
      BY <2>3 DEF Delete, Posted, Deleted, WorldOK, ChannelOK
    <3>2. u \in Warranted'
      BY <3>1 DEF Warranted, UpdateType
    <3> QED BY <2>3, <3>2 DEF Delete, Send
  <2> QED BY <2>1, <2>2, <2>3
<1>6. InboxOK'
  <2> HIDE DEF Warranted
  <2> QED BY <1>4, <1>5, AppendProperties DEF InboxOK
<1> QED BY <1>1, <1>3, <1>6 DEF WorldOK, Later

\* The steps that move neither the channel nor the queue forward.
Still == UNCHANGED channel /\ inbox' \in Seq(Warranted)

\* What keeps the channel keeps what was warranted.
LEMMA StillWarranted ==
    ASSUME ChannelOK, Still
    PROVE  ChannelOK' /\ InboxOK'
BY DEF ChannelOK, Still, InboxOK, Warranted, Posted, Deleted

\* A handler of a posted message, finished or cut short by a crash.
LEMMA HandlerStep ==
    ASSUME WorldOK, Still, NEW m \in Msgs, Posted(m), Handles(m),
           \/ up' = "down" /\ scan' = Idle
           \/ up' # "down" /\ (scan' = scan \/ \E x : scan' = [scan EXCEPT !.todo = @ \ {x}])
    PROVE  WorldOK'
<1>1. ChannelOK' /\ InboxOK'
  BY StillWarranted DEF WorldOK
<1>2. RecordsOK'
  BY DEF WorldOK, RecordsOK, Handles, Still, Posted
<1>3. CASE up' = "down" /\ scan' = Idle
  BY <1>1, <1>2, <1>3 DEF WorldOK, WorkOK, CoverOK, CatchingUp, Idle
<1>4. CASE up' # "down" /\ (scan' = scan \/ \E x : scan' = [scan EXCEPT !.todo = @ \ {x}])
  <2>1. /\ up' = up
        /\ scan'.todo \subseteq scan.todo
        /\ scan'.seen = scan.seen /\ scan'.low = scan.low /\ scan'.last = scan.last
        /\ scan' = [todo |-> scan'.todo, seen |-> scan'.seen, low |-> scan'.low, last |-> scan'.last]
    BY <1>4 DEF Handles, WorldOK, CoverOK
  <2>2. WorkOK'
    BY <2>1 DEF WorldOK, WorkOK, Still, Posted, Deleted
  <2>3. CoverOK'
    BY <2>1 DEF WorldOK, CoverOK, CatchingUp, Still, Posted, Deleted
  <2> QED BY <1>1, <1>2, <2>2, <2>3 DEF WorldOK
<1> QED BY <1>3, <1>4

\* The head of the queue is warranted, and so is what follows it.
LEMMA QueueHead ==
    ASSUME InboxOK, inbox # <<>>
    PROVE  Head(inbox) \in Warranted /\ Tail(inbox) \in Seq(Warranted)
BY HeadTailProperties DEF InboxOK

LEMMA UpdateStep ==
    ASSUME WorldOK, FeedOK, HandleUpdate
    PROVE  WorldOK'
<1> DEFINE u == Head(inbox)
<1>1. u \in Warranted /\ Tail(inbox) \in Seq(Warranted)
  BY QueueHead DEF WorldOK, HandleUpdate
<1>2. u.m \in Msgs /\ Posted(u.m)
  BY <1>1 DEF Warranted, UpdateType
<1>3. Handles(u.m)
  BY ProcessKeepsLines, RevokeLosesOwnLine DEF HandleUpdate
<1>4. UNCHANGED channel /\ AfterHandler(Tail(inbox), scan)
  BY DEF HandleUpdate, chanVars
<1>5. <<>> \in Seq(Warranted)
  OBVIOUS
<1>6. Still
  BY <1>1, <1>4, <1>5 DEF Still, AfterHandler
<1> HIDE DEF u
<1> QED BY <1>2, <1>3, <1>4, <1>6, HandlerStep DEF AfterHandler

LEMMA CatchUpMessageStep ==
    ASSUME WorldOK, FeedOK, CatchUpMessage
    PROVE  WorldOK'
<1>1. PICK w \in scan.todo : /\ Process(w.m, w.body, w.isEdit)
                             /\ AfterHandler(inbox, [scan EXCEPT !.todo = @ \ {w}])
  BY DEF CatchUpMessage
<1>2. w.m \in Msgs /\ Posted(w.m)
  BY DEF WorldOK, WorkOK, CatchUpMessage
<1>3. Handles(w.m)
  BY <1>1, ProcessKeepsLines
<1>4. Still
  <2>1. inbox' = <<>> \/ inbox' = inbox
    BY <1>1 DEF AfterHandler
  <2>2. <<>> \in Seq(Warranted)
    OBVIOUS
  <2> QED BY <2>1, <2>2 DEF CatchUpMessage, chanVars, Still, WorldOK, InboxOK
<1> QED BY <1>1, <1>2, <1>3, <1>4, HandlerStep DEF AfterHandler

LEMMA CatchUpRevokeStep ==
    ASSUME WorldOK, FeedOK, CatchUpRevoke
    PROVE  WorldOK'
<1>1. PICK m \in scan.todo : /\ RevokeTracked(m)
                             /\ AfterHandler(inbox, [scan EXCEPT !.todo = @ \ {m}])
  BY DEF CatchUpRevoke
<1>2. m \in Msgs /\ Posted(m)
  BY DEF WorldOK, WorkOK, CatchUpRevoke, Deleted, Posted
<1>3. Handles(m)
  BY <1>1, RevokeLosesOwnLine
<1>4. Still
  <2>1. inbox' = <<>> \/ inbox' = inbox
    BY <1>1 DEF AfterHandler
  <2>2. <<>> \in Seq(Warranted)
    OBVIOUS
  <2> QED BY <2>1, <2>2 DEF CatchUpRevoke, chanVars, Still, WorldOK, InboxOK
<1> QED BY <1>1, <1>2, <1>3, <1>4, HandlerStep DEF AfterHandler

\* last_processed_message_id is the last message with a record, or 0.
LEMMA LastIdIsLast ==
    /\ LastId \in Nat /\ LastId \in {0} \cup {m \in Msgs : records[m].status # "none"}
    /\ \A m \in Msgs : records[m].status # "none" => m <= LastId
<1> DEFINE S == {0} \cup {m \in Msgs : records[m].status # "none"}
<1>1. PICK N \in Nat : \A m \in Msgs : m <= N
  BY IdsAreNat
<1>2. /\ 0 \in S /\ \A x \in S : x = 0 \/ x \in Msgs
      /\ \A m \in Msgs : records[m].status # "none" => m \in S
  OBVIOUS
<1>3. LastId = Max(S)
  BY DEF LastId
<1>4. LastId \in S => LastId \in {0} \cup {m \in Msgs : records[m].status # "none"}
  OBVIOUS
<1> HIDE DEF S
<1>5. \A m \in Msgs : m \in Nat
  BY IdsAreNat
<1>6. \A x \in S : x \in Nat /\ x <= N
  BY <1>1, <1>2, <1>5
<1>7. S \in SUBSET Nat /\ S # {}
  BY <1>2, <1>6
<1> QED BY <1>2, <1>3, <1>4, <1>6, <1>7, MaxExists

\* catch_up reads the last id: every id up to it was posted, for a record was kept of it.
LEMMA StartStep ==
    ASSUME WorldOK, Start
    PROVE  WorldOK'
<1>1. LastId \in Nat /\ LastId \in {0} \cup {m \in Msgs : records[m].status # "none"}
  BY LastIdIsLast
<1>2. \A m \in Msgs : m <= LastId => Posted(m)
  <2>1. CASE LastId = 0
    BY <2>1, IdsAreNat
  <2>2. CASE LastId \in Msgs /\ Posted(LastId)
    BY <2>2 DEF WorldOK, ChannelOK
  <2> QED BY <1>1, <2>1, <2>2 DEF WorldOK, RecordsOK
<1>3. UNCHANGED <<channel, inbox, records>>
  BY DEF Start, chanVars, outVars
<1>4. ChannelOK' /\ RecordsOK' /\ InboxOK'
  BY <1>3, StillWarranted DEF WorldOK, Still, InboxOK, RecordsOK, Posted
<1>5. up' = "starting" /\ scan' = [todo |-> {}, seen |-> {}, low |-> 0, last |-> LastId]
  BY DEF Start, Idle
<1>6. WorkOK'
  BY <1>5 DEF WorkOK
<1>7. CoverOK'
  BY <1>1, <1>2, <1>3, <1>5 DEF CoverOK, CatchingUp, Posted
<1> QED BY <1>4, <1>6, <1>7 DEF WorldOK

\* The scan: what it returns was posted; an id between its first and the last id that
\* it does not return was posted too, so it was deleted.
LEMMA ScanStep ==
    ASSUME WorldOK, NEW oldest \in Msgs, Scan(oldest)
    PROVE  WorldOK'
<1> DEFINE seen == {m \in Present : m >= oldest}
           todo == Work(New(seen), FALSE) \cup Work(Tracked(seen), TRUE)
           low  == IF seen = {} THEN 0 ELSE Min(seen)
<1>1. UNCHANGED <<channel, inbox, records>> /\ up' = "catching" /\ CatchingUp
  BY DEF Scan, chanVars, outVars, CatchingUp
<1>2. ChannelOK' /\ RecordsOK' /\ InboxOK'
  BY <1>1, StillWarranted DEF WorldOK, Still, InboxOK, RecordsOK, Posted
<1>3. scan' = [todo |-> todo, seen |-> seen, low |-> low, last |-> scan.last]
  <2>1. scan' = [scan EXCEPT !.todo = todo, !.seen = seen, !.low = low]
    BY DEF Scan
  <2> HIDE DEF todo, seen, low
  <2> QED BY <2>1 DEF WorldOK, CoverOK
<1>4. \A w \in todo : w.m \in Msgs /\ Posted(w.m)
  BY BodiesAreNoMarks DEF Work, New, Tracked, Present, Posted
<1>5. low # 0 => \A m \in Msgs : low <= m => oldest <= m
  <2>1. seen \in SUBSET Nat /\ \A m \in seen : m >= oldest
    BY IdsAreNat DEF Present
  <2>2. oldest \in Nat /\ Msgs \subseteq Nat
    BY IdsAreNat
  <2> HIDE DEF seen
  <2>3. seen # {} => low \in seen
    BY <2>1, MinExists
  <2>4. low # 0 => low \in Nat /\ oldest <= low
    BY <2>1, <2>3
  <2> HIDE DEF low
  <2> QED BY <2>2, <2>4
<1>6. \A m \in Msgs \ seen : low # 0 /\ low <= m /\ m <= scan.last => m \in Deleted
  <2>1. SUFFICES ASSUME NEW m \in Msgs \ seen, low # 0, low <= m, m <= scan.last
                 PROVE  m \in Deleted
    OBVIOUS
  <2>2. m \notin Present
    BY <1>5, <2>1, IdsAreNat
  <2>3. Posted(m)
    BY <1>1, <2>1 DEF WorldOK, CoverOK
  <2> QED BY <2>2, <2>3 DEF Present, Posted, Deleted, WorldOK, ChannelOK
<1> HIDE DEF todo, seen, low
<1>7. WorkOK'
  BY <1>1, <1>3, <1>4 DEF WorkOK, Posted
<1>8. CoverOK'
  BY <1>1, <1>3, <1>6 DEF WorldOK, CoverOK, CatchingUp, Posted, Deleted
<1> QED BY <1>2, <1>7, <1>8 DEF WorldOK

\* plan_catchup_deletions names deleted messages only.
LEMMA PlanStep ==
    ASSUME WorldOK, PlanDeletions
    PROVE  WorldOK'
<1>1. UNCHANGED <<channel, inbox, records>> /\ up = "catching" /\ up' = "revoking"
  BY DEF PlanDeletions, chanVars, outVars
<1>2. ChannelOK' /\ RecordsOK' /\ InboxOK'
  BY <1>1, StillWarranted DEF WorldOK, Still, InboxOK, RecordsOK, Posted
<1>3. Vanished \subseteq Deleted
  BY <1>1 DEF Vanished, WorldOK, CoverOK
<1>4. scan' = [todo |-> Vanished, seen |-> scan.seen, low |-> scan.low, last |-> scan.last]
  <2>1. scan' = [scan EXCEPT !.todo = Vanished]
    BY DEF PlanDeletions
  <2> QED BY <2>1 DEF WorldOK, CoverOK
<1>5. WorkOK'
  BY <1>1, <1>3, <1>4 DEF WorkOK, Deleted
<1>6. CoverOK'
  BY <1>1, <1>4 DEF WorldOK, CoverOK, CatchingUp, Posted
<1> QED BY <1>2, <1>5, <1>6 DEF WorldOK

\* Every step keeps the world in order.
LEMMA WorldStep ==
    ASSUME WorldOK, FeedOK, [Next]_vars
    PROVE  WorldOK'
<1>1. CASE Listener
  <2>1. CASE CatchUpDone
    <3>1. Still /\ UNCHANGED records /\ up' = "live" /\ scan' = Idle
      BY <2>1 DEF CatchUpDone, Still, chanVars, outVars, WorldOK, InboxOK
    <3>2. RecordsOK' /\ WorkOK' /\ CoverOK'
      BY <3>1 DEF WorldOK, RecordsOK, WorkOK, CoverOK, Still, Posted, Idle, CatchingUp
    <3> QED BY <3>1, <3>2, StillWarranted DEF WorldOK
  <2> QED BY <1>1, <2>1, StartStep, ScanStep, CatchUpMessageStep, PlanStep,
             CatchUpRevokeStep, UpdateStep DEF Listener
<1>2. CASE Environment
  <2>1. CASE \E body \in Signals, minute \in Minutes : Inject(body, minute)
    <3>1. Still /\ UNCHANGED <<up, scan, records>>
      BY <2>1 DEF Inject, Still, WorldOK, InboxOK
    <3> QED BY <3>1, StillWarranted
            DEF WorldOK, RecordsOK, WorkOK, CoverOK, CatchingUp, Still, Posted, Deleted
  <2>2. CASE HandlerRaises
    <3>1. Still /\ UNCHANGED <<up, scan, records>>
      BY <2>2, QueueHead DEF HandlerRaises, Still, chanVars, outVars, WorldOK
    <3> QED BY <3>1, StillWarranted
            DEF WorldOK, RecordsOK, WorkOK, CoverOK, CatchingUp, Still, Posted, Deleted
  <2>3. CASE Crash
    <3>1. inbox' = <<>> /\ <<>> \in Seq(Warranted)
      BY <2>3 DEF Crash
    <3>2. Still /\ UNCHANGED records /\ up' = "down" /\ scan' = Idle
      BY <2>3, <3>1 DEF Crash, Still, chanVars, outVars
    <3>3. RecordsOK' /\ WorkOK' /\ CoverOK'
      BY <3>2 DEF WorldOK, RecordsOK, WorkOK, CoverOK, Still, Posted, Idle, CatchingUp
    <3> QED BY <3>2, <3>3, StillWarranted DEF WorldOK
  <2>4. CASE \E m \in Msgs : (\E body \in MayPost[m] : Post(m, body))
                             \/ (\E body \in Bodies : Edit(m, body)) \/ Delete(m)
    BY <2>4, ChannelStep
  <2> QED BY <1>2, <2>1, <2>2, <2>3, <2>4 DEF Environment
<1>3. CASE UNCHANGED vars
  <2>1. Still /\ UNCHANGED <<up, scan, records>>
    BY <1>3 DEF vars, Still, WorldOK, InboxOK
  <2> QED BY <2>1, StillWarranted
          DEF WorldOK, RecordsOK, WorkOK, CoverOK, CatchingUp, Still, Posted, Deleted
<1> QED BY <1>1, <1>2, <1>3 DEF Next

\* A step that loses a line revokes a deleted message mapped to it.
LEMMA LossIsEarned ==
    ASSUME WorldOK, FeedOK, [Next]_vars, NEW l \in feed, l.n \notin F!Numbers(feed')
    PROVE  \E m \in Msgs : channel[m] = "deleted" /\ records[m].n = l.n
<1>0. l.n \in F!Numbers(feed)
  BY DEF F!Numbers
<1>1. CASE UNCHANGED feed
  BY <1>0, <1>1
<1>2. CASE HandleUpdate
  <2>1. Head(inbox) \in Warranted
    BY <1>2, QueueHead DEF HandleUpdate, WorldOK
  <2>2. Head(inbox).kind = "delete" /\ RevokeTracked(Head(inbox).m)
    BY <1>0, <1>2, ProcessKeepsLines DEF HandleUpdate
  <2> QED BY <2>1, <2>2, RevokeLosesOwnLine DEF Warranted, Deleted
<1>3. CASE CatchUpMessage
  BY <1>0, <1>3, ProcessKeepsLines DEF CatchUpMessage
<1>4. CASE CatchUpRevoke
  BY <1>4, RevokeLosesOwnLine DEF CatchUpRevoke, WorldOK, WorkOK, Deleted
<1>5. CASE \E body \in Signals, minute \in Minutes : Inject(body, minute)
  BY <1>0, <1>5, AddedLine DEF Inject
<1>6. UNCHANGED feed \/ HandleUpdate \/ CatchUpMessage \/ CatchUpRevoke
      \/ \E body \in Signals, minute \in Minutes : Inject(body, minute)
  BY DEF Next, Listener, Environment, vars, outVars, Post, Edit, Delete, HandlerRaises, Crash,
         Start, Scan, PlanDeletions, CatchUpDone
<1> QED BY <1>1, <1>2, <1>3, <1>4, <1>5, <1>6

-----------------------------------------------------------------------------
(* The listener keeps the engine's contract                                *)

\* The feed and the journal are what the contract says they are, and every mapped
\* line number was once a line's.
LinesOK  == feed \subseteq F!Line /\ F!Numbers(feed) \subseteq listed /\ listed \subseteq F!Number
MappedOK ==
    /\ DOMAIN records = Msgs
    /\ \A m \in Msgs :
          /\ records[m] = [status |-> records[m].status, n |-> records[m].n,
                           flags |-> records[m].flags]
          /\ Written(m) => records[m].n \in listed
BooksOK  == LinesOK /\ MappedOK /\ journal \in Seq(F!Record)

Promised == F!Next \/ UNCHANGED F!vars

\* A new record for m maps it to a listed number, if to any.
LEMMA Remapped ==
    ASSUME MappedOK, listed \subseteq listed', NEW m, NEW r,
           records' = records \/ records' = [records EXCEPT ![m] = r],
           r = [status |-> r.status, n |-> r.n, flags |-> r.flags],
           r.status = "written" => r.n \in listed'
    PROVE  MappedOK'
BY DEF MappedOK, Written

\* Announcing one record appends it; announcing none leaves the journal alone.
LEMMA JournalAppends ==
    ASSUME journal \in Seq(F!Record)
    PROVE  /\ journal \o <<>> = journal
           /\ \A x \in F!Record : /\ journal \o <<x>> = Append(journal, x)
                                  /\ Append(journal, x) \in Seq(F!Record)
<1>1. journal \o <<>> = journal
  OBVIOUS
<1>2. \A x \in F!Record : journal \o <<x>> = Append(journal, x)
  BY AppendIsConcat
<1> QED BY <1>1, <1>2, AppendProperties

\* A new line is one the contract allows.
LEMMA AddIsPromised ==
    ASSUME FeedOK, LinesOK, NEW body \in Signals, NEW minute \in Minutes,
           SameContent(feed, body, minute) = {}, feed' = WithLine(feed, body, minute),
           UNCHANGED journal, listed' = listed \cup F!Numbers(feed')
    PROVE  F!Next /\ LinesOK' /\ NextIndex(feed) \in listed'
<1> DEFINE n == NextIndex(feed)
           new == [n |-> n, body |-> body, minute |-> minute]
<1>1. /\ n \in F!Number /\ n \in {1} \cup {k + 1 : k \in F!Numbers(feed)}
      /\ \A l \in feed : l.n < n
  BY NextIsAbove DEF F!Number
<1>2. feed' = feed \cup {new}
  BY DEF WithLine
<1> HIDE DEF n
<1>3. listed' = listed \cup {n}
  <2>1. new.n = n
    OBVIOUS
  <2> HIDE DEF new
  <2>2. F!Numbers(feed') = F!Numbers(feed) \cup {n}
    BY <1>2, <2>1 DEF F!Numbers
  <2> QED BY <2>2 DEF LinesOK
<1>4. \A l \in feed : ~(l.body = body /\ l.minute = minute)
  BY DEF SameContent
<1>5. F!AddLine(n, body, minute)
  BY <1>1, <1>2, <1>3, <1>4 DEF F!AddLine, F!Silently
<1>6. F!Next
  BY <1>1, <1>5 DEF F!Next
<1>7. LinesOK'
  BY <1>1, <1>2, <1>3 DEF LinesOK, F!Numbers, F!Line
<1> QED BY <1>3, <1>6, <1>7 DEF n

\* A rewritten line is one the contract allows, announced or not.
LEMMA RewriteIsPromised ==
    ASSUME FeedOK, LinesOK, NEW n, NEW body \in Signals, NEW l \in feed, l.n = n, l.body # body,
           feed' = Rewritten(feed, n, body), listed' = listed \cup F!Numbers(feed'),
           UNCHANGED journal \/ journal' = Append(journal, F!Amend(n, body))
    PROVE  F!Next /\ LinesOK'
<1> DEFINE new == [l EXCEPT !.body = body]
<1>1. feed' = (feed \ {l}) \cup {new}
  BY DEF Rewritten, FeedOK, UniqueNumbers
<1>2. new \in F!Line /\ new.n = n /\ l \in F!Line
  BY DEF LinesOK, F!Line
<1>3. UNCHANGED listed
  BY <1>1, <1>2 DEF LinesOK, F!Numbers
<1>4. F!RewriteLine(l, body)
  BY <1>1, <1>3 DEF F!RewriteLine, F!Announce, F!Silently
<1>5. F!Next
  BY <1>4 DEF F!Next
<1>6. LinesOK'
  BY <1>1, <1>2, <1>3 DEF LinesOK, F!Numbers
<1> QED BY <1>5, <1>6

\* A revoke is one the contract allows, whether its line is still there or not.
LEMMA RevokeIsPromised ==
    ASSUME FeedOK, LinesOK, NEW n \in listed,
           feed' = Without(feed, n), listed' = listed \cup F!Numbers(feed'),
           UNCHANGED journal \/ journal' = Append(journal, F!Revoke(n))
    PROVE  Promised /\ LinesOK'
<1>1. feed' \subseteq feed
  BY DEF Without
<1>2. UNCHANGED listed
  BY <1>1 DEF LinesOK, F!Numbers
<1>3. LinesOK'
  BY <1>1, <1>2 DEF LinesOK, F!Numbers
<1>4. CASE \E l \in feed : l.n = n
  <2>1. PICK l \in feed : l.n = n
    BY <1>4
  <2>2. feed' = feed \ {l}
    BY <2>1 DEF Without, FeedOK, UniqueNumbers
  <2>3. F!RemoveLine(l)
    BY <1>2, <2>1, <2>2 DEF F!RemoveLine, F!Announce, F!Silently
  <2> QED BY <1>3, <2>3 DEF F!Next, Promised
<1>5. CASE \A l \in feed : l.n # n
  <2>1. UNCHANGED feed /\ n \notin F!Numbers(feed)
    BY <1>5 DEF Without, F!Numbers
  <2>2. CASE UNCHANGED journal
    BY <1>2, <1>3, <2>1, <2>2 DEF Promised, F!vars
  <2>3. CASE journal' = Append(journal, F!Revoke(n))
    <3>1. F!RevokeAgain(n)
      BY <1>2, <2>1, <2>3 DEF F!RevokeAgain, F!Announce
    <3> QED BY <1>3, <3>1 DEF F!Next, Promised
  <2> QED BY <2>2, <2>3
<1> QED BY <1>4, <1>5

\* _process_message keeps the contract and the books.
LEMMA ProcessIsPromised ==
    ASSUME FeedOK, BooksOK, NEW m \in Msgs, NEW body, NEW isEdit, Process(m, body, isEdit),
           listed' = listed \cup F!Numbers(feed')
    PROVE  Promised /\ BooksOK'
<1>1. ASSUME UNCHANGED <<feed, journal>>, NEW r,
             records' = records \/ records' = [records EXCEPT ![m] = r],
             r = [status |-> r.status, n |-> r.n, flags |-> r.flags],
             r.status = "written" => r.n \in listed
      PROVE  Promised /\ BooksOK'
  <2>1. UNCHANGED listed
    BY <1>1 DEF BooksOK, LinesOK
  <2>2. LinesOK' /\ journal' \in Seq(F!Record)
    BY <1>1, <2>1 DEF BooksOK, LinesOK
  <2>3. MappedOK'
    BY <1>1, <2>1, Remapped DEF BooksOK
  <2> QED BY <1>1, <2>1, <2>2, <2>3 DEF BooksOK, Promised, F!vars
<1>2. ASSUME NEW r, Durably(feed, m, r, <<>>),
             r = [status |-> r.status, n |-> r.n, flags |-> r.flags],
             r.status = "written" => r.n \in listed
      PROVE  Promised /\ BooksOK'
  BY <1>1, <1>2, JournalAppends DEF Durably, BooksOK
<1>3. CASE Ignore
  BY <1>1, <1>3 DEF Ignore, outVars, BooksOK, MappedOK, Written
<1>4. ASSUME NEW flag, Written(m), Flag(m, flag)
      PROVE  Promised /\ BooksOK'
  <2> DEFINE r == [records[m] EXCEPT !.flags = @ \cup {flag}]
  <2>1. Ignore \/ Durably(feed, m, r, <<>>)
    BY <1>4 DEF Flag
  <2>2. r = [status |-> r.status, n |-> r.n, flags |-> r.flags] /\ r.n \in listed
    <3>1. /\ records[m] = [status |-> records[m].status, n |-> records[m].n,
                           flags |-> records[m].flags]
          /\ records[m].n \in listed
      BY <1>4 DEF BooksOK, MappedOK
    <3> QED BY <3>1
  <2> HIDE DEF r
  <2> QED BY <1>2, <1>3, <2>1, <2>2
<1>5. ASSUME Written(m), body \in Signals, Amend(m, body)
      PROVE  Promised /\ BooksOK'
  <2> DEFINE n == records[m].n
             r == [records[m] EXCEPT !.flags = {}]
             note == F!Amend(n, body)
  <2>1. Ignore \/ (Durably(Rewritten(feed, n, body), m, r, <<note>>)
                   /\ \E l \in feed : l.n = n /\ l.body # body)
    BY <1>5 DEF Amend
  <2>2. r = [status |-> r.status, n |-> r.n, flags |-> r.flags] /\ r.n \in listed /\ n \in listed
    <3>1. /\ records[m] = [status |-> records[m].status, n |-> records[m].n,
                           flags |-> records[m].flags]
          /\ records[m].n \in listed
      BY <1>5 DEF BooksOK, MappedOK
    <3> QED BY <3>1
  <2>3. note \in F!Record
    BY <1>5, <2>2 DEF F!Record, F!Amend, BooksOK, LinesOK
  <2> HIDE DEF r, note
  <2>4. CASE Durably(Rewritten(feed, n, body), m, r, <<note>>)
             /\ \E l \in feed : l.n = n /\ l.body # body
    <3>1. PICK l \in feed : l.n = n /\ l.body # body
      BY <2>4
    <3>2. /\ feed' = Rewritten(feed, n, body)
          /\ UNCHANGED journal \/ journal' = Append(journal, note)
          /\ records' = records \/ records' = [records EXCEPT ![m] = r]
      BY <2>3, <2>4, JournalAppends DEF Durably, BooksOK
    <3>3. F!Next /\ LinesOK'
      BY <1>5, <3>1, <3>2, RewriteIsPromised DEF BooksOK, note
    <3>4. journal' \in Seq(F!Record)
      BY <2>3, <3>2, JournalAppends DEF BooksOK
    <3>5. MappedOK'
      BY <2>2, <3>2, Remapped DEF BooksOK
    <3> QED BY <3>3, <3>4, <3>5 DEF Promised, BooksOK
  <2> QED BY <1>3, <2>1, <2>4
<1>6. ASSUME body \in Signals, List(m, body)
      PROVE  Promised /\ BooksOK'
  <2> DEFINE same  == SameContent(feed, body, MinuteOf[m])
             first == (CHOOSE l \in same : \A k \in same : l.n <= k.n).n
             r(n)  == [status |-> "written", n |-> n, flags |-> {}]
  <2>1. CASE same = {}
    <3>1. Durably(WithLine(feed, body, MinuteOf[m]), m, r(NextIndex(feed)), <<>>)
      BY <1>6, <2>1 DEF List
    <3>2. /\ feed' = WithLine(feed, body, MinuteOf[m]) /\ UNCHANGED journal
          /\ records' = records \/ records' = [records EXCEPT ![m] = r(NextIndex(feed))]
      BY <3>1, JournalAppends DEF Durably, BooksOK
    <3>3. MinuteOf[m] \in Minutes
      BY DEF Minutes
    <3>4. F!Next /\ LinesOK' /\ NextIndex(feed) \in listed'
      BY <1>6, <2>1, <3>2, <3>3, AddIsPromised DEF BooksOK
    <3>5. MappedOK'
      BY <3>2, <3>4, Remapped DEF BooksOK
    <3> QED BY <3>2, <3>4, <3>5 DEF Promised, BooksOK
  <2>2. CASE same # {}
    <3>1. Durably(feed, m, r(first), <<>>)
      BY <1>6, <2>2 DEF List
    <3>2. first \in listed
      <4> DEFINE ns == {l.n : l \in same}
      <4>1. same \subseteq feed
        BY DEF SameContent
      <4> HIDE DEF same
      <4>2. ns \in SUBSET Nat /\ ns # {}
        BY <2>2, <4>1 DEF FeedOK
      <4>3. \E l \in same : \A k \in same : l.n <= k.n
        <5>1. Min(ns) \in ns /\ \A x \in ns : Min(ns) <= x
          BY <4>2, MinExists
        <5> QED BY <5>1
      <4> QED BY <4>1, <4>3 DEF BooksOK, LinesOK, F!Numbers
    <3> HIDE DEF first
    <3> QED BY <1>2, <3>1, <3>2
  <2> QED BY <2>1, <2>2
<1>7. CASE ListFails(m, body)
  <2> DEFINE r == [NoRecord EXCEPT !.status = "write_failed"]
  <2>1. r = [status |-> "write_failed", n |-> 0, flags |-> {}]
    BY DEF NoRecord
  <2> HIDE DEF r
  <2>2. UNCHANGED <<feed, journal>> /\ records' = [records EXCEPT ![m] = r]
    BY <1>7 DEF ListFails, r
  <2> QED BY <1>1, <2>1, <2>2
<1>8. CASE Durably(feed, m, [NoRecord EXCEPT !.status = "quarantined"], <<>>)
  <2> DEFINE r == [NoRecord EXCEPT !.status = "quarantined"]
  <2>1. r = [status |-> "quarantined", n |-> 0, flags |-> {}]
    BY DEF NoRecord
  <2>2. Durably(feed, m, r, <<>>)
    BY <1>8
  <2> HIDE DEF r
  <2> QED BY <1>2, <2>1, <2>2
<1> QED BY <1>3, <1>4, <1>5, <1>6, <1>7, <1>8 DEF Process

\* _revoke_tracked_message keeps the contract and the books.
LEMMA RevokeTrackedIsPromised ==
    ASSUME FeedOK, BooksOK, NEW m \in Msgs, RevokeTracked(m),
           listed' = listed \cup F!Numbers(feed')
    PROVE  Promised /\ BooksOK'
<1> DEFINE n == records[m].n
           r == [records[m] EXCEPT !.status = "deleted"]
           note == F!Revoke(n)
<1>1. CASE Ignore
  BY <1>1 DEF Ignore, outVars, BooksOK, MappedOK, LinesOK, Written, Promised, F!vars
<1>2. CASE Written(m) /\ Durably(Without(feed, n), m, r, <<note>>)
  <2>1. r = [status |-> r.status, n |-> r.n, flags |-> r.flags] /\ r.n \in listed /\ n \in listed
    BY <1>2 DEF BooksOK, MappedOK
  <2>2. note \in F!Record
    BY <2>1 DEF F!Record, F!Revoke, BooksOK, LinesOK
  <2> HIDE DEF r, note
  <2>3. /\ feed' = Without(feed, n)
        /\ UNCHANGED journal \/ journal' = Append(journal, note)
        /\ records' = records \/ records' = [records EXCEPT ![m] = r]
    BY <1>2, <2>2, JournalAppends DEF Durably, BooksOK
  <2>4. Promised /\ LinesOK'
    BY <2>1, <2>3, RevokeIsPromised DEF BooksOK, note
  <2>5. journal' \in Seq(F!Record)
    BY <2>2, <2>3, JournalAppends DEF BooksOK
  <2>6. MappedOK'
    BY <2>1, <2>3, Remapped DEF BooksOK
  <2> QED BY <2>4, <2>5, <2>6 DEF BooksOK
<1> QED BY <1>1, <1>2 DEF RevokeTracked

LEMMA InjectIsPromised ==
    ASSUME FeedOK, BooksOK, NEW body \in Signals, NEW minute \in Minutes, Inject(body, minute)
    PROVE  Promised /\ BooksOK'
<1>1. F!Next /\ LinesOK'
  BY AddIsPromised DEF Inject, BooksOK
<1>2. UNCHANGED <<records, journal>> /\ listed \subseteq listed'
  BY DEF Inject
<1> QED BY <1>1, <1>2 DEF BooksOK, MappedOK, Written, Promised

\* Every step of the listener is a step of the contract or leaves its files alone.
LEMMA StepIsPromised ==
    ASSUME WorldOK, FeedOK, BooksOK, [Next]_vars
    PROVE  Promised /\ BooksOK'
<1>1. CASE UNCHANGED <<records, feed, journal, listed>>
  BY <1>1 DEF BooksOK, LinesOK, MappedOK, Written, Promised, F!vars
<1>2. CASE HandleUpdate
  <2>1. Head(inbox).m \in Msgs
    BY <1>2, QueueHead DEF HandleUpdate, WorldOK, Warranted, UpdateType
  <2> QED BY <1>2, <2>1, ProcessIsPromised, RevokeTrackedIsPromised DEF HandleUpdate, Remember
<1>3. CASE CatchUpMessage
  <2>1. \A w \in scan.todo : w.m \in Msgs
    BY <1>3 DEF CatchUpMessage, WorldOK, WorkOK
  <2> QED BY <1>3, <2>1, ProcessIsPromised DEF CatchUpMessage, Remember
<1>4. CASE CatchUpRevoke
  <2>1. PICK m \in scan.todo : RevokeTracked(m)
    BY <1>4 DEF CatchUpRevoke
  <2>2. m \in Msgs
    BY <1>4 DEF CatchUpRevoke, WorldOK, WorkOK, Deleted
  <2>3. UNCHANGED listed /\ feed' \subseteq feed
    BY <1>4, <2>1 DEF CatchUpRevoke, history, RevokeTracked, Ignore, outVars, Durably, Without
  <2>4. listed' = listed \cup F!Numbers(feed')
    BY <2>3 DEF BooksOK, LinesOK, F!Numbers
  <2> QED BY <2>1, <2>2, <2>4, RevokeTrackedIsPromised
<1>5. CASE \E body \in Signals, minute \in Minutes : Inject(body, minute)
  BY <1>5, InjectIsPromised
<1>6. UNCHANGED <<records, feed, journal, listed>> \/ HandleUpdate \/ CatchUpMessage
      \/ CatchUpRevoke \/ \E body \in Signals, minute \in Minutes : Inject(body, minute)
  BY DEF Next, Listener, Environment, vars, outVars, history, lineage, Post, Edit, Delete,
         HandlerRaises, Crash, Start, Scan, PlanDeletions, CatchUpDone
<1> QED BY <1>1, <1>2, <1>3, <1>4, <1>5, <1>6

\* The invariant the removals and the contract both rest on holds initially.
LEMMA InitOK == Init => WorldOK /\ FeedOK /\ BooksOK
<1>1. Init => ChannelOK /\ RecordsOK
  BY DEF Init, ChannelOK, RecordsOK, Posted, NoRecord
<1>2. Init => InboxOK
  BY DEF Init, InboxOK
<1>3. Init => WorkOK /\ CoverOK /\ FeedOK
  BY DEF Init, WorkOK, CoverOK, CatchingUp, Idle, FeedOK, UniqueNumbers
<1>4. Init => BooksOK
  <2>1. Init => LinesOK
    BY DEF Init, LinesOK, F!Numbers
  <2>2. Init => MappedOK
    BY DEF Init, MappedOK, NoRecord, Written
  <2>3. Init => journal \in Seq(F!Record)
    BY DEF Init
  <2> QED BY <2>1, <2>2, <2>3 DEF BooksOK
<1> QED BY <1>1, <1>2, <1>3, <1>4 DEF WorldOK

\* The feed never loses the line of a message VICTOR left standing: neither a queued
\* delete, nor the catch-up's inference from a snapshot that live updates have
\* overtaken, nor a restart in the middle of either can remove it.
THEOREM RemovalNeedsDeletion == Spec => RemovalIsEarned
<1>1. Init => WorldOK /\ FeedOK
  BY InitOK
<1>2. (WorldOK /\ FeedOK) /\ [Next]_vars => (WorldOK /\ FeedOK)'
  BY WorldStep, FeedStep
<1>3. (WorldOK /\ FeedOK) /\ [Next]_vars =>
        [\A l \in feed : l.n \notin F!Numbers(feed') =>
           \E m \in Msgs : channel[m] = "deleted" /\ records[m].n = l.n]_vars
  BY LossIsEarned
<1> QED BY <1>1, <1>2, <1>3, PTL DEF Spec, RemovalIsEarned

\* The listener implements the contract: all the engine can see of it, across crashes,
\* failed writes, replays and interleaved updates, is new lines numbered above the
\* others, rewritten lines, removed lines, and announcements never ahead of the change.
THEOREM ListenerKeepsContract == Spec => Contract
<1>1. Init => F!Init
  BY DEF Init, F!Init
<1>2. Init => WorldOK /\ FeedOK /\ BooksOK
  BY InitOK
<1>3. (WorldOK /\ FeedOK /\ BooksOK) /\ [Next]_vars => (WorldOK /\ FeedOK /\ BooksOK)'
  BY WorldStep, FeedStep, StepIsPromised
<1>4. (WorldOK /\ FeedOK /\ BooksOK) /\ [Next]_vars => [F!Next]_F!vars
  BY StepIsPromised DEF Promised
<1> QED BY <1>1, <1>2, <1>3, <1>4, PTL DEF Spec, Contract, F!Spec

-----------------------------------------------------------------------------
(* At rest the feed follows the channel                                    *)

Queued(m) == \E i \in DOMAIN inbox : inbox[i].m = m

\* The last update that waits about a message tells what the channel holds.
Latest(u) == channel[u.m] = IF u.kind = "delete" THEN "deleted" ELSE u.body
LastOf(i) == \A j \in DOMAIN inbox : i < j => inbox[j].m # inbox[i].m
FirstOf(i) == \A j \in DOMAIN inbox : j < i => inbox[j].m # inbox[i].m

MailOK ==
    /\ up = "down" => inbox = <<>>
    /\ \A i \in DOMAIN inbox : LastOf(i) => Latest(inbox[i])
    /\ \A i \in DOMAIN inbox : inbox[i].kind = "new" =>
          /\ inbox[i].m \notin raced => FirstOf(i) /\ records[inbox[i].m].status = "none"
          /\ CatchingUp => inbox[i].m \in raced /\ scan.last < inbox[i].m

\* A written message owns its number, and the line of the only owner stays as long as
\* the message does.
HasLine(m) == \E l \in feed : l.n = records[m].n
OwnedOK ==
    \A m \in Msgs : Written(m) =>
        /\ <<records[m].n, m>> \in owners
        /\ Sole(m) /\ channel[m] # "deleted" => HasLine(m)

\* The two halves of Follows.
Kept(m) == channel[m] \in Signals /\ Written(m) /\ Sole(m) =>
               \E l \in feed : l.n = records[m].n /\ l.body = channel[m]
Gone(m) == channel[m] = "deleted" => ~Written(m)

\* What no update and no work is left for follows the channel, or will once the catch-up
\* has revoked what it found missing.
Settling(m) ==
    /\ up = "starting" /\ scan.last < m => records[m].status = "none" /\ ~Queued(m)
    /\ up = "catching" /\ ~Queued(m) /\ (\A w \in scan.todo : w.m # m) =>
          Kept(m) /\ (Gone(m) \/ (m \notin scan.seen /\ scan.low # 0 /\ scan.low <= m /\ m <= scan.last))
    /\ up = "revoking" /\ ~Queued(m) => Kept(m) /\ (Gone(m) \/ m \in scan.todo)
    /\ up = "live" /\ ~Queued(m) => Follows(m)

\* The work of the scan is what the channel still holds.
ScanOK ==
    up = "catching" => \A w \in scan.todo :
        /\ \A v \in scan.todo : v.m = w.m => v = w
        /\ w.m \notin raced =>
              /\ w.body = channel[w.m]
              /\ ~w.isEdit => records[w.m].status = "none" /\ ~Queued(w.m)

QuietOK ==
    /\ MailOK /\ OwnedOK /\ ScanOK
    /\ \A m \in Msgs \ raced : up = "starting" \/ m \notin beyond => Settling(m)

\* What a handler of m leaves alone: the other records, and the lines not mapped to m.
Spares(m) ==
    /\ DOMAIN records' = Msgs /\ \A x \in Msgs : x # m => records'[x] = records[x]
    /\ \A l \in feed : ~Written(m) \/ l.n # records[m].n => l \in feed'
    /\ owners \subseteq owners'

Owned(m) ==
    Written(m) => /\ <<records[m].n, m>> \in owners
                  /\ Sole(m) /\ channel[m] # "deleted" => HasLine(m)

\* Nobody else's line is the line of a message that is alone with its number.
LEMMA OthersKept ==
    ASSUME OwnedOK, UNCHANGED channel, NEW m \in Msgs, Spares(m), NEW x \in Msgs, x # m
    PROVE  /\ Written(x)' = Written(x) /\ Owned(x)'
           /\ (Kept(x) => Kept(x)') /\ (Gone(x) => Gone(x)') /\ (Follows(x) => Follows(x)')
<1>1. records'[x] = records[x] /\ (Sole(x)' => Sole(x))
  BY DEF Spares, Sole
<1>2. ASSUME Written(x), Sole(x), NEW l \in feed, l.n = records[x].n
      PROVE  l \in feed'
  <2>1. Written(m) => <<records[m].n, m>> \in owners
    BY DEF OwnedOK
  <2>2. Written(m) => records[m].n # records[x].n
    BY <1>2, <2>1 DEF Sole
  <2> QED BY <1>2, <2>2 DEF Spares
<1>3. Written(x) => <<records'[x].n, x>> \in owners'
  BY <1>1 DEF OwnedOK, Spares
<1> QED BY <1>1, <1>2, <1>3 DEF Owned, OwnedOK, HasLine, Written, Kept, Gone, Follows

\* The message a handler was about: it owns its line, and what was processed is what the
\* feed says, if it came to be.
Treated(m, body, isEdit) ==
    /\ Spares(m) /\ Owned(m)'
    /\ up' # "down" /\ body = channel[m] /\ (isEdit \/ records[m].status = "none") => Follows(m)'

LEMMA ProcessTreats ==
    ASSUME FeedOK, OwnedOK, MappedOK, DOMAIN records = Msgs, up # "down", UNCHANGED channel,
           NEW m \in Msgs, NEW body, NEW isEdit, Process(m, body, isEdit),
           owners' = owners \cup {<<records'[x].n, x>> : x \in Msgs}
    PROVE  Treated(m, body, isEdit)
<1>1. owners \subseteq owners' /\ <<records'[m].n, m>> \in owners' /\ Owned(m)
  BY DEF OwnedOK, Owned
<1>2. ASSUME feed' = feed, records' = records,
             up' # "down" /\ body = channel[m] /\ (isEdit \/ records[m].status = "none") => Follows(m)
      PROVE  Treated(m, body, isEdit)
  <2>1. Spares(m) /\ (Sole(m)' => Sole(m))
    BY <1>1, <1>2 DEF Spares, Sole
  <2> QED BY <1>1, <1>2, <2>1 DEF Treated, Owned, HasLine, Written, Follows
<1>3. CASE Ignore /\ ~isEdit /\ records[m].status \in {"written", "quarantined", "write_failed"}
  BY <1>2, <1>3 DEF Ignore, outVars
<1>4. CASE Ignore /\ body = "plain" /\ ~Written(m)
  <2>1. body \notin Signals /\ body # "deleted"
    BY <1>4, BodiesAssumption
  <2> QED BY <1>2, <1>4, <2>1 DEF Ignore, outVars, Follows
<1>5. ASSUME NEW flag, Flag(m, flag), Written(m), body \in {"junk", "plain"}
      PROVE  Treated(m, body, isEdit)
  <2>1. body \notin Signals /\ body # "deleted"
    BY <1>5, BodiesAssumption
  <2>2. CASE Ignore
    BY <1>2, <2>1, <2>2 DEF Ignore, outVars, Follows
  <2>3. CASE Durably(feed, m, [records[m] EXCEPT !.flags = @ \cup {flag}], <<>>)
    <3> DEFINE r == [records[m] EXCEPT !.flags = @ \cup {flag}]
    <3>1. feed' = feed /\ (records' = records \/ records' = [records EXCEPT ![m] = r])
      BY <2>3 DEF Durably
    <3>2. records'[m].n = records[m].n
      BY <1>5, <3>1 DEF MappedOK
    <3> HIDE DEF r
    <3>3. Spares(m) /\ (Sole(m)' => Sole(m))
      BY <1>1, <3>1, <3>2 DEF Spares, Sole
    <3> QED BY <1>1, <1>5, <2>1, <3>1, <3>2, <3>3 DEF Treated, Owned, HasLine, Follows
  <2> QED BY <1>5, <2>2, <2>3 DEF Flag
<1>6. CASE Amend(m, body) /\ Written(m) /\ body \in Signals
  <2> DEFINE n == records[m].n
             r == [records[m] EXCEPT !.flags = {}]
             note == <<F!Amend(n, body)>>
  <2>1. body # "deleted"
    BY <1>6, BodiesAssumption
  <2>2. CASE Ignore /\ \A l \in feed : l.n = n => l.body = body
    <3>1. body = channel[m] => Follows(m)
      BY <1>1, <1>6, <2>1, <2>2 DEF Owned, HasLine, Follows
    <3> QED BY <1>2, <2>2, <3>1 DEF Ignore, outVars
  <2>3. CASE Durably(Rewritten(feed, n, body), m, r, note)
    <3>1. /\ feed' = Rewritten(feed, n, body)
          /\ records' = records \/ records' = [records EXCEPT ![m] = r]
      BY <2>3 DEF Durably
    <3>2. records'[m].n = n
      BY <1>6, <3>1 DEF MappedOK
    <3> HIDE DEF r, note
    <3>3. \A l \in feed : /\ l.n # n => l \in feed'
                          /\ l.n = n => \E k \in feed' : k.n = n /\ k.body = body
      <4>1. SUFFICES ASSUME NEW l \in feed
                     PROVE  /\ l.n # n => l \in feed'
                            /\ l.n = n => \E k \in feed' : k.n = n /\ k.body = body
        OBVIOUS
      <4>2. l = [n |-> l.n, body |-> l.body, minute |-> l.minute]
        BY DEF FeedOK
      <4>3. (IF l.n = n THEN [l EXCEPT !.body = body] ELSE l) \in feed'
        BY <3>1 DEF Rewritten
      <4>4. LET k == [l EXCEPT !.body = body] IN k.n = l.n /\ k.body = body
        BY <4>2
      <4> QED BY <4>3, <4>4
    <3>4. Spares(m) /\ (Sole(m)' => Sole(m))
      BY <1>1, <1>6, <3>1, <3>2, <3>3 DEF Spares, Sole
    <3>5. Owned(m)'
      BY <1>1, <1>6, <3>2, <3>3, <3>4 DEF Owned, HasLine
    <3>6. body = channel[m] => Follows(m)'
      BY <1>1, <1>6, <2>1, <3>2, <3>3, <3>4 DEF Owned, HasLine, Follows
    <3> QED BY <3>4, <3>5, <3>6 DEF Treated
  <2> QED BY <1>6, <2>2, <2>3 DEF Amend
<1>7. CASE Durably(feed, m, [NoRecord EXCEPT !.status = "quarantined"], <<>>) /\ ~Written(m) /\ body = "junk"
  <2> DEFINE r == [NoRecord EXCEPT !.status = "quarantined"]
  <2>1. feed' = feed /\ (records' = records \/ records' = [records EXCEPT ![m] = r])
    BY <1>7 DEF Durably
  <2>2. ~Written(m)'
    BY <1>7, <2>1 DEF Written, NoRecord
  <2>3. body # "deleted"
    BY <1>7, BodiesAssumption
  <2> HIDE DEF r
  <2>4. Spares(m)
    BY <1>1, <2>1 DEF Spares
  <2> QED BY <2>2, <2>3, <2>4 DEF Treated, Owned, Follows
<1>8. CASE List(m, body) /\ ~Written(m) /\ body \in Signals
  <2> DEFINE same == SameContent(feed, body, MinuteOf[m])
             n    == IF same = {} THEN NextIndex(feed) ELSE (CHOOSE l \in same : \A k \in same : l.n <= k.n).n
             r    == [status |-> "written", n |-> n, flags |-> {}]
             f    == IF same = {} THEN WithLine(feed, body, MinuteOf[m]) ELSE feed
  <2>1. feed \subseteq f /\ \E l \in f : l.n = n /\ l.body = body
    <3>1. CASE same = {}
      <4> DEFINE new == [n |-> NextIndex(feed), body |-> body, minute |-> MinuteOf[m]]
      <4>1. n = NextIndex(feed) /\ f = feed \cup {new} /\ new.n = NextIndex(feed) /\ new.body = body
        BY <3>1 DEF WithLine
      <4> HIDE DEF f, n, same, new
      <4> QED BY <4>1
    <3>2. CASE same # {}
      <4>1. \E l \in same : \A k \in same : l.n <= k.n
        <5> DEFINE S == {k.n : k \in same}
        <5>1. S \in SUBSET Nat /\ S # {}
          BY <3>2 DEF SameContent, FeedOK
        <5>2. Min(S) \in S /\ \A z \in S : Min(S) <= z
          BY <5>1, MinExists
        <5>3. PICK l \in same : l.n = Min(S)
          BY <5>2
        <5>4. \A k \in same : k.n \in S
          OBVIOUS
        <5> QED BY <5>2, <5>3, <5>4
      <4> DEFINE first == CHOOSE l \in same : \A k \in same : l.n <= k.n
      <4>2. first \in same
        BY <4>1
      <4>3. f = feed /\ n = first.n
        BY <3>2
      <4>4. \A l \in same : l \in feed /\ l.body = body
        BY DEF SameContent
      <4> HIDE DEF f, n, same, first
      <4> QED BY <4>2, <4>3, <4>4
    <3> QED BY <3>1, <3>2
  <2>2. /\ feed' = f
        /\ \/ records' = [records EXCEPT ![m] = r]
           \/ records' = records /\ up' = "down"
    BY <1>8 DEF List, Durably
  <2>3. r.n = n /\ r.status = "written"
    OBVIOUS
  <2> HIDE DEF r, f, n, same
  <2>4. Spares(m)
    BY <1>1, <2>1, <2>2 DEF Spares
  <2>5. body # "deleted"
    BY <1>8, BodiesAssumption
  <2>6. CASE records' = [records EXCEPT ![m] = r]
    BY <1>1, <2>1, <2>2, <2>3, <2>4, <2>5, <2>6 DEF Treated, Owned, HasLine, Follows, Written
  <2>7. CASE records' = records /\ up' = "down"
    BY <1>8, <2>4, <2>7 DEF Treated, Owned, Written
  <2> QED BY <2>2, <2>6, <2>7
<1>9. CASE ListFails(m, body) /\ ~Written(m) /\ body \in Signals
  <2>1. /\ feed' = feed /\ ~Written(m)'
        /\ \E r : records' = [records EXCEPT ![m] = r]
    BY <1>9 DEF ListFails, Written, NoRecord
  <2>2. Spares(m) /\ body # "deleted"
    BY <1>1, <1>9, <2>1, BodiesAssumption DEF Spares
  <2> QED BY <2>1, <2>2 DEF Treated, Owned, Follows
<1> QED BY <1>3, <1>4, <1>5, <1>6, <1>7, <1>8, <1>9 DEF Process

LEMMA RevokeTreats ==
    ASSUME OwnedOK, MappedOK, DOMAIN records = Msgs, UNCHANGED channel,
           NEW m \in Deleted, RevokeTracked(m), owners \subseteq owners'
    PROVE  Spares(m) /\ Owned(m)' /\ (up' # "down" => Follows(m)')
<1>1. m \in Msgs /\ channel[m] = "deleted" /\ channel[m] \notin Signals
  BY BodiesAssumption DEF Deleted
<1>2. CASE Ignore /\ ~Written(m)
  <2>1. feed' = feed /\ records' = records
    BY <1>2 DEF Ignore, outVars
  <2> QED BY <1>1, <1>2, <2>1 DEF Spares, Owned, Follows, Written
<1>3. CASE Written(m) /\ Durably(Without(feed, records[m].n), m, [records[m] EXCEPT !.status = "deleted"],
                                 <<F!Revoke(records[m].n)>>)
  <2> DEFINE r == [records[m] EXCEPT !.status = "deleted"]
  <2>1. /\ feed' = Without(feed, records[m].n)
        /\ records' = [records EXCEPT ![m] = r] \/ (records' = records /\ up' = "down")
    BY <1>3 DEF Durably
  <2>2. r.n = records[m].n /\ r.status # "written"
    BY <1>3 DEF MappedOK
  <2> HIDE DEF r
  <2>3. Spares(m)
    BY <1>3, <2>1 DEF Spares, Without
  <2>4. Owned(m)'
    BY <1>1, <2>1, <2>2 DEF Owned, OwnedOK, Written
  <2> QED BY <1>1, <2>1, <2>2, <2>3, <2>4 DEF Follows, Written
<1> QED BY <1>2, <1>3 DEF RevokeTracked

Reachable == WorldOK /\ FeedOK /\ BooksOK

\* The queue as a function of its positions.
LEMMA QueueShape ==
    ASSUME InboxOK
    PROVE  /\ Len(inbox) \in Nat /\ DOMAIN inbox = 1..Len(inbox)
           /\ \A i \in DOMAIN inbox : inbox[i] \in Warranted
           /\ \A u \in Warranted' : inbox \in Seq(Warranted') /\ inbox' = Append(inbox, u) =>
                 /\ DOMAIN inbox' = 1..(Len(inbox) + 1) /\ inbox'[Len(inbox) + 1] = u
                 /\ \A i \in DOMAIN inbox : inbox'[i] = inbox[i]
           /\ inbox # <<>> =>
                 /\ Len(inbox) > 0 /\ Head(inbox) = inbox[1]
                 /\ inbox' = Tail(inbox) =>
                       /\ DOMAIN inbox' = 1..(Len(inbox) - 1)
                       /\ \A i \in DOMAIN inbox' : inbox'[i] = inbox[i + 1]
<1> HIDE DEF Warranted
<1>1. /\ Len(inbox) \in Nat /\ DOMAIN inbox = 1..Len(inbox)
      /\ \A i \in DOMAIN inbox : inbox[i] \in Warranted
  BY ElementOfSeq, LenProperties DEF InboxOK
<1>2. ASSUME NEW u \in Warranted', inbox \in Seq(Warranted'), inbox' = Append(inbox, u)
      PROVE  /\ DOMAIN inbox' = 1..(Len(inbox) + 1) /\ inbox'[Len(inbox) + 1] = u
             /\ \A i \in DOMAIN inbox : inbox'[i] = inbox[i]
  <2>1. /\ inbox' \in Seq(Warranted') /\ Len(inbox') = Len(inbox) + 1
        /\ \A i \in 1..Len(inbox) : inbox'[i] = inbox[i]
        /\ inbox'[Len(inbox) + 1] = u
    BY <1>2, AppendProperties
  <2> QED BY <1>1, <2>1, LenProperties
<1>3. ASSUME inbox # <<>>
      PROVE  /\ Len(inbox) > 0 /\ Head(inbox) = inbox[1]
             /\ inbox' = Tail(inbox) =>
                   /\ DOMAIN inbox' = 1..(Len(inbox) - 1)
                   /\ \A i \in DOMAIN inbox' : inbox'[i] = inbox[i + 1]
  BY <1>1, <1>3, HeadTailProperties DEF InboxOK
<1> QED BY <1>1, <1>2, <1>3

\* Taking the head of the queue disturbs what waits about its message only.
LEMMA PoppedMail ==
    ASSUME InboxOK, MailOK, DOMAIN records = Msgs, inbox # <<>>, NEW h, h = Head(inbox).m,
           inbox' = Tail(inbox), up' # "down",
           UNCHANGED <<channel, up>>, scan'.last = scan.last, raced \subseteq raced',
           \A x \in Msgs : x # h => records'[x] = records[x]
    PROVE  /\ MailOK'
           /\ \A x \in Msgs : Queued(x)' => Queued(x)
           /\ \A x \in Msgs : x # h => (Queued(x)' <=> Queued(x))
           /\ Queued(h) /\ (~Queued(h)' => LastOf(1))
<1> DEFINE L == Len(inbox)
<1>1. /\ L \in Nat /\ L > 0 /\ DOMAIN inbox = 1..L /\ Head(inbox) = inbox[1]
      /\ DOMAIN inbox' = 1..(L - 1) /\ \A i \in 1..(L - 1) : inbox'[i] = inbox[i + 1]
      /\ \A i \in 1..L : inbox[i].m \in Msgs
  BY QueueShape DEF Warranted, UpdateType
<1> HIDE DEF L
<1>2. \A i \in 1..(L - 1) : i + 1 \in 1..L
  BY <1>1
<1>3. \A i \in 2..L : i - 1 \in 1..(L - 1) /\ inbox'[i - 1] = inbox[i]
  BY <1>1
<1>4. ASSUME NEW i \in 1..(L - 1), LastOf(i)' PROVE Latest(inbox[i])'
  <2>1. LastOf(i + 1)
    <3>1. SUFFICES ASSUME NEW j \in 1..L, i + 1 < j PROVE inbox[j].m # inbox[i + 1].m
      BY <1>1 DEF LastOf
    <3>2. j - 1 \in 1..(L - 1) /\ i < j - 1 /\ inbox'[j - 1] = inbox[j]
      BY <1>1, <3>1
    <3> QED BY <1>1, <1>4, <3>2 DEF LastOf
  <2>2. Latest(inbox[i + 1])
    BY <1>1, <1>2, <2>1 DEF MailOK
  <2> QED BY <1>1, <2>1, <2>2 DEF Latest
<1>5. ASSUME NEW i \in 1..(L - 1), inbox'[i].kind = "new"
      PROVE  /\ inbox'[i].m \notin raced' => FirstOf(i)' /\ records'[inbox'[i].m].status = "none"
             /\ CatchingUp => inbox'[i].m \in raced' /\ scan.last < inbox'[i].m
  <2>1. inbox'[i] = inbox[i + 1] /\ i + 1 \in 1..L /\ 1 < i + 1
    BY <1>1
  <2>2. CatchingUp => inbox'[i].m \in raced' /\ scan.last < inbox'[i].m
    BY <1>1, <1>5, <2>1 DEF MailOK
  <2>3. ASSUME inbox'[i].m \notin raced'
        PROVE  FirstOf(i)' /\ records'[inbox'[i].m].status = "none"
    <3>1. FirstOf(i + 1) /\ records[inbox[i + 1].m].status = "none"
      BY <1>1, <1>5, <2>1, <2>3 DEF MailOK
    <3>2. inbox[1].m # inbox[i + 1].m
      <4>1. 1 \in DOMAIN inbox
        BY <1>1
      <4> QED BY <2>1, <3>1, <4>1 DEF FirstOf
    <3>3. \A j \in 1..(L - 1) : j < i => inbox'[j].m # inbox'[i].m
      BY <1>1, <1>2, <2>1, <3>1 DEF FirstOf
    <3> QED BY <1>1, <2>1, <3>1, <3>2, <3>3 DEF FirstOf
  <2> QED BY <2>2, <2>3
<1>6. MailOK'
  BY <1>1, <1>4, <1>5 DEF MailOK, CatchingUp
<1>7. \A x \in Msgs : Queued(x)' => Queued(x)
  BY <1>1, <1>2 DEF Queued
<1>8. \A x \in Msgs : x # h => (Queued(x)' <=> Queued(x))
  <2>1. ASSUME NEW x \in Msgs, x # h, NEW i \in 1..L, inbox[i].m = x
        PROVE  Queued(x)'
    <3>1. i - 1 \in 1..(L - 1) /\ inbox'[i - 1] = inbox[i]
      BY <1>1, <2>1
    <3> QED BY <1>1, <2>1, <3>1 DEF Queued
  <2> QED BY <1>1, <1>7, <2>1 DEF Queued
<1>9. Queued(h)
  BY <1>1 DEF Queued
<1>10. ~Queued(h)' => LastOf(1)
  <2>1. SUFFICES ASSUME ~Queued(h)', NEW j \in 1..L, 1 < j
                 PROVE  inbox[j].m # inbox[1].m
    BY <1>1 DEF LastOf
  <2>2. j - 1 \in 1..(L - 1) /\ inbox'[j - 1] = inbox[j]
    BY <1>1, <2>1
  <2> QED BY <1>1, <2>1, <2>2 DEF Queued
<1> QED BY <1>6, <1>7, <1>8, <1>9, <1>10

\* A step that leaves the listener down owes only that owners keep their lines.
LEMMA DownIsQuiet ==
    ASSUME up' = "down", inbox' = <<>>, OwnedOK'
    PROVE  QuietOK'
BY DEF QuietOK, MailOK, ScanOK, Settling, CatchingUp

\* What a handler of m that finished does to the rest of the invariant.
LEMMA TreatedOwners ==
    ASSUME OwnedOK, UNCHANGED channel, NEW m \in Msgs, Spares(m), Owned(m)'
    PROVE  OwnedOK'
<1>1. \A x \in Msgs : Owned(x)'
  BY OthersKept
<1> QED BY <1>1 DEF OwnedOK, Owned

\* A live update: the last one about its message says what the channel says.
LEMMA UpdateSettles ==
    ASSUME Reachable, QuietOK, HandleUpdate
    PROVE  QuietOK'
<1> DEFINE u == inbox[1]
<1>0. PICK m : m = Head(inbox).m
  OBVIOUS
<1>1. /\ inbox # <<>> /\ up # "down" /\ Head(inbox) = u /\ u \in Warranted /\ m = u.m
      /\ m \in Msgs /\ Posted(m) /\ UNCHANGED <<channel, raced, beyond>> /\ 1 \in DOMAIN inbox
      /\ DOMAIN records = Msgs /\ MappedOK /\ FeedOK /\ OwnedOK /\ MailOK /\ ScanOK
      /\ owners' = owners \cup {<<records'[x].n, x>> : x \in Msgs}
      /\ IF u.kind = "delete" THEN RevokeTracked(m) ELSE Process(m, u.body, u.kind = "edit")
  <2>1. inbox # <<>> /\ InboxOK
    BY DEF HandleUpdate, Reachable, WorldOK
  <2>2. Head(inbox) = u /\ u \in Warranted /\ 1 \in DOMAIN inbox
    BY <2>1, QueueShape
  <2> QED BY <1>0, <2>1, <2>2 DEF HandleUpdate, Running, Remember, chanVars, Reachable, BooksOK, MappedOK,
                               QuietOK, Warranted, UpdateType
<1>2. u.kind = "delete" => m \in Deleted
  BY <1>1 DEF Warranted
<1>3. owners \subseteq owners'
  BY <1>1
<1>4. /\ Spares(m) /\ Owned(m)'
      /\ up' # "down" /\ LastOf(1) /\ m \notin raced => Follows(m)'
  <2>1. CASE u.kind = "delete"
    BY <1>1, <1>2, <1>3, <2>1, RevokeTreats
  <2>2. CASE u.kind # "delete"
    <3>1. Treated(m, u.body, u.kind = "edit")
      BY <1>1, <2>2, ProcessTreats
    <3>2. LastOf(1) => channel[m] = u.body
      BY <1>1, <2>2 DEF MailOK, Latest
    <3>3. m \notin raced => u.kind = "edit" \/ records[m].status = "none"
      BY <1>1, <2>2 DEF MailOK, Warranted, UpdateType
    <3> QED BY <3>1, <3>2, <3>3 DEF Treated
  <2> QED BY <2>1, <2>2
<1>5. OwnedOK'
  BY <1>1, <1>4, TreatedOwners
<1> HIDE DEF u
<1>6. CASE up' = "down"
  BY <1>5, <1>6, DownIsQuiet DEF HandleUpdate, AfterHandler
<1>7. CASE up' # "down"
  <2>1. up' = up /\ inbox' = Tail(inbox) /\ scan' = scan
    BY <1>1, <1>7, ProcessKeepsLines, RevokeLosesOwnLine DEF HandleUpdate, AfterHandler, Handles
  <2>2. /\ MailOK' /\ \A x \in Msgs : Queued(x)' => Queued(x)
        /\ \A x \in Msgs : x # m => (Queued(x)' <=> Queued(x))
        /\ Queued(m) /\ (~Queued(m)' => LastOf(1))
    BY <1>0, <1>1, <1>4, <1>7, <2>1, PoppedMail DEF Spares, Reachable, WorldOK
  <2>3. ScanOK'
    <3>1. SUFFICES ASSUME up = "catching", NEW w \in scan.todo, w.m \notin raced, ~w.isEdit
                   PROVE  records'[w.m].status = "none" /\ ~Queued(w.m)'
      BY <1>1, <2>1 DEF ScanOK
    <3>2. w.m \in Msgs /\ records[w.m].status = "none" /\ ~Queued(w.m)
      BY <1>1, <3>1 DEF ScanOK, Reachable, WorldOK, WorkOK
    <3> QED BY <1>4, <2>2, <3>2 DEF Spares
  <2>4. ASSUME NEW x \in Msgs \ raced, up = "starting" \/ x \notin beyond
        PROVE  Settling(x)'
    <3>1. Settling(x)
      BY <2>4 DEF QuietOK
    <3>2. CASE x = m
      BY <1>4, <2>1, <2>2, <2>4, <3>1, <3>2, <1>7 DEF Settling, Follows, Kept, Gone
    <3>3. CASE x # m
      <4>1. /\ Queued(x)' <=> Queued(x)
            /\ (Kept(x) => Kept(x)') /\ (Gone(x) => Gone(x)') /\ (Follows(x) => Follows(x)')
            /\ records'[x] = records[x]
        BY <1>1, <1>4, <2>2, <3>3, OthersKept DEF Spares
      <4> QED BY <2>1, <3>1, <4>1 DEF Settling
    <3> QED BY <3>2, <3>3
  <2> QED BY <1>1, <1>5, <2>1, <2>2, <2>3, <2>4 DEF QuietOK
<1> QED BY <1>6, <1>7

\* What a catch-up handler takes off the list.
LEMMA WorkTaken ==
    ASSUME CoverOK, NEW w, scan' = [scan EXCEPT !.todo = @ \ {w}]
    PROVE  /\ scan'.todo = scan.todo \ {w} /\ scan'.seen = scan.seen
           /\ scan'.low = scan.low /\ scan'.last = scan.last
BY DEF CoverOK

\* The queue in a catch-up stays what it was when a handler leaves it alone.
LEMMA SameMail ==
    ASSUME MailOK, CatchingUp, CatchingUp', UNCHANGED <<inbox, channel, up, raced>>, scan'.last = scan.last
    PROVE  MailOK' /\ \A x \in Msgs : Queued(x)' = Queued(x)
BY DEF MailOK, LastOf, FirstOf, Latest, Queued

\* The catch-up's own judgements are of what the channel still holds.
LEMMA CatchUpMessageSettles ==
    ASSUME Reachable, QuietOK, CatchUpMessage
    PROVE  QuietOK'
<1>1. PICK w \in scan.todo : /\ Process(w.m, w.body, w.isEdit)
                             /\ AfterHandler(inbox, [scan EXCEPT !.todo = @ \ {w}])
  BY DEF CatchUpMessage
<1>2. PICK m : m = w.m
  OBVIOUS
<1>3. /\ up = "catching" /\ m \in Msgs /\ UNCHANGED <<channel, raced, beyond>> /\ CoverOK
      /\ DOMAIN records = Msgs /\ MappedOK /\ FeedOK /\ OwnedOK /\ MailOK /\ ScanOK
      /\ owners' = owners \cup {<<records'[x].n, x>> : x \in Msgs}
  BY <1>1, <1>2 DEF CatchUpMessage, Remember, chanVars, Reachable, BooksOK, MappedOK, QuietOK, WorldOK, WorkOK
<1>4. /\ Spares(m) /\ Owned(m)'
      /\ up' # "down" /\ m \notin raced => Follows(m)'
  <2>1. Treated(m, w.body, w.isEdit)
    BY <1>1, <1>2, <1>3, ProcessTreats
  <2>2. m \notin raced => w.body = channel[m] /\ (w.isEdit \/ records[m].status = "none")
    BY <1>1, <1>2, <1>3 DEF ScanOK
  <2> QED BY <2>1, <2>2 DEF Treated
<1>5. OwnedOK'
  BY <1>3, <1>4, TreatedOwners
<1>6. CASE up' = "down"
  BY <1>1, <1>5, <1>6, DownIsQuiet DEF AfterHandler
<1>7. CASE up' # "down"
  <2>1. up' = up /\ inbox' = inbox /\ scan' = [scan EXCEPT !.todo = @ \ {w}]
    BY <1>1, <1>3, <1>7, ProcessKeepsLines DEF AfterHandler, Handles
  <2>2. /\ scan'.todo = scan.todo \ {w} /\ scan'.seen = scan.seen
        /\ scan'.low = scan.low /\ scan'.last = scan.last
    BY <1>3, <2>1, WorkTaken
  <2>3. MailOK' /\ \A x \in Msgs : Queued(x)' = Queued(x)
    BY <1>3, <2>1, <2>2, SameMail DEF CatchingUp
  <2>4. ScanOK'
    <3>1. SUFFICES ASSUME NEW v \in scan.todo, v # w
                   PROVE  /\ \A t \in scan.todo \ {w} : t.m = v.m => t = v
                          /\ v.m \notin raced =>
                                /\ v.body = channel[v.m]
                                /\ ~v.isEdit => records'[v.m].status = "none" /\ ~Queued(v.m)'
      BY <1>3, <2>1, <2>2 DEF ScanOK
    <3>2. v.m # m /\ v.m \in Msgs
      BY <1>1, <1>2, <1>3, <3>1 DEF ScanOK, Reachable, WorldOK, WorkOK
    <3> QED BY <1>3, <1>4, <2>3, <3>1, <3>2 DEF ScanOK, Spares
  <2>5. ASSUME NEW x \in Msgs \ raced, x \notin beyond
        PROVE  Settling(x)'
    <3>1. Settling(x)
      BY <2>5 DEF QuietOK
    <3>2. CASE x = m
      BY <1>3, <1>4, <1>7, <2>1, <2>5, <3>2 DEF Settling, Follows, Kept, Gone
    <3>3. CASE x # m
      <4>1. (Kept(x) => Kept(x)') /\ (Gone(x) => Gone(x)')
        BY <1>3, <1>4, <3>3, OthersKept
      <4>2. (\A v \in scan'.todo : v.m # x) => \A v \in scan.todo : v.m # x
        BY <1>2, <2>2, <3>3
      <4> QED BY <1>3, <2>1, <2>2, <2>3, <3>1, <4>1, <4>2 DEF Settling
    <3> QED BY <3>2, <3>3
  <2> QED BY <1>3, <1>5, <2>1, <2>3, <2>4, <2>5 DEF QuietOK
<1> QED BY <1>6, <1>7

\* A revoke the catch-up planned settles its message.
LEMMA CatchUpRevokeSettles ==
    ASSUME Reachable, QuietOK, CatchUpRevoke
    PROVE  QuietOK'
<1>1. PICK m \in scan.todo : /\ RevokeTracked(m)
                             /\ AfterHandler(inbox, [scan EXCEPT !.todo = @ \ {m}])
  BY DEF CatchUpRevoke
<1>3. /\ up = "revoking" /\ m \in Deleted /\ m \in Msgs /\ UNCHANGED <<channel, raced, beyond, owners>>
      /\ DOMAIN records = Msgs /\ MappedOK /\ FeedOK /\ OwnedOK /\ MailOK /\ CoverOK
  BY <1>1 DEF CatchUpRevoke, chanVars, history, Reachable, BooksOK, MappedOK, QuietOK, WorldOK, WorkOK, Deleted
<1>4. Spares(m) /\ Owned(m)' /\ (up' # "down" => Follows(m)')
  BY <1>1, <1>3, RevokeTreats
<1>5. OwnedOK'
  BY <1>3, <1>4, TreatedOwners
<1>6. CASE up' = "down"
  BY <1>1, <1>5, <1>6, DownIsQuiet DEF AfterHandler
<1>7. CASE up' # "down"
  <2>1. up' = up /\ inbox' = inbox /\ scan' = [scan EXCEPT !.todo = @ \ {m}]
    BY <1>1, <1>3, <1>7, RevokeLosesOwnLine DEF AfterHandler, Handles
  <2>2. scan'.todo = scan.todo \ {m} /\ scan'.last = scan.last
    BY <1>3, <2>1, WorkTaken
  <2>3. MailOK' /\ \A x \in Msgs : Queued(x)' = Queued(x)
    BY <1>3, <2>1, <2>2, SameMail DEF CatchingUp
  <2>4. ASSUME NEW x \in Msgs \ raced, x \notin beyond
        PROVE  Settling(x)'
    <3>1. Settling(x)
      BY <2>4 DEF QuietOK
    <3>2. CASE x = m
      BY <1>3, <1>4, <1>7, <2>1, <3>2 DEF Settling, Follows, Kept, Gone
    <3>3. CASE x # m
      <4>1. (Kept(x) => Kept(x)') /\ (Gone(x) => Gone(x)')
        BY <1>3, <1>4, <3>3, OthersKept
      <4> QED BY <1>3, <2>1, <2>2, <2>3, <3>1, <3>3, <4>1 DEF Settling
    <3> QED BY <3>2, <3>3
  <2> QED BY <1>3, <1>5, <2>1, <2>3, <2>4 DEF QuietOK, ScanOK
<1> QED BY <1>6, <1>7

\* What VICTOR does to a message is queued, or it happens where the next scan will look,
\* or it is one of the races.
LEMMA TouchSettles ==
    ASSUME Reachable, QuietOK, NEW m \in Msgs,
           (\E body \in MayPost[m] : Post(m, body)) \/ (\E body \in Bodies : Edit(m, body)) \/ Delete(m)
    PROVE  QuietOK'
<1> DEFINE L == Len(inbox)
<1>0. /\ InboxOK /\ L \in Nat /\ DOMAIN inbox = 1..L /\ MailOK /\ OwnedOK /\ ScanOK
      /\ \A i \in 1..L : inbox[i].m \in Msgs /\ Posted(inbox[i].m)
  BY QueueShape DEF Reachable, WorldOK, QuietOK, Warranted, UpdateType
<1>1. Later /\ WorldOK'
  BY ChannelMovesOn, ChannelStep DEF Reachable, WorldOK
<1>2. /\ UNCHANGED <<up, scan, records, feed, owners, beyond>>
      /\ raced' = IF CatchingUp THEN raced \cup {m} ELSE raced
  BY DEF Post, Edit, Delete, outVars, lineage, Touch
<1>3. PICK u : /\ u.m = m /\ channel' = [channel EXCEPT ![m] = IF u.kind = "delete" THEN "deleted" ELSE u.body]
               /\ inbox' = IF Running THEN Append(inbox, u) ELSE inbox
               /\ u.kind = "new" => ~Posted(m)
               /\ u \in Warranted'
  <2>1. ASSUME NEW body \in MayPost[m], Post(m, body)
        PROVE  LET u == [kind |-> "new", m |-> m, body |-> body] IN
               /\ u.m = m /\ channel' = [channel EXCEPT ![m] = IF u.kind = "delete" THEN "deleted" ELSE u.body]
               /\ inbox' = IF Running THEN Append(inbox, u) ELSE inbox
               /\ u.kind = "new" => ~Posted(m)
               /\ u \in Warranted'
    <3>1. body \in Bodies /\ Posted(m)'
      BY <2>1, BodiesAreNoMarks DEF Post, Posted, Reachable, WorldOK, ChannelOK
    <3> QED BY <2>1, <3>1 DEF Post, Send, Posted, Warranted, UpdateType
  <2>2. ASSUME NEW body \in Bodies, Edit(m, body)
        PROVE  LET u == [kind |-> "edit", m |-> m, body |-> body] IN
               /\ u.m = m /\ channel' = [channel EXCEPT ![m] = IF u.kind = "delete" THEN "deleted" ELSE u.body]
               /\ inbox' = IF Running THEN Append(inbox, u) ELSE inbox
               /\ u.kind = "new" => ~Posted(m)
               /\ u \in Warranted'
    <3>1. Posted(m)'
      BY <2>2, BodiesAreNoMarks DEF Edit, Posted, Reachable, WorldOK, ChannelOK
    <3> QED BY <2>2, <3>1 DEF Edit, Send, Warranted, UpdateType
  <2>3. ASSUME Delete(m)
        PROVE  LET u == [kind |-> "delete", m |-> m, body |-> NoSignal] IN
               /\ u.m = m /\ channel' = [channel EXCEPT ![m] = IF u.kind = "delete" THEN "deleted" ELSE u.body]
               /\ inbox' = IF Running THEN Append(inbox, u) ELSE inbox
               /\ u.kind = "new" => ~Posted(m)
               /\ u \in Warranted'
    <3>1. Posted(m)' /\ m \in Deleted'
      BY <2>3 DEF Delete, Posted, Deleted, Reachable, WorldOK, ChannelOK
    <3> QED BY <2>3, <3>1 DEF Delete, Send, Warranted, UpdateType
  <2> QED BY <2>1, <2>2, <2>3
<1>4. \A x \in Msgs : x # m => channel'[x] = channel[x]
  BY <1>3 DEF Reachable, WorldOK, ChannelOK
<1>5. OwnedOK'
  BY <1>1, <1>2, <1>0, <1>4 DEF OwnedOK, Written, Sole, HasLine, Later, Deleted
<1>6. CASE ~Running
  <2>1. up' = "down" /\ inbox' = <<>>
    BY <1>0, <1>2, <1>3, <1>6 DEF Running, MailOK
  <2> QED BY <1>5, <2>1, DownIsQuiet
<1>7. CASE Running
  <2>1. inbox \in Seq(Warranted')
    BY <1>0, <1>1, WarrantsLast DEF InboxOK
  <2>2. /\ DOMAIN inbox' = 1..(L + 1) /\ inbox'[L + 1] = u
        /\ \A i \in 1..L : inbox'[i] = inbox[i]
    BY <1>0, <1>3, <1>7, <2>1, QueueShape
  <2> HIDE DEF L
  <2>3. \A i \in 1..L : i \in 1..(L + 1) /\ i < L + 1
    BY <1>0
  <2>4. \A x \in Msgs : x # m => (Queued(x)' <=> Queued(x))
    BY <1>0, <1>3, <2>2, <2>3 DEF Queued
  <2>5. Queued(m)'
    BY <1>0, <1>3, <2>2 DEF Queued
  <2>6. ASSUME NEW i \in 1..(L + 1), LastOf(i)'
        PROVE  channel'[inbox'[i].m] = IF inbox'[i].kind = "delete" THEN "deleted" ELSE inbox'[i].body
    <3>1. CASE i = L + 1
      BY <1>3, <2>2, <3>1 DEF Reachable, WorldOK, ChannelOK
    <3>2. CASE i \in 1..L
      <4>1. L + 1 \in DOMAIN inbox' /\ i < L + 1
        BY <1>0, <2>2, <3>2
      <4>2. inbox[i].m # m /\ LastOf(i)
        BY <1>0, <1>3, <2>2, <2>3, <2>6, <3>2, <4>1 DEF LastOf
      <4> QED BY <1>0, <1>4, <2>2, <3>2, <4>2 DEF MailOK, Latest
    <3> QED BY <1>0, <3>1, <3>2
  <2>7. ASSUME NEW i \in 1..(L + 1), inbox'[i].kind = "new"
        PROVE  /\ inbox'[i].m \notin raced' => FirstOf(i)' /\ records'[inbox'[i].m].status = "none"
               /\ CatchingUp => inbox'[i].m \in raced' /\ scan.last < inbox'[i].m
    <3>1. CASE i = L + 1
      <4>1. ~Posted(m) /\ inbox'[i].m = m
        BY <1>3, <2>2, <2>7, <3>1
      <4>2. FirstOf(i)'
        <5>1. \A j \in 1..L : inbox[j].m # m
          BY <1>0, <4>1
        <5> QED BY <1>0, <2>2, <2>3, <3>1, <4>1, <5>1 DEF FirstOf
      <4>3. records'[m].status = "none"
        BY <1>2, <4>1 DEF Reachable, WorldOK, RecordsOK
      <4>4. CatchingUp => scan.last < m
        BY <4>1, IdsAreNat DEF Reachable, WorldOK, CoverOK
      <4> QED BY <1>2, <4>1, <4>2, <4>3, <4>4
    <3>2. CASE i \in 1..L
      BY <1>0, <1>2, <2>2, <2>3, <2>7, <3>2 DEF MailOK, FirstOf
    <3> QED BY <1>0, <3>1, <3>2
  <2>8. MailOK'
    BY <1>2, <1>7, <2>2, <2>6, <2>7 DEF MailOK, Latest, CatchingUp, Running
  <2>9. ScanOK'
    <3>1. SUFFICES ASSUME up = "catching", NEW w \in scan.todo, w.m \notin raced'
                   PROVE  /\ w.body = channel'[w.m]
                          /\ ~w.isEdit => records[w.m].status = "none" /\ ~Queued(w.m)'
      BY <1>0, <1>2 DEF ScanOK
    <3>2. w.m # m /\ w.m \notin raced /\ w.m \in Msgs
      BY <1>2, <3>1 DEF CatchingUp, Reachable, WorldOK, WorkOK
    <3> QED BY <1>0, <1>4, <2>4, <3>1, <3>2 DEF ScanOK
  <2>10. ASSUME NEW x \in Msgs \ raced', up = "starting" \/ x \notin beyond
         PROVE  Settling(x)'
    <3>1. Settling(x) /\ (CatchingUp => x # m)
      BY <1>2, <2>10 DEF QuietOK
    <3>2. CASE x = m
      BY <1>2, <2>5, <3>1, <3>2 DEF Settling, CatchingUp
    <3>3. CASE x # m
      <4>1. Kept(x)' = Kept(x) /\ Gone(x)' = Gone(x) /\ Follows(x)' = Follows(x)
        BY <1>2, <1>4, <3>3 DEF Kept, Gone, Follows, Written, Sole
      <4> QED BY <1>2, <2>4, <3>1, <3>3, <4>1 DEF Settling
    <3> QED BY <3>2, <3>3
  <2> QED BY <1>2, <1>5, <2>8, <2>9, <2>10 DEF QuietOK
<1> QED BY <1>6, <1>7

\* A manual line is new: it is nobody's.
LEMMA InjectSettles ==
    ASSUME QuietOK, NEW body, NEW minute, Inject(body, minute)
    PROVE  QuietOK'
<1>1. UNCHANGED <<channel, inbox, up, scan, records, owners, raced, beyond>> /\ feed \subseteq feed'
  BY DEF Inject, WithLine
<1>2. \A x \in Msgs : (Kept(x) => Kept(x)') /\ (Gone(x) => Gone(x)') /\ (Follows(x) => Follows(x)')
  BY <1>1 DEF Kept, Gone, Follows, Written, Sole
<1>3. MailOK' /\ ScanOK' /\ OwnedOK' /\ \A x \in Msgs : Queued(x)' = Queued(x)
  BY <1>1 DEF QuietOK, MailOK, ScanOK, OwnedOK, LastOf, FirstOf, Latest, Queued, CatchingUp,
              Written, Sole, HasLine
<1>4. \A x \in Msgs : Settling(x) => Settling(x)'
  BY <1>1, <1>2, <1>3 DEF Settling
<1> QED BY <1>1, <1>3, <1>4 DEF QuietOK

\* An update that is lost to a failed write is one of the races.
LEMMA HandlerRaisesSettles ==
    ASSUME Reachable, QuietOK, HandlerRaises
    PROVE  QuietOK'
<1>0. PICK h : h = Head(inbox).m
  OBVIOUS
<1>1. /\ inbox # <<>> /\ inbox' = Tail(inbox) /\ up # "down" /\ raced' = raced \cup {h}
      /\ UNCHANGED <<channel, up, scan, records, feed, owners, beyond>> /\ InboxOK
      /\ MailOK /\ OwnedOK /\ ScanOK /\ DOMAIN records = Msgs
  BY <1>0 DEF HandlerRaises, Running, chanVars, outVars, lineage, Reachable, WorldOK, QuietOK, RecordsOK
<1>2. /\ MailOK' /\ \A x \in Msgs : Queued(x)' => Queued(x)
      /\ \A x \in Msgs : x # h => (Queued(x)' <=> Queued(x))
  BY <1>0, <1>1, PoppedMail
<1>3. OwnedOK'
  BY <1>1 DEF OwnedOK, Written, Sole, HasLine
<1>4. ScanOK'
  <2>1. \A w \in scan.todo : up = "catching" => w.m \in Msgs
    BY DEF Reachable, WorldOK, WorkOK
  <2> QED BY <1>1, <1>2, <2>1 DEF ScanOK
<1>5. ASSUME NEW x \in Msgs \ raced', up = "starting" \/ x \notin beyond
      PROVE  Settling(x)'
  <2>1. x \in Msgs \ raced /\ x # h
    BY <1>1, <1>5
  <2>3. Settling(x)
    BY <1>1, <1>5, <2>1 DEF QuietOK
  <2>4. Queued(x)' <=> Queued(x)
    BY <1>2, <2>1
  <2>2. Kept(x)' = Kept(x) /\ Gone(x)' = Gone(x) /\ Follows(x)' = Follows(x)
    BY <1>1 DEF Kept, Gone, Follows, Written, Sole
  <2> QED BY <1>1, <2>2, <2>3, <2>4 DEF Settling
<1> QED BY <1>1, <1>2, <1>3, <1>4, <1>5 DEF QuietOK

\* Nothing waits when the listener comes up, and nothing after the last id has a record.
LEMMA StartSettles ==
    ASSUME QuietOK, Start
    PROVE  QuietOK'
<1>1. /\ up' = "starting" /\ scan'.last = LastId /\ inbox = <<>>
      /\ UNCHANGED <<channel, inbox, records, feed, owners, raced, beyond>>
  BY DEF Start, chanVars, outVars, history, QuietOK, MailOK, Idle
<1>2. MailOK' /\ OwnedOK' /\ ScanOK'
  BY <1>1 DEF QuietOK, MailOK, OwnedOK, ScanOK, Written, Sole, HasLine
<1>3. ASSUME NEW x \in Msgs PROVE Settling(x)'
  <2>1. scan'.last < x => records[x].status = "none"
    BY <1>1, LastIdIsLast, IdsAreNat
  <2> QED BY <1>1, <2>1 DEF Settling, Queued
<1> QED BY <1>2, <1>3 DEF QuietOK

\* What the catch-up is given to process, as a set of jobs: new messages and tracked ones.
LEMMA NewWork ==
    ASSUME NEW ms
    PROVE  /\ \A w \in Work(ms, FALSE) :
                 /\ w.m \in ms /\ w.body = channel[w.m] /\ w.isEdit = FALSE
                 /\ w = [m |-> w.m, body |-> w.body, isEdit |-> w.isEdit]
           /\ \A x \in ms : \E w \in Work(ms, FALSE) : w.m = x
<1> DEFINE job(x) == [m |-> x, body |-> channel[x], isEdit |-> FALSE]
<1>1. /\ \A w \in Work(ms, FALSE) : \E x \in ms : w = job(x)
      /\ \A x \in ms : job(x) \in Work(ms, FALSE)
  BY DEF Work
<1>2. \A x : /\ job(x).m = x /\ job(x).body = channel[x] /\ job(x).isEdit = FALSE
             /\ job(x) = [m |-> job(x).m, body |-> job(x).body, isEdit |-> job(x).isEdit]
  OBVIOUS
<1> HIDE DEF job
<1>3. \A x \in ms : \E w \in Work(ms, FALSE) : w.m = x
  BY <1>1, <1>2
<1>4. ASSUME NEW w \in Work(ms, FALSE)
      PROVE  /\ w.m \in ms /\ w.body = channel[w.m] /\ w.isEdit = FALSE
             /\ w = [m |-> w.m, body |-> w.body, isEdit |-> w.isEdit]
  <2>1. PICK x \in ms : w = job(x)
    BY <1>1, <1>4
  <2>2. w.isEdit = FALSE
    BY <1>2, <2>1, Zenon
  <2> QED BY <1>2, <2>1, <2>2, Zenon
<1> QED BY <1>3, <1>4

LEMMA TrackedWork ==
    ASSUME NEW ms
    PROVE  /\ \A w \in Work(ms, TRUE) :
                 /\ w.m \in ms /\ w.body = channel[w.m] /\ w.isEdit = TRUE
                 /\ w = [m |-> w.m, body |-> w.body, isEdit |-> w.isEdit]
           /\ \A x \in ms : \E w \in Work(ms, TRUE) : w.m = x
<1> DEFINE job(x) == [m |-> x, body |-> channel[x], isEdit |-> TRUE]
<1>1. /\ \A w \in Work(ms, TRUE) : \E x \in ms : w = job(x)
      /\ \A x \in ms : job(x) \in Work(ms, TRUE)
  BY DEF Work
<1>2. \A x : /\ job(x).m = x /\ job(x).body = channel[x] /\ job(x).isEdit = TRUE
             /\ job(x) = [m |-> job(x).m, body |-> job(x).body, isEdit |-> job(x).isEdit]
  OBVIOUS
<1> HIDE DEF job
<1>3. \A x \in ms : \E w \in Work(ms, TRUE) : w.m = x
  BY <1>1, <1>2
<1>4. ASSUME NEW w \in Work(ms, TRUE)
      PROVE  /\ w.m \in ms /\ w.body = channel[w.m] /\ w.isEdit = TRUE
             /\ w = [m |-> w.m, body |-> w.body, isEdit |-> w.isEdit]
  <2>1. PICK x \in ms : w = job(x)
    BY <1>1, <1>4
  <2>2. w.isEdit = TRUE
    BY <1>2, <2>1, Zenon
  <2> QED BY <1>2, <2>1, <2>2, Zenon
<1> QED BY <1>3, <1>4

\* The scan gives work for all that may have changed: what is after the last id, and every
\* mapped message it saw; a mapped message it did not see is missing.
LEMMA ScanSettles ==
    ASSUME Reachable, QuietOK, NEW oldest \in Msgs, Scan(oldest)
    PROVE  QuietOK'
<1> DEFINE seen == {m \in Present : m >= oldest}
           todo == Work(New(seen), FALSE) \cup Work(Tracked(seen), TRUE)
           low  == IF seen = {} THEN 0 ELSE Min(seen)
<1>1. /\ up = "starting" /\ up' = "catching" /\ CoverOK /\ MailOK /\ scan.last \in Nat
      /\ raced' = raced \ {m \in Msgs : m <= scan.last}
      /\ beyond' = {m \in Msgs : seen = {} \/ m < Min(seen)}
      /\ UNCHANGED <<channel, inbox, records, feed, owners>> /\ OwnedOK
      /\ channel \in [Msgs -> Bodies \cup {"unposted", "deleted"}]
      /\ \A i \in DOMAIN inbox : inbox[i].m \in Msgs
  BY QueueShape DEF Scan, chanVars, outVars, lineage, Reachable, WorldOK, QuietOK, CoverOK, CatchingUp,
                    ChannelOK, Warranted, UpdateType
<1>2. scan' = [todo |-> todo, seen |-> seen, low |-> low, last |-> scan.last]
  <2>1. scan' = [scan EXCEPT !.todo = todo, !.seen = seen, !.low = low]
    BY DEF Scan
  <2> HIDE DEF todo, seen, low
  <2> QED BY <1>1, <2>1 DEF CoverOK
<1>3. /\ \A w \in todo : /\ w.m \in Msgs /\ w.body = channel[w.m]
                         /\ ~w.isEdit => scan.last < w.m
                         /\ \A v \in todo : v.m = w.m => v = w
      /\ \A x \in seen : scan.last < x \/ Written(x) => \E w \in todo : w.m = x
      /\ \A x \in Msgs : x \in seen <=> x \in Present /\ oldest <= x
  <2> DEFINE a == New(seen)
             b == Tracked(seen)
  <2>1. \A x \in Msgs : x \in Nat
    BY IdsAreNat
  <2>2. /\ \A x \in a : x \in Msgs /\ scan.last < x
        /\ \A x \in b : x \in Msgs /\ x <= scan.last
        /\ \A x \in seen : (scan.last < x => x \in a) /\ (Written(x) => x \in a \/ x \in b)
    BY <1>1, <2>1 DEF New, Tracked, Present
  <2>3. \A x \in Msgs : x \in seen <=> x \in Present /\ oldest <= x
    BY <2>1 DEF Present
  <2>4. todo = Work(a, FALSE) \cup Work(b, TRUE)
    OBVIOUS
  <2> HIDE DEF todo, seen, a, b
  <2>5. \A w \in Work(a, FALSE) : w.m \in a /\ w.isEdit = FALSE
    BY NewWork
  <2>6. \A w \in Work(b, TRUE) : w.m \in b /\ w.isEdit = TRUE
    BY TrackedWork
  <2>7. \A w \in todo : w.body = channel[w.m] /\ w = [m |-> w.m, body |-> w.body, isEdit |-> w.isEdit]
    BY <2>4, NewWork, TrackedWork
  <2>8. \A x \in seen : scan.last < x \/ Written(x) => \E w \in todo : w.m = x
    <3>1. (\A x \in a : \E w \in Work(a, FALSE) : w.m = x) /\ \A x \in b : \E w \in Work(b, TRUE) : w.m = x
      BY NewWork, TrackedWork
    <3> QED BY <2>2, <2>4, <3>1
  <2>9. \A x \in a, y \in b : x # y
    BY <1>1, <2>1, <2>2
  <2>10. \A w, v \in todo : v.m = w.m => v = w
    <3>1. SUFFICES ASSUME NEW w \in todo, NEW v \in todo, v.m = w.m
                   PROVE  v.isEdit = w.isEdit
      BY <2>7
    <3> QED BY <2>4, <2>5, <2>6, <2>9, <3>1
  <2>11. \A w \in todo : w.m \in Msgs /\ (~w.isEdit => scan.last < w.m)
    BY <2>2, <2>4, <2>5, <2>6
  <2> QED BY <2>3, <2>7, <2>8, <2>10, <2>11
<1>4. ASSUME NEW x \in Msgs, x \notin beyond'
      PROVE  low # 0 /\ low <= x /\ oldest <= x
  <2>1. seen # {} /\ ~(x < Min(seen))
    BY <1>1, <1>4
  <2>2. seen \in SUBSET Msgs /\ seen \in SUBSET Nat
    BY IdsAreNat DEF Present
  <2>3. low = Min(seen)
    BY <2>1
  <2>4. \A y \in seen : oldest <= y
    BY <1>3, <2>2
  <2> HIDE DEF seen, low
  <2>5. Min(seen) \in seen
    BY <2>1, <2>2, MinExists
  <2>6. Min(seen) \in Msgs /\ oldest <= Min(seen)
    BY <2>2, <2>4, <2>5
  <2>7. low \in Nat \ {0} /\ x \in Nat /\ oldest \in Nat
    BY <2>3, <2>6, IdsAreNat
  <2>8. ~(x < low) /\ oldest <= low
    BY <2>1, <2>3, <2>6
  <2> QED BY <2>7, <2>8
<1> HIDE DEF todo, seen, low
<1>5. OwnedOK'
  BY <1>1 DEF OwnedOK, Written, Sole, HasLine
<1>6. MailOK'
  <2>1. \A i \in DOMAIN inbox : inbox[i].kind = "new" => inbox[i].m \in raced' /\ scan.last < inbox[i].m
    <3>1. SUFFICES ASSUME NEW i \in DOMAIN inbox, inbox[i].kind = "new"
                   PROVE  inbox[i].m \in raced' /\ scan.last < inbox[i].m
      OBVIOUS
    <3>2. inbox[i].m \in raced /\ scan.last < inbox[i].m
      BY <1>1, <3>1 DEF MailOK, CatchingUp
    <3>3. scan.last \in Nat /\ (inbox[i].m \in Msgs => inbox[i].m \in Nat)
      BY <1>1, IdsAreNat
    <3>4. inbox[i].m \notin {m \in Msgs : m <= scan.last}
      BY <3>2, <3>3
    <3> QED BY <1>1, <3>2, <3>4
  <2> QED BY <1>1, <1>2, <2>1 DEF MailOK, LastOf, Latest
<1>7. ASSUME NEW x \in Msgs \ raced', scan.last < x
      PROVE  records[x].status = "none" /\ ~Queued(x)
  <2>1. x \notin raced
    BY <1>1, <1>7, IdsAreNat
  <2> QED BY <1>1, <1>7, <2>1 DEF QuietOK, Settling
<1>8. ScanOK'
  <2>1. \A x \in Msgs : Queued(x)' <=> Queued(x)
    BY <1>1 DEF Queued
  <2> QED BY <1>1, <1>2, <1>3, <1>7, <2>1 DEF ScanOK
<1>9. ASSUME NEW x \in Msgs \ raced', x \notin beyond', \A w \in todo : w.m # x
      PROVE  Kept(x) /\ (Gone(x) \/ (x \notin seen /\ low # 0 /\ low <= x /\ x <= scan.last))
  <2>1. low # 0 /\ low <= x /\ oldest <= x
    BY <1>4, <1>9
  <2>2. CASE channel[x] \in Bodies
    <3>1. x \in seen
      BY <1>3, <2>1, <2>2 DEF Present
    <3> QED BY <1>3, <1>9, <3>1 DEF Kept, Gone
  <2>3. CASE channel[x] \in {"unposted", "deleted"}
    <3>1. channel[x] \notin Signals /\ x \notin seen
      BY <1>3, <2>3, BodiesAssumption, BodiesAreNoMarks DEF Present
    <3>2. x <= scan.last \/ scan.last < x
      BY <1>1, IdsAreNat
    <3>3. scan.last < x => ~Written(x)
      BY <1>7, <1>9 DEF Written
    <3> QED BY <2>1, <3>1, <3>2, <3>3 DEF Kept, Gone
  <2> QED BY <1>1, <2>2, <2>3
<1>10. ASSUME NEW x \in Msgs \ raced', x \notin beyond' PROVE Settling(x)'
  <2>1. (Kept(x)' <=> Kept(x)) /\ (Gone(x)' <=> Gone(x))
    BY <1>1 DEF Kept, Gone, Written, Sole
  <2> QED BY <1>1, <1>2, <1>9, <1>10, <2>1 DEF Settling
<1> QED BY <1>1, <1>5, <1>6, <1>8, <1>10 DEF QuietOK

\* The deletions the catch-up plans are all the mapped messages it missed.
LEMMA PlanSettles ==
    ASSUME Reachable, QuietOK, PlanDeletions
    PROVE  QuietOK'
<1>1. /\ up = "catching" /\ up' = "revoking" /\ scan.todo = {}
      /\ scan'.todo = Vanished /\ scan'.last = scan.last
      /\ UNCHANGED <<channel, inbox, records, feed, owners, raced, beyond>>
  BY DEF PlanDeletions, chanVars, outVars, history, Reachable, WorldOK, CoverOK
<1>2. MailOK' /\ OwnedOK' /\ ScanOK'
  BY <1>1 DEF QuietOK, MailOK, OwnedOK, ScanOK, Written, Sole, HasLine, LastOf, FirstOf, Latest, CatchingUp
<1>3. ASSUME NEW x \in Msgs \ raced, x \notin beyond PROVE Settling(x)'
  <2>1. Settling(x)
    BY <1>3 DEF QuietOK
  <2>2. (Kept(x)' <=> Kept(x)) /\ (Gone(x)' <=> Gone(x)) /\ (Queued(x)' <=> Queued(x))
    BY <1>1 DEF Kept, Gone, Written, Sole, Queued
  <2>3. ~Queued(x) => Kept(x) /\ (Gone(x) \/ x \in Vanished)
    BY <1>1, <2>1 DEF Settling, Gone, Vanished
  <2> QED BY <1>1, <2>2, <2>3 DEF Settling
<1> QED BY <1>1, <1>2, <1>3 DEF QuietOK

\* The catch-up is done when nothing it planned is left.
LEMMA DoneSettles ==
    ASSUME QuietOK, CatchUpDone
    PROVE  QuietOK'
<1>1. /\ up = "revoking" /\ up' = "live" /\ scan.todo = {}
      /\ UNCHANGED <<channel, inbox, records, feed, owners, raced, beyond>>
  BY DEF CatchUpDone, chanVars, outVars, history
<1>2. MailOK' /\ OwnedOK' /\ ScanOK'
  BY <1>1 DEF QuietOK, MailOK, OwnedOK, ScanOK, Written, Sole, HasLine, LastOf, FirstOf, Latest, CatchingUp
<1>3. ASSUME NEW x \in Msgs \ raced, x \notin beyond PROVE Settling(x)'
  <2>1. Settling(x)
    BY <1>3 DEF QuietOK
  <2>2. (Kept(x)' <=> Kept(x)) /\ (Gone(x)' <=> Gone(x)) /\ (Queued(x)' <=> Queued(x))
    BY <1>1 DEF Kept, Gone, Written, Sole, Queued
  <2> QED BY <1>1, <2>1, <2>2 DEF Settling, Follows, Kept, Gone
<1> QED BY <1>1, <1>2, <1>3 DEF QuietOK

\* Every step leaves what is neither raced nor out of the window settled or in hand.
LEMMA QuietStep ==
    ASSUME Reachable, QuietOK, [Next]_vars
    PROVE  QuietOK'
<1>1. CASE Listener
  BY <1>1, StartSettles, ScanSettles, CatchUpMessageSettles, PlanSettles, CatchUpRevokeSettles,
     DoneSettles, UpdateSettles DEF Listener
<1>2. CASE Crash
  <2>1. OwnedOK'
    BY <1>2 DEF Crash, chanVars, outVars, history, QuietOK, OwnedOK, Written, Sole, HasLine
  <2> QED BY <1>2, <2>1, DownIsQuiet DEF Crash
<1>3. CASE Environment /\ ~Crash
  BY <1>3, TouchSettles, InjectSettles, HandlerRaisesSettles DEF Environment
<1>4. CASE UNCHANGED vars
  <2>1. MailOK' /\ OwnedOK' /\ ScanOK'
    BY <1>4 DEF vars, QuietOK, MailOK, OwnedOK, ScanOK, Written, Sole, HasLine, LastOf, FirstOf,
                Latest, CatchingUp, Queued
  <2>2. \A x \in Msgs : Settling(x)' <=> Settling(x)
    BY <1>4 DEF vars, Settling, Follows, Kept, Gone, Written, Sole, Queued
  <2> QED BY <1>4, <2>1, <2>2 DEF vars, QuietOK
<1> QED BY <1>1, <1>2, <1>3, <1>4 DEF Next

\* Whatever was edited, deleted, missed while the listener was down, replayed or cut short
\* by a crash: when nothing is left to do, the line of every message follows VICTOR's
\* latest word, the raced messages and those out of the window excepted.
THEOREM FeedFollowsAtRest == Spec => []FollowsWhenQuiet
<1>1. Init => Reachable /\ QuietOK
  <2>1. Init => QuietOK
    BY DEF Init, QuietOK, MailOK, OwnedOK, ScanOK, Settling, Written, NoRecord
  <2> QED BY <2>1, InitOK DEF Reachable
<1>2. (Reachable /\ QuietOK) /\ [Next]_vars => (Reachable /\ QuietOK)'
  BY WorldStep, FeedStep, StepIsPromised, QuietStep DEF Reachable
<1>3. QuietOK => FollowsWhenQuiet
  BY DEF QuietOK, FollowsWhenQuiet, AtRest, Settling, Queued
<1> QED BY <1>1, <1>2, <1>3, PTL DEF Spec

=============================================================================
