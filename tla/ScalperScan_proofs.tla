------------------------- MODULE ScalperScan_proofs -------------------------
(* What the stall cap of the EMA-pullback generator guarantees, for every   *)
(* chart, every command line and every length of scan: its probes are       *)
(* spaced and it never goes dark.  Neither property is inductive alone.     *)
(* StallsSound ties the cap's record of a leg and side to the signals it    *)
(* has let through there, VetoesSound a veto to the record that made it,    *)
(* and EntriesSound dates both by the row and the epoch they were made in.  *)
EXTENDS ScalperScan, FiniteSetTheorems, SequenceTheorems, TLAPS

Sigs      == UNION {WouldTake(row, a) : row \in Rows, a \in ArgSets}
SigSides  == {sig.side : sig \in Sigs}
Entries   == [at : Int, leg : Nat, epoch : Nat, since : Int, inScope : BOOLEAN, sig : Sigs]
Vetoes    == [at : Int, leg : Nat, epoch : Nat, side : SigSides]
StallRecs == [count : Nat, blocked : BOOLEAN, probe : Int, epoch : Nat]
StallMaps == UNION {[D -> StallRecs] : D \in SUBSET (Nat \X SigSides)}
Days      == {DayAt(pos) : pos \in Nat} \cup {0}
Scans     == [last : Int, day : Days, count : Nat, stall : StallMaps,
              out : Seq(Entries), vetoed : SUBSET Vetoes]

\* The signals let through on one side of one leg in one epoch.
Taken(out, leg, side, epoch) ==
    {i \in DOMAIN out : /\ out[i].leg = leg /\ out[i].sig.side = side
                        /\ out[i].epoch = epoch /\ out[i].inScope}

\* A record counts what it let through, all but the signal that re-armed it,
\* until it blocks; from then on it dates the last probe.
RecordGood(st, taken, out) ==
    /\ st.blocked \/ Cardinality(taken) <= st.count + 1
    /\ st.blocked => \A i \in taken : out[i].at <= st.probe

EntriesSound ==
    \A i \in DOMAIN capped.out :
        LET e == capped.out[i]
        IN  /\ e.at <= read /\ e.leg <= progress.leg
            /\ e.leg = progress.leg => e.epoch <= progress.epoch
            /\ e.inScope => /\ <<e.leg, e.sig.side>> \in DOMAIN capped.stall
                            /\ e.epoch <= capped.stall[<<e.leg, e.sig.side>>].epoch

StallsSound ==
    \A key \in DOMAIN capped.stall :
        LET st == capped.stall[key]
        IN  /\ key[1] <= progress.leg /\ st.probe <= read
            /\ key[1] = progress.leg => st.epoch <= progress.epoch
            /\ RecordGood(st, Taken(capped.out, key[1], key[2], st.epoch), capped.out)

VetoesSound ==
    \A v \in capped.vetoed :
        /\ v.at <= read
        /\ \/ \E i \in DOMAIN capped.out :
                 /\ capped.out[i].leg = v.leg /\ capped.out[i].sig.side = v.side
                 /\ v.at < capped.out[i].at
           \/ /\ <<v.leg, v.side>> \in DOMAIN capped.stall
              /\ capped.stall[<<v.leg, v.side>>].blocked
              /\ capped.stall[<<v.leg, v.side>>].probe <= v.at

Typed ==
    /\ args \in ArgSets /\ read \in Nat
    /\ progress.leg \in Nat /\ progress.epoch \in Nat /\ progress.at \in Nat
    /\ capped \in Scans

Sound == Typed /\ EntriesSound /\ StallsSound /\ VetoesSound
Inv   == Sound /\ ProbesAreSpaced /\ NeverGoesDark

-----------------------------------------------------------------------------
(* The columns of a row, and the fields of a scan after one. *)

\* A row opens a leg or keeps it; within a leg the epoch never falls, and a row
\* of progress raises it.
LEMMA RowFacts ==
    ASSUME NEW prev, prev.leg \in Nat, prev.epoch \in Nat, prev.at \in Nat,
           NEW row, NEW a, NEW pos \in Nat
    PROVE  LET p == WithRow(prev, row, a, pos)
           IN  /\ p.leg \in Nat /\ p.epoch \in Nat /\ p.at \in Nat
               /\ prev.leg <= p.leg
               /\ p.leg = prev.leg => prev.epoch <= p.epoch
               /\ p.valid /\ p.leg = prev.leg => prev.epoch < p.epoch
<1> DEFINE r == Regime(row, a)
           moved == r # prev.regime
           ok == \/ r = "bull" /\ row.brokeHigh
                 \/ r = "bear" /\ row.brokeLow
           p == [regime |-> r,
                 leg    |-> IF moved THEN prev.leg + 1 ELSE prev.leg,
                 epoch  |-> (IF moved THEN 0 ELSE prev.epoch) + (IF ok THEN 1 ELSE 0),
                 at     |-> IF moved \/ ok THEN pos ELSE prev.at,
                 valid  |-> ok]
<1>1. WithRow(prev, row, a, pos) = p
  BY DEF WithRow
<1> HIDE DEF r, ok
<1>2. p.leg \in Nat /\ p.epoch \in Nat /\ p.at \in Nat
  OBVIOUS
<1>3. prev.leg <= p.leg /\ (p.leg = prev.leg => prev.epoch <= p.epoch)
  OBVIOUS
<1>4. p.valid /\ p.leg = prev.leg => prev.epoch < p.epoch
  OBVIOUS
<1> QED BY <1>1, <1>2, <1>3, <1>4

\* A signal as the feed holds it.
Signal(sig, p, pos) ==
    [at |-> pos, leg |-> p.leg, epoch |-> p.epoch, since |-> pos - p.at,
     inScope |-> InScope(p, sig.side), sig |-> sig]

\* The fields of a signal as the feed holds it.
LEMMA SignalFields ==
    ASSUME NEW sig, NEW p, NEW pos
    PROVE  LET e == Signal(sig, p, pos)
           IN  /\ e.leg = p.leg /\ e.epoch = p.epoch /\ e.at = pos
               /\ e.since = pos - p.at /\ e.sig = sig
BY DEF Signal

\* A signal is marked in scope when the cap judges it.
LEMMA SignalScope ==
    ASSUME NEW sig, NEW p, NEW pos, InScope(p, sig.side)
    PROVE  Signal(sig, p, pos).inScope
<1>1. Signal(sig, p, pos).inScope = InScope(p, sig.side)
  BY DEF Signal
<1> QED BY <1>1, Zenon

\* A signal let through is appended to the feed and counted for the day.
LEMMA EmitFields ==
    ASSUME NEW s \in Scans, NEW sig \in Sigs, NEW p, p.leg \in Nat, p.epoch \in Nat,
           p.at \in Nat, NEW pos \in Nat
    PROVE  LET t == Emitted(s, sig, p, pos)
           IN  /\ t \in Scans /\ Signal(sig, p, pos) \in Entries
               /\ t.out = Append(s.out, Signal(sig, p, pos))
               /\ t.stall = s.stall /\ t.vetoed = s.vetoed
<1> DEFINE e == Signal(sig, p, pos)
<1>1. e \in Entries
  <2>1. InScope(p, sig.side) \in BOOLEAN
    BY DEF InScope
  <2>2. pos - p.at \in Int
    OBVIOUS
  <2> QED BY <2>1, <2>2 DEF Entries, Signal
<1>2. DayAt(pos) \in Days /\ Today(s, pos) + 1 \in Nat
  <2>1. s.count \in Nat
    BY DEF Scans
  <2> QED BY <2>1 DEF Days, Today
<1>3. Append(s.out, e) \in Seq(Entries)
  <2>1. s.out \in Seq(Entries)
    BY DEF Scans
  <2> QED BY <1>1, <2>1, AppendProperties
<1> HIDE DEF e
<1>4. Emitted(s, sig, p, pos)
        = [s EXCEPT !.last = pos, !.day = DayAt(pos), !.count = Today(s, pos) + 1,
                    !.out = Append(@, e)]
  BY DEF Emitted, Signal, e
<1> DEFINE day == DayAt(pos)
           count == Today(s, pos) + 1
           out == Append(s.out, e)
           t == [s EXCEPT !.last = pos, !.day = day, !.count = count, !.out = out]
<1>5. Emitted(s, sig, p, pos) = t
  BY <1>4
<1>6. day \in Days /\ count \in Nat /\ out \in Seq(Entries) /\ pos \in Int
  BY <1>2, <1>3
<1> HIDE DEF day, count, out
<1>7. t \in Scans /\ t.out = out /\ t.stall = s.stall /\ t.vetoed = s.vetoed
  BY <1>6 DEF Scans
<1> QED BY <1>1, <1>5, <1>7 DEF e, out

\* The scan with the decision on record.
Recorded(s, key, st) ==
    [s EXCEPT !.stall = [k \in DOMAIN @ \cup {key} |-> IF k = key THEN st ELSE @[k]]]

\* A decision of the cap replaces the record of its leg and side alone.
LEMMA KeptFields ==
    ASSUME NEW s \in Scans, NEW key \in Nat \X SigSides, NEW st \in StallRecs
    PROVE  LET t == Recorded(s, key, st)
           IN  /\ t \in Scans /\ t.out = s.out /\ t.vetoed = s.vetoed
               /\ DOMAIN t.stall = DOMAIN s.stall \cup {key}
               /\ t.stall[key] = st
               /\ \A k \in DOMAIN s.stall : k # key => t.stall[k] = s.stall[k]
<1> DEFINE m == [k \in DOMAIN s.stall \cup {key} |-> IF k = key THEN st ELSE s.stall[k]]
<1>1. m \in StallMaps
  <2>1. s.stall \in StallMaps
    BY DEF Scans
  <2>2. PICK D \in SUBSET (Nat \X SigSides) : s.stall \in [D -> StallRecs]
    BY <2>1 DEF StallMaps
  <2>3. m \in [D \cup {key} -> StallRecs]
    BY <2>2
  <2>4. D \cup {key} \in SUBSET (Nat \X SigSides)
    BY <2>2
  <2> QED BY <2>3, <2>4 DEF StallMaps
<1>2. /\ DOMAIN m = DOMAIN s.stall \cup {key} /\ m[key] = st
      /\ \A k \in DOMAIN s.stall : k # key => m[k] = s.stall[k]
  OBVIOUS
<1>3. Recorded(s, key, st) = [s EXCEPT !.stall = m]
  BY DEF Recorded
<1> HIDE DEF m
<1>4. LET t == [s EXCEPT !.stall = m]
      IN  t \in Scans /\ t.out = s.out /\ t.vetoed = s.vetoed /\ t.stall = m
  BY <1>1 DEF Scans
<1> QED BY <1>2, <1>3, <1>4

-----------------------------------------------------------------------------
(* What the cap decides. *)

\* The record after a counted signal, after a probe and after the veto that
\* blocks.
Counted(st)     == [st EXCEPT !.count = @ + 1]
Probed(st, pos) == [st EXCEPT !.probe = pos]
Shut(st, pos)   == [Counted(st) EXCEPT !.blocked = TRUE, !.probe = pos]

\* What the three records hold.
LEMMA RecordForms ==
    ASSUME NEW st \in StallRecs, NEW pos \in Nat, NEW p, p.epoch \in Nat
    PROVE  /\ FreshStall(p) \in StallRecs /\ FreshStall(p).probe = -1
           /\ Counted(st).probe = st.probe
           /\ Counted(st) \in StallRecs /\ Counted(st).count = st.count + 1
           /\ (Counted(st).blocked <=> st.blocked) /\ Counted(st).epoch = st.epoch
           /\ Probed(st, pos) \in StallRecs /\ (Probed(st, pos).blocked <=> st.blocked)
           /\ Probed(st, pos).probe = pos /\ Probed(st, pos).epoch = st.epoch
           /\ Shut(st, pos) \in StallRecs /\ Shut(st, pos).blocked
           /\ Shut(st, pos).probe = pos /\ Shut(st, pos).epoch = st.epoch
<1> DEFINE n == Counted(st)
           shut == Shut(st, pos)
<1>1. FreshStall(p) \in StallRecs /\ FreshStall(p).probe = -1
  BY DEF FreshStall, StallRecs, NoTime
<1>2. /\ n.probe = st.probe
      /\ n \in StallRecs /\ n.count = st.count + 1
      /\ (n.blocked <=> st.blocked) /\ n.epoch = st.epoch
  BY DEF StallRecs, Counted
<1>3. /\ Probed(st, pos) \in StallRecs /\ (Probed(st, pos).blocked <=> st.blocked)
      /\ Probed(st, pos).probe = pos /\ Probed(st, pos).epoch = st.epoch
  BY DEF StallRecs, Probed
<1>4. shut \in StallRecs /\ shut.blocked /\ shut.probe = pos /\ shut.epoch = st.epoch
  <2> DEFINE bit == TRUE
  <2>1. bit \in BOOLEAN /\ pos \in Int
    OBVIOUS
  <2>2. shut = [n EXCEPT !.blocked = bit, !.probe = pos]
    BY DEF Shut
  <2> HIDE DEF bit, n, shut
  <2>3. shut \in StallRecs /\ shut.probe = pos /\ shut.epoch = st.epoch
    BY <1>2, <2>1, <2>2 DEF StallRecs
  <2>4. shut.blocked = bit
    BY <1>2, <2>1, <2>2 DEF StallRecs
  <2> QED BY <2>3, <2>4 DEF bit
<1> QED BY <1>1, <1>2, <1>3, <1>4

\* The decision in terms of these records.
LEMMA DecideCases ==
    ASSUME NEW st \in StallRecs, NEW p, NEW pos \in Nat, NEW a
    PROVE  LET due     == pos - st.probe >= a.progress_probe_interval_bars
               stalled == /\ st.count + 1 >= a.progress_stall_n
                          /\ pos - p.at >= a.progress_min_no_progress_bars
           IN  Decide(st, p, pos, a)
                 = IF Rearmed(st, p) THEN [ok |-> TRUE, st |-> FreshStall(p)]
                   ELSE IF st.blocked
                   THEN IF due THEN [ok |-> TRUE, st |-> Probed(st, pos)]
                        ELSE [ok |-> FALSE, st |-> st]
                   ELSE IF stalled THEN [ok |-> FALSE, st |-> Shut(st, pos)]
                   ELSE [ok |-> TRUE, st |-> Counted(st)]
<1>1. Counted(st).count = st.count + 1
  BY DEF Counted, StallRecs
<1> QED BY <1>1 DEF Decide, Probed, Shut, Counted

\* A signal let through re-arms the record, is a probe, or is counted.
LEMMA AllowCases ==
    ASSUME NEW st \in StallRecs, NEW p, p.epoch \in Nat, NEW pos \in Nat, NEW a,
           Decide(st, p, pos, a).ok
    PROVE  \/ Rearmed(st, p) /\ Decide(st, p, pos, a).st = FreshStall(p)
           \/ /\ ~Rearmed(st, p) /\ st.blocked
              /\ pos - st.probe >= a.progress_probe_interval_bars
              /\ Decide(st, p, pos, a).st = Probed(st, pos)
           \/ /\ ~Rearmed(st, p) /\ ~st.blocked
              /\ ~(/\ st.count + 1 >= a.progress_stall_n
                   /\ pos - p.at >= a.progress_min_no_progress_bars)
              /\ Decide(st, p, pos, a).st = Counted(st)
<1> DEFINE d == Decide(st, p, pos, a)
           due == pos - st.probe >= a.progress_probe_interval_bars
           stalled == /\ st.count + 1 >= a.progress_stall_n
                      /\ pos - p.at >= a.progress_min_no_progress_bars
<1>1. d = IF Rearmed(st, p) THEN [ok |-> TRUE, st |-> FreshStall(p)]
          ELSE IF st.blocked
          THEN IF due THEN [ok |-> TRUE, st |-> Probed(st, pos)] ELSE [ok |-> FALSE, st |-> st]
          ELSE IF stalled THEN [ok |-> FALSE, st |-> Shut(st, pos)]
          ELSE [ok |-> TRUE, st |-> Counted(st)]
  BY DecideCases, Zenon
<1>2. d.ok
  OBVIOUS
<1> HIDE DEF d, due, stalled
<1>3. CASE Rearmed(st, p)
  <2>1. d = [ok |-> TRUE, st |-> FreshStall(p)]
    BY <1>1, <1>3
  <2> QED BY <1>3, <2>1 DEF d
<1>4. CASE ~Rearmed(st, p) /\ st.blocked
  <2>1. CASE due
    <3>1. d = [ok |-> TRUE, st |-> Probed(st, pos)]
      BY <1>1, <1>4, <2>1
    <3> QED BY <1>4, <2>1, <3>1 DEF d, due
  <2>2. CASE ~due
    <3>1. d = [ok |-> FALSE, st |-> st]
      BY <1>1, <1>4, <2>2
    <3>2. ~d.ok
      BY <3>1
    <3> QED BY <1>2, <3>2
  <2> QED BY <2>1, <2>2
<1>5. CASE ~Rearmed(st, p) /\ ~st.blocked
  <2>1. CASE stalled
    <3>1. d = [ok |-> FALSE, st |-> Shut(st, pos)]
      BY <1>1, <1>5, <2>1
    <3>2. ~d.ok
      BY <3>1
    <3> QED BY <1>2, <3>2
  <2>2. CASE ~stalled
    <3>1. d = [ok |-> TRUE, st |-> Counted(st)]
      BY <1>1, <1>5, <2>2
    <3> QED BY <1>5, <2>2, <3>1 DEF d, stalled
  <2> QED BY <2>1, <2>2
<1> QED BY <1>3, <1>4, <1>5

\* A veto follows a recent probe, or blocks.
LEMMA VetoCases ==
    ASSUME NEW st \in StallRecs, NEW p, p.epoch \in Nat, NEW pos \in Nat, NEW a,
           ~Decide(st, p, pos, a).ok
    PROVE  /\ ~Rearmed(st, p)
           /\ \/ /\ st.blocked /\ Decide(st, p, pos, a).st = st
                 /\ ~(pos - st.probe >= a.progress_probe_interval_bars)
              \/ ~st.blocked /\ Decide(st, p, pos, a).st = Shut(st, pos)
<1> DEFINE d == Decide(st, p, pos, a)
           due == pos - st.probe >= a.progress_probe_interval_bars
           stalled == /\ st.count + 1 >= a.progress_stall_n
                      /\ pos - p.at >= a.progress_min_no_progress_bars
<1>1. d = IF Rearmed(st, p) THEN [ok |-> TRUE, st |-> FreshStall(p)]
          ELSE IF st.blocked
          THEN IF due THEN [ok |-> TRUE, st |-> Probed(st, pos)] ELSE [ok |-> FALSE, st |-> st]
          ELSE IF stalled THEN [ok |-> FALSE, st |-> Shut(st, pos)]
          ELSE [ok |-> TRUE, st |-> Counted(st)]
  BY DecideCases, Zenon
<1>2. ~d.ok
  OBVIOUS
<1> HIDE DEF d, due, stalled
<1>3. CASE Rearmed(st, p)
  <2>1. d = [ok |-> TRUE, st |-> FreshStall(p)]
    BY <1>1, <1>3
  <2>2. d.ok
    BY <2>1
  <2> QED BY <1>2, <2>2
<1>4. CASE ~Rearmed(st, p) /\ st.blocked
  <2>1. CASE due
    <3>1. d = [ok |-> TRUE, st |-> Probed(st, pos)]
      BY <1>1, <1>4, <2>1
    <3>2. d.ok
      BY <3>1
    <3> QED BY <1>2, <3>2
  <2>2. CASE ~due
    <3>1. d = [ok |-> FALSE, st |-> st]
      BY <1>1, <1>4, <2>2
    <3> QED BY <1>4, <2>2, <3>1 DEF d, due
  <2> QED BY <2>1, <2>2
<1>5. CASE ~Rearmed(st, p) /\ ~st.blocked
  <2>1. CASE stalled
    <3>1. d = [ok |-> FALSE, st |-> Shut(st, pos)]
      BY <1>1, <1>5, <2>1
    <3> QED BY <1>5, <2>1, <3>1 DEF d
  <2>2. CASE ~stalled
    <3>1. d = [ok |-> TRUE, st |-> Counted(st)]
      BY <1>1, <1>5, <2>2
    <3>2. d.ok
      BY <3>1
    <3> QED BY <1>2, <3>2
  <2> QED BY <2>1, <2>2
<1> QED BY <1>3, <1>4, <1>5
-----------------------------------------------------------------------------
(* The feed as it grows. *)

\* Appending keeps every earlier entry, and adds itself to its own cluster.
LEMMA AppendFacts ==
    ASSUME NEW out \in Seq(Entries), NEW e \in Entries
    PROVE  /\ Append(out, e) \in Seq(Entries)
           /\ DOMAIN out = 1..Len(out) /\ Len(out) \in Nat
           /\ DOMAIN Append(out, e) = 1..(Len(out) + 1)
           /\ \A i \in DOMAIN out : Append(out, e)[i] = out[i]
           /\ Append(out, e)[Len(out) + 1] = e
BY AppendProperties

\* Only an in-scope signal of the same leg, side and epoch joins what was taken.
LEMMA TakenJoins ==
    ASSUME NEW out \in Seq(Entries), NEW e \in Entries, e.inScope
    PROVE  Taken(Append(out, e), e.leg, e.sig.side, e.epoch)
             = Taken(out, e.leg, e.sig.side, e.epoch) \cup {Len(out) + 1}
<1> DEFINE t == Append(out, e)
<1>1. /\ DOMAIN out = 1..Len(out) /\ Len(out) \in Nat /\ DOMAIN t = 1..(Len(out) + 1)
      /\ \A i \in DOMAIN out : t[i] = out[i]
      /\ t[Len(out) + 1] = e
  BY AppendFacts
<1> HIDE DEF t
<1>2. DOMAIN t = DOMAIN out \cup {Len(out) + 1}
  BY <1>1
<1> QED BY <1>1, <1>2 DEF Taken, t

\* Any other signal leaves what was taken as it was.
LEMMA TakenStays ==
    ASSUME NEW out \in Seq(Entries), NEW e \in Entries, NEW leg, NEW side, NEW epoch,
           ~(e.leg = leg /\ e.sig.side = side /\ e.epoch = epoch /\ e.inScope)
    PROVE  Taken(Append(out, e), leg, side, epoch) = Taken(out, leg, side, epoch)
<1> DEFINE t == Append(out, e)
<1>1. /\ DOMAIN out = 1..Len(out) /\ Len(out) \in Nat /\ DOMAIN t = 1..(Len(out) + 1)
      /\ \A i \in DOMAIN out : t[i] = out[i]
      /\ t[Len(out) + 1] = e
  BY AppendFacts
<1> HIDE DEF t
<1>2. DOMAIN t = DOMAIN out \cup {Len(out) + 1}
  BY <1>1
<1> QED BY <1>1, <1>2 DEF Taken, t

\* What was taken is a finite set.
LEMMA TakenFinite ==
    ASSUME NEW out \in Seq(Entries), NEW leg, NEW side, NEW epoch
    PROVE  /\ IsFiniteSet(Taken(out, leg, side, epoch))
           /\ Cardinality(Taken(out, leg, side, epoch)) \in Nat
<1>1. DOMAIN out = 1..Len(out) /\ Len(out) \in Nat
  OBVIOUS
<1>2. IsFiniteSet(1..Len(out))
  BY <1>1, FS_Interval
<1>3. Taken(out, leg, side, epoch) \subseteq 1..Len(out)
  BY <1>1 DEF Taken
<1>4. IsFiniteSet(Taken(out, leg, side, epoch))
  BY <1>2, <1>3, FS_Subset
<1> QED BY <1>4, FS_CardinalityType

-----------------------------------------------------------------------------
(* One row.  Moves says what the row does to everything but the scan. *)

Moves(p) ==
    /\ p.leg \in Nat /\ p.epoch \in Nat /\ p.at \in Nat
    /\ progress.leg <= p.leg
    /\ p.leg = progress.leg => progress.epoch <= p.epoch
    /\ p.valid /\ p.leg = progress.leg => progress.epoch < p.epoch
    /\ args' = args /\ read' = read + 1
    /\ progress'.leg = p.leg /\ progress'.epoch = p.epoch /\ progress'.at = p.at

\* The record a side of a leg is judged by.
JudgedBy(old, p, side) ==
    /\ old \in StallRecs /\ old.epoch <= p.epoch /\ old.probe <= read
    /\ RecordGood(old, Taken(capped.out, p.leg, side, old.epoch), capped.out)
    /\ Rearmed(old, p) => Taken(capped.out, p.leg, side, p.epoch) = {}
    /\ \A i \in DOMAIN capped.out :
          (/\ capped.out[i].inScope /\ capped.out[i].leg = p.leg
           /\ capped.out[i].sig.side = side)
          => <<p.leg, side>> \in DOMAIN capped.stall /\ capped.out[i].epoch <= old.epoch
    /\ <<p.leg, side>> \in DOMAIN capped.stall => old = capped.stall[<<p.leg, side>>]
    /\ <<p.leg, side>> \notin DOMAIN capped.stall => ~old.blocked

\* A decision puts a record in its place and leaves the others.
Replaces(p, side, st) ==
    /\ capped' \in Scans
    /\ DOMAIN capped'.stall = DOMAIN capped.stall \cup {<<p.leg, side>>}
    /\ capped'.stall[<<p.leg, side>>] = st
    /\ \A k \in DOMAIN capped.stall :
          k # <<p.leg, side>> => capped'.stall[k] = capped.stall[k]

\* The fields of a typed scan, in one place.
LEMMA ScanFields ==
    ASSUME NEW s \in Scans
    PROVE  /\ s.out \in Seq(Entries) /\ s.stall \in StallMaps /\ s.vetoed \in SUBSET Vetoes
           /\ DOMAIN s.out = 1..Len(s.out) /\ Len(s.out) \in Nat
           /\ \A i \in DOMAIN s.out : s.out[i] \in Entries
           /\ \A key \in DOMAIN s.stall : key \in Nat \X SigSides /\ s.stall[key] \in StallRecs
<1>1. s.out \in Seq(Entries) /\ s.stall \in StallMaps /\ s.vetoed \in SUBSET Vetoes
  BY DEF Scans
<1>2. DOMAIN s.out = 1..Len(s.out) /\ Len(s.out) \in Nat
  BY <1>1
<1>3. \A i \in DOMAIN s.out : s.out[i] \in Entries
  BY <1>1
<1>4. PICK D \in SUBSET (Nat \X SigSides) : s.stall \in [D -> StallRecs]
  BY <1>1 DEF StallMaps
<1> QED BY <1>1, <1>2, <1>3, <1>4

\* The record a signal is judged by is a good one for what its leg and side
\* have taken, and a signal that re-arms it is the first of its cluster.
LEMMA RecordIsGood ==
    ASSUME Sound, NEW p, Moves(p), NEW side \in SigSides
    PROVE  JudgedBy(StallOf(capped, p, side), p, side)
<1> DEFINE st == StallOf(capped, p, side)
           key == <<p.leg, side>>
           out == capped.out
<1>1. /\ \A i \in DOMAIN out : out[i] \in Entries
      /\ \A k \in DOMAIN capped.stall : k \in Nat \X SigSides /\ capped.stall[k] \in StallRecs
  BY ScanFields DEF Sound, Typed
<1>2. /\ read \in Nat
      /\ progress.leg \in Nat /\ progress.epoch \in Nat /\ p.leg \in Nat /\ p.epoch \in Nat
      /\ progress.leg <= p.leg /\ (p.leg = progress.leg => progress.epoch <= p.epoch)
      /\ (p.valid /\ p.leg = progress.leg => progress.epoch < p.epoch)
  BY DEF Sound, Typed, Moves
<1>3. CASE key \in DOMAIN capped.stall
  <2>1. st = capped.stall[key] /\ st \in StallRecs
    BY <1>1, <1>3 DEF StallOf
  <2>2. key[1] = p.leg /\ key[2] = side
    OBVIOUS
  <2>3. /\ p.leg <= progress.leg /\ st.probe <= read
        /\ p.leg = progress.leg => st.epoch <= progress.epoch
        /\ RecordGood(st, Taken(out, p.leg, side, st.epoch), out)
    BY <1>3, <2>1, <2>2 DEF Sound, StallsSound
  <2>4. st.epoch \in Nat
    BY <2>1 DEF StallRecs
  <2> HIDE DEF st, key, out
  <2>5. p.leg = progress.leg
    BY <1>2, <2>3
  <2>6. st.epoch <= progress.epoch /\ st.epoch <= p.epoch
    BY <1>2, <2>3, <2>4, <2>5
  <2>7. ASSUME NEW i \in DOMAIN out, out[i].inScope, out[i].leg = p.leg, out[i].sig.side = side
        PROVE  key \in DOMAIN capped.stall /\ out[i].epoch <= st.epoch
    BY <1>3, <2>1, <2>7 DEF Sound, EntriesSound, out, key
  <2>8. ASSUME Rearmed(st, p)
        PROVE  Taken(out, p.leg, side, p.epoch) = {}
    <3>1. SUFFICES ASSUME NEW i \in Taken(out, p.leg, side, p.epoch)
                   PROVE  FALSE
      OBVIOUS
    <3>2. /\ i \in DOMAIN out /\ out[i].leg = p.leg /\ out[i].sig.side = side
          /\ out[i].epoch = p.epoch /\ out[i].inScope
      BY <3>1 DEF Taken
    <3>3. p.epoch <= st.epoch
      BY <2>7, <3>2
    <3>4. p.epoch = st.epoch /\ p.epoch = progress.epoch
      BY <1>2, <2>4, <2>5, <2>6, <3>3
    <3>5. p.valid
      BY <2>8, <3>4, Zenon DEF Rearmed
    <3> QED BY <1>2, <2>5, <3>4, <3>5
  <2>9. key \in DOMAIN capped.stall => st = capped.stall[key]
    BY <2>1
  <2>10. JudgedBy(st, p, side)
    BY <1>3, <2>1, <2>3, <2>6, <2>7, <2>8, <2>9 DEF JudgedBy, key, out
  <2> QED BY <2>10 DEF st
<1>4. CASE key \notin DOMAIN capped.stall
  <2>1. st = FreshStall(p)
    BY <1>4 DEF StallOf
  <2>2. /\ st \in StallRecs /\ st.epoch = p.epoch /\ st.count = 0 /\ ~st.blocked
        /\ st.probe = -1
    BY <1>2, <2>1 DEF FreshStall, StallRecs, NoTime
  <2> HIDE DEF st
  <2>3. ASSUME NEW i \in DOMAIN out, out[i].inScope, out[i].leg = p.leg, out[i].sig.side = side
        PROVE  FALSE
    BY <1>4, <2>3 DEF Sound, EntriesSound
  <2>4. Taken(out, p.leg, side, p.epoch) = {}
    BY <2>3 DEF Taken
  <2>5. Cardinality({}) = 0
    BY FS_EmptySet
  <2>6. RecordGood(st, {}, out)
    BY <2>2, <2>5 DEF RecordGood
  <2>7. p.epoch <= p.epoch /\ -1 <= read
    BY <1>2
  <2> HIDE DEF out, key
  <2>8. \A i \in DOMAIN out :
           (out[i].inScope /\ out[i].leg = p.leg /\ out[i].sig.side = side)
           => key \in DOMAIN capped.stall /\ out[i].epoch <= st.epoch
    BY <2>3
  <2>9. JudgedBy(st, p, side)
    BY <1>4, <2>2, <2>4, <2>6, <2>7, <2>8 DEF JudgedBy, key, out
  <2> QED BY <2>9 DEF st
<1> QED BY <1>3, <1>4

\* A signal joins the feed as the cluster of what its side had taken; the feed
\* stays spaced if it is spaced from those.
LEMMA SpacedGrows ==
    ASSUME Typed, ProbesAreSpaced, args' = args, NEW e \in Entries,
           capped'.out = Append(capped.out, e),
           (/\ e.inScope /\ e.since >= args.progress_min_no_progress_bars
            /\ Cardinality(Taken(capped.out, e.leg, e.sig.side, e.epoch)) >= args.progress_stall_n)
           => \A k \in Taken(capped.out, e.leg, e.sig.side, e.epoch) :
                 e.at - capped.out[k].at >= args.progress_probe_interval_bars
    PROVE  ProbesAreSpaced'
<1> DEFINE out == capped.out
           new == capped'.out
           n == Len(out) + 1
<1>1. /\ DOMAIN out = 1..Len(out) /\ Len(out) \in Nat /\ DOMAIN new = 1..n
      /\ \A i \in DOMAIN out : new[i] = out[i]
      /\ new[n] = e
  BY AppendFacts, ScanFields DEF Typed
<1>2. SUFFICES ASSUME NEW i \in DOMAIN new,
                      new[i].inScope,
                      new[i].since >= args.progress_min_no_progress_bars,
                      Cardinality(Stalled(i)') >= args.progress_stall_n,
                      NEW k \in Stalled(i)'
               PROVE  new[i].at - new[k].at >= args.progress_probe_interval_bars
  BY DEF ProbesAreSpaced
<1>3. CASE i \in DOMAIN out
  <2>1. Stalled(i)' = Stalled(i)
    <3>1. \A j \in 1..(i - 1) : j \in DOMAIN out /\ new[j] = out[j]
      BY <1>1, <1>3
    <3>2. new[i] = out[i]
      BY <1>1, <1>3
    <3> QED BY <3>1, <3>2 DEF Stalled
  <2>2. new[i] = out[i] /\ k \in DOMAIN out /\ new[k] = out[k]
    <3>1. k \in Stalled(i)
      BY <1>2, <2>1
    <3>2. k \in 1..(i - 1)
      BY <3>1 DEF Stalled
    <3>3. k \in DOMAIN out
      BY <1>1, <1>3, <3>2
    <3> QED BY <1>1, <1>3, <3>3
  <2> QED BY <1>2, <1>3, <2>1, <2>2 DEF ProbesAreSpaced
<1>4. CASE i \notin DOMAIN out
  <2>1. i = n
    BY <1>1, <1>4
  <2>2. Stalled(i)' = Taken(out, e.leg, e.sig.side, e.epoch)
    <3>1. new[i] = e /\ 1..(i - 1) = DOMAIN out
      BY <1>1, <2>1
    <3>2. \A j \in 1..(i - 1) : new[j] = out[j]
      BY <1>1, <3>1
    <3> QED BY <3>1, <3>2 DEF Stalled, Taken
  <2>3. new[i] = e /\ k \in DOMAIN out /\ new[k] = out[k]
    BY <1>1, <1>2, <2>1, <2>2 DEF Taken
  <2> QED BY <1>2, <2>2, <2>3
<1> QED BY <1>3, <1>4

\* A longer feed with no new veto is no darker.
LEMMA DarkGrows ==
    ASSUME Typed, NeverGoesDark, args' = args, NEW e \in Entries,
           capped'.out = Append(capped.out, e), capped'.vetoed = capped.vetoed
    PROVE  NeverGoesDark'
<1>1. /\ capped.out \in Seq(Entries)
      /\ \A i \in DOMAIN capped.out : i \in DOMAIN capped'.out /\ capped'.out[i] = capped.out[i]
  BY AppendFacts, ScanFields DEF Typed
<1>2. ToSet(capped.out) \subseteq ToSet(capped'.out)
  BY <1>1, Zenon DEF ToSet
<1> QED BY <1>2 DEF NeverGoesDark

\* What a feed holds is dated, scoped and recorded after a new signal, whether
\* the cap judged it or let it pass.
LEMMA EntriesGrow ==
    ASSUME Sound, NEW p, Moves(p), NEW e \in Entries, e.at = read', e.leg = p.leg,
           e.epoch = p.epoch, capped'.out = Append(capped.out, e),
           \A i \in DOMAIN capped.out : capped.out[i].inScope =>
               LET key == <<capped.out[i].leg, capped.out[i].sig.side>>
               IN  key \in DOMAIN capped'.stall /\ capped.out[i].epoch <= capped'.stall[key].epoch,
           e.inScope => /\ <<e.leg, e.sig.side>> \in DOMAIN capped'.stall
                        /\ e.epoch <= capped'.stall[<<e.leg, e.sig.side>>].epoch
    PROVE  EntriesSound'
<1> DEFINE out == capped.out
           new == capped'.out
           n == Len(out) + 1
<1>1. /\ DOMAIN out = 1..Len(out) /\ Len(out) \in Nat /\ DOMAIN new = 1..n
      /\ \A i \in DOMAIN out : new[i] = out[i] /\ out[i] \in Entries
      /\ new[n] = e
  BY AppendFacts, ScanFields DEF Sound, Typed
<1>2. /\ read \in Nat /\ read' = read + 1
      /\ progress.leg \in Nat /\ progress.epoch \in Nat /\ p.leg \in Nat /\ p.epoch \in Nat
      /\ progress.leg <= p.leg /\ (p.leg = progress.leg => progress.epoch <= p.epoch)
      /\ progress'.leg = p.leg /\ progress'.epoch = p.epoch
  BY DEF Sound, Typed, Moves
<1>3. ASSUME NEW i \in DOMAIN new
      PROVE  /\ new[i].at <= read' /\ new[i].leg <= progress'.leg
             /\ new[i].leg = progress'.leg => new[i].epoch <= progress'.epoch
             /\ new[i].inScope =>
                  /\ <<new[i].leg, new[i].sig.side>> \in DOMAIN capped'.stall
                  /\ new[i].epoch <= capped'.stall[<<new[i].leg, new[i].sig.side>>].epoch
  <2>1. CASE i \in DOMAIN out
    <3>1. new[i] = out[i] /\ out[i] \in Entries
      BY <1>1, <2>1
    <3>2. out[i].at \in Int /\ out[i].leg \in Nat /\ out[i].epoch \in Nat
      BY <3>1 DEF Entries
    <3>3. /\ out[i].at <= read /\ out[i].leg <= progress.leg
          /\ out[i].leg = progress.leg => out[i].epoch <= progress.epoch
      BY <2>1 DEF Sound, EntriesSound
    <3> HIDE DEF out, new
    <3>4. /\ out[i].at <= read' /\ out[i].leg <= progress'.leg
          /\ out[i].leg = progress'.leg => out[i].epoch <= progress'.epoch
      BY <1>2, <3>2, <3>3, SMTT(30)
    <3> QED BY <2>1, <3>1, <3>4 DEF out
  <2>2. CASE i \notin DOMAIN out
    <3>1. new[i] = e
      BY <1>1, <2>2
    <3>2. e.at <= read' /\ e.leg <= progress'.leg /\ e.epoch <= progress'.epoch
      BY <1>2
    <3> HIDE DEF new
    <3> QED BY <3>1, <3>2
  <2> QED BY <2>1, <2>2
<1> QED BY <1>3 DEF EntriesSound

\* A veto stays explained: by the signal that follows it on its own side, or by
\* the record no other side touches.
LEMMA VetoesGrow ==
    ASSUME Sound, NEW p, Moves(p), NEW e \in Entries, e.at = read',
           capped'.out = Append(capped.out, e), capped'.vetoed = capped.vetoed,
           \A key \in DOMAIN capped.stall : key # <<e.leg, e.sig.side>> =>
               key \in DOMAIN capped'.stall /\ capped'.stall[key] = capped.stall[key]
    PROVE  VetoesSound'
<1> DEFINE out == capped.out
           new == capped'.out
           n == Len(out) + 1
<1>1. /\ DOMAIN out = 1..Len(out) /\ Len(out) \in Nat /\ DOMAIN new = 1..n
      /\ \A i \in DOMAIN out : new[i] = out[i] /\ i \in DOMAIN new
      /\ new[n] = e /\ n \in DOMAIN new
  BY AppendFacts, ScanFields DEF Sound, Typed
<1>2. read \in Nat /\ read' = read + 1
  BY DEF Sound, Typed, Moves
<1>3. ASSUME NEW v \in capped.vetoed
      PROVE  /\ v.at <= read'
             /\ \/ \E i \in DOMAIN new : /\ new[i].leg = v.leg /\ new[i].sig.side = v.side
                                         /\ v.at < new[i].at
                \/ /\ <<v.leg, v.side>> \in DOMAIN capped'.stall
                   /\ capped'.stall[<<v.leg, v.side>>].blocked
                   /\ capped'.stall[<<v.leg, v.side>>].probe <= v.at
  <2>1. v.at \in Int
    BY ScanFields DEF Sound, Typed, Vetoes
  <2>2. v.at <= read
    BY DEF Sound, VetoesSound
  <2>3. v.at <= read' /\ v.at < e.at
    BY <1>2, <2>1, <2>2
  <2> HIDE DEF out, new
  <2>4. CASE \E i \in DOMAIN out : out[i].leg = v.leg /\ out[i].sig.side = v.side /\ v.at < out[i].at
    BY <1>1, <2>3, <2>4
  <2>5. CASE <<v.leg, v.side>> = <<e.leg, e.sig.side>>
    <3>1. v.leg = e.leg /\ v.side = e.sig.side
      BY <2>5
    <3> QED BY <1>1, <2>3, <3>1
  <2>6. CASE /\ ~\E i \in DOMAIN out : /\ out[i].leg = v.leg /\ out[i].sig.side = v.side
                                       /\ v.at < out[i].at
             /\ <<v.leg, v.side>> # <<e.leg, e.sig.side>>
    <3>1. /\ <<v.leg, v.side>> \in DOMAIN capped.stall
          /\ capped.stall[<<v.leg, v.side>>].blocked
          /\ capped.stall[<<v.leg, v.side>>].probe <= v.at
      BY <2>6 DEF Sound, VetoesSound, out
    <3> QED BY <2>3, <2>6, <3>1
  <2> QED BY <2>4, <2>5, <2>6
<1> QED BY <1>3 DEF VetoesSound

\* A record is as good after a signal that does not concern it.
LEMMA RecordStays ==
    ASSUME NEW out \in Seq(Entries), NEW e \in Entries, NEW st \in StallRecs,
           NEW leg, NEW side, NEW epoch,
           RecordGood(st, Taken(out, leg, side, epoch), out),
           ~(e.leg = leg /\ e.sig.side = side /\ e.epoch = epoch /\ e.inScope)
    PROVE  RecordGood(st, Taken(Append(out, e), leg, side, epoch), Append(out, e))
<1>1. Taken(Append(out, e), leg, side, epoch) = Taken(out, leg, side, epoch)
  BY TakenStays
<1>2. \A i \in Taken(out, leg, side, epoch) : Append(out, e)[i] = out[i]
  BY AppendFacts DEF Taken
<1> QED BY <1>1, <1>2 DEF RecordGood

\* A row that lets a signal through appends it to the feed and nothing else.
LEMMA Emits ==
    ASSUME Typed, NEW p, Moves(p), NEW sig \in Sigs, NEW s \in Scans,
           capped' = Emitted(s, sig, p, read + 1)
    PROVE  /\ capped' \in Scans /\ Signal(sig, p, read + 1) \in Entries
           /\ capped'.out = Append(s.out, Signal(sig, p, read + 1))
           /\ capped'.stall = s.stall /\ capped'.vetoed = s.vetoed
<1>1. read + 1 \in Nat /\ p.leg \in Nat /\ p.epoch \in Nat /\ p.at \in Nat
  BY DEF Typed, Moves
<1>2. ASSUME NEW pos \in Nat, NEW t, t = Emitted(s, sig, p, pos)
      PROVE  /\ t \in Scans /\ Signal(sig, p, pos) \in Entries
             /\ t.out = Append(s.out, Signal(sig, p, pos))
             /\ t.stall = s.stall /\ t.vetoed = s.vetoed
  <2>1. t \in Scans
    BY <1>1, <1>2, EmitFields
  <2>2. Signal(sig, p, pos) \in Entries
    BY <1>1, EmitFields
  <2>3. t.out = Append(s.out, Signal(sig, p, pos))
    BY <1>1, <1>2, EmitFields, SMTT(30)
  <2>4. t.stall = s.stall
    BY <1>1, <1>2, EmitFields
  <2>5. t.vetoed = s.vetoed
    BY <1>1, <1>2, EmitFields
  <2> QED BY <2>1, <2>2, <2>3, <2>4, <2>5
<1> QED BY <1>1, <1>2, Zenon

\* A signal the cap does not judge leaves every record as it was.
LEMMA PassKeepsSound ==
    ASSUME Inv, NEW p, Moves(p), NEW sig \in Sigs, ~InScope(p, sig.side),
           capped' = Emitted(capped, sig, p, read + 1)
    PROVE  Inv'
<1> DEFINE e == Signal(sig, p, read + 1)
<1>1. read + 1 \in Nat /\ capped \in Scans /\ p.leg \in Nat /\ p.epoch \in Nat /\ p.at \in Nat
  BY DEF Inv, Sound, Typed, Moves
<1>2. /\ capped' \in Scans /\ e \in Entries /\ capped'.out = Append(capped.out, e)
      /\ capped'.stall = capped.stall /\ capped'.vetoed = capped.vetoed
  BY <1>1, Emits DEF Inv, Sound
<1>3. e.at = read' /\ e.leg = p.leg /\ e.epoch = p.epoch /\ ~e.inScope
  BY DEF Moves, Signal
<1> HIDE DEF e
<1>4. Typed'
  BY <1>1, <1>2 DEF Inv, Sound, Typed, Moves
<1>5. EntriesSound'
  <2>1. \A i \in DOMAIN capped.out : capped.out[i].inScope =>
            LET key == <<capped.out[i].leg, capped.out[i].sig.side>>
            IN  key \in DOMAIN capped'.stall /\ capped.out[i].epoch <= capped'.stall[key].epoch
    BY <1>2 DEF Inv, Sound, EntriesSound
  <2> QED BY <1>2, <1>3, <2>1, EntriesGrow DEF Inv
<1>6. StallsSound'
  <2>1. ASSUME NEW key \in DOMAIN capped.stall
        PROVE  LET st == capped.stall[key]
               IN  /\ key[1] <= p.leg /\ st.probe <= read'
                   /\ key[1] = p.leg => st.epoch <= p.epoch
                   /\ RecordGood(st, Taken(capped'.out, key[1], key[2], st.epoch), capped'.out)
    <3> DEFINE st == capped.stall[key]
    <3>1. key[1] \in Nat /\ st \in StallRecs /\ capped.out \in Seq(Entries)
      BY <1>1, ScanFields
    <3>2. /\ key[1] <= progress.leg /\ st.probe <= read
          /\ key[1] = progress.leg => st.epoch <= progress.epoch
          /\ RecordGood(st, Taken(capped.out, key[1], key[2], st.epoch), capped.out)
      BY DEF Inv, Sound, StallsSound
    <3>3. st.epoch \in Nat /\ st.probe \in Int
      BY <3>1 DEF StallRecs
    <3>4. /\ read \in Nat /\ read' = read + 1
          /\ progress.leg \in Nat /\ progress.epoch \in Nat /\ progress.leg <= p.leg
          /\ (p.leg = progress.leg => progress.epoch <= p.epoch)
      BY DEF Inv, Sound, Typed, Moves
    <3> HIDE DEF st
    <3>5. RecordGood(st, Taken(capped'.out, key[1], key[2], st.epoch), capped'.out)
      BY <1>2, <1>3, <3>1, <3>2, RecordStays
    <3>6. key[1] <= p.leg /\ st.probe <= read' /\ (key[1] = p.leg => st.epoch <= p.epoch)
      BY <1>1, <3>1, <3>2, <3>3, <3>4, SMTT(30)
    <3> QED BY <3>5, <3>6 DEF st
  <2>2. progress'.leg = p.leg /\ progress'.epoch = p.epoch
    BY DEF Moves
  <2> QED BY <1>2, <2>1, <2>2 DEF StallsSound
<1>7. VetoesSound'
  BY <1>2, <1>3, VetoesGrow DEF Inv
<1>8. ProbesAreSpaced'
  BY <1>2, <1>3, SpacedGrows DEF Inv, Sound, Moves
<1>9. NeverGoesDark'
  BY <1>2, DarkGrows DEF Inv, Sound, Moves
<1> QED BY <1>4, <1>5, <1>6, <1>7, <1>8, <1>9 DEF Inv, Sound

\* A decision leaves every record good, when the one it replaces is.
LEMMA StallsChange ==
    ASSUME Sound, NEW p, Moves(p), NEW side \in SigSides, NEW st \in StallRecs,
           st.epoch <= p.epoch, st.probe <= read',
           Replaces(p, side, st),
           \/ capped'.out = capped.out
           \/ \E e \in Entries : /\ e.leg = p.leg /\ e.sig.side = side
                                 /\ capped'.out = Append(capped.out, e),
           RecordGood(st, Taken(capped'.out, p.leg, side, st.epoch), capped'.out)
    PROVE  StallsSound'
<1> DEFINE key == <<p.leg, side>>
           old == capped.stall
           new == capped'.stall
<1>1. /\ read \in Nat /\ read' = read + 1
      /\ progress.leg \in Nat /\ progress.epoch \in Nat /\ p.leg \in Nat /\ p.epoch \in Nat
      /\ progress.leg <= p.leg /\ (p.leg = progress.leg => progress.epoch <= p.epoch)
      /\ progress'.leg = p.leg /\ progress'.epoch = p.epoch /\ capped \in Scans
  BY DEF Sound, Typed, Moves
<1>2. /\ DOMAIN new = DOMAIN old \cup {key} /\ new[key] = st
      /\ \A k \in DOMAIN old : k # key => new[k] = old[k]
  BY DEF Replaces
<1>3. ASSUME NEW k \in DOMAIN new
      PROVE  /\ k[1] <= p.leg /\ new[k].probe <= read'
             /\ k[1] = p.leg => new[k].epoch <= p.epoch
             /\ RecordGood(new[k], Taken(capped'.out, k[1], k[2], new[k].epoch), capped'.out)
  <2>1. CASE k = key
    <3>1. k[1] = p.leg /\ k[2] = side /\ new[k] = st
      BY <1>2, <2>1
    <3>2. p.leg <= p.leg
      BY <1>1
    <3> HIDE DEF new
    <3> QED BY <3>1, <3>2
  <2>2. CASE k # key
    <3>1. k \in DOMAIN old /\ new[k] = old[k]
      BY <1>3, <1>2, <2>2
    <3>2. k \in Nat \X SigSides /\ old[k] \in StallRecs /\ capped.out \in Seq(Entries)
      BY <1>1, <3>1, ScanFields
    <3>3. k[1] \in Nat /\ k = <<k[1], k[2]>> /\ old[k].epoch \in Nat /\ old[k].probe \in Int
      BY <3>2 DEF StallRecs
    <3>4. /\ k[1] <= progress.leg /\ old[k].probe <= read
          /\ k[1] = progress.leg => old[k].epoch <= progress.epoch
          /\ RecordGood(old[k], Taken(capped.out, k[1], k[2], old[k].epoch), capped.out)
      BY <3>1 DEF Sound, StallsSound
    <3> HIDE DEF old, new
    <3>5. k[1] <= p.leg /\ old[k].probe <= read' /\ (k[1] = p.leg => old[k].epoch <= p.epoch)
      BY <1>1, <3>3, <3>4, SMTT(30)
    <3>6. RecordGood(old[k], Taken(capped'.out, k[1], k[2], old[k].epoch), capped'.out)
      <4>1. CASE capped'.out = capped.out
        BY <3>4, <4>1
      <4>2. CASE \E e \in Entries : /\ e.leg = p.leg /\ e.sig.side = side
                                    /\ capped'.out = Append(capped.out, e)
        <5>1. PICK e \in Entries : /\ e.leg = p.leg /\ e.sig.side = side
                                   /\ capped'.out = Append(capped.out, e)
          BY <4>2
        <5>2. ~(e.leg = k[1] /\ e.sig.side = k[2])
          BY <2>2, <3>3, <5>1 DEF key
        <5> QED BY <3>2, <3>4, <5>1, <5>2, RecordStays
      <4> QED BY <4>1, <4>2
    <3> QED BY <3>1, <3>5, <3>6
  <2> QED BY <2>1, <2>2
<1> QED BY <1>1, <1>3 DEF StallsSound

\* A row that lets nothing through and vetoes nothing changes no verdict.
LEMMA QuietKeepsSound ==
    ASSUME Inv, NEW p, Moves(p), capped' = capped
    PROVE  Inv'
<1>1. /\ read \in Nat /\ read' = read + 1 /\ capped \in Scans /\ args' = args
      /\ progress.leg \in Nat /\ progress.epoch \in Nat /\ p.leg \in Nat /\ p.epoch \in Nat
      /\ progress.leg <= p.leg /\ (p.leg = progress.leg => progress.epoch <= p.epoch)
      /\ progress'.leg = p.leg /\ progress'.epoch = p.epoch
  BY DEF Inv, Sound, Typed, Moves
<1>2. Typed'
  BY DEF Inv, Sound, Typed, Moves
<1>3. EntriesSound'
  <2>1. ASSUME NEW i \in DOMAIN capped.out
        PROVE  /\ capped.out[i].at <= read' /\ capped.out[i].leg <= p.leg
               /\ capped.out[i].leg = p.leg => capped.out[i].epoch <= p.epoch
    <3> DEFINE e == capped.out[i]
    <3>1. e \in Entries
      BY <1>1, ScanFields
    <3>2. e.at \in Int /\ e.leg \in Nat /\ e.epoch \in Nat
      BY <3>1 DEF Entries
    <3>3. e.at <= read /\ e.leg <= progress.leg /\ (e.leg = progress.leg => e.epoch <= progress.epoch)
      BY DEF Inv, Sound, EntriesSound
    <3> HIDE DEF e
    <3>4. e.at <= read' /\ e.leg <= p.leg /\ (e.leg = p.leg => e.epoch <= p.epoch)
      BY <1>1, <3>2, <3>3
    <3> QED BY <3>4 DEF e
  <2> QED BY <1>1, <2>1 DEF Inv, Sound, EntriesSound
<1>4. StallsSound'
  <2>1. ASSUME NEW key \in DOMAIN capped.stall
        PROVE  /\ key[1] <= p.leg /\ capped.stall[key].probe <= read'
               /\ key[1] = p.leg => capped.stall[key].epoch <= p.epoch
    <3> DEFINE st == capped.stall[key]
    <3>1. key[1] \in Nat /\ st \in StallRecs
      BY <1>1, ScanFields
    <3>2. st.epoch \in Nat /\ st.probe \in Int
      BY <3>1 DEF StallRecs
    <3>3. key[1] <= progress.leg /\ st.probe <= read /\ (key[1] = progress.leg => st.epoch <= progress.epoch)
      BY DEF Inv, Sound, StallsSound
    <3> HIDE DEF st
    <3>4. key[1] <= p.leg /\ st.probe <= read' /\ (key[1] = p.leg => st.epoch <= p.epoch)
      BY <1>1, <3>1, <3>2, <3>3
    <3> QED BY <3>4 DEF st
  <2> QED BY <1>1, <2>1 DEF Inv, Sound, StallsSound
<1>5. VetoesSound'
  <2>1. \A v \in capped.vetoed : v.at \in Int
    BY <1>1, ScanFields DEF Vetoes
  <2>2. \A v \in capped.vetoed : v.at <= read
    BY DEF Inv, Sound, VetoesSound
  <2>3. \A v \in capped.vetoed : v.at <= read'
    BY <1>1, <2>1, <2>2
  <2> QED BY <2>3 DEF Inv, Sound, VetoesSound
<1>6. ProbesAreSpaced' /\ NeverGoesDark'
  BY <1>1 DEF Inv, ProbesAreSpaced, NeverGoesDark, Stalled
<1> QED BY <1>2, <1>3, <1>4, <1>5, <1>6 DEF Inv, Sound

-----------------------------------------------------------------------------
(* A signal the cap judges. *)

\* What the rest of the proof needs of the arguments.
LEMMA ArgFacts ==
    ASSUME Typed
    PROVE  /\ args.progress_stall_n \in Nat \ {0}
           /\ args.progress_min_no_progress_bars \in Nat
           /\ args.progress_probe_interval_bars \in Nat \ {0}
BY ArgsAssumption DEF Typed, ArgsAssumption

\* The record a signal let through leaves behind.
Passes(old, st, e, p, a) ==
    \/ Rearmed(old, p) /\ st = FreshStall(p)
    \/ /\ ~Rearmed(old, p) /\ old.blocked
       /\ e.at - old.probe >= a.progress_probe_interval_bars
       /\ st.blocked /\ st.probe = e.at /\ st.epoch = old.epoch
    \/ /\ ~Rearmed(old, p) /\ ~old.blocked
       /\ ~(/\ old.count + 1 >= a.progress_stall_n
            /\ e.since >= a.progress_min_no_progress_bars)
       /\ ~st.blocked /\ st.count = old.count + 1 /\ st.epoch = old.epoch

\* The signal that joins a cluster which has had its allowance, on a trend that
\* has stalled long enough, is a probe, and its record stays good.
LEMMA LetThroughIsEarned ==
    ASSUME NEW out \in Seq(Entries), NEW e \in Entries, e.inScope,
           NEW old \in StallRecs, NEW st \in StallRecs, NEW p, p.epoch \in Nat,
           NEW a, a.progress_stall_n \in Nat \ {0}, a.progress_min_no_progress_bars \in Nat,
           a.progress_probe_interval_bars \in Nat \ {0},
           e.epoch = p.epoch,
           \A i \in DOMAIN out : out[i].at <= e.at,
           RecordGood(old, Taken(out, e.leg, e.sig.side, old.epoch), out),
           Rearmed(old, p) => Taken(out, e.leg, e.sig.side, p.epoch) = {},
           Passes(old, st, e, p, a)
    PROVE  LET was == Taken(out, e.leg, e.sig.side, p.epoch)
           IN  /\ st.epoch = p.epoch
               /\ RecordGood(st, Taken(Append(out, e), e.leg, e.sig.side, p.epoch), Append(out, e))
               /\ (/\ e.since >= a.progress_min_no_progress_bars
                   /\ Cardinality(was) >= a.progress_stall_n)
                  => \A k \in was : e.at - out[k].at >= a.progress_probe_interval_bars
<1> DEFINE was == Taken(out, e.leg, e.sig.side, p.epoch)
           new == Taken(Append(out, e), e.leg, e.sig.side, p.epoch)
           n   == Len(out) + 1
<1>1. e.at \in Int /\ e.since \in Int
  BY DEF Entries
<1>2. DOMAIN out = 1..Len(out) /\ Len(out) \in Nat
  OBVIOUS
<1>3. /\ IsFiniteSet(was) /\ Cardinality(was) \in Nat
      /\ \A i \in was : i \in 1..Len(out) /\ out[i].at \in Int /\ out[i].at <= e.at
  <2>1. IsFiniteSet(was) /\ Cardinality(was) \in Nat
    BY TakenFinite
  <2>2. \A i \in was : i \in DOMAIN out
    BY DEF Taken
  <2>3. \A i \in DOMAIN out : out[i] \in Entries
    OBVIOUS
  <2>4. \A i \in DOMAIN out : out[i].at \in Int
    BY <2>3 DEF Entries
  <2> QED BY <1>2, <2>1, <2>2, <2>4
<1>4. new = was \cup {n} /\ n \notin was
  <2>1. new = was \cup {n}
    <3>1. Taken(Append(out, e), e.leg, e.sig.side, e.epoch)
            = Taken(out, e.leg, e.sig.side, e.epoch) \cup {Len(out) + 1}
      BY TakenJoins
    <3> QED BY <3>1
  <2>2. n \notin 1..Len(out)
    BY <1>2
  <2> QED BY <1>3, <2>1, <2>2
<1>5. Cardinality(new) = Cardinality(was) + 1
  <2> HIDE DEF was, new, n
  <2>1. Cardinality(was \cup {n}) = Cardinality(was) + 1
    BY <1>3, <1>4, FS_AddElement
  <2> QED BY <1>4, <2>1
<1>6. \A i \in was : Append(out, e)[i] = out[i]
  BY <1>2, <1>3, AppendFacts
<1>7. Append(out, e)[n] = e
  BY AppendFacts
<1>8. ~Rearmed(old, p) => old.epoch = p.epoch
  BY DEF Rearmed
<1>9. old.count \in Nat /\ old.probe \in Int /\ old.epoch \in Nat
  BY DEF StallRecs
<1> HIDE DEF was, new, n
<1>10. CASE Rearmed(old, p) /\ st = FreshStall(p)
  <2>1. was = {} /\ Cardinality(was) = 0
    <3>1. was = {}
      BY <1>10 DEF was
    <3> QED BY <3>1, FS_EmptySet
  <2>2. st.epoch = p.epoch /\ st.count = 0 /\ ~st.blocked
    BY <1>10 DEF FreshStall
  <2>3. RecordGood(st, new, Append(out, e))
    BY <1>5, <2>1, <2>2 DEF RecordGood
  <2>4. ~(Cardinality(was) >= a.progress_stall_n)
    BY <2>1
  <2> QED BY <2>2, <2>3, <2>4 DEF was, new
<1>11. CASE /\ ~Rearmed(old, p) /\ old.blocked
            /\ e.at - old.probe >= a.progress_probe_interval_bars
            /\ st.blocked /\ st.probe = e.at /\ st.epoch = old.epoch
  <2>1. \A i \in was : out[i].at <= old.probe
    BY <1>8, <1>11 DEF RecordGood, was
  <2>2. ASSUME NEW i \in was
        PROVE  e.at - out[i].at >= a.progress_probe_interval_bars
    <3>1. out[i].at \in Int /\ out[i].at <= old.probe
      BY <1>3, <2>1
    <3>2. a.progress_probe_interval_bars \in Int
      OBVIOUS
    <3> QED BY <1>1, <1>9, <1>11, <3>1, <3>2
  <2>3. \A i \in new : Append(out, e)[i].at <= st.probe
    <3>1. \A i \in was : out[i].at <= e.at
      BY <1>1, <1>3
    <3>2. e.at <= e.at
      BY <1>1
    <3> QED BY <1>4, <1>6, <1>7, <1>11, <3>1, <3>2
  <2>4. RecordGood(st, new, Append(out, e))
    BY <1>11, <2>3 DEF RecordGood
  <2>5. st.epoch = p.epoch
    BY <1>8, <1>11
  <2> QED BY <2>2, <2>4, <2>5 DEF was, new
<1>12. CASE /\ ~Rearmed(old, p) /\ ~old.blocked
            /\ ~(/\ old.count + 1 >= a.progress_stall_n
                 /\ e.since >= a.progress_min_no_progress_bars)
            /\ ~st.blocked /\ st.count = old.count + 1 /\ st.epoch = old.epoch
  <2>1. Cardinality(was) <= old.count + 1
    BY <1>8, <1>12 DEF RecordGood, was
  <2>2. Cardinality(new) <= st.count + 1
    BY <1>3, <1>5, <1>9, <1>12, <2>1
  <2>3. RecordGood(st, new, Append(out, e))
    BY <1>12, <2>2 DEF RecordGood
  <2>4. ~(/\ e.since >= a.progress_min_no_progress_bars
          /\ Cardinality(was) >= a.progress_stall_n)
    <3>1. CASE ~(old.count + 1 >= a.progress_stall_n)
      BY <1>3, <1>9, <2>1, <3>1
    <3>2. CASE ~(e.since >= a.progress_min_no_progress_bars)
      BY <1>1, <3>2
    <3> QED BY <1>12, <3>1, <3>2
  <2>5. st.epoch = p.epoch
    BY <1>8, <1>12
  <2> QED BY <2>3, <2>4, <2>5 DEF was, new
<1> QED BY <1>10, <1>11, <1>12 DEF Passes

\* A signal the cap lets through keeps the feed spaced and its record good.
LEMMA AllowKeepsSound ==
    ASSUME Inv, NEW p, Moves(p), NEW side \in SigSides, NEW old, JudgedBy(old, p, side),
           NEW e \in Entries, e.inScope, e.at = read + 1, e.leg = p.leg, e.epoch = p.epoch,
           e.sig.side = side,
           NEW st \in StallRecs, st.probe <= read + 1, Passes(old, st, e, p, args),
           Replaces(p, side, st), capped'.out = Append(capped.out, e),
           capped'.vetoed = capped.vetoed
    PROVE  Inv'
<1> DEFINE key == <<p.leg, side>>
           was == Taken(capped.out, p.leg, side, p.epoch)
<1>1. /\ read \in Nat /\ read' = read + 1 /\ capped \in Scans /\ args' = args
      /\ p.leg \in Nat /\ p.epoch \in Nat /\ Typed
  BY DEF Inv, Sound, Typed, Moves
<1>2. /\ capped.out \in Seq(Entries)
      /\ \A i \in DOMAIN capped.out : capped.out[i] \in Entries
  BY <1>1, ScanFields
<1>10. /\ old \in StallRecs /\ old.epoch <= p.epoch
       /\ RecordGood(old, Taken(capped.out, p.leg, side, old.epoch), capped.out)
       /\ Rearmed(old, p) => Taken(capped.out, p.leg, side, p.epoch) = {}
       /\ \A i \in DOMAIN capped.out :
             (/\ capped.out[i].inScope /\ capped.out[i].leg = p.leg
              /\ capped.out[i].sig.side = side)
             => capped.out[i].epoch <= old.epoch
  BY DEF JudgedBy
<1>11. /\ capped' \in Scans
       /\ DOMAIN capped'.stall = DOMAIN capped.stall \cup {key}
       /\ capped'.stall[key] = st
       /\ \A k \in DOMAIN capped.stall : k # key => capped'.stall[k] = capped.stall[k]
  BY DEF Replaces
<1>3. /\ st.epoch = p.epoch
      /\ RecordGood(st, Taken(capped'.out, p.leg, side, p.epoch), capped'.out)
      /\ (/\ e.since >= args.progress_min_no_progress_bars
          /\ Cardinality(was) >= args.progress_stall_n)
         => \A k \in was : e.at - capped.out[k].at >= args.progress_probe_interval_bars
  <2>1. /\ args.progress_stall_n \in Nat \ {0}
        /\ args.progress_min_no_progress_bars \in Nat
        /\ args.progress_probe_interval_bars \in Nat \ {0}
    BY <1>1, ArgFacts
  <2>2. \A i \in DOMAIN capped.out : capped.out[i].at <= e.at
    <3>1. \A i \in DOMAIN capped.out : capped.out[i].at \in Int
      BY <1>2 DEF Entries
    <3>2. \A i \in DOMAIN capped.out : capped.out[i].at <= read
      BY DEF Inv, Sound, EntriesSound
    <3> QED BY <1>1, <3>1, <3>2
  <2>3. RecordGood(old, Taken(capped.out, e.leg, e.sig.side, old.epoch), capped.out)
    BY <1>10
  <2>4. Rearmed(old, p) => Taken(capped.out, e.leg, e.sig.side, p.epoch) = {}
    BY <1>10
  <2>5. st.epoch = p.epoch
    <3>1. CASE Rearmed(old, p) /\ st = FreshStall(p)
      BY <3>1 DEF FreshStall
    <3>2. CASE ~Rearmed(old, p) /\ st.epoch = old.epoch
      BY <3>2 DEF Rearmed
    <3> QED BY <3>1, <3>2 DEF Passes
  <2>6. RecordGood(st, Taken(Append(capped.out, e), e.leg, e.sig.side, p.epoch),
                   Append(capped.out, e))
    BY <1>1, <1>2, <1>10, <2>1, <2>2, <2>3, <2>4, LetThroughIsEarned
  <2>7. (/\ e.since >= args.progress_min_no_progress_bars
         /\ Cardinality(Taken(capped.out, e.leg, e.sig.side, p.epoch))
              >= args.progress_stall_n)
        => \A k \in Taken(capped.out, e.leg, e.sig.side, p.epoch) :
              e.at - capped.out[k].at >= args.progress_probe_interval_bars
    BY <1>1, <1>2, <1>10, <2>1, <2>2, <2>3, <2>4, LetThroughIsEarned
  <2> QED BY <2>5, <2>6, <2>7
<1>4. Typed'
  BY <1>1, <1>11 DEF Inv, Sound, Typed, Moves
<1>5. EntriesSound'
  <2>1. ASSUME NEW i \in DOMAIN capped.out, capped.out[i].inScope
        PROVE  LET k == <<capped.out[i].leg, capped.out[i].sig.side>>
               IN  k \in DOMAIN capped'.stall /\ capped.out[i].epoch <= capped'.stall[k].epoch
    <3> DEFINE k == <<capped.out[i].leg, capped.out[i].sig.side>>
    <3>1. CASE k = key
      <4>1. capped.out[i].leg = p.leg /\ capped.out[i].sig.side = side
        BY <3>1
      <4>2. capped.out[i].epoch <= old.epoch
        BY <1>10, <2>1, <4>1
      <4>3. capped.out[i].epoch \in Nat /\ old.epoch \in Nat
        BY <1>2, <1>10 DEF Entries, StallRecs
      <4>4. capped.out[i].epoch <= p.epoch
        BY <1>1, <1>10, <4>2, <4>3
      <4> QED BY <1>3, <1>11, <3>1, <4>4
    <3>2. CASE k # key
      <4>1. k \in DOMAIN capped.stall /\ capped.out[i].epoch <= capped.stall[k].epoch
        BY <2>1 DEF Inv, Sound, EntriesSound
      <4> QED BY <1>11, <3>2, <4>1
    <3> QED BY <3>1, <3>2
  <2>2. <<e.leg, e.sig.side>> \in DOMAIN capped'.stall
          /\ e.epoch <= capped'.stall[<<e.leg, e.sig.side>>].epoch
    <3>1. <<e.leg, e.sig.side>> = key /\ p.epoch <= p.epoch
      BY <1>1
    <3> QED BY <1>3, <1>11, <3>1
  <2>3. e.at = read'
    BY <1>1
  <2> QED BY <2>1, <2>2, <2>3, EntriesGrow DEF Inv
<1>6. StallsSound'
  <2>1. RecordGood(st, Taken(capped'.out, p.leg, side, st.epoch), capped'.out)
    BY <1>3
  <2>2. st.epoch <= p.epoch
    BY <1>1, <1>3
  <2>4. st.probe <= read'
    BY <1>1
  <2>3. \E x \in Entries : /\ x.leg = p.leg /\ x.sig.side = side
                           /\ capped'.out = Append(capped.out, x)
    OBVIOUS
  <2> QED BY <2>1, <2>2, <2>3, <2>4, StallsChange DEF Inv
<1>7. VetoesSound'
  <2>1. e.at = read' /\ <<e.leg, e.sig.side>> = key
    BY <1>1
  <2>2. \A k \in DOMAIN capped.stall : k # <<e.leg, e.sig.side>> =>
            k \in DOMAIN capped'.stall /\ capped'.stall[k] = capped.stall[k]
    BY <1>11, <2>1
  <2> QED BY <2>1, <2>2, VetoesGrow DEF Inv
<1>8. ProbesAreSpaced'
  <2>1. (/\ e.inScope /\ e.since >= args.progress_min_no_progress_bars
         /\ Cardinality(Taken(capped.out, e.leg, e.sig.side, e.epoch)) >= args.progress_stall_n)
        => \A k \in Taken(capped.out, e.leg, e.sig.side, e.epoch) :
              e.at - capped.out[k].at >= args.progress_probe_interval_bars
    BY <1>3
  <2> QED BY <1>1, <2>1, SpacedGrows DEF Inv
<1>9. NeverGoesDark'
  BY <1>1, DarkGrows DEF Inv
<1> QED BY <1>4, <1>5, <1>6, <1>7, <1>8, <1>9 DEF Inv, Sound

\* The record a veto leaves behind.
Blocks(old, st, p, a) ==
    /\ ~Rearmed(old, p)
    /\ \/ /\ old.blocked /\ st = old
          /\ ~((read + 1) - old.probe >= a.progress_probe_interval_bars)
       \/ ~old.blocked /\ st.blocked /\ st.probe = read + 1 /\ st.epoch = old.epoch

\* What is late for the later of two is late for the earlier.
LEMMA StillLate ==
    ASSUME NEW x \in Int, NEW y \in Int, NEW z \in Int, NEW gap \in Int,
           x <= y, z - y >= gap
    PROVE  z - x >= gap
OBVIOUS

\* A signal the cap vetoes waits for the probe its record now dates.
LEMMA VetoKeepsSound ==
    ASSUME Inv, NEW p, Moves(p), NEW side \in SigSides, NEW old, JudgedBy(old, p, side),
           NEW st \in StallRecs, Blocks(old, st, p, args),
           NEW v \in Vetoes, v.at = read + 1, v.leg = p.leg, v.side = side,
           Replaces(p, side, st), capped'.out = capped.out,
           capped'.vetoed = capped.vetoed \cup {v}
    PROVE  Inv'
<1> DEFINE key == <<p.leg, side>>
<1>1. /\ read \in Nat /\ read' = read + 1 /\ capped \in Scans /\ args' = args
      /\ p.leg \in Nat /\ p.epoch \in Nat /\ Typed
      /\ progress.leg \in Nat /\ progress.epoch \in Nat
      /\ progress.leg <= p.leg /\ (p.leg = progress.leg => progress.epoch <= p.epoch)
      /\ progress'.leg = p.leg /\ progress'.epoch = p.epoch
  BY DEF Inv, Sound, Typed, Moves
<1>2. /\ capped.out \in Seq(Entries)
      /\ \A i \in DOMAIN capped.out : capped.out[i] \in Entries
      /\ \A k \in DOMAIN capped.stall : capped.stall[k] \in StallRecs
      /\ \A u \in capped.vetoed : u \in Vetoes
  BY <1>1, ScanFields
<1>3. \A i \in DOMAIN capped.out : capped.out[i].at \in Int /\ capped.out[i].at <= read
  <2>1. \A i \in DOMAIN capped.out : capped.out[i].at \in Int
    BY <1>2 DEF Entries
  <2> QED BY <2>1 DEF Inv, Sound, EntriesSound
<1>4. \A u \in capped.vetoed : u.at \in Int /\ u.at <= read
  <2>1. \A u \in capped.vetoed : u.at \in Int
    BY <1>2 DEF Vetoes
  <2> QED BY <2>1 DEF Inv, Sound, VetoesSound
<1>12. /\ old \in StallRecs /\ old.epoch <= p.epoch /\ old.probe <= read
       /\ RecordGood(old, Taken(capped.out, p.leg, side, old.epoch), capped.out)
       /\ key \in DOMAIN capped.stall => old = capped.stall[key]
       /\ \A i \in DOMAIN capped.out :
             (/\ capped.out[i].inScope /\ capped.out[i].leg = p.leg
              /\ capped.out[i].sig.side = side)
             => capped.out[i].epoch <= old.epoch
  BY DEF JudgedBy
<1>13. /\ capped' \in Scans
       /\ DOMAIN capped'.stall = DOMAIN capped.stall \cup {key}
       /\ capped'.stall[key] = st
       /\ \A k \in DOMAIN capped.stall : k # key => capped'.stall[k] = capped.stall[k]
  BY DEF Replaces
<1>5. /\ old.probe \in Int /\ old.epoch \in Nat /\ st.probe \in Int
      /\ st.blocked /\ st.epoch = old.epoch
      /\ old.blocked => st = old
      /\ old.blocked => ~((read + 1) - old.probe >= args.progress_probe_interval_bars)
      /\ st = old \/ st.probe = read + 1
  <2>1. old.probe \in Int /\ old.epoch \in Nat /\ st.probe \in Int
    BY <1>12 DEF StallRecs
  <2>2. CASE /\ old.blocked /\ st = old
             /\ ~((read + 1) - old.probe >= args.progress_probe_interval_bars)
    BY <2>1, <2>2
  <2>3. CASE ~old.blocked /\ st.blocked /\ st.probe = read + 1 /\ st.epoch = old.epoch
    BY <2>1, <2>3
  <2> QED BY <2>2, <2>3 DEF Blocks
<1>14. st.probe <= read + 1
  BY <1>1, <1>5, <1>12
<1>6. Typed'
  BY <1>1, <1>13 DEF Inv, Sound, Typed, Moves

<1>7. EntriesSound'
  <2>1. ASSUME NEW i \in DOMAIN capped.out
        PROVE  LET x == capped.out[i]
                   k == <<x.leg, x.sig.side>>
               IN  /\ x.at <= read' /\ x.leg <= p.leg
                   /\ x.leg = p.leg => x.epoch <= p.epoch
                   /\ x.inScope => k \in DOMAIN capped'.stall /\ x.epoch <= capped'.stall[k].epoch
    <3> DEFINE x == capped.out[i]
               k == <<x.leg, x.sig.side>>
    <3>1. x.leg \in Nat /\ x.epoch \in Nat /\ x.at \in Int
      BY <1>2 DEF Entries
    <3>2. /\ x.at <= read /\ x.leg <= progress.leg
          /\ x.leg = progress.leg => x.epoch <= progress.epoch
          /\ x.inScope => k \in DOMAIN capped.stall /\ x.epoch <= capped.stall[k].epoch
      BY DEF Inv, Sound, EntriesSound
    <3> HIDE DEF x
    <3>3. x.at <= read' /\ x.leg <= p.leg /\ (x.leg = p.leg => x.epoch <= p.epoch)
      BY <1>1, <3>1, <3>2
    <3>4. ASSUME x.inScope
          PROVE  k \in DOMAIN capped'.stall /\ x.epoch <= capped'.stall[k].epoch
      <4>1. k \in DOMAIN capped.stall /\ x.epoch <= capped.stall[k].epoch
        BY <3>2, <3>4
      <4>2. CASE k = key
        <5>1. x.epoch <= old.epoch
          BY <1>12, <4>1, <4>2
        <5> QED BY <1>5, <1>13, <4>2, <5>1
      <4>3. CASE k # key
        BY <1>13, <4>1, <4>3
      <4> QED BY <4>2, <4>3
    <3> QED BY <3>3, <3>4 DEF x
  <2> QED BY <1>1, <2>1 DEF EntriesSound
<1>8. StallsSound'
  <2>1. RecordGood(st, Taken(capped'.out, p.leg, side, st.epoch), capped'.out)
    <3> DEFINE was == Taken(capped.out, p.leg, side, old.epoch)
    <3>1. capped'.out = capped.out /\ Taken(capped'.out, p.leg, side, st.epoch) = was
      BY <1>5
    <3>2. \A i \in was : capped.out[i].at <= st.probe
      <4>1. CASE st = old
        BY <1>5, <1>12, <4>1 DEF RecordGood
      <4>2. CASE st.probe = read + 1
        <5>1. \A i \in was : i \in DOMAIN capped.out
          BY DEF Taken
        <5> QED BY <1>1, <1>3, <4>2, <5>1
      <4> QED BY <1>5, <4>1, <4>2
    <3> QED BY <1>5, <3>1, <3>2 DEF RecordGood
  <2>2. st.epoch <= p.epoch /\ st.probe <= read'
    BY <1>1, <1>5, <1>12, <1>14
  <2> QED BY <1>1, <2>1, <2>2, StallsChange DEF Inv
<1>9. VetoesSound'
  <2>1. ASSUME NEW u \in capped.vetoed
        PROVE  /\ u.at <= read'
               /\ \/ \E i \in DOMAIN capped.out :
                        /\ capped.out[i].leg = u.leg /\ capped.out[i].sig.side = u.side
                        /\ u.at < capped.out[i].at
                  \/ /\ <<u.leg, u.side>> \in DOMAIN capped'.stall
                     /\ capped'.stall[<<u.leg, u.side>>].blocked
                     /\ capped'.stall[<<u.leg, u.side>>].probe <= u.at
    <3> DEFINE k == <<u.leg, u.side>>
               answered == \E i \in DOMAIN capped.out :
                               /\ capped.out[i].leg = u.leg /\ capped.out[i].sig.side = u.side
                               /\ u.at < capped.out[i].at
    <3>1. u.at <= read'
      BY <1>1, <1>4
    <3>2. \/ answered
          \/ k \in DOMAIN capped.stall /\ capped.stall[k].blocked /\ capped.stall[k].probe <= u.at
      BY DEF Inv, Sound, VetoesSound
    <3> HIDE DEF answered
    <3>3. CASE k \in DOMAIN capped.stall /\ capped.stall[k].blocked /\ capped.stall[k].probe <= u.at
      <4>1. CASE k = key
        <5>1. old = capped.stall[k] /\ old.blocked /\ old.probe <= u.at
          BY <1>12, <3>3, <4>1
        <5>2. st = old
          BY <1>5, <5>1
        <5> QED BY <1>13, <3>1, <4>1, <5>1, <5>2
      <4>2. CASE k # key
        BY <1>13, <3>1, <3>3, <4>2
      <4> QED BY <4>1, <4>2
    <3> QED BY <3>1, <3>2, <3>3 DEF answered
  <2>2. <<v.leg, v.side>> = key /\ v.at <= read' /\ st.probe <= v.at
    BY <1>1, <1>14
  <2>3. capped'.stall[<<v.leg, v.side>>].blocked /\ <<v.leg, v.side>> \in DOMAIN capped'.stall
    BY <1>5, <1>13, <2>2
  <2>4. capped'.stall[<<v.leg, v.side>>].probe <= v.at
    BY <1>13, <2>2
  <2> QED BY <2>1, <2>2, <2>3, <2>4 DEF VetoesSound
<1>10. ProbesAreSpaced'
  BY <1>1 DEF Inv, ProbesAreSpaced, Stalled
<1>11. NeverGoesDark'
  <2>1. SUFFICES ASSUME NEW u \in capped'.vetoed, NEW w \in capped'.vetoed,
                        u.leg = w.leg, u.side = w.side,
                        w.at - u.at >= args.progress_probe_interval_bars
                 PROVE  \E x \in ToSet(capped.out) :
                            /\ x.leg = u.leg /\ x.sig.side = u.side
                            /\ u.at < x.at /\ x.at < w.at
    BY <1>1 DEF NeverGoesDark
  <2>2. args.progress_probe_interval_bars \in Nat \ {0}
    BY <1>1, ArgFacts
  <2>3. u.at \in Int /\ u.at <= read + 1 /\ w.at \in Int /\ w.at <= read + 1
    BY <1>1, <1>4
  <2>4. u.at < w.at /\ u \in capped.vetoed
    <3>1. u.at < w.at
      BY <2>1, <2>2, <2>3
    <3>2. u # v
      BY <1>1, <2>3, <3>1
    <3> QED BY <3>1, <3>2
  <2>5. CASE w \in capped.vetoed
    BY <2>1, <2>4, <2>5 DEF Inv, NeverGoesDark
  <2>6. CASE w = v
    <3>1. <<u.leg, u.side>> = key /\ w.at = read + 1
      BY <2>1, <2>6
    <3>2. CASE \E i \in DOMAIN capped.out :
                   /\ capped.out[i].leg = u.leg /\ capped.out[i].sig.side = u.side
                   /\ u.at < capped.out[i].at
      <4>1. PICK i \in DOMAIN capped.out :
                   /\ capped.out[i].leg = u.leg /\ capped.out[i].sig.side = u.side
                   /\ u.at < capped.out[i].at
        BY <3>2
      <4>2. capped.out[i] \in ToSet(capped.out)
        BY DEF ToSet
      <4>3. capped.out[i].at < w.at
        BY <1>1, <1>3, <3>1
      <4> QED BY <4>1, <4>2, <4>3
    <3>3. CASE /\ key \in DOMAIN capped.stall /\ capped.stall[key].blocked
               /\ capped.stall[key].probe <= u.at
      <4>1. old.blocked /\ old.probe <= u.at
        BY <1>12, <3>3
      <4>2. ~((read + 1) - old.probe >= args.progress_probe_interval_bars)
        BY <1>5, <4>1
      <4>3. (read + 1) - u.at >= args.progress_probe_interval_bars
        BY <2>1, <3>1, Zenon
      <4>4. /\ args.progress_probe_interval_bars \in Int /\ read \in Int
            /\ old.probe \in Int /\ u.at \in Int
        BY <1>1, <1>5, <2>2, <2>3
      <4>5. read + 1 \in Int
        BY <1>1
      <4>6. (read + 1) - old.probe >= args.progress_probe_interval_bars
        BY <4>1, <4>3, <4>4, <4>5, StillLate, Zenon
      <4> QED BY <4>2, <4>6, Zenon
    <3>4. \/ \E i \in DOMAIN capped.out :
                 /\ capped.out[i].leg = u.leg /\ capped.out[i].sig.side = u.side
                 /\ u.at < capped.out[i].at
          \/ /\ key \in DOMAIN capped.stall /\ capped.stall[key].blocked
             /\ capped.stall[key].probe <= u.at
      BY <2>4, <3>1 DEF Inv, Sound, VetoesSound
    <3> QED BY <3>2, <3>3, <3>4
  <2> QED BY <2>5, <2>6
<1> QED BY <1>6, <1>7, <1>8, <1>9, <1>10, <1>11 DEF Inv, Sound

-----------------------------------------------------------------------------
(* The scan. *)

\* A row moves the scan in one of four ways.
LEMMA RowKeepsSound ==
    ASSUME Inv, NEW row \in Rows, NextRow(row)
    PROVE  Inv'
<1> DEFINE p == WithRow(progress, row, args, read + 1)
<1>1. /\ args \in ArgSets /\ read \in Nat /\ read + 1 \in Nat /\ capped \in Scans
      /\ progress.leg \in Nat /\ progress.epoch \in Nat /\ progress.at \in Nat
  BY DEF Inv, Sound, Typed
<1>2. Moves(p)
  <2>1. /\ p.leg \in Nat /\ p.epoch \in Nat /\ p.at \in Nat
        /\ progress.leg <= p.leg
        /\ p.leg = progress.leg => progress.epoch <= p.epoch
        /\ p.valid /\ p.leg = progress.leg => progress.epoch < p.epoch
    BY <1>1, RowFacts
  <2>2. /\ args' = args /\ read' = read + 1
        /\ progress' = [regime |-> p.regime, leg |-> p.leg, epoch |-> p.epoch, at |-> p.at]
    BY DEF NextRow
  <2> HIDE DEF p
  <2> QED BY <2>1, <2>2 DEF Moves
<1>3. capped' = ScanCapped(capped, row, p, read + 1, args)
  BY DEF NextRow
<1> HIDE DEF p
<1> DEFINE sig  == CHOOSE x \in WouldTake(row, args) : TRUE
           old  == StallOf(capped, p, sig.side)
           d    == Decide(old, p, read + 1, args)
           key  == <<p.leg, sig.side>>
           kept == [capped EXCEPT !.stall = [k \in DOMAIN @ \cup {key} |->
                                               IF k = key THEN d.st ELSE @[k]]]
<1>4. CASE capped' = capped
  BY <1>2, <1>4, QuietKeepsSound
<1>5. CASE WouldTake(row, args) # {} /\ ~InScope(p, sig.side)
             /\ capped' = Emitted(capped, sig, p, read + 1)
  <2>1. sig \in Sigs
    BY <1>1, <1>5 DEF Sigs
  <2> HIDE DEF sig
  <2> QED BY <1>2, <1>5, <2>1, PassKeepsSound

<1>6. CASE /\ WouldTake(row, args) # {} /\ InScope(p, sig.side)
           /\ IF d.ok THEN capped' = Emitted(kept, sig, p, read + 1)
              ELSE capped' = [kept EXCEPT !.vetoed = @ \cup {[at |-> read + 1, leg |-> p.leg,
                                                  epoch |-> p.epoch, side |-> sig.side]}]
  <2>1. sig \in Sigs /\ sig.side \in SigSides
    <3>1. sig \in Sigs
      BY <1>1, <1>6 DEF Sigs
    <3> HIDE DEF sig
    <3> QED BY <3>1 DEF SigSides
  <2>2. p.leg \in Nat /\ p.epoch \in Nat /\ p.at \in Nat /\ read' = read + 1
    BY <1>2 DEF Moves
  <2>3. JudgedBy(old, p, sig.side)
    BY <1>2, <2>1, RecordIsGood DEF Inv
  <2>4. old \in StallRecs
    BY <2>3 DEF JudgedBy
  <2>5. /\ FreshStall(p) \in StallRecs
        /\ FreshStall(p).probe = -1 /\ Counted(old).probe = old.probe
        /\ Counted(old) \in StallRecs /\ Counted(old).count = old.count + 1
        /\ (Counted(old).blocked <=> old.blocked) /\ Counted(old).epoch = old.epoch
        /\ Probed(old, read + 1) \in StallRecs /\ (Probed(old, read + 1).blocked <=> old.blocked)
        /\ Probed(old, read + 1).probe = read + 1 /\ Probed(old, read + 1).epoch = old.epoch
        /\ Shut(old, read + 1) \in StallRecs /\ Shut(old, read + 1).blocked
        /\ Shut(old, read + 1).probe = read + 1 /\ Shut(old, read + 1).epoch = old.epoch
    <3> DEFINE at == read + 1
    <3>1. at \in Nat
      BY <1>1
    <3> HIDE DEF old, at
    <3>2. /\ FreshStall(p) \in StallRecs
          /\ FreshStall(p).probe = -1 /\ Counted(old).probe = old.probe
          /\ Counted(old) \in StallRecs /\ Counted(old).count = old.count + 1
          /\ (Counted(old).blocked <=> old.blocked) /\ Counted(old).epoch = old.epoch
          /\ Probed(old, at) \in StallRecs /\ (Probed(old, at).blocked <=> old.blocked)
          /\ Probed(old, at).probe = at /\ Probed(old, at).epoch = old.epoch
          /\ Shut(old, at) \in StallRecs /\ Shut(old, at).blocked
          /\ Shut(old, at).probe = at /\ Shut(old, at).epoch = old.epoch
      BY <2>2, <2>4, <3>1, RecordForms
    <3> QED BY <3>2 DEF at
  <2> DEFINE e == Signal(sig, p, read + 1)
  <2>8. old.probe \in Int /\ old.probe <= read
    BY <2>3, <2>4 DEF JudgedBy, StallRecs
  <2>9. key \in Nat \X SigSides
    BY <2>1, <2>2
  <2>10. ASSUME d.st \in StallRecs
         PROVE  /\ kept \in Scans /\ kept.out = capped.out /\ kept.vetoed = capped.vetoed
                /\ DOMAIN kept.stall = DOMAIN capped.stall \cup {key}
                /\ kept.stall[key] = d.st
                /\ \A k \in DOMAIN capped.stall : k # key => kept.stall[k] = capped.stall[k]
    <3> DEFINE st == d.st
    <3>1. st \in StallRecs
      BY <2>10
    <3> HIDE DEF st, key
    <3>2. LET t == Recorded(capped, key, st)
          IN  /\ t \in Scans /\ t.out = capped.out /\ t.vetoed = capped.vetoed
              /\ DOMAIN t.stall = DOMAIN capped.stall \cup {key}
              /\ t.stall[key] = st
              /\ \A k \in DOMAIN capped.stall : k # key => t.stall[k] = capped.stall[k]
      BY <1>1, <2>9, <3>1, KeptFields
    <3>3. kept = Recorded(capped, key, st)
      BY DEF Recorded, st
    <3> HIDE DEF kept
    <3> QED BY <3>2, <3>3 DEF st
  <2> HIDE DEF sig, old, d, kept, e
  <2>6. CASE d.ok
    <3>1. \/ Rearmed(old, p) /\ d.st = FreshStall(p)
          \/ /\ ~Rearmed(old, p) /\ old.blocked
             /\ (read + 1) - old.probe >= args.progress_probe_interval_bars
             /\ d.st = Probed(old, read + 1)
          \/ /\ ~Rearmed(old, p) /\ ~old.blocked
             /\ ~(/\ old.count + 1 >= args.progress_stall_n
                  /\ (read + 1) - p.at >= args.progress_min_no_progress_bars)
             /\ d.st = Counted(old)
      BY <1>1, <2>2, <2>4, <2>6, AllowCases DEF d
    <3>2. d.st \in StallRecs
      BY <2>5, <3>1
    <3>3. capped' = Emitted(kept, sig, p, read + 1)
      BY <1>6, <2>6
    <3>4. /\ capped' \in Scans /\ e \in Entries /\ capped'.out = Append(kept.out, e)
          /\ capped'.stall = kept.stall /\ capped'.vetoed = kept.vetoed
      BY <1>2, <2>1, <2>10, <3>2, <3>3, Emits DEF Inv, Sound, e
    <3>5. /\ e.leg = p.leg /\ e.epoch = p.epoch /\ e.at = read + 1
          /\ e.since = (read + 1) - p.at /\ e.sig.side = sig.side
      <4>1. e.sig = sig
        BY SignalFields DEF e
      <4> QED BY <4>1, SignalFields DEF e
    <3>6. e.inScope
      BY <1>6, SignalScope DEF e
    <3>7. Passes(old, d.st, e, p, args)
      BY <2>5, <3>1, <3>5 DEF Passes
    <3>8. d.st.probe <= read + 1
      BY <1>1, <2>5, <2>8, <3>1
    <3>9. Replaces(p, sig.side, d.st)
      BY <2>10, <3>2, <3>4 DEF Replaces
    <3>10. capped'.out = Append(capped.out, e) /\ capped'.vetoed = capped.vetoed
      BY <2>10, <3>2, <3>4
    <3> QED BY <1>2, <2>1, <2>3, <3>2, <3>4, <3>5, <3>6, <3>7, <3>8, <3>9, <3>10, AllowKeepsSound
  <2>7. CASE ~d.ok
    <3>1. /\ ~Rearmed(old, p)
          /\ \/ /\ old.blocked /\ d.st = old
                /\ ~((read + 1) - old.probe >= args.progress_probe_interval_bars)
             \/ ~old.blocked /\ d.st = Shut(old, read + 1)
      BY <1>1, <2>2, <2>4, <2>7, VetoCases DEF d
    <3>2. d.st \in StallRecs
      BY <2>4, <2>5, <3>1
    <3> DEFINE v == [at |-> read + 1, leg |-> p.leg, epoch |-> p.epoch, side |-> sig.side]
    <3>3. v \in Vetoes /\ v.at = read + 1 /\ v.leg = p.leg /\ v.side = sig.side
      BY <1>1, <2>1, <2>2 DEF Vetoes
    <3>4. capped' = [kept EXCEPT !.vetoed = @ \cup {v}]
      BY <1>6, <2>7
    <3> HIDE DEF v
    <3>5. /\ capped' \in Scans /\ capped'.vetoed = capped.vetoed \cup {v}
          /\ capped'.out = capped.out /\ capped'.stall = kept.stall
      BY <2>10, <3>2, <3>3, <3>4 DEF Scans
    <3>6. Replaces(p, sig.side, d.st)
      BY <2>10, <3>2, <3>5 DEF Replaces
    <3>7. Blocks(old, d.st, p, args)
      BY <2>5, <3>1 DEF Blocks
    <3> QED BY <1>2, <2>1, <2>3, <3>2, <3>3, <3>5, <3>6, <3>7, VetoKeepsSound
  <2> QED BY <2>6, <2>7
<1>7. \/ capped' = capped
      \/ WouldTake(row, args) # {} /\ ~InScope(p, sig.side)
            /\ capped' = Emitted(capped, sig, p, read + 1)
      \/ /\ WouldTake(row, args) # {} /\ InScope(p, sig.side)
         /\ IF d.ok THEN capped' = Emitted(kept, sig, p, read + 1)
            ELSE capped' = [kept EXCEPT !.vetoed = @ \cup {[at |-> read + 1, leg |-> p.leg,
                                                epoch |-> p.epoch, side |-> sig.side]}]
  BY <1>3, Zenon DEF ScanCapped
<1> QED BY <1>4, <1>5, <1>6, <1>7, Zenon

\* The empty scan is sound, and every step keeps it so.
LEMMA InitSound ==
    ASSUME ScanInit
    PROVE  Inv
<1> DEFINE map == << >>
           none == {}
<1>1. map \in StallMaps /\ DOMAIN map = {}
  <2>1. map \in [{} -> StallRecs] /\ DOMAIN map = {}
    OBVIOUS
  <2> QED BY <2>1 DEF StallMaps
<1>2. map \in Seq(Entries) /\ none \in SUBSET Vetoes /\ 0 \in Days
  BY DEF Days
<1>3. NewScan = [last |-> -1, day |-> 0, count |-> 0, stall |-> map, out |-> map, vetoed |-> none]
  BY DEF NewScan, NoTime
<1> HIDE DEF map, none
<1>4. /\ NewScan \in Scans /\ NewScan.stall = map /\ NewScan.out = map /\ NewScan.vetoed = none
  BY <1>1, <1>2, <1>3 DEF Scans
<1>5. Typed
  <2>1. progress.leg = 0 /\ progress.epoch = 0 /\ progress.at = 0
    BY DEF ScanInit, NoProgress
  <2> QED BY <1>4, <2>1 DEF ScanInit, Typed
<1>6. capped = NewScan
  BY DEF ScanInit
<1>7. ToSet(map) = {}
  BY <1>1 DEF ToSet
<1>8. EntriesSound /\ StallsSound /\ VetoesSound
  BY <1>1, <1>4, <1>6 DEF EntriesSound, StallsSound, VetoesSound, none
<1>9. ProbesAreSpaced /\ NeverGoesDark
  BY <1>1, <1>4, <1>6 DEF ProbesAreSpaced, NeverGoesDark, none
<1> QED BY <1>5, <1>8, <1>9 DEF Inv, Sound

\* A step outside the scan changes nothing.
LEMMA StutterSound ==
    ASSUME Inv, UNCHANGED scanVars
    PROVE  Inv'
BY DEF scanVars, Inv, Sound, Typed, EntriesSound, StallsSound, VetoesSound, ProbesAreSpaced,
       NeverGoesDark, Stalled

\* The invariant holds throughout every scan.
LEMMA AlwaysSound == ScanSpec => []Inv
<1>1. ScanInit => Inv
  BY InitSound
<1>2. Inv /\ [ScanNext]_scanVars => Inv'
  BY RowKeepsSound, StutterSound DEF ScanNext
<1> QED BY <1>1, <1>2, PTL DEF ScanSpec

\* Whatever the chart, the arguments and the bounds, once a cluster has had its
\* allowance of signals without progress, the cap lets only probes through, each
\* a probe interval after all the cluster took before (_ProgressStall.decide).
THEOREM ProbesKeepTheirDistance == ScanSpec => []ProbesAreSpaced
<1>1. Inv => ProbesAreSpaced
  BY DEF Inv
<1> QED BY <1>1, AlwaysSound, PTL

\* Whatever the chart, the arguments and the bounds, a leg and side the cap has
\* blocked hears from it again: no two of its vetoes a probe interval apart are
\* without a signal let through between them (_ProgressStall.decide).
THEOREM CapNeverGoesDark == ScanSpec => []NeverGoesDark
<1>1. Inv => NeverGoesDark
  BY DEF Inv
<1> QED BY <1>1, AlwaysSound, PTL

=============================================================================
