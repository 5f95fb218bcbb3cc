------------------------- MODULE Reconciliation_proofs -------------------------
(***************************************************************************)
(* Theorems of the two things a live cycle reads before it decides.        *)
(*                                                                         *)
(* The registry of signals (SignalRegistry), for any number of commands at *)
(* once: while none of them runs what the broker holds is tracked, unless  *)
(* a fault or one of the named overlaps cost it its entry.                 *)
(*                                                                         *)
(* The reconciled replay (Reconciliation): however long the chart, a leg   *)
(* the broker holds is judged by its own fill.  The argument is by         *)
(* induction over the bars of the replay.                                  *)
(***************************************************************************)
EXTENDS Reconciliation, SignalRegistry, WellFoundedInduction, TLAPS

Adding  == {"add_load", "add_open", "add_write"}
Writing == {"add_write", "prune_write"}

Typed ==
    /\ DOMAIN pc = Processes /\ DOMAIN held = Signals /\ DOMAIN alive = Processes
    /\ DOMAIN loaded = Processes /\ DOMAIN file = {"keys", "text"} /\ DOMAIN sig = Processes
    /\ \A p \in Processes : /\ sig[p] \in Signals
                            /\ pc[p] \in {"add_open", "add_write"} => sig[p] \in loaded[p]

\* Signals that no fault and no overlap of two commands has touched.
Owed(s) == Live(s) /\ s \notin excused /\ s \notin raced

\* Just placed, and on its way to the file.
Arriving(s) == \E p \in Processes : pc[p] \in Adding /\ s = sig[p]

\* The file is whole unless somebody is writing it, and whoever is to write it knows s.
InFile(s) == /\ s \in file.keys
             /\ file.text = "whole" \/ \E p \in Processes : pc[p] \in Writing
KnownToAll(s) == \A p \in Processes : ~Overlooks(p, s)

Safe(s) == Arriving(s) \/ (InFile(s) /\ KnownToAll(s))
Inv == Typed /\ \A s \in Signals : Owed(s) => Safe(s)

-----------------------------------------------------------------------------
(* The broker                                                              *)

\* A signal that fills or finishes owes no more than before, and is found where it is asked
\* for next.
LEMMA BrokerKeeps ==
    ASSUME Inv, NEW s \in Signals, FillOrders(s) \/ Finish(s)
    PROVE  Inv'
<1>1. /\ UNCHANGED <<file, pc, sig, alive, loaded, excused, raced>> /\ DOMAIN held' = Signals
      /\ \A r \in Signals : r # s => held'[r] = held[r]
      /\ Live(s) /\ held'[s] \in {"position", "gone"}
  BY DEF FillOrders, Finish, Live, Inv, Typed, procs
<1>2. \A r \in Signals : /\ Owed(r)' => Owed(r)
                         /\ held'[r] = "orders" => held[r] = "orders"
  BY <1>1 DEF Owed, Live
<1>3. \A r \in Signals : Safe(r) => Safe(r)'
  BY <1>1, <1>2 DEF Safe, Arriving, InFile, KnownToAll, Overlooks
<1> QED BY <1>1, <1>2, <1>3 DEF Inv, Typed

-----------------------------------------------------------------------------
(* The steps of a command                                                  *)

\* p moves from one place to another.
Moves(p, from, to) ==
    /\ DOMAIN pc' = Processes /\ pc[p] \in from /\ pc'[p] \in to
    /\ \A q \in Processes : q # p => pc'[q] = pc[q]

\* Starting, reading, checking and ending commit to nothing.
LEMMA LightKeeps ==
    ASSUME Inv, NEW p \in Processes,
           \/ StartWatch(p) \/ \E s \in Signals : StartDecide(p, s)
           \/ ReadRegistry(p) \/ SanityChecks(p) \/ EndCycle(p)
    PROVE  Inv'
<1>1. Moves(p, {"off", "read", "sanity", "end"}, {"off", "sanity", "place", "orders", "read"})
  BY DEF StartWatch, StartDecide, Running, ReadRegistry, SanityChecks, EndCycle, Goto, Inv,
         Typed, Moves
<1>2. /\ UNCHANGED <<file, held, excused, raced>>
      /\ DOMAIN alive' = Processes /\ DOMAIN loaded' = Processes
      /\ DOMAIN sig' = Processes /\ sig'[p] \in Signals
      /\ \A q \in Processes : q # p =>
             alive'[q] = alive[q] /\ loaded'[q] = loaded[q] /\ sig'[q] = sig[q]
  BY DEF StartWatch, StartDecide, ReadRegistry, SanityChecks, EndCycle, Forget, Fine, Inv, Typed
<1>3. \A s \in Signals : (Owed(s)' => Owed(s)) /\ (Safe(s) => Safe(s)')
  <2>1. \A s \in Signals : Owed(s)' => Owed(s)
    BY <1>2 DEF Owed, Live
  <2>2. \A s \in Signals : Arriving(s) => Arriving(s)'
    BY <1>1, <1>2 DEF Arriving, Adding, Moves
  <2>3. \A s \in Signals : InFile(s) => InFile(s)'
    BY <1>1, <1>2 DEF InFile, Writing, Moves
  <2>4. \A s \in Signals : KnownToAll(s) => KnownToAll(s)'
    BY <1>1, <1>2 DEF KnownToAll, Overlooks, Moves
  <2> QED BY <2>1, <2>2, <2>3, <2>4 DEF Safe
<1>4. Typed'
  BY <1>1, <1>2 DEF Moves, Inv, Typed
<1> QED BY <1>3, <1>4 DEF Inv

\* A signal just placed is the one its command goes on to add.
LEMMA PlaceKeeps == ASSUME Inv, NEW p \in Processes, PlaceSignal(p) PROVE Inv'
<1>1. Moves(p, {"place"}, {"add_load", "orders"})
  BY DEF PlaceSignal, Goto, Inv, Typed, Moves
<1>2. /\ UNCHANGED <<file, sig, alive, loaded, excused, raced>> /\ DOMAIN held' = Signals
      /\ \/ pc'[p] = "add_load" /\ \A s \in Signals : s # sig[p] => held'[s] = held[s]
         \/ held' = held
  BY DEF PlaceSignal, Goto, Fine, Inv, Typed
<1>3. \A s \in Signals : held'[s] = held[s] \/ Arriving(s)'
  BY <1>1, <1>2 DEF Arriving, Adding, Moves, Inv, Typed
<1>4. ASSUME NEW s \in Signals, held'[s] = held[s] PROVE Safe(s) => Safe(s)'
  <2>1. Arriving(s) => Arriving(s)'
    BY <1>1, <1>2 DEF Arriving, Adding, Moves
  <2>2. InFile(s) => InFile(s)'
    BY <1>1, <1>2 DEF InFile, Writing, Moves
  <2>3. KnownToAll(s) => KnownToAll(s)'
    BY <1>1, <1>2, <1>4 DEF KnownToAll, Overlooks, Moves
  <2> QED BY <2>1, <2>2, <2>3 DEF Safe
<1>5. Typed'
  BY <1>1, <1>2 DEF Moves, Inv, Typed
<1>6. \A s \in Signals : Owed(s)' /\ held'[s] = held[s] => Owed(s)
  BY <1>2 DEF Owed, Live
<1> QED BY <1>3, <1>4, <1>5, <1>6 DEF Inv, Safe

\* What p loads to add to it holds the whole file, or the rest is counted as raced.
LEMMA AddLoadKeeps == ASSUME Inv, NEW p \in Processes, AddLoad(p) PROVE Inv'
<1>1. Moves(p, {"add_load"}, {"add_open"})
  BY DEF AddLoad, Goto, Inv, Typed, Moves
<1>2. /\ UNCHANGED <<file, held, sig, alive, excused>> /\ DOMAIN loaded' = Processes
      /\ loaded'[p] = Load \cup {sig[p]} /\ raced' = raced \cup (file.keys \ Load)
      /\ \A q \in Processes : q # p => loaded'[q] = loaded[q]
  BY DEF AddLoad, Inv, Typed
<1>3. \A s \in Signals : Owed(s)' => Owed(s) /\ (s \in file.keys => s \in loaded'[p])
  BY <1>2 DEF Owed, Live
<1>4. ASSUME NEW s \in Signals, Owed(s)' PROVE Safe(s)'
  <2>1. Arriving(s) => Arriving(s)'
    BY <1>1, <1>2 DEF Arriving, Adding, Moves
  <2>2. InFile(s) => InFile(s)'
    BY <1>1, <1>2 DEF InFile, Writing, Moves
  <2>3. InFile(s) /\ KnownToAll(s) => KnownToAll(s)'
    BY <1>1, <1>2, <1>3, <1>4 DEF InFile, KnownToAll, Overlooks, Moves
  <2> QED BY <1>3, <1>4, <2>1, <2>2, <2>3 DEF Safe, Inv
<1>5. Typed'
  BY <1>1, <1>2 DEF Moves, Inv, Typed
<1> QED BY <1>4, <1>5 DEF Inv

\* Opening empties the text; the signals owed are in what the command loaded.
LEMMA OpenKeeps == ASSUME Inv, NEW p \in Processes, OpenToWrite(p) PROVE Inv'
<1>1. \/ Moves(p, {"add_open"}, {"add_write"}) \/ Moves(p, {"prune_open"}, {"prune_write"})
  BY DEF OpenToWrite, Goto, Inv, Typed, Moves
<1>2. /\ UNCHANGED <<held, sig, alive, loaded, excused, raced>> /\ DOMAIN file' = {"keys", "text"}
      /\ file'.keys = file.keys
  BY DEF OpenToWrite, Fine, Inv, Typed
<1>3. \A s \in Signals : (Owed(s)' => Owed(s)) /\ (Safe(s) => Safe(s)')
  <2>1. \A s \in Signals : Owed(s)' => Owed(s)
    BY <1>2 DEF Owed, Live
  <2>2. \A s \in Signals : Arriving(s) => Arriving(s)'
    BY <1>1, <1>2 DEF Arriving, Adding, Moves
  <2>3. \A s \in Signals : InFile(s) => InFile(s)'
    BY <1>1, <1>2 DEF InFile, Writing, Moves
  <2>4. \A s \in Signals : KnownToAll(s) => KnownToAll(s)'
    BY <1>1, <1>2 DEF KnownToAll, Overlooks, Moves
  <2> QED BY <2>1, <2>2, <2>3, <2>4 DEF Safe
<1>4. Typed'
  BY <1>1, <1>2 DEF Moves, Inv, Typed
<1> QED BY <1>3, <1>4 DEF Inv

\* A write puts down all that is owed: p knew it, or p is the one that brings it.  A garbled
\* one costs the keys of both texts.
LEMMA WriteKeeps == ASSUME Inv, NEW p \in Processes, Write(p) PROVE Inv'
<1>1. Moves(p, Writing, {"orders", "end"})
  BY DEF Write, Goto, Inv, Typed, Moves, Writing
<1>2. /\ UNCHANGED <<held, sig, alive, loaded, excused>> /\ DOMAIN file' = {"keys", "text"}
      /\ file'.keys = loaded[p] /\ raced \subseteq raced'
      /\ \/ file'.text = "whole" /\ Overtaken(p) \subseteq raced'
         \/ file.keys \cup loaded[p] \subseteq raced'
  BY DEF Write, Inv, Typed
<1>3. \A s \in Signals : Owed(s)' => Owed(s)
  BY <1>2 DEF Owed, Live
<1>4. ASSUME NEW s \in Signals, Owed(s)' PROVE Safe(s)'
  <2>1. CASE Arriving(s) /\ ~(pc[p] = "add_write" /\ s = sig[p])
    BY <1>1, <1>2, <2>1 DEF Safe, Arriving, Adding, Writing, Moves
  <2>2. CASE pc[p] = "add_write" /\ s = sig[p]
    <3>1. s \in loaded[p]
      BY <2>2 DEF Inv, Typed
    <3>2. file'.text = "whole" /\ s \notin Overtaken(p)
      BY <1>2, <1>4, <3>1 DEF Owed
    <3>3. \A q \in Processes : q # p => ~Overlooks(q, s)
      BY <2>2, <3>2 DEF Overtaken
    <3>4. KnownToAll(s)'
      BY <1>1, <1>2, <3>3 DEF KnownToAll, Overlooks, Moves
    <3> QED BY <1>2, <3>1, <3>2, <3>4 DEF Safe, InFile
  <2>3. CASE ~Arriving(s)
    <3>1. InFile(s) /\ KnownToAll(s)
      BY <1>3, <1>4, <2>3 DEF Inv, Safe
    <3>2. s \in file.keys /\ s \in loaded[p]
      BY <1>1, <3>1 DEF InFile, KnownToAll, Overlooks, Moves, Writing
    <3>3. file'.text = "whole"
      BY <1>2, <1>4, <3>2 DEF Owed
    <3>4. KnownToAll(s)'
      BY <1>1, <1>2, <3>1 DEF KnownToAll, Overlooks, Moves
    <3> QED BY <1>2, <3>2, <3>3, <3>4 DEF Safe, InFile
  <2> QED BY <2>1, <2>2, <2>3
<1>5. Typed'
  BY <1>1, <1>2 DEF Moves, Inv, Typed
<1> QED BY <1>4, <1>5 DEF Inv

\* Two questions cover both forms of life, an order that fills in between included; a
\* failed one excuses all that lives.
LEMMA AskKeeps == ASSUME Inv, NEW p \in Processes, AskAlive(p) PROVE Inv'
<1>1. \/ Moves(p, {"orders"}, {"positions"}) \/ Moves(p, {"positions"}, {"prune_load"})
  BY DEF AskAlive, Goto, Inv, Typed, Moves
<1>2. /\ UNCHANGED <<file, held, sig, loaded, raced>> /\ DOMAIN alive' = Processes
      /\ \A q \in Processes : q # p => alive'[q] = alive[q]
      /\ \/ alive'[p] = alive[p] \cup {s \in Signals : Answer(p, s)} /\ excused' = excused
         \/ excused' = excused \cup {s \in Signals : Live(s)}
  BY DEF AskAlive, Fine, Inv, Typed
<1>3. \A s \in Signals : Owed(s)' => /\ Owed(s)
                                     /\ s \in alive[p] \/ Answer(p, s) => s \in alive'[p]
  BY <1>2 DEF Owed, Live
<1>4. ASSUME NEW s \in Signals, Owed(s)' PROVE Safe(s)'
  <2>1. Arriving(s) => Arriving(s)'
    BY <1>1, <1>2 DEF Arriving, Adding, Moves
  <2>2. InFile(s) => InFile(s)'
    BY <1>1, <1>2 DEF InFile, Writing, Moves
  <2>3. ASSUME KnownToAll(s) PROVE ~Overlooks(p, s)'
    <3>1. CASE pc[p] = "orders"
      BY <1>1, <1>2, <1>3, <1>4, <3>1 DEF Overlooks, Answer, Moves
    <3>2. CASE pc[p] = "positions"
      <4>1. held[s] = "orders" => s \in alive[p]
        BY <2>3, <3>2 DEF KnownToAll, Overlooks
      <4>2. held[s] = "orders" \/ held[s] = "position"
        BY <1>3, <1>4 DEF Owed, Live
      <4>3. s \in alive'[p]
        BY <1>3, <1>4, <3>2, <4>1, <4>2 DEF Answer
      <4> QED BY <1>1, <3>2, <4>3 DEF Overlooks, Moves
    <3> QED BY <1>1, <3>1, <3>2 DEF Moves
  <2>4. KnownToAll(s) => KnownToAll(s)'
    BY <1>1, <1>2, <2>3 DEF KnownToAll, Overlooks, Moves
  <2> QED BY <1>3, <1>4, <2>1, <2>2, <2>4 DEF Safe, Inv
<1>5. Typed'
  BY <1>1, <1>2 DEF Moves, Inv, Typed
<1> QED BY <1>4, <1>5 DEF Inv

\* What is alive and in the file is kept; a file that cannot be read is left alone.
LEMMA PruneLoadKeeps == ASSUME Inv, NEW p \in Processes, PruneLoad(p) PROVE Inv'
<1>1. Moves(p, {"prune_load"}, {"end", "prune_open"})
  BY DEF PruneLoad, Goto, Inv, Typed, Moves
<1>2. /\ UNCHANGED <<file, held, sig, alive, excused, raced>> /\ DOMAIN loaded' = Processes
      /\ loaded'[p] = Load \cap alive[p]
      /\ pc'[p] = "prune_open" => file.text = "whole"
      /\ \A q \in Processes : q # p => loaded'[q] = loaded[q]
  BY DEF PruneLoad, Kept, Load, Goto, Fine, Inv, Typed
<1>3. \A s \in Signals : Owed(s)' => Owed(s)
  BY <1>2 DEF Owed, Live
<1>4. ASSUME NEW s \in Signals, Owed(s)' PROVE Safe(s)'
  <2>1. Arriving(s) => Arriving(s)'
    BY <1>1, <1>2 DEF Arriving, Adding, Moves
  <2>2. InFile(s) => InFile(s)'
    BY <1>1, <1>2 DEF InFile, Writing, Moves
  <2>3. ASSUME InFile(s), KnownToAll(s) PROVE ~Overlooks(p, s)'
    <3>1. s \in alive[p] /\ s \in file.keys
      BY <1>1, <2>3 DEF InFile, KnownToAll, Overlooks, Moves
    <3> QED BY <1>1, <1>2, <3>1 DEF Overlooks, Moves, Load
  <2>4. InFile(s) /\ KnownToAll(s) => KnownToAll(s)'
    BY <1>1, <1>2, <2>3 DEF KnownToAll, Overlooks, Moves
  <2> QED BY <1>3, <1>4, <2>1, <2>2, <2>4 DEF Safe, Inv
<1>5. Typed'
  BY <1>1, <1>2 DEF Moves, Inv, Typed
<1> QED BY <1>4, <1>5 DEF Inv

\* A kill excuses what was placed and not written, and what a cut write emptied.
LEMMA KillKeeps == ASSUME Inv, NEW p \in Processes, Kill(p) PROVE Inv'
<1>1. Moves(p, {pc[p]}, {"off"})
  BY DEF Kill, Goto, Inv, Typed, Moves
<1>2. /\ UNCHANGED <<file, held, sig, raced>>
      /\ DOMAIN alive' = Processes /\ DOMAIN loaded' = Processes
      /\ \A q \in Processes : q # p => alive'[q] = alive[q] /\ loaded'[q] = loaded[q]
      /\ excused \subseteq excused'
      /\ pc[p] \in Adding => sig[p] \in excused'
      /\ pc[p] \in Writing => file.keys \ Load \subseteq excused'
  BY DEF Kill, Forget, Inv, Typed, Writing, Adding
<1>3. \A s \in Signals : Owed(s)' => Owed(s)
  BY <1>2 DEF Owed, Live
<1>4. ASSUME NEW s \in Signals, Owed(s)' PROVE Safe(s)'
  <2>1. Arriving(s) => Arriving(s)'
    BY <1>1, <1>2, <1>4 DEF Arriving, Adding, Moves, Owed
  <2>2. InFile(s) => InFile(s)'
    <3>1. CASE pc[p] \in Writing
      BY <1>1, <1>2, <1>4, <3>1 DEF InFile, Load, Moves, Owed
    <3>2. CASE pc[p] \notin Writing
      BY <1>1, <1>2, <3>2 DEF InFile, Moves
    <3> QED BY <3>1, <3>2
  <2>3. KnownToAll(s) => KnownToAll(s)'
    BY <1>1, <1>2 DEF KnownToAll, Overlooks, Moves
  <2> QED BY <1>3, <1>4, <2>1, <2>2, <2>3 DEF Safe, Inv
<1>5. Typed'
  BY <1>1, <1>2 DEF Moves, Inv, Typed
<1> QED BY <1>4, <1>5 DEF Inv

LEMMA StepKeeps == ASSUME Inv, [RegistryNext]_registryVars PROVE Inv'
<1>1. CASE UNCHANGED registryVars
  BY <1>1 DEF registryVars, procs, Inv, Typed, Owed, Live, Safe, Arriving, InFile, KnownToAll,
         Overlooks
<1>2. ASSUME NEW p \in Processes, Step(p) PROVE Inv'
  BY <1>2, LightKeeps, PlaceKeeps, AddLoadKeeps, OpenKeeps, WriteKeeps, AskKeeps, PruneLoadKeeps
  DEF Step
<1> QED BY <1>1, <1>2, BrokerKeeps, LightKeeps, KillKeeps DEF RegistryNext

-----------------------------------------------------------------------------
(* The theorem                                                             *)

LEMMA InitHolds == ASSUME RegistryInit PROVE Inv
BY DEF RegistryInit, Inv, Typed, Owed, Live

\* While none of the commands of `decide --execute` and `manage --watch --execute` runs, each
\* signal the broker holds is in positions.json, however many of them ran at once and however
\* they overlapped, unless a fault hit it, a command overlooked it when it was written, or a
\* read or write fell into another's write.
THEOREM LiveStaysTracked == RegistrySpec => []LiveIsTracked
<1>1. Inv => LiveIsTracked
  BY DEF Inv, Owed, Safe, Arriving, InFile, LiveIsTracked, Running, Adding, Writing, Load
<1> QED BY <1>1, InitHolds, StepKeeps, PTL DEF RegistrySpec

-----------------------------------------------------------------------------
(* Induction over the naturals, from the least element of a set            *)

LEMMA LeastElement ==
    ASSUME NEW S \in SUBSET Nat, S # {}
    PROVE  \E m \in S : \A n \in S : m <= n
<1> DEFINE R == OpToRel(<, Nat)
<1>1. \A x, y \in Nat : <<x, y>> \in R <=> x < y
  BY DEF OpToRel
<1>2. \E x \in S : \A y \in S : <<y, x>> \notin R
  BY NatLessThanWellFounded, WFMin
<1> HIDE DEF R
<1>3. PICK x \in S : \A y \in S : <<y, x>> \notin R
  BY <1>2
<1>4. \A y \in S : x \in Nat /\ y \in Nat /\ ~(y < x)
  BY <1>1, <1>3
<1> QED BY <1>4

LEMMA Induct ==
    ASSUME NEW S, 0 \in S, \A n \in Nat : n \in S => n + 1 \in S
    PROVE  Nat \subseteq S
<1> SUFFICES ASSUME Nat \ S # {} PROVE FALSE
  OBVIOUS
<1>1. PICK m \in Nat \ S : \A n \in Nat \ S : m <= n
  BY LeastElement
<1>2. m # 0 /\ m - 1 \in Nat
  BY <1>1
<1>3. m - 1 \in S /\ m = (m - 1) + 1
  BY <1>1, <1>2
<1> QED BY <1>1, <1>2, <1>3

-----------------------------------------------------------------------------
(* What a bar does to a leg that is held: it stays as it was, or ends      *)

Unheld == {"PENDING", "NO_FILL"}

\* The fields the argument is about.
LegShape(e) == {"status", "price", "fill"} \subseteq DOMAIN e
Shape(p)    == /\ "leg" \in DOMAIN p /\ DOMAIN p.leg = Legs
               /\ \A i \in Legs : LegShape(p.leg[i])

LegCarries(e, f) ==
    /\ LegShape(e) => LegShape(f)
    /\ LegShape(e) /\ e.status \notin Unheld =>
          /\ f.status \notin Unheld
          /\ f.status = "OPEN" => e.status = "OPEN" /\ f.fill = e.fill /\ f.price = e.price
Carries(p, q) ==
    Shape(p) => Shape(q) /\ \A i \in Legs : LegCarries(p.leg[i], q.leg[i])

LEMMA CarriesSame == ASSUME NEW p PROVE Carries(p, p)
BY DEF Carries, LegCarries

LEMMA CarriesOn ==
    ASSUME NEW p, NEW q, NEW r, Carries(p, q), Carries(q, r)
    PROVE  Carries(p, r)
BY DEF Carries, LegCarries, Shape

\* A position of which other fields change.
LEMMA CarriesAside ==
    ASSUME NEW p, NEW q, "leg" \in DOMAIN p => DOMAIN q = DOMAIN p /\ q.leg = p.leg
    PROVE  Carries(p, q)
BY DEF Carries, Shape, LegCarries

-----------------------------------------------------------------------------
(* One bar                                                                 *)

LEMMA FillCarries == ASSUME NEW k, NEW e, NEW b PROVE LegCarries(e, FillLeg(k, e, b))
<1>1. CASE e.status # "PENDING"
  BY <1>1 DEF FillLeg, LegCarries
<1>2. CASE e.status = "PENDING"
  <2>1. LegShape(e) => LegShape(LimitFill(k, e, b))
    BY DEF LimitFill, LegShape
  <2>2. \A x : LegShape(x) => \A v : LegShape(MarketSideFill(k, x, v, b))
    BY DEF MarketSideFill, LegShape
  <2>3. LegShape(e) => LegShape(TrailingOpenFill(k, e, b))
    <3>1. \A v : LegShape(e) => LegShape([e EXCEPT !.extreme = v])
      BY DEF LegShape
    <3>2. \A v, w : LegShape(e) => LegShape([e EXCEPT !.touchedAt = v, !.extreme = w])
      BY DEF LegShape
    <3> QED BY <2>2, <3>1, <3>2 DEF TrailingOpenFill
  <2> QED BY <1>2, <2>1, <2>3 DEF FillLeg, LegCarries, Unheld
<1> QED BY <1>1, <1>2

LEMMA ExpireCarries == ASSUME NEW e PROVE LegCarries(e, ExpireLeg(e))
BY DEF ExpireLeg, LegCarries, LegShape, Unheld

\* A field that is not among those of the argument.
LEMMA OtherFieldCarries ==
    ASSUME NEW e, NEW v
    PROVE  LegCarries(e, [e EXCEPT !.bep = v]) /\ LegCarries(e, [e EXCEPT !.trail = v])
BY DEF LegCarries, LegShape, Unheld

LEMMA CloseCarries ==
    ASSUME NEW e, NEW status, status \notin Unheld \cup {"OPEN"}, NEW t, NEW price, NEW stop
    PROVE  LegCarries(e, CloseLeg(e, status, t, price, stop))
BY DEF CloseLeg, LegCarries, LegShape, Unheld

LEMMA ExitCarries ==
    ASSUME NEW k, NEW p, NEW e, NEW b
    PROVE  LegCarries(e, StopOrTarget(k, p, ArmBep(k, e, b), b))
<1> DEFINE a == ArmBep(k, e, b)
<1>1. LegCarries(e, a)
  BY OtherFieldCarries DEF ArmBep, LegCarries
<1>2. \A stop : StopStatus(k, p, a, stop) \notin Unheld \cup {"OPEN"}
  BY DEF StopStatus, LockStatus, Unheld
<1>3. TargetStatus(k.finalTarget) \notin Unheld \cup {"OPEN"}
  BY DEF TargetStatus, Unheld
<1> HIDE DEF a
<1>4. LegCarries(a, StopOrTarget(k, p, a, b))
  <2>1. LegCarries(a, a)
    BY DEF LegCarries
  <2>2. \A stop, price : LegCarries(a, CloseLeg(a, StopStatus(k, p, a, stop), b.time, price, stop))
    BY <1>2, CloseCarries
  <2>3. \A price, stop : LegCarries(a, CloseLeg(a, TargetStatus(k.finalTarget), b.time, price, stop))
    BY <1>3, CloseCarries
  <2> QED BY <2>1, <2>2, <2>3 DEF StopOrTarget
<1> QED BY <1>1, <1>4 DEF a, LegCarries

LEMMA FillsCarry == ASSUME NEW k, NEW p, NEW b PROVE Carries(p, FillsAndExpiry(k, p, b))
<1> DEFINE f == [p EXCEPT !.leg = [i \in Legs |-> FillLeg(k, @[i], b)]]
           g == IF InWindow(k, b) THEN SetFirstFill(f, b) ELSE p
           h == [g EXCEPT !.leg = [i \in Legs |-> ExpireLeg(@[i])]]
<1>1. Carries(p, f)
  <2>1. "leg" \in DOMAIN p => \A i \in Legs : f.leg[i] = FillLeg(k, p.leg[i], b)
    OBVIOUS
  <2> QED BY <2>1, FillCarries DEF Carries, Shape, LegCarries
<1>2. Carries(f, SetFirstFill(f, b))
  <2> HIDE DEF f
  <2>1. Carries(f, [f EXCEPT !.firstFill = b.time])
    BY CarriesAside
  <2> QED BY <2>1, CarriesSame DEF SetFirstFill
<1>3. Carries(p, g)
  BY <1>1, <1>2, CarriesOn, CarriesSame
<1>4. Carries(g, h)
  <2> HIDE DEF g
  <2>1. "leg" \in DOMAIN g => \A i \in Legs : h.leg[i] = ExpireLeg(g.leg[i])
    OBVIOUS
  <2> QED BY <2>1, ExpireCarries DEF Carries, Shape, LegCarries
<1>5. FillsAndExpiry(k, p, b) = IF b.time > k.expiry THEN h ELSE g
  BY DEF FillsAndExpiry
<1> HIDE DEF g, h
<1> QED BY <1>3, <1>4, <1>5, CarriesOn

LEMMA ExitsCarry == ASSUME NEW k, NEW p, NEW b PROVE Carries(p, Exits(k, p, b))
<1>1. "leg" \in DOMAIN p =>
         \A i \in Legs : Exits(k, p, b).leg[i] = StopOrTarget(k, p, ArmBep(k, p.leg[i], b), b)
  BY DEF Exits
<1>2. "leg" \in DOMAIN p =>
         DOMAIN Exits(k, p, b) = DOMAIN p /\ DOMAIN Exits(k, p, b).leg = Legs
  BY DEF Exits
<1> QED BY <1>1, <1>2, ExitCarries DEF Carries, Shape, LegCarries

LEMMA ScaleOutCarries == ASSUME NEW k, NEW p, NEW b, NEW n PROVE Carries(p, ScaleOut(k, p, b, n))
<1> DEFINE w == WorstLeg(k, p, b)
           e == CloseLeg(p.leg[w], TargetStatus(n), b.time, k.tp[n], NoPrice)
           r == [p EXCEPT !.scaled[n] = TRUE]
           q == [r EXCEPT !.leg[w] = e]
<1>1. LegCarries(p.leg[w], e)
  <2>1. TargetStatus(n) \notin Unheld \cup {"OPEN"}
    BY DEF TargetStatus, Unheld
  <2> QED BY <2>1, CloseCarries
<1>2. Carries(p, r)
  BY CarriesAside
<1>3. "leg" \in DOMAIN p => r.leg = p.leg /\ "leg" \in DOMAIN r
  OBVIOUS
<1> HIDE DEF w, e, r
<1>4. Carries(r, q)
  <2> SUFFICES ASSUME Shape(r) PROVE Shape(q) /\ \A i \in Legs : LegCarries(r.leg[i], q.leg[i])
    BY DEF Carries
  <2>1. DOMAIN q.leg = Legs /\ DOMAIN q = DOMAIN r
    BY DEF Shape
  <2>2. \A i \in Legs : q.leg[i] = IF i = w THEN e ELSE r.leg[i]
    BY DEF Shape
  <2>3. "leg" \in DOMAIN p
    BY DEF Shape, r
  <2>4. \A i \in Legs : LegCarries(r.leg[i], q.leg[i])
    BY <1>1, <1>3, <2>2, <2>3 DEF LegCarries
  <2> QED BY <2>1, <2>4 DEF Shape, LegCarries
<1>5. ScaleOut(k, p, b, n) = p \/ ScaleOut(k, p, b, n) = q
  BY <1>3 DEF ScaleOut, w, e, r
<1> QED BY <1>2, <1>4, <1>5, CarriesOn, CarriesSame

LEMMA StagesCarry == ASSUME NEW k, NEW p, NEW b PROVE Carries(p, Stages(k, p, b))
<1>1. \A x, n, c : Carries(x, SetTouch(x, n, c, b))
  <2>1. \A x, n : Carries(x, [x EXCEPT !.touch[n] = b.time])
    BY CarriesAside
  <2> QED BY <2>1, CarriesSame DEF SetTouch
<1>2. \A x, n, c, d : Carries(x, Promote(x, n, c, d, b))
  <2>1. \A x, n : Carries(x, [x EXCEPT !.stage = n])
    BY CarriesAside
  <2> QED BY <2>1, CarriesSame DEF Promote
<1>3. \A x : Carries(x, [x EXCEPT !.stage = 3, !.touch[3] = b.time])
  <2>1. \A x : Carries(x, [x EXCEPT !.stage = 3])
    BY CarriesAside
  <2>2. \A x : Carries(x, [x EXCEPT !.touch[3] = b.time])
    BY CarriesAside
  <2>3. \A x : [x EXCEPT !.stage = 3, !.touch[3] = b.time]
               = [[x EXCEPT !.stage = 3] EXCEPT !.touch[3] = b.time]
    OBVIOUS
  <2> QED BY <2>1, <2>2, <2>3, CarriesOn
<1> DEFINE any == Eligible(p, b) # {}
           t1  == SetTouch(p, 1, any /\ Stage1Active(k) /\ HitTp(k, b, 1), b)
           t2  == SetTouch(t1, 2, any /\ Stage2Active(k) /\ HitTp(k, b, 2), b)
           s1  == Promote(t2, 1, any /\ Stage1Active(k), k.delay1, b)
           s2  == Promote(s1, 2, any /\ Stage2Active(k), k.delay2, b)
<1>4. Carries(p, t1) /\ Carries(t1, t2)
  BY <1>1
<1>5. Carries(t2, s1) /\ Carries(s1, s2)
  BY <1>2
<1>6. Stages(k, p, b) = s2 \/ Stages(k, p, b) = [s2 EXCEPT !.stage = 3, !.touch[3] = b.time]
  BY DEF Stages
<1> HIDE DEF t1, t2, s1, s2
<1> QED BY <1>3, <1>4, <1>5, <1>6, CarriesOn

LEMMA TrailsCarry ==
    ASSUME NEW k, NEW p, NEW b, NEW ratchet
    PROVE  Carries(p, Trails(k, p, b, ratchet))
<1> DEFINE q == [p EXCEPT !.leg = [i \in Legs |-> TrailLeg(k, @[i], b)]]
           r == [q EXCEPT !.leg = [i \in Legs |-> RunnerLeg(k, @[i], b)]]
           s == [r EXCEPT !.stage = 3, !.touch[3] = IF @ = NoTime THEN b.time ELSE @,
                          !.runner = TRUE]
<1>1. \A e : LegCarries(e, TrailLeg(k, e, b)) /\ LegCarries(e, RunnerLeg(k, e, b))
  BY OtherFieldCarries DEF TrailLeg, RunnerLeg, LegCarries
<1>2. Carries(p, q)
  <2>1. "leg" \in DOMAIN p => /\ \A i \in Legs : q.leg[i] = TrailLeg(k, p.leg[i], b)
                              /\ DOMAIN q = DOMAIN p /\ DOMAIN q.leg = Legs
    OBVIOUS
  <2> HIDE DEF q
  <2> QED BY <1>1, <2>1 DEF Carries, Shape, LegCarries
<1> HIDE DEF q
<1>3. Carries(q, r)
  <2>1. "leg" \in DOMAIN q => /\ \A i \in Legs : r.leg[i] = RunnerLeg(k, q.leg[i], b)
                              /\ DOMAIN r = DOMAIN q /\ DOMAIN r.leg = Legs
    OBVIOUS
  <2> HIDE DEF r
  <2> QED BY <1>1, <2>1 DEF Carries, Shape, LegCarries
<1>4. Carries(r, s)
  BY CarriesAside
<1>5. RunnerStop(k, q, b) = q \/ RunnerStop(k, q, b) = s
  BY DEF RunnerStop
<1>6. Trails(k, p, b, ratchet) = q \/ Trails(k, p, b, ratchet) = RunnerStop(k, q, b)
  BY DEF Trails, q
<1> HIDE DEF r, s
<1> QED BY <1>2, <1>3, <1>4, <1>5, <1>6, CarriesOn

LEMMA TimeExitCarries == ASSUME NEW k, NEW p, NEW b PROVE Carries(p, TimeExit(k, p, b))
<1> DEFINE Out(e) ==
             IF e.status = "OPEN"
             THEN CloseLeg(e, "TIME_EXIT", b.time,
                           IF k.side = "BUY" THEN b.close ELSE b.close + b.spread, NoPrice)
             ELSE e
           q == [p EXCEPT !.leg = [i \in Legs |-> Out(@[i])]]
<1>1. \A e : LegCarries(e, Out(e))
  BY CloseCarries DEF Unheld, LegCarries
<1> HIDE DEF Out
<1>2. Carries(p, q)
  <2>1. "leg" \in DOMAIN p => /\ \A i \in Legs : q.leg[i] = Out(p.leg[i])
                              /\ DOMAIN q = DOMAIN p /\ DOMAIN q.leg = Legs
    OBVIOUS
  <2> HIDE DEF q
  <2> QED BY <1>1, <2>1 DEF Carries, Shape, LegCarries
<1>3. TimeExit(k, p, b) = p \/ TimeExit(k, p, b) = q
  BY DEF TimeExit, Out
<1> HIDE DEF q
<1> QED BY <1>2, <1>3, CarriesSame

LEMMA BarCarries == ASSUME NEW k, NEW p, NEW b PROVE Carries(p, AdvanceOneBar(k, p, b))
<1>1. \A x : Carries(x, ManageOpen(k, x, b))
  <2> TAKE x
  <2> DEFINE on == [x EXCEPT !.runner = @ \/ RunnerHolds(k, b)].runner
             ex == [Exits(k, x, b) EXCEPT !.runner = on]
             s1 == ScaleOut(k, ex, b, 1)
             s2 == ScaleOut(k, s1, b, 2)
             st == Stages(k, s2, b)
  <2>1. Carries(x, Exits(k, x, b))
    BY ExitsCarry
  <2>2. Carries(Exits(k, x, b), ex)
    <3> DEFINE y == Exits(k, x, b)
    <3> HIDE DEF y, on
    <3>1. Carries(y, [y EXCEPT !.runner = on])
      BY CarriesAside
    <3> QED BY <3>1 DEF y
  <2>3. Carries(ex, s1) /\ Carries(s1, s2)
    BY ScaleOutCarries
  <2>4. Carries(s2, st) /\ Carries(st, Trails(k, st, b, on))
    BY StagesCarry, TrailsCarry
  <2>5. ManageOpen(k, x, b) = Trails(k, st, b, on)
    BY DEF ManageOpen
  <2> HIDE DEF on, ex, s1, s2, st
  <2> QED BY <2>1, <2>2, <2>3, <2>4, <2>5, CarriesOn
<1> DEFINE f == FillsAndExpiry(k, p, b)
           m == IF OpenLegs(f) # {} THEN ManageOpen(k, f, b) ELSE f
           t == TimeExit(k, m, b)
<1>2. Carries(p, f) /\ Carries(m, t)
  BY FillsCarry, TimeExitCarries
<1>3. AdvanceOneBar(k, p, b) = [t EXCEPT !.last = b.time]
  BY DEF AdvanceOneBar
<1> HIDE DEF f, t
<1>4. Carries(f, m)
  BY <1>1, CarriesSame
<1> HIDE DEF m
<1>5. Carries(t, [t EXCEPT !.last = b.time])
  BY CarriesAside
<1> QED BY <1>2, <1>3, <1>4, <1>5, CarriesOn

-----------------------------------------------------------------------------
(* The replay                                                              *)

\* The recursion of AdvanceFrom has a solution, so its last value is its equation's.
LEMMA RunExists ==
    ASSUME NEW p, NEW t, Len(chart) \in Nat
    PROVE  \E run : /\ run[0] = [p EXCEPT !.last = NoTime]
                    /\ \A k \in 1..Len(chart) :
                          run[k] = IF chart[k].time < t THEN run[k - 1]
                                   ELSE Advance(run[k - 1], chart[k])
                    /\ AdvanceFrom(p, t) = run[Len(chart)]
<1> DEFINE Body(r, k) == IF k = 0 THEN [p EXCEPT !.last = NoTime]
                         ELSE IF chart[k].time < t THEN r[k - 1] ELSE Advance(r[k - 1], chart[k])
           Run(r, m) == r = [k \in 0..m |-> Body(r, k)]
           S == {m \in Nat : \E r : Run(r, m)}
<1>1. 0 \in S
  <2> DEFINE r == [k \in 0..0 |-> [p EXCEPT !.last = NoTime]]
  <2>1. Run(r, 0)
    OBVIOUS
  <2> HIDE DEF Run
  <2> QED BY <2>1
<1>2. ASSUME NEW m \in Nat, m \in S PROVE m + 1 \in S
  <2>1. PICK r : Run(r, m)
    BY <1>2
  <2> DEFINE q == [k \in 0..(m + 1) |-> IF k = m + 1 THEN Body(r, m + 1) ELSE r[k]]
  <2>2. \A k \in 0..m : q[k] = r[k] /\ r[k] = Body(r, k)
    <3>1. \A k \in 0..m : r[k] = Body(r, k)
      <4> HIDE DEF Body
      <4> QED BY <2>1
    <3>2. \A k \in 0..m : k \in 0..(m + 1) /\ k # m + 1
      OBVIOUS
    <3> HIDE DEF Body, Run
    <3> QED BY <3>1, <3>2
  <2>3. q[m + 1] = Body(r, m + 1) /\ DOMAIN q = 0..(m + 1) /\ q = [k \in 0..(m + 1) |-> q[k]]
    OBVIOUS
  <2> HIDE DEF q
  <2>4. \A k \in 0..(m + 1) : k # 0 => k - 1 \in 0..m /\ q[k - 1] = r[k - 1]
    BY <2>2
  <2>5. \A k \in 0..(m + 1) : Body(q, k) = Body(r, k)
    BY <2>4
  <2> HIDE DEF Body
  <2>6. \A k \in 0..(m + 1) : q[k] = Body(q, k)
    BY <2>2, <2>3, <2>5
  <2>7. Run(q, m + 1)
    BY <2>3, <2>6
  <2> HIDE DEF Run
  <2> QED BY <2>7
<1>3. Len(chart) \in S
  <2> HIDE DEF S
  <2> QED BY <1>1, <1>2, Induct
<1> DEFINE run == CHOOSE r : Run(r, Len(chart))
<1>4. Run(run, Len(chart))
  <2> HIDE DEF Run
  <2> QED BY <1>3
<1>5. AdvanceFrom(p, t) = run[Len(chart)]
  BY DEF AdvanceFrom
<1> HIDE DEF run
<1>6. /\ run[0] = [p EXCEPT !.last = NoTime]
      /\ \A k \in 1..Len(chart) : run[k] = Body(run, k) /\ k # 0
  BY <1>4
<1> QED BY <1>5, <1>6

LEMMA ReplayCarries ==
    ASSUME NEW p, NEW t, Len(chart) \in Nat
    PROVE  Carries(p, AdvanceFrom(p, t))
<1>1. PICK run : /\ run[0] = [p EXCEPT !.last = NoTime]
                 /\ \A k \in 1..Len(chart) :
                       run[k] = IF chart[k].time < t THEN run[k - 1]
                                ELSE Advance(run[k - 1], chart[k])
                 /\ AdvanceFrom(p, t) = run[Len(chart)]
  BY RunExists
<1> DEFINE S == {k \in Nat : k <= Len(chart) => Carries(p, run[k])}
<1>2. 0 \in S
  BY <1>1, CarriesAside
<1>3. ASSUME NEW k \in Nat, k \in S PROVE k + 1 \in S
  <2> SUFFICES ASSUME k + 1 <= Len(chart) PROVE Carries(p, run[k + 1])
    OBVIOUS
  <2>1. Carries(p, run[k])
    BY <1>3
  <2>2. Carries(run[k], Advance(run[k], chart[k + 1]))
    BY BarCarries, CarriesSame DEF Advance
  <2>3. run[k + 1] = run[k] \/ run[k + 1] = Advance(run[k], chart[k + 1])
    <3>1. k + 1 \in 1..Len(chart) /\ (k + 1) - 1 = k
      OBVIOUS
    <3> HIDE DEF S
    <3> QED BY <1>1, <3>1
  <2> QED BY <2>1, <2>2, <2>3, CarriesOn
<1>4. Len(chart) \in S
  <2> HIDE DEF S
  <2> QED BY <1>2, <1>3, Induct
<1> QED BY <1>1, <1>4

\* The patch gives every live leg that needs it the price and the time of its own fill.
Judged(p) ==
    \A l \in LiveLegs :
        /\ p.leg[l].status \notin Unheld
        /\ p.leg[l].status = "OPEN" =>
               p.leg[l].fill = broker[l].fill /\ p.leg[l].price = broker[l].price

LEMMA PatchJudges ==
    ASSUME NEW p, Shape(p)
    PROVE  Shape(WithFirstFill(PatchLegs(p, ToPatch(p))))
           /\ Judged(WithFirstFill(PatchLegs(p, ToPatch(p))))
<1> DEFINE legs == ToPatch(p)
           q == PatchLegs(p, legs)
<1>1. legs \subseteq Legs /\ LiveLegs \subseteq Legs
  BY DEF ToPatch, LiveLegs
<1>2. \A l \in Legs : q.leg[l] = IF l \in legs THEN Patched(p.leg[l], broker[l]) ELSE p.leg[l]
  <2>1. \A l \in Legs : q.leg[l] = IF \E m \in legs : SlotOf(m) = l
                                   THEN Patched(p.leg[l], broker[CHOOSE m \in legs : SlotOf(m) = l])
                                   ELSE p.leg[l]
    BY DEF PatchLegs, Shape
  <2>2. \A l \in legs : (CHOOSE m \in legs : SlotOf(m) = l) = l
    BY DEF SlotOf
  <2> HIDE DEF q, legs
  <2> QED BY <1>1, <2>1, <2>2 DEF SlotOf
<1>3. DOMAIN q = DOMAIN p /\ DOMAIN q.leg = Legs
  BY DEF PatchLegs, Shape
<1>4. \A l \in Legs : LET e == Patched(p.leg[l], broker[l]) IN
         LegShape(e) /\ e.status = "OPEN" /\ e.price = broker[l].price /\ e.fill = broker[l].fill
  BY DEF Patched, Shape, LegShape
<1>5. \A l \in LiveLegs \ legs :
         p.leg[l].status \in ReplayClosed \/ ~NeedsPatch(p.leg[l], broker[l])
  BY DEF ToPatch, SlotOf
<1> HIDE DEF q, legs
<1>6. Shape(q)
  BY <1>2, <1>3, <1>4 DEF Shape
<1>7. Judged(q)
  <2>1. \A l \in legs : q.leg[l].status = "OPEN" /\ q.leg[l].price = broker[l].price
                        /\ q.leg[l].fill = broker[l].fill
    BY <1>1, <1>2, <1>4
  <2>2. \A l \in LiveLegs \ legs : q.leg[l] = p.leg[l]
    BY <1>1, <1>2
  <2> QED BY <1>5, <2>1, <2>2 DEF Judged, Unheld, ReplayClosed, Terminal, NeedsPatch
<1>8. WithFirstFill(q).leg = q.leg /\ DOMAIN WithFirstFill(q) = DOMAIN q
  BY <1>6 DEF WithFirstFill, Shape
<1> QED BY <1>6, <1>7, <1>8 DEF Shape, Judged, q, legs

LEMMA VerdictJudges == ASSUME Len(chart) \in Nat PROVE JudgedByItsFill
<1> DEFINE p == ReplayTracked
           q == WithFirstFill(PatchLegs(p, ToPatch(p)))
<1>1. Shape(p)
  <2>1. Shape(OpenPosition(plan))
    BY DEF OpenPosition, Shape, LegShape
  <2>2. Carries(OpenPosition(plan), p)
    BY ReplayCarries DEF ReplayTracked
  <2> QED BY <2>1, <2>2 DEF Carries
<1>2. CASE ToPatch(p) = {}
  <2>1. Verdict = p
    BY <1>2 DEF Verdict, Reconcile
  <2>2. \A l \in LiveLegs : p.leg[l].status \in ReplayClosed \/ ~NeedsPatch(p.leg[l], broker[l])
    BY <1>2 DEF ToPatch, SlotOf
  <2> HIDE DEF p
  <2> QED BY <2>1, <2>2 DEF JudgedByItsFill, ReplayClosed, Terminal, NeedsPatch
<1>3. CASE ToPatch(p) # {}
  <2> DEFINE t == Min({broker[l].fill : l \in ToPatch(p)})
  <2>1. Verdict = AdvanceFrom(q, t)
    BY <1>3 DEF Verdict, Reconcile
  <2>2. Shape(q) /\ Judged(q)
    BY <1>1, PatchJudges
  <2> HIDE DEF q, t
  <2>3. Carries(q, Verdict)
    BY <2>1, ReplayCarries
  <2>4. LiveLegs \subseteq Legs
    BY DEF LiveLegs
  <2> QED BY <2>2, <2>3, <2>4 DEF Carries, LegCarries, Judged, Shape, Unheld, JudgedByItsFill
<1> QED BY <1>2, <1>3

\* However long the chart, whatever its bars and the plan: no leg the broker holds is
\* believed waiting or never filled after reconcile_with_mt5, and each is judged at the
\* price and the time of its own fill.
THEOREM LegsAreJudgedByTheirFill == BeliefSpec => []JudgedByItsFill
<1> DEFINE IsChart == \E S : chart \in Seq(S)
<1>1. BeliefInit => IsChart
  BY DEF BeliefInit
<1>2. IsChart /\ [BeliefNext]_beliefVars => IsChart'
  <2> SUFFICES ASSUME NEW S, chart \in Seq(S), [BeliefNext]_beliefVars PROVE IsChart'
    OBVIOUS
  <2>1. ASSUME NEW s \in BarShapes, NewBar(s) PROVE IsChart'
    <3>1. PICK b : chart' = Append(chart, b)
      BY <2>1 DEF NewBar
    <3>2. chart \in Seq(S \cup {b})
      OBVIOUS
    <3> QED BY <3>1, <3>2
  <2>2. CASE chart' = chart
    BY <2>2
  <2> QED BY <2>1, <2>2 DEF BeliefNext, beliefVars, Close, Fill
<1>3. IsChart => JudgedByItsFill
  BY VerdictJudges
<1> QED BY <1>1, <1>2, <1>3, PTL DEF BeliefSpec

=============================================================================
