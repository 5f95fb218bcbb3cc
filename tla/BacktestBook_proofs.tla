-------------------------- MODULE BacktestBook_proofs --------------------------
(***************************************************************************)
(* Theorems of BacktestBook: once a source day has lost its limit nothing  *)
(* more is booked on it, and a run that rejects or flips opposite signals  *)
(* never has both sides in the market.                                     *)
(***************************************************************************)
EXTENDS BacktestBook, WellFoundedInduction, TLAPS

-----------------------------------------------------------------------------
(* Naturals                                                                *)

LEMMA LeastElement ==
    ASSUME NEW S \in SUBSET Nat, S # {}
    PROVE  \E m \in S : \A n \in S : m <= n
<1> DEFINE R == OpToRel(<, Nat)
<1>1. \A x, y \in Nat : <<x, y>> \in R <=> x < y
  BY DEF OpToRel
<1>2. \E x \in S : \A y \in S : <<y, x>> \notin R
  BY NatLessThanWellFounded, WFMin
<1> HIDE DEF R
<1>3. PICK x \in S : \A y \in S : <<y, x>> \notin R
  BY <1>2
<1>4. \A y \in S : x \in Nat /\ y \in Nat /\ ~(y < x)
  BY <1>1, <1>3
<1> QED BY <1>4

LEMMA Induct ==
    ASSUME NEW S, 0 \in S, \A n \in Nat : n \in S => n + 1 \in S
    PROVE  Nat \subseteq S
<1> SUFFICES ASSUME Nat \ S # {} PROVE FALSE
  OBVIOUS
<1>1. PICK m \in Nat \ S : \A n \in Nat \ S : m <= n
  BY LeastElement
<1>2. m # 0 /\ m - 1 \in Nat
  BY <1>1
<1>3. m - 1 \in S /\ m = (m - 1) + 1
  BY <1>1, <1>2
<1> QED BY <1>1, <1>2, <1>3

LEMMA MinIsLeast ==
    ASSUME NEW S \in SUBSET Nat, S # {}
    PROVE  Min(S) \in S /\ \A n \in S : Min(S) <= n
BY LeastElement DEF Min

\* A set of naturals with an upper bound has a greatest element.
LEMMA MaxIsGreatest ==
    ASSUME NEW S \in SUBSET Nat, S # {}, NEW m \in Nat, \A n \in S : n <= m
    PROVE  Max(S) \in S /\ \A n \in S : n <= Max(S)
<1> DEFINE T == {m - n : n \in S}
<1>1. T \in SUBSET Nat /\ T # {}
  <2>1. \A n \in S : n \in Nat /\ n <= m /\ m - n \in Nat
    OBVIOUS
  <2> QED BY <2>1
<1>2. PICK d \in T : \A e \in T : d <= e
  BY <1>1, LeastElement
<1>3. PICK x \in S : d = m - x
  OBVIOUS
<1>4. \A y \in S : x >= y
  <2> TAKE y \in S
  <2>1. m - y \in T
    OBVIOUS
  <2>2. m - x <= m - y
    BY <1>2, <1>3, <2>1
  <2> QED BY <2>2
<1>5. Max(S) \in S /\ \A y \in S : Max(S) >= y
  BY <1>4 DEF Max
<1> QED BY <1>5

LEMMA DaysFollow == ASSUME NEW s \in Nat, NEW t \in Nat, s <= t PROVE DayOf(s) <= DayOf(t)
<1> DEFINE d == DayLength
           p == s + DayShift
           q == t + DayShift
<1>1. d \in Nat \ {0} /\ p \in Nat /\ q \in Nat /\ p <= q
  BY UnitsAssumption
<1> HIDE DEF d, p, q
<1>2. (p \div d) \in Int /\ (q \div d) \in Int
  BY <1>1
<1>3. p = d * (p \div d) + (p % d) /\ q = d * (q \div d) + (q % d)
      /\ p % d \in 0..(d - 1) /\ q % d \in 0..(d - 1)
  BY <1>1
<1>4. (p \div d) <= (q \div d)
  <2> DEFINE x == p \div d
             y == q \div d
  <2>1. SUFFICES ASSUME x >= y + 1 PROVE FALSE
    BY <1>2
  <2> HIDE DEF x, y
  <2>2. x \in Int /\ y \in Int /\ x - (y + 1) \in Nat
    BY <1>2, <2>1 DEF x, y
  <2>3. d * (x - (y + 1)) >= 0
    BY <1>1, <2>2
  <2>4. d * (x - (y + 1)) = d * x - d * y - d
    BY <1>1, <2>2
  <2>5. d * x \in Int /\ d * y \in Int
    BY <1>1, <2>2
  <2> QED BY <1>1, <1>3, <2>3, <2>4, <2>5 DEF x, y
<1> QED BY <1>4 DEF DayOf, d, p, q

LEMMA DaysCount == ASSUME NEW t \in Nat PROVE DayOf(t) \in Nat
<1> DEFINE d == DayLength
           p == t + DayShift
           x == p \div d
<1>1. d \in Nat \ {0} /\ p \in Nat
  BY UnitsAssumption
<1> HIDE DEF d, p
<1>2. x \in Int /\ p = d * x + (p % d) /\ p % d \in 0..(d - 1)
  BY <1>1
<1> HIDE DEF x
<1>3. x >= 0
  <2> SUFFICES ASSUME -1 - x \in Nat PROVE FALSE
    BY <1>2
  <2>1. d * (-1 - x) >= 0 /\ d * (-1 - x) = -d - d * x /\ d * x \in Int
    BY <1>1, <1>2
  <2> QED BY <1>1, <1>2, <2>1
<1> QED BY <1>2, <1>3 DEF DayOf, d, p, x

-----------------------------------------------------------------------------
(* The running sum of a day's results                                      *)

LEMMA MadeIsSum ==
    ASSUME NEW rs, NEW day, Len(rs) \in Nat
    PROVE  /\ Made(rs, day)[0] = 0
           /\ \A i \in 1..Len(rs) :
                 Made(rs, day)[i] =
                     IF DayOf(rs[i].t) # day \/ rs[i].status = "OPEN" THEN Made(rs, day)[i - 1]
                     ELSE Made(rs, day)[i - 1] + (rs[i].after - rs[i].before)
<1> DEFINE Body(r, i) ==
             IF i = 0 THEN 0
             ELSE IF DayOf(rs[i].t) # day \/ rs[i].status = "OPEN" THEN r[i - 1]
             ELSE r[i - 1] + (rs[i].after - rs[i].before)
           Run(r, m) == r = [i \in 0..m |-> Body(r, i)]
           S == {m \in Nat : \E r : Run(r, m)}
<1>1. 0 \in S
  <2> DEFINE r == [i \in 0..0 |-> 0]
  <2>1. Run(r, 0)
    OBVIOUS
  <2> HIDE DEF Run
  <2> QED BY <2>1
<1>2. ASSUME NEW m \in Nat, m \in S PROVE m + 1 \in S
  <2>1. PICK r : Run(r, m)
    BY <1>2
  <2> DEFINE q == [i \in 0..(m + 1) |-> IF i = m + 1 THEN Body(r, m + 1) ELSE r[i]]
  <2>2. \A i \in 0..m : q[i] = r[i] /\ r[i] = Body(r, i)
    <3>1. \A i \in 0..m : r[i] = Body(r, i)
      <4> HIDE DEF Body
      <4> QED BY <2>1
    <3>2. \A i \in 0..m : i \in 0..(m + 1) /\ i # m + 1
      OBVIOUS
    <3> HIDE DEF Body, Run
    <3> QED BY <3>1, <3>2
  <2>3. q[m + 1] = Body(r, m + 1) /\ DOMAIN q = 0..(m + 1) /\ q = [i \in 0..(m + 1) |-> q[i]]
    OBVIOUS
  <2> HIDE DEF q
  <2>4. \A i \in 0..(m + 1) : i # 0 => i - 1 \in 0..m /\ q[i - 1] = r[i - 1]
    BY <2>2
  <2>5. \A i \in 0..(m + 1) : Body(q, i) = Body(r, i)
    BY <2>4
  <2> HIDE DEF Body
  <2>6. \A i \in 0..(m + 1) : q[i] = Body(q, i)
    BY <2>2, <2>3, <2>5
  <2>7. Run(q, m + 1)
    BY <2>3, <2>6
  <2> HIDE DEF Run
  <2> QED BY <2>7
<1>3. Len(rs) \in S
  <2> HIDE DEF S
  <2> QED BY <1>1, <1>2, Induct
<1> DEFINE made == CHOOSE r : Run(r, Len(rs))
<1>4. Run(made, Len(rs))
  <2> HIDE DEF Run
  <2> QED BY <1>3
<1>5. Made(rs, day) = made
  BY DEF Made
<1> HIDE DEF made
<1>6. made[0] = 0 /\ \A i \in 1..Len(rs) : made[i] = Body(made, i) /\ i # 0
  BY <1>4
<1> QED BY <1>5, <1>6

\* A row more leaves the sums before it alone,
LEMMA MadeBefore ==
    ASSUME NEW S, NEW rs \in Seq(S), NEW r \in S, NEW day
    PROVE  \A n \in 0..Len(rs) : Made(Append(rs, r), day)[n] = Made(rs, day)[n]
<1> DEFINE qs == Append(rs, r)
           T == {n \in Nat : n <= Len(rs) => Made(qs, day)[n] = Made(rs, day)[n]}
<1>1. Len(rs) \in Nat /\ Len(qs) = Len(rs) + 1 /\ \A i \in 1..Len(rs) : qs[i] = rs[i]
  OBVIOUS
<1> HIDE DEF qs
<1>2. 0 \in T
  BY <1>1, MadeIsSum
<1>3. ASSUME NEW n \in Nat, n \in T PROVE n + 1 \in T
  <2> SUFFICES ASSUME n + 1 <= Len(rs) PROVE Made(qs, day)[n + 1] = Made(rs, day)[n + 1]
    OBVIOUS
  <2>1. n + 1 \in 1..Len(rs) /\ n + 1 \in 1..Len(qs) /\ (n + 1) - 1 = n /\ qs[n + 1] = rs[n + 1]
    BY <1>1
  <2>2. Made(qs, day)[n] = Made(rs, day)[n]
    BY <1>1, <1>3
  <2>3. Made(qs, day)[n + 1] = Made(rs, day)[n + 1]
    <3>1. Made(rs, day)[n + 1] =
              IF DayOf(rs[n + 1].t) # day \/ rs[n + 1].status = "OPEN" THEN Made(rs, day)[n]
              ELSE Made(rs, day)[n] + (rs[n + 1].after - rs[n + 1].before)
      BY <1>1, <2>1, MadeIsSum
    <3>2. Made(qs, day)[n + 1] =
              IF DayOf(qs[n + 1].t) # day \/ qs[n + 1].status = "OPEN" THEN Made(qs, day)[n]
              ELSE Made(qs, day)[n] + (qs[n + 1].after - qs[n + 1].before)
      BY <1>1, <2>1, MadeIsSum
    <3> HIDE DEF qs, T
    <3> QED BY <2>1, <2>2, <3>1, <3>2
  <2> HIDE DEF qs
  <2> QED BY <2>3
<1>4. Nat \subseteq T
  <2> HIDE DEF T
  <2> QED BY <1>2, <1>3, Induct
<1> QED BY <1>1, <1>4 DEF qs

\* and on a day without rows nothing was made.
LEMMA MadeNothing ==
    ASSUME NEW rs, NEW day, Len(rs) \in Nat, \A i \in 1..Len(rs) : DayOf(rs[i].t) # day
    PROVE  Made(rs, day)[Len(rs)] = 0
<1> DEFINE T == {n \in Nat : n <= Len(rs) => Made(rs, day)[n] = 0}
<1>1. 0 \in T
  BY MadeIsSum
<1>2. ASSUME NEW n \in Nat, n \in T PROVE n + 1 \in T
  <2> SUFFICES ASSUME n + 1 <= Len(rs) PROVE Made(rs, day)[n + 1] = 0
    OBVIOUS
  <2>1. n + 1 \in 1..Len(rs) /\ (n + 1) - 1 = n /\ Made(rs, day)[n] = 0
    BY <1>2
  <2> HIDE DEF T
  <2> QED BY <2>1, MadeIsSum
<1>3. Nat \subseteq T
  <2> HIDE DEF T
  <2> QED BY <1>1, <1>2, Induct
<1> QED BY <1>3

-----------------------------------------------------------------------------
(* A step of the feed                                                      *)

\* The feed: chronological, its rows no later than the last signal read.
Feed ==
    /\ \E S : rows \in Seq(S)
    /\ last \in Nat
    /\ \A i \in 1..Len(rows) : rows[i].t \in Nat /\ rows[i].t <= last

GateShape(g) == {"windows", "day", "dayStart", "dayPnl", "blocked"} \subseteq DOMAIN g

\* A signal is left out, and the gate rolled, or taken into the rows.
LeftOut == gate' = Rolled(last') /\ UNCHANGED <<equity, rows, account>>
Taken(b, built) ==
    /\ Admitted(last') /\ b.t = last' /\ built.before = equity /\ b.before = equity
    /\ \E delta : Take(b, built, delta)

LEMMA FeedSteps ==
    ASSUME Feed, Next
    PROVE  /\ last' \in Nat /\ last <= last' /\ config' = config
           /\ LeftOut \/ \E b, built : Taken(b, built)
<1>1. PICK gap \in 0 .. MaxGap :
        /\ last' = last + gap
        /\ \/ BlockedByDay(last + gap)
           \/ TooManyOpen(last + gap)
           \/ \E side \in Sides, life \in Lives, engine \in Engines :
                LET b == Build(last + gap, side, life, engine) IN
                RiskyForTheAccount(b) \/ OverTheCeiling(b) \/ Collides(b) \/ Book(b) \/ BookColliding(b)
  BY DEF Next
<1>2. last' \in Nat /\ last <= last' /\ config' = config
  BY <1>1 DEF Next, Feed
<1>3. CASE BlockedByDay(last') \/ TooManyOpen(last')
  BY <1>2, <1>3 DEF BlockedByDay, TooManyOpen, Excluded, LeftOut
<1>4. ASSUME NEW side \in Sides, NEW life \in Lives, NEW engine \in Engines,
             LET b == Build(last', side, life, engine) IN
             RiskyForTheAccount(b) \/ OverTheCeiling(b) \/ Collides(b) \/ Book(b) \/ BookColliding(b)
      PROVE  LeftOut \/ \E b, built : Taken(b, built)
  <2> DEFINE b == Build(last', side, life, engine)
  <2>1. b.t = last' /\ b.before = equity
    BY DEF Build
  <2>2. Applied(b, Decision(b)).before = equity
    BY DEF Build, Applied
  <2> HIDE DEF b
  <2>3. CASE RiskyForTheAccount(b) \/ OverTheCeiling(b) \/ Collides(b)
    BY <2>1, <2>3 DEF RiskyForTheAccount, OverTheCeiling, Collides, Excluded, LeftOut
  <2>4. CASE Book(b)
    BY <2>1, <2>4 DEF Book, Affordable, Taken
  <2>5. CASE BookColliding(b)
    BY <2>1, <2>2, <2>5 DEF BookColliding, Affordable, Taken
  <2> QED BY <1>4, <2>3, <2>4, <2>5 DEF b
<1> QED BY <1>1, <1>2, <1>3, <1>4

LEMMA FeedKept == ASSUME Feed, [Next]_vars PROVE Feed'
<1>1. CASE UNCHANGED vars
  BY <1>1 DEF Feed, vars
<1>2. ASSUME Next, LeftOut PROVE Feed'
  BY <1>2, FeedSteps DEF Feed, LeftOut
<1>3. ASSUME Next, NEW b, NEW built, Taken(b, built) PROVE Feed'
  <2>1. PICK r : rows' = Append(rows, r) /\ r.t = last'
    BY <1>3 DEF Taken, Take
  <2>2. last' \in Nat /\ last <= last'
    BY <1>3, FeedSteps
  <2>3. PICK S : rows \in Seq(S)
    BY DEF Feed
  <2>4. rows \in Seq(S \cup {r}) /\ r \in S \cup {r}
    BY <2>3
  <2>5. rows' \in Seq(S \cup {r}) /\ Len(rows') = Len(rows) + 1 /\ Len(rows) \in Nat
        /\ rows'[Len(rows) + 1] = r /\ \A i \in 1..Len(rows) : rows'[i] = rows[i]
    BY <2>1, <2>4
  <2>6. \A i \in 1..Len(rows') : rows'[i].t \in Nat /\ rows'[i].t <= last'
    <3> TAKE i \in 1..Len(rows')
    <3>1. CASE i = Len(rows) + 1
      BY <2>1, <2>2, <2>5, <3>1
    <3>2. CASE i \in 1..Len(rows)
      BY <2>2, <2>5, <3>2 DEF Feed
    <3> QED BY <2>5, <3>1, <3>2
  <2> QED BY <2>2, <2>5, <2>6 DEF Feed
<1> QED BY <1>1, <1>2, <1>3, FeedSteps

-----------------------------------------------------------------------------
(* The breaker                                                             *)

DayRows(rs, day) == {i \in DOMAIN rs : DayOf(rs[i].t) = day}
Lost(rs, day) ==
    \E n \in DayRows(rs, day) :
        /\ rs[n].status # "OPEN"
        /\ Made(rs, day)[n] * config.dailyLoss <= -rs[Min(DayRows(rs, day))].before

\* What the gate knows of its day: what was made, what the day began with, and whether
\* the limit is lost.
GateHolds(g, rs, eq) ==
    /\ g.dayPnl = Made(rs, g.day)[Len(rs)]
    /\ IF DayRows(rs, g.day) = {} THEN eq = g.dayStart
       ELSE rs[Min(DayRows(rs, g.day))].before = g.dayStart
    /\ Lost(rs, g.day) => g.blocked

Breaker ==
    \/ gate.day = Never /\ rows = <<>>
    \/ gate.day = DayOf(last) /\ GateHolds(gate, rows, equity)

BreakerInv == Feed /\ GateShape(gate) /\ (config.dailyLoss > 0 => Breaker)

LEMMA RolledIs ==
    ASSUME GateShape(gate), NEW t
    PROVE  /\ GateShape(Rolled(t)) /\ Rolled(t).day = DayOf(t)
           /\ IF DayOf(t) = gate.day
              THEN /\ Rolled(t).dayStart = gate.dayStart /\ Rolled(t).dayPnl = gate.dayPnl
                   /\ Rolled(t).blocked = gate.blocked
              ELSE /\ Rolled(t).dayStart = equity /\ Rolled(t).dayPnl = 0
                   /\ Rolled(t).blocked = FALSE
<1> DEFINE g == IF SignalDay(t) = gate.day THEN gate
                ELSE [gate EXCEPT !.day = SignalDay(t), !.dayStart = equity, !.dayPnl = 0,
                                  !.blocked = FALSE]
           w == [g EXCEPT !.windows = SelectSeq(@, LAMBDA x : x.end > t)]
<1>1. /\ GateShape(g) /\ g.day = DayOf(t)
      /\ IF DayOf(t) = gate.day
         THEN g.dayStart = gate.dayStart /\ g.dayPnl = gate.dayPnl /\ g.blocked = gate.blocked
         ELSE g.dayStart = equity /\ g.dayPnl = 0 /\ g.blocked = FALSE
  BY DEF GateShape, SignalDay
<1>2. Rolled(t) = IF UsesWindows THEN w ELSE g
  BY DEF Rolled
<1> HIDE DEF g
<1>3. GateShape(w) /\ w.day = g.day /\ w.dayStart = g.dayStart /\ w.dayPnl = g.dayPnl
      /\ w.blocked = g.blocked
  BY <1>1 DEF GateShape
<1> HIDE DEF w
<1> QED BY <1>1, <1>2, <1>3

\* Rolled to the day of the next signal the gate is right about it.
LEMMA RollHolds ==
    ASSUME BreakerInv, config.dailyLoss > 0, NEW t \in Nat, last <= t
    PROVE  GateHolds(Rolled(t), rows, equity)
<1>1. DOMAIN rows = 1..Len(rows) /\ Len(rows) \in Nat
  BY DEF BreakerInv, Feed
<1>2. GateShape(gate) /\ Breaker
  BY DEF BreakerInv
<1>3. CASE DayOf(t) = gate.day /\ rows # <<>>
  BY <1>2, <1>3, RolledIs DEF Breaker, GateHolds
<1>4. CASE DayOf(t) # gate.day \/ rows = <<>>
  <2>1. \A i \in 1..Len(rows) : DayOf(rows[i].t) # DayOf(t)
    <3> SUFFICES ASSUME NEW i \in 1..Len(rows), DayOf(rows[i].t) = DayOf(t) PROVE FALSE
      OBVIOUS
    <3>1. rows # <<>> /\ gate.day = DayOf(last)
      BY <1>2 DEF Breaker
    <3>2. rows[i].t \in Nat /\ rows[i].t <= last /\ last \in Nat
      BY DEF BreakerInv, Feed
    <3>3. DayOf(rows[i].t) <= DayOf(last) /\ DayOf(last) <= DayOf(t)
      BY <3>2, DaysFollow
    <3>4. DayOf(last) \in Int /\ DayOf(t) \in Int
      BY <3>2, DaysCount
    <3>5. DayOf(last) = DayOf(t)
      BY <3>3, <3>4
    <3> QED BY <1>4, <3>1, <3>5
  <2>2. DayRows(rows, DayOf(t)) = {} /\ ~Lost(rows, DayOf(t))
    BY <1>1, <2>1 DEF DayRows, Lost
  <2>3. Made(rows, DayOf(t))[Len(rows)] = 0
    BY <1>1, <2>1, MadeNothing
  <2>4. CASE DayOf(t) # gate.day
    BY <1>2, <2>2, <2>3, <2>4, RolledIs DEF GateHolds
  <2>5. CASE DayOf(t) = gate.day
    <3>1. gate.day # Never
      BY <2>5, DaysCount DEF Never
    <3> QED BY <1>2, <2>5, <3>1, RolledIs DEF Breaker, GateHolds
  <2> QED BY <2>4, <2>5
<1> QED BY <1>3, <1>4

\* Booking a signal of that day keeps it so, whatever the equity becomes.
LEMMA BookingHolds ==
    ASSUME config.dailyLoss > 0,
           NEW S, NEW rs \in Seq(S), NEW r \in S,
           NEW g, GateShape(g), NEW eq, GateHolds(g, rs, eq), DayOf(r.t) = g.day,
           NEW b, r.status = b.status, r.before = b.before, r.after = b.after, b.before = eq,
           NEW eq2
    PROVE  GateHolds(Registered(g, b), Append(rs, r), eq2)
<1> DEFINE qs  == Append(rs, r)
           h   == Registered(g, b)
           day == g.day
           n   == Len(rs) + 1
           R   == DayRows(rs, day)
           Q   == DayRows(qs, day)
<1>1. /\ Len(rs) \in Nat /\ Len(qs) = n /\ DOMAIN rs = 1..Len(rs) /\ DOMAIN qs = 1..n
      /\ qs[n] = r /\ \A i \in 1..Len(rs) : qs[i] = rs[i]
  OBVIOUS
<1>2. /\ h.day = day /\ h.dayStart = g.dayStart
      /\ h.dayPnl = IF b.status # "OPEN" THEN g.dayPnl + (b.after - b.before) ELSE g.dayPnl
      /\ h.blocked = (g.blocked \/ (b.status # "OPEN" /\ h.dayPnl * config.dailyLoss <= -g.dayStart))
  <2> DEFINE pnl == IF config.dailyLoss > 0 /\ b.status # "OPEN"
                    THEN g.dayPnl + (b.after - b.before) ELSE g.dayPnl
             f   == [g EXCEPT !.dayPnl = pnl,
                              !.blocked = @ \/ ((config.dailyLoss > 0 /\ b.status # "OPEN")
                                                /\ pnl * config.dailyLoss <= -g.dayStart)]
  <2>1. \E w : h = [f EXCEPT !.windows = w]
    BY DEF Registered
  <2>2. /\ f.day = day /\ f.dayStart = g.dayStart /\ f.dayPnl = pnl
        /\ f.blocked = (g.blocked \/ (b.status # "OPEN" /\ pnl * config.dailyLoss <= -g.dayStart))
    BY Zenon DEF GateShape
  <2> HIDE DEF f, h, pnl
  <2>3. h.day = f.day /\ h.dayStart = f.dayStart /\ h.dayPnl = f.dayPnl /\ h.blocked = f.blocked
    BY <2>1
  <2> QED BY <2>2, <2>3 DEF pnl
<1> HIDE DEF qs, h
<1>3. Q = R \cup {n} /\ R \in SUBSET Nat /\ (\A i \in R : i < n) /\ n \in Nat
  BY <1>1 DEF DayRows
<1>4. \A i \in 0..Len(rs) : Made(qs, day)[i] = Made(rs, day)[i]
  BY MadeBefore DEF qs
<1>5. Made(qs, day)[n] = h.dayPnl
  <2>1. n \in 1..Len(qs) /\ n - 1 = Len(rs) /\ Len(rs) \in 0..Len(rs)
    BY <1>1
  <2>2. Made(qs, day)[n] = IF r.status = "OPEN" THEN Made(rs, day)[Len(rs)]
                           ELSE Made(rs, day)[Len(rs)] + (r.after - r.before)
    BY <1>1, <1>4, <2>1, MadeIsSum
  <2> QED BY <1>2, <2>2 DEF GateHolds
<1>6. qs[Min(Q)].before = h.dayStart
  <2> HIDE DEF Q, R, n
  <2>0. Q \in SUBSET Nat /\ Q # {}
    BY <1>3
  <2>1. CASE R = {}
    <3>1. Min(Q) \in Q
      BY <2>0, MinIsLeast
    <3>2. Min(Q) = n
      BY <1>3, <2>1, <3>1
    <3> QED BY <1>1, <1>2, <2>1, <3>2 DEF GateHolds, R
  <2>2. CASE R # {}
    <3>1. Min(R) \in R /\ \A i \in R : Min(R) <= i
      BY <1>3, <2>2, MinIsLeast
    <3>2. Min(Q) \in Q /\ \A i \in Q : Min(Q) <= i
      BY <2>0, MinIsLeast
    <3>3. Min(Q) = Min(R)
      <4>1. Min(R) \in Q /\ Min(R) \in Nat /\ Min(R) < n /\ Min(Q) <= Min(R)
        BY <1>3, <3>1, <3>2
      <4>2. Min(Q) \in R
        <5>1. Min(Q) # n
          BY <1>3, <4>1
        <5> QED BY <1>3, <3>2, <5>1
      <4>3. Min(R) <= Min(Q) /\ Min(R) \in Nat /\ Min(Q) \in Nat
        BY <1>3, <3>1, <4>2
      <4> QED BY <4>1, <4>3
    <3>4. Min(R) \in 1..Len(rs)
      BY <1>1, <3>1 DEF R, DayRows
    <3> QED BY <1>1, <1>2, <2>2, <3>3, <3>4 DEF GateHolds, R
  <2> QED BY <2>1, <2>2
<1>7. Lost(qs, day) => h.blocked
  <2> SUFFICES ASSUME NEW i \in Q, qs[i].status # "OPEN",
                      Made(qs, day)[i] * config.dailyLoss <= -qs[Min(Q)].before
               PROVE  h.blocked
    BY DEF Lost
  <2>1. CASE i = n
    BY <1>1, <1>2, <1>5, <1>6, <2>1
  <2>2. CASE i \in R
    <3>1. i \in 1..Len(rs) /\ i \in 0..Len(rs)
      BY <1>1, <2>2 DEF DayRows
    <3>2. rs[i].status # "OPEN" /\ Made(rs, day)[i] * config.dailyLoss <= -g.dayStart
      BY <1>1, <1>2, <1>4, <1>6, <3>1
    <3>3. rs[Min(R)].before = g.dayStart
      BY <2>2 DEF GateHolds
    <3>4. Lost(rs, day)
      BY <2>2, <3>2, <3>3 DEF Lost
    <3> QED BY <1>2, <3>4 DEF GateHolds
  <2> QED BY <1>3, <2>1, <2>2
<1>8. Q # {}
  BY <1>3
<1> QED BY <1>1, <1>2, <1>5, <1>6, <1>7, <1>8 DEF GateHolds, qs, h

LEMMA BreakerKept == ASSUME BreakerInv, [Next]_vars PROVE BreakerInv'
<1>1. CASE UNCHANGED vars
  BY <1>1 DEF vars, BreakerInv, Feed, GateShape, Breaker, GateHolds, DayRows, Lost
<1>2. CASE Next
  <2>1. Feed' /\ last' \in Nat /\ last <= last' /\ config' = config
        /\ (LeftOut \/ \E b, built : Taken(b, built))
    BY <1>2, FeedKept, FeedSteps DEF BreakerInv
  <2>2. GateShape(Rolled(last')) /\ Rolled(last').day = DayOf(last')
    BY RolledIs DEF BreakerInv
  <2>3. config.dailyLoss > 0 => GateHolds(Rolled(last'), rows, equity)
    BY <2>1, RollHolds
  <2>4. CASE LeftOut
    BY <2>1, <2>2, <2>3, <2>4
    DEF LeftOut, BreakerInv, GateShape, Breaker, GateHolds, Lost
  <2>5. ASSUME NEW b, NEW built, Taken(b, built) PROVE BreakerInv'
    <3> DEFINE g == Rolled(last')
    <3>1. PICK r : /\ rows' = Append(rows, r) /\ r.t = last' /\ r.status = built.status
                   /\ r.before = built.before /\ r.after = built.after
      <4>1. PICK delta : Take(b, built, delta)
        BY <2>5 DEF Taken
      <4> QED BY <2>5, <4>1 DEF Take, Taken
    <3>2. gate' = Registered(g, built) /\ built.before = equity
      BY <2>5 DEF Taken, Take
    <3>3. PICK S : rows \in Seq(S)
      BY DEF BreakerInv, Feed
    <3>4. rows \in Seq(S \cup {r}) /\ r \in S \cup {r}
      BY <3>3
    <3>5. GateShape(gate') /\ gate'.day = g.day
      <4> HIDE DEF g
      <4> QED BY <2>2, <3>2 DEF g, GateShape, Registered
    <3>6. config.dailyLoss > 0 => GateHolds(gate', rows', equity')
      <4> SUFFICES ASSUME config.dailyLoss > 0 PROVE GateHolds(gate', rows', equity')
        OBVIOUS
      <4>1. GateHolds(g, rows, equity) /\ GateShape(g) /\ DayOf(r.t) = g.day
        BY <2>2, <2>3, <3>1
      <4>2. GateHolds(Registered(g, built), Append(rows, r), equity')
        <5> HIDE DEF g
        <5> QED BY <3>1, <3>2, <3>4, <4>1, BookingHolds
      <4> QED BY <3>1, <3>2, <4>2
    <3>7. config'.dailyLoss > 0 => Breaker'
      <4> HIDE DEF g
      <4> QED BY <2>1, <2>2, <3>5, <3>6 DEF g, Breaker, GateHolds, Lost
    <3> QED BY <2>1, <3>5, <3>7 DEF BreakerInv, GateShape
  <2> QED BY <2>1, <2>4, <2>5
<1> QED BY <1>1, <1>2

\* The gate books nothing more on a source day whose results have lost the limit of what
\* the day began with, for every chart, feed and configuration (DeploymentGate.register).
THEOREM BreakerStops == Spec => BreakerHolds
<1>1. Init => BreakerInv
  <2> SUFFICES ASSUME Init PROVE BreakerInv
    OBVIOUS
  <2>1. last \in Nat /\ rows = <<>> /\ gate = NewGate
    BY UnitsAssumption DEF Init
  <2>2. Feed
    BY <2>1 DEF Feed
  <2> QED BY <2>1, <2>2 DEF BreakerInv, GateShape, Breaker, NewGate
<1>2. ASSUME BreakerInv, [Next]_vars
      PROVE  [config.dailyLoss > 0 /\ Len(rows') > Len(rows) => ~Breached(DayOf(last'))]_vars
  <2> SUFFICES ASSUME Next, config.dailyLoss > 0, Len(rows') > Len(rows), Breached(DayOf(last'))
               PROVE  FALSE
    BY <1>2 DEF vars
  <2>1. last' \in Nat /\ last <= last' /\ (LeftOut \/ \E b, built : Taken(b, built))
    BY <1>2, FeedSteps DEF BreakerInv
  <2>2. Len(rows) \in Nat
    BY <1>2 DEF BreakerInv, Feed
  <2>3. PICK b, built : Taken(b, built)
    BY <2>1, <2>2 DEF LeftOut
  <2>4. ~Rolled(last').blocked
    BY <2>3 DEF Taken, Admitted, DayBlocked
  <2>5. Rolled(last').day = DayOf(last') /\ GateHolds(Rolled(last'), rows, equity)
    BY <1>2, <2>1, RolledIs, RollHolds DEF BreakerInv
  <2>6. Lost(rows, DayOf(last'))
    BY DEF Breached, Lost, OnDay, DayRows
  <2> QED BY <2>4, <2>5, <2>6 DEF GateHolds
<1> QED BY <1>1, <1>2, BreakerKept, PTL DEF Spec, BreakerHolds

-----------------------------------------------------------------------------
(* One side of the market                                                  *)

Exclusive == config.opposite \in {"reject_opposite", "close_then_flip"}

\* The account keeps one entry per row.
Kept == /\ DOMAIN account = 1..Len(rows)
        /\ \A k \in 1..Len(rows) : {"side", "legs", "cuts"} \subseteq DOMAIN account[k]

\* The policy has before it every signal that is to be held at some later minute.
Watched ==
    \A minute \in last..Horizon : \A k \in HeldBy(minute) :
        \E a \in active : a.id = k /\ a.side = account[k].side /\ a.end \in Nat /\ a.end > minute

SideInv == Feed /\ (Exclusive => Kept /\ Watched /\ NeverBothWays)

\* The end of a signal's window lies behind every minute it is open at.
LEMMA EndIsLast ==
    ASSUME NEW t \in Nat, t <= Horizon, NEW side, NEW life \in Lives, NEW legs,
           DOMAIN legs = DOMAIN life,
           \A i \in DOMAIN life : /\ legs[i].fill = Legs(t, side, life)[i].fill
                                  /\ legs[i].exit = Legs(t, side, life)[i].exit,
           NEW minute \in 0..Horizon, NEW i \in DOMAIN legs, OpenAt(legs[i], minute)
    PROVE  t <= minute /\ EndOf(t, legs) \in Nat /\ minute < EndOf(t, legs)
<1> DEFINE End(j) == IF Closed(legs[j]) THEN legs[j].exit ELSE legs[j].fill + MaxHold
           F == {j \in DOMAIN legs : Filled(legs[j])}
<1>1. Horizon \in Nat /\ MaxHold \in Nat /\ minute \in Nat /\ minute <= Horizon
  BY UnitsAssumption DEF Horizon
<1>2. \A j \in DOMAIN life : /\ legs[j].fill = Reached(t, life[j].fill)
                             /\ legs[j].exit = Reached(t, life[j].exit)
  BY DEF Legs
<1> HIDE DEF Horizon
<1>3. ASSUME NEW j \in F
      PROVE  /\ legs[j].fill \in Nat /\ t <= legs[j].fill /\ legs[j].fill <= Horizon
             /\ End(j) \in Nat /\ End(j) <= Horizon + MaxHold
             /\ ~Closed(legs[j]) => Horizon < End(j)
  <2>1. j \in DOMAIN life /\ legs[j].fill # Never
    BY DEF Filled
  <2>2. life[j].fill # Never /\ t + life[j].fill <= Horizon /\ legs[j].fill = t + life[j].fill
    <3>1. life[j].fill = Never \/ life[j].fill \in Nat
      BY <2>1, LivesAssumption
    <3> QED BY <1>1, <1>2, <2>1, <3>1 DEF Reached
  <2>3. life[j].fill \in Nat /\ life[j].exit \in Nat /\ life[j].exit <= life[j].fill + MaxHold
    BY <2>1, <2>2, LivesAssumption
  <2>4. CASE Closed(legs[j])
    <3>1. legs[j].exit # Never
      BY <2>4 DEF Closed
    <3>2. legs[j].exit = t + life[j].exit /\ t + life[j].exit <= Horizon
      BY <1>1, <1>2, <2>1, <2>3, <3>1 DEF Reached
    <3> QED BY <1>1, <2>2, <2>3, <2>4, <3>2
  <2>5. CASE ~Closed(legs[j])
    <3>1. legs[j].exit = Never
      BY <2>1, <2>5 DEF Closed, Filled
    <3>2. Never \notin Nat
      BY DEF Never
    <3>3. t + life[j].exit > Horizon
      BY <1>1, <1>2, <2>1, <2>3, <3>1, <3>2 DEF Reached
    <3> QED BY <1>1, <2>2, <2>3, <2>5, <3>3
  <2> QED BY <2>4, <2>5
<1>4. i \in F /\ legs[i].fill <= minute /\ (legs[i].exit = Never \/ legs[i].exit > minute)
  BY DEF OpenAt
<1>5. minute < End(i)
  <2>1. CASE Closed(legs[i])
    BY <1>4, <2>1 DEF Closed
  <2>2. CASE ~Closed(legs[i])
    BY <1>1, <1>3, <1>4, <2>2
  <2> QED BY <2>1, <2>2
<1> DEFINE S == {t} \cup {End(j) : j \in F}
<1>6. S \in SUBSET Nat /\ S # {} /\ \A n \in S : n <= Horizon + MaxHold
  <2> HIDE DEF End, F
  <2> QED BY <1>1, <1>3
<1>7. EndOf(t, legs) = Max(S)
  BY <1>4 DEF EndOf, LegEnds
<1>8. End(i) \in S
  BY <1>4
<1> HIDE DEF S, End, F
<1>9. Max(S) \in Nat /\ End(i) <= Max(S)
  <2> DEFINE top == Horizon + MaxHold
  <2>1. top \in Nat /\ \A x \in S : x <= top
    BY <1>1, <1>6
  <2> HIDE DEF top
  <2>2. Max(S) \in S /\ \A x \in S : x <= Max(S)
    BY <1>6, <2>1, MaxIsGreatest
  <2> QED BY <1>6, <1>8, <2>2
<1>10. End(i) \in Nat /\ t <= legs[i].fill /\ legs[i].fill \in Nat
  BY <1>3, <1>4
<1> QED BY <1>1, <1>4, <1>5, <1>7, <1>9, <1>10

LEMMA SideSteps ==
    ASSUME Feed, Exclusive, Next
    PROVE  \/ UNCHANGED <<rows, account>> /\ (active' = active \/ active' = Still(last'))
           \/ \E side \in Sides, life \in Lives, engine \in Engines :
                 BookColliding(Build(last', side, life, engine))
<1>1. PICK gap \in 0 .. MaxGap :
        /\ last' = last + gap
        /\ \/ BlockedByDay(last + gap)
           \/ TooManyOpen(last + gap)
           \/ \E side \in Sides, life \in Lives, engine \in Engines :
                LET b == Build(last + gap, side, life, engine) IN
                RiskyForTheAccount(b) \/ OverTheCeiling(b) \/ Collides(b) \/ Book(b) \/ BookColliding(b)
  BY DEF Next
<1>2. CASE BlockedByDay(last') \/ TooManyOpen(last')
  BY <1>2 DEF BlockedByDay, TooManyOpen, Excluded
<1>3. ASSUME NEW b, b.t = last',
             RiskyForTheAccount(b) \/ OverTheCeiling(b) \/ Collides(b) \/ Book(b)
      PROVE  UNCHANGED <<rows, account>> /\ (active' = active \/ active' = Still(last'))
  BY <1>3 DEF RiskyForTheAccount, OverTheCeiling, Collides, Excluded, Book, CollisionOn, Exclusive
<1>4. \A side, life, engine : Build(last', side, life, engine).t = last'
  BY DEF Build
<1> QED BY <1>1, <1>2, <1>3, <1>4

\* What a colliding signal that is taken does to the policy and to the account.
LEMMA Collision ==
    ASSUME Feed, Exclusive, Kept, last' \in Nat, last' <= Horizon,
           NEW side \in Sides, NEW life \in Lives, NEW engine \in Engines,
           BookColliding(Build(last', side, life, engine))
    PROVE  LET n == Len(rows) + 1 IN
           /\ Kept' /\ Len(rows') = n
           /\ \A a \in active : a.end > last' /\ a.side = side => a \in active'
           /\ \A minute \in 0..Horizon : HeldBy(minute)' \subseteq HeldBy(minute) \cup {n}
           /\ \A minute \in last'..Horizon, a \in active :
                 a.id \in 1..Len(rows) /\ a.end > last' /\ a.side # side
                     => a.id \notin HeldBy(minute)'
           /\ \A k \in 1..Len(rows) : account'[k].side = account[k].side
           /\ account'[n].side = side
           /\ \A minute \in 0..Horizon : n \in HeldBy(minute)' =>
                 /\ last' <= minute
                 /\ \E a \in active' : a.id = n /\ a.side = side /\ a.end \in Nat /\ a.end > minute
<1> DEFINE t == last'
           n == Len(rows) + 1
           b == Build(t, side, life, engine)
           d == Decision(b)
           built == Applied(b, d)
           opp == Opposite(t, side)
<1>1. /\ b.t = t /\ b.side = side /\ b.real = Legs(t, side, life)
      /\ built.t = t /\ built.side = side
      /\ built.legs = ScaledLegs(b.legs, d.scale) /\ built.real = ScaledLegs(b.real, d.scale)
  <2>1. /\ b.t = t /\ b.side = side /\ b.real = Legs(t, side, life)
        /\ {"t", "side", "legs", "real", "pnl", "after", "before"} \subseteq DOMAIN b
    BY DEF Build
  <2> HIDE DEF b, d
  <2> QED BY <2>1 DEF Applied
<1> HIDE DEF b, d, built
<1>2. /\ d.accept
      /\ active' = OldSide(t, side) \cup {ActiveSignal(built, n)}
      /\ account' = Traded(built)
      /\ \E r : rows' = Append(rows, r) /\ r.blind = (b.legs # b.real)
  <2>1. /\ d.accept /\ Take(b, built, d.delta) /\ account' = Traded(built)
        /\ active' = OldSide(b.t, b.side) \cup {ActiveSignal(built, n)}
    BY DEF BookColliding, b, d, built
  <2> QED BY <1>1, <2>1 DEF Take
<1>3. /\ Len(rows) \in Nat /\ Len(rows') = n /\ rows'[n].blind = (b.legs # b.real)
      /\ \A k \in 1..Len(rows) : rows'[k] = rows[k]
  BY <1>2 DEF Feed
<1>4. opp = {a \in active : a.end > t /\ a.side # side}
  BY DEF Opposite, Still, Exclusive
<1>5. opp # {} => \A a : CloseHalves(a, t) = 2
  <2>1. opp # {} => config.opposite = "close_then_flip"
    BY <1>1, <1>2 DEF Decision, Exclusive, d
  <2> QED BY <2>1 DEF CloseHalves
<1> HIDE DEF opp, t
<1>6. \A k : Cut(k, t, side) = IF \E a \in opp : a.id = k THEN 2 ELSE 0
  BY <1>5 DEF Cut, opp
<1>7. /\ DOMAIN account' = 1..n
      /\ account'[n] = [side |-> side, legs |-> built.real, cuts |-> {}]
      /\ \A k \in 1..Len(rows) :
            account'[k] = IF \E a \in opp : a.id = k
                          THEN [account[k] EXCEPT !.cuts = @ \cup {[t |-> t, halves |-> 2]}]
                          ELSE account[k]
  <2> DEFINE Entry(k) == IF k > Len(rows) THEN [side |-> side, legs |-> built.real, cuts |-> {}]
                         ELSE IF Cut(k, t, side) = 0 THEN account[k]
                         ELSE [account[k] EXCEPT !.cuts = @ \cup {[t |-> t, halves |-> Cut(k, t, side)]}]
  <2>1. account' = [k \in 1..n |-> Entry(k)]
    BY <1>1, <1>2 DEF Traded
  <2> HIDE DEF Entry
  <2>2. /\ DOMAIN account' = 1..n /\ n \in 1..n /\ n > Len(rows) /\ account'[n] = Entry(n)
        /\ \A k \in 1..Len(rows) : account'[k] = Entry(k) /\ ~(k > Len(rows))
    BY <1>3, <2>1
  <2>3. Entry(n) = [side |-> side, legs |-> built.real, cuts |-> {}]
    BY <2>2 DEF Entry
  <2>4. ASSUME NEW k \in 1..Len(rows)
        PROVE  Entry(k) = IF \E a \in opp : a.id = k
                          THEN [account[k] EXCEPT !.cuts = @ \cup {[t |-> t, halves |-> 2]}]
                          ELSE account[k]
    <3>1. CASE \E a \in opp : a.id = k
      <4>1. Cut(k, t, side) = 2 /\ Cut(k, t, side) # 0
        BY <1>6, <3>1
      <4> QED BY <2>2, <3>1, <4>1 DEF Entry
    <3>2. CASE ~\E a \in opp : a.id = k
      <4>1. Cut(k, t, side) = 0
        BY <1>6, <3>2
      <4> QED BY <2>2, <3>2, <4>1 DEF Entry
    <3> QED BY <3>1, <3>2
  <2> QED BY <2>2, <2>3, <2>4
<1>8. \A k \in 1..Len(rows) :
         /\ account'[k].side = account[k].side /\ account'[k].legs = account[k].legs
         /\ {"side", "legs", "cuts"} \subseteq DOMAIN account'[k]
         /\ account[k].cuts \subseteq account'[k].cuts
         /\ (\E a \in opp : a.id = k) => [t |-> t, halves |-> 2] \in account'[k].cuts
  <2> TAKE k \in 1..Len(rows)
  <2>1. {"side", "legs", "cuts"} \subseteq DOMAIN account[k]
    BY DEF Kept
  <2>2. CASE \E a \in opp : a.id = k
    <3>1. account'[k] = [account[k] EXCEPT !.cuts = @ \cup {[t |-> t, halves |-> 2]}]
      BY <1>7, <2>2
    <3> QED BY <2>1, <2>2, <3>1
  <2>3. CASE ~\E a \in opp : a.id = k
    <3>1. account'[k] = account[k]
      BY <1>7, <2>3
    <3> QED BY <2>1, <2>3, <3>1
  <2> QED BY <2>2, <2>3
<1>9. Kept'
  BY <1>3, <1>7, <1>8 DEF Kept
<1>10. \A minute : n \in HeldBy(minute)' =>
          b.legs = b.real /\ \E i \in DOMAIN built.real : OpenAt(built.real[i], minute)
  <2> SUFFICES ASSUME NEW minute, n \in HeldBy(minute)'
               PROVE  b.legs = b.real /\ \E i \in DOMAIN built.real : OpenAt(built.real[i], minute)
    OBVIOUS
  <2> HIDE DEF n
  <2>1. ~rows'[n].blind /\ HeldAt(account'[n], minute)
    BY DEF HeldBy, Seen, HeldAt
  <2>2. b.legs = b.real
    BY <1>3, <2>1
  <2>3. account'[n].legs = built.real
    BY <1>7
  <2> QED BY <2>1, <2>2, <2>3 DEF HeldAt
<1>11. ASSUME NEW k \in 1..Len(rows), NEW minute, k \in HeldBy(minute)'
       PROVE  /\ k \in HeldBy(minute)
              /\ \A c \in account'[k].cuts : c.t > minute \/ c.halves < 2
  <2>1. Seen(k)' /\ HeldAt(account'[k], minute)
    BY <1>11 DEF HeldBy
  <2>2. Seen(k) /\ HeldAt(account[k], minute)
    BY <1>3, <1>8, <2>1 DEF Seen, HeldAt
  <2> QED BY <2>1, <2>2 DEF HeldBy, HeldAt, Kept
<1>12. \A minute : HeldBy(minute)' \subseteq HeldBy(minute) \cup {n}
  <2>1. \A minute : HeldBy(minute)' \subseteq 1..n
    BY <1>7 DEF HeldBy
  <2> QED BY <1>3, <1>11, <2>1
<1>13. ASSUME NEW minute \in t..Horizon, NEW a \in active, a.end > t, a.side # side,
              a.id \in 1..Len(rows), a.id \in HeldBy(minute)'
       PROVE  FALSE
  <2>1. a \in opp
    BY <1>4, <1>13
  <2>2. [t |-> t, halves |-> 2] \in account'[a.id].cuts
    BY <1>8, <1>13, <2>1
  <2>3. t > minute \/ 2 < 2
    BY <1>11, <1>13, <2>2
  <2> QED BY <2>3 DEF t
<1>14. \A a \in active : a.end > t /\ a.side = side => a \in active'
  BY <1>2, <1>4 DEF OldSide, Still, opp
<1>15. ASSUME NEW minute \in 0..Horizon, n \in HeldBy(minute)'
       PROVE  /\ t <= minute
              /\ \E a \in active' : a.id = n /\ a.side = side /\ a.end \in Nat /\ a.end > minute
  <2>1. b.legs = b.real
    BY <1>10, <1>15
  <2>2. PICK i \in DOMAIN built.real : OpenAt(built.real[i], minute)
    BY <1>10, <1>15
  <2>3. DOMAIN built.legs = DOMAIN life /\ built.real = built.legs
        /\ \A j \in DOMAIN life : /\ built.legs[j].fill = Legs(t, side, life)[j].fill
                                  /\ built.legs[j].exit = Legs(t, side, life)[j].exit
    <3>1. DOMAIN b.legs = DOMAIN life
      BY <1>1, <2>1 DEF Legs
    <3>2. \A j \in DOMAIN life : {"lot", "pnl", "fill", "exit"} \subseteq DOMAIN b.legs[j]
      BY <1>1, <2>1 DEF Legs
    <3>3. \A j \in DOMAIN life : \A x, y :
             LET leg == [b.legs[j] EXCEPT !.lot = x, !.pnl = y]
             IN  leg.fill = b.legs[j].fill /\ leg.exit = b.legs[j].exit
      BY <1>1, <2>1 DEF Legs
    <3>4. built.real = built.legs /\ DOMAIN built.legs = DOMAIN life
      BY <1>1, <2>1, <3>1 DEF ScaledLegs
    <3>5. ASSUME NEW j \in DOMAIN life
          PROVE  /\ built.legs[j].fill = b.legs[j].fill
                 /\ built.legs[j].exit = b.legs[j].exit
      <4>1. built.legs[j] = [b.legs[j] EXCEPT !.lot = Share(@, d.scale), !.pnl = Share(@, d.scale)]
        BY <1>1, <3>1 DEF ScaledLegs
      <4>2. built.legs[j] = [b.legs[j] EXCEPT !.lot = Share(b.legs[j].lot, d.scale),
                                              !.pnl = Share(b.legs[j].pnl, d.scale)]
        BY <4>1
      <4> QED BY <3>3, <4>2
    <3>6. b.legs = Legs(t, side, life)
      BY <1>1, <2>1
    <3> QED BY <3>4, <3>5, <3>6
  <2>4. t <= minute /\ EndOf(t, built.legs) \in Nat /\ minute < EndOf(t, built.legs)
    BY <2>2, <2>3, EndIsLast DEF t
  <2>5. LET a == ActiveSignal(built, n) IN
        a \in active' /\ a.id = n /\ a.side = side /\ a.end = EndOf(t, built.legs)
    BY <1>1, <1>2 DEF ActiveSignal
  <2> QED BY <2>4, <2>5
<1> QED BY <1>3, <1>7, <1>8, <1>9, <1>12, <1>13, <1>14, <1>15 DEF t

LEMMA SideKept == ASSUME SideInv, [Next]_vars PROVE SideInv'
<1>0. Feed' /\ Horizon \in Nat
  BY FeedKept, UnitsAssumption DEF SideInv, Horizon
<1> HIDE DEF Horizon
<1>1. CASE UNCHANGED vars
  BY <1>0, <1>1 DEF vars, SideInv, Exclusive, Kept, Watched, NeverBothWays, HeldBy, Seen
<1>2. CASE Next
  <2>1. /\ last' \in Nat /\ last <= last' /\ last \in Nat /\ config' = config
        /\ last' <= Horizon
    BY <1>2, FeedSteps DEF SideInv, Feed, Next
  <2> SUFFICES ASSUME Exclusive PROVE Kept' /\ Watched' /\ NeverBothWays'
    BY <1>0, <2>1 DEF SideInv, Exclusive
  <2>2. Feed /\ Kept /\ Watched /\ NeverBothWays
    BY DEF SideInv
  <2>3. CASE UNCHANGED <<rows, account>> /\ (active' = active \/ active' = Still(last'))
    <3>1. \A minute : HeldBy(minute)' = HeldBy(minute)
      BY <2>3 DEF HeldBy, Seen
    <3>2. Kept' /\ NeverBothWays'
      BY <2>1, <2>2, <2>3, <3>1 DEF Kept, NeverBothWays
    <3>3. ASSUME NEW minute \in last'..Horizon, NEW k \in HeldBy(minute)
          PROVE  \E a \in active' :
                    a.id = k /\ a.side = account[k].side /\ a.end \in Nat /\ a.end > minute
      <4>1. minute \in last..Horizon /\ minute \in Int /\ last' <= minute
        BY <1>0, <2>1
      <4>2. PICK a \in active : a.id = k /\ a.side = account[k].side /\ a.end \in Nat /\ a.end > minute
        BY <2>2, <4>1 DEF Watched
      <4>3. a.end > last'
        BY <2>1, <4>1, <4>2
      <4> QED BY <2>3, <4>2, <4>3 DEF Still
    <3> QED BY <2>3, <3>1, <3>2, <3>3 DEF Watched
  <2>4. ASSUME NEW side \in Sides, NEW life \in Lives, NEW engine \in Engines,
               BookColliding(Build(last', side, life, engine))
        PROVE  Kept' /\ Watched' /\ NeverBothWays'
    <3> DEFINE n == Len(rows) + 1
    <3>1. /\ Kept' /\ Len(rows') = n
          /\ \A a \in active : a.end > last' /\ a.side = side => a \in active'
          /\ \A minute \in 0..Horizon : HeldBy(minute)' \subseteq HeldBy(minute) \cup {n}
          /\ \A minute \in last'..Horizon, a \in active :
                a.id \in 1..Len(rows) /\ a.end > last' /\ a.side # side
                    => a.id \notin HeldBy(minute)'
          /\ \A k \in 1..Len(rows) : account'[k].side = account[k].side
          /\ account'[n].side = side
          /\ \A minute \in 0..Horizon : n \in HeldBy(minute)' =>
                /\ last' <= minute
                /\ \E a \in active' : a.id = n /\ a.side = side /\ a.end \in Nat /\ a.end > minute
      BY <2>1, <2>2, <2>4, Collision
    <3>2. \A minute : HeldBy(minute) \subseteq 1..Len(rows)
      BY <2>2 DEF HeldBy, Kept
    <3> HIDE DEF n
    \* Of the older signals only those of the new one's side are held from now on.
    <3>3. ASSUME NEW minute \in last'..Horizon, NEW k \in HeldBy(minute)', k # n
          PROVE  /\ account'[k].side = side
                 /\ \E a \in active' : a.id = k /\ a.side = side /\ a.end \in Nat /\ a.end > minute
      <4>1. minute \in last..Horizon /\ minute \in 0..Horizon /\ minute \in Int /\ last' <= minute
        BY <1>0, <2>1
      <4>2. k \in HeldBy(minute) /\ k \in 1..Len(rows)
        BY <3>1, <3>2, <3>3, <4>1
      <4>3. PICK a \in active : a.id = k /\ a.side = account[k].side /\ a.end \in Nat /\ a.end > minute
        BY <2>2, <4>1, <4>2 DEF Watched
      <4>4. a.end > last'
        BY <2>1, <4>1, <4>3
      <4>5. a.side = side
        BY <3>1, <3>3, <4>2, <4>3, <4>4
      <4> QED BY <3>1, <4>2, <4>3, <4>4, <4>5
    <3>4. Watched'
      <4> SUFFICES ASSUME NEW minute \in last'..Horizon, NEW k \in HeldBy(minute)'
                   PROVE  \E a \in active' :
                             a.id = k /\ a.side = account'[k].side /\ a.end \in Nat /\ a.end > minute
        BY DEF Watched
      <4>1. minute \in 0..Horizon
        BY <1>0, <2>1
      <4> QED BY <3>1, <3>3, <4>1
    <3>5. ASSUME NEW minute \in 0..Horizon, NEW j \in HeldBy(minute)', NEW k \in HeldBy(minute)'
          PROVE  account'[j].side = account'[k].side
      <4>1. CASE minute \in last'..Horizon
        BY <3>1, <3>3, <4>1
      <4>2. CASE minute \notin last'..Horizon
        <5>1. ~(last' <= minute)
          BY <1>0, <2>1, <4>2
        <5>2. j # n /\ k # n
          BY <3>1, <5>1
        <5>3. j \in HeldBy(minute) /\ k \in HeldBy(minute)
          BY <3>1, <5>2
        <5> QED BY <2>2, <3>1, <3>2, <5>3 DEF NeverBothWays, Exclusive
      <4> QED BY <4>1, <4>2
    <3> QED BY <3>1, <3>4, <3>5 DEF NeverBothWays
  <2> QED BY <1>2, <2>2, <2>3, <2>4, SideSteps
<1> QED BY <1>1, <1>2

\* A run that rejects opposite signals, or closes them and flips, holds one side of the
\* market at every minute, for every chart, feed and life of the legs (CollisionPolicy.decide).
THEOREM OneSideAtATime == Spec => []NeverBothWays
<1>1. Init => SideInv
  <2> SUFFICES ASSUME Init PROVE SideInv
    OBVIOUS
  <2>1. last \in Nat /\ rows = <<>> /\ account = <<>>
    BY UnitsAssumption DEF Init
  <2>2. Feed /\ Kept
    BY <2>1 DEF Feed, Kept
  <2>3. \A minute : HeldBy(minute) = {}
    BY <2>1 DEF HeldBy
  <2> QED BY <2>2, <2>3 DEF SideInv, Watched, NeverBothWays
<1>2. SideInv => NeverBothWays
  BY DEF SideInv, Exclusive, NeverBothWays
<1> QED BY <1>1, <1>2, SideKept, PTL DEF Spec

=============================================================================
