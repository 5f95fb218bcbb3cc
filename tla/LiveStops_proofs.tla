--------------------------- MODULE LiveStops_proofs ---------------------------
(***************************************************************************)
(* Theorems of LiveStops for every plan, book and number of legs: a broker *)
(* that accepts a stop at any distance never has a stop loosened, and a    *)
(* cycle without a failure leaves no leg the replay ended on a lock at its *)
(* original stop, at whatever prices its requests are sent.                *)
(***************************************************************************)
EXTENDS LiveStops, TLAPS

Sides  == {"BUY", "SELL"}
Phases == {"idle", "late", "tp1", "tp2", "time", "pending", "trail", "rearm"}
Price  == Int \cup {NoPrice}

LegRecord == [at : {"none", "open", "stop", "closed"}, price : Price, sl : Price, trigger : Price,
              opened : Int, how : {"none", "limit", "trigger", "market"}]
Verdict   == [status : {"PENDING", "OPEN", "LOCK_TP1", "LOCK_TP2", "TRAILING_STOP", "OTHER"},
              stage : 0..2, trail : Price]
Job       == [leg : Sent, kind : {"none", "close", "sltp", "market"}, price : Price, late : BOOLEAN]

Typed ==
    /\ side \in Sides /\ trailOpen \in Nat /\ bid \in Int /\ clock \in Int /\ low \in Int
    /\ leg \in [Sent -> LegRecord]
    /\ \A l \in Sent : leg[l].at \in {"open", "stop"} => leg[l].sl \in Int
    /\ \A l \in Sent : leg[l].at = "stop" => leg[l].trigger \in Int
    /\ verdict \in [Sent -> Verdict]
    /\ phase \in Phases /\ todo \subseteq Sent
    /\ job \in Job /\ (job.kind \in {"sltp", "market"} => job.price \in Int)
    /\ last.legs \subseteq Sent /\ DOMAIN last = {"at", "legs"} /\ faulty \in BOOLEAN

\* What a phase may still work on, and which request it may have in hand.
Steered ==
    /\ phase = "idle" => todo = {} /\ job = None
    /\ job.kind = "none" <=> job = None
    /\ job # None => job.leg \notin todo
    /\ phase \in {"late", "tp1", "tp2", "trail"} => \A l \in todo : leg[l].at \in {"open", "closed"}
    /\ phase \in {"tp1", "tp2", "trail"} => \A l \in todo : verdict[l].status = "OPEN"
    /\ phase = "trail" => \A l \in todo : verdict[l].trail \in Int
    /\ phase = "rearm" => \A l \in todo : /\ leg[l].at \in {"none", "closed"}
                                          /\ verdict[l].status \in {"PENDING", "OPEN"}
    /\ job.kind = "sltp" => /\ phase \in {"late", "tp1", "tp2", "trail"}
                            /\ leg[job.leg].at \in {"open", "closed"}
                            /\ phase # "late" => verdict[job.leg].status = "OPEN"
    /\ job.kind = "market" => /\ phase = "rearm" /\ leg[job.leg].at \in {"none", "closed"}
                              /\ verdict[job.leg].status \in {"PENDING", "OPEN"}

\* The price a phase asks for is better than the stop, and stays so until it is sent.
Asked(l) == IF phase = "trail" THEN Wanted(l) ELSE LockTarget[phase]
Tightening ==
    /\ phase \in {"tp1", "tp2", "trail"} =>
           \A l \in todo : Open(l) => Beyond(side, Asked(l), leg[l].sl)
    /\ job.kind = "sltp" /\ Open(job.leg) => Beyond(side, job.price, leg[job.leg].sl)

\* The closest level the worst quote of the cycle allows, and the protection it makes due.
Locked(l)  == verdict[l].status \in {"LOCK_TP1", "LOCK_TP2"}
Nearest    == Away(side, low, -(IF Buffer > MinDist THEN Buffer ELSE MinDist))
Due(l)     == Looser(side, Target(l), Nearest)
Protected(l) ==
    IF Due(l) = Target(l) THEN ~Beyond(side, Due(l), leg[l].sl)
    ELSE Beyond(side, leg[l].sl, Away(side, Due(l), -MinStep))

\* A leg that the replay ended on a lock is waiting for its turn, in hand, or protected.
Caught ==
    /\ phase # "idle" => ~Beyond(side, low, Exit)
    /\ \A l \in last.legs : Locked(l) =>
        /\ leg[l].at \in {"open", "closed"}
        /\ Open(l) /\ ~faulty =>
            \/ phase = "late" /\ l \in todo
            \/ job.leg = l /\ job.kind = "close"
            \/ phase = "late" /\ job.leg = l /\ job.kind = "sltp" /\ ~Beyond(side, Due(l), job.price)
            \/ Protected(l)

Inv == Typed /\ Steered /\ Tightening /\ Caught

-----------------------------------------------------------------------------
(* Prices                                                                  *)

\* Every price the executor computes is a number.
LEMMA PricesAreNumbers ==
    ASSUME Typed
    PROVE  /\ \A p \in Int : Level(p) \in Int
           /\ \A b \in Int : ExitAt(b) \in Int /\ EnterAt(b) \in Int
           /\ Exit \in Int /\ Enter \in Int /\ Nearest \in Int
           /\ \A l \in Sent : /\ Target(l) \in Int /\ Desired(l) \in Int /\ Planned(l) \in Int
                              /\ Due(l) \in Int /\ Entry[l] - BaseSl[l] \in Int
                              /\ verdict[l].trail \in Int => Wanted(l) \in Int
           /\ \A p \in DOMAIN LockTarget : LockTarget[p] \in Int
<1>1. \A p \in Int : Level(p) \in Int
  BY DistancesAssumption DEF Level, Typed
<1>2. \A b \in Int : ExitAt(b) \in Int /\ EnterAt(b) \in Int
  BY DistancesAssumption DEF ExitAt, EnterAt, Typed
<1>3. Exit \in Int /\ Enter \in Int /\ Nearest \in Int
  BY <1>2, DistancesAssumption DEF Exit, Enter, Nearest, Away, Typed
<1>4. Level(Tp[1]) \in Int /\ Level(Tp[2]) \in Int
  BY <1>1, PlanAssumption
<1>5. ASSUME NEW l \in Sent
      PROVE  /\ Target(l) \in Int /\ Desired(l) \in Int /\ Planned(l) \in Int
             /\ Due(l) \in Int /\ Entry[l] - BaseSl[l] \in Int
             /\ verdict[l].trail \in Int => Wanted(l) \in Int
  <2>1. Target(l) \in Int
    BY <1>4 DEF Target
  <2>2. Away(side, Exit, -Buffer) \in Int
    BY <1>3, DistancesAssumption DEF Away
  <2>3. Entry[l] \in Int /\ BaseSl[l] \in Int
    BY PlanAssumption
  <2> QED BY <2>1, <2>2, <2>3, <1>1, <1>3 DEF Desired, Looser, Planned, Due, Wanted, Tighter
<1> QED BY <1>1, <1>2, <1>3, <1>4, <1>5 DEF LockTarget

\* A clamped stop is no tighter than the one asked for; without a stops level it is that one.
LEMMA ClampOnlyLoosens ==
    ASSUME Typed, NEW p \in Int, Clamp(p) # NoPrice
    PROVE  /\ Clamp(p) \in Int /\ ~Beyond(side, Clamp(p), p)
           /\ Clamp(p) \in {p, Away(side, Exit, -MinDist)}
           /\ MinDist = 0 => Clamp(p) = p
<1>1. Exit \in Int /\ Away(side, Exit, -MinDist) \in Int
  BY PricesAreNumbers, DistancesAssumption DEF Away
<1> QED BY <1>1, DistancesAssumption DEF Clamp, Looser, Beyond, Away

\* What the executor would set now is at least what the cycle makes due.
LEMMA DesiredIsDue ==
    ASSUME Typed, NEW l \in Sent, ~Beyond(side, low, Exit), Clamp(Desired(l)) # NoPrice
    PROVE  /\ ~Beyond(side, Due(l), Clamp(Desired(l)))
           /\ Due(l) = Target(l) => Clamp(Desired(l)) = Target(l)
<1>1. Exit \in Int /\ low \in Int /\ Target(l) \in Int
  BY PricesAreNumbers DEF Typed
<1>2. CASE side = "BUY"
  BY <1>1, <1>2, DistancesAssumption DEF Clamp, Due, Nearest, Desired, Looser, Beyond, Away
<1>3. CASE side = "SELL"
  BY <1>1, <1>3, DistancesAssumption DEF Clamp, Due, Nearest, Desired, Looser, Beyond, Away
<1> QED BY <1>2, <1>3 DEF Typed, Sides

\* A stop at or beyond what is due protects; worse quotes only make less due.
LEMMA DueProtects ==
    ASSUME Typed, NEW l \in Sent, leg[l].sl \in Int, ~Beyond(side, Due(l), leg[l].sl)
    PROVE  Protected(l)
BY PricesAreNumbers, DistancesAssumption DEF Protected, Beyond, Away, Typed, Sides

LEMMA NoneIsIdle == None \in Job /\ None.kind = "none" /\ None.leg \in Sent
BY SentAssumption, LegsAssumption DEF None, Job, Price

-----------------------------------------------------------------------------
(* Taking a leg in hand                                                    *)

LEMMA TakeKeeps ==
    ASSUME Inv, NEW l \in todo, NEW j \in Job, job = None, Take(l, j), phase # "idle",
           UNCHANGED <<market, leg, verdict, phase, last, low>>, faulty' \in {faulty, TRUE},
           j = None <=> j.kind = "none", j # None => j.leg = l,
           j.kind = "market" => phase = "rearm" /\ j.price \in Int,
           j.kind = "sltp" =>
               /\ phase \in {"late", "tp1", "tp2", "trail"} /\ j.price \in Int
               /\ Open(l) => Beyond(side, j.price, leg[l].sl),
           phase = "late" /\ Locked(l) /\ Open(l) /\ ~faulty' =>
               \/ j.kind = "close" \/ Protected(l)
               \/ j.kind = "sltp" /\ ~Beyond(side, Due(l), j.price)
    PROVE  Inv'
<1> USE DEF Inv
<1>1. /\ job' = j /\ todo' = todo \ {l} /\ l \in Sent
      /\ UNCHANGED <<side, trailOpen, bid, clock, leg, verdict, phase, last, low>>
  BY DEF Take, market, Typed
<1>2. Typed'
  BY <1>1 DEF Typed
<1>3. Steered'
  BY <1>1 DEF Steered
<1>4. Tightening'
  <2>1. \A x \in Sent : Asked(x)' = Asked(x) /\ Open(x)' = Open(x)
    BY <1>1 DEF Asked, Wanted, LockTarget, Level, Open
  <2> QED BY <1>1, <2>1 DEF Tightening, Typed
<1>5. Caught'
  <2>1. \A x \in Sent : /\ Due(x)' = Due(x) /\ Protected(x)' = Protected(x)
                        /\ Locked(x)' = Locked(x) /\ Open(x)' = Open(x)
    BY <1>1 DEF Due, Protected, Target, Nearest, Locked, Level, Open
  <2>2. Exit' = Exit /\ job.kind = "none"
    BY <1>1, NoneIsIdle DEF Exit, ExitAt
  <2> QED BY <1>1, <2>1, <2>2 DEF Caught, Typed
<1> QED BY <1>2, <1>3, <1>4, <1>5

\* A late lock asks for what is due, or closes, or finds it in place already.
LEMMA LateLockKeeps == ASSUME Inv, NEW l \in Sent, LateLock(l) PROVE Inv'
<1> USE DEF Inv
<1>1. /\ phase = "late" /\ job = None /\ l \in todo /\ ~Beyond(side, low, Exit)
      /\ UNCHANGED <<market, leg, verdict, phase, last, low>>
  BY DEF LateLock, Caught
<1>2. CASE Fails /\ Take(l, None)
  BY <1>1, <1>2, NoneIsIdle, TakeKeeps, Zenon DEF Fails
<1>3. CASE Works /\ ~Open(l) /\ Take(l, None)
  BY <1>1, <1>3, NoneIsIdle, TakeKeeps DEF Works
<1>4. CASE Works /\ Take(l, [Work(l) EXCEPT !.kind = "close", !.late = TRUE])
  <2> DEFINE j == [Work(l) EXCEPT !.kind = "close", !.late = TRUE]
  <2>1. j \in Job /\ j # None /\ j.kind = "close" /\ j.leg = l
    BY DEF Work, None, Job, Price
  <2> HIDE DEF j
  <2>2. Take(l, j)
    BY <1>4 DEF j
  <2> QED BY <1>1, <1>4, <2>1, <2>2, TakeKeeps DEF Works
<1>5. ASSUME Works, Open(l), Clamp(Desired(l)) # NoPrice,
             Improves(leg[l].sl, Clamp(Desired(l))),
             Take(l, [Work(l) EXCEPT !.kind = "sltp", !.price = Clamp(Desired(l)), !.late = TRUE])
      PROVE  Inv'
  <2> DEFINE j == [Work(l) EXCEPT !.kind = "sltp", !.price = Clamp(Desired(l)), !.late = TRUE]
  <2>1. Clamp(Desired(l)) \in Int /\ ~Beyond(side, Due(l), Clamp(Desired(l)))
    BY <1>1, <1>5, PricesAreNumbers, ClampOnlyLoosens, DesiredIsDue
  <2>2. j \in Job /\ j # None /\ j.kind = "sltp" /\ j.leg = l /\ j.price = Clamp(Desired(l))
    BY <2>1 DEF Work, None, Job, Price
  <2> HIDE DEF j
  <2>3. Take(l, j) /\ Beyond(side, j.price, leg[l].sl)
    BY <1>5, <2>2 DEF j, Improves
  <2> QED BY <1>1, <1>5, <2>1, <2>2, <2>3, TakeKeeps DEF Works
<1>6. ASSUME Works, Open(l), Clamp(Desired(l)) # NoPrice, Take(l, None),
             ~(Improves(leg[l].sl, Clamp(Desired(l))) /\ WorthSending(l, Clamp(Desired(l))))
      PROVE  Inv'
  <2> DEFINE legal == Clamp(Desired(l))
  <2>1. /\ legal \in Int /\ ~Beyond(side, Due(l), legal) /\ leg[l].sl \in Int
        /\ Due(l) = Target(l) => legal = Target(l)
        /\ Due(l) \in Int /\ Target(l) \in Int
    BY <1>1, <1>6, PricesAreNumbers, ClampOnlyLoosens, DesiredIsDue DEF Open, Typed
  <2> HIDE DEF legal
  <2>2. ~Beyond(side, legal, leg[l].sl)
        \/ (Due(l) # Target(l) /\ Beyond(side, legal, leg[l].sl) /\ Distance(legal, leg[l].sl) < MinStep)
    <3>1. ~Improves(leg[l].sl, legal) \/ ~WorthSending(l, legal)
      BY <1>6 DEF legal
    <3> QED BY <2>1, <3>1, DistancesAssumption DEF Improves, WorthSending, Distance
  <2>3. Protected(l)
    BY <2>1, <2>2, DistancesAssumption DEF Protected, Beyond, Away, Distance, Typed, Sides
  <2> QED BY <1>1, <1>6, <2>3, NoneIsIdle, TakeKeeps DEF Works
<1> QED BY <1>2, <1>3, <1>4, <1>5, <1>6 DEF LateLock

\* The locks and the trail ask for the price of their phase.
LEMMA AskKeeps ==
    ASSUME Inv, NEW l \in Sent, Lock(l) \/ Trail(l)
    PROVE  Inv'
<1> USE DEF Inv
<1> DEFINE j == [Work(l) EXCEPT !.kind = "sltp", !.price = Asked(l)]
<1>1. /\ phase \in {"tp1", "tp2", "trail"} /\ job = None /\ l \in todo /\ Take(l, j)
      /\ UNCHANGED <<market, leg, verdict, phase, last, low, faulty>>
  BY DEF Lock, Trail, Asked
<1>2. Asked(l) \in Int
  BY <1>1, PricesAreNumbers DEF Asked, Steered, LockTarget
<1>3. j \in Job /\ j # None /\ j.kind = "sltp" /\ j.leg = l /\ j.price = Asked(l)
  BY <1>2 DEF Work, None, Job, Price
<1> HIDE DEF j
<1> QED BY <1>1, <1>2, <1>3, TakeKeeps DEF Tightening

\* Closing at market.
LEMMA CloseKeeps ==
    ASSUME Inv, NEW l \in Sent, CatchUp(l) \/ CloseTimedOut(l)
    PROVE  Inv'
<1> USE DEF Inv
<1> DEFINE j == [Work(l) EXCEPT !.kind = "close"]
<1>1. /\ phase # "idle" /\ job = None /\ l \in todo /\ Take(l, j)
      /\ UNCHANGED <<market, leg, verdict, phase, last, low, faulty>>
  BY DEF CatchUp, CloseTimedOut
<1>2. j \in Job /\ j # None /\ j.kind = "close" /\ j.leg = l
  BY DEF Work, None, Job, Price
<1> HIDE DEF j
<1> QED BY <1>1, <1>2, TakeKeeps

-----------------------------------------------------------------------------
(* The market                                                              *)

LEMMA TickKeeps ==
    ASSUME Inv, NEW b \in 0..MaxPrice, Tick(b)
    PROVE  Inv'
<1> USE DEF Inv
<1>1. /\ b \in Int /\ bid' = b /\ Exit' = ExitAt(b) /\ ExitAt(b) \in Int /\ EnterAt(b) \in Int
      /\ UNCHANGED <<side, trailOpen, clock, verdict, phase, todo, job, last, faulty>>
      /\ low' = IF phase = "idle" THEN low ELSE Looser(side, low, ExitAt(b))
      /\ leg' = [x \in Sent |-> AfterTick(x, b)]
  BY DistancesAssumption, PricesAreNumbers DEF Tick, Exit, ExitAt
<1>2. low' \in Int /\ ~Beyond(side, low', low) /\ (phase # "idle" => ~Beyond(side, low', Exit'))
  BY <1>1 DEF Typed, Looser, Beyond, Sides
<1>3. ASSUME NEW x \in Sent
      PROVE  /\ leg'[x] \in LegRecord
             /\ leg'[x].at \in {"open", "stop"} => leg'[x].sl \in Int
             /\ leg'[x].at = "stop" => leg'[x].trigger \in Int
             /\ leg[x].at \in {"open", "closed"} => leg'[x].at \in {"open", "closed"}
             /\ leg[x].at \in {"none", "closed"} => leg'[x].at = leg[x].at
             /\ leg[x].at \in {"open", "closed"} /\ leg'[x].at = "open" =>
                    leg[x].at = "open" /\ leg'[x].sl = leg[x].sl
  <2>1. Closed \in LegRecord /\ Closed.at = "closed"
    BY DEF Closed, Absent, LegRecord, Price, NoTime
  <2>2. CASE Stopped(leg[x], b)
    BY <1>1, <2>1, <2>2 DEF AfterTick, Stopped
  <2>3. CASE ~Stopped(leg[x], b) /\ Triggered(leg[x], b)
    <3> DEFINE opened == [leg[x] EXCEPT !.at = "open", !.price = EnterAt(b), !.opened = clock,
                                        !.trigger = NoPrice, !.how = "trigger"]
    <3>1. leg'[x] = opened /\ leg[x].at = "stop"
      BY <1>1, <2>3 DEF AfterTick, Triggered
    <3>2. leg[x] \in LegRecord /\ EnterAt(b) \in Price /\ clock \in Int /\ NoPrice \in Price
      BY <1>1 DEF Typed, Price
    <3>3. opened \in LegRecord /\ opened.at = "open" /\ opened.sl = leg[x].sl
      BY <3>2 DEF LegRecord
    <3> QED BY <3>1, <3>3 DEF Typed
  <2>4. CASE ~Stopped(leg[x], b) /\ ~Triggered(leg[x], b)
    BY <1>1, <2>4 DEF AfterTick, Typed
  <2> QED BY <2>2, <2>3, <2>4
<1>4. Typed'
  BY <1>1, <1>2, <1>3 DEF Typed
<1>5. Steered'
  BY <1>1, <1>3 DEF Steered, Typed, Job
<1>6. Tightening'
  <2>1. \A x \in Sent : Asked(x)' = Asked(x)
    BY <1>1 DEF Asked, Wanted, LockTarget, Level
  <2> QED BY <1>1, <1>3, <2>1 DEF Tightening, Steered, Typed, Open, Job
<1>7. Caught'
  <2>1. ASSUME NEW x \in Sent, Open(x), leg'[x].sl = leg[x].sl
        PROVE  /\ ~Beyond(side, Due(x)', Due(x))
               /\ Target(x)' = Target(x) /\ Due(x)' \in Int /\ Due(x) \in Int
               /\ Protected(x) => Protected(x)'
    <3>1. Target(x)' = Target(x) /\ Target(x) \in Int
      BY <1>1, PricesAreNumbers DEF Target, Level
    <3>2. leg[x].sl \in Int
      BY <2>1 DEF Typed, Open
    <3>3. CASE side = "BUY"
      BY <1>1, <1>2, <2>1, <3>1, <3>2, <3>3, DistancesAssumption
         DEF Due, Nearest, Protected, Looser, Beyond, Away, Typed
    <3>4. CASE side = "SELL"
      BY <1>1, <1>2, <2>1, <3>1, <3>2, <3>4, DistancesAssumption
         DEF Due, Nearest, Protected, Looser, Beyond, Away, Typed
    <3> QED BY <3>1, <3>3, <3>4 DEF Typed, Sides
  <2>2. ASSUME NEW x \in last'.legs, Locked(x)'
        PROVE  /\ leg'[x].at \in {"open", "closed"}
               /\ Open(x)' /\ ~faulty' =>
                    \/ phase' = "late" /\ x \in todo'
                    \/ job'.leg = x /\ job'.kind = "close"
                    \/ phase' = "late" /\ job'.leg = x /\ job'.kind = "sltp" /\ ~Beyond(side', Due(x)', job'.price)
                    \/ Protected(x)'
    <3>1. x \in Sent /\ Locked(x) /\ x \in last.legs
      BY <1>1, <2>2 DEF Locked, Typed
    <3>2. leg[x].at \in {"open", "closed"}
      BY <3>1 DEF Caught
    <3>3. SUFFICES ASSUME Open(x)', ~faulty
                   PROVE  \/ phase' = "late" /\ x \in todo'
                          \/ job'.leg = x /\ job'.kind = "close"
                          \/ phase' = "late" /\ job'.leg = x /\ job'.kind = "sltp" /\ ~Beyond(side', Due(x)', job'.price)
                          \/ Protected(x)'
      BY <1>1, <1>3, <3>1, <3>2
    <3>4. Open(x) /\ leg'[x].sl = leg[x].sl
      BY <1>3, <3>1, <3>2, <3>3 DEF Open
    <3>5. /\ ~Beyond(side, Due(x)', Due(x)) /\ Due(x)' \in Int /\ Due(x) \in Int
          /\ Protected(x) => Protected(x)'
      BY <2>1, <3>1, <3>4
    <3>6. job.kind = "sltp" /\ ~Beyond(side, Due(x), job.price) => ~Beyond(side, Due(x)', job.price)
      BY <3>5 DEF Typed, Beyond, Sides
    <3> QED BY <1>1, <3>1, <3>3, <3>4, <3>5, <3>6 DEF Caught
  <2> QED BY <1>1, <1>2, <2>2 DEF Caught
<1> QED BY <1>4, <1>5, <1>6, <1>7

LEMMA MinuteKeeps == ASSUME Inv, Minute PROVE Inv'
BY DEF Minute, Inv, Typed, Steered, Tightening, Caught, Asked, Wanted, LockTarget, Level, Open,
       Exit, ExitAt, Protected, Due, Target, Nearest, Locked

-----------------------------------------------------------------------------
(* The requests                                                            *)

\* What the leg-changing steps share: leg l moves, the others stand still.
LEMMA LegMoves ==
    ASSUME Inv, NEW l \in Sent, NEW e \in LegRecord,
           UNCHANGED <<market, verdict, phase, last, low>>, faulty' \in {faulty, TRUE},
           leg' = [leg EXCEPT ![l] = e], todo' \subseteq todo, l \notin todo',
           e.at \in {"open", "stop"} => e.sl \in Int, e.at = "stop" => e.trigger \in Int,
           \/ job' = None /\ (job = None => todo \subseteq todo' \cup {l})
                          /\ (job # None => job.leg = l /\ todo' = todo)
           \/ job' = job /\ job = None /\ todo \subseteq todo' \cup {l},
           phase # "idle",
           l \in last.legs /\ Locked(l) =>
               e.at \in {"open", "closed"} /\ (e.at = "open" /\ ~faulty' => Protected(l)')
    PROVE  Inv'
<1> USE DEF Inv
<1>1. /\ UNCHANGED <<side, trailOpen, bid, clock, verdict, phase, last, low>> /\ job' = None
      /\ \A x \in Sent : leg'[x] = IF x = l THEN e ELSE leg[x]
  BY DEF market, Typed
<1>2. Typed'
  BY <1>1, NoneIsIdle DEF Typed
<1>3. Steered'
  BY <1>1, NoneIsIdle DEF Steered, Typed
<1>4. Tightening'
  <2>1. \A x \in Sent : Asked(x)' = Asked(x)
    BY <1>1 DEF Asked, Wanted, LockTarget, Level
  <2> QED BY <1>1, <2>1, NoneIsIdle DEF Tightening, Typed, Open
<1>5. Caught'
  <2>1. \A x \in Sent : /\ Due(x)' = Due(x) /\ Locked(x)' = Locked(x)
                        /\ x # l => Protected(x)' = Protected(x) /\ Open(x)' = Open(x)
    BY <1>1 DEF Due, Protected, Target, Nearest, Locked, Level, Open
  <2>2. Exit' = Exit
    BY <1>1 DEF Exit, ExitAt
  <2>3. ASSUME NEW x \in last.legs, Locked(x)
        PROVE  /\ leg'[x].at \in {"open", "closed"}
               /\ Open(x)' /\ ~faulty' => (phase = "late" /\ x \in todo') \/ Protected(x)'
    <3>1. x \in Sent
      BY DEF Typed
    <3>2. CASE x = l
      BY <1>1, <2>3, <3>2 DEF Open
    <3>3. CASE x # l
      <4>1. /\ leg[x].at \in {"open", "closed"} /\ leg'[x] = leg[x]
            /\ Open(x)' = Open(x) /\ Protected(x)' = Protected(x)
        BY <1>1, <2>1, <2>3, <3>1, <3>3 DEF Caught
      <4>2. SUFFICES ASSUME Open(x), ~faulty
                     PROVE  (phase = "late" /\ x \in todo') \/ Protected(x)
        <5>1. ~faulty' => ~faulty
          OBVIOUS
        <5> QED BY <4>1, <5>1
      <4>3. \/ phase = "late" /\ x \in todo
            \/ job.leg = x /\ job.kind \in {"close", "sltp"}
            \/ Protected(x)
        BY <2>3, <4>2 DEF Caught
      <4> QED BY <3>3, <4>3, NoneIsIdle
    <3> QED BY <3>2, <3>3
  <2> QED BY <1>1, <2>1, <2>2, <2>3 DEF Caught, Typed
<1> QED BY <1>2, <1>3, <1>4, <1>5

\* A request that leaves its leg alone costs the cycle its promise, or was about a leg
\* that is owed nothing.
LEMMA JobEnds ==
    ASSUME Inv, job # None, UNCHANGED <<market, leg, verdict, phase, todo, last, low>>,
           faulty' \in {faulty, TRUE},
           job' = None \/ (job' \in Job /\ job'.kind = "close" /\ job'.leg = job.leg),
           faulty' \/ ~Open(job.leg) \/ ~Locked(job.leg)
    PROVE  Inv'
<1> USE DEF Inv
<1>1. UNCHANGED <<side, trailOpen, bid, clock, leg, verdict, phase, todo, last, low>>
  BY DEF market
<1>2. Typed'
  BY <1>1, NoneIsIdle DEF Typed
<1>3. Steered'
  BY <1>1, NoneIsIdle DEF Steered
<1>4. Tightening'
  <2>1. \A x \in Sent : Asked(x)' = Asked(x) /\ Open(x)' = Open(x)
    BY <1>1 DEF Asked, Wanted, LockTarget, Level, Open
  <2> QED BY <1>1, <2>1, NoneIsIdle DEF Tightening, Typed
<1>5. Caught'
  <2>1. \A x \in Sent : /\ Due(x)' = Due(x) /\ Locked(x)' = Locked(x)
                        /\ Protected(x)' = Protected(x) /\ Open(x)' = Open(x)
    BY <1>1 DEF Due, Protected, Target, Nearest, Locked, Level, Open
  <2>2. Exit' = Exit
    BY <1>1 DEF Exit, ExitAt
  <2>6. ~faulty' => ~faulty
    OBVIOUS
  <2>3. ASSUME NEW x \in last.legs, Locked(x), Open(x), ~faulty'
        PROVE  (phase = "late" /\ x \in todo) \/ Protected(x)
    <3>1. \/ phase = "late" /\ x \in todo
          \/ job.leg = x
          \/ Protected(x)
      BY <2>6, <2>3 DEF Caught
    <3> QED BY <2>3, <3>1
  <2>4. \A x \in last.legs : Locked(x) => leg[x].at \in {"open", "closed"}
    BY DEF Caught
  <2>5. last'.legs = last.legs /\ last.legs \subseteq Sent
    BY <1>1 DEF Typed
  <2> QED BY <1>1, <2>1, <2>2, <2>3, <2>4, <2>5 DEF Caught
<1> QED BY <1>2, <1>3, <1>4, <1>5

\* A stop that goes through is at least what was due when it was asked for, or at the
\* closest level of now.
LEMMA SendStopKeeps ==
    ASSUME Inv, SendStop, NEW l, l = job.leg, NEW legal, legal = Clamp(job.price)
    PROVE  Inv'
<1> USE DEF Inv
<1> DEFINE e == [leg[l] EXCEPT !.sl = legal]
<1>1. /\ job # None /\ job \in Job /\ l \in Sent /\ job.price \in Int /\ phase # "idle"
      /\ job.kind = "sltp" /\ UNCHANGED <<market, verdict, phase, todo, last, low>>
  BY NoneIsIdle DEF SendStop, Typed, Steered, Job
<1>2. CASE Open(l) /\ legal # NoPrice /\ Works /\ job' = None /\ leg' = [leg EXCEPT ![l].sl = legal]
  <2>1. legal \in Int /\ legal \in {job.price, Away(side, Exit, -MinDist)}
    BY <1>1, <1>2, ClampOnlyLoosens
  <2>2. e \in LegRecord /\ e.at = "open" /\ e.sl = legal
    BY <1>1, <1>2, <2>1 DEF LegRecord, Typed, Price, Open
  <2>3. leg' = [leg EXCEPT ![l] = e] /\ leg' \in [Sent -> LegRecord]
        /\ leg'[l] = e /\ faulty' = faulty /\ l \notin todo
    BY <1>1, <1>2, <2>2 DEF Typed, Works, Steered
  <2>4. ASSUME l \in last.legs, Locked(l), ~faulty
        PROVE  Protected(l)'
    <3>1. Protected(l) \/ ~Beyond(side, Due(l), job.price)
      BY <1>1, <1>2, <2>3, <2>4 DEF Caught
    <3>2. phase = "late" /\ ~Beyond(side, low, Exit)
      BY <1>1, <2>4 DEF Steered, Locked, Caught
    <3>3. /\ Due(l)' = Due(l) /\ Target(l)' = Target(l) /\ side' = side
          /\ leg'[l].sl = legal
      BY <1>1, <2>2, <2>3 DEF Due, Target, Nearest, Level, market
    <3>4. Due(l) \in Int /\ Target(l) \in Int /\ Exit \in Int /\ low \in Int /\ Nearest \in Int /\ leg[l].sl \in Int
      BY <1>1, <1>2, PricesAreNumbers DEF Typed, Open
    <3>5. ~Beyond(side, Due(l), Nearest) /\ ~Beyond(side, Nearest, Away(side, Exit, -MinDist))
      BY <3>2, <3>4, DistancesAssumption DEF Due, Nearest, Looser, Beyond, Away, Typed, Sides
    <3>6. Beyond(side, job.price, leg[l].sl)
      BY <1>1, <1>2 DEF Tightening
    <3>7. CASE ~Beyond(side, Due(l), job.price)
      BY <1>1, <2>1, <3>3, <3>4, <3>5, <3>7, DistancesAssumption DEF Protected, Beyond, Away, Typed, Sides
    <3>8. CASE Protected(l)
      BY <1>1, <2>1, <3>3, <3>4, <3>5, <3>6, <3>8, DistancesAssumption DEF Protected, Beyond, Away, Typed, Sides
    <3> QED BY <3>1, <3>7, <3>8
  <2> HIDE DEF e
  <2>5. /\ UNCHANGED <<market, verdict, phase, last, low>> /\ job' = None /\ todo' = todo
        /\ faulty' \in {faulty, TRUE} /\ l \notin todo' /\ e.sl \in Int /\ e.at # "stop"
    BY <1>1, <1>2, <2>1, <2>2, <2>3
  <2> QED BY <1>1, <2>2, <2>3, <2>4, <2>5, LegMoves
<1>3. CASE /\ leg' = leg /\ faulty' = TRUE
           /\ job' = IF job.late THEN [job EXCEPT !.kind = "close"] ELSE None
  <2>1. job' = None \/ (job' \in Job /\ job'.kind = "close" /\ job'.leg = job.leg)
    BY <1>1, <1>3 DEF Job
  <2> QED BY <1>1, <1>3, <2>1, JobEnds
<1> QED BY <1>2, <1>3 DEF SendStop, Fails

LEMMA ClosedIsClosed == Closed \in LegRecord /\ Absent \in LegRecord
                        /\ Closed.at = "closed" /\ Absent.at = "none"
BY DEF Closed, Absent, LegRecord, Price, NoTime

LEMMA SendCloseKeeps ==
    ASSUME Inv, SendClose, NEW l, l = job.leg
    PROVE  Inv'
<1> USE DEF Inv
<1>1. /\ job # None /\ l \in Sent /\ job.kind = "close" /\ job' = None /\ l \notin todo /\ phase # "idle"
      /\ UNCHANGED <<market, verdict, phase, todo, last, low>>
  BY NoneIsIdle DEF SendClose, Typed, Steered, Job
<1>2. CASE Works /\ Open(l) /\ leg' = [leg EXCEPT ![l] = Closed]
  <2>1. /\ UNCHANGED <<market, verdict, phase, last, low>> /\ todo' = todo /\ faulty' = faulty
    BY <1>1, <1>2 DEF Works
  <2> QED BY <1>1, <1>2, <2>1, ClosedIsClosed, LegMoves
<1>3. CASE Works /\ ~Open(l) /\ leg' = leg
  BY <1>1, <1>3, JobEnds DEF Works
<1>4. CASE Fails /\ leg' = leg
  BY <1>1, <1>4, JobEnds DEF Fails
<1> QED BY <1>2, <1>3, <1>4 DEF SendClose

LEMMA SendMarketKeeps ==
    ASSUME Inv, SendMarket, NEW l, l = job.leg
    PROVE  Inv'
<1> USE DEF Inv
<1> DEFINE e == [leg[l] EXCEPT !.at = "open", !.price = Enter, !.how = "market",
                               !.sl = SlFrom(l, Enter), !.opened = clock]
<1>1. /\ job # None /\ l \in Sent /\ job' = None /\ l \notin todo /\ phase = "rearm" /\ ~Locked(l)
      /\ UNCHANGED <<market, verdict, phase, todo, last, low, faulty>>
  BY NoneIsIdle DEF SendMarket, Typed, Steered, Job, Locked
<1>2. CASE leg' = leg
  BY <1>1, <1>2, JobEnds
<1>3. CASE leg' = [leg EXCEPT ![l] = e]
  <2>1. SlFrom(l, Enter) \in Int /\ Enter \in Int
    BY <1>1, PricesAreNumbers DEF SlFrom, Away
  <2>2. leg[l] \in LegRecord /\ Enter \in Price /\ SlFrom(l, Enter) \in Price /\ clock \in Int
    BY <1>1, <2>1 DEF Typed, Price
  <2>3. e \in LegRecord /\ e.at = "open" /\ e.sl = SlFrom(l, Enter)
    BY <2>2 DEF LegRecord
  <2> HIDE DEF e
  <2>4. /\ UNCHANGED <<market, verdict, phase, last, low>> /\ todo' = todo /\ faulty' = faulty
    BY <1>1
  <2> QED BY <1>1, <1>3, <2>1, <2>3, <2>4, LegMoves
<1> QED BY <1>2, <1>3 DEF SendMarket

-----------------------------------------------------------------------------
(* Pending STOPs                                                           *)

LEMMA SlFromIsInt ==
    ASSUME Typed, NEW l \in Sent, NEW fill \in Int
    PROVE  SlFrom(l, fill) \in Int
BY PricesAreNumbers DEF SlFrom, Away

LEMMA CandidateIsPrice ==
    ASSUME Typed, NEW l \in Sent, Candidate(l) # NoPrice
    PROVE  Candidate(l) \in Int
BY PricesAreNumbers DEF Candidate, Away, Typed

LEMMA TrailPendingKeeps == ASSUME Inv, NEW l \in Sent, TrailPending(l) PROVE Inv'
<1> USE DEF Inv
<1> DEFINE trigger == Candidate(l)
           e == [leg[l] EXCEPT !.trigger = trigger, !.sl = SlFrom(l, trigger)]
<1>1. /\ phase = "pending" /\ job = None /\ l \in todo /\ Take(l, None)
      /\ UNCHANGED <<market, verdict, phase, job, last, low>>
  BY DEF TrailPending, Take
<1>2. CASE leg' = leg /\ faulty' \in {faulty, TRUE}
  <2>1. UNCHANGED <<market, leg, verdict, phase, last, low>>
    BY <1>1, <1>2
  <2> QED BY <1>1, <1>2, <2>1, NoneIsIdle, TakeKeeps
<1>3. CASE /\ leg[l].at = "stop" /\ trigger # NoPrice /\ Works
           /\ leg' = [leg EXCEPT ![l].trigger = trigger, ![l].sl = SlFrom(l, trigger)]
  <2>1. trigger \in Int /\ SlFrom(l, trigger) \in Int
    BY <1>3, CandidateIsPrice, SlFromIsInt
  <2>2. leg[l] \in LegRecord /\ trigger \in Price /\ SlFrom(l, trigger) \in Price /\ leg \in [Sent -> LegRecord]
    BY <2>1 DEF Typed, Price
  <2>3. e \in LegRecord /\ e.at = "stop" /\ e.trigger = trigger /\ e.sl = SlFrom(l, trigger)
    BY <1>3, <2>2 DEF LegRecord
  <2>4. leg' = [leg EXCEPT ![l] = e]
    BY <1>3, <2>2, <2>3
  <2>5. /\ UNCHANGED <<market, verdict, phase, last, low>> /\ todo' = todo \ {l} /\ faulty' = faulty /\ job' = None
    BY <1>1, <1>3 DEF Works, Take
  <2>6. ~(l \in last.legs /\ Locked(l))
    BY <1>3 DEF Caught
  <2> HIDE DEF e
  <2> QED BY <1>1, <2>1, <2>3, <2>4, <2>5, <2>6, LegMoves
<1> QED BY <1>2, <1>3 DEF TrailPending, Works, Fails

LEMMA RearmKeeps == ASSUME Inv, NEW l \in Sent, Rearm(l) PROVE Inv'
<1> USE DEF Inv
<1> DEFINE trigger == Candidate(l)
           e == [leg[l] EXCEPT !.at = "stop", !.trigger = trigger, !.sl = SlFrom(l, trigger)]
           j == [Work(l) EXCEPT !.kind = "market", !.price = trigger]
<1>1. /\ phase = "rearm" /\ job = None /\ l \in todo /\ todo' = todo \ {l} /\ ~Locked(l)
      /\ UNCHANGED <<market, verdict, phase, last, low>>
  BY DEF Rearm, Steered, Locked
<1>2. CASE Works /\ leg' = leg /\ job' = job
  <2>1. UNCHANGED <<market, leg, verdict, phase, last, low>> /\ Take(l, None) /\ faulty' = faulty
    BY <1>1, <1>2 DEF Take, Works
  <2> QED BY <1>1, <2>1, NoneIsIdle, TakeKeeps
<1>3. CASE trigger # NoPrice /\ Works /\ leg' = [leg EXCEPT ![l] = e] /\ job' = job
  <2>1. trigger \in Int /\ SlFrom(l, trigger) \in Int
    BY <1>3, CandidateIsPrice, SlFromIsInt
  <2>2. leg[l] \in LegRecord /\ trigger \in Price /\ SlFrom(l, trigger) \in Price
    BY <2>1 DEF Typed, Price
  <2>3. e \in LegRecord /\ e.at = "stop" /\ e.trigger = trigger /\ e.sl = SlFrom(l, trigger)
    BY <1>3, <2>2 DEF LegRecord
  <2> HIDE DEF e
  <2>5. /\ UNCHANGED <<market, verdict, phase, last, low>> /\ faulty' = faulty /\ job' = None
    BY <1>1, <1>3 DEF Works
  <2> QED BY <1>1, <1>3, <2>1, <2>3, <2>5, LegMoves
<1>4. CASE trigger # NoPrice /\ Fails /\ leg' = leg /\ job' = j
  <2>1. trigger \in Int
    BY <1>4, CandidateIsPrice
  <2>2. j \in Job /\ j # None /\ j.kind = "market" /\ j.leg = l /\ j.price = trigger
    BY <2>1 DEF Work, None, Job, Price
  <2> HIDE DEF j
  <2>3. UNCHANGED <<market, leg, verdict, phase, last, low>> /\ Take(l, j) /\ faulty' = TRUE
    BY <1>1, <1>4 DEF Take, Fails
  <2> QED BY <1>1, <2>1, <2>2, <2>3, TakeKeeps
<1> QED BY <1>2, <1>3, <1>4 DEF Rearm

-----------------------------------------------------------------------------
(* The cycle                                                               *)

\* Every leg a cycle finds open and ended on a lock is on its list.
LEMMA StartCycleKeeps == ASSUME Inv, StartCycle PROVE Inv'
<1> USE DEF Inv
<1>1. /\ UNCHANGED <<side, trailOpen, bid, clock, leg, job>> /\ job = None
      /\ phase' = "late" /\ low' = Exit /\ faulty' = FALSE
      /\ last' = [at |-> clock, legs |-> {x \in Sent : Open(x)}]
      /\ todo' = {x \in Sent : Open(x) /\ verdict'[x].status \notin {"PENDING", "OPEN", "TRAILING_STOP"}}
  BY DEF StartCycle, Idle, market
<1>2. verdict' \in [Sent -> Verdict]
  <2>0. PICK x \in Sent : \E w \in Later(verdict[x]) : verdict' = [verdict EXCEPT ![x] = w]
    BY DEF StartCycle
  <2>1. PICK w \in Later(verdict[x]) : verdict' = [verdict EXCEPT ![x] = w]
    BY <2>0
  <2>2. w \in Verdict
    <3>1. \A t \in TrailStops : Level(t) \in Price
      BY DistancesAssumption, PricesAreNumbers DEF Price
    <3> QED BY <2>1, <3>1 DEF Later, Verdict, Price
  <2> QED BY <2>1, <2>2 DEF Typed
<1>3. Exit \in Int /\ Exit' = Exit
  BY <1>1, PricesAreNumbers DEF Exit, ExitAt
<1>4. Typed'
  BY <1>1, <1>2, <1>3, NoneIsIdle DEF Typed, Phases
<1>5. Steered'
  BY <1>1, NoneIsIdle DEF Steered, Open
<1>6. Tightening'
  BY <1>1, NoneIsIdle DEF Tightening
<1>7. Caught'
  BY <1>1, <1>3 DEF Caught, Locked, Open, Beyond
<1> QED BY <1>4, <1>5, <1>6, <1>7

\* A list holds the legs its phase would move, at prices better than their stops.
LEMMA NextPhaseKeeps == ASSUME Inv, NextPhase PROVE Inv'
<1> USE DEF Inv
<1>1. /\ phase \in Phases \ {"idle"} /\ job = None /\ todo = {} /\ phase' = After[phase]
      /\ UNCHANGED <<side, trailOpen, bid, clock, verdict, job, last, low, faulty>>
      /\ todo' = TodoIn(phase') /\ phase' \in Phases \ {"late"}
  BY DEF NextPhase, market, Typed, Phases, After
<1>2. ASSUME NEW x \in Sent
      PROVE  leg'[x] = leg[x] \/ (leg[x].at = "stop" /\ leg'[x] = Absent /\ phase' = "time")
  BY DEF NextPhase, Typed
<1>3. leg' \in [Sent -> LegRecord] /\ (phase' # "time" => leg' = leg)
  BY ClosedIsClosed DEF NextPhase, Typed
<1>4. todo' \subseteq Sent
  BY <1>1 DEF TodoIn, Lockable
<1>5. Typed'
  BY <1>1, <1>2, <1>3, <1>4, ClosedIsClosed DEF Typed
<1>6. Steered'
  <2>1. CASE phase' \in {"tp1", "tp2"}
    <3>1. \A x \in todo' : Open(x) /\ verdict[x].status = "OPEN"
      BY <1>1, <2>1 DEF TodoIn, Lockable
    <3> QED BY <1>1, <1>3, <2>1, <3>1, NoneIsIdle DEF Steered, Open
  <2>2. CASE phase' = "trail"
    <3>1. \A x \in todo' : x \in Sent /\ Open(x) /\ verdict[x].status = "OPEN" /\ verdict[x].trail # NoPrice
      BY <1>1, <2>2 DEF TodoIn, Trailable
    <3>2. \A x \in todo' : verdict[x].trail \in Int
      BY <3>1 DEF Typed, Verdict, Price
    <3> QED BY <1>1, <1>3, <2>2, <3>1, <3>2, NoneIsIdle DEF Steered, Open
  <2>3. CASE phase' = "rearm"
    <3>1. \A x \in todo' : leg[x].at \in {"none", "closed"} /\ verdict[x].status \in {"PENDING", "OPEN"}
      BY <1>1, <2>3 DEF TodoIn
    <3> QED BY <1>1, <1>3, <2>3, <3>1, NoneIsIdle DEF Steered
  <2>4. CASE phase' \in {"idle", "time", "pending"}
    <3>1. phase' = "idle" => todo' = {}
      BY <1>1 DEF TodoIn
    <3> QED BY <1>1, <2>4, <3>1, NoneIsIdle DEF Steered
  <2> QED BY <1>1, <2>1, <2>2, <2>3, <2>4 DEF Phases
<1>7. Tightening'
  <2>1. SUFFICES ASSUME NEW x \in todo', phase' \in {"tp1", "tp2", "trail"}
                 PROVE  Beyond(side, Asked(x)', leg[x].sl)
    BY <1>1, <1>3, NoneIsIdle DEF Tightening
  <2>2. CASE phase' \in {"tp1", "tp2"}
    <3>1. Asked(x)' = LockTarget[phase']
      BY <1>1, <2>2 DEF Asked, LockTarget, Level
    <3> QED BY <1>1, <2>2, <3>1 DEF TodoIn, Lockable, Improves, LockTarget
  <2>3. CASE phase' = "trail"
    <3>1. Asked(x)' = Wanted(x)
      BY <1>1, <2>3 DEF Asked, Wanted, Level
    <3>2. x \in Sent /\ Open(x) /\ verdict[x].trail # NoPrice /\ Improves(Away(side, leg[x].sl, TrailStep), Wanted(x))
      BY <1>1, <2>3 DEF TodoIn, Trailable
    <3>3. leg[x].sl \in Int /\ verdict[x].trail \in Int
      BY <3>2 DEF Typed, Open, Verdict, Price
    <3>4. Wanted(x) \in Int
      BY <3>2, <3>3, PricesAreNumbers
    <3> QED BY <3>1, <3>2, <3>3, <3>4, DistancesAssumption DEF Improves, Beyond, Away, Typed, Sides
  <2> QED BY <2>1, <2>2, <2>3
<1>8. Caught'
  <2>1. \A x \in Sent : /\ Due(x)' = Due(x) /\ Locked(x)' = Locked(x)
                        /\ leg'[x] = leg[x] => Protected(x)' = Protected(x) /\ Open(x)' = Open(x)
    BY <1>1 DEF Due, Protected, Target, Nearest, Locked, Level, Open
  <2>2. Exit' = Exit
    BY <1>1 DEF Exit, ExitAt
  <2>3. ASSUME NEW x \in last.legs, Locked(x)
        PROVE  leg'[x] = leg[x] /\ leg[x].at \in {"open", "closed"} /\ (Open(x) /\ ~faulty => Protected(x))
    BY <1>1, <1>2, <2>3, NoneIsIdle DEF Caught, Typed
  <2>4. last.legs \subseteq Sent /\ ~Beyond(side, low, Exit)
    BY <1>1 DEF Typed, Caught
  <2> QED BY <1>1, <2>1, <2>2, <2>3, <2>4 DEF Caught
<1> QED BY <1>5, <1>6, <1>7, <1>8

-----------------------------------------------------------------------------
(* The theorems                                                            *)

LEMMA InitInv == Init => Inv
<1> SUFFICES ASSUME Init PROVE Inv
  OBVIOUS
<1>1. side \in Sides /\ trailOpen \in Nat
  BY DistancesAssumption DEF Init, Sides
<1>2. \A p \in Int : Level(p) \in Int
  BY <1>1, DistancesAssumption DEF Level
<1>3. bid \in Int /\ Exit \in Int
  BY <1>1, DistancesAssumption DEF Init, Exit, ExitAt
<1>4. \A x \in Sent : Planned(x) \in Int /\ Level(BaseSl[x]) \in Int
  BY <1>2, PlanAssumption DEF Planned
<1>5. leg \in [Sent -> LegRecord] /\ \A x \in Sent : leg[x].at \in {"open", "stop"} => leg[x].at = "open" /\ leg[x].sl \in Int
  BY <1>4, ClosedIsClosed DEF Init, LegRecord, Price
<1>6. Typed
  <2>1. verdict \in [Sent -> Verdict]
    BY DEF Init, Verdict, Price
  <2>2. job \in Job /\ job.kind = "none" /\ phase \in Phases /\ todo = {} /\ faulty \in BOOLEAN
    BY NoneIsIdle DEF Init, Phases
  <2>3. last.legs = {} /\ DOMAIN last = {"at", "legs"} /\ low \in Int /\ clock \in Int
    BY <1>3 DEF Init
  <2> QED BY <1>1, <1>3, <1>5, <2>1, <2>2, <2>3 DEF Typed
<1>7. Steered /\ Tightening /\ Caught
  BY NoneIsIdle DEF Init, Steered, Tightening, Caught
<1> QED BY <1>6, <1>7 DEF Inv

LEMMA StepInv == Inv /\ [Next]_vars => Inv'
<1> SUFFICES ASSUME Inv, [Next]_vars PROVE Inv'
  OBVIOUS
<1>1. ASSUME NEW b \in 0..MaxPrice, Tick(b) PROVE Inv'
  BY <1>1, TickKeeps
<1>2. CASE Minute
  BY <1>2, MinuteKeeps
<1>3. CASE StartCycle
  BY <1>3, StartCycleKeeps
<1>4. CASE NextPhase
  BY <1>4, NextPhaseKeeps
<1>5. CASE SendStop
  BY <1>5, SendStopKeeps
<1>6. CASE SendClose
  BY <1>6, SendCloseKeeps
<1>7. CASE SendMarket
  BY <1>7, SendMarketKeeps
<1>8. ASSUME NEW l \in Sent,
             \/ LateLock(l) \/ CatchUp(l) \/ Lock(l) \/ CloseTimedOut(l)
             \/ TrailPending(l) \/ Rearm(l) \/ Trail(l)
      PROVE  Inv'
  BY <1>8, LateLockKeeps, CloseKeeps, AskKeeps, TrailPendingKeeps, RearmKeeps
<1>9. CASE UNCHANGED vars
  BY <1>9 DEF vars, Inv, Typed, Steered, Tightening, Caught, Asked, Wanted, LockTarget, Level, Open,
       Exit, ExitAt, Protected, Due, Target, Nearest, Locked
<1> QED BY <1>1, <1>2, <1>3, <1>4, <1>5, <1>6, <1>7, <1>8, <1>9 DEF Next

LEMMA AlwaysInv == Spec => []Inv
BY InitInv, StepInv, PTL DEF Spec

\* Whatever request is sent, and however the price moved while it was on its way: at a
\* broker without a stops level the price it carries is the price it was asked for, and
\* that one was better than the stop.
LEMMA StepTightens ==
    ASSUME Inv, MinDist = 0, [Next]_vars, NEW l \in Sent, Open(l), Open(l)'
    PROVE  ~Beyond(side, leg[l].sl, leg'[l].sl)
<1> USE DEF Inv
<1>1. /\ leg \in [Sent -> LegRecord] /\ leg[l].sl \in Int /\ ~Beyond(side, leg[l].sl, leg[l].sl)
      /\ leg[l].at = "open" /\ leg'[l].at = "open"
  BY DEF Typed, Open, Beyond, Sides
<1>2. CASE leg'[l] = leg[l]
  BY <1>1, <1>2
<1>3. ASSUME NEW b \in 0..MaxPrice, Tick(b)
      PROVE  leg'[l] = leg[l]
  BY <1>1, <1>3, ClosedIsClosed DEF Tick, AfterTick, Triggered
<1>4. ASSUME SendStop PROVE leg'[l] = leg[l] \/ ~Beyond(side, leg[l].sl, leg'[l].sl)
  <2>1. CASE leg' = leg
    BY <2>1
  <2>2. CASE Open(job.leg) /\ Clamp(job.price) # NoPrice /\ leg' = [leg EXCEPT ![job.leg].sl = Clamp(job.price)]
    <3>1. job.price \in Int /\ Clamp(job.price) = job.price
      BY <1>4, <2>2, ClampOnlyLoosens DEF SendStop, Typed
    <3>2. Beyond(side, job.price, leg[job.leg].sl)
      BY <1>4, <2>2 DEF SendStop, Tightening
    <3>3. job.leg # l => leg'[l] = leg[l]
      BY <1>1, <2>2
    <3>4. job.leg = l => leg'[l].sl = job.price
      BY <1>1, <2>2, <3>1 DEF LegRecord
    <3> QED BY <1>1, <3>1, <3>2, <3>3, <3>4 DEF Beyond, Typed, Sides
  <2> QED BY <1>4, <2>1, <2>2 DEF SendStop
<1>5. ASSUME SendClose PROVE leg'[l] = leg[l]
  BY <1>1, <1>5, ClosedIsClosed DEF SendClose, Typed
<1>6. ASSUME SendMarket PROVE leg'[l] = leg[l]
  BY <1>1, <1>6 DEF SendMarket, Steered
<1>7. ASSUME NextPhase PROVE leg'[l] = leg[l]
  BY <1>1, <1>7 DEF NextPhase
<1>8. ASSUME NEW x \in Sent, TrailPending(x) PROVE leg'[l] = leg[l]
  BY <1>1, <1>8 DEF TrailPending
<1>9. ASSUME NEW x \in Sent, Rearm(x) PROVE leg'[l] = leg[l]
  BY <1>1, <1>9 DEF Rearm, Steered
<1>10. ASSUME NEW x \in Sent, LateLock(x) \/ CatchUp(x) \/ Lock(x) \/ CloseTimedOut(x) \/ Trail(x)
       PROVE  leg' = leg
  BY <1>10 DEF LateLock, CatchUp, Lock, CloseTimedOut, Trail
<1>11. ASSUME Minute \/ StartCycle \/ UNCHANGED vars PROVE leg' = leg
  BY <1>11 DEF Minute, StartCycle, vars
<1> QED BY <1>2, <1>3, <1>4, <1>5, <1>6, <1>7, <1>8, <1>9, <1>10, <1>11 DEF Next

\* _lock_improves, _modify_stop: while the broker asks for no distance, no request loosens
\* a stop.  With a stops level one may: the level is checked against the price asked for
\* and the clamp applies to the price of now (LiveStops.StopNeverLoosens is then violated).
THEOREM StopsOnlyTighten ==
    ASSUME MinDist = 0
    PROVE  Spec => StopNeverLoosens
<1>1. Inv /\ [Next]_vars =>
        [\A l \in Sent : Open(l) /\ Open(l)' => ~Beyond(side, leg[l].sl, leg'[l].sl)]_vars
  BY StepTightens
<1> QED BY <1>1, AlwaysInv, PTL DEF Spec, StopNeverLoosens

\* _late_lock_or_close: a cycle in which nothing failed leaves each leg the replay had
\* ended on a lock closed, or stopped as close to that lock as the worst quote meanwhile
\* allowed, at any stops level of the broker.
THEOREM LateLegsAreProtected == Spec => []CatchUpProtects
<1>1. Inv => CatchUpProtects
  BY NoneIsIdle DEF Inv, Caught, Steered, Idle, Protected, Due, Nearest, Locked, CatchUpProtects
<1> QED BY <1>1, AlwaysInv, PTL

=============================================================================
