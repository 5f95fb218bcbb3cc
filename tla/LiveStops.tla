------------------------------ MODULE LiveStops ------------------------------
(***************************************************************************)
(* The live executor's manage pass over one signal, with prices: catch-up  *)
(* locks, TP1/TP2 locks, the time exit, the trailing of pending STOPs and  *)
(* of stops, every one a request to a broker whose price moves between any *)
(* two calls (mt5_executor_live, mt5_executor_trailing, sl_safety).        *)
(*                                                                         *)
(* What the replay says of a leg is an input: any verdict that only moves  *)
(* forward.  Prices are integers and the tolerance of one digit is finer   *)
(* than a unit, so it does not appear.                                     *)
(***************************************************************************)
EXTENDS LifecycleOps

CONSTANTS Sent,                \* the legs of the ladder that were placed
          Entry, BaseSl, Tp,   \* the BUY plan: per leg, and TP1, TP2
          Books,               \* the sides, with their trailing_open_distance (0: no pending STOPs)
          TrailStops,              \* the trailing stops the replay may ask for
          Lock2,               \* lock_after_tp2
          Buffer, MinStep,     \* LATE_LOCK_FALLBACK_BUFFER, LATE_LOCK_MIN_STEP
          TrailStep,           \* trailing_close_min_step
          MinDist,             \* the broker's stops/freeze level
          Spread, MaxPrice, MaxHold,
          MaxClock, MaxErrors  \* bounds

ASSUME DistancesAssumption ==
    /\ {Buffer, TrailStep, MinDist, Spread, MaxHold} \subseteq Nat /\ MinStep \in Nat \ {0}
    /\ TrailStops \subseteq Int /\ Books \subseteq {"BUY", "SELL"} \X Nat
    /\ {MaxPrice, MaxClock, MaxErrors} \subseteq Nat
ASSUME SentAssumption == Sent \subseteq Legs /\ 0 \in Sent
ASSUME PlanAssumption == Entry \in [Sent -> Int] /\ BaseSl \in [Sent -> Int] /\ Tp \in [1..2 -> Int]

VARIABLES side, trailOpen,  \* fixed
          bid, clock,
          leg,       \* the broker's side of each leg
          verdict,   \* the replay's side of each leg
          deadline,  \* the replay's time-exit deadline, NoTime when it saw no fill
          phase, todo, job,
          last,      \* history: when the last cycle began and the legs it found open
          low,       \* history: the worst exit quote while it ran
          faulty,    \* history: something failed since then
          errors

market == <<side, trailOpen, bid, clock>>
vars == <<side, trailOpen, bid, clock, leg, verdict, deadline, phase, todo, job, last, low, faulty, errors>>

\* A position closes and opens at the quotes of its own side.
ExitAt(b)  == IF side = "BUY" THEN b ELSE b + Spread
EnterAt(b) == IF side = "BUY" THEN b + Spread ELSE b
Exit  == ExitAt(bid)
Enter == EnterAt(bid)

\* A SELL is the same plan mirrored.
Level(p)   == IF side = "BUY" THEN p ELSE MaxPrice - p
Planned(l) == Level(Entry[l])

Absent == [at |-> "none", price |-> NoPrice, sl |-> NoPrice, trigger |-> NoPrice,
           opened |-> NoTime, how |-> "none"]
Closed == [Absent EXCEPT !.at = "closed"]

Open(l) == leg[l].at = "open"
None    == [leg |-> 0, kind |-> "none", price |-> NoPrice, late |-> FALSE]
Idle    == phase = "idle" /\ job = None

Fails == errors < MaxErrors /\ errors' = errors + 1 /\ faulty' = TRUE
Works == UNCHANGED <<errors, faulty>>

-----------------------------------------------------------------------------
(* The market and the broker                                               *)

Stopped(e, b)   == e.at = "open" /\ ~Beyond(side, ExitAt(b), e.sl)
Triggered(e, b) == e.at = "stop" /\ ~Beyond(side, e.trigger, EnterAt(b))

AfterTick(l, b) ==
    LET e == leg[l] IN
    IF Stopped(e, b) THEN Closed
    ELSE IF Triggered(e, b)
    THEN [e EXCEPT !.at = "open", !.price = EnterAt(b), !.opened = clock,
                   !.trigger = NoPrice, !.how = "trigger"]
    ELSE e

\* Between two phases nobody looks at the price: a tick there is one before the next request.
Tick(b) ==
    /\ Idle \/ job # None \/ todo # {}
    /\ bid' = b
    /\ leg' = [l \in Sent |-> AfterTick(l, b)]
    /\ low' = IF phase = "idle" THEN low ELSE Looser(side, low, ExitAt(b))
    /\ UNCHANGED <<side, trailOpen, clock, verdict, deadline, phase, todo, job, last, faulty, errors>>

Minute ==
    /\ Idle /\ clock < MaxClock
    /\ clock' = clock + 1
    /\ UNCHANGED <<side, trailOpen, bid, leg, verdict, deadline, phase, todo, job, last, low, faulty, errors>>

-----------------------------------------------------------------------------
(* Broker-legal stops                                                      *)

\* clamp_sltp_sl: at least MinDist from the exit quote, NoPrice when not beyond it.
Clamp(sl) ==
    LET legal == Looser(side, sl, Away(side, Exit, -MinDist))
    IN  IF Beyond(side, Exit, legal) THEN legal ELSE NoPrice

FaultyImproves(current, sl) == sl # current
Improves(current, sl) == Beyond(side, sl, current)

-----------------------------------------------------------------------------
(* One cycle                                                               *)

MinOf(S) == CHOOSE t \in S : \A u \in S : t <= u
FirstOpen == {leg[l].opened : l \in {x \in Sent : Open(x)}}

\* The replay of this cycle: fills, locks and trails it may report, never taken back.
Later(v) ==
    {w \in [status : {"PENDING", "OPEN", "LOCK_TP1", "LOCK_TP2", "TRAILING_STOP", "OTHER"},
            stage : 0..2, trail : {Level(t) : t \in TrailStops} \cup {NoPrice}] :
        /\ v.status \notin {"PENDING", "OPEN"} => w = v
        /\ v.status = "OPEN" => w.status # "PENDING"
        /\ w.stage >= v.stage
        /\ w.trail # v.trail => w.trail # NoPrice /\ w.status = "OPEN"
                                /\ (v.trail = NoPrice \/ Beyond(side, w.trail, v.trail))
        /\ w.status = "PENDING" => w.stage = 0 /\ w.trail = NoPrice
        /\ w.status = "LOCK_TP1" => w.stage = 1
        /\ w.status = "TRAILING_STOP" => w.trail # NoPrice
        /\ w.status = "LOCK_TP2" => w.stage = 2 /\ Lock2}

StartCycle ==
    /\ Idle
    /\ \E l \in Sent : \E w \in Later(verdict[l]) : verdict' = [verdict EXCEPT ![l] = w]
    \* reconcile_with_mt5 sets the deadline from the earliest fill, unless it has to skip
    /\ deadline' \in {NoTime} \cup {MinOf(FirstOpen) + MaxHold : t \in FirstOpen}
    /\ phase' = "late"
    \* _REPLAY_CLOSED_STATUSES does not name TRAILING_STOP
    /\ todo' = {l \in Sent : Open(l) /\ verdict'[l].status
                                        \notin {"PENDING", "OPEN", "TRAILING_STOP"}}
    /\ last' = [at |-> clock, legs |-> {l \in Sent : Open(l)}]
    /\ low' = Exit /\ faulty' = FALSE
    /\ UNCHANGED <<market, leg, job, errors>>

Work(l) == [None EXCEPT !.leg = l]
Take(l, j) == job' = j /\ todo' = todo \ {l}

Target(l) == IF verdict[l].status = "LOCK_TP1" THEN Level(Tp[1]) ELSE Level(Tp[2])
Desired(l) == Looser(side, Target(l), Away(side, Exit, -Buffer))

InProfit(l) == Beyond(side, Exit, leg[l].price)

\* Through the lock, in profit, and the only stop left would sit below the entry.
TooThin(l) ==
    /\ Beyond(side, Target(l), Desired(l))
    /\ InProfit(l)
    /\ Beyond(side, leg[l].price, Desired(l))

\* The ratchet is throttled off the target, never at it.
FaultyWorthSending(l, sl) == Distance(sl, leg[l].sl) >= MinStep
WorthSending(l, sl) == sl = Target(l) \/ Distance(sl, leg[l].sl) >= MinStep

\* _late_lock_or_close up to the request it sends.
LateLock(l) ==
    /\ phase = "late" /\ job = None /\ l \in todo
    /\ verdict[l].status # "OTHER"
    /\ \/ Fails /\ Take(l, None)                        \* no tick
       \/ /\ Works
          /\ IF ~Open(l) THEN Take(l, None)    \* every request about it is rejected
             ELSE IF TooThin(l) \/ Clamp(Desired(l)) = NoPrice
             THEN Take(l, [Work(l) EXCEPT !.kind = "close", !.late = TRUE])
             ELSE LET legal == Clamp(Desired(l)) IN
                  IF Improves(leg[l].sl, legal) /\ WorthSending(l, legal)
                  THEN Take(l, [Work(l) EXCEPT !.kind = "sltp", !.price = legal, !.late = TRUE])
                  ELSE Take(l, None)
    /\ UNCHANGED <<market, leg, verdict, deadline, phase, last, low>>

\* A leg the replay ended in any other way is closed at market.
CatchUp(l) ==
    /\ phase = "late" /\ job = None /\ l \in todo
    /\ verdict[l].status = "OTHER"
    /\ Take(l, [Work(l) EXCEPT !.kind = "close"])
    /\ UNCHANGED <<market, leg, verdict, deadline, phase, last, low, faulty, errors>>

LockTarget == [tp1 |-> Level(Tp[1]), tp2 |-> Level(Tp[2])]

\* The legs a lock phase moves, and whether its price improves the stop: judged on the
\* requested level, not on the one the broker will be sent.
Lockable(n) ==
    {l \in Sent : Open(l) /\ verdict[l].status = "OPEN" /\ verdict[l].stage >= n
                  /\ Improves(leg[l].sl, Level(Tp[n]))}

Lock(l) ==
    /\ phase \in {"tp1", "tp2"} /\ job = None /\ l \in todo
    /\ Take(l, [Work(l) EXCEPT !.kind = "sltp", !.price = LockTarget[phase]])
    /\ UNCHANGED <<market, leg, verdict, deadline, phase, last, low, faulty, errors>>

\* _modify_stop: clamped again, at the price of now.
SendStop ==
    /\ job.kind = "sltp"
    /\ LET l      == job.leg
           legal  == Clamp(job.price)
           \* a late lock that could not be set is closed instead
           failed == IF job.late THEN [job EXCEPT !.kind = "close"] ELSE None
       IN  IF Open(l) /\ legal # NoPrice
           THEN \/ Works /\ job' = None /\ leg' = [leg EXCEPT ![l].sl = legal]
                \/ Fails /\ job' = failed /\ UNCHANGED leg
           ELSE /\ job' = failed /\ faulty' = TRUE
                /\ UNCHANGED <<leg, errors>>
    /\ UNCHANGED <<market, verdict, deadline, phase, todo, last, low>>

SendClose ==
    /\ job.kind = "close"
    /\ job' = None
    /\ \/ /\ Works
          /\ leg' = IF Open(job.leg)
                    THEN [leg EXCEPT ![job.leg] = Closed] ELSE leg
       \/ Fails /\ UNCHANGED leg
    /\ UNCHANGED <<market, verdict, deadline, phase, todo, last, low>>

-----------------------------------------------------------------------------
(* The time exit                                                           *)

\* Without a deadline from the replay, the earliest live fill bounds the hold.
TimeOut ==
    \/ deadline # NoTime /\ clock >= deadline
    \/ deadline = NoTime /\ FirstOpen # {} /\ clock >= MinOf(FirstOpen) + MaxHold

CloseTimedOut(l) ==
    /\ phase = "time" /\ job = None /\ l \in todo
    /\ Take(l, [Work(l) EXCEPT !.kind = "close"])
    /\ UNCHANGED <<market, leg, verdict, deadline, phase, last, low, faulty, errors>>

-----------------------------------------------------------------------------
(* Pending STOPs                                                           *)

\* _candidate_trailing_open_price: only once the quote is trailOpen past the entry.
Candidate(l) ==
    IF Beyond(side, Enter, Away(side, Planned(l), -trailOpen)) THEN NoPrice
    ELSE Away(side, Enter, trailOpen)

SlFrom(l, fill) == Away(side, fill, -(Entry[l] - BaseSl[l]))

\* _trail_pending_open_orders: the trigger follows the dip, never back.
TrailPending(l) ==
    /\ phase = "pending" /\ job = None /\ l \in todo
    /\ todo' = todo \ {l}
    /\ LET trigger == Candidate(l)
           moves   == /\ leg[l].at = "stop" /\ trigger # NoPrice
                      /\ Beyond(side, leg[l].trigger, trigger)
       IN  IF moves
           THEN \/ Works /\ leg' = [leg EXCEPT ![l].trigger = trigger, ![l].sl = SlFrom(l, trigger)]
                \/ Fails /\ UNCHANGED leg
           ELSE Works /\ UNCHANGED leg
    /\ UNCHANGED <<market, verdict, deadline, phase, job, last, low>>

\* _rearm_trailing_open_legs, for a leg the replay holds and the broker does not.
Rearm(l) ==
    /\ phase = "rearm" /\ job = None /\ l \in todo
    /\ todo' = todo \ {l}
    /\ LET trigger == Candidate(l) IN
       IF trigger = NoPrice THEN Works /\ UNCHANGED <<leg, job>>
       ELSE \/ /\ Works
               /\ leg' = [leg EXCEPT ![l] = [@ EXCEPT !.at = "stop", !.trigger = trigger,
                                                      !.sl = SlFrom(l, trigger)]]
               /\ UNCHANGED job
            \/ /\ Fails
               /\ job' = [Work(l) EXCEPT !.kind = "market", !.price = trigger]
               /\ UNCHANGED leg
    /\ UNCHANGED <<market, verdict, deadline, phase, last, low>>

FillsAtMarket(l, trigger) ==
    ~Beyond(side, trigger, Enter) /\ ~Beyond(side, Enter, Planned(l))

\* The STOP was rejected: at market if price is through the trigger by now, and never
\* worse than the planned entry.
SendMarket ==
    /\ job.kind = "market"
    /\ job' = None
    /\ leg' = IF FillsAtMarket(job.leg, job.price)
              THEN [leg EXCEPT ![job.leg] =
                       [@ EXCEPT !.at = "open", !.price = Enter, !.how = "market",
                                 !.sl = SlFrom(job.leg, Enter), !.opened = clock]]
              ELSE leg
    /\ UNCHANGED <<market, verdict, deadline, phase, todo, last, low, faulty, errors>>

-----------------------------------------------------------------------------
(* Trailing stops                                                          *)

Wanted(l) == Tighter(side, verdict[l].trail, Level(BaseSl[l]))

\* _apply_trailing_close_stops: in profit against the real fill, and worth a step.
Trailable(l) ==
    /\ Open(l) /\ verdict[l].status = "OPEN" /\ verdict[l].trail # NoPrice
    /\ Beyond(side, Wanted(l), leg[l].price)
    /\ Improves(Away(side, leg[l].sl, TrailStep), Wanted(l))

Trail(l) ==
    /\ phase = "trail" /\ job = None /\ l \in todo
    /\ Take(l, [Work(l) EXCEPT !.kind = "sltp", !.price = Wanted(l)])
    /\ UNCHANGED <<market, leg, verdict, deadline, phase, last, low, faulty, errors>>

-----------------------------------------------------------------------------

\* Positions are read again before TP2, before the time exit and before the trails.
TodoIn(p) ==
    CASE p = "tp1"     -> Lockable(1)
      [] p = "tp2"     -> IF Lock2 THEN Lockable(2) ELSE {}
      [] p = "time"    -> IF TimeOut THEN {l \in Sent : Open(l)} ELSE {}
      [] p = "pending" -> {l \in Sent : leg[l].at = "stop"}
      [] p = "trail"   -> {l \in Sent : Trailable(l)}
      [] p = "rearm"   -> {l \in Sent : trailOpen > 0 /\ leg[l].at \in {"none", "closed"}
                                        /\ verdict[l].status \in {"PENDING", "OPEN"}}
      [] OTHER         -> {}

After == [late |-> "tp1", tp1 |-> "tp2", tp2 |-> "time", time |-> "pending",
          pending |-> "trail", trail |-> "rearm", rearm |-> "idle"]

NextPhase ==
    /\ phase # "idle" /\ job = None /\ todo = {}
    /\ phase' = After[phase]
    /\ todo' = TodoIn(After[phase])
    \* pending orders go with the time exit
    /\ leg' = IF phase' = "time" /\ TimeOut
              THEN [l \in Sent |-> IF leg[l].at = "stop" THEN Absent ELSE leg[l]]
              ELSE leg
    /\ UNCHANGED <<market, verdict, deadline, job, last, low, faulty, errors>>

Init ==
    /\ \E k \in Books : side = k[1] /\ trailOpen = k[2]
    /\ bid \in 0..MaxPrice /\ clock = 0
    /\ leg = [l \in Sent |->
                IF trailOpen > 0
                THEN Absent
                ELSE [at |-> "open", price |-> Planned(l), sl |-> Level(BaseSl[l]),
                      trigger |-> NoPrice, opened |-> 0, how |-> "limit"]]
    /\ \A l \in Sent : Open(l) => Beyond(side, Exit, leg[l].sl)
    /\ verdict = [l \in Sent |-> [status |-> "PENDING", stage |-> 0, trail |-> NoPrice]]
    /\ deadline = NoTime
    /\ phase = "idle" /\ todo = {} /\ job = None
    /\ last = [at |-> NoTime, legs |-> {}] /\ low = Exit /\ faulty = FALSE /\ errors = 0

Next ==
    \/ \E b \in 0..MaxPrice : Tick(b)
    \/ Minute \/ StartCycle \/ NextPhase \/ SendStop \/ SendClose \/ SendMarket
    \/ \E l \in Sent : \/ LateLock(l) \/ CatchUp(l) \/ Lock(l) \/ CloseTimedOut(l)
                       \/ TrailPending(l) \/ Rearm(l) \/ Trail(l)

Spec == Init /\ [][Next]_vars

-----------------------------------------------------------------------------
(* Properties                                                              *)

\* _lock_improves: "the executor never loosens broker-side protection".  A lock, a
\* late lock, a ratchet or a trail leaves an open leg's stop where it was or tighter,
\* at whatever price the request is sent.
StopNeverLoosens ==
    [][\A l \in Sent : Open(l) /\ Open(l)' => ~Beyond(side, leg[l].sl, leg'[l].sl)]_vars

\* _late_lock_or_close: a leg the replay ended on a lock and a cycle found open is not
\* left riding to its original stop: once the cycle is over it is closed or stopped at the
\* lock, or within a ratchet step of the closest level the worst quote meanwhile allowed.
CatchUpProtects ==
    \A l \in last.legs :
        (/\ Idle /\ ~faulty /\ Open(l) /\ verdict[l].status \in {"LOCK_TP1", "LOCK_TP2"})
        => LET nearest == Away(side, low, -(IF Buffer > MinDist THEN Buffer ELSE MinDist))
               reached == Looser(side, Target(l), nearest)
           IN  IF reached = Target(l) THEN ~Beyond(side, reached, leg[l].sl)
               ELSE Beyond(side, leg[l].sl, Away(side, reached, -MinStep))

=============================================================================
