---------------------------- MODULE Reconciliation ----------------------------
(***************************************************************************)
(* What a live cycle believes of a tracked signal: the replay of the chart *)
(* from where it was executed (_replay_tracked_signal), patched with the   *)
(* positions the broker holds and advanced again from the earliest of them *)
(* (reconcile_with_mt5).  Nothing of it is kept between two cycles, so a   *)
(* verdict is a function of the chart and of the broker's book.            *)
(*                                                                         *)
(* A bar starts at an even time; the broker fills between two bar starts,  *)
(* at an odd one.                                                          *)
(***************************************************************************)
EXTENDS LifecycleOps, Sequences, FiniteSetsExt

CONSTANTS Plans, BarShapes,
          Slips,      \* by how much a fill may be better than planned
          Delays,     \* how long after its activation the signal may be executed
          MaxBars     \* bound

ASSUME SlipsAssumption == Slips \subseteq Nat /\ Delays \subseteq Nat /\ MaxBars \in Nat

VARIABLES plan,
          executed,   \* when the ladder was placed: the replay starts there
          chart,      \* the bars so far
          broker      \* per leg: the position the broker holds or held

beliefVars == <<plan, executed, chart, broker>>

Unfilled == [live |-> FALSE, price |-> NoPrice, fill |-> NoTime]
LiveLegs == {l \in Legs : broker[l].live}

LastBar == chart[Len(chart)]
Now     == IF chart = <<>> THEN plan.activation - 2 ELSE LastBar.time

-----------------------------------------------------------------------------
(* The replay                                                              *)

\* advance_bars looks at is_terminal only after a bar.
Advance(p, b) == IF p.last # NoTime /\ IsTerminal(p) THEN p ELSE AdvanceOneBar(plan, p, b)

\* advance_bars over chart.bars_between(t, now), both ends included.
AdvanceFrom(p, t) ==
    LET run[k \in 0..Len(chart)] ==
            IF k = 0 THEN [p EXCEPT !.last = NoTime]
            ELSE IF chart[k].time < t THEN run[k - 1] ELSE Advance(run[k - 1], chart[k])
    IN  run[Len(chart)]

ReplayTracked == AdvanceFrom(OpenPosition(plan), executed)

-----------------------------------------------------------------------------
(* The patch                                                               *)

NeedsPatch(e, at) ==
    e.status \in {"PENDING", "NO_FILL"} \/ e.fill # at.fill \/ e.price # at.price

\* _REPLAY_CLOSED_STATUSES: a slot closed this way is left alone.
ReplayClosed == Terminal \ {"NO_FILL", "TRAILING_STOP"}

FaultySlotOf(l) ==   \* in the order they filled
    Cardinality({m \in LiveLegs : broker[m].fill < broker[l].fill
                                  \/ (broker[m].fill = broker[l].fill /\ m < l)})

\* The comment of a position names the slot it was sent for.
SlotOf(l) == l

Patched(e, at) == [e EXCEPT !.status = "OPEN", !.price = at.price, !.fill = at.fill]

ToPatch(p) == {l \in LiveLegs : /\ p.leg[SlotOf(l)].status \notin ReplayClosed
                                /\ NeedsPatch(p.leg[SlotOf(l)], broker[l])}

PatchLegs(p, legs) ==
    [p EXCEPT !.leg = [s \in Legs |->
        IF \E l \in legs : SlotOf(l) = s
        THEN Patched(@[s], broker[CHOOSE l \in legs : SlotOf(l) = s]) ELSE @[s]]]

Fills(p) == {p.leg[l].fill : l \in Legs} \ {NoTime}

\* The max-hold clock starts again from the earliest fill there is.
WithFirstFill(p) == [p EXCEPT !.firstFill = Min(Fills(p))]

Reconcile(p) ==
    LET legs == ToPatch(p) IN
    IF legs = {} THEN p
    ELSE AdvanceFrom(WithFirstFill(PatchLegs(p, legs)), Min({broker[l].fill : l \in legs}))

Verdict == Reconcile(ReplayTracked)

-----------------------------------------------------------------------------
(* The market and the broker                                               *)

NewBar(s) ==
    /\ Len(chart) < MaxBars
    /\ chart' = Append(chart, [time |-> Now + 2, open |-> s.open, high |-> s.high,
                               low |-> s.low, close |-> s.close, spread |-> s.spread,
                               trend |-> s.trend, atr |-> s.atr])
    /\ UNCHANGED <<plan, executed, broker>>

\* A resting order fills within the last minute, at the planned price or better, where
\* that minute traded; the chart's own spread may hide it from the replay.
Fill(l, slip) ==
    /\ chart # <<>> /\ broker[l] = Unfilled
    /\ LastBar.time >= executed /\ LastBar.time <= plan.expiry
    /\ LET price == Away(plan.side, plan.entry[l], -slip)
       IN  /\ LastBar.low <= price /\ price <= LastBar.high + LastBar.spread
           /\ broker' = [broker EXCEPT ![l] = [live |-> TRUE, price |-> price,
                                               fill |-> LastBar.time + 1]]
    /\ UNCHANGED <<plan, executed, chart>>

\* A stop, a target, a close by the executor or by hand.
Close(l) ==
    /\ broker[l].live
    /\ broker' = [broker EXCEPT ![l].live = FALSE]
    /\ UNCHANGED <<plan, executed, chart>>

BeliefInit ==
    /\ plan \in Plans
    /\ executed \in {plan.activation + d : d \in Delays}
    /\ chart = <<>>
    /\ broker = [l \in Legs |-> Unfilled]

BeliefNext ==
    \/ \E s \in BarShapes : NewBar(s)
    \/ \E l \in Legs : Close(l) \/ \E slip \in Slips : Fill(l, slip)

BeliefSpec == BeliefInit /\ [][BeliefNext]_beliefVars

-----------------------------------------------------------------------------
(* Properties                                                              *)

\* reconcile_with_mt5: "a live position is the source of truth for actual execution".
\* No leg the broker holds is one the cycle believes waiting or never filled, and it is
\* judged at the price and the time of its own fill.
JudgedByItsFill ==
    LET v == Verdict IN
    \A l \in LiveLegs :
        /\ v.leg[l].status \notin {"PENDING", "NO_FILL"}
        /\ v.leg[l].status = "OPEN" =>
               v.leg[l].fill = broker[l].fill /\ v.leg[l].price = broker[l].price

\* OPERATIONS_PLAYBOOK.md 211: reconciling "patches PENDING entries the bar-replay
\* missed".  A leg the replay saw filled in the same minute and at the same price, and
\* holds, is still held after it.
ReconcileKeepsOpen ==
    LET p == ReplayTracked
        v == Reconcile(p)
    IN  \A l \in LiveLegs :
            (/\ p.leg[l].status = "OPEN" /\ p.leg[l].price = broker[l].price
             /\ p.leg[l].fill + 1 = broker[l].fill)
            => v.leg[l].status = "OPEN"
=============================================================================
