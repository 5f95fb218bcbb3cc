--------------------------- MODULE MCReconciliation ---------------------------
(* What a manage pass reads and does.  Each behaviour studies one of three:   *)
(* what it believes of a signal, here a two-leg ladder at 5 and 4 with its    *)
(* stops two units away, targets at 6, 7 and 8, and the same mirrored, a bar  *)
(* being two half-minutes; the registry of signals it reads and prunes; the   *)
(* stops it moves, of a leg at 3 with its stop at 1 and TP1, TP2 at 4 and 5,  *)
(* and the SELL mirrored.                                                     *)
EXTENDS Reconciliation, SignalRegistry, LiveStops, TLC

Base ==
    [side |-> "BUY", entry |-> [i \in Legs |-> 5 - i], signalSl |-> 3, baseDist |-> 2,
     tp |-> [n \in 1..3 |-> 5 + n],
     activation |-> 0, expiry |-> 4, maxHold |-> 3, finalTarget |-> 3,
     lock1 |-> TRUE, lock2 |-> TRUE, delay1 |-> 0, delay2 |-> 0,
     halfMode |-> FALSE, bepTrigger |-> 1, bepBuffer |-> 0, lockHalves |-> 1,
     tp2LockTarget |-> 1, scaleOut1 |-> FALSE, scaleOut2 |-> FALSE,
     bepAfterTp1 |-> FALSE, trailAfter |-> 0, noFinalCap |-> FALSE,
     trailOpen |-> 0, trailClose |-> 0, runnerAfterTp3 |-> FALSE,
     trendRunner |-> FALSE, overrideMaxHold |-> FALSE, lockSlip |-> 0,
     sharedSl |-> FALSE]

Mirror(k) == [k EXCEPT !.side = "SELL", !.entry = [i \in Legs |-> 9 - @[i]],
                       !.signalSl = 9 - @, !.tp = [n \in 1..3 |-> 9 - @[n]]]

MCPlans == {Base, Mirror([Base EXCEPT !.trailOpen = 1, !.trailClose = 1])}
MCShapes ==
    {s \in [open : 2..8, high : 2..8, low : 2..8, close : 2..8,
            spread : {1}, trend : {FALSE}, atr : {0}] :
        /\ s.open = s.low /\ s.close = s.high
        /\ s.high - s.low = 4 \/ (s.high - s.low = 1 /\ s.low \in 3..6)}

MCBooks  == {<<"BUY", 1>>, <<"SELL", 0>>}
MCEntry  == [l \in Sent |-> 3 - l]
MCBaseSl == [l \in Sent |-> 1]
MCTp     == <<4, 5>>

VARIABLE study
StudyVars == <<beliefVars, registryVars, vars, study>>

NoBelief   == plan = Base /\ executed = 0 /\ chart = <<>> /\ broker = [l \in Legs |-> Unfilled]
NoRegistry == RegistryInit /\ \A p, q \in Processes : sig[p] = sig[q]
NoStops    == Init /\ side = "SELL" /\ bid = 0

BeliefStart   == study = "belief" /\ BeliefInit /\ NoRegistry /\ NoStops
RegistryStart == study = "registry" /\ NoBelief /\ RegistryInit /\ NoStops
StopsStart    == study = "stops" /\ NoBelief /\ NoRegistry /\ Init

StudyNext ==
    /\ \/ study = "belief" /\ BeliefNext /\ UNCHANGED <<registryVars, vars>>
       \/ study = "registry" /\ RegistryNext /\ UNCHANGED <<beliefVars, vars>>
       \/ study = "stops" /\ Next /\ UNCHANGED <<beliefVars, registryVars>>
    /\ UNCHANGED study

StudySpec      == (BeliefStart \/ RegistryStart \/ StopsStart) /\ [][StudyNext]_StudyVars
SharedSpec     == RegistryStart /\ [][StudyNext]_StudyVars

SignalSymmetry == Permutations(Signals)
==============================================================================
