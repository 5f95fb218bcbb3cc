--------------------------- MODULE MCListenerFeed ---------------------------
(* Messages 1 and 2 are posted in the same minute, 3 in the next: content   *)
(* duplicates need the same minute.                                         *)
EXTENDS ListenerFeed

CONSTANTS a, b

MCSignals  == {a, b}
MCMayPost  == [m \in Msgs |-> IF m = 1 THEN {a, "plain"} ELSE {a, b, "junk"}]
MCMinuteOf == [m \in Msgs |-> (m + 1) \div 2]
=============================================================================
