------------------------ MODULE MCNotificationBridge ------------------------
(* Closure lines are two units long, the others one. *)
EXTENDS NotificationBridge, TLC

MCSizeOf(text) == IF text.kind = "closed" THEN 2 ELSE 1
LegSymmetry == Permutations(Legs)
=============================================================================
