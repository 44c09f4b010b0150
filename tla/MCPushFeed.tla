------------------------------ MODULE MCPushFeed -------------------------------
(* Small instances of PushFeed, and of the joinImpact() its analysis calls, for TLC. *)
EXTENDS PushFeed, JoinImpactCases

CONSTANTS m1, x1, x2, f1, f2, r1

\* The pushes share a file: it may be announced again while a sync is at it
MCFiles == [x \in Request |-> IF x = x1 THEN {f1, f2} ELSE {f1}]
===============================================================================
