---------------------------- MODULE MCRelayRegistry ----------------------------
(* Small instances of RelayRegistry for TLC. *)
EXTENDS RelayRegistry, TLC

CONSTANTS c1, c2, c3, c4, s1, s2, m1, m2

\* Names mean nothing to the relay
Symmetry == Permutations(Conn) \cup Permutations(Session) \cup Permutations(Subject)
===============================================================================
