---------------------------- MODULE MCSessionHost ------------------------------
(* Small instances of SessionHost for TLC. *)
EXTENDS SessionHost, TLC

CONSTANTS c1, c2, c3, k1, k2

\* Connections are interchangeable in the runs that check safety only
Symmetry == Permutations(Conn)
===============================================================================
