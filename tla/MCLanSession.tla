---------------------------- MODULE MCLanSession -------------------------------
(* Small instances of LanSession for TLC; every run checks safety only. *)
EXTENDS LanSession, TLC

CONSTANTS c1, c2, c3, k1, k2

\* Connections are interchangeable
Symmetry == Permutations(Conn)

\* So are the clients, where they all run the extension or none does
SymmetryAll == Permutations(Conn) \cup Permutations(Client)
===============================================================================
