----------------------------- MODULE MCCloudJoin ------------------------------
(* Small instances of CloudJoin. *)
EXTENDS CloudJoin, TLC

Symmetry == Permutations(Client)
===============================================================================
