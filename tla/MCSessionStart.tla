--------------------------- MODULE MCSessionStart ---------------------------
(* SessionStart for TLC: the panels, jobs and links are interchangeable. *)
EXTENDS SessionStart, TLC

Symmetry == Permutations(Panel) \cup Permutations(Job) \cup Permutations(Link)
=============================================================================
