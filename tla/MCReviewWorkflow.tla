--------------------------- MODULE MCReviewWorkflow ----------------------------
(* Small instances of ReviewWorkflow for TLC. *)
EXTENDS ReviewWorkflow

CONSTANTS k1, k2, r1, r2
===============================================================================
