------------------------------ MODULE MCWorkspace ------------------------------
(* Small instances of Workspace for TLC. *)
EXTENDS Workspace, TLC

CONSTANTS p1, x1, feature, text1, text2, binary
===============================================================================
