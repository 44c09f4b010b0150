-------------------------- MODULE MCClientReconnect ----------------------------
(* Small instances of ClientReconnect for TLC. *)
EXTENDS ClientReconnect

CONSTANTS s1, s2
===============================================================================
