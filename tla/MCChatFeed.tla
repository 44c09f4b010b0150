------------------------------ MODULE MCChatFeed -------------------------------
(* Small instances of ChatFeed for TLC. *)
EXTENDS ChatFeed, TLC

CONSTANTS m1, m2, n1, n2, x1, x2
===============================================================================
