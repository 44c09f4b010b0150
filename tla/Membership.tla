------------------------------ MODULE Membership -------------------------------
(***************************************************************************)
(* What a session promises about its members, without sockets: a client    *)
(* instance takes a seat under an id nobody had before, keeps that id for  *)
(* as long as it is seated, whatever happens to its connections, and may   *)
(* lose it.  Reconnecting is not a step of this specification.             *)
(***************************************************************************)
CONSTANTS Guest, Id, None

VARIABLES
    seat,   \* seat[k]: the id client k sits under, None if it has no seat
    issued  \* every id ever given to a guest

Init ==
    /\ seat = [k \in Guest |-> None]
    /\ issued = {}

TakeSeat(k) ==
    \E id \in Id \ issued :
       /\ seat[k] = None
       /\ seat' = [seat EXCEPT ![k] = id]
       /\ issued' = issued \cup {id}

\* Several guests can go at once: a heartbeat, or the end of the session
LoseSeats(S) ==
    /\ \A k \in S : seat[k] # None
    /\ seat' = [k \in Guest |-> IF k \in S THEN None ELSE seat[k]]
    /\ UNCHANGED issued

Next == (\E k \in Guest : TakeSeat(k)) \/ (\E S \in SUBSET Guest : LoseSeats(S))

Spec == Init /\ [][Next]_<<seat, issued>>
===============================================================================
