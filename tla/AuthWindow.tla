------------------------------ MODULE AuthWindow -------------------------------
(***************************************************************************)
(* The rate limit of authentication attempts (checkRateLimit() of          *)
(* src/src/host/AuthHandler.ts).  SessionHost asks it before it looks at    *)
(* an invite code; module SessionHost leaves its answer open.               *)
(*                                                                         *)
(* Time is Date.now() in milliseconds and is not set back.  An attempt is   *)
(* one turn of the event loop.                                             *)
(***************************************************************************)
EXTENDS Integers, Sequences

CONSTANT Address  \* what the host takes for the address of a connection

MaxAttempts == 5
WindowMs == 60000

VARIABLES
    now,
    rateLimitMap,  \* a function on the addresses that have an entry
    granted        \* granted[a]: when a was let through (history variable)

authVars == <<now, rateLimitMap, granted>>

RateLimitEntry == [attempts : 1..MaxAttempts, lastAttempt : Nat]

AuthTypeOK ==
    /\ now \in Nat
    /\ DOMAIN rateLimitMap \subseteq Address
    /\ \A a \in DOMAIN rateLimitMap : rateLimitMap[a] \in RateLimitEntry
    /\ granted \in [Address -> Seq(Nat)]

AuthInit ==
    /\ now \in Nat
    /\ rateLimitMap = [a \in {} |-> [attempts |-> 1, lastAttempt |-> 0]]
    /\ granted = [a \in Address |-> <<>>]

\* What cleanExpiredEntries() leaves.  Every attempt cleans first, so that the reset of
\* an entry outside the window, further down, is never reached.
Live == {a \in DOMAIN rateLimitMap : now - rateLimitMap[a].lastAttempt <= WindowMs}

Allowed(a) == a \in Live => rateLimitMap[a].attempts < MaxAttempts

Attempts(a) == IF a \in Live THEN rateLimitMap[a].attempts + 1 ELSE 1

Allow(a) ==
    /\ Allowed(a)
    /\ rateLimitMap' = [b \in Live \cup {a} |->
           IF b = a THEN [attempts |-> Attempts(a), lastAttempt |-> now] ELSE rateLimitMap[b]]
    /\ granted' = [granted EXCEPT ![a] = Append(@, now)]
    /\ UNCHANGED now

\* A refused attempt is not counted and does not move the window
Deny(a) ==
    /\ ~Allowed(a)
    /\ rateLimitMap' = [b \in Live |-> rateLimitMap[b]]
    /\ UNCHANGED <<now, granted>>

Pass == \E t \in Nat : t > now /\ now' = t /\ UNCHANGED <<rateLimitMap, granted>>

AuthNext == Pass \/ \E a \in Address : Allow(a) \/ Deny(a)

AuthSpec == AuthInit /\ [][AuthNext]_authVars

-----------------------------------------------------------------------------
(* Properties *)

\* "5 per IP per 60 seconds": of an address, the sixth attempt that is let through comes
\* more than a window after the first, whatever is refused in between, and although the
\* window is measured from the last attempt and the count restarts after a pause.
LimitHolds ==
    \A a \in Address : \A i \in 1..Len(granted[a]) - MaxAttempts :
       granted[a][i + MaxAttempts] - granted[a][i] > WindowMs

\* The last five of s follow each other, and t the last of them, within a window each
Burst(s, t) ==
    /\ Len(s) >= MaxAttempts
    /\ t - s[Len(s)] <= WindowMs
    /\ \A i \in Len(s) - MaxAttempts + 1..Len(s) - 1 : s[i + 1] - s[i] <= WindowMs

\* An address is refused exactly while its own last five granted attempts are such a burst:
\* neither the others' attempts nor its own refused ones ever keep it out.
RefusedExactly == \A a \in Address : ~Allowed(a) <=> Burst(granted[a], now)
================================================================================
