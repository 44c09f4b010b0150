---------------------------- MODULE RelayRegistry ------------------------------
(***************************************************************************)
(* The relay (src/relay/src): sockets it lets in, the registry of sessions *)
(* with a host slot, member sockets and a grace timer, and what it tells a *)
(* host about its members.  Every handler runs to its end in one turn of   *)
(* the event loop, but for two awaits: the check of a token before a       *)
(* socket is accepted, and the check of a new host's token after its first *)
(* frame.  Whether a token is good is a choice.                            *)
(***************************************************************************)
EXTENDS Integers, FiniteSets

CONSTANTS
    Conn,         \* connection attempts; each becomes at most one socket
    Session,      \* session ids
    Subject,      \* the sub claims of tokens: ids of hosts and members
    MaxSessions,  \* VERSIONCON_MAX_SESSIONS
    MaxMembers,   \* VERSIONCON_MAX_MEMBERS_PER_SESSION
    None

ASSUME RelayConstants ==
    /\ MaxSessions \in Nat /\ MaxMembers \in Nat
    /\ None \notin Conn /\ None \notin Session /\ None \notin Subject

VARIABLES
    accepting,   \* the server has not been shut down
    ready,       \* ready[c]: the upgrade, then readyState of the socket
    claims,      \* claims[c]: claims stashed on the upgrade request
    first,       \* first[c]: firstFrameHandled and firstFrameSettled
    attached,    \* attached[c]: attachedSessionId
    registered,  \* keys of the registry's map
    host,        \* host[s]: hostSocket
    hostId,      \* hostId[s]: hostMemberId
    members,     \* members[s]: keys of memberSocketIds, whose values are the sub claims
    grace,       \* sessions with a graceTimer
    heard        \* heard[c][m]: the last that was sent to socket c about member m

sockets == <<accepting, ready, claims, first>>
registry == <<registered, host, hostId, members, grace>>
vars == <<sockets, attached, registry, heard>>

Claims == [role: {"host", "member"}, aud: Session, sub: Subject, pending: BOOLEAN]

RelayTypeOK ==
    /\ accepting \in BOOLEAN
    /\ ready \in [Conn -> {"none", "verifying", "open", "closing", "closed"}]
    /\ claims \in [Conn -> Claims \cup {None}]
    /\ first \in [Conn -> {"waiting", "verifying", "settled"}]
    /\ attached \in [Conn -> Session \cup {None}]
    /\ registered \subseteq Session
    /\ host \in [Session -> Conn \cup {None}]
    /\ hostId \in [Session -> Subject \cup {None}]
    /\ members \in [Session -> SUBSET Conn]
    /\ grace \subseteq registered
    /\ heard \in [Conn -> [Subject -> {"nothing", "frame", "left"}]]

Silence == [m \in Subject |-> "nothing"]

Init ==
    /\ accepting = TRUE
    /\ ready = [c \in Conn |-> "none"]
    /\ claims = [c \in Conn |-> None]
    /\ first = [c \in Conn |-> "waiting"]
    /\ attached = [c \in Conn |-> None]
    /\ registered = {}
    /\ host = [s \in Session |-> None]
    /\ hostId = [s \in Session |-> None]
    /\ members = [s \in Session |-> {}]
    /\ grace = {}
    /\ heard = [c \in Conn |-> Silence]

-----------------------------------------------------------------------------
(* The upgrade *)

\* ready after ws.close() on every socket of C; a socket that is gone stays so
Closing(C) == [c \in Conn |-> IF c \in C /\ ready[c] = "open" THEN "closing" ELSE ready[c]]

\* verifyClient.  The first host of a session is accepted with claims nobody has
\* checked.  A member of an unknown session, and an address over its limit, are
\* refused and leave no trace.
Upgrade(c, role, s, m) ==
    LET bootstrap == role = "host" /\ s \notin registered IN
    /\ accepting /\ ready[c] = "none"
    /\ bootstrap \/ s \in registered
    /\ claims' = [claims EXCEPT ![c] = [role |-> role, aud |-> s, sub |-> m, pending |-> bootstrap]]
    /\ ready' = [ready EXCEPT ![c] = IF bootstrap THEN "open" ELSE "verifying"]
    /\ UNCHANGED <<accepting, first, attached, registry, heard>>

\* verifyToken settles; a server that was shut down meanwhile aborts the handshake
Verified(c) ==
    /\ ready[c] = "verifying"
    /\ \E good \in {accepting, FALSE} :
          ready' = [ready EXCEPT ![c] = IF good THEN "open" ELSE "closed"]
    /\ UNCHANGED <<accepting, claims, first, attached, registry, heard>>

-----------------------------------------------------------------------------
(* The first frame *)

FirstFrame(c) == ready[c] = "open" /\ first[c] = "waiting"

\* A first frame the relay does not take: malformed, for another session, a
\* member's session-register, a host's anything else
BadFirstFrame(c) ==
    /\ FirstFrame(c)
    /\ first' = [first EXCEPT ![c] = "settled"]
    /\ ready' = Closing({c})
    /\ UNCHANGED <<accepting, claims, attached, registry, heard>>

\* Slip: the identity gate is gone.  Used for HostIsOwner.
AdmitsAnyHost(c) ==
    \/ claims[c].aud \in registered
    \/ Cardinality(registered) < MaxSessions

\* Slip: a host that returns is let in, a new one is never counted.  Used for WithinCaps.
AdmitsUncounted(c) ==
    LET s == claims[c].aud IN s \in registered => hostId[s] = claims[c].sub

\* What register() accepts: a new session under the cap, or the return of the
\* identity that registered first
Admits(c) ==
    LET s == claims[c].aud IN
    IF s \in registered THEN hostId[s] = claims[c].sub
                        ELSE Cardinality(registered) < MaxSessions

\* Slip: timers are left to fire.  Used for RelayTypeOK and GraceIffNoHost.
TimersLeft(S) == grace

\* cancelGracePeriod() for the sessions of S
WithoutTimers(S) == grace \ S

\* The accepting exits of register(): a former holder of the slot is closed, a
\* grace timer cancelled, the identity of a new session bound
TakeSlot(c, s) ==
    /\ registered' = registered \cup {s}
    /\ host' = [host EXCEPT ![s] = c]
    /\ hostId' = [hostId EXCEPT ![s] = IF s \in registered THEN @ ELSE claims[c].sub]
    /\ grace' = WithoutTimers({s})
    /\ ready' = Closing({host[s]})
    /\ attached' = [attached EXCEPT ![c] = s]

\* register(), and the answer to a refusal
Register(c) ==
    /\ first' = [first EXCEPT ![c] = "settled"]
    /\ \/ Admits(c) /\ TakeSlot(c, claims[c].aud)
       \/ /\ ~Admits(c)
          /\ ready' = Closing({c})
          /\ UNCHANGED <<registered, host, hostId, grace, attached>>
    /\ UNCHANGED <<accepting, claims, members, heard>>

\* A host's session-register.  Claims that are pending are verified first, and the
\* handler awaits.
SessionRegister(c) ==
    /\ FirstFrame(c) /\ claims[c].role = "host"
    /\ IF claims[c].pending
       THEN /\ first' = [first EXCEPT ![c] = "verifying"]
            /\ UNCHANGED <<accepting, ready, claims, attached, registry, heard>>
       ELSE Register(c)

\* jwtVerify settles.  Nothing looks at the socket again, which may be gone.
BootstrapSettles(c) ==
    /\ first[c] = "verifying"
    /\ \/ Register(c)
       \/ /\ first' = [first EXCEPT ![c] = "settled"]
          /\ ready' = Closing({c})
          /\ UNCHANGED <<accepting, claims, attached, registry, heard>>

\* The host socket that can be written to, as the set of one or none
Hosting(s) == {h \in {host[s]} : h # None /\ ready[h] = "open"}

\* What the sockets have heard after word w about member m was sent to those of H
Told(H, m, w) == [c \in Conn |-> IF c \in H THEN [heard[c] EXCEPT ![m] = w] ELSE heard[c]]

\* The guards of attachMember()
Joinable(s) ==
    /\ s \in registered
    /\ s \notin grace
    /\ Cardinality(members[s]) < MaxMembers

\* A member's first frame: attachMember(), then the frame itself is routed.  A frame
\* that names another member closes the socket after it was attached.
MemberAttaches(c) ==
    LET s == claims[c].aud IN
    /\ FirstFrame(c) /\ claims[c].role = "member"
    /\ first' = [first EXCEPT ![c] = "settled"]
    /\ \/ /\ Joinable(s)
          /\ members' = [members EXCEPT ![s] = @ \cup {c}]
          /\ attached' = [attached EXCEPT ![c] = s]
          /\ \/ heard' = Told(Hosting(s), claims[c].sub, "frame") /\ UNCHANGED ready
             \/ ready' = Closing({c}) /\ UNCHANGED heard
       \/ /\ ~Joinable(s)
          /\ ready' = Closing({c})
          /\ UNCHANGED <<members, attached, heard>>
    /\ UNCHANGED <<accepting, claims, registered, host, hostId, grace>>

-----------------------------------------------------------------------------
(* Later frames, closes, timers *)

\* handleSubsequentFrame and route() of a member: annotated with its own id, to the
\* host only.  A socket the relay is closing may still be read.
MemberFrame(c) ==
    LET s == attached[c] IN
    /\ ready[c] \in {"open", "closing"} /\ s # None
    /\ s \in registered /\ c \in members[s] /\ Hosting(s) # {}
    /\ heard' = Told(Hosting(s), claims[c].sub, "frame")
    /\ UNCHANGED <<sockets, attached, registry>>

\* A socket starts to close: its peer, a frame for another session or of a false
\* name, more than 64 frames before the first one settled
SocketCloses(c) ==
    /\ ready[c] = "open"
    /\ ready' = Closing({c})
    /\ UNCHANGED <<accepting, claims, first, attached, registry, heard>>

\* Slip: detach() has forgotten the member before it is looked up.  Used for
\* NoneLeavesUnheard.
DepartureUnsent(c, s) == heard' = [heard EXCEPT ![c] = Silence]

\* The close handler tells the host, if it can be written to, that a member is gone.
\* What was on its way to a closed host is lost.
Departure(c, s) ==
    heard' = [ IF c \in members[s] THEN Told(Hosting(s), claims[c].sub, "left") ELSE heard
               EXCEPT ![c] = Silence ]

\* Slip: members are not taken out of the list.  Used for MembersLive.
DetachHostOnly(c, s) ==
    /\ host' = [host EXCEPT ![s] = IF @ = c THEN None ELSE @]
    /\ grace' = IF host[s] = c THEN grace \cup {s} ELSE grace
    /\ UNCHANGED members

\* detach(): the host's slot is cleared and its grace timer armed, a member forgotten,
\* and the late close of any other socket ignored
Detach(c, s) ==
    IF host[s] = c
    THEN /\ host' = [host EXCEPT ![s] = None]
         /\ grace' = grace \cup {s}
         /\ UNCHANGED members
    ELSE /\ members' = [members EXCEPT ![s] = @ \ {c}]
         /\ UNCHANGED <<host, grace>>

\* The close event of a socket
CloseEvent(c) ==
    LET s == attached[c] IN
    /\ ready[c] = "closing"
    /\ ready' = [ready EXCEPT ![c] = "closed"]
    /\ IF s \in registered
       THEN Departure(c, s) /\ Detach(c, s)
       ELSE heard' = [heard EXCEPT ![c] = Silence] /\ UNCHANGED <<host, members, grace>>
    /\ UNCHANGED <<accepting, claims, first, attached, registered, hostId>>

\* Slip: a session is closed without its members.  Used for NoneCutOff.
HostSocketOnly(s) == {host[s]}

\* Every socket a session knows of
SocketsOf(s) == members[s] \cup {host[s]}

\* closeSession() and closeAll(): timers cleared, sockets closed, records dropped
CloseSessions(S) ==
    /\ ready' = Closing(UNION {SocketsOf(s) : s \in S})
    /\ registered' = registered \ S
    /\ grace' = WithoutTimers(S)
    /\ host' = [s \in Session |-> IF s \in S THEN None ELSE host[s]]
    /\ hostId' = [s \in Session |-> IF s \in S THEN None ELSE hostId[s]]
    /\ members' = [s \in Session |-> IF s \in S THEN {} ELSE members[s]]
    /\ UNCHANGED <<claims, first, attached, heard>>

GraceExpires(s) == s \in grace /\ CloseSessions({s}) /\ UNCHANGED accepting

\* The reaper, which runs until the shutdown, finds a session without traffic for long
\* enough
IdleReap(s) == accepting /\ s \in registered /\ CloseSessions({s}) /\ UNCHANGED accepting

\* close() of the running server
Shutdown == accepting /\ accepting' = FALSE /\ CloseSessions(registered)

Next ==
    \/ \E c \in Conn, role \in {"host", "member"}, s \in Session, m \in Subject :
          Upgrade(c, role, s, m)
    \/ \E c \in Conn :
          \/ Verified(c) \/ BadFirstFrame(c) \/ SessionRegister(c) \/ BootstrapSettles(c)
          \/ MemberAttaches(c) \/ MemberFrame(c) \/ SocketCloses(c) \/ CloseEvent(c)
    \/ \E s \in Session : GraceExpires(s) \/ IdleReap(s)
    \/ Shutdown

Spec == Init /\ [][Next]_vars

-----------------------------------------------------------------------------
(* Properties *)

\* The grace timer of a session runs exactly while its host slot is empty: a session is
\* neither torn down under its host nor kept for one that nobody waits for
\* (register, detach, cancelGracePeriod, scheduleGracePeriod).
GraceIffNoHost == \A s \in registered : s \in grace <=> host[s] = None

\* A socket the relay let in and has not begun to close holds its place in a session, so
\* what it sends is routed: no late close event, takeover, expiry or shutdown leaves an
\* open socket to which nobody listens (closeSession, register, detach).
NoneCutOff ==
    \A c \in Conn : ready[c] = "open" /\ attached[c] # None =>
        LET s == attached[c] IN s \in registered /\ (c = host[s] \/ c \in members[s])

\* No socket that is gone takes up a member's place under the cap, nor is written to
\* (detach; the late close of a socket of an earlier session of the same id).
MembersLive ==
    \A s \in Session : \A c \in members[s] : ready[c] \in {"open", "closing"}

\* The host slot only ever goes to the identity that registered the session, whichever
\* sockets race through verification (the gate of register()).
HostIsOwner ==
    \A s \in registered : host[s] # None => claims[host[s]].sub = hostId[s]

\* When a member's last socket has gone the open host socket has been told after all it
\* heard from that member, so the host keeps no row for it (the close handler's look-up
\* before detach).
NoneLeavesUnheard ==
    \A s \in registered : \A h \in Hosting(s), m \in Subject :
        heard[h][m] = "frame" => \E c \in members[s] : claims[c].sub = m

\* The caps on sessions and members hold although tokens are verified concurrently
\* (canRegisterSession, canAttachMember).
WithinCaps ==
    /\ Cardinality(registered) <= MaxSessions
    /\ \A s \in registered : Cardinality(members[s]) <= MaxMembers

-----------------------------------------------------------------------------
(* The inductive invariant of the proofs *)

\* A socket goes through upgrade, first frame and attachment in this order
Handshake ==
    \A c \in Conn :
        /\ ready[c] # "none" => claims[c] \in Claims
        /\ ready[c] \in {"none", "verifying"} => first[c] = "waiting"
        /\ first[c] # "settled" => attached[c] = None
        /\ attached[c] = None => heard[c] = Silence
        /\ first[c] = "verifying" => claims[c].role = "host"

\* A place in a session is held by a socket attached to it, in its own role
PlacesAttached ==
    \A s \in Session :
        /\ host[s] # None => /\ s \in registered /\ attached[host[s]] = s
                             /\ claims[host[s]].role = "host"
        /\ \A c \in members[s] : /\ s \in registered /\ attached[c] = s
                                 /\ claims[c].role = "member"

RelayInv ==
    /\ RelayTypeOK /\ Handshake /\ PlacesAttached
    /\ GraceIffNoHost /\ NoneCutOff /\ MembersLive /\ HostIsOwner /\ NoneLeavesUnheard
===============================================================================
