------------------------------ MODULE SessionHost ------------------------------
(***************************************************************************)
(* The membership core of src/src/host/SessionHost.ts in LAN mode: who is  *)
(* a member, which socket a member is bound to, how a returning client is  *)
(* recognised by its clientId, and what the host keeps about it.           *)
(*                                                                         *)
(* Every callback the host registers on a connection (message, pong,       *)
(* close), every timer and every call of the extension is one atomic       *)
(* action: in LAN mode none of these handlers awaits before its last       *)
(* write.  Sockets and the sending end of the wire are the environment.    *)
(* What a handler writes back is defined beside it (the operators named    *)
(* ...Frames); module LanSession puts those frames on the wire.            *)
(*                                                                         *)
(* A memberId is a fresh UUID minted once per connection, so the id minted *)
(* while connection c authenticates is named c itself.                     *)
(***************************************************************************)
EXTENDS Naturals, Sequences

CONSTANTS
    Conn,      \* sockets, each opened at most once
    Client,    \* SessionClient instances, named by their stable clientId
    Loopback,  \* the clients that hold the hostAuthSecret
    HostId,    \* the memberId pre-allocated for the host (HostIdentity)
    None,      \* null / absent from a Map
    MaxData    \* bound on presence and tracked-paths traffic in one behaviour

ASSUME ConstantsOK ==
    /\ Loopback \subseteq Client
    /\ HostId \notin Conn
    /\ None \notin Conn \cup Client \cup {HostId}
    /\ MaxData \in Nat

MemberId == Conn \cup {HostId}

VARIABLES
    \* the environment: sockets and the wire
    owner,     \* owner[c]: the client that opened c
    peer,      \* peer[c]: the client's end of the socket
    sock,      \* sock[c]: the host's end; "kicked" is closing with code 4004
    toHost,    \* frames in flight to the host
    pongDue,   \* pings in flight whose pong will come back
    sent,      \* how much of MaxData is used up
    \* the host
    closureId,          \* the `memberId` captured by a connection's handlers
    authTimer,          \* connections whose 10 s auth timeout is armed
    ws,                 \* members: ws[m] is the socket of m, None if not a member
    isAlive,            \* members that answered since the last heartbeat
    clientIdToMemberId,
    memberIdToClientId,
    hostMemberId,
    presence,           \* keys of presenceMap
    tracking,           \* keys of memberTracking
    stopped             \* stop() has run

mapVars == <<clientIdToMemberId, memberIdToClientId>>
hostVars == <<sock, toHost, pongDue, sent, closureId, authTimer, ws, isAlive, mapVars,
              hostMemberId, presence, tracking, stopped>>
vars == <<owner, peer, hostVars>>

ClientFrame == {"auth-request", "presence-update", "tracked-paths-update"}

TypeOK ==
    /\ owner \in [Conn -> Client \cup {None}]
    /\ peer \in [Conn -> {"down", "up"}]
    /\ sock \in [Conn -> {"unused", "open", "closing", "kicked", "terminated", "closed"}]
    /\ toHost \in [Conn -> Seq(ClientFrame)]
    /\ pongDue \subseteq Conn
    /\ sent \in 0..MaxData
    /\ closureId \in [Conn -> MemberId \cup {None}]
    /\ authTimer \subseteq Conn
    /\ ws \in [MemberId -> Conn \cup {None}]
    /\ isAlive \subseteq MemberId
    /\ clientIdToMemberId \in [Client -> MemberId \cup {None}]
    /\ memberIdToClientId \in [MemberId -> Client \cup {None}]
    /\ hostMemberId \in MemberId \cup {None}
    /\ presence \subseteq MemberId
    /\ tracking \subseteq MemberId
    /\ stopped \in BOOLEAN

Init ==
    /\ owner = [c \in Conn |-> None]
    /\ peer = [c \in Conn |-> "down"]
    /\ sock = [c \in Conn |-> "unused"]
    /\ toHost = [c \in Conn |-> <<>>]
    /\ pongDue = {}
    /\ sent = 0
    /\ closureId = [c \in Conn |-> None]
    /\ authTimer = {}
    /\ ws = [m \in MemberId |-> None]
    /\ isAlive = {}
    /\ clientIdToMemberId = [k \in Client |-> None]
    /\ memberIdToClientId = [m \in MemberId |-> None]
    /\ hostMemberId = HostId
    /\ presence = {}
    /\ tracking = {}
    /\ stopped = FALSE

-----------------------------------------------------------------------------
Members == {m \in MemberId : ws[m] # None}

\* The socket still hands frames to the host while the closing handshake runs
Readable(c) == sock[c] \in {"open", "closing", "kicked"}

\* closeConnection() has no effect on a socket that is already on its way out
Close(c, how) == IF sock[c] = "open" THEN how ELSE sock[c]

Receive(c, type) ==
    /\ Readable(c)
    /\ toHost[c] # <<>>
    /\ Head(toHost[c]) = type
    /\ toHost' = [toHost EXCEPT ![c] = Tail(@)]

-----------------------------------------------------------------------------
(* The environment *)

\* A client opens a socket and sends auth-request from its onOpen handler.  A
\* SessionClient only dials again once its previous socket has closed on its side.
Open(c, k) ==
    /\ ~stopped
    /\ sock[c] = "unused"
    /\ \A d \in Conn : owner[d] = k => peer[d] = "down"
    /\ owner' = [owner EXCEPT ![c] = k]
    /\ peer' = [peer EXCEPT ![c] = "up"]
    /\ sock' = [sock EXCEPT ![c] = "open"]
    /\ toHost' = [toHost EXCEPT ![c] = <<"auth-request">>]
    /\ authTimer' = authTimer \cup {c}
    /\ UNCHANGED <<pongDue, sent, closureId, ws, isAlive, mapVars, hostMemberId, presence,
                   tracking, stopped>>

\* The client's end goes away: network loss, its own close, a crash.  What it
\* already wrote may still reach the host.
PeerDown(c) ==
    /\ peer[c] = "up"
    /\ peer' = [peer EXCEPT ![c] = "down"]
    /\ UNCHANGED <<owner, hostVars>>

\* The client's extension reports its active editor or its tracked paths
ClientSend(c, type) ==
    /\ peer[c] = "up"
    /\ Readable(c)
    /\ sent < MaxData
    /\ sent' = sent + 1
    /\ toHost' = [toHost EXCEPT ![c] = Append(@, type)]
    /\ UNCHANGED <<owner, peer, sock, pongDue, closureId, authTimer, ws, isAlive, mapVars,
                   hostMemberId, presence, tracking, stopped>>

-----------------------------------------------------------------------------
(* The host.  A definition whose comment begins with "Slip" is a plausible mistake *)
(* in the one after it; no action uses it, it is there to show what the properties *)
(* notice.                                                                         *)

\* Slip: the clientId of a removed member is not looked up
IndexKept(S) == clientIdToMemberId

\* The clientId index once the members in S are gone
IndexWithout(S) ==
    LET cids == {memberIdToClientId[m] : m \in S}
    IN  [k \in Client |-> IF k \in cids THEN None ELSE clientIdToMemberId[k]]

\* removeMember() for every id in S \subseteq Members, apart from the isAlive flag
\* that goes with the entry
RemoveMembers(S) ==
    /\ ws' = [m \in MemberId |-> IF m \in S THEN None ELSE ws[m]]
    /\ tracking' = tracking \ S
    /\ presence' = presence \ S
    /\ clientIdToMemberId' = IndexWithout(S)
    /\ memberIdToClientId' =
         [m \in MemberId |-> IF m \in S THEN None ELSE memberIdToClientId[m]]
    /\ hostMemberId' = IF hostMemberId \in S THEN None ELSE hostMemberId

\* handleAuthRequest(), refused: rate limit (4003) or invite code (4002)
RejectAuth(c) ==
    /\ Receive(c, "auth-request")
    /\ sock' = [sock EXCEPT ![c] = Close(c, "closing")]
    /\ UNCHANGED <<owner, peer, pongDue, sent, closureId, authTimer, ws, isAlive, mapVars,
                   hostMemberId, presence, tracking, stopped>>

\* Slip: setMemberId(reuseId) is missing, the handlers keep the fresh id
SetFreshId(c, m) == closureId' = [closureId EXCEPT ![c] = c]

\* setMemberId(): the id under which the handlers of c act from now on
SetMemberId(c, m) == closureId' = [closureId EXCEPT ![c] = m]

\* Slip: an entry that is already there is not replaced
RememberOnce(k, m) ==
    clientIdToMemberId' = [clientIdToMemberId EXCEPT ![k] = IF @ = None THEN m ELSE @]

Remember(k, m) == clientIdToMemberId' = [clientIdToMemberId EXCEPT ![k] = m]

\* Slip: no dedupe
SeatOfNobody(k) == None

\* The dedupe lookup: the member this clientId already is, None if it is nobody
SeatOf(k) ==
    IF k \in Loopback \/ clientIdToMemberId[k] = None THEN None
    ELSE IF ws[clientIdToMemberId[k]] = None THEN None ELSE clientIdToMemberId[k]

\* handleAuthRequest(), accepted for a clientId that is still a member: the entry
\* moves to the new socket first, then the old socket is closed.  No member-joined.
Rebind(c) ==
    LET m == SeatOf(owner[c])
    IN  /\ Receive(c, "auth-request")
        /\ m # None
        /\ authTimer' = authTimer \ {c}
        /\ SetMemberId(c, m)
        /\ ws' = [ws EXCEPT ![m] = c]
        /\ isAlive' = isAlive \cup {m}
        /\ sock' = [d \in Conn |-> IF d = ws[m] /\ d # c THEN Close(d, "closing") ELSE sock[d]]
        /\ Remember(owner[c], m)
        /\ memberIdToClientId' = [memberIdToClientId EXCEPT ![m] = owner[c]]
        /\ UNCHANGED <<owner, peer, pongDue, sent, hostMemberId, presence, tracking, stopped>>

\* handleAuthRequest(), accepted as a new member with the fresh id c.  A stale
\* mapping (its member is gone) is dropped first.  The holder of the secret becomes
\* the host's own row: hostMemberId is re-pointed and its presence seeded.
Join(c) ==
    LET k == owner[c]
        stale == IF k \in Loopback THEN None ELSE clientIdToMemberId[k]
    IN  /\ Receive(c, "auth-request")
        /\ SeatOf(k) = None
        /\ authTimer' = authTimer \ {c}
        /\ SetMemberId(c, c)
        /\ hostMemberId' = IF k \in Loopback THEN c ELSE hostMemberId
        /\ presence' = IF k \in Loopback THEN presence \cup {c} ELSE presence
        /\ ws' = [ws EXCEPT ![c] = c]
        /\ isAlive' = isAlive \cup {c}
        /\ Remember(k, c)
        /\ memberIdToClientId' =
             [m \in MemberId |-> IF m = c THEN k
                                 ELSE IF m = stale /\ memberIdToClientId[m] = k THEN None
                                 ELSE memberIdToClientId[m]]
        /\ UNCHANGED <<owner, peer, sock, pongDue, sent, tracking, stopped>>

\* Who a frame is booked on: nobody before authentication (it is dropped)
Sender(c) == {closureId[c]} \ {None}

\* presence-update: stored under the captured id
PresenceUpdate(c) ==
    /\ Receive(c, "presence-update")
    /\ presence' = presence \cup Sender(c)
    /\ UNCHANGED <<owner, peer, sock, pongDue, sent, closureId, authTimer, ws, isAlive,
                   mapVars, hostMemberId, tracking, stopped>>

\* tracked-paths-update: metadata of the captured id, not relayed
TrackedPathsUpdate(c) ==
    /\ Receive(c, "tracked-paths-update")
    /\ tracking' = tracking \cup Sender(c)
    /\ UNCHANGED <<owner, peer, sock, pongDue, sent, closureId, authTimer, ws, isAlive,
                   mapVars, hostMemberId, presence, stopped>>

\* The native pong handler marks whichever member the connection's closure names
Pong(c) ==
    /\ c \in pongDue
    /\ Readable(c)
    /\ pongDue' = pongDue \ {c}
    /\ isAlive' = isAlive \cup ({closureId[c]} \cap Members)
    /\ UNCHANGED <<owner, peer, sock, toHost, sent, closureId, authTimer, ws, mapVars,
                   hostMemberId, presence, tracking, stopped>>

\* Slip: the timeout is reported but the socket stays open
AuthTimeoutReported(c) ==
    /\ c \in authTimer
    /\ authTimer' = authTimer \ {c}
    /\ UNCHANGED <<owner, peer, sock, toHost, pongDue, sent, closureId, ws, isAlive, mapVars,
                   hostMemberId, presence, tracking, stopped>>

\* The 10 s timeout of a connection that has not authenticated
AuthTimeout(c) ==
    /\ c \in authTimer
    /\ authTimer' = authTimer \ {c}
    /\ sock' = [sock EXCEPT ![c] = Close(c, "closing")]
    /\ UNCHANGED <<owner, peer, toHost, pongDue, sent, closureId, ws, isAlive, mapVars,
                   hostMemberId, presence, tracking, stopped>>

\* Slip: no ws-identity guard
LostWithAny(c) == {m \in Members : m = closureId[c]}

\* The member a close of c takes away: only the one still bound to c itself
LostWith(c) == {m \in Members : m = closureId[c] /\ ws[m] = c}

\* The close event, whichever side or timer caused it
CloseEvent(c) ==
    /\ sock[c] \notin {"unused", "closed"}
    /\ sock' = [sock EXCEPT ![c] = "closed"]
    /\ toHost' = [toHost EXCEPT ![c] = <<>>]
    /\ pongDue' = pongDue \ {c}
    /\ authTimer' = authTimer \ {c}
    /\ isAlive' = isAlive \ LostWith(c)
    /\ RemoveMembers(LostWith(c))
    /\ UNCHANGED <<owner, peer, sent, closureId, stopped>>

\* Slip: the flags are not reset
AwaitNoPong == UNCHANGED isAlive

\* From now on every member owes a pong
AwaitPong == isAlive' = {}

\* The 15 s heartbeat: members that did not answer the previous ping are terminated
\* and removed, every other one is marked and pinged.  Only a live peer answers.
HeartbeatTick ==
    LET dead == Members \ isAlive
        cut == {ws[m] : m \in dead}
        pinged == {c \in Conn : sock[c] = "open" /\ \E m \in Members \ dead : ws[m] = c}
    IN  /\ ~stopped
        /\ sock' = [c \in Conn |-> IF c \in cut /\ Readable(c) THEN "terminated" ELSE sock[c]]
        /\ toHost' = [c \in Conn |-> IF c \in cut THEN <<>> ELSE toHost[c]]
        /\ pongDue' = (pongDue \ cut) \cup {c \in pinged : peer[c] = "up"}
        /\ AwaitPong
        /\ RemoveMembers(dead)
        /\ UNCHANGED <<owner, peer, sent, closureId, authTimer, stopped>>

\* kickMember(): the socket is closed; the entry is left to the close event
KickMember(m) ==
    /\ m \in Members
    /\ sock' = [sock EXCEPT ![ws[m]] = Close(ws[m], "kicked")]
    /\ UNCHANGED <<owner, peer, toHost, pongDue, sent, closureId, authTimer, ws, isAlive,
                   mapVars, hostMemberId, presence, tracking, stopped>>

\* upsertHostPresence(), called by the extension with the pre-allocated host id
HostPresence ==
    /\ ~stopped
    /\ sent < MaxData
    /\ sent' = sent + 1
    /\ presence' = presence \cup {HostId}
    /\ UNCHANGED <<owner, peer, sock, toHost, pongDue, closureId, authTimer, ws, isAlive,
                   mapVars, hostMemberId, tracking, stopped>>

\* stop(): heartbeat off, members' sockets closed, members cleared, no new sockets.
\* Sockets that have not authenticated, and both clientId maps, are left alone.
Stop ==
    /\ ~stopped
    /\ stopped' = TRUE
    /\ sock' = [c \in Conn |-> IF \E m \in Members : ws[m] = c THEN Close(c, "closing")
                               ELSE sock[c]]
    /\ ws' = [m \in MemberId |-> None]
    /\ isAlive' = {}
    /\ UNCHANGED <<owner, peer, toHost, pongDue, sent, closureId, authTimer, mapVars,
                   hostMemberId, presence, tracking>>

-----------------------------------------------------------------------------
HostStep(c) ==
    \/ RejectAuth(c)
    \/ Rebind(c)
    \/ Join(c)
    \/ PresenceUpdate(c)
    \/ TrackedPathsUpdate(c)
    \/ Pong(c)
    \/ AuthTimeout(c)
    \/ CloseEvent(c)

Next ==
    \/ \E c \in Conn, k \in Client : Open(c, k)
    \/ \E c \in Conn, type \in ClientFrame \ {"auth-request"} : ClientSend(c, type)
    \/ \E c \in Conn : PeerDown(c)
    \/ \E c \in Conn : HostStep(c)
    \/ \E m \in MemberId : KickMember(m)
    \/ HeartbeatTick
    \/ HostPresence
    \/ Stop

\* A closing or terminated socket always ends: ws bounds the closing handshake
FinishClose(c) == sock[c] # "open" /\ CloseEvent(c)

\* Timers fire; nothing else is promised
Fairness ==
    /\ WF_vars(HeartbeatTick)
    /\ \A c \in Conn : WF_vars(AuthTimeout(c)) /\ WF_vars(FinishClose(c))

Spec == Init /\ [][Next]_vars /\ Fairness

-----------------------------------------------------------------------------
(* Properties *)

\* The two clientId maps are mirror images over the seated members, and a mapping
\* whose member has left exists only in a stopped session (SessionHost.ts:252-271,
\* removeMember).  Loopback clients bypass the dedupe and are not covered.
ClientIdMapsAgree ==
    /\ \A k \in Client \ Loopback :
          clientIdToMemberId[k] # None =>
             /\ memberIdToClientId[clientIdToMemberId[k]] = k
             /\ clientIdToMemberId[k] \notin Members => stopped
    /\ \A m \in Members :
          memberIdToClientId[m] \notin Loopback =>
             clientIdToMemberId[memberIdToClientId[m]] = m

\* Every member is bound to a socket that its own client opened and whose handlers
\* act under that member's id: no frame is ever booked on somebody else.
BoundToOwnSocket ==
    \A m \in Members :
       /\ closureId[ws[m]] = m
       /\ memberIdToClientId[m] = owner[ws[m]]

\* A client instance holds one seat however often it reconnects, and whatever its
\* older sockets still deliver (the dedupe block of handleAuthRequest).
OneSeatPerClient ==
    \A m, n \in Members :
       owner[ws[m]] = owner[ws[n]] /\ owner[ws[m]] \notin Loopback => m = n

\* A member only leaves because the socket it is bound to at that moment is gone, or
\* the session stopped: the late close of a superseded socket takes nobody away (the
\* ws-identity guard in the close handler).
LiveMemberKept ==
    [][\A m \in MemberId :
          ws[m] # None /\ ws'[m] = None =>
             stopped' \/ sock'[ws[m]] \in {"terminated", "closed"}]_vars

\* A member whose client is gone does not keep its seat on that socket: the
\* heartbeat finds it even if no close event ever arrives.
DeadPeerEvicted ==
    \A m \in MemberId, c \in Conn :
       ws[m] = c /\ peer[c] = "down" ~> ws[m] # c \/ stopped

\* A connection that never authenticates does not stay open (T-01-04).
UnauthenticatedClosed ==
    \A c \in Conn :
       sock[c] = "open" /\ closureId[c] = None ~> sock[c] # "open" \/ closureId[c] # None

\* The session seen as seats: every guest keeps one id across reconnects, ids are
\* never used twice, and a rebind is invisible.
Guests == Client \ Loopback
Seat == [k \in Guests |-> SeatOf(k)]
Issued == {m \in MemberId : \E c \in Conn : closureId[c] = m /\ owner[c] \in Guests}
Seats == INSTANCE Membership WITH
            Guest <- Guests, Id <- MemberId, None <- None, seat <- Seat, issued <- Issued
ImplementsMembership == Seats!Spec

-----------------------------------------------------------------------------
(* What the repository says and the code does not keep (README, section 6) *)

\* "The close event handler will call removeMember" (handleKickRequest): a kicked
\* member is removed while the session runs.
KickedMemberRemoved ==
    \A m \in MemberId, c \in Conn :
       ws[m] = c /\ sock[c] = "kicked" ~> m \notin Members \/ stopped

\* "close all connections" (stop): a stopped session has no member.
NoMemberAfterStop == stopped => Members = {}

-----------------------------------------------------------------------------
(* The inductive invariant behind the safety properties *)

\* An auth-request is the first frame of its connection, read at most once: nobody
\* authenticates twice on one socket
AuthFirst ==
    \A c \in Conn : \A i \in 1..Len(toHost[c]) :
       toHost[c][i] = "auth-request" => i = 1 /\ closureId[c] = None /\ owner[c] # None

\* Nothing is known of a socket that was never opened
UnusedIsBlank ==
    \A c \in Conn :
       sock[c] = "unused" => closureId[c] = None /\ owner[c] = None /\ toHost[c] = <<>>

\* The id a connection acts under was minted on a connection, for a client
Minted ==
    \A c \in Conn :
       closureId[c] # None =>
          closureId[c] \in Conn /\ closureId[closureId[c]] = closureId[c] /\ owner[c] # None

\* Only minted ids have a clientId
MintedMapping ==
    \A m \in MemberId : memberIdToClientId[m] # None => m \in Conn /\ closureId[m] = m

IInv ==
    /\ TypeOK
    /\ ClientIdMapsAgree
    /\ BoundToOwnSocket
    /\ AuthFirst
    /\ UnusedIsBlank
    /\ Minted
    /\ MintedMapping
===============================================================================
