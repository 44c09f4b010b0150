--------------------------- MODULE SessionHostProofs ---------------------------
(***************************************************************************)
(* Theorems about SessionHost, alone and in a session (LanSession), for     *)
(* every set of sockets and clients.  The first part is about the host,     *)
(* whose clients may do anything: type correctness, the agreement of the    *)
(* clientId maps and of the socket bindings (with the inductive invariant   *)
(* they need), the refinement of Membership.  The second part is about the  *)
(* host and its clients: what a client knows once it has read what it was   *)
(* sent.                                                                    *)
(***************************************************************************)
EXTENDS LanSession, AuthWindow, TLAPS, WellFoundedInduction

-----------------------------------------------------------------------------
\* Reading a frame leaves the rest of the queue, which holds no auth-request
LEMMA ReceiveFacts ==
  ASSUME TypeOK, AuthFirst, NEW c \in Conn, NEW type \in ClientFrame, Receive(c, type)
  PROVE  /\ toHost' \in [Conn -> Seq(ClientFrame)]
         /\ \A d \in Conn \ {c} : toHost'[d] = toHost[d]
         /\ \A i \in 1..Len(toHost'[c]) : toHost'[c][i] # "auth-request"
         /\ type = "auth-request" => closureId[c] = None /\ owner[c] # None
         /\ sock[c] # "unused"
<1>1. toHost[c] \in Seq(ClientFrame) /\ toHost[c] # <<>> /\ Head(toHost[c]) = type
  BY DEF TypeOK, Receive
<1>2. Tail(toHost[c]) \in Seq(ClientFrame)
  BY <1>1
<1>3. toHost' = [toHost EXCEPT ![c] = Tail(toHost[c])]
  BY DEF Receive
<1>4. toHost'[c] = Tail(toHost[c]) /\ \A d \in Conn \ {c} : toHost'[d] = toHost[d]
  BY <1>3 DEF TypeOK
<1>5. toHost' \in [Conn -> Seq(ClientFrame)]
  BY <1>2, <1>3 DEF TypeOK
<1>6. \A i \in 1..Len(Tail(toHost[c])) : Tail(toHost[c])[i] # "auth-request"
  <2>1. SUFFICES ASSUME NEW i \in 1..Len(Tail(toHost[c]))
                 PROVE  Tail(toHost[c])[i] # "auth-request"
    OBVIOUS
  <2>2. i + 1 \in 1..Len(toHost[c]) /\ Tail(toHost[c])[i] = toHost[c][i + 1]
    BY <1>1
  <2>3. QED
    BY <2>2 DEF AuthFirst
<1>7. type = "auth-request" => closureId[c] = None /\ owner[c] # None
  <2>1. 1 \in 1..Len(toHost[c]) /\ toHost[c][1] = type
    BY <1>1
  <2>2. QED
    BY <2>1 DEF AuthFirst
<1>8. sock[c] # "unused"
  BY DEF Receive, Readable
<1>9. QED
  BY <1>4, <1>5, <1>6, <1>7, <1>8

\* A member is bound to a socket of its own client, and its id was minted for it
LEMMA MemberFacts ==
  ASSUME IInv, NEW m \in Members
  PROVE  /\ ws[m] \in Conn
         /\ closureId[ws[m]] = m
         /\ m \in Conn /\ closureId[m] = m
         /\ memberIdToClientId[m] = owner[ws[m]]
         /\ memberIdToClientId[m] \in Client
<1>1. m \in MemberId /\ m # None /\ ws[m] # None
  BY ConstantsOK DEF Members, MemberId
<1>2. ws[m] \in Conn
  BY <1>1 DEF IInv, TypeOK
<1>3. closureId[ws[m]] = m /\ memberIdToClientId[m] = owner[ws[m]]
  BY DEF IInv, BoundToOwnSocket
<1>4. m \in Conn /\ closureId[m] = m /\ owner[ws[m]] # None
  BY <1>1, <1>2, <1>3 DEF IInv, Minted
<1>5. owner[ws[m]] \in Client
  BY <1>2, <1>4 DEF IInv, TypeOK
<1>6. QED
  BY <1>2, <1>3, <1>4, <1>5

\* Taking members out keeps the maps and the bindings of the others in agreement
LEMMA Removal ==
  ASSUME IInv, NEW S \in SUBSET Members, RemoveMembers(S),
         UNCHANGED <<owner, closureId, stopped>>
  PROVE  /\ ClientIdMapsAgree' /\ BoundToOwnSocket' /\ MintedMapping'
         /\ ws' \in [MemberId -> Conn \cup {None}]
         /\ clientIdToMemberId' \in [Client -> MemberId \cup {None}]
         /\ memberIdToClientId' \in [MemberId -> Client \cup {None}]
         /\ hostMemberId' \in MemberId \cup {None}
         /\ presence' \subseteq MemberId
         /\ tracking' \subseteq MemberId
         /\ Members' = Members \ S
<1> DEFINE cids == {memberIdToClientId[m] : m \in S}
<1>1. /\ \A m \in MemberId : ws'[m] = IF m \in S THEN None ELSE ws[m]
      /\ \A m \in MemberId :
            memberIdToClientId'[m] = IF m \in S THEN None ELSE memberIdToClientId[m]
      /\ \A k \in Client :
            clientIdToMemberId'[k] = IF k \in cids THEN None ELSE clientIdToMemberId[k]
  BY DEF RemoveMembers, IndexWithout
<1>2. /\ ws' \in [MemberId -> Conn \cup {None}]
      /\ clientIdToMemberId' \in [Client -> MemberId \cup {None}]
      /\ memberIdToClientId' \in [MemberId -> Client \cup {None}]
  BY DEF RemoveMembers, IndexWithout, IInv, TypeOK
<1>3. /\ hostMemberId' \in MemberId \cup {None}
      /\ presence' \subseteq MemberId
      /\ tracking' \subseteq MemberId
  BY DEF RemoveMembers, IndexWithout, IInv, TypeOK
<1>4. Members' = Members \ S
  BY <1>1 DEF Members
<1>5. BoundToOwnSocket'
  <2>1. SUFFICES ASSUME NEW m \in Members \ S
                 PROVE  /\ closureId'[ws'[m]] = m
                        /\ memberIdToClientId'[m] = owner'[ws'[m]]
    BY <1>4 DEF BoundToOwnSocket
  <2>2. m \in MemberId /\ ws'[m] = ws[m] /\ memberIdToClientId'[m] = memberIdToClientId[m]
    BY <1>1, <2>1 DEF Members
  <2>3. QED
    BY <2>1, <2>2, MemberFacts
<1>6. MintedMapping'
  BY <1>1 DEF IInv, MintedMapping
<1>7. ASSUME NEW k \in Client \ Loopback, clientIdToMemberId'[k] # None
      PROVE  /\ memberIdToClientId'[clientIdToMemberId'[k]] = k
             /\ clientIdToMemberId'[k] \notin Members' => stopped'
  <2>1. k \notin cids /\ clientIdToMemberId'[k] = clientIdToMemberId[k]
    BY <1>1, <1>7
  <2>2. /\ memberIdToClientId[clientIdToMemberId[k]] = k
        /\ clientIdToMemberId[k] \notin Members => stopped
    BY <1>7, <2>1 DEF IInv, ClientIdMapsAgree
  <2>3. clientIdToMemberId[k] \in MemberId \ S
    BY <1>7, <2>1, <2>2 DEF IInv, TypeOK
  <2>4. QED
    BY <1>1, <1>4, <2>1, <2>2, <2>3
<1>8. ASSUME NEW m \in Members \ S, memberIdToClientId'[m] \notin Loopback
      PROVE  clientIdToMemberId'[memberIdToClientId'[m]] = m
  <2>1. m \in MemberId /\ memberIdToClientId'[m] = memberIdToClientId[m]
    BY <1>1 DEF Members
  <2>2. /\ memberIdToClientId[m] \in Client
        /\ clientIdToMemberId[memberIdToClientId[m]] = m
    BY <1>8, <2>1, MemberFacts DEF IInv, ClientIdMapsAgree
  <2>3. memberIdToClientId[m] \notin cids
    <3>1. SUFFICES ASSUME NEW n \in S, memberIdToClientId[n] = memberIdToClientId[m]
                   PROVE  FALSE
      OBVIOUS
    <3>2. clientIdToMemberId[memberIdToClientId[n]] = n
      BY <1>8, <2>1, <3>1 DEF IInv, ClientIdMapsAgree
    <3>3. QED
      BY <1>8, <2>2, <3>1, <3>2
  <2>4. QED
    BY <1>1, <2>1, <2>2, <2>3
<1>9. ClientIdMapsAgree'
  BY <1>4, <1>7, <1>8 DEF ClientIdMapsAgree
<1>10. QED
  BY <1>2, <1>3, <1>4, <1>5, <1>6, <1>9

\* A step that leaves members, clientId maps and closures alone keeps what is said
\* of them
LEMMA Untouched ==
  ASSUME IInv, UNCHANGED <<owner, closureId, ws, mapVars, stopped>>
  PROVE  /\ ClientIdMapsAgree' /\ BoundToOwnSocket' /\ Minted' /\ MintedMapping'
         /\ Members' = Members
BY DEF IInv, mapVars, ClientIdMapsAgree, BoundToOwnSocket, Minted, MintedMapping, Members

\* A step that opens no socket and adds no auth-request keeps what is said of queues
LEMMA QueuesKept ==
  ASSUME IInv, UNCHANGED <<owner, closureId>>,
         \A c \in Conn : \/ toHost'[c] = toHost[c]
                         \/ \A i \in 1..Len(toHost'[c]) : toHost'[c][i] # "auth-request",
         \A c \in Conn : sock'[c] = "unused" => sock[c] = "unused" /\ toHost'[c] = toHost[c]
  PROVE  AuthFirst' /\ UnusedIsBlank'
<1>1. ASSUME NEW c \in Conn, NEW i \in 1..Len(toHost'[c]), toHost'[c][i] = "auth-request"
      PROVE  i = 1 /\ closureId'[c] = None /\ owner'[c] # None
  <2>1. toHost'[c] = toHost[c]
    BY <1>1
  <2>2. i \in 1..Len(toHost[c]) /\ toHost[c][i] = "auth-request"
    BY <1>1, <2>1
  <2>3. i = 1 /\ closureId[c] = None /\ owner[c] # None
    BY <2>2 DEF IInv, AuthFirst
  <2>4. QED
    BY <2>3
<1>2. AuthFirst'
  BY <1>1 DEF AuthFirst
<1>3. UnusedIsBlank'
  BY DEF IInv, UnusedIsBlank
<1>4. QED
  BY <1>2, <1>3

LEMMA CloseType ==
  ASSUME TypeOK, NEW c \in Conn, NEW how \in {"closing", "kicked"}
  PROVE  /\ Close(c, how) \in {"unused", "open", "closing", "kicked", "terminated", "closed"}
         /\ Close(c, how) = "unused" => sock[c] = "unused"
BY DEF TypeOK, Close

-----------------------------------------------------------------------------
(* Each action keeps the invariant *)

LEMMA OpenStep ==
  ASSUME IInv, NEW c \in Conn, NEW k \in Client, Open(c, k)
  PROVE  IInv'
<1>1. /\ closureId[c] = None /\ owner[c] = None
      /\ owner' = [owner EXCEPT ![c] = k]
      /\ toHost' = [toHost EXCEPT ![c] = <<"auth-request">>]
      /\ sock' = [sock EXCEPT ![c] = "open"]
      /\ UNCHANGED <<closureId, ws, clientIdToMemberId, memberIdToClientId, stopped>>
  BY DEF Open, mapVars, IInv, UnusedIsBlank
<1>2. TypeOK'
  <2>1. <<"auth-request">> \in Seq(ClientFrame)
    BY DEF ClientFrame
  <2>2. QED
    BY <2>1 DEF Open, mapVars, IInv, TypeOK
<1>3. ClientIdMapsAgree' /\ MintedMapping' /\ Members' = Members
  BY <1>1 DEF IInv, ClientIdMapsAgree, MintedMapping, Members
<1>4. Minted'
  BY <1>1, ConstantsOK DEF IInv, Minted, TypeOK
<1>5. BoundToOwnSocket'
  <2>1. SUFFICES ASSUME NEW m \in Members
                 PROVE  /\ closureId'[ws'[m]] = m
                        /\ memberIdToClientId'[m] = owner'[ws'[m]]
    BY <1>3 DEF BoundToOwnSocket
  <2>2. ws[m] # c /\ ws[m] \in Conn /\ closureId[ws[m]] = m
        /\ memberIdToClientId[m] = owner[ws[m]]
    BY <1>1, MemberFacts, ConstantsOK
  <2>3. QED
    BY <1>1, <2>2 DEF IInv, TypeOK
<1>6. AuthFirst'
  <2>1. k # None
    BY ConstantsOK
  <2>2. ASSUME NEW d \in Conn, NEW i \in 1..Len(toHost'[d]), toHost'[d][i] = "auth-request"
        PROVE  i = 1 /\ closureId'[d] = None /\ owner'[d] # None
    <3>1. CASE d = c
      <4>1. toHost'[d] = <<"auth-request">> /\ owner'[d] = k
        BY <1>1, <3>1 DEF IInv, TypeOK
      <4>2. QED
        BY <1>1, <2>1, <2>2, <3>1, <4>1
    <3>2. CASE d # c
      <4>1. toHost'[d] = toHost[d] /\ owner'[d] = owner[d]
        BY <1>1, <3>2 DEF IInv, TypeOK
      <4>2. i \in 1..Len(toHost[d]) /\ toHost[d][i] = "auth-request"
        BY <2>2, <4>1
      <4>3. QED
        BY <1>1, <4>1, <4>2 DEF IInv, AuthFirst
    <3>3. QED
      BY <3>1, <3>2
  <2>3. QED
    BY <2>2 DEF AuthFirst
<1>7. UnusedIsBlank'
  BY <1>1 DEF IInv, UnusedIsBlank, TypeOK
<1>8. QED
  BY <1>2, <1>3, <1>4, <1>5, <1>6, <1>7 DEF IInv

\* Steps that only touch the wire, sockets, timers and the host's side tables
LEMMA QuietStep ==
  ASSUME IInv, TypeOK', AuthFirst', UnusedIsBlank',
         UNCHANGED <<owner, closureId, ws, mapVars, stopped>>
  PROVE  IInv'
BY Untouched DEF IInv

LEMMA PeerDownStep ==
  ASSUME IInv, NEW c \in Conn, PeerDown(c)
  PROVE  IInv'
<1>1. TypeOK'
  BY DEF PeerDown, hostVars, mapVars, IInv, TypeOK
<1>2. UNCHANGED <<owner, closureId, ws, mapVars, stopped, toHost, sock>>
  BY DEF PeerDown, hostVars
<1>3. AuthFirst' /\ UnusedIsBlank'
  BY <1>2, QueuesKept
<1>4. QED
  BY <1>1, <1>2, <1>3, QuietStep

\* A client sends a frame that is no auth-request
LEMMA FrameSent ==
  ASSUME IInv, NEW c \in Conn, NEW type \in ClientFrame \ {"auth-request"}, Readable(c),
         toHost' = [toHost EXCEPT ![c] = Append(@, type)], sent' \in 0..MaxData,
         UNCHANGED <<owner, peer, sock, pongDue, closureId, authTimer, ws, isAlive, mapVars,
                     hostMemberId, presence, tracking, stopped>>
  PROVE  IInv'
<1>1. /\ UNCHANGED <<owner, closureId, ws, mapVars, stopped, sock>>
      /\ toHost' = [toHost EXCEPT ![c] = Append(toHost[c], type)]
      /\ sock[c] # "unused"
  BY DEF Readable
<1>2. toHost[c] \in Seq(ClientFrame) /\ type # "auth-request" /\ type \in ClientFrame
  BY DEF IInv, TypeOK
<1>3. TypeOK'
  <2>1. Append(toHost[c], type) \in Seq(ClientFrame)
    BY <1>2
  <2>2. QED
    BY <1>1, <2>1 DEF mapVars, IInv, TypeOK
<1>4. AuthFirst'
  <2>1. ASSUME NEW d \in Conn, NEW i \in 1..Len(toHost'[d]), toHost'[d][i] = "auth-request"
        PROVE  i = 1 /\ closureId'[d] = None /\ owner'[d] # None
    <3>1. CASE d = c
      <4>1. toHost'[d] = Append(toHost[d], type)
        BY <1>1, <3>1 DEF IInv, TypeOK
      <4>2. Len(toHost'[d]) = Len(toHost[d]) + 1
        BY <1>2, <3>1, <4>1
      <4>3. i \in 1..Len(toHost[d]) /\ toHost[d][i] = "auth-request"
        BY <1>2, <2>1, <3>1, <4>1, <4>2
      <4>4. QED
        BY <1>1, <4>3 DEF IInv, AuthFirst
    <3>2. CASE d # c
      <4>1. toHost'[d] = toHost[d]
        BY <1>1, <3>2 DEF IInv, TypeOK
      <4>2. i \in 1..Len(toHost[d]) /\ toHost[d][i] = "auth-request"
        BY <2>1, <4>1
      <4>3. QED
        BY <1>1, <4>2 DEF IInv, AuthFirst
    <3>3. QED
      BY <3>1, <3>2
  <2>2. QED
    BY <2>1 DEF AuthFirst
<1>5. UnusedIsBlank'
  BY <1>1 DEF IInv, UnusedIsBlank, TypeOK
<1>6. QED
  BY <1>1, <1>3, <1>4, <1>5, QuietStep

LEMMA ClientSendStep ==
  ASSUME IInv, NEW c \in Conn, NEW type \in ClientFrame \ {"auth-request"},
         ClientSend(c, type)
  PROVE  IInv'
<1>1. sent' \in 0..MaxData
  BY ConstantsOK DEF ClientSend, IInv, TypeOK
<1>2. QED
  BY <1>1, FrameSent DEF ClientSend

\* What reading a frame does to the queues
LEMMA Reading ==
  ASSUME IInv, NEW c \in Conn, NEW type \in ClientFrame, Receive(c, type)
  PROVE  /\ toHost' \in [Conn -> Seq(ClientFrame)]
         /\ sock[c] # "unused"
         /\ \A d \in Conn : \/ toHost'[d] = toHost[d]
                            \/ \A i \in 1..Len(toHost'[d]) : toHost'[d][i] # "auth-request"
         /\ \A d \in Conn : d # c => toHost'[d] = toHost[d]
         /\ \A i \in 1..Len(toHost'[c]) : toHost'[c][i] # "auth-request"
         /\ type = "auth-request" => closureId[c] = None /\ owner[c] # None
<1>1. TypeOK /\ AuthFirst
  BY DEF IInv
<1>2. QED
  BY <1>1, ReceiveFacts

LEMMA RejectAuthStep ==
  ASSUME IInv, NEW c \in Conn, RejectAuth(c)
  PROVE  IInv'
<1>1. Receive(c, "auth-request") /\ "auth-request" \in ClientFrame
  BY DEF RejectAuth, ClientFrame
<1>2. UNCHANGED <<owner, closureId, ws, mapVars, stopped>>
      /\ sock' = [sock EXCEPT ![c] = Close(c, "closing")]
  BY DEF RejectAuth
<1>3. TypeOK'
  BY <1>1, Reading, CloseType DEF RejectAuth, mapVars, IInv, TypeOK
<1>4. \A d \in Conn : sock'[d] = "unused" => sock[d] = "unused" /\ toHost'[d] = toHost[d]
  BY <1>1, <1>2, Reading, CloseType DEF IInv, TypeOK
<1>5. AuthFirst' /\ UnusedIsBlank'
  BY <1>1, <1>2, <1>4, Reading, QueuesKept
<1>6. QED
  BY <1>2, <1>3, <1>5, QuietStep

LEMMA PresenceUpdateStep ==
  ASSUME IInv, NEW c \in Conn, PresenceUpdate(c)
  PROVE  IInv'
<1>1. Receive(c, "presence-update") /\ "presence-update" \in ClientFrame
  BY DEF PresenceUpdate, ClientFrame
<1>2. UNCHANGED <<owner, closureId, ws, mapVars, stopped, sock>>
  BY DEF PresenceUpdate
<1>3. TypeOK'
  BY <1>1, Reading DEF PresenceUpdate, Sender, mapVars, IInv, TypeOK
<1>4. AuthFirst' /\ UnusedIsBlank'
  BY <1>1, <1>2, Reading, QueuesKept
<1>5. QED
  BY <1>2, <1>3, <1>4, QuietStep

LEMMA TrackedPathsUpdateStep ==
  ASSUME IInv, NEW c \in Conn, TrackedPathsUpdate(c)
  PROVE  IInv'
<1>1. Receive(c, "tracked-paths-update") /\ "tracked-paths-update" \in ClientFrame
  BY DEF TrackedPathsUpdate, ClientFrame
<1>2. UNCHANGED <<owner, closureId, ws, mapVars, stopped, sock>>
  BY DEF TrackedPathsUpdate
<1>3. TypeOK'
  BY <1>1, Reading DEF TrackedPathsUpdate, Sender, mapVars, IInv, TypeOK
<1>4. AuthFirst' /\ UnusedIsBlank'
  BY <1>1, <1>2, Reading, QueuesKept
<1>5. QED
  BY <1>2, <1>3, <1>4, QuietStep

LEMMA PongStep ==
  ASSUME IInv, NEW c \in Conn, Pong(c)
  PROVE  IInv'
<1>1. UNCHANGED <<owner, closureId, ws, mapVars, stopped, sock, toHost>>
  BY DEF Pong
<1>2. TypeOK'
  BY DEF Pong, mapVars, IInv, TypeOK, Members
<1>3. AuthFirst' /\ UnusedIsBlank'
  BY <1>1, QueuesKept
<1>4. QED
  BY <1>1, <1>2, <1>3, QuietStep

LEMMA AuthTimeoutStep ==
  ASSUME IInv, NEW c \in Conn, AuthTimeout(c)
  PROVE  IInv'
<1>1. UNCHANGED <<owner, closureId, ws, mapVars, stopped, toHost>>
      /\ sock' = [sock EXCEPT ![c] = Close(c, "closing")]
  BY DEF AuthTimeout
<1>2. TypeOK'
  BY CloseType DEF AuthTimeout, mapVars, IInv, TypeOK
<1>3. \A d \in Conn : sock'[d] = "unused" => sock[d] = "unused"
  BY <1>1, CloseType DEF IInv, TypeOK
<1>4. AuthFirst' /\ UnusedIsBlank'
  BY <1>1, <1>3, QueuesKept
<1>5. QED
  BY <1>1, <1>2, <1>4, QuietStep

LEMMA KickMemberStep ==
  ASSUME IInv, NEW m \in MemberId, KickMember(m)
  PROVE  IInv'
<1>1. UNCHANGED <<owner, closureId, ws, mapVars, stopped, toHost>>
      /\ sock' = [sock EXCEPT ![ws[m]] = Close(ws[m], "kicked")]
      /\ m \in Members
  BY DEF KickMember
<1>2. ws[m] \in Conn
  BY <1>1, MemberFacts
<1>3. TypeOK'
  BY <1>2, CloseType DEF KickMember, mapVars, IInv, TypeOK
<1>4. \A d \in Conn : sock'[d] = "unused" => sock[d] = "unused"
  BY <1>1, <1>2, CloseType DEF IInv, TypeOK
<1>5. AuthFirst' /\ UnusedIsBlank'
  BY <1>1, <1>4, QueuesKept
<1>6. QED
  BY <1>1, <1>3, <1>5, QuietStep

LEMMA HostPresenceStep ==
  ASSUME IInv, HostPresence
  PROVE  IInv'
<1>1. UNCHANGED <<owner, closureId, ws, mapVars, stopped, toHost, sock>>
  BY DEF HostPresence
<1>2. sent' \in 0..MaxData
  BY ConstantsOK DEF HostPresence, IInv, TypeOK
<1>3. TypeOK'
  BY <1>2 DEF HostPresence, mapVars, IInv, TypeOK, MemberId
<1>4. AuthFirst' /\ UnusedIsBlank'
  BY <1>1, QueuesKept
<1>5. QED
  BY <1>1, <1>3, <1>4, QuietStep

\* A seated guest's id, and the socket behind it
LEMMA SeatFacts ==
  ASSUME IInv, NEW k \in Client, SeatOf(k) # None
  PROVE  /\ k \notin Loopback
         /\ SeatOf(k) = clientIdToMemberId[k]
         /\ SeatOf(k) \in Members
         /\ memberIdToClientId[SeatOf(k)] = k
<1>1. /\ k \notin Loopback /\ clientIdToMemberId[k] # None
      /\ SeatOf(k) = clientIdToMemberId[k] /\ ws[clientIdToMemberId[k]] # None
  BY DEF SeatOf
<1>2. clientIdToMemberId[k] \in MemberId
  BY <1>1 DEF IInv, TypeOK
<1>3. QED
  BY <1>1, <1>2 DEF Members, IInv, ClientIdMapsAgree

LEMMA RebindStep ==
  ASSUME IInv, NEW c \in Conn, Rebind(c)
  PROVE  IInv'
<1> DEFINE k == owner[c]
           m == SeatOf(k)
<1>1. Receive(c, "auth-request") /\ "auth-request" \in ClientFrame
  BY DEF Rebind, ClientFrame
<1>2. /\ closureId[c] = None /\ k \in Client /\ m # None
      /\ toHost' \in [Conn -> Seq(ClientFrame)]
      /\ sock[c] # "unused"
      /\ \A d \in Conn : d # c => toHost'[d] = toHost[d]
      /\ \A i \in 1..Len(toHost'[c]) : toHost'[c][i] # "auth-request"
  BY <1>1, Reading DEF Rebind, IInv, TypeOK
<1>3. /\ k \notin Loopback /\ m = clientIdToMemberId[k] /\ m \in Members
      /\ memberIdToClientId[m] = k
  BY <1>2, SeatFacts
<1>4. /\ ws[m] \in Conn /\ closureId[ws[m]] = m /\ ws[m] # c
      /\ m \in Conn /\ closureId[m] = m /\ m # c /\ m # None /\ m \in MemberId
  BY <1>2, <1>3, MemberFacts, ConstantsOK DEF Members
<1>5. /\ closureId' = [closureId EXCEPT ![c] = m]
      /\ ws' = [ws EXCEPT ![m] = c]
      /\ clientIdToMemberId' = [clientIdToMemberId EXCEPT ![k] = m]
      /\ memberIdToClientId' = [memberIdToClientId EXCEPT ![m] = k]
      /\ sock' = [d \in Conn |-> IF d = ws[m] /\ d # c THEN Close(d, "closing") ELSE sock[d]]
      /\ UNCHANGED <<owner, stopped>>
  BY DEF Rebind, SetMemberId, Remember
<1>6. clientIdToMemberId' = clientIdToMemberId /\ memberIdToClientId' = memberIdToClientId
  BY <1>2, <1>3, <1>4, <1>5 DEF IInv, TypeOK
<1>7. Members' = Members
  BY <1>3, <1>4, <1>5, ConstantsOK DEF Members, IInv, TypeOK
<1>8. ClientIdMapsAgree'
  BY <1>5, <1>6, <1>7 DEF IInv, ClientIdMapsAgree
<1>9. BoundToOwnSocket'
  <2>1. SUFFICES ASSUME NEW n \in Members
                 PROVE  /\ closureId'[ws'[n]] = n
                        /\ memberIdToClientId'[n] = owner'[ws'[n]]
    BY <1>7 DEF BoundToOwnSocket
  <2>2. CASE n = m
    BY <1>3, <1>4, <1>5, <1>6, <2>2 DEF IInv, TypeOK
  <2>3. CASE n # m
    <3>1. /\ ws[n] \in Conn /\ closureId[ws[n]] = n /\ n # None /\ n \in MemberId
          /\ memberIdToClientId[n] = owner[ws[n]]
      BY MemberFacts, ConstantsOK DEF Members
    <3>2. ws[n] # c /\ ws'[n] = ws[n]
      BY <1>2, <1>5, <2>3, <3>1 DEF IInv, TypeOK
    <3>3. QED
      BY <1>5, <1>6, <3>1, <3>2 DEF IInv, TypeOK
  <2>4. QED
    BY <2>2, <2>3
<1>10. TypeOK'
  <2>1. \A d \in Conn : sock'[d] \in {"unused", "open", "closing", "kicked", "terminated", "closed"}
    BY <1>5, CloseType DEF IInv, TypeOK
  <2>2. isAlive' \subseteq MemberId /\ authTimer' \subseteq Conn
    BY <1>4 DEF Rebind, IInv, TypeOK
  <2>3. sock' \in [Conn -> {"unused", "open", "closing", "kicked", "terminated", "closed"}]
    BY <1>5, <2>1
  <2>4. /\ closureId' \in [Conn -> MemberId \cup {None}]
        /\ ws' \in [MemberId -> Conn \cup {None}]
        /\ clientIdToMemberId' \in [Client -> MemberId \cup {None}]
        /\ memberIdToClientId' \in [MemberId -> Client \cup {None}]
    BY <1>4, <1>5, <1>6 DEF IInv, TypeOK
  <2>5. UNCHANGED <<owner, peer, pongDue, sent, hostMemberId, presence, tracking, stopped>>
    BY DEF Rebind, SetMemberId, Remember
  <2>6. QED
    BY <1>2, <2>2, <2>3, <2>4, <2>5 DEF IInv, TypeOK
<1>11. Minted'
  <2>1. SUFFICES ASSUME NEW d \in Conn, closureId'[d] # None
                 PROVE  /\ closureId'[d] \in Conn /\ owner'[d] # None
                        /\ closureId'[closureId'[d]] = closureId'[d]
    BY DEF Minted
  <2>2. closureId'[m] = m /\ closureId'[c] = m
    BY <1>4, <1>5 DEF IInv, TypeOK
  <2>3. CASE d = c
    BY <1>2, <1>4, <1>5, <2>2, <2>3, ConstantsOK
  <2>4. CASE d # c
    <3>1. closureId'[d] = closureId[d]
      BY <1>5, <2>4 DEF IInv, TypeOK
    <3>2. /\ closureId[d] \in Conn /\ closureId[closureId[d]] = closureId[d]
          /\ owner[d] # None
      BY <2>1, <3>1 DEF IInv, Minted
    <3>3. closureId[d] # c
      BY <1>2, <2>1, <3>1, <3>2
    <3>4. closureId'[closureId[d]] = closureId[closureId[d]]
      BY <1>5, <3>2, <3>3 DEF IInv, TypeOK
    <3>5. QED
      BY <1>5, <3>1, <3>2, <3>4
  <2>5. QED
    BY <2>3, <2>4
<1>12. MintedMapping'
  BY <1>2, <1>5, <1>6, ConstantsOK DEF IInv, MintedMapping, TypeOK
<1>13. AuthFirst'
  <2>1. ASSUME NEW d \in Conn, NEW i \in 1..Len(toHost'[d]), toHost'[d][i] = "auth-request"
        PROVE  i = 1 /\ closureId'[d] = None /\ owner'[d] # None
    <3>1. d # c
      BY <1>2, <2>1
    <3>2. toHost'[d] = toHost[d] /\ closureId'[d] = closureId[d]
      BY <1>2, <1>5, <3>1 DEF IInv, TypeOK
    <3>3. i \in 1..Len(toHost[d]) /\ toHost[d][i] = "auth-request"
      BY <2>1, <3>2
    <3>4. QED
      BY <1>5, <3>2, <3>3 DEF IInv, AuthFirst
  <2>2. QED
    BY <2>1 DEF AuthFirst
<1>14. UnusedIsBlank'
  <2>1. ASSUME NEW d \in Conn, sock'[d] = "unused"
        PROVE  closureId'[d] = None /\ owner'[d] = None /\ toHost'[d] = <<>>
    <3>1. sock[d] = "unused"
      BY <1>5, <2>1, CloseType DEF IInv, TypeOK
    <3>2. d # c
      BY <1>2, <3>1
    <3>3. QED
      BY <1>2, <1>5, <3>1, <3>2 DEF IInv, UnusedIsBlank, TypeOK
  <2>2. QED
    BY <2>1 DEF UnusedIsBlank
<1>15. QED
  BY <1>8, <1>9, <1>10, <1>11, <1>12, <1>13, <1>14 DEF IInv

LEMMA JoinStep ==
  ASSUME IInv, NEW c \in Conn, Join(c)
  PROVE  IInv' /\ Members' = Members \cup {c} /\ c \notin Members
<1> DEFINE k == owner[c]
           stale == IF k \in Loopback THEN None ELSE clientIdToMemberId[k]
<1>1. Receive(c, "auth-request") /\ "auth-request" \in ClientFrame
  BY DEF Join, ClientFrame
<1>2. /\ closureId[c] = None /\ k \in Client /\ SeatOf(k) = None
      /\ toHost' \in [Conn -> Seq(ClientFrame)]
      /\ sock[c] # "unused"
      /\ \A d \in Conn : d # c => toHost'[d] = toHost[d]
      /\ \A i \in 1..Len(toHost'[c]) : toHost'[c][i] # "auth-request"
  BY <1>1, Reading DEF Join, IInv, TypeOK
<1>3. /\ closureId' = [closureId EXCEPT ![c] = c]
      /\ ws' = [ws EXCEPT ![c] = c]
      /\ clientIdToMemberId' = [clientIdToMemberId EXCEPT ![k] = c]
      /\ memberIdToClientId' = [m \in MemberId |->
                                  IF m = c THEN k
                                  ELSE IF m = stale /\ memberIdToClientId[m] = k THEN None
                                  ELSE memberIdToClientId[m]]
      /\ UNCHANGED <<owner, sock, stopped>>
  BY DEF Join, SetMemberId, Remember
<1>4. c \in MemberId /\ c # None /\ k # None
  BY <1>2, ConstantsOK DEF MemberId
<1>5. c \notin Members /\ memberIdToClientId[c] = None
  BY <1>2, <1>4, MemberFacts DEF IInv, MintedMapping
<1>6. Members' = Members \cup {c}
  BY <1>3, <1>4 DEF Members, IInv, TypeOK
<1>7. stale \notin Members
  <2>1. CASE k \in Loopback
    BY <2>1, ConstantsOK DEF Members, MemberId
  <2>2. CASE k \notin Loopback
    BY <1>2, <2>2, ConstantsOK DEF Members, SeatOf, MemberId
  <2>3. QED
    BY <2>1, <2>2
<1>8. \A m \in Members : memberIdToClientId'[m] = memberIdToClientId[m]
  BY <1>3, <1>5, <1>7 DEF Members
<1>9. BoundToOwnSocket'
  <2>1. SUFFICES ASSUME NEW n \in Members \cup {c}
                 PROVE  /\ closureId'[ws'[n]] = n
                        /\ memberIdToClientId'[n] = owner'[ws'[n]]
    BY <1>6 DEF BoundToOwnSocket
  <2>2. CASE n = c
    BY <1>3, <1>4, <2>2 DEF IInv, TypeOK
  <2>3. CASE n # c
    <3>1. /\ n \in Members /\ ws[n] \in Conn /\ closureId[ws[n]] = n /\ n # None
          /\ memberIdToClientId[n] = owner[ws[n]] /\ n \in MemberId
      BY <2>3, MemberFacts, ConstantsOK DEF Members
    <3>2. ws[n] # c /\ ws'[n] = ws[n]
      BY <1>2, <1>3, <2>3, <3>1 DEF IInv, TypeOK
    <3>3. QED
      BY <1>3, <1>8, <3>1, <3>2 DEF IInv, TypeOK
  <2>4. QED
    BY <2>2, <2>3
<1>10. ASSUME NEW j \in Client \ Loopback, clientIdToMemberId'[j] # None
       PROVE  /\ memberIdToClientId'[clientIdToMemberId'[j]] = j
              /\ clientIdToMemberId'[j] \notin Members' => stopped'
  <2>1. CASE j = k
    <3>1. clientIdToMemberId'[j] = c
      BY <1>2, <1>3, <2>1 DEF IInv, TypeOK
    <3>2. QED
      BY <1>3, <1>4, <1>6, <2>1, <3>1
  <2>2. CASE j # k
    <3>1. clientIdToMemberId'[j] = clientIdToMemberId[j]
      BY <1>2, <1>3, <2>2 DEF IInv, TypeOK
    <3>2. /\ memberIdToClientId[clientIdToMemberId[j]] = j
          /\ clientIdToMemberId[j] \notin Members => stopped
      BY <1>10, <3>1 DEF IInv, ClientIdMapsAgree
    <3>3. clientIdToMemberId[j] \in MemberId /\ clientIdToMemberId[j] # c /\ j # None
      BY <1>5, <1>10, <3>1, <3>2, ConstantsOK DEF IInv, TypeOK
    <3>4. QED
      BY <1>3, <1>6, <2>2, <3>1, <3>2, <3>3
  <2>3. QED
    BY <2>1, <2>2
<1>11. ASSUME NEW m \in Members \cup {c}, memberIdToClientId'[m] \notin Loopback
       PROVE  clientIdToMemberId'[memberIdToClientId'[m]] = m
  <2>1. CASE m = c
    BY <1>2, <1>3, <1>4, <2>1 DEF IInv, TypeOK
  <2>2. CASE m # c
    <3>1. m \in Members /\ memberIdToClientId'[m] = memberIdToClientId[m]
      BY <1>8, <2>2
    <3>2. /\ memberIdToClientId[m] \in Client
          /\ clientIdToMemberId[memberIdToClientId[m]] = m
      BY <1>11, <3>1, MemberFacts DEF IInv, ClientIdMapsAgree
    <3>3. memberIdToClientId[m] # k
      <4>1. SUFFICES ASSUME memberIdToClientId[m] = k PROVE FALSE
        OBVIOUS
      <4>2. k \notin Loopback /\ clientIdToMemberId[k] = m
        BY <1>11, <3>1, <3>2, <4>1
      <4>3. QED
        BY <1>7, <3>1, <4>2
    <3>4. QED
      BY <1>3, <3>1, <3>2, <3>3 DEF IInv, TypeOK
  <2>3. QED
    BY <2>1, <2>2
<1>12. ClientIdMapsAgree'
  BY <1>6, <1>10, <1>11 DEF ClientIdMapsAgree
<1>13. TypeOK'
  <2>1. /\ authTimer' \subseteq Conn /\ isAlive' \subseteq MemberId
        /\ presence' \subseteq MemberId /\ hostMemberId' \in MemberId \cup {None}
    BY <1>4 DEF Join, IInv, TypeOK
  <2>2. /\ closureId' \in [Conn -> MemberId \cup {None}]
        /\ ws' \in [MemberId -> Conn \cup {None}]
        /\ clientIdToMemberId' \in [Client -> MemberId \cup {None}]
        /\ memberIdToClientId' \in [MemberId -> Client \cup {None}]
    BY <1>2, <1>3, <1>4 DEF IInv, TypeOK
  <2>3. QED
    BY <1>2, <2>1, <2>2 DEF Join, IInv, TypeOK
<1>14. Minted'
  BY <1>2, <1>3, <1>4 DEF IInv, Minted, TypeOK
<1>15. MintedMapping'
  BY <1>2, <1>3, <1>4 DEF IInv, MintedMapping, TypeOK
<1>16. AuthFirst'
  <2>1. ASSUME NEW d \in Conn, NEW i \in 1..Len(toHost'[d]), toHost'[d][i] = "auth-request"
        PROVE  i = 1 /\ closureId'[d] = None /\ owner'[d] # None
    <3>1. d # c
      BY <1>2, <2>1
    <3>2. toHost'[d] = toHost[d] /\ closureId'[d] = closureId[d]
      BY <1>2, <1>3, <3>1 DEF IInv, TypeOK
    <3>3. i \in 1..Len(toHost[d]) /\ toHost[d][i] = "auth-request"
      BY <2>1, <3>2
    <3>4. QED
      BY <1>3, <3>2, <3>3 DEF IInv, AuthFirst
  <2>2. QED
    BY <2>1 DEF AuthFirst
<1>17. UnusedIsBlank'
  BY <1>2, <1>3 DEF IInv, UnusedIsBlank, TypeOK
<1>18. QED
  BY <1>5, <1>6, <1>9, <1>12, <1>13, <1>14, <1>15, <1>16, <1>17 DEF IInv

LEMMA CloseEventStep ==
  ASSUME IInv, NEW c \in Conn, CloseEvent(c)
  PROVE  IInv' /\ Members' = Members \ LostWith(c)
<1>1. LostWith(c) \in SUBSET Members
  BY DEF LostWith
<1>2. /\ RemoveMembers(LostWith(c)) /\ UNCHANGED <<owner, closureId, stopped>>
      /\ sock' = [sock EXCEPT ![c] = "closed"]
      /\ toHost' = [toHost EXCEPT ![c] = <<>>]
      /\ sock[c] # "unused"
  BY DEF CloseEvent
<1>3. /\ ClientIdMapsAgree' /\ BoundToOwnSocket' /\ MintedMapping'
      /\ ws' \in [MemberId -> Conn \cup {None}]
      /\ clientIdToMemberId' \in [Client -> MemberId \cup {None}]
      /\ memberIdToClientId' \in [MemberId -> Client \cup {None}]
      /\ hostMemberId' \in MemberId \cup {None}
      /\ presence' \subseteq MemberId
      /\ tracking' \subseteq MemberId
      /\ Members' = Members \ LostWith(c)
  BY <1>1, <1>2, Removal
<1>4. TypeOK'
  <2>1. toHost' \in [Conn -> Seq(ClientFrame)]
    BY <1>2 DEF IInv, TypeOK
  <2>2. pongDue' \subseteq Conn /\ authTimer' \subseteq Conn /\ isAlive' \subseteq MemberId
    BY DEF CloseEvent, IInv, TypeOK
  <2>3. QED
    BY <1>2, <1>3, <2>1, <2>2 DEF CloseEvent, IInv, TypeOK
<1>5. AuthFirst' /\ UnusedIsBlank'
  <2>1. \A d \in Conn : toHost'[d] = IF d = c THEN <<>> ELSE toHost[d]
    BY <1>2 DEF IInv, TypeOK
  <2>2. \A d \in Conn : sock'[d] = "unused" => sock[d] = "unused" /\ toHost'[d] = toHost[d]
    BY <1>2, <2>1 DEF IInv, TypeOK
  <2>3. \A d \in Conn : \/ toHost'[d] = toHost[d]
                        \/ \A i \in 1..Len(toHost'[d]) : toHost'[d][i] # "auth-request"
    BY <2>1
  <2>4. QED
    BY <1>2, <2>2, <2>3, QueuesKept
<1>6. Minted'
  BY <1>2 DEF IInv, Minted
<1>7. QED
  BY <1>3, <1>4, <1>5, <1>6 DEF IInv

LEMMA HeartbeatStep ==
  ASSUME IInv, HeartbeatTick
  PROVE  IInv' /\ Members' = Members \ (Members \ isAlive)
<1> DEFINE dead == Members \ isAlive
           cut == {ws[m] : m \in dead}
           pinged == {c \in Conn : sock[c] = "open" /\ \E m \in Members \ dead : ws[m] = c}
<1>1. dead \in SUBSET Members
  OBVIOUS
<1>2. /\ RemoveMembers(dead) /\ UNCHANGED <<owner, closureId, stopped>>
      /\ sock' = [c \in Conn |-> IF c \in cut /\ Readable(c) THEN "terminated" ELSE sock[c]]
      /\ toHost' = [c \in Conn |-> IF c \in cut THEN <<>> ELSE toHost[c]]
      /\ pongDue' = (pongDue \ cut) \cup {c \in pinged : peer[c] = "up"}
  BY DEF HeartbeatTick
<1>3. /\ ClientIdMapsAgree' /\ BoundToOwnSocket' /\ MintedMapping'
      /\ ws' \in [MemberId -> Conn \cup {None}]
      /\ clientIdToMemberId' \in [Client -> MemberId \cup {None}]
      /\ memberIdToClientId' \in [MemberId -> Client \cup {None}]
      /\ hostMemberId' \in MemberId \cup {None}
      /\ presence' \subseteq MemberId
      /\ tracking' \subseteq MemberId
      /\ Members' = Members \ dead
  BY <1>1, <1>2, Removal
<1>4. \A c \in cut : sock[c] # "unused"
  <2>1. SUFFICES ASSUME NEW m \in Members, sock[ws[m]] = "unused" PROVE FALSE
    OBVIOUS
  <2>2. ws[m] \in Conn /\ closureId[ws[m]] = m /\ m # None
    BY MemberFacts, ConstantsOK
  <2>3. QED
    BY <2>1, <2>2 DEF IInv, UnusedIsBlank
<1>5. TypeOK'
  <2>1. <<>> \in Seq(ClientFrame)
    OBVIOUS
  <2>2. toHost' \in [Conn -> Seq(ClientFrame)]
    BY <1>2, <2>1 DEF IInv, TypeOK
  <2>3. sock' \in [Conn -> {"unused", "open", "closing", "kicked", "terminated", "closed"}]
    BY <1>2 DEF IInv, TypeOK
  <2>4. pongDue' \subseteq Conn
    BY <1>2 DEF IInv, TypeOK
  <2>5. QED
    BY <1>2, <1>3, <2>2, <2>3, <2>4 DEF HeartbeatTick, AwaitPong, IInv, TypeOK
<1>6. AuthFirst' /\ UnusedIsBlank'
  <2>1. \A d \in Conn : toHost'[d] = IF d \in cut THEN <<>> ELSE toHost[d]
    BY <1>2
  <2>2. \A d \in Conn : sock'[d] = "unused" => sock[d] = "unused" /\ toHost'[d] = toHost[d]
    <3>1. SUFFICES ASSUME NEW d \in Conn, sock'[d] = "unused"
                   PROVE  sock[d] = "unused" /\ toHost'[d] = toHost[d]
      OBVIOUS
    <3>2. sock[d] = "unused"
      BY <1>2, <3>1
    <3>3. QED
      BY <1>4, <2>1, <3>2
  <2>3. \A d \in Conn : \/ toHost'[d] = toHost[d]
                        \/ \A i \in 1..Len(toHost'[d]) : toHost'[d][i] # "auth-request"
    BY <2>1
  <2>4. QED
    BY <1>2, <2>2, <2>3, QueuesKept
<1>7. Minted'
  BY <1>2 DEF IInv, Minted
<1>8. QED
  BY <1>3, <1>5, <1>6, <1>7 DEF IInv

LEMMA StopStep ==
  ASSUME IInv, Stop
  PROVE  IInv' /\ Members' = {}
<1>1. /\ ws' = [m \in MemberId |-> None] /\ stopped' = TRUE
      /\ UNCHANGED <<owner, closureId, clientIdToMemberId, memberIdToClientId, toHost>>
      /\ sock' = [c \in Conn |-> IF \E m \in Members : ws[m] = c THEN Close(c, "closing")
                                 ELSE sock[c]]
  BY DEF Stop, mapVars
<1>2. Members' = {}
  BY <1>1 DEF Members
<1>3. ClientIdMapsAgree' /\ BoundToOwnSocket' /\ Minted' /\ MintedMapping'
  BY <1>1, <1>2 DEF IInv, ClientIdMapsAgree, BoundToOwnSocket, Minted, MintedMapping
<1>4. sock' \in [Conn -> {"unused", "open", "closing", "kicked", "terminated", "closed"}]
  BY <1>1, CloseType DEF IInv, TypeOK
<1>5. TypeOK'
  BY <1>1, <1>4 DEF Stop, mapVars, IInv, TypeOK
<1>6. \A d \in Conn : sock'[d] = "unused" => sock[d] = "unused"
  BY <1>1, CloseType DEF IInv, TypeOK
<1>7. AuthFirst' /\ UnusedIsBlank'
  BY <1>1, <1>6, QueuesKept
<1>8. QED
  BY <1>2, <1>3, <1>5, <1>7 DEF IInv

-----------------------------------------------------------------------------
(* Invariance *)

LEMMA InitHolds == ASSUME Init PROVE IInv
<1>1. TypeOK
  <2>1. toHost \in [Conn -> Seq(ClientFrame)]
    BY DEF Init
  <2>2. HostId \in MemberId /\ sent \in 0..MaxData
    BY ConstantsOK DEF Init, MemberId
  <2>3. QED
    BY <2>1, <2>2 DEF Init, TypeOK
<1>2. Members = {}
  BY DEF Init, Members
<1>3. ClientIdMapsAgree /\ BoundToOwnSocket
  BY <1>2 DEF Init, ClientIdMapsAgree, BoundToOwnSocket
<1>4. AuthFirst
  <2>1. \A c \in Conn : Len(toHost[c]) = 0
    BY DEF Init
  <2>2. QED
    BY <2>1 DEF AuthFirst
<1>5. UnusedIsBlank /\ Minted /\ MintedMapping
  BY DEF Init, UnusedIsBlank, Minted, MintedMapping
<1>6. QED
  BY <1>1, <1>3, <1>4, <1>5 DEF IInv

LEMMA Stutter == ASSUME IInv, UNCHANGED vars PROVE IInv'
<1>1. UNCHANGED <<owner, closureId, ws, mapVars, stopped, toHost, sock>>
  BY DEF vars, hostVars
<1>2. TypeOK'
  BY DEF vars, hostVars, mapVars, IInv, TypeOK
<1>3. AuthFirst' /\ UnusedIsBlank'
  BY <1>1, QueuesKept
<1>4. QED
  BY <1>1, <1>2, <1>3, QuietStep

LEMMA Inductive == IInv /\ [Next]_vars => IInv'
<1>1. SUFFICES ASSUME IInv, [Next]_vars PROVE IInv'
  OBVIOUS
<1>2. CASE \E c \in Conn, k \in Client : Open(c, k)
  BY <1>1, <1>2, OpenStep
<1>3. CASE \E c \in Conn, type \in ClientFrame \ {"auth-request"} : ClientSend(c, type)
  BY <1>1, <1>3, ClientSendStep
<1>4. CASE \E c \in Conn : PeerDown(c)
  BY <1>1, <1>4, PeerDownStep
<1>5. CASE \E c \in Conn : HostStep(c)
  <2>1. PICK c \in Conn : HostStep(c)
    BY <1>5
  <2>2. CASE RejectAuth(c)
    BY <1>1, <2>2, RejectAuthStep
  <2>3. CASE Rebind(c)
    BY <1>1, <2>3, RebindStep
  <2>4. CASE Join(c)
    BY <1>1, <2>4, JoinStep
  <2>5. CASE PresenceUpdate(c)
    BY <1>1, <2>5, PresenceUpdateStep
  <2>6. CASE TrackedPathsUpdate(c)
    BY <1>1, <2>6, TrackedPathsUpdateStep
  <2>7. CASE Pong(c)
    BY <1>1, <2>7, PongStep
  <2>8. CASE AuthTimeout(c)
    BY <1>1, <2>8, AuthTimeoutStep
  <2>9. CASE CloseEvent(c)
    BY <1>1, <2>9, CloseEventStep
  <2>10. QED
    BY <2>1, <2>2, <2>3, <2>4, <2>5, <2>6, <2>7, <2>8, <2>9 DEF HostStep
<1>6. CASE \E m \in MemberId : KickMember(m)
  BY <1>1, <1>6, KickMemberStep
<1>7. CASE HeartbeatTick
  BY <1>1, <1>7, HeartbeatStep
<1>8. CASE HostPresence
  BY <1>1, <1>8, HostPresenceStep
<1>9. CASE Stop
  BY <1>1, <1>9, StopStep
<1>10. CASE UNCHANGED vars
  BY <1>1, <1>10, Stutter
<1>11. QED
  BY <1>1, <1>2, <1>3, <1>4, <1>5, <1>6, <1>7, <1>8, <1>9, <1>10 DEF Next

\* The inductive invariant holds in every state of every session, whatever the
\* sockets, the clients and the loopback clients are.
THEOREM Invariance == Spec => []IInv
<1>1. QED
  BY InitHolds, Inductive, PTL DEF Spec

\* Every variable of the host keeps its type.
THEOREM TypeCorrect == Spec => []TypeOK
<1>1. IInv => TypeOK
  BY DEF IInv
<1>2. QED
  BY <1>1, Invariance, PTL

\* The reverse index of clientIds mirrors the index at all times, and neither keeps a
\* departed member while the session runs (removeMember, the dedupe block).
THEOREM MapsAgree == Spec => []ClientIdMapsAgree
<1>1. IInv => ClientIdMapsAgree
  BY DEF IInv
<1>2. QED
  BY <1>1, Invariance, PTL

\* A member's entry always points to a socket of its own client, whose handlers act
\* under its id.
THEOREM BoundCorrectly == Spec => []BoundToOwnSocket
<1>1. IInv => BoundToOwnSocket
  BY DEF IInv
<1>2. QED
  BY <1>1, Invariance, PTL

LEMMA SeatsDiffer == ASSUME IInv PROVE OneSeatPerClient
<1>1. SUFFICES ASSUME NEW m \in Members, NEW n \in Members,
                      owner[ws[m]] = owner[ws[n]], owner[ws[m]] \notin Loopback
               PROVE  m = n
  BY DEF OneSeatPerClient
<1>2. memberIdToClientId[m] = owner[ws[m]] /\ memberIdToClientId[n] = owner[ws[n]]
  BY MemberFacts
<1>3. /\ clientIdToMemberId[memberIdToClientId[m]] = m
      /\ clientIdToMemberId[memberIdToClientId[n]] = n
  BY <1>1, <1>2 DEF IInv, ClientIdMapsAgree
<1>4. QED
  BY <1>1, <1>2, <1>3

\* No reconnect, retry or late frame gives a client instance a second seat.
THEOREM OneSeat == Spec => []OneSeatPerClient
<1>1. IInv => OneSeatPerClient
  BY SeatsDiffer
<1>2. QED
  BY <1>1, Invariance, PTL

-----------------------------------------------------------------------------
(* Nobody is taken away by the close of a socket it has left *)

\* Members that a step removes, as LiveMemberKept states it
LEMMA KeptByStep ==
  ASSUME IInv, [Next]_vars, NEW m \in MemberId, ws[m] # None, ws'[m] = None
  PROVE  stopped' \/ sock'[ws[m]] \in {"terminated", "closed"}
<1>1. m \in Members /\ m \notin Members'
  BY DEF Members
<1>2. ws[m] \in Conn /\ closureId[ws[m]] = m
  BY <1>1, MemberFacts
<1>3. CASE Stop
  BY <1>3 DEF Stop
<1>4. CASE \E c \in Conn : CloseEvent(c)
  <2>1. PICK c \in Conn : CloseEvent(c)
    BY <1>4
  <2>2. m \in LostWith(c)
    BY <1>1, <2>1, CloseEventStep
  <2>3. ws[m] = c
    BY <2>2 DEF LostWith
  <2>4. QED
    BY <2>1, <2>3 DEF CloseEvent, IInv, TypeOK
<1>5. CASE HeartbeatTick
  <2>1. m \notin isAlive
    BY <1>1, <1>5, HeartbeatStep
  <2>2. sock[ws[m]] # "unused"
    BY <1>2, ConstantsOK DEF IInv, UnusedIsBlank, MemberId
  <2>3. sock[ws[m]] \in {"open", "closing", "kicked", "terminated", "closed"}
    BY <1>2, <2>2 DEF IInv, TypeOK
  <2>4. sock'[ws[m]] = IF Readable(ws[m]) THEN "terminated" ELSE sock[ws[m]]
    BY <1>1, <1>2, <1>5, <2>1 DEF HeartbeatTick
  <2>5. QED
    BY <2>3, <2>4 DEF Readable
<1>6. CASE \E c \in Conn : Join(c)
  BY <1>1, <1>6, JoinStep
<1>7. CASE \E c \in Conn : Rebind(c)
  <2>1. PICK c \in Conn : Rebind(c)
    BY <1>7
  <2>2. ws' = [ws EXCEPT ![SeatOf(owner[c])] = c]
    BY <2>1 DEF Rebind
  <2>3. c # None
    BY ConstantsOK
  <2>4. ws'[m] = c \/ ws'[m] = ws[m]
    BY <2>2 DEF IInv, TypeOK
  <2>5. QED
    BY <2>3, <2>4
<1>8. CASE UNCHANGED ws
  BY <1>8
<1>9. \/ \E c \in Conn : CloseEvent(c) \/ Join(c) \/ Rebind(c)
      \/ HeartbeatTick \/ Stop \/ UNCHANGED ws
  <2>1. CASE \E c \in Conn : HostStep(c)
    BY <2>1 DEF HostStep, RejectAuth, PresenceUpdate, TrackedPathsUpdate, Pong, AuthTimeout
  <2>2. CASE \E c \in Conn, k \in Client : Open(c, k)
    BY <2>2 DEF Open
  <2>3. CASE \E c \in Conn, type \in ClientFrame \ {"auth-request"} : ClientSend(c, type)
    BY <2>3 DEF ClientSend
  <2>4. CASE \E c \in Conn : PeerDown(c)
    BY <2>4 DEF PeerDown, hostVars
  <2>5. CASE (\E n \in MemberId : KickMember(n)) \/ HostPresence
    BY <2>5 DEF KickMember, HostPresence
  <2>6. CASE UNCHANGED vars
    BY <2>6 DEF vars, hostVars
  <2>7. QED
    BY <2>1, <2>2, <2>3, <2>4, <2>5, <2>6 DEF Next
<1>10. QED
  BY <1>3, <1>4, <1>5, <1>6, <1>7, <1>8, <1>9

\* A member leaves only with the socket it is bound to, or with the session.
THEOREM LiveKept == Spec => LiveMemberKept
<1>1. IInv /\ [Next]_vars =>
        [\A m \in MemberId :
            ws[m] # None /\ ws'[m] = None =>
               stopped' \/ sock'[ws[m]] \in {"terminated", "closed"}]_vars
  BY KeptByStep
<1>2. QED
  BY <1>1, Invariance, PTL DEF Spec, LiveMemberKept

-----------------------------------------------------------------------------
(* The host implements Membership *)

\* A step that leaves the index, the members and the closures alone is a stutter
LEMMA SeatsUntouched ==
  ASSUME UNCHANGED <<owner, closureId, ws, clientIdToMemberId>>
  PROVE  Seat' = Seat /\ Issued' = Issued
BY DEF Seat, SeatOf, Issued

LEMMA OpenSeats ==
  ASSUME IInv, NEW c \in Conn, NEW k \in Client, Open(c, k)
  PROVE  Seat' = Seat /\ Issued' = Issued
<1>1. /\ closureId[c] = None /\ owner' = [owner EXCEPT ![c] = k]
      /\ UNCHANGED <<closureId, ws, clientIdToMemberId>>
  BY DEF Open, mapVars, IInv, UnusedIsBlank
<1>2. Seat' = Seat
  BY <1>1 DEF Seat, SeatOf
<1>3. \A m \in MemberId, d \in Conn : closureId[d] = m => owner'[d] = owner[d]
  BY <1>1, ConstantsOK DEF MemberId, IInv, TypeOK
<1>4. Issued' = Issued
  BY <1>1, <1>3 DEF Issued
<1>5. QED
  BY <1>2, <1>4

\* Coming back is invisible
LEMMA RebindSeats ==
  ASSUME IInv, NEW c \in Conn, Rebind(c)
  PROVE  Seat' = Seat /\ Issued' = Issued
<1> DEFINE k == owner[c]
           m == SeatOf(k)
<1>1. Receive(c, "auth-request") /\ "auth-request" \in ClientFrame
  BY DEF Rebind, ClientFrame
<1>2. closureId[c] = None /\ k \in Client /\ m # None
  BY <1>1, Reading DEF Rebind, IInv, TypeOK
<1>3. /\ k \notin Loopback /\ m = clientIdToMemberId[k] /\ m \in Members
      /\ memberIdToClientId[m] = k
  BY <1>2, SeatFacts
<1>4. /\ m \in Conn /\ closureId[m] = m /\ m \in MemberId /\ ws[m] # None
      /\ ws[m] \in Conn /\ closureId[ws[m]] = m /\ owner[ws[m]] = k /\ ws[m] # c
  BY <1>2, <1>3, MemberFacts, ConstantsOK DEF Members
<1>5. /\ closureId' = [closureId EXCEPT ![c] = m]
      /\ ws' = [ws EXCEPT ![m] = c]
      /\ clientIdToMemberId' = [clientIdToMemberId EXCEPT ![k] = m]
      /\ owner' = owner
  BY DEF Rebind, SetMemberId, Remember
<1>6. clientIdToMemberId' = clientIdToMemberId
  BY <1>2, <1>3, <1>5 DEF IInv, TypeOK
<1>7. \A n \in MemberId : ws'[n] = None <=> ws[n] = None
  BY <1>4, <1>5, ConstantsOK DEF IInv, TypeOK
<1>8. ASSUME NEW j \in Guests PROVE SeatOf(j)' = SeatOf(j)
  <2>1. clientIdToMemberId[j] \in MemberId \cup {None}
    BY DEF IInv, TypeOK, Guests
  <2>2. QED
    BY <1>6, <1>7, <2>1 DEF SeatOf
<1>9. Seat' = Seat
  BY <1>8 DEF Seat
<1>10. k \in Guests
  BY <1>2, <1>3 DEF Guests
<1>11. \A d \in Conn : closureId'[d] = IF d = c THEN m ELSE closureId[d]
  BY <1>5 DEF IInv, TypeOK
<1>12. ASSUME NEW n \in MemberId
       PROVE  (\E d \in Conn : closureId'[d] = n /\ owner[d] \in Guests)
                <=> (\E d \in Conn : closureId[d] = n /\ owner[d] \in Guests)
  <2>1. CASE n = m
    BY <1>4, <1>10, <1>11, <2>1
  <2>2. CASE n # m
    <3>1. n # None
      BY ConstantsOK DEF MemberId
    <3>2. QED
      BY <1>2, <1>11, <2>2, <3>1
  <2>3. QED
    BY <2>1, <2>2
<1>13. Issued' = Issued
  BY <1>5, <1>12 DEF Issued
<1>14. QED
  BY <1>9, <1>13

\* A guest that joins takes a seat under an id nobody had; the host's own extension
\* does not touch the guests' seats
LEMMA JoinSeats ==
  ASSUME IInv, NEW c \in Conn, Join(c)
  PROVE  \/ Seat' = Seat /\ Issued' = Issued
         \/ \E k \in Guests : Seats!TakeSeat(k)
<1> DEFINE k == owner[c]
<1>1. Receive(c, "auth-request") /\ "auth-request" \in ClientFrame
  BY DEF Join, ClientFrame
<1>2. closureId[c] = None /\ k \in Client /\ SeatOf(k) = None
  BY <1>1, Reading DEF Join, IInv, TypeOK
<1>3. /\ closureId' = [closureId EXCEPT ![c] = c]
      /\ ws' = [ws EXCEPT ![c] = c]
      /\ clientIdToMemberId' = [clientIdToMemberId EXCEPT ![k] = c]
      /\ owner' = owner
  BY DEF Join, SetMemberId, Remember
<1>4. c \in MemberId /\ c # None
  BY ConstantsOK DEF MemberId
<1>5. \A d \in Conn : closureId[d] # c
  BY <1>2, <1>4 DEF IInv, Minted
<1>6. memberIdToClientId[c] = None
  BY <1>2, <1>4 DEF IInv, MintedMapping
<1>7. ASSUME NEW j \in Guests, j # k PROVE SeatOf(j)' = SeatOf(j)
  <2>1. clientIdToMemberId'[j] = clientIdToMemberId[j]
    BY <1>2, <1>3, <1>7 DEF IInv, TypeOK, Guests
  <2>2. clientIdToMemberId[j] # c
    BY <1>4, <1>6, ConstantsOK DEF IInv, ClientIdMapsAgree, Guests
  <2>3. clientIdToMemberId[j] \in MemberId \cup {None}
    BY DEF IInv, TypeOK, Guests
  <2>4. clientIdToMemberId[j] # None => ws'[clientIdToMemberId[j]] = ws[clientIdToMemberId[j]]
    BY <1>3, <2>2, <2>3 DEF IInv, TypeOK
  <2>5. QED
    BY <2>1, <2>4 DEF SeatOf
<1>8. \A d \in Conn : closureId'[d] = IF d = c THEN c ELSE closureId[d]
  BY <1>3 DEF IInv, TypeOK
<1>9. CASE k \in Loopback
  <2>1. Seat' = Seat
    <3>1. \A j \in Guests : j # k
      BY <1>9 DEF Guests
    <3>2. QED
      BY <1>7, <3>1 DEF Seat
  <2>2. Issued' = Issued
    BY <1>3, <1>8, <1>9, <1>2, <1>4, ConstantsOK DEF Issued, Guests, MemberId
  <2>3. QED
    BY <2>1, <2>2
<1>10. CASE k \notin Loopback
  <2>1. k \in Guests
    BY <1>2, <1>10 DEF Guests
  <2>2. \A j \in Guests : j = k => SeatOf(j)' = c
    <3>1. clientIdToMemberId'[k] = c /\ ws'[c] = c
      BY <1>2, <1>3, <1>4 DEF IInv, TypeOK
    <3>2. QED
      BY <1>4, <1>10, <3>1 DEF SeatOf
  <2>3. Seat' = [Seat EXCEPT ![k] = c]
    BY <1>7, <2>1, <2>2 DEF Seat
  <2>4. Seat[k] = None
    BY <1>2, <2>1 DEF Seat
  <2>5. c \in MemberId \ Issued
    BY <1>4, <1>5 DEF Issued
  <2>6. Issued' = Issued \cup {c}
    <3>1. ASSUME NEW n \in MemberId
          PROVE  (\E d \in Conn : closureId'[d] = n /\ owner[d] \in Guests)
                   <=> n = c \/ \E d \in Conn : closureId[d] = n /\ owner[d] \in Guests
      <4>1. CASE n = c
        BY <1>8, <2>1, <4>1
      <4>2. CASE n # c
        <5>1. n # None
          BY ConstantsOK DEF MemberId
        <5>2. QED
          BY <1>2, <1>8, <4>2, <5>1
      <4>3. QED
        BY <4>1, <4>2
    <3>2. QED
      BY <1>3, <1>4, <3>1 DEF Issued
  <2>7. QED
    BY <2>1, <2>3, <2>4, <2>5, <2>6 DEF Seats!TakeSeat
<1>11. QED
  BY <1>9, <1>10

\* Removing members takes their seats and nobody else's
LEMMA RemovalSeats ==
  ASSUME IInv, NEW S \in SUBSET Members, RemoveMembers(S),
         UNCHANGED <<owner, closureId>>
  PROVE  \E T \in SUBSET Guests : Seats!LoseSeats(T)
<1> DEFINE T == {k \in Guests : SeatOf(k) \in S}
           cids == {memberIdToClientId[m] : m \in S}
<1>1. /\ \A m \in MemberId : ws'[m] = IF m \in S THEN None ELSE ws[m]
      /\ \A k \in Client :
            clientIdToMemberId'[k] = IF k \in cids THEN None ELSE clientIdToMemberId[k]
  BY DEF RemoveMembers, IndexWithout
<1>2. None \notin S
  BY ConstantsOK DEF Members, MemberId
<1>3. ASSUME NEW k \in Guests
      PROVE  SeatOf(k)' = IF k \in T THEN None ELSE SeatOf(k)
  <2>1. k \in Client /\ k \notin Loopback
    BY DEF Guests
  <2>2. CASE clientIdToMemberId[k] = None
    <3>1. clientIdToMemberId'[k] = None
      BY <1>1, <2>1, <2>2
    <3>2. QED
      BY <2>2, <3>1 DEF SeatOf
  <2>3. CASE clientIdToMemberId[k] # None /\ clientIdToMemberId[k] \in S
    <3>1. memberIdToClientId[clientIdToMemberId[k]] = k
      BY <2>1, <2>3 DEF IInv, ClientIdMapsAgree
    <3>2. clientIdToMemberId'[k] = None
      BY <1>1, <2>1, <2>3, <3>1
    <3>3. ws[clientIdToMemberId[k]] # None
      BY <2>3 DEF Members
    <3>4. SeatOf(k) \in S
      BY <2>1, <2>3, <3>3 DEF SeatOf
    <3>5. QED
      BY <3>2, <3>4 DEF SeatOf
  <2>4. CASE clientIdToMemberId[k] # None /\ clientIdToMemberId[k] \notin S
    <3>1. k \notin cids
      <4>1. SUFFICES ASSUME NEW n \in S, memberIdToClientId[n] = k PROVE FALSE
        OBVIOUS
      <4>2. clientIdToMemberId[k] = n
        BY <2>1, <4>1 DEF IInv, ClientIdMapsAgree
      <4>3. QED
        BY <2>4, <4>2
    <3>2. clientIdToMemberId'[k] = clientIdToMemberId[k]
      BY <1>1, <2>1, <3>1
    <3>3. clientIdToMemberId[k] \in MemberId
      BY <2>1, <2>4 DEF IInv, TypeOK
    <3>4. ws'[clientIdToMemberId[k]] = ws[clientIdToMemberId[k]]
      BY <1>1, <2>4, <3>3
    <3>5. SeatOf(k)' = SeatOf(k) /\ SeatOf(k) \notin S
      BY <1>2, <2>4, <3>2, <3>4 DEF SeatOf
    <3>6. QED
      BY <3>5
  <2>5. QED
    BY <2>2, <2>3, <2>4
<1>4. Seat' = [k \in Guests |-> IF k \in T THEN None ELSE Seat[k]]
  BY <1>3 DEF Seat
<1>5. \A k \in T : Seat[k] # None
  BY <1>2 DEF Seat
<1>6. Issued' = Issued
  BY DEF Issued
<1>7. T \in SUBSET Guests
  OBVIOUS
<1>8. QED
  BY <1>4, <1>5, <1>6, <1>7 DEF Seats!LoseSeats

LEMMA StopSeats ==
  ASSUME IInv, Stop
  PROVE  \E T \in SUBSET Guests : Seats!LoseSeats(T)
<1> DEFINE T == {k \in Guests : SeatOf(k) # None}
<1>1. /\ ws' = [m \in MemberId |-> None]
      /\ UNCHANGED <<owner, closureId, clientIdToMemberId>>
  BY DEF Stop, mapVars
<1>2. ASSUME NEW k \in Guests PROVE SeatOf(k)' = None
  <2>1. clientIdToMemberId[k] \in MemberId \cup {None}
    BY DEF IInv, TypeOK, Guests
  <2>2. QED
    BY <1>1, <2>1 DEF SeatOf
<1>3. Seat' = [k \in Guests |-> IF k \in T THEN None ELSE Seat[k]]
  BY <1>2 DEF Seat
<1>4. \A k \in T : Seat[k] # None
  BY DEF Seat
<1>5. Issued' = Issued
  BY <1>1 DEF Issued
<1>6. T \in SUBSET Guests
  OBVIOUS
<1>7. QED
  BY <1>3, <1>4, <1>5, <1>6 DEF Seats!LoseSeats

LEMMA SeatsInit == ASSUME Init PROVE Seats!Init
<1>1. \A k \in Guests : SeatOf(k) = None
  BY DEF Init, SeatOf, Guests
<1>2. Seat = [k \in Guests |-> None]
  BY <1>1 DEF Seat
<1>3. Issued = {}
  BY ConstantsOK DEF Init, Issued, MemberId
<1>4. QED
  BY <1>2, <1>3 DEF Seats!Init

LEMMA SeatsStep ==
  ASSUME IInv, [Next]_vars
  PROVE  [Seats!Next]_<<Seat, Issued>>
<1>1. CASE UNCHANGED <<owner, closureId, ws, clientIdToMemberId>>
  BY <1>1, SeatsUntouched
<1>2. CASE \E c \in Conn, k \in Client : Open(c, k)
  BY <1>2, OpenSeats
<1>3. CASE \E c \in Conn : Rebind(c)
  BY <1>3, RebindSeats
<1>4. CASE \E c \in Conn : Join(c)
  BY <1>4, JoinSeats DEF Seats!Next
<1>5. CASE \E c \in Conn : CloseEvent(c)
  <2>1. PICK c \in Conn : CloseEvent(c)
    BY <1>5
  <2>2. /\ LostWith(c) \in SUBSET Members /\ RemoveMembers(LostWith(c))
        /\ UNCHANGED <<owner, closureId>>
    BY <2>1 DEF CloseEvent, LostWith
  <2>3. QED
    BY <2>2, RemovalSeats DEF Seats!Next
<1>6. CASE HeartbeatTick
  <2>1. /\ Members \ isAlive \in SUBSET Members /\ RemoveMembers(Members \ isAlive)
        /\ UNCHANGED <<owner, closureId>>
    BY <1>6 DEF HeartbeatTick
  <2>2. QED
    BY <2>1, RemovalSeats DEF Seats!Next
<1>7. CASE Stop
  BY <1>7, StopSeats DEF Seats!Next
<1>8. \/ UNCHANGED <<owner, closureId, ws, clientIdToMemberId>>
      \/ \E c \in Conn, k \in Client : Open(c, k)
      \/ \E c \in Conn : Rebind(c) \/ Join(c) \/ CloseEvent(c)
      \/ HeartbeatTick \/ Stop
  <2>1. CASE \E c \in Conn : HostStep(c)
    BY <2>1 DEF HostStep, RejectAuth, PresenceUpdate, TrackedPathsUpdate, Pong, AuthTimeout,
                mapVars
  <2>2. CASE \E c \in Conn, type \in ClientFrame \ {"auth-request"} : ClientSend(c, type)
    BY <2>2 DEF ClientSend, mapVars
  <2>3. CASE \E c \in Conn : PeerDown(c)
    BY <2>3 DEF PeerDown, hostVars, mapVars
  <2>4. CASE (\E n \in MemberId : KickMember(n)) \/ HostPresence
    BY <2>4 DEF KickMember, HostPresence, mapVars
  <2>5. CASE UNCHANGED vars
    BY <2>5 DEF vars, hostVars, mapVars
  <2>6. QED
    BY <2>1, <2>2, <2>3, <2>4, <2>5 DEF Next
<1>9. QED
  BY <1>1, <1>2, <1>3, <1>4, <1>5, <1>6, <1>7, <1>8

\* The host with its sockets, timers and index implements the abstract membership:
\* a guest's id changes only by losing its seat and taking a new one, and no id is
\* ever issued twice.
THEOREM Refinement == Spec => ImplementsMembership
<1>1. Init => Seats!Init
  BY SeatsInit
<1>2. IInv /\ [Next]_vars => [Seats!Next]_<<Seat, Issued>>
  BY SeatsStep
<1>3. QED
  BY <1>1, <1>2, Invariance, PTL DEF Spec, ImplementsMembership, Seats!Spec

-----------------------------------------------------------------------------
(* What a client knows after the frames it has yet to read.  A course is the  *)
(* list of what it knows after each of them.                                *)

Course(what, h, rows, q) ==
    /\ h = [i \in 0..Len(q) |-> h[i]]
    /\ h[0] = rows
    /\ \A i \in 1..Len(q) : h[i] = Taken(what, h[i - 1], q[i])

LEMMA CourseUnique ==
  ASSUME NEW what, NEW g, NEW h, NEW rows, NEW S, NEW q \in Seq(S),
         Course(what, g, rows, q), Course(what, h, rows, q)
  PROVE  g = h
<1> DEFINE Bad == {i \in Nat : i <= Len(q) /\ g[i] # h[i]}
<1>1. Len(q) \in Nat
  OBVIOUS
<1>2. SUFFICES Bad = {}
  <2>1. \A i \in 0..Len(q) : g[i] = h[i]
    BY <1>1, <1>2
  <2>2. QED
    BY <2>1 DEF Course
<1>3. SUFFICES ASSUME Bad # {} PROVE FALSE
  OBVIOUS
<1>4. PICK n \in Bad : \A m \in Bad : ~(<<m, n>> \in OpToRel(<, Nat))
  BY <1>3, NatLessThanWellFounded, WFMin, Bad \subseteq Nat
<1>5. n \in Nat /\ n <= Len(q) /\ g[n] # h[n]
  OBVIOUS
<1>6. n # 0
  BY <1>5 DEF Course
<1>7. n - 1 \in Nat /\ n \in 1..Len(q)
  BY <1>1, <1>5, <1>6
<1>8. g[n - 1] = h[n - 1]
  <2>1. <<n - 1, n>> \in OpToRel(<, Nat)
    BY <1>5, <1>7 DEF OpToRel
  <2>2. n - 1 \notin Bad
    <3> HIDE DEF Bad
    <3>1. QED
      BY <2>1, <1>4
  <2>3. n - 1 <= Len(q)
    BY <1>1, <1>7
  <2>4. QED
    BY <2>2, <2>3, <1>7
<1>9. QED
  BY <1>5, <1>7, <1>8 DEF Course

\* Every queue has a course: the shortest prefix that had none would follow one that has.
LEMMA CourseExists ==
  ASSUME NEW what, NEW rows, NEW S, NEW q \in Seq(S)
  PROVE  \E h : Course(what, h, rows, q)
<1> DEFINE Upto(h, n) == /\ h = [i \in 0..n |-> h[i]]
                         /\ h[0] = rows
                         /\ \A i \in 1..n : h[i] = Taken(what, h[i - 1], q[i])
           Bad == {n \in Nat : n <= Len(q) /\ \A h : ~Upto(h, n)}
<1>1. Len(q) \in Nat
  OBVIOUS
<1>2. SUFFICES Bad = {}
  <2>1. \E h : Upto(h, Len(q))
    <3> HIDE DEF Upto
    <3>1. QED
      BY <1>1, <1>2
  <2>2. QED
    BY <2>1 DEF Course
<1>3. SUFFICES ASSUME Bad # {} PROVE FALSE
  OBVIOUS
<1>4. PICK n \in Bad : \A m \in Bad : ~(<<m, n>> \in OpToRel(<, Nat))
  BY <1>3, NatLessThanWellFounded, WFMin, Bad \subseteq Nat
<1>5. n \in Nat /\ n <= Len(q) /\ \A h : ~Upto(h, n)
  OBVIOUS
<1>6. n # 0
  <2>1. Upto([i \in 0..0 |-> rows], 0)
    OBVIOUS
  <2>2. QED
    BY <1>5, <2>1
<1>7. n - 1 \in Nat /\ n - 1 <= Len(q) /\ n \in 1..Len(q)
  BY <1>1, <1>5, <1>6
<1>8. PICK h : Upto(h, n - 1)
  <2>1. <<n - 1, n>> \in OpToRel(<, Nat)
    BY <1>5, <1>7 DEF OpToRel
  <2>2. n - 1 \notin Bad
    <3> HIDE DEF Bad
    <3>1. QED
      BY <2>1, <1>4
  <2>3. QED
    BY <2>2, <1>7
<1>9. PICK g : g = [i \in 0..n |-> IF i = n THEN Taken(what, h[n - 1], q[n]) ELSE h[i]]
  OBVIOUS
<1>10. /\ g[0] = rows /\ g[n] = Taken(what, h[n - 1], q[n])
       /\ \A i \in 0..n - 1 : g[i] = h[i]
  BY <1>6, <1>7, <1>8, <1>9
<1>11. ASSUME NEW i \in 1..n
       PROVE  g[i] = Taken(what, g[i - 1], q[i])
  <2>1. CASE i = n
    BY <1>7, <1>10, <2>1
  <2>2. CASE i # n
    <3>1. i \in 1..n - 1 /\ i - 1 \in 0..n - 1 /\ i \in 0..n - 1
      BY <1>7, <2>2
    <3>2. QED
      BY <1>8, <1>10, <3>1
  <2>3. QED
    BY <2>1, <2>2
<1>12. g = [i \in 0..n |-> g[i]]
  BY <1>9
<1>13. Upto(g, n)
  BY <1>10, <1>11, <1>12
<1>14. QED
  BY <1>5, <1>13

LEMMA CourseEnds ==
  ASSUME NEW what, NEW h, NEW rows, NEW S, NEW q \in Seq(S), Course(what, h, rows, q)
  PROVE  CaughtUp(what, rows, q) = h[Len(q)]
<1> DEFINE Steps(g) == [i \in 0..Len(q) |-> IF i = 0 THEN rows ELSE Taken(what, g[i - 1], q[i])]
           at == CHOOSE g : g = Steps(g)
<1>1. Len(q) \in Nat
  OBVIOUS
<1>2. h = Steps(h)
  <2>1. ASSUME NEW i \in 0..Len(q)
        PROVE  h[i] = Steps(h)[i]
    <3>1. CASE i = 0
      BY <3>1, <1>1 DEF Course
    <3>2. CASE i # 0
      <4>1. i \in 1..Len(q)
        BY <3>2, <1>1
      <4>2. QED
        BY <4>1, <3>2 DEF Course
    <3>3. QED
      BY <3>1, <3>2
  <2>2. QED
    BY <2>1 DEF Course
<1>3. at = Steps(at)
  BY <1>2
<1>4. Course(what, at, rows, q)
  <2> HIDE DEF at
  <2>1. \A i \in 0..Len(q) : at[i] = Steps(at)[i]
    BY <1>3
  <2>2. at = [i \in 0..Len(q) |-> at[i]]
    BY <1>3
  <2>3. QED
    BY <2>1, <2>2, <1>1 DEF Course
<1>5. at = h
  BY <1>4, CourseUnique
<1>6. CaughtUp(what, rows, q) = at[Len(q)]
  BY DEF CaughtUp
<1>7. QED
  BY <1>5, <1>6

LEMMA NothingToRead ==
  ASSUME NEW what, NEW rows
  PROVE  CaughtUp(what, rows, <<>>) = rows
<1>1. PICK h : h = [i \in 0..0 |-> rows]
  OBVIOUS
<1>2. Course(what, h, rows, <<>>) /\ h[0] = rows
  BY <1>1 DEF Course
<1>3. <<>> \in Seq({}) /\ Len(<<>>) = 0
  OBVIOUS
<1>4. PICK q \in Seq({}) : q = <<>>
  BY <1>3
<1>5. Course(what, h, rows, q) /\ Len(q) = 0
  BY <1>2, <1>3, <1>4
<1>6. CaughtUp(what, rows, q) = h[Len(q)]
  BY <1>5, CourseEnds
<1>7. QED
  BY <1>2, <1>4, <1>5, <1>6

\* A frame that is sent is taken last.
LEMMA OneMore ==
  ASSUME NEW what, NEW rows, NEW S, NEW q \in Seq(S), NEW f \in S
  PROVE  CaughtUp(what, rows, Append(q, f)) = Taken(what, CaughtUp(what, rows, q), f)
<1> DEFINE n == Len(q)
           r == Append(q, f)
<1>1. n \in Nat /\ r \in Seq(S) /\ Len(r) = n + 1
  OBVIOUS
<1>2. (\A i \in 1..n : r[i] = q[i]) /\ r[n + 1] = f
  OBVIOUS
<1>3. PICK h : Course(what, h, rows, q)
  BY CourseExists
<1>4. PICK g : g = [i \in 0..n + 1 |-> IF i = n + 1 THEN Taken(what, h[n], f) ELSE h[i]]
  OBVIOUS
<1>5. /\ g[0] = rows /\ g[n + 1] = Taken(what, h[n], f)
      /\ \A i \in 0..n : g[i] = h[i]
  BY <1>1, <1>3, <1>4 DEF Course
<1>6. ASSUME NEW i \in 1..n + 1
      PROVE  g[i] = Taken(what, g[i - 1], r[i])
  <2>1. CASE i = n + 1
    <3>1. g[i - 1] = h[n] /\ r[i] = f
      BY <1>1, <1>2, <1>5, <2>1
    <3>2. QED
      BY <1>5, <2>1, <3>1
  <2>2. CASE i # n + 1
    <3>1. i \in 1..n /\ i \in 0..n /\ i - 1 \in 0..n
      BY <1>1, <2>2
    <3>2. h[i] = Taken(what, h[i - 1], q[i])
      BY <1>3, <3>1 DEF Course
    <3>3. g[i] = h[i] /\ g[i - 1] = h[i - 1] /\ r[i] = q[i]
      BY <1>2, <1>5, <3>1
    <3>4. QED
      BY <3>2, <3>3
  <2>3. QED
    BY <2>1, <2>2
<1>7. Course(what, g, rows, r)
  <2>1. g = [i \in 0..Len(r) |-> g[i]]
    BY <1>1, <1>4
  <2>2. QED
    BY <1>1, <1>5, <1>6, <2>1 DEF Course
<1>8. CaughtUp(what, rows, r) = g[n + 1] /\ CaughtUp(what, rows, q) = h[n]
  <2> HIDE DEF r, n
  <2>1. CaughtUp(what, rows, r) = g[Len(r)]
    BY <1>1, <1>7, CourseEnds
  <2>2. CaughtUp(what, rows, q) = h[Len(q)]
    BY <1>3, CourseEnds
  <2>3. QED
    BY <1>1, <2>1, <2>2 DEF n
<1>9. QED
  BY <1>5, <1>8

\* A frame that is read was taken first.
LEMMA OneLess ==
  ASSUME NEW what, NEW rows, NEW S, NEW q \in Seq(S), q # <<>>
  PROVE  CaughtUp(what, rows, q) = CaughtUp(what, Taken(what, rows, Head(q)), Tail(q))
<1> DEFINE n == Len(q) - 1
           r == Tail(q)
<1>1. n \in Nat /\ r \in Seq(S) /\ Len(r) = n /\ Len(q) = n + 1 /\ Head(q) = q[1]
  OBVIOUS
<1>2. \A i \in 1..n : r[i] = q[i + 1]
  OBVIOUS
<1>3. PICK h : Course(what, h, rows, q)
  BY CourseExists
<1>4. PICK g : g = [i \in 0..n |-> h[i + 1]]
  OBVIOUS
<1>5. g[0] = Taken(what, rows, Head(q)) /\ g[n] = h[n + 1]
  <2>1. 1 \in 1..Len(q) /\ 0 \in 0..n /\ n \in 0..n
    BY <1>1
  <2>2. h[1] = Taken(what, h[0], q[1]) /\ h[0] = rows
    <3>1. h[1] = Taken(what, h[1 - 1], q[1])
      BY <1>3, <2>1 DEF Course
    <3>2. QED
      BY <1>3, <3>1 DEF Course
  <2>3. QED
    BY <1>1, <1>4, <2>1, <2>2
<1>6. ASSUME NEW i \in 1..n
      PROVE  g[i] = Taken(what, g[i - 1], r[i])
  <2>1. i + 1 \in 1..Len(q) /\ i \in 0..n /\ i - 1 \in 0..n /\ (i + 1) - 1 = i /\ (i - 1) + 1 = i
    BY <1>1
  <2>2. h[i + 1] = Taken(what, h[(i + 1) - 1], q[i + 1])
    BY <1>3, <2>1 DEF Course
  <2>3. g[i] = h[i + 1] /\ g[i - 1] = h[i]
    BY <1>4, <2>1
  <2>4. QED
    BY <1>2, <2>1, <2>2, <2>3
<1>7. Course(what, g, Taken(what, rows, Head(q)), r)
  <2>1. g = [i \in 0..Len(r) |-> g[i]]
    BY <1>1, <1>4
  <2>2. QED
    BY <1>1, <1>5, <1>6, <2>1 DEF Course
<1>8. CaughtUp(what, rows, q) = h[n + 1]
  BY <1>1, <1>3, CourseEnds
<1>9. CaughtUp(what, Taken(what, rows, Head(q)), r) = g[n]
  <2> HIDE DEF r, n
  <2>1. CaughtUp(what, Taken(what, rows, Head(q)), r) = g[Len(r)]
    BY <1>1, <1>7, CourseEnds
  <2>2. QED
    BY <1>1, <2>1
<1>10. QED
  BY <1>5, <1>8, <1>9

-----------------------------------------------------------------------------
(* The invariant of the composition *)

FrameType == {"member-joined", "member-left", "presence-update", "state-sync",
              "auth-response", "member-kicked"}

Frames ==
    [type : FrameType, ids : SUBSET MemberId]
    \cup [type : FrameType, rows : [MemberId -> Nat]]
    \cup [type : FrameType]

\* What the proofs need of the types.
LanTypes ==
    /\ toClient \in [Conn -> Seq(Frames)]
    /\ status \in [Client -> Status]
    /\ roster = [k \in Client |-> roster[k]]
    /\ panel = [k \in Client |-> panel[k]]
    /\ wiredOn = [k \in Client |-> wiredOn[k]]

Greeting == {"dialing", "redialing"}

\* A socket that is up at its client's end is the only one of that client, which is
\* waiting for the verdict or has it.
OneLive ==
    \A c \in Conn : peer[c] = "up" =>
       /\ owner[c] \in Client
       /\ status[owner[c]] \in Greeting \cup {"connected"}
       /\ \A d \in Conn : peer[d] = "up" /\ owner[d] = owner[c] => d = c

\* While a client waits for the verdict, its socket carries nothing before the host has
\* decided, and the verdict first once it has.
Waits(c) ==
    peer[c] = "up" /\ status[owner[c]] \in Greeting =>
       /\ closureId[c] = None => toClient[c] = <<>>
       /\ toClient[c] # <<>> => Head(toClient[c]).type = "auth-response"
       /\ closureId[c] # None /\ sock[c] = "open" => toClient[c] # <<>>

\* Without a loopback client the host's row keeps the id it was given.
HostRow == Loopback = {} => hostMemberId = HostId

Listens(c) == wiredOn[owner[c]] \notin {None, c}

\* What the client of c ends up knowing.
Knows(c) ==
    Attached(c) =>
       /\ Loopback = {} =>
             CaughtUp("roster", roster[owner[c]], toClient[c]) = Rows(ws, hostMemberId)
       /\ Listens(c) => presence \ {closureId[c]} \subseteq Shown(c)

LanInv ==
    /\ IInv
    /\ LanTypes
    /\ OneLive
    /\ \A c \in Conn : sock[c] = "unused" => toClient[c] = <<>>
    /\ \A c \in Conn : Waits(c)
    /\ HostRow
    /\ \A c \in Conn : Knows(c)

-----------------------------------------------------------------------------
(* Every step of the session is a step of its host *)

LEMMA StepOfHost == [LanNext]_lanVars => [Next]_vars \/ \E c \in Conn : Wire(c)
<1>1. ASSUME NEW c \in Conn, NEW k \in Client, Dial(c, k)
      PROVE  Next
  BY <1>1 DEF Dial, Next
<1>2. ASSUME NEW c \in Conn, ClientClosed(c) \/ ClientRead(c)
      PROVE  [Next]_vars
  BY <1>2 DEF ClientClosed, ClientRead, Next
<1>3. ASSUME NEW c \in Conn, ReportTracked(c) \/ ReportEditor(c)
      PROVE  Next
  BY <1>3 DEF ReportTracked, ReportEditor, Next, ClientFrame
<1>4. ASSUME NEW c \in Conn,
             \/ Refuse(c) \/ TakeBack(c) \/ LetIn(c) \/ RelayPresence(c) \/ NoteTracked(c)
             \/ NotePong(c) \/ TimeOut(c) \/ LoseSocket(c)
      PROVE  Next
  <2>1. HostStep(c)
    BY <1>4 DEF Refuse, TakeBack, LetIn, RelayPresence, NoteTracked, NotePong, TimeOut,
                LoseSocket, HostStep
  <2>2. QED
    BY <2>1 DEF Next
<1>5. ASSUME NEW k \in Client, Disconnect(k)
      PROVE  UNCHANGED vars
  BY <1>5 DEF Disconnect
<1>6. ASSUME NEW m \in MemberId, Kick(m)
      PROVE  Next
  BY <1>6 DEF Kick, Next
<1>7. Tick \/ ShowHost \/ StopSession => Next
  BY DEF Tick, ShowHost, StopSession, Next
<1>8. UNCHANGED lanVars => UNCHANGED vars
  BY DEF lanVars
<1>9. QED
  BY <1>1, <1>2, <1>3, <1>4, <1>5, <1>6, <1>7, <1>8 DEF LanNext

LEMMA WireKeeps ==
  ASSUME IInv, NEW c \in Conn, Wire(c)
  PROVE  IInv'
<1>1. CASE Readable(c)
  <2>1. "presence-update" \in ClientFrame \ {"auth-request"} /\ sent \in 0..MaxData
    BY DEF ClientFrame, IInv, TypeOK
  <2>2. QED
    BY <1>1, <2>1, FrameSent DEF Wire
<1>2. CASE ~Readable(c)
  <2>1. UNCHANGED vars
    BY <1>2 DEF Wire, vars, hostVars
  <2>2. QED
    BY <2>1, Stutter
<1>3. QED
  BY <1>1, <1>2

LEMMA HostKept == IInv /\ [LanNext]_lanVars => IInv'
  BY StepOfHost, WireKeeps, Inductive

-----------------------------------------------------------------------------
(* What the host writes *)

LEMMA FramesSent ==
  /\ \A type \in FrameType, S \in SUBSET MemberId :
        About(type, S) \in Frames /\ About(type, S).type = type /\ About(type, S).ids = S
  /\ \A binding, host : [type |-> "state-sync", rows |-> Rows(binding, host)] \in Frames
  /\ [type |-> "auth-response"] \in Frames /\ [type |-> "member-kicked"] \in Frames
<1>1. \A binding, host : Rows(binding, host) \in [MemberId -> Nat]
  BY DEF Rows
<1>2. ASSUME NEW binding, NEW host
      PROVE  [type |-> "state-sync", rows |-> Rows(binding, host)] \in Frames
  BY <1>1 DEF Frames, FrameType
<1>3. \A type \in FrameType, S \in SUBSET MemberId :
        About(type, S) \in Frames /\ About(type, S).type = type /\ About(type, S).ids = S
  BY DEF About, Frames
<1>4. [type |-> "auth-response"] \in Frames /\ [type |-> "member-kicked"] \in Frames
  BY DEF Frames, FrameType
<1>5. QED
  BY <1>2, <1>3, <1>4

LEMMA SayType ==
  ASSUME NEW type \in FrameType, NEW S \in SUBSET MemberId
  PROVE  Say(type, S) \in Seq(Frames)
  BY FramesSent DEF Say

LEMMA WelcomeType ==
  ASSUME NEW id, NEW binding, NEW host, NEW known \in SUBSET MemberId
  PROVE  /\ Welcome(id, binding, host, known) \in Seq(Frames)
         /\ Welcome(id, binding, host, known) # <<>>
         /\ Head(Welcome(id, binding, host, known)).type = "auth-response"
<1>1. known \ {id} \in SUBSET MemberId
  OBVIOUS
<1>2. Say("presence-update", known \ {id}) \in Seq(Frames)
  BY <1>1, SayType DEF FrameType
<1>3. << [type |-> "auth-response"], [type |-> "state-sync", rows |-> Rows(binding, host)] >>
        \in Seq(Frames)
  BY FramesSent
<1>4. QED
  BY <1>2, <1>3 DEF Welcome, Snapshot

\* What is written reaches the sockets that are open and up, at the end of their queues.
LEMMA WrittenType ==
  ASSUME NEW channels, channels \in [Conn -> Seq(Frames)], NEW targets,
         NEW w \in Seq(Frames)
  PROVE  /\ Written(channels, targets, w) \in [Conn -> Seq(Frames)]
         /\ \A c \in Conn : Written(channels, targets, w)[c] =
               IF c \in targets /\ sock[c] = "open" /\ peer[c] = "up"
               THEN channels[c] \o w ELSE channels[c]
  BY DEF Written

-----------------------------------------------------------------------------
(* What the frames of the host make of what a client knows *)

LEMMA TakenFacts ==
  ASSUME NEW rows, NEW S
  PROVE  /\ Taken("roster", rows, About("member-left", S)) =
              [m \in MemberId |-> IF m \in S THEN 0 ELSE rows[m]]
         /\ Taken("roster", rows, About("member-joined", S)) =
              [m \in MemberId |-> IF m \in S THEN rows[m] + 1 ELSE rows[m]]
         /\ Taken("roster", rows, About("presence-update", S)) = rows
         /\ Taken("panel", rows, About("member-left", S)) = rows \ S
         /\ Taken("panel", rows, About("member-joined", S)) = rows
         /\ Taken("panel", rows, About("presence-update", S)) = rows \cup S
  BY DEF Taken, Updated, Redrawn, About

LEMMA Said ==
  ASSUME NEW what, NEW rows, NEW q \in Seq(Frames), NEW type \in FrameType,
         NEW S \in SUBSET MemberId
  PROVE  CaughtUp(what, rows, q \o Say(type, S)) =
           IF S = {} THEN CaughtUp(what, rows, q)
           ELSE Taken(what, CaughtUp(what, rows, q), About(type, S))
<1>1. CASE S = {}
  <2>1. q \o Say(type, S) = q
    BY <1>1 DEF Say
  <2>2. QED
    BY <1>1, <2>1
<1>2. CASE S # {}
  <2>1. PICK f \in Frames : f = About(type, S)
    BY FramesSent
  <2>2. q \o Say(type, S) = Append(q, f)
    BY <1>2, <2>1 DEF Say
  <2>3. QED
    BY <1>2, <2>1, <2>2, OneMore
<1>3. QED
  BY <1>1, <1>2

\* The welcome tells a client the whole list, and who is where but itself.
LEMMA Welcomed ==
  ASSUME NEW rows, NEW q \in Seq(Frames), NEW id, NEW binding, NEW host,
         NEW known \in SUBSET MemberId, NEW w, w = Welcome(id, binding, host, known)
  PROVE  /\ CaughtUp("roster", rows, q \o w) = Rows(binding, host)
         /\ known \ {id} \subseteq CaughtUp("panel", rows, q \o w)
<1>1. PICK a \in Frames : a = [type |-> "auth-response"]
  BY FramesSent
<1>2. PICK b \in Frames : b = [type |-> "state-sync", rows |-> Rows(binding, host)]
  BY FramesSent
<1>3. PICK S \in SUBSET MemberId : S = known \ {id}
  OBVIOUS
<1>4. Append(q, a) \in Seq(Frames) /\ Append(Append(q, a), b) \in Seq(Frames)
  OBVIOUS
<1>5. PICK p \in Seq(Frames), r \in Seq(Frames) : p = Append(q, a) /\ r = Append(p, b)
  BY <1>4
<1>6. q \o Welcome(id, binding, host, known) = r \o Say("presence-update", S)
  <2>1. PICK say \in Seq(Frames) : say = Say("presence-update", S)
    BY SayType DEF FrameType
  <2>2. <<a, b>> \in Seq(Frames)
    OBVIOUS
  <2>3. r = q \o <<a, b>>
    BY <1>5
  <2>4. q \o (<<a, b>> \o say) = (q \o <<a, b>>) \o say
    BY <2>1, <2>2
  <2>5. QED
    BY <1>1, <1>2, <1>3, <2>1, <2>3, <2>4 DEF Welcome, Snapshot
<1>7. CaughtUp("roster", rows, r) = Rows(binding, host)
  <2>1. CaughtUp("roster", rows, r) = Taken("roster", CaughtUp("roster", rows, p), b)
    <3>1. CaughtUp("roster", rows, Append(p, b)) = Taken("roster", CaughtUp("roster", rows, p), b)
      BY OneMore
    <3>2. QED
      BY <1>5, <3>1
  <2>2. b.type = "state-sync" /\ b.rows = Rows(binding, host)
    BY <1>2
  <2>3. QED
    BY <2>1, <2>2 DEF Taken, Updated
<1>8. CaughtUp("roster", rows, r \o Say("presence-update", S)) = Rows(binding, host)
  <2>1. "presence-update" \in FrameType
    BY DEF FrameType
  <2>2. QED
    BY <1>7, <2>1, Said, TakenFacts
<1>9. S \subseteq CaughtUp("panel", rows, r \o Say("presence-update", S))
  <2>1. CaughtUp("panel", rows, r \o Say("presence-update", S)) =
          IF S = {} THEN CaughtUp("panel", rows, r)
          ELSE Taken("panel", CaughtUp("panel", rows, r), About("presence-update", S))
    BY Said DEF FrameType
  <2>2. S # {} => CaughtUp("panel", rows, r \o Say("presence-update", S))
                    = CaughtUp("panel", rows, r) \cup S
    BY <2>1, TakenFacts
  <2>3. QED
    BY <2>2
<1>10. QED
  BY <1>3, <1>6, <1>8, <1>9

-----------------------------------------------------------------------------
(* Steps of the host *)

\* A frame is written only to a connection that has been decided on.
LEMMA WaitsKeptAt ==
  ASSUME LanInv, AtHost, UNCHANGED <<owner, peer>>, NEW c \in Conn,
         closureId'[c] = closureId[c],
         \/ toClient'[c] = toClient[c]
         \/ /\ closureId[c] # None /\ sock[c] = "open" /\ peer[c] = "up"
            /\ \E w \in Seq(Frames) : toClient'[c] = toClient[c] \o w,
         sock'[c] = "open" => sock[c] = "open"
  PROVE  Waits(c)'
<1> USE DEF LanInv
<1>1. CASE toClient'[c] = toClient[c]
  BY <1>1 DEF Waits, AtHost
<1>2. ASSUME closureId[c] # None, sock[c] = "open", peer[c] = "up",
             NEW w \in Seq(Frames), toClient'[c] = toClient[c] \o w
      PROVE  Waits(c)'
  <2>1. CASE status[owner[c]] \in Greeting
    <3>1. toClient[c] \in Seq(Frames) /\ toClient[c] # <<>>
          /\ Head(toClient[c]).type = "auth-response"
      BY <1>2, <2>1 DEF Waits, LanTypes
    <3>2. toClient'[c] # <<>> /\ Head(toClient'[c]) = Head(toClient[c])
      BY <1>2, <3>1
    <3>3. QED
      BY <1>2, <3>1, <3>2 DEF Waits
  <2>2. CASE status[owner[c]] \notin Greeting
    BY <2>2 DEF Waits, AtHost
  <2>3. QED
    BY <2>1, <2>2
<1>3. QED
  BY <1>1, <1>2

LEMMA WaitsKept ==
  ASSUME LanInv, AtHost, UNCHANGED <<owner, peer, closureId>>,
         toClient' \in [Conn -> Seq(Frames)],
         \A c \in Conn : \/ toClient'[c] = toClient[c]
                         \/ /\ closureId[c] # None /\ sock[c] = "open" /\ peer[c] = "up"
                            /\ \E w \in Seq(Frames) : toClient'[c] = toClient[c] \o w,
         \A c \in Conn : sock'[c] = "open" => sock[c] = "open",
         \A c \in Conn : sock'[c] = "unused" => sock[c] = "unused"
  PROVE  /\ OneLive' /\ LanTypes'
         /\ \A c \in Conn : sock'[c] = "unused" => toClient'[c] = <<>>
         /\ \A c \in Conn : Waits(c)'
<1>1. OneLive' /\ LanTypes'
  BY DEF LanInv, OneLive, LanTypes, AtHost
<1>2. ASSUME NEW c \in Conn, sock'[c] = "unused"
      PROVE  toClient'[c] = <<>>
  BY <1>2 DEF LanInv
<1>3. \A c \in Conn : Waits(c)'
  BY WaitsKeptAt
<1>4. QED
  BY <1>1, <1>2, <1>3

\* A connection that carries a member carries the one it was accepted for.
LEMMA AttachedFacts ==
  ASSUME LanInv, NEW c \in Conn, Attached(c)
  PROVE  /\ sock[c] = "open" /\ peer[c] = "up"
         /\ closureId[c] \in Members /\ closureId[c] \in MemberId /\ closureId[c] # None
         /\ ws[closureId[c]] = c
         /\ owner[c] \in Client
<1>1. PICK m \in Members : ws[m] = c
  BY DEF Attached
<1>2. closureId[c] = m
  BY <1>1 DEF LanInv, IInv, BoundToOwnSocket
<1>3. m \in MemberId /\ m # None
  BY ConstantsOK DEF Members, MemberId
<1>4. QED
  BY <1>1, <1>2, <1>3 DEF Attached, LanInv, OneLive

\* A connection keeps what it knows when nothing is written to it and the host's list and
\* presence say nothing new.
LEMMA StillKnows ==
  ASSUME LanInv, NEW c \in Conn, Attached(c)' => Attached(c),
         UNCHANGED owner, roster'[owner[c]] = roster[owner[c]],
         panel'[owner[c]] = panel[owner[c]], wiredOn'[owner[c]] = wiredOn[owner[c]],
         closureId'[c] = closureId[c], toClient'[c] = toClient[c],
         Loopback = {} => Rows(ws', hostMemberId') = Rows(ws, hostMemberId),
         presence' \ {closureId[c]} \subseteq presence
  PROVE  Knows(c)'
<1> SUFFICES ASSUME Attached(c)'
             PROVE  /\ Loopback = {} => CaughtUp("roster", roster'[owner'[c]], toClient'[c])
                                          = Rows(ws', hostMemberId')
                    /\ Listens(c)' => presence' \ {closureId'[c]} \subseteq Shown(c)'
  BY DEF Knows
<1>1. Knows(c) /\ Attached(c)
  BY DEF LanInv
<1>2. Listens(c)' => Listens(c)
  BY DEF Listens
<1>3. Shown(c)' = Shown(c)
  BY DEF Shown
<1>4. QED
  BY <1>1, <1>2, <1>3 DEF Knows

\* The same when the host says something to it.
LEMMA ToldKnows ==
  ASSUME LanInv, AtHost, NEW c \in Conn, Attached(c)' => Attached(c), UNCHANGED owner,
         closureId'[c] = closureId[c], NEW type \in FrameType, NEW S \in SUBSET MemberId,
         toClient'[c] = toClient[c] \o Say(type, S),
         S # {} /\ Loopback = {} => Rows(ws', hostMemberId') =
                       Taken("roster", Rows(ws, hostMemberId), About(type, S)),
         S # {} => \A rows : presence \ {closureId[c]} \subseteq rows =>
            presence' \ {closureId[c]} \subseteq Taken("panel", rows, About(type, S)),
         S = {} => /\ Loopback = {} => Rows(ws', hostMemberId') = Rows(ws, hostMemberId)
                   /\ presence' \ {closureId[c]} \subseteq presence
  PROVE  Knows(c)'
<1>1. CASE S = {}
  <2>1. toClient'[c] = toClient[c]
    BY <1>1 DEF Say, LanInv, LanTypes
  <2>2. QED
    BY <1>1, <2>1, StillKnows DEF AtHost
<1>2. CASE S # {}
  <2> SUFFICES ASSUME Attached(c)'
               PROVE  /\ Loopback = {} => CaughtUp("roster", roster'[owner'[c]], toClient'[c])
                                            = Rows(ws', hostMemberId')
                      /\ Listens(c)' => presence' \ {closureId'[c]} \subseteq Shown(c)'
    BY DEF Knows
  <2>1. Knows(c) /\ Attached(c) /\ toClient[c] \in Seq(Frames)
    BY DEF LanInv, LanTypes
  <2>2. \A what, rows : CaughtUp(what, rows, toClient'[c]) =
                          Taken(what, CaughtUp(what, rows, toClient[c]), About(type, S))
    BY <1>2, <2>1, Said
  <2>3. ASSUME Loopback = {}
        PROVE  CaughtUp("roster", roster'[owner'[c]], toClient'[c]) = Rows(ws', hostMemberId')
    BY <1>2, <2>1, <2>2, <2>3 DEF Knows, AtHost
  <2>4. ASSUME Listens(c)'
        PROVE  presence' \ {closureId'[c]} \subseteq Shown(c)'
    <3>1. Listens(c)
      BY <2>4 DEF Listens, AtHost
    <3>2. presence \ {closureId[c]} \subseteq Shown(c)
      BY <2>1, <3>1 DEF Knows
    <3>3. Shown(c)' = Taken("panel", Shown(c), About(type, S))
      BY <2>2 DEF Shown, AtHost
    <3>4. QED
      BY <1>2, <3>2, <3>3
  <2>5. QED
    BY <2>3, <2>4
<1>3. QED
  BY <1>1, <1>2

\* A step in which nothing is written, nobody comes or goes and no socket opens.
LEMMA QuietKept ==
  ASSUME LanInv, IInv', Quiet,
         UNCHANGED <<owner, peer, closureId, ws, hostMemberId, presence>>,
         \A c \in Conn : sock'[c] = "open" => sock[c] = "open",
         \A c \in Conn : sock'[c] = "unused" => sock[c] = "unused"
  PROVE  LanInv'
<1>1. AtHost /\ toClient' \in [Conn -> Seq(Frames)] /\ toClient' = toClient
  BY DEF Quiet, LanInv, LanTypes
<1>2. /\ OneLive' /\ LanTypes'
      /\ \A c \in Conn : sock'[c] = "unused" => toClient'[c] = <<>>
      /\ \A c \in Conn : Waits(c)'
  BY <1>1, WaitsKept
<1>3. HostRow'
  BY DEF LanInv, HostRow
<1>4. ASSUME NEW c \in Conn
      PROVE  Knows(c)'
  <2>1. Attached(c)' => Attached(c)
    BY DEF Attached, Members
  <2>2. QED
    BY <1>1, <2>1, StillKnows DEF AtHost
<1>5. QED
  BY <1>2, <1>3, <1>4 DEF LanInv

LEMMA QuietStepsKept ==
  ASSUME LanInv, IInv', NEW c \in Conn,
         \/ Refuse(c) \/ NoteTracked(c) \/ NotePong(c) \/ TimeOut(c)
         \/ ReportTracked(c) \/ ReportEditor(c)
  PROVE  LanInv'
<1>1. \A d \in Conn : /\ Close(d, "closing") # "open"
                      /\ Close(d, "closing") = "unused" => sock[d] = "unused"
  BY DEF Close
<1>2. /\ Quiet /\ UNCHANGED <<owner, peer, closureId, ws, hostMemberId, presence>>
      /\ sock' = sock \/ sock' = [sock EXCEPT ![c] = Close(c, "closing")]
  BY DEF Refuse, NoteTracked, NotePong, TimeOut, ReportTracked, ReportEditor, RejectAuth,
         TrackedPathsUpdate, Pong, AuthTimeout, ClientSend
<1>3. /\ \A d \in Conn : sock'[d] = "open" => sock[d] = "open"
      /\ \A d \in Conn : sock'[d] = "unused" => sock[d] = "unused"
  BY <1>1, <1>2 DEF LanInv, IInv, TypeOK
<1>4. QED
  BY <1>2, <1>3, QuietKept

LEMMA StopKept ==
  ASSUME LanInv, IInv', StopSession
  PROVE  LanInv'
<1>1. \A d \in Conn : /\ Close(d, "closing") # "open"
                      /\ Close(d, "closing") = "unused" => sock[d] = "unused"
  BY DEF Close
<1>2. /\ AtHost /\ UNCHANGED <<owner, peer, closureId, hostMemberId, toClient>>
      /\ \A m \in MemberId : ws'[m] = None
      /\ \A c \in Conn : sock'[c] = Close(c, "closing") \/ sock'[c] = sock[c]
  BY DEF StopSession, Stop, Quiet
<1>3. toClient' \in [Conn -> Seq(Frames)]
  BY <1>2 DEF LanInv, LanTypes
<1>4. /\ OneLive' /\ LanTypes'
      /\ \A c \in Conn : sock'[c] = "unused" => toClient'[c] = <<>>
      /\ \A c \in Conn : Waits(c)'
  BY <1>1, <1>2, <1>3, WaitsKept
<1>5. HostRow'
  BY <1>2 DEF LanInv, HostRow
<1>6. \A c \in Conn : Knows(c)'
  BY <1>2 DEF Knows, Attached, Members
<1>7. QED
  BY <1>4, <1>5, <1>6 DEF LanInv

\* Whom a frame to the members in S goes to.
LEMMA Reached ==
  ASSUME LanInv, NEW S, NEW c \in Conn
  PROVE  /\ c \in SocketsOf(S) => closureId[c] \in S /\ closureId[c] # None
         /\ Attached(c) /\ closureId[c] \in S => c \in SocketsOf(S)
<1>1. ASSUME c \in SocketsOf(S)
      PROVE  closureId[c] \in S /\ closureId[c] # None
  <2>1. PICK m \in S \cap Members : ws[m] = c
    BY <1>1 DEF SocketsOf
  <2>2. closureId[c] = m /\ m # None
    BY <2>1, ConstantsOK DEF LanInv, IInv, BoundToOwnSocket, Members, MemberId
  <2>3. QED
    BY <2>1, <2>2
<1>2. ASSUME Attached(c), closureId[c] \in S
      PROVE  c \in SocketsOf(S)
  BY <1>2, AttachedFacts DEF SocketsOf
<1>3. QED
  BY <1>1, <1>2

\* What WaitsKept asks of a step that writes to members.
LEMMA WrittenToMembers ==
  ASSUME LanInv, NEW S, NEW w \in Seq(Frames), Write(SocketsOf(S), w)
  PROVE  /\ toClient' \in [Conn -> Seq(Frames)]
         /\ \A c \in Conn : \/ toClient'[c] = toClient[c]
                            \/ /\ closureId[c] # None /\ sock[c] = "open" /\ peer[c] = "up"
                               /\ \E v \in Seq(Frames) : toClient'[c] = toClient[c] \o v
         /\ \A c \in Conn : toClient'[c] =
               IF c \in SocketsOf(S) /\ sock[c] = "open" /\ peer[c] = "up"
               THEN toClient[c] \o w ELSE toClient[c]
<1>1. /\ toClient' \in [Conn -> Seq(Frames)]
      /\ \A c \in Conn : toClient'[c] =
               IF c \in SocketsOf(S) /\ sock[c] = "open" /\ peer[c] = "up"
               THEN toClient[c] \o w ELSE toClient[c]
  BY WrittenType DEF Write, LanInv, LanTypes
<1>2. QED
  BY <1>1, Reached

\* Those that stay are told who left.
LEMMA RemovalKept ==
  ASSUME LanInv, IInv', AtHost, NEW S \in SUBSET Members, RemoveMembers(S), WriteLeft(S),
         UNCHANGED <<owner, peer, closureId>>,
         \A c \in Conn : sock'[c] = "open" => sock[c] = "open",
         \A c \in Conn : sock'[c] = "unused" => sock[c] = "unused"
  PROVE  LanInv'
<1>1. S \in SUBSET MemberId /\ "member-left" \in FrameType
  BY DEF Members, FrameType
<1>2. PICK w \in Seq(Frames) : w = Say("member-left", S)
  BY <1>1, SayType
<1>3. Write(SocketsOf(MemberId \ S), w)
  BY <1>2 DEF WriteLeft
<1>4. /\ toClient' \in [Conn -> Seq(Frames)]
      /\ \A c \in Conn : \/ toClient'[c] = toClient[c]
                         \/ /\ closureId[c] # None /\ sock[c] = "open" /\ peer[c] = "up"
                            /\ \E v \in Seq(Frames) : toClient'[c] = toClient[c] \o v
      /\ \A c \in Conn : toClient'[c] =
            IF c \in SocketsOf(MemberId \ S) /\ sock[c] = "open" /\ peer[c] = "up"
            THEN toClient[c] \o w ELSE toClient[c]
  BY <1>3, WrittenToMembers
<1>5. /\ OneLive' /\ LanTypes'
      /\ \A c \in Conn : sock'[c] = "unused" => toClient'[c] = <<>>
      /\ \A c \in Conn : Waits(c)'
  BY <1>4, WaitsKept
<1>6. S \subseteq Conn
  BY MemberFacts DEF LanInv
<1>7. HostRow'
  BY <1>6, ConstantsOK DEF LanInv, HostRow, RemoveMembers
<1>8. /\ \A m \in MemberId : ws'[m] = IF m \in S THEN None ELSE ws[m]
      /\ presence' = presence \ S
  BY DEF RemoveMembers
<1>9. ASSUME Loopback = {}
      PROVE  Rows(ws', hostMemberId') =
               [m \in MemberId |-> IF m \in S THEN 0 ELSE Rows(ws, hostMemberId)[m]]
  <2>1. hostMemberId' = hostMemberId /\ hostMemberId \notin S
    BY <1>6, <1>7, <1>9, ConstantsOK DEF LanInv, HostRow
  <2>2. QED
    BY <1>8, <2>1 DEF Rows
<1>10. ASSUME NEW c \in Conn
       PROVE  Knows(c)'
  <2>1. CASE ~Attached(c)'
    BY <2>1 DEF Knows
  <2>2. CASE Attached(c)'
    <3>1. Attached(c) /\ closureId[c] \in MemberId \ S
      <4>1. PICK m \in Members' : ws'[m] = c
        BY <2>2 DEF Attached
      <4>2. m \in MemberId \ S /\ m \in Members /\ ws[m] = c
        BY <1>8, <4>1 DEF Members
      <4>3. Attached(c)
        BY <2>2, <4>2 DEF Attached
      <4>4. closureId[c] = m
        BY <4>2 DEF LanInv, IInv, BoundToOwnSocket
      <4>5. QED
        BY <4>2, <4>3, <4>4
    <3>2. toClient'[c] = toClient[c] \o Say("member-left", S)
      BY <1>2, <1>4, <3>1, Reached, AttachedFacts
    <3>3. \A rows : presence \ {closureId[c]} \subseteq rows =>
            presence' \ {closureId[c]} \subseteq Taken("panel", rows, About("member-left", S))
      BY <1>8, TakenFacts
    <3>4. Loopback = {} => Rows(ws', hostMemberId') =
                       Taken("roster", Rows(ws, hostMemberId), About("member-left", S))
      BY <1>9, TakenFacts
    <3>5. S = {} => /\ Loopback = {} => Rows(ws', hostMemberId') = Rows(ws, hostMemberId)
                    /\ presence' \ {closureId[c]} \subseteq presence
      <4>1. SUFFICES ASSUME S = {}, Loopback = {}
                     PROVE  Rows(ws', hostMemberId') = Rows(ws, hostMemberId)
        BY <1>8
      <4>2. hostMemberId' = hostMemberId
        BY <1>7, <4>1 DEF HostRow, LanInv
      <4>3. QED
        BY <1>8, <4>1, <4>2 DEF Rows
    <3>6. QED
      BY <1>1, <3>1, <3>2, <3>3, <3>4, <3>5, ToldKnows
  <2>3. QED
    BY <2>1, <2>2
<1>11. QED
  BY <1>5, <1>7, <1>10 DEF LanInv

LEMMA LoseSocketKept ==
  ASSUME LanInv, IInv', NEW c \in Conn, LoseSocket(c)
  PROVE  LanInv'
<1>1. PICK S : S = LostWith(c)
  OBVIOUS
<1>2. S \in SUBSET Members /\ RemoveMembers(S) /\ WriteLeft(S) /\ AtHost
  BY <1>1 DEF LoseSocket, CloseEvent, LostWith
<1>3. UNCHANGED <<owner, peer, closureId>> /\ sock' = [sock EXCEPT ![c] = "closed"]
  BY DEF LoseSocket, CloseEvent
<1>4. /\ \A d \in Conn : sock'[d] = "open" => sock[d] = "open"
      /\ \A d \in Conn : sock'[d] = "unused" => sock[d] = "unused"
  BY <1>3 DEF LanInv, IInv, TypeOK
<1>5. QED
  BY <1>2, <1>3, <1>4, RemovalKept

LEMMA TickKept ==
  ASSUME LanInv, IInv', Tick
  PROVE  LanInv'
<1>1. PICK S : S = Members \ isAlive
  OBVIOUS
<1>2. S \in SUBSET Members /\ RemoveMembers(S) /\ WriteLeft(S) /\ AtHost
  BY <1>1 DEF Tick, HeartbeatTick
<1>3. /\ UNCHANGED <<owner, peer, closureId>>
      /\ \A d \in Conn : sock'[d] = "terminated" \/ sock'[d] = sock[d]
  BY DEF Tick, HeartbeatTick
<1>4. /\ \A d \in Conn : sock'[d] = "open" => sock[d] = "open"
      /\ \A d \in Conn : sock'[d] = "unused" => sock[d] = "unused"
  BY <1>3
<1>5. QED
  BY <1>2, <1>3, <1>4, RemovalKept

\* The kicked socket no longer carries its member.
LEMMA KickKept ==
  ASSUME LanInv, IInv', NEW m \in MemberId, Kick(m)
  PROVE  LanInv'
<1>1. /\ AtHost /\ m \in Members
      /\ UNCHANGED <<owner, peer, closureId, ws, hostMemberId, presence>>
      /\ sock' = [sock EXCEPT ![ws[m]] = Close(ws[m], "kicked")]
      /\ Write({ws[m]}, <<[type |-> "member-kicked"]>>)
  BY DEF Kick, KickMember
<1>2. ws[m] \in Conn /\ closureId[ws[m]] = m /\ m # None
  BY <1>1, MemberFacts, ConstantsOK DEF LanInv, MemberId
<1>3. PICK w \in Seq(Frames) : w = <<[type |-> "member-kicked"]>>
  <2>1. PICK f \in Frames : f = [type |-> "member-kicked"]
    BY FramesSent
  <2>2. <<f>> \in Seq(Frames)
    OBVIOUS
  <2>3. QED
    BY <2>1, <2>2
<1>4. /\ toClient' \in [Conn -> Seq(Frames)]
      /\ \A c \in Conn : toClient'[c] =
            IF c \in {ws[m]} /\ sock[c] = "open" /\ peer[c] = "up"
            THEN toClient[c] \o w ELSE toClient[c]
  <2>1. PICK targets : targets = {ws[m]}
    OBVIOUS
  <2>2. toClient' = Written(toClient, targets, w) /\ toClient \in [Conn -> Seq(Frames)]
    BY <1>1, <1>3, <2>1 DEF Write, LanInv, LanTypes
  <2>3. QED
    BY <2>1, <2>2, WrittenType
<1>5. /\ \A c \in Conn : sock'[c] = "open" => sock[c] = "open" /\ c # ws[m]
      /\ \A c \in Conn : sock'[c] = "unused" => sock[c] = "unused"
  BY <1>1, <1>2 DEF Close, LanInv, IInv, TypeOK
<1>6. \A c \in Conn : \/ toClient'[c] = toClient[c]
                      \/ /\ closureId[c] # None /\ sock[c] = "open" /\ peer[c] = "up"
                         /\ \E v \in Seq(Frames) : toClient'[c] = toClient[c] \o v
  BY <1>2, <1>4
<1>7. /\ OneLive' /\ LanTypes'
      /\ \A c \in Conn : sock'[c] = "unused" => toClient'[c] = <<>>
      /\ \A c \in Conn : Waits(c)'
  BY <1>1, <1>4, <1>5, <1>6, WaitsKept
<1>8. HostRow'
  BY <1>1 DEF LanInv, HostRow
<1>9. ASSUME NEW c \in Conn
      PROVE  Knows(c)'
  <2>1. CASE c = ws[m]
    BY <1>5, <2>1 DEF Knows, Attached
  <2>2. CASE c # ws[m]
    <3>1. Attached(c)' => Attached(c)
      BY <1>1, <1>5 DEF Attached, Members
    <3>2. toClient'[c] = toClient[c]
      BY <1>4, <2>2
    <3>3. QED
      BY <1>1, <3>1, <3>2, StillKnows DEF AtHost
  <2>3. QED
    BY <2>1, <2>2
<1>10. QED
  BY <1>7, <1>8, <1>9 DEF LanInv

\* Everybody else is told where the members in S are.
LEMMA PresenceKept ==
  ASSUME LanInv, IInv', AtHost, NEW S \in SUBSET MemberId, NEW T \in SUBSET MemberId,
         \A m \in MemberId \ T : S \subseteq {m}, presence' = presence \cup S,
         Write(SocketsOf(T), Say("presence-update", S)),
         UNCHANGED <<owner, peer, closureId, ws, hostMemberId, sock>>
  PROVE  LanInv'
<1>1. "presence-update" \in FrameType
  BY DEF FrameType
<1>2. PICK w \in Seq(Frames) : w = Say("presence-update", S)
  BY <1>1, SayType
<1>3. Write(SocketsOf(T), w)
  BY <1>2
<1>4. /\ toClient' \in [Conn -> Seq(Frames)]
      /\ \A c \in Conn : \/ toClient'[c] = toClient[c]
                         \/ /\ closureId[c] # None /\ sock[c] = "open" /\ peer[c] = "up"
                            /\ \E v \in Seq(Frames) : toClient'[c] = toClient[c] \o v
      /\ \A c \in Conn : toClient'[c] =
            IF c \in SocketsOf(T) /\ sock[c] = "open" /\ peer[c] = "up"
            THEN toClient[c] \o w ELSE toClient[c]
  BY <1>3, WrittenToMembers
<1>5. /\ OneLive' /\ LanTypes'
      /\ \A c \in Conn : sock'[c] = "unused" => toClient'[c] = <<>>
      /\ \A c \in Conn : Waits(c)'
  BY <1>4, WaitsKept
<1>6. HostRow'
  BY DEF LanInv, HostRow
<1>7. Rows(ws', hostMemberId') = Rows(ws, hostMemberId)
  OBVIOUS
<1>8. Rows(ws, hostMemberId) = Taken("roster", Rows(ws, hostMemberId), About("presence-update", S))
  BY TakenFacts
<1>9. ASSUME NEW c \in Conn
      PROVE  Knows(c)'
  <2>1. Attached(c)' => Attached(c)
    BY DEF Attached, Members
  <2>2. CASE Attached(c) /\ c \in SocketsOf(T)
    <3>1. toClient'[c] = toClient[c] \o Say("presence-update", S)
      BY <1>2, <1>4, <2>2, AttachedFacts
    <3>2. \A rows : presence \ {closureId[c]} \subseteq rows =>
            presence' \ {closureId[c]} \subseteq Taken("panel", rows, About("presence-update", S))
      BY TakenFacts
    <3>3. QED
      BY <1>1, <1>7, <1>8, <2>1, <3>1, <3>2, ToldKnows
  <2>3. CASE Attached(c) /\ c \notin SocketsOf(T)
    <3>1. closureId[c] \in MemberId /\ closureId[c] \notin T /\ toClient'[c] = toClient[c]
      BY <1>4, <2>3, Reached, AttachedFacts
    <3>2. presence' \ {closureId[c]} \subseteq presence
      BY <3>1
    <3>3. QED
      BY <1>7, <2>1, <3>1, <3>2, StillKnows DEF AtHost
  <2>4. CASE ~Attached(c)
    BY <2>1, <2>4 DEF Knows
  <2>5. QED
    BY <2>2, <2>3, <2>4
<1>10. QED
  BY <1>5, <1>6, <1>9 DEF LanInv

LEMMA RelayKept ==
  ASSUME LanInv, IInv', NEW c \in Conn, RelayPresence(c)
  PROVE  LanInv'
<1>1. Sender(c) \in SUBSET MemberId
  BY DEF Sender, LanInv, IInv, TypeOK
<1>2. PICK S \in SUBSET MemberId, T \in SUBSET MemberId : S = Sender(c) /\ T = MemberId \ Sender(c)
  BY <1>1
<1>3. \A m \in MemberId \ T : S \subseteq {m}
  BY <1>2 DEF Sender
<1>4. /\ AtHost /\ presence' = presence \cup S
      /\ Write(SocketsOf(T), Say("presence-update", S))
      /\ UNCHANGED <<owner, peer, closureId, ws, hostMemberId, sock>>
  BY <1>2 DEF RelayPresence, PresenceUpdate, PresenceFrames
<1>5. QED
  BY <1>3, <1>4, PresenceKept

LEMMA ShowHostKept ==
  ASSUME LanInv, IInv', ShowHost
  PROVE  LanInv'
<1>1. PICK S \in SUBSET MemberId, T \in SUBSET MemberId : S = {HostId} /\ T = MemberId
  BY DEF MemberId
<1>2. /\ AtHost /\ presence' = presence \cup S
      /\ Write(SocketsOf(T), Say("presence-update", S))
      /\ UNCHANGED <<owner, peer, closureId, ws, hostMemberId, sock>>
  BY <1>1 DEF ShowHost, HostPresence, Say
<1>3. \A m \in MemberId \ T : S \subseteq {m}
  BY <1>1
<1>4. QED
  BY <1>2, <1>3, PresenceKept

-----------------------------------------------------------------------------
(* The host lets somebody in *)

\* A connection that is accepted hears the verdict first and then all there is to know.
LEMMA WelcomeKept ==
  ASSUME LanInv, IInv', AtHost, NEW c \in Conn, NEW id \in MemberId,
         UNCHANGED <<owner, peer>>, closureId[c] = None,
         closureId' = [closureId EXCEPT ![c] = id],
         sock[c] # "unused", sock'[c] = sock[c],
         \A d \in Conn : sock'[d] = "open" => sock[d] = "open",
         \A d \in Conn : sock'[d] = "unused" => sock[d] = "unused",
         toClient' \in [Conn -> Seq(Frames)],
         \A d \in Conn \ {c} :
            \/ toClient'[d] = toClient[d]
            \/ /\ closureId[d] # None /\ sock[d] = "open" /\ peer[d] = "up"
               /\ \E w \in Seq(Frames) : toClient'[d] = toClient[d] \o w,
         toClient'[c] = IF sock[c] = "open" /\ peer[c] = "up"
                        THEN toClient[c] \o Welcome(id, ws', hostMemberId', presence')
                        ELSE toClient[c],
         HostRow', \A d \in Conn \ {c} : Knows(d)'
  PROVE  LanInv'
<1>1. presence' \in SUBSET MemberId /\ toClient[c] \in Seq(Frames)
  BY DEF IInv, TypeOK, LanInv, LanTypes
<1>2. OneLive' /\ LanTypes'
  BY DEF LanInv, OneLive, LanTypes, AtHost
<1>3. ASSUME NEW d \in Conn, sock'[d] = "unused"
      PROVE  toClient'[d] = <<>>
  BY <1>3 DEF LanInv
<1>4. closureId'[c] = id /\ id # None /\ \A d \in Conn \ {c} : closureId'[d] = closureId[d]
  BY ConstantsOK DEF LanInv, IInv, TypeOK, MemberId
<1>5. PICK w \in Seq(Frames) : /\ w = Welcome(id, ws', hostMemberId', presence')
                              /\ w # <<>> /\ Head(w).type = "auth-response"
  BY <1>1, WelcomeType
<1>6. ASSUME NEW d \in Conn
      PROVE  Waits(d)'
  <2>1. CASE d # c
    BY <1>4, <2>1, WaitsKeptAt
  <2>2. CASE d = c
    <3>1. SUFFICES ASSUME peer[c] = "up", status[owner[c]] \in Greeting
                   PROVE  /\ toClient'[c] # <<>> => Head(toClient'[c]).type = "auth-response"
                          /\ sock'[c] = "open" => toClient'[c] # <<>>
      BY <1>4, <2>2 DEF Waits, AtHost
    <3>2. toClient[c] = <<>>
      BY <3>1 DEF LanInv, Waits
    <3>3. <<>> \o w = w
      OBVIOUS
    <3>4. toClient'[c] = IF sock[c] = "open" THEN w ELSE <<>>
      BY <1>5, <3>1, <3>2, <3>3
    <3>5. QED
      BY <1>5, <3>4
  <2>3. QED
    BY <2>1, <2>2
<1>7. Knows(c)'
  <2>1. SUFFICES ASSUME Attached(c)'
                 PROVE  /\ CaughtUp("roster", roster'[owner'[c]], toClient'[c])
                             = Rows(ws', hostMemberId')
                        /\ presence' \ {closureId'[c]} \subseteq Shown(c)'
    BY DEF Knows
  <2>2. toClient'[c] = toClient[c] \o w
    BY <1>5, <2>1 DEF Attached
  <2>3. /\ \A rows : CaughtUp("roster", rows, toClient[c] \o w) = Rows(ws', hostMemberId')
        /\ \A rows : presence' \ {id} \subseteq CaughtUp("panel", rows, toClient[c] \o w)
    <3>1. PICK q \in Seq(Frames), known \in SUBSET MemberId :
            q = toClient[c] /\ known = presence'
      BY <1>1
    <3>2. PICK binding, host : binding = ws' /\ host = hostMemberId'
      OBVIOUS
    <3>3. w = Welcome(id, binding, host, known)
      BY <1>5, <3>1, <3>2
    <3>4. \A rows : /\ CaughtUp("roster", rows, q \o w) = Rows(binding, host)
                    /\ known \ {id} \subseteq CaughtUp("panel", rows, q \o w)
      BY <3>3, Welcomed
    <3>5. QED
      BY <3>1, <3>2, <3>4
  <2>4. QED
    BY <1>4, <2>2, <2>3 DEF Shown
<1>8. QED
  BY <1>2, <1>3, <1>6, <1>7 DEF LanInv

LEMMA TakeBackKept ==
  ASSUME LanInv, IInv', NEW c \in Conn, TakeBack(c)
  PROVE  LanInv'
<1>1. PICK m : m = SeatOf(owner[c])
  OBVIOUS
<1>2. Receive(c, "auth-request") /\ "auth-request" \in ClientFrame /\ IInv
  BY DEF TakeBack, Rebind, ClientFrame, LanInv
<1>3. closureId[c] = None /\ owner[c] \in Client /\ sock[c] # "unused" /\ m # None
  BY <1>1, <1>2, Reading DEF TakeBack, Rebind, IInv, TypeOK
<1>4. m \in Members /\ m \in MemberId /\ ws[m] # None
  BY <1>1, <1>2, <1>3, SeatFacts DEF Members
<1>5. closureId[ws[m]] = m /\ ws[m] # c
  BY <1>2, <1>3, <1>4, MemberFacts
<1>6. /\ AtHost /\ UNCHANGED <<owner, peer, hostMemberId, presence>>
      /\ closureId' = [closureId EXCEPT ![c] = m] /\ ws' = [ws EXCEPT ![m] = c]
      /\ sock' = [d \in Conn |-> IF d = ws[m] /\ d # c THEN Close(d, "closing") ELSE sock[d]]
      /\ toClient' = Written(toClient, {c}, Welcome(m, ws', hostMemberId, presence))
  BY <1>1 DEF TakeBack, Rebind, SetMemberId, RebindFrames, Write
<1>7. /\ sock'[c] = sock[c]
      /\ \A d \in Conn : sock'[d] = "open" => sock[d] = "open"
      /\ \A d \in Conn : sock'[d] = "unused" => sock[d] = "unused"
  BY <1>6 DEF Close
<1>8. PICK w \in Seq(Frames) : w = Welcome(m, ws', hostMemberId, presence)
  BY <1>2, WelcomeType DEF IInv, TypeOK
<1>9. PICK targets : targets = {c}
  OBVIOUS
<1>10. /\ toClient' \in [Conn -> Seq(Frames)]
       /\ \A d \in Conn : toClient'[d] =
            IF d \in targets /\ sock[d] = "open" /\ peer[d] = "up"
            THEN toClient[d] \o w ELSE toClient[d]
  <2>1. toClient' = Written(toClient, targets, w) /\ toClient \in [Conn -> Seq(Frames)]
    BY <1>6, <1>8, <1>9 DEF LanInv, LanTypes
  <2>2. QED
    BY <2>1, WrittenType
<1>11. HostRow'
  BY <1>6 DEF LanInv, HostRow
<1>12. \A n \in MemberId : ws'[n] = IF n = m THEN c ELSE ws[n]
  BY <1>4, <1>6, <1>2 DEF IInv, TypeOK
<1>13. Rows(ws', hostMemberId') = Rows(ws, hostMemberId)
  <2>1. \A n \in MemberId : ws'[n] # None <=> ws[n] # None
    BY <1>4, <1>12, ConstantsOK
  <2>2. QED
    BY <1>6, <2>1 DEF Rows
<1>14. ASSUME NEW d \in Conn \ {c}
       PROVE  Knows(d)'
  <2>1. Attached(d)' => Attached(d)
    <3>1. ASSUME NEW n \in MemberId, ws'[n] = d
          PROVE  ws[n] = d
      BY <1>12, <3>1
    <3>2. d # None
      BY ConstantsOK
    <3>3. QED
      BY <1>6, <1>7, <3>1, <3>2 DEF Attached, Members
  <2>2. toClient'[d] = toClient[d] /\ closureId'[d] = closureId[d]
    BY <1>6, <1>9, <1>10 DEF LanInv, IInv, TypeOK
  <2>3. QED
    BY <1>6, <1>13, <2>1, <2>2, StillKnows DEF AtHost
<1>15. QED
  BY <1>3, <1>4, <1>6, <1>7, <1>8, <1>9, <1>10, <1>11, <1>14, WelcomeKept

\* A connection that is not the newcomer's hears of the newcomer, and first where it is
\* if it is the host's own client.
LEMMA LetInKept ==
  ASSUME LanInv, IInv', NEW c \in Conn, LetIn(c)
  PROVE  LanInv'
<1>1. Receive(c, "auth-request") /\ "auth-request" \in ClientFrame /\ IInv
  BY DEF LetIn, Join, ClientFrame, LanInv
<1>2. closureId[c] = None /\ owner[c] \in Client /\ sock[c] # "unused" /\ c \in MemberId
  BY <1>1, Reading DEF LetIn, Join, IInv, TypeOK, MemberId
<1>3. ws[c] = None
  <2>1. c \notin Members
    BY <1>1, <1>2, MemberFacts, ConstantsOK DEF MemberId
  <2>2. QED
    BY <1>2, <2>1 DEF Members
<1>4. /\ AtHost /\ UNCHANGED <<owner, peer, sock>>
      /\ closureId' = [closureId EXCEPT ![c] = c] /\ ws' = [ws EXCEPT ![c] = c]
      /\ hostMemberId' = IF owner[c] \in Loopback THEN c ELSE hostMemberId
      /\ presence' = IF owner[c] \in Loopback THEN presence \cup {c} ELSE presence
  BY DEF LetIn, Join, SetMemberId
<1>5. PICK f \in Frames, g \in Frames, hostIs \in Seq(Frames), joined \in Seq(Frames),
           w \in Seq(Frames) :
        /\ f = About("presence-update", {c}) /\ g = About("member-joined", {c})
        /\ hostIs = <<f>> /\ joined = <<g>>
        /\ w = Welcome(c, ws', hostMemberId', presence')
  <2>1. PICK known \in SUBSET MemberId : known = presence'
    BY DEF IInv, TypeOK
  <2>2. PICK binding, host : binding = ws' /\ host = hostMemberId'
    OBVIOUS
  <2>3. Welcome(c, binding, host, known) \in Seq(Frames)
    BY WelcomeType
  <2>4. About("presence-update", {c}) \in Frames /\ About("member-joined", {c}) \in Frames
    BY <1>2, FramesSent DEF FrameType
  <2>5. \A x \in Frames : <<x>> \in Seq(Frames)
    OBVIOUS
  <2>6. QED
    BY <2>1, <2>2, <2>3, <2>4, <2>5
<1>6. PICK announced, welcomed, S, T, U :
        /\ S = SocketsOf(MemberId) /\ T = {c} /\ U = SocketsOf(MemberId \ {c})
        /\ announced = IF owner[c] \in Loopback THEN Written(toClient, S, hostIs) ELSE toClient
        /\ welcomed = Written(announced, T, w)
  OBVIOUS
<1>7. toClient' = Written(welcomed, U, joined)
  BY <1>4, <1>5, <1>6 DEF LetIn, JoinFrames
<1>8. toClient \in [Conn -> Seq(Frames)]
  BY DEF LanInv, LanTypes
<1>9. /\ announced \in [Conn -> Seq(Frames)]
      /\ \A d \in Conn : announced[d] =
           IF owner[c] \in Loopback /\ d \in S /\ sock[d] = "open" /\ peer[d] = "up"
           THEN toClient[d] \o hostIs ELSE toClient[d]
  <2>1. CASE owner[c] \in Loopback
    BY <1>6, <1>8, <2>1, WrittenType
  <2>2. CASE owner[c] \notin Loopback
    BY <1>6, <1>8, <2>2
  <2>3. QED
    BY <2>1, <2>2
<1>10. /\ welcomed \in [Conn -> Seq(Frames)]
       /\ \A d \in Conn : welcomed[d] =
            IF d \in T /\ sock[d] = "open" /\ peer[d] = "up"
            THEN announced[d] \o w ELSE announced[d]
  <2>1. PICK channels : channels = announced /\ channels \in [Conn -> Seq(Frames)]
    BY <1>9
  <2>2. /\ Written(channels, T, w) \in [Conn -> Seq(Frames)]
        /\ \A d \in Conn : Written(channels, T, w)[d] =
             IF d \in T /\ sock[d] = "open" /\ peer[d] = "up"
             THEN channels[d] \o w ELSE channels[d]
    BY <2>1, WrittenType
  <2>3. QED
    BY <1>6, <2>1, <2>2
<1>11. /\ toClient' \in [Conn -> Seq(Frames)]
       /\ \A d \in Conn : toClient'[d] =
            IF d \in U /\ sock[d] = "open" /\ peer[d] = "up"
            THEN welcomed[d] \o joined ELSE welcomed[d]
  <2>1. PICK channels : channels = welcomed
    OBVIOUS
  <2>2. /\ Written(channels, U, joined) \in [Conn -> Seq(Frames)]
        /\ \A d \in Conn : Written(channels, U, joined)[d] =
             IF d \in U /\ sock[d] = "open" /\ peer[d] = "up"
             THEN channels[d] \o joined ELSE channels[d]
    BY <1>10, <2>1, WrittenType
  <2>3. QED
    BY <1>7, <2>1, <2>2
<1>12. /\ c \notin S /\ c \notin U
       /\ \A d \in Conn \ {c} : /\ d \in S \cup U => closureId[d] # None
                                /\ Attached(d) => d \in S /\ d \in U
  <2>1. \A d \in Conn : d \in S \cup U => closureId[d] # None
    BY <1>6, Reached
  <2>2. ASSUME NEW d \in Conn \ {c}, Attached(d)
        PROVE  d \in S /\ d \in U
    <3>1. closureId[d] \in Members /\ closureId[d] \in MemberId
      BY <2>2, AttachedFacts
    <3>2. closureId[d] # c
      BY <1>3, <3>1 DEF Members
    <3>3. QED
      BY <1>6, <2>2, <3>1, <3>2, Reached
  <2>3. QED
    BY <1>2, <2>1, <2>2
<1>13. toClient'[c] = IF sock[c] = "open" /\ peer[c] = "up"
                      THEN toClient[c] \o w ELSE toClient[c]
  BY <1>6, <1>9, <1>10, <1>11, <1>12
<1>14. ASSUME NEW d \in Conn \ {c}
       PROVE  \/ toClient'[d] = toClient[d]
              \/ /\ closureId[d] # None /\ sock[d] = "open" /\ peer[d] = "up"
                 /\ \E v \in Seq(Frames) : toClient'[d] = toClient[d] \o v
  <2>1. welcomed[d] = announced[d]
    BY <1>6, <1>10
  <2>2. PICK q \in Seq(Frames) : q = toClient[d]
    BY <1>8
  <2>3. (q \o hostIs) \o joined = q \o (hostIs \o joined)
    OBVIOUS
  <2>4. hostIs \o joined \in Seq(Frames)
    OBVIOUS
  <2>5. CASE ~(sock[d] = "open" /\ peer[d] = "up" /\ d \in S \cup U)
    BY <1>9, <1>11, <2>1, <2>5
  <2>6. CASE sock[d] = "open" /\ peer[d] = "up" /\ d \in S \cup U
    <3>1. closureId[d] # None
      BY <1>12, <2>6
    <3>2. \/ toClient'[d] = q \/ toClient'[d] = q \o hostIs
          \/ toClient'[d] = q \o joined \/ toClient'[d] = q \o (hostIs \o joined)
      BY <1>9, <1>11, <2>1, <2>2, <2>3, <2>6
    <3>3. QED
      BY <2>2, <2>4, <2>6, <3>1, <3>2
  <2>7. QED
    BY <2>5, <2>6
<1>15. HostRow'
  BY <1>2, <1>4 DEF LanInv, HostRow
<1>16. \A n \in MemberId : ws'[n] = IF n = c THEN c ELSE ws[n]
  BY <1>1, <1>2, <1>4 DEF IInv, TypeOK
<1>17. ASSUME Loopback = {}
       PROVE  Rows(ws', hostMemberId') =
                [m \in MemberId |-> IF m \in {c} THEN Rows(ws, hostMemberId)[m] + 1
                                    ELSE Rows(ws, hostMemberId)[m]]
  <2>1. hostMemberId' = hostMemberId /\ hostMemberId # c
    BY <1>4, <1>17, ConstantsOK DEF LanInv, HostRow
  <2>2. c # None
    BY ConstantsOK
  <2>3. Rows(ws, hostMemberId)[c] = 0
    BY <1>2, <1>3, <2>1 DEF Rows
  <2>4. QED
    BY <1>2, <1>16, <2>1, <2>2, <2>3 DEF Rows
<1>18. ASSUME NEW d \in Conn \ {c}
       PROVE  Knows(d)'
  <2>1. Attached(d)' => Attached(d)
    BY <1>4, <1>16, ConstantsOK DEF Attached, Members
  <2> SUFFICES ASSUME Attached(d)'
               PROVE  /\ Loopback = {} => CaughtUp("roster", roster'[owner'[d]], toClient'[d])
                                            = Rows(ws', hostMemberId')
                      /\ Listens(d)' => presence' \ {closureId'[d]} \subseteq Shown(d)'
    BY DEF Knows
  <2>2. /\ Attached(d) /\ Knows(d) /\ sock[d] = "open" /\ peer[d] = "up" /\ d \in S /\ d \in U
        /\ closureId'[d] = closureId[d]
    BY <1>1, <1>4, <1>12, <2>1, AttachedFacts DEF LanInv, IInv, TypeOK
  <2>3. PICK q \in Seq(Frames) : q = toClient[d]
    BY <1>8
  <2>4. PICK r \in Seq(Frames) : r = IF owner[c] \in Loopback THEN Append(q, f) ELSE q
    <3>1. Append(q, f) \in Seq(Frames)
      OBVIOUS
    <3>2. QED
      BY <3>1
  <2>5. toClient'[d] = Append(r, g)
    <3>1. welcomed[d] = r
      <4>1. q \o hostIs = Append(q, f)
        BY <1>5
      <4>2. QED
        BY <1>6, <1>9, <1>10, <2>2, <2>3, <2>4, <4>1
    <3>2. r \o joined = Append(r, g)
      BY <1>5
    <3>3. QED
      BY <1>11, <2>2, <3>1, <3>2
  <2>6. \A what, rows : CaughtUp(what, rows, Append(r, g)) = Taken(what, CaughtUp(what, rows, r), g)
    BY OneMore
  <2>7. owner[c] \in Loopback => \A what, rows :
           CaughtUp(what, rows, r) = Taken(what, CaughtUp(what, rows, q), f)
    <3>1. \A what, rows :
            CaughtUp(what, rows, Append(q, f)) = Taken(what, CaughtUp(what, rows, q), f)
      BY OneMore
    <3>2. QED
      BY <2>4, <3>1
  <2>8. owner[c] \notin Loopback => r = q
    BY <2>4
  <2>9. ASSUME Loopback = {}
        PROVE  CaughtUp("roster", roster'[owner'[d]], toClient'[d]) = Rows(ws', hostMemberId')
    <3>1. CaughtUp("roster", roster[owner[d]], q) = Rows(ws, hostMemberId)
      BY <2>2, <2>3, <2>9 DEF Knows
    <3>2. CaughtUp("roster", roster[owner[d]], Append(r, g)) =
            Taken("roster", Rows(ws, hostMemberId), g)
      BY <2>6, <2>8, <2>9, <3>1
    <3>3. Taken("roster", Rows(ws, hostMemberId), g) = Rows(ws', hostMemberId')
      BY <1>5, <1>17, <2>9, TakenFacts
    <3>4. QED
      BY <1>4, <2>5, <3>2, <3>3 DEF AtHost
  <2>10. ASSUME Listens(d)'
         PROVE  presence' \ {closureId'[d]} \subseteq Shown(d)'
    <3>1. Listens(d)
      BY <1>4, <2>10 DEF Listens, AtHost
    <3>2. presence \ {closureId[d]} \subseteq CaughtUp("panel", panel[owner[d]], q)
      BY <2>2, <2>3, <3>1 DEF Knows, Shown
    <3>3. CaughtUp("panel", panel[owner[d]], Append(r, g)) = CaughtUp("panel", panel[owner[d]], r)
      <4>1. PICK seen : seen = CaughtUp("panel", panel[owner[d]], r)
        OBVIOUS
      <4>2. Taken("panel", seen, g) = seen
        BY <1>5, TakenFacts
      <4>3. QED
        BY <2>6, <4>1, <4>2
    <3>4. owner[c] \in Loopback =>
            CaughtUp("panel", panel[owner[d]], r) = CaughtUp("panel", panel[owner[d]], q) \cup {c}
      BY <1>5, <2>7, TakenFacts
    <3>5. Shown(d)' = CaughtUp("panel", panel[owner[d]], Append(r, g))
      BY <1>4, <2>5 DEF Shown, AtHost
    <3>6. presence' \ {closureId[d]} \subseteq CaughtUp("panel", panel[owner[d]], r)
      BY <1>4, <2>8, <3>2, <3>4
    <3>7. QED
      BY <2>2, <3>3, <3>5, <3>6
  <2>11. QED
    BY <2>9, <2>10
<1>19. QED
  BY <1>2, <1>4, <1>5, <1>11, <1>13, <1>14, <1>15, <1>18, WelcomeKept

-----------------------------------------------------------------------------
(* Steps of the clients *)

\* A client dials only when every older connection of it is down.
LEMMA DialKept ==
  ASSUME LanInv, IInv', NEW c \in Conn, NEW k \in Client, Dial(c, k)
  PROVE  LanInv'
<1>1. /\ sock[c] = "unused" /\ \A d \in Conn : owner[d] = k => peer[d] = "down"
      /\ owner' = [owner EXCEPT ![c] = k] /\ peer' = [peer EXCEPT ![c] = "up"]
      /\ sock' = [sock EXCEPT ![c] = "open"]
      /\ status' = [status EXCEPT ![k] = IF @ = "new" THEN "dialing" ELSE "redialing"]
      /\ UNCHANGED <<closureId, ws, hostMemberId, presence, toClient, roster, wiredOn, panel>>
  BY DEF Dial, Open
<1>2. /\ \A d \in Conn : /\ owner'[d] = IF d = c THEN k ELSE owner[d]
                         /\ peer'[d] = IF d = c THEN "up" ELSE peer[d]
                         /\ sock'[d] = IF d = c THEN "open" ELSE sock[d]
      /\ \A j \in Client : j # k => status'[j] = status[j]
      /\ status'[k] \in Greeting /\ status' \in [Client -> Status]
  BY <1>1 DEF LanInv, LanTypes, IInv, TypeOK, Greeting, Status
<1>3. closureId[c] = None /\ toClient[c] = <<>>
  BY <1>1 DEF LanInv, IInv, UnusedIsBlank
<1>4. LanTypes'
  BY <1>1, <1>2 DEF LanInv, LanTypes
<1>5. OneLive'
  <2>1. ASSUME NEW d \in Conn, peer'[d] = "up", d # c
        PROVE  peer[d] = "up" /\ owner'[d] = owner[d] /\ owner[d] \in Client /\ owner[d] # k
    BY <1>1, <1>2, <2>1 DEF LanInv, OneLive
  <2>2. QED
    BY <1>2, <2>1 DEF LanInv, OneLive
<1>6. ASSUME NEW d \in Conn
      PROVE  Waits(d)'
  <2>1. CASE d = c
    BY <1>1, <1>3, <2>1 DEF Waits
  <2>2. CASE d # c
    <3>1. SUFFICES ASSUME peer'[d] = "up"
                   PROVE  Waits(d)'
      BY DEF Waits
    <3>2. owner'[d] = owner[d] /\ status'[owner[d]] = status[owner[d]] /\ peer[d] = "up"
      BY <1>1, <1>2, <2>2, <3>1 DEF LanInv, OneLive
    <3>3. QED
      BY <1>1, <1>2, <2>2, <3>2 DEF LanInv, Waits
  <2>3. QED
    BY <2>1, <2>2
<1>7. HostRow'
  BY <1>1 DEF LanInv, HostRow
<1>8. ASSUME NEW d \in Conn
      PROVE  Knows(d)'
  <2>1. CASE d = c
    <3>1. ~\E m \in Members : ws[m] = c
      BY <1>3, MemberFacts, ConstantsOK DEF LanInv, MemberId
    <3>2. QED
      BY <1>1, <2>1, <3>1 DEF Knows, Attached, Members
  <2>2. CASE d # c
    <3>1. Attached(d)' => Attached(d)
      BY <1>1, <1>2, <2>2 DEF Attached, Members
    <3>2. Knows(d)
      BY DEF LanInv
    <3>3. owner'[d] = owner[d]
      BY <1>2, <2>2
    <3>4. QED
      BY <1>1, <3>1, <3>2, <3>3 DEF Knows, Listens, Shown
  <2>3. QED
    BY <2>1, <2>2
<1>9. \A d \in Conn : sock'[d] = "unused" => toClient'[d] = <<>>
  BY <1>1, <1>2 DEF LanInv
<1>10. QED
  BY <1>4, <1>5, <1>6, <1>7, <1>8, <1>9 DEF LanInv

\* Nothing that flows is touched by a client that has no connection.
LEMMA DisconnectKept ==
  ASSUME LanInv, IInv', NEW k \in Client, Disconnect(k)
  PROVE  LanInv'
<1>1. /\ status[k] \in {"reconnecting", "stuck"} /\ UNCHANGED <<toClient, roster, wiredOn>>
      /\ status' = [status EXCEPT ![k] = "disconnected"] /\ panel' = [panel EXCEPT ![k] = {}]
      /\ UNCHANGED <<owner, peer, sock, closureId, ws, hostMemberId, presence>>
  BY DEF Disconnect, vars, hostVars
<1>2. /\ \A j \in Client : j # k => status'[j] = status[j] /\ panel'[j] = panel[j]
      /\ status' \in [Client -> Status] /\ panel' = [j \in Client |-> panel'[j]]
  BY <1>1 DEF LanInv, LanTypes, Status
<1>3. ASSUME NEW c \in Conn, peer[c] = "up"
      PROVE  owner[c] # k /\ owner[c] \in Client
  BY <1>1, <1>3 DEF LanInv, OneLive, Greeting
<1>4. LanTypes' /\ OneLive' /\ HostRow'
  BY <1>1, <1>2, <1>3 DEF LanInv, LanTypes, OneLive, HostRow
<1>5. \A c \in Conn : Waits(c)'
  BY <1>1, <1>2, <1>3 DEF LanInv, Waits
<1>6. ASSUME NEW c \in Conn
      PROVE  Knows(c)'
  <2>1. Attached(c)' => Attached(c) /\ owner[c] # k /\ owner[c] \in Client
    BY <1>1, <1>3 DEF Attached, Members
  <2>2. Knows(c)
    BY DEF LanInv
  <2>3. QED
    BY <1>1, <1>2, <2>1, <2>2 DEF Knows, Listens, Shown
<1>7. QED
  BY <1>1, <1>4, <1>5, <1>6 DEF LanInv

\* The end of a connection ends the only live one of its client.
LEMMA EndKept ==
  ASSUME LanInv, IInv', NEW c \in Conn, peer[c] = "up", PeerDown(c),
         toClient' = [toClient EXCEPT ![c] = <<>>], status' \in [Client -> Status],
         \A j \in Client : j # owner[c] => /\ status'[j] = status[j]
                                           /\ roster'[j] = roster[j] /\ panel'[j] = panel[j],
         roster' = [k \in Client |-> roster'[k]], panel' = [k \in Client |-> panel'[k]],
         UNCHANGED wiredOn
  PROVE  LanInv'
<1>1. /\ peer' = [peer EXCEPT ![c] = "down"]
      /\ UNCHANGED <<owner, sock, closureId, ws, hostMemberId, presence>>
  BY DEF PeerDown, hostVars
<1>2. \A d \in Conn : peer'[d] = IF d = c THEN "down" ELSE peer[d]
  BY <1>1 DEF LanInv, IInv, TypeOK
<1>3. \A d \in Conn : toClient'[d] = IF d = c THEN <<>> ELSE toClient[d]
  BY DEF LanInv, LanTypes
<1>4. ASSUME NEW d \in Conn, peer'[d] = "up"
      PROVE  d # c /\ peer[d] = "up" /\ owner[d] # owner[c] /\ owner[d] \in Client
  BY <1>2, <1>4 DEF LanInv, OneLive
<1>5. LanTypes'
  <2>1. <<>> \in Seq(Frames)
    OBVIOUS
  <2>2. QED
    BY <2>1 DEF LanInv, LanTypes
<1>6. OneLive' /\ HostRow'
  BY <1>1, <1>2, <1>4 DEF LanInv, OneLive, HostRow
<1>7. \A d \in Conn : Waits(d)'
  BY <1>1, <1>3, <1>4 DEF LanInv, Waits
<1>8. \A d \in Conn : sock'[d] = "unused" => toClient'[d] = <<>>
  BY <1>1, <1>3 DEF LanInv
<1>9. ASSUME NEW d \in Conn
      PROVE  Knows(d)'
  <2>1. Attached(d)' => /\ Attached(d) /\ d # c /\ owner[d] # owner[c] /\ owner[d] \in Client
    BY <1>1, <1>4 DEF Attached, Members
  <2>2. Knows(d)
    BY DEF LanInv
  <2>3. QED
    BY <1>1, <1>3, <2>1, <2>2 DEF Knows, Listens, Shown
<1>10. QED
  BY <1>5, <1>6, <1>7, <1>8, <1>9 DEF LanInv

LEMMA ClientClosedKept ==
  ASSUME LanInv, IInv', NEW c \in Conn, ClientClosed(c)
  PROVE  LanInv'
<1>1. PeerDown(c) /\ peer[c] = "up" /\ owner[c] \in Client
  BY DEF ClientClosed, PeerDown, LanInv, OneLive
<1>2. status' = [status EXCEPT ![owner[c]] = AfterClose(@)]
      /\ toClient' = [toClient EXCEPT ![c] = <<>>] /\ UNCHANGED <<roster, wiredOn, panel>>
  BY DEF ClientClosed
<1>3. \A s : AfterClose(s) \in Status
  BY DEF AfterClose, Status
<1>4. status' \in [Client -> Status]
      /\ \A j \in Client : j # owner[c] => status'[j] = status[j]
  BY <1>1, <1>2, <1>3 DEF LanInv, LanTypes
<1>5. roster' = [k \in Client |-> roster'[k]] /\ panel' = [k \in Client |-> panel'[k]]
  BY <1>2 DEF LanInv, LanTypes
<1>6. QED
  BY <1>1, <1>2, <1>4, <1>5, EndKept

\* The connection on which a client begins to listen says nothing of the ones before.
LEMMA WireKept ==
  ASSUME LanInv, IInv', NEW c \in Conn, Wire(c)
  PROVE  LanInv'
<1>1. /\ peer[c] = "up" /\ owner[c] \in Client
      /\ wiredOn' = [wiredOn EXCEPT ![owner[c]] = c]
      /\ UNCHANGED <<owner, peer, sock, closureId, ws, hostMemberId, presence, toClient,
                     status, roster, panel>>
  BY DEF Wire, LanInv, OneLive
<1>2. /\ LanTypes' /\ OneLive' /\ HostRow'
      /\ \A d \in Conn : sock'[d] = "unused" => toClient'[d] = <<>>
  BY <1>1 DEF LanInv, LanTypes, OneLive, HostRow
<1>3. \A d \in Conn : Waits(d)'
  BY <1>1 DEF LanInv, Waits
<1>4. ASSUME NEW d \in Conn
      PROVE  Knows(d)'
  <2>1. Attached(d)' => Attached(d)
    BY <1>1 DEF Attached, Members
  <2>2. Attached(d) /\ Listens(d)' => Listens(d)
    <3>1. ASSUME Attached(d), owner[d] = owner[c]
          PROVE  d = c
      BY <1>1, <3>1 DEF LanInv, OneLive, Attached
    <3>2. wiredOn'[owner[c]] = c
      BY <1>1 DEF LanInv, LanTypes
    <3>3. Attached(d) /\ owner[d] # owner[c] => wiredOn'[owner[d]] = wiredOn[owner[d]]
      BY <1>1 DEF LanInv, OneLive, Attached, LanTypes
    <3>4. QED
      BY <1>1, <3>1, <3>2, <3>3 DEF Listens
  <2>3. Knows(d)
    BY DEF LanInv
  <2>4. QED
    BY <1>1, <2>1, <2>2, <2>3 DEF Knows, Shown
<1>5. QED
  BY <1>2, <1>3, <1>4 DEF LanInv

\* Reading a frame brings a client no further than it would have come.
LEMMA ClientReadKept ==
  ASSUME LanInv, IInv', NEW c \in Conn, ClientRead(c)
  PROVE  LanInv'
<1>1. PICK k \in Client, q \in Seq(Frames), f \in Frames :
        k = owner[c] /\ q = toClient[c] /\ q # <<>> /\ f = Head(q)
  BY DEF ClientRead, LanInv, LanTypes, OneLive
<1>2. /\ peer[c] = "up"
      /\ roster' = [roster EXCEPT ![k] = Updated(roster[k], f)]
      /\ panel' = [panel EXCEPT ![k] = IF f.type = "member-kicked" THEN {}
                                       ELSE IF wiredOn[k] # None THEN Redrawn(panel[k], f)
                                       ELSE panel[k]]
      /\ status' = [status EXCEPT ![k] = IF f.type = "member-kicked" THEN "disconnected"
                                         ELSE IF f.type = "auth-response" THEN "connected"
                                         ELSE status[k]]
      /\ UNCHANGED wiredOn
  BY <1>1 DEF ClientRead, LanInv, LanTypes
<1>3. /\ \A j \in Client : j # k => /\ status'[j] = status[j] /\ roster'[j] = roster[j]
                                    /\ panel'[j] = panel[j]
      /\ status' \in [Client -> Status]
      /\ roster' = [j \in Client |-> roster'[j]] /\ panel' = [j \in Client |-> panel'[j]]
  BY <1>2 DEF LanInv, LanTypes, Status
<1>4. CASE f.type = "member-kicked"
  <2>1. toClient' = [toClient EXCEPT ![c] = <<>>] /\ PeerDown(c)
    BY <1>1, <1>4 DEF ClientRead
  <2>2. QED
    BY <1>1, <1>2, <1>3, <2>1, EndKept
<1>5. CASE f.type # "member-kicked"
  <2>1. /\ toClient' = [toClient EXCEPT ![c] = Tail(q)]
        /\ UNCHANGED <<owner, peer, sock, closureId, ws, hostMemberId, presence>>
    BY <1>1, <1>5 DEF ClientRead, vars, hostVars
  <2>2. /\ Tail(q) \in Seq(Frames)
        /\ \A d \in Conn : toClient'[d] = IF d = c THEN Tail(q) ELSE toClient[d]
    BY <1>1, <2>1 DEF LanInv, LanTypes
  <2>3. LanTypes' /\ HostRow'
    BY <1>2, <1>3, <2>1, <2>2 DEF LanInv, LanTypes, HostRow
  <2>4. status'[k] \in Greeting \cup {"connected"}
    BY <1>1, <1>2, <1>5 DEF LanInv, LanTypes, OneLive
  <2>5. OneLive'
    BY <1>1, <1>3, <2>1, <2>4 DEF LanInv, OneLive
  <2>6. \A d \in Conn : peer[d] = "up" /\ d # c => owner[d] # k /\ owner[d] \in Client
    BY <1>1, <1>2 DEF LanInv, OneLive
  <2>7. ASSUME NEW d \in Conn
        PROVE  Waits(d)'
    <3>1. CASE d # c
      BY <1>3, <2>1, <2>2, <2>6, <3>1 DEF LanInv, Waits
    <3>2. CASE d = c
      <4>1. status[k] \in Greeting => f.type = "auth-response"
        BY <1>1, <1>2 DEF LanInv, Waits
      <4>2. status'[k] \notin Greeting
        <5>1. status[k] \in Greeting \cup {"connected"}
          BY <1>1, <1>2 DEF LanInv, OneLive
        <5>2. QED
          BY <1>2, <1>5, <4>1, <5>1 DEF LanInv, LanTypes, Greeting
      <4>3. QED
        BY <1>1, <2>1, <3>2, <4>2 DEF Waits
    <3>3. QED
      BY <3>1, <3>2
  <2>8. ASSUME NEW d \in Conn
        PROVE  Knows(d)'
    <3>1. Attached(d)' => Attached(d)
      BY <2>1 DEF Attached, Members
    <3>2. Knows(d)
      BY DEF LanInv
    <3>3. CASE d # c
      <4>1. Attached(d) => owner[d] # k /\ owner[d] \in Client
        BY <2>6, <3>3 DEF Attached
      <4>2. QED
        BY <1>2, <1>3, <2>1, <2>2, <3>1, <3>2, <3>3, <4>1 DEF Knows, Listens, Shown
    <3>4. CASE d = c
      <4>1. \A what, rows : CaughtUp(what, rows, q) = CaughtUp(what, Taken(what, rows, f), Tail(q))
        BY <1>1, OneLess
      <4>2. roster'[k] = Taken("roster", roster[k], f)
        BY <1>2 DEF Taken, LanInv, LanTypes
      <4>3. Listens(c) => panel'[k] = Taken("panel", panel[k], f)
        BY <1>1, <1>2, <1>5 DEF Taken, Listens, LanInv, LanTypes
      <4>4. CaughtUp("roster", roster'[k], toClient'[c]) =
              CaughtUp("roster", roster[k], toClient[c])
        BY <1>1, <2>2, <4>1, <4>2
      <4>5. Listens(c) => Shown(c)' = Shown(c)
        BY <1>1, <2>1, <2>2, <4>1, <4>3 DEF Shown
      <4>6. Listens(c)' => Listens(c)
        BY <1>2, <2>1 DEF Listens
      <4>7. QED
        BY <1>1, <2>1, <3>1, <3>2, <3>4, <4>4, <4>5, <4>6 DEF Knows
    <3>5. QED
      BY <3>3, <3>4
  <2>9. \A d \in Conn : sock'[d] = "unused" => toClient'[d] = <<>>
    <3>1. sock[c] = "unused" => toClient[c] = <<>>
      BY DEF LanInv
    <3>2. QED
      BY <1>1, <2>1, <2>2, <3>1 DEF LanInv
  <2>10. QED
    BY <2>3, <2>5, <2>7, <2>8, <2>9 DEF LanInv
<1>6. QED
  BY <1>4, <1>5

-----------------------------------------------------------------------------
(* The theorems about the session *)

LEMMA LanInitHolds == LanInit => LanInv
<1> SUFFICES ASSUME LanInit PROVE LanInv
  OBVIOUS
<1>1. Init
  BY DEF LanInit
<1>2. IInv
  BY <1>1, InitHolds
<1>3. LanTypes
  <2>1. <<>> \in Seq(Frames)
    OBVIOUS
  <2>2. QED
    BY <2>1 DEF LanInit, LanTypes, Status
<1>4. OneLive /\ HostRow
  BY <1>1 DEF Init, OneLive, HostRow
<1>5. \A c \in Conn : Waits(c) /\ Knows(c)
  BY <1>1 DEF Init, Waits, Knows, Attached
<1>6. \A c \in Conn : toClient[c] = <<>>
  BY DEF LanInit
<1>7. QED
  BY <1>2, <1>3, <1>4, <1>5, <1>6 DEF LanInv

LEMMA LanStep == LanInv /\ [LanNext]_lanVars => LanInv'
<1> SUFFICES ASSUME LanInv, [LanNext]_lanVars PROVE LanInv'
  OBVIOUS
<1>1. IInv'
  BY HostKept DEF LanInv
<1>2. CASE UNCHANGED lanVars
  <2>1. Quiet /\ UNCHANGED <<owner, peer, closureId, ws, hostMemberId, presence, sock>>
    BY <1>2 DEF lanVars, vars, hostVars, Quiet, AtHost
  <2>2. QED
    BY <1>1, <2>1, QuietKept
<1>3. CASE LanNext
  <2>1. ASSUME NEW c \in Conn, NEW k \in Client, Dial(c, k)
        PROVE  LanInv'
    BY <1>1, <2>1, DialKept
  <2>2. ASSUME NEW c \in Conn, ClientClosed(c) PROVE LanInv'
    BY <1>1, <2>2, ClientClosedKept
  <2>3. ASSUME NEW c \in Conn, Wire(c) PROVE LanInv'
    BY <1>1, <2>3, WireKept
  <2>4. ASSUME NEW c \in Conn, ClientRead(c) PROVE LanInv'
    BY <1>1, <2>4, ClientReadKept
  <2>5. ASSUME NEW c \in Conn,
               \/ Refuse(c) \/ NoteTracked(c) \/ NotePong(c) \/ TimeOut(c)
               \/ ReportTracked(c) \/ ReportEditor(c)
        PROVE  LanInv'
    BY <1>1, <2>5, QuietStepsKept
  <2>6. ASSUME NEW c \in Conn, TakeBack(c) PROVE LanInv'
    BY <1>1, <2>6, TakeBackKept
  <2>7. ASSUME NEW c \in Conn, LetIn(c) PROVE LanInv'
    BY <1>1, <2>7, LetInKept
  <2>8. ASSUME NEW c \in Conn, RelayPresence(c) PROVE LanInv'
    BY <1>1, <2>8, RelayKept
  <2>9. ASSUME NEW c \in Conn, LoseSocket(c) PROVE LanInv'
    BY <1>1, <2>9, LoseSocketKept
  <2>10. ASSUME NEW k \in Client, Disconnect(k) PROVE LanInv'
    BY <1>1, <2>10, DisconnectKept
  <2>11. ASSUME NEW m \in MemberId, Kick(m) PROVE LanInv'
    BY <1>1, <2>11, KickKept
  <2>12. Tick \/ ShowHost \/ StopSession => LanInv'
    BY <1>1, TickKept, ShowHostKept, StopKept
  <2>13. QED
    BY <1>3, <2>1, <2>2, <2>3, <2>4, <2>5, <2>6, <2>7, <2>8, <2>9, <2>10, <2>11, <2>12
       DEF LanNext
<1>4. QED
  BY <1>2, <1>3

\* The host and the clients it talks to keep LanInv, whatever the connections, the
\* clients and the listeners are.
THEOREM LanInvariance == LanSpec => []LanInv
<1>1. QED
  BY LanInitHolds, LanStep, PTL DEF LanSpec

\* The first frame a client reads while it waits for the verdict is the verdict: nothing
\* the host sends to members reaches a socket before its auth-response.
THEOREM WelcomeComesFirst == LanSpec => []NothingBeforeWelcome
<1>1. LanInv => NothingBeforeWelcome
  BY DEF LanInv, Waits, NothingBeforeWelcome, Greeting
<1>2. QED
  BY <1>1, LanInvariance, PTL

\* In a session without a loopback client, a client that has read all it was sent has the
\* host's list (SessionClient.members).  A loopback client moves the host's row to the id
\* it was given, which only those that come later are told.
THEOREM RostersConverge ==
  ASSUME Loopback = {}
  PROVE  LanSpec => []RosterConverges
<1>1. LanInv => RosterConverges
  BY DEF LanInv, Knows, RosterConverges
<1>2. QED
  BY <1>1, LanInvariance, PTL

\* A listening client that comes back has every row of the presence map in its panel once
\* it has read all it was sent (sendPresenceSnapshotToMember).
THEOREM PanelRestored == LanSpec => []SnapshotRestoresPanel
<1>1. LanInv => SnapshotRestoresPanel
  BY DEF LanInv, Knows, Listens, SnapshotRestoresPanel
<1>2. QED
  BY <1>1, LanInvariance, PTL

\* What holds of a host whose clients may do anything holds of it in a session: the index,
\* the bindings, one seat per client.
THEOREM HostSafeInSession ==
  LanSpec => [](ClientIdMapsAgree /\ BoundToOwnSocket /\ OneSeatPerClient)
<1>1. LanInv => ClientIdMapsAgree /\ BoundToOwnSocket /\ OneSeatPerClient
  BY SeatsDiffer DEF LanInv, IInv
<1>2. QED
  BY <1>1, LanInvariance, PTL

\* The first report of an extension is the one step of a session that is no step of
\* SessionHost; it changes a queue to the host and nothing else.
LEMMA SessionStep ==
  ASSUME [LanNext]_lanVars
  PROVE  [Next]_vars \/ UNCHANGED <<owner, closureId, ws, clientIdToMemberId>>
<1>1. ASSUME NEW c \in Conn, Wire(c)
      PROVE  UNCHANGED <<owner, closureId, ws, clientIdToMemberId>>
  BY <1>1 DEF Wire, mapVars
<1>2. QED
  BY <1>1, StepOfHost

\* In a session too, only the socket a member is bound to takes it away.
THEOREM LiveKeptInSession == LanSpec => LiveMemberKept
<1>1. LanInv /\ [LanNext]_lanVars =>
        [\A m \in MemberId :
            ws[m] # None /\ ws'[m] = None =>
               stopped' \/ sock'[ws[m]] \in {"terminated", "closed"}]_vars
  BY SessionStep, KeptByStep DEF LanInv
<1>2. QED
  BY <1>1, LanInvariance, PTL DEF LanSpec, LiveMemberKept

\* And a session implements Membership.
THEOREM SessionRefinement == LanSpec => ImplementsMembership
<1>1. LanInit => Seats!Init
  BY SeatsInit DEF LanInit
<1>2. LanInv /\ [LanNext]_lanVars => [Seats!Next]_<<Seat, Issued>>
  BY SessionStep, SeatsStep, SeatsUntouched DEF LanInv
<1>3. QED
  BY <1>1, <1>2, LanInvariance, PTL DEF LanSpec, ImplementsMembership, Seats!Spec

-----------------------------------------------------------------------------
(***************************************************************************)
(* The rate limit of authentication attempts that the host asks first, for   *)
(* every set of addresses and every sequence of attempts.                    *)
(***************************************************************************)

\* The times in s never decrease and lie in the past
Ordered(s, t) ==
    /\ \A i \in 1..Len(s) : s[i] <= t
    /\ \A i, j \in 1..Len(s) : i <= j => s[i] <= s[j]

\* The last k of s follow each other within a window each, after a longer pause
Runs(s, k) ==
    /\ k \in 1..Len(s)
    /\ \A i \in Len(s) - k + 1..Len(s) - 1 : s[i + 1] - s[i] <= WindowMs
    /\ k < Len(s) => s[Len(s) - k + 1] - s[Len(s) - k] > WindowMs

\* e counts the attempts since the last such pause
CountsRun(s, e) == e.lastAttempt = s[Len(s)] /\ Runs(s, e.attempts)

Limited(s) ==
    \A i \in 1..Len(s) - MaxAttempts : s[i + MaxAttempts] - s[i] > WindowMs

\* What is kept of an address, and what need not be kept
Kept(a) ==
    /\ Ordered(granted[a], now)
    /\ Limited(granted[a])
    /\ a \in DOMAIN rateLimitMap => CountsRun(granted[a], rateLimitMap[a])
    /\ a \notin DOMAIN rateLimitMap /\ granted[a] # <<>>
         => now - granted[a][Len(granted[a])] > WindowMs

WindowInv == AuthTypeOK /\ \A a \in Address : Kept(a)

-----------------------------------------------------------------------------
\* What lies around a pause is at least as far apart.
LEMMA Around ==
    ASSUME NEW w \in Int, NEW x \in Int, NEW b \in Int, NEW c \in Int, NEW t \in Int,
           c - b > w, x <= b, c <= t
    PROVE  t - x > w
OBVIOUS

\* An attempt within the window lengthens the run, if the run is not full.
LEMMA LongerRun ==
    ASSUME NEW s \in Seq(Nat), NEW t \in Nat, NEW k \in Nat,
           Ordered(s, t), Limited(s), Runs(s, k),
           t - s[Len(s)] <= WindowMs, k < MaxAttempts
    PROVE  Ordered(Append(s, t), t) /\ Limited(Append(s, t)) /\ Runs(Append(s, t), k + 1)
<1> DEFINE n == Len(s)
           u == Append(s, t)
<1>1. /\ n \in Nat /\ Len(s) = n /\ Len(u) = n + 1 /\ u[n + 1] = t
      /\ \A i \in 1..n : u[i] = s[i] /\ s[i] \in Nat
  OBVIOUS
<1> HIDE DEF n, u
<1>2. k \in 1..n /\ t - u[n] <= WindowMs
  BY <1>1 DEF Runs
<1>3. Ordered(u, t)
  BY <1>1 DEF Ordered
<1>4. Runs(u, k + 1)
  <2>1. ASSUME NEW i \in n - k + 1..n PROVE u[i + 1] - u[i] <= WindowMs
    <3>1. CASE i = n
      BY <1>1, <1>2, <3>1
    <3>2. CASE i # n
      <4>1. i \in n - k + 1..n - 1 /\ i \in 1..n /\ i + 1 \in 1..n
        BY <1>1, <1>2, <3>2
      <4>2. s[i + 1] - s[i] <= WindowMs
        BY <1>1, <4>1 DEF Runs
      <4>3. QED
        BY <1>1, <4>1, <4>2
    <3>3. QED
      BY <3>1, <3>2
  <2>2. ASSUME k < n PROVE u[n - k + 1] - u[n - k] > WindowMs
    <3>1. n - k \in 1..n /\ n - k + 1 \in 1..n
      BY <1>1, <1>2, <2>2
    <3>2. s[n - k + 1] - s[n - k] > WindowMs
      BY <1>1, <2>2 DEF Runs
    <3>3. QED
      BY <1>1, <3>1, <3>2
  <2>3. QED
    BY <1>1, <1>2, <2>1, <2>2 DEF Runs
<1>5. ASSUME NEW i \in 1..(n + 1) - MaxAttempts
      PROVE  u[i + MaxAttempts] - u[i] > WindowMs
  <2>1. CASE i + MaxAttempts <= n
    BY <1>1, <2>1 DEF Limited, MaxAttempts
  <2>2. CASE i + MaxAttempts = n + 1
    <3> DEFINE g == n - k
    <3>1. i \in 1..n /\ g \in 1..n /\ g + 1 \in 1..n /\ i <= g /\ k < n
      BY <1>1, <1>2, <2>2 DEF MaxAttempts
    <3>2. s[g + 1] - s[g] > WindowMs
      BY <1>1, <3>1 DEF Runs
    <3>3. s[i] <= s[g] /\ s[g + 1] <= t
      BY <1>1, <3>1 DEF Ordered
    <3>4. /\ u[i] = s[i] /\ u[i + MaxAttempts] = t
          /\ s[i] \in Int /\ s[g] \in Int /\ s[g + 1] \in Int
      BY <1>1, <2>2, <3>1
    <3>5. WindowMs \in Int /\ t \in Int
      BY DEF WindowMs
    <3> HIDE DEF g
    <3>6. t - s[i] > WindowMs
      BY <3>2, <3>3, <3>4, <3>5, Around
    <3>7. QED
      BY <3>4, <3>6
  <2>3. QED
    BY <1>1, <2>1, <2>2 DEF MaxAttempts
<1>6. Limited(u)
  <2>1. Len(u) - MaxAttempts = (n + 1) - MaxAttempts
    BY <1>1
  <2>2. SUFFICES ASSUME NEW i \in 1..Len(u) - MaxAttempts
                 PROVE  u[i + MaxAttempts] - u[i] > WindowMs
    BY DEF Limited
  <2>3. i \in 1..(n + 1) - MaxAttempts
    BY <2>1, Zenon
  <2>4. QED
    BY <2>3, <1>5
<1>7. QED
  BY <1>3, <1>4, <1>6 DEF u

\* An attempt after a longer pause begins a run.
LEMMA FreshRun ==
    ASSUME NEW s \in Seq(Nat), NEW t \in Nat, Ordered(s, t), Limited(s),
           s # <<>> => t - s[Len(s)] > WindowMs
    PROVE  Ordered(Append(s, t), t) /\ Limited(Append(s, t)) /\ Runs(Append(s, t), 1)
<1> DEFINE n == Len(s)
           u == Append(s, t)
<1>1. /\ n \in Nat /\ Len(s) = n /\ Len(u) = n + 1 /\ u[n + 1] = t
      /\ \A i \in 1..n : u[i] = s[i] /\ s[i] \in Nat
  OBVIOUS
<1>2. n > 0 => t - s[n] > WindowMs
  BY <1>1
<1> HIDE DEF n, u
<1>3. Ordered(u, t)
  BY <1>1 DEF Ordered
<1>4. Runs(u, 1)
  BY <1>1, <1>2 DEF Runs
<1>5. ASSUME NEW i \in 1..(n + 1) - MaxAttempts
      PROVE  u[i + MaxAttempts] - u[i] > WindowMs
  <2>1. CASE i + MaxAttempts <= n
    BY <1>1, <2>1 DEF Limited, MaxAttempts
  <2>2. CASE i + MaxAttempts = n + 1
    <3>1. i \in 1..n /\ n \in 1..n /\ u[i + MaxAttempts] = t /\ u[i] = s[i]
      BY <1>1, <2>2 DEF MaxAttempts
    <3>2. s[i] <= s[n] /\ s[i] \in Nat /\ s[n] \in Nat
      BY <1>1, <3>1 DEF Ordered
    <3>3. WindowMs \in Int /\ t - s[n] > WindowMs /\ t <= t
      BY <1>2, <3>1 DEF WindowMs
    <3>4. t - s[i] > WindowMs
      BY <3>2, <3>3, Around
    <3>5. QED
      BY <3>1, <3>4
  <2>3. QED
    BY <1>1, <2>1, <2>2 DEF MaxAttempts
<1>6. Limited(u)
  <2>1. Len(u) - MaxAttempts = (n + 1) - MaxAttempts
    BY <1>1
  <2>2. SUFFICES ASSUME NEW i \in 1..Len(u) - MaxAttempts
                 PROVE  u[i + MaxAttempts] - u[i] > WindowMs
    BY DEF Limited
  <2>3. i \in 1..(n + 1) - MaxAttempts
    BY <2>1, Zenon
  <2>4. QED
    BY <2>3, <1>5
<1>7. QED
  BY <1>3, <1>4, <1>6 DEF u

\* An entry that is cleaned away, and one that never was, leave a pause behind the address.
LEMMA PauseBehind ==
    ASSUME WindowInv, NEW a \in Address, a \notin Live, granted[a] # <<>>
    PROVE  now - granted[a][Len(granted[a])] > WindowMs
<1>1. CASE a \in DOMAIN rateLimitMap
  BY <1>1 DEF WindowInv, Kept, CountsRun, Live, AuthTypeOK, RateLimitEntry, WindowMs
<1>2. CASE a \notin DOMAIN rateLimitMap
  BY <1>2 DEF WindowInv, Kept
<1>3. QED
  BY <1>1, <1>2

\* Every step keeps the addresses it is not about.
LEMMA OthersKept ==
    ASSUME WindowInv, NEW b \in Address, now' = now, granted'[b] = granted[b],
           b \in DOMAIN rateLimitMap' <=> b \in Live,
           b \in Live => rateLimitMap'[b] = rateLimitMap[b]
    PROVE  Kept(b)'
<1>1. Ordered(granted[b], now)' /\ Limited(granted[b])'
  BY DEF WindowInv, Kept
<1>2. CASE b \in Live
  BY <1>1, <1>2 DEF WindowInv, Kept, Live
<1>3. CASE b \notin Live
  BY <1>1, <1>3, PauseBehind DEF Kept
<1>4. QED
  BY <1>2, <1>3

LEMMA AllowKeeps ==
    ASSUME WindowInv, NEW a \in Address, Allow(a)
    PROVE  WindowInv'
<1> DEFINE f == [attempts |-> Attempts(a), lastAttempt |-> now]
<1>1. /\ now' = now /\ now \in Nat
      /\ granted \in [Address -> Seq(Nat)] /\ granted[a] \in Seq(Nat)
      /\ granted' = [granted EXCEPT ![a] = Append(@, now)]
      /\ DOMAIN rateLimitMap' = Live \cup {a}
      /\ rateLimitMap'[a] = f
      /\ \A b \in Live : b # a => rateLimitMap'[b] = rateLimitMap[b]
  BY DEF Allow, WindowInv, AuthTypeOK
<1>2. f \in RateLimitEntry
  <2>1. Attempts(a) \in 1..MaxAttempts
    <3>1. CASE a \in Live
      <4>1. rateLimitMap[a].attempts \in 1..MaxAttempts /\ rateLimitMap[a].attempts < MaxAttempts
        BY <3>1 DEF Allow, Allowed, Live, WindowInv, AuthTypeOK, RateLimitEntry
      <4>2. QED
        BY <3>1, <4>1 DEF Attempts, MaxAttempts
    <3>2. CASE a \notin Live
      BY <3>2 DEF Attempts, MaxAttempts
    <3>3. QED
      BY <3>1, <3>2
  <2>2. QED
    BY <1>1, <2>1 DEF RateLimitEntry
<1>3. AuthTypeOK'
  <2>1. granted' \in [Address -> Seq(Nat)]
    BY <1>1
  <2>2. \A b \in Live : b \in DOMAIN rateLimitMap /\ b \in Address
    BY DEF Live, WindowInv, AuthTypeOK
  <2>3. \A b \in DOMAIN rateLimitMap' : rateLimitMap'[b] \in RateLimitEntry
    BY <1>1, <1>2, <2>2 DEF WindowInv, AuthTypeOK
  <2>4. QED
    BY <1>1, <2>1, <2>2, <2>3 DEF AuthTypeOK
<1>4. Kept(a)'
  <2>1. Ordered(granted[a], now) /\ Limited(granted[a])
    BY DEF WindowInv, Kept
  <2>2. /\ Ordered(Append(granted[a], now), now)
        /\ Limited(Append(granted[a], now))
        /\ Runs(Append(granted[a], now), f.attempts)
    <3>1. CASE a \in Live
      <4>1. /\ rateLimitMap[a] \in RateLimitEntry /\ CountsRun(granted[a], rateLimitMap[a])
            /\ now - rateLimitMap[a].lastAttempt <= WindowMs
            /\ rateLimitMap[a].attempts < MaxAttempts
        BY <3>1 DEF WindowInv, AuthTypeOK, Kept, Live, Allow, Allowed
      <4>2. /\ f.attempts = rateLimitMap[a].attempts + 1
            /\ rateLimitMap[a].attempts \in Nat
            /\ now - granted[a][Len(granted[a])] <= WindowMs
            /\ Runs(granted[a], rateLimitMap[a].attempts)
        BY <3>1, <4>1 DEF Attempts, RateLimitEntry, CountsRun
      <4>3. QED
        BY <1>1, <2>1, <4>1, <4>2, LongerRun
    <3>2. CASE a \notin Live
      <4>1. f.attempts = 1
        BY <3>2 DEF Attempts
      <4>2. granted[a] # <<>> => now - granted[a][Len(granted[a])] > WindowMs
        BY <3>2, PauseBehind
      <4>3. QED
        BY <1>1, <2>1, <4>1, <4>2, FreshRun
    <3>3. QED
      BY <3>1, <3>2
  <2>3. granted'[a] = Append(granted[a], now) /\ a \in DOMAIN rateLimitMap'
    BY <1>1
  <2>4. QED
    BY <1>1, <2>2, <2>3 DEF Kept, CountsRun
<1>5. ASSUME NEW b \in Address, b # a PROVE Kept(b)'
  <2>1. granted'[b] = granted[b]
    BY <1>1, <1>5
  <2>2. b \in DOMAIN rateLimitMap' <=> b \in Live
    BY <1>1, <1>5
  <2>3. QED
    BY <1>1, <1>5, <2>1, <2>2, OthersKept
<1>6. QED
  BY <1>3, <1>4, <1>5 DEF WindowInv

LEMMA DenyKeeps ==
    ASSUME WindowInv, NEW a \in Address, Deny(a)
    PROVE  WindowInv'
<1>1. AuthTypeOK'
  BY DEF Deny, WindowInv, AuthTypeOK, Live
<1>2. ASSUME NEW b \in Address PROVE Kept(b)'
  BY <1>2, OthersKept DEF Deny
<1>3. QED
  BY <1>1, <1>2 DEF WindowInv

LEMMA PassKeeps ==
    ASSUME WindowInv, Pass
    PROVE  WindowInv'
<1>1. /\ now \in Nat /\ now' \in Nat /\ now' > now
      /\ granted' = granted /\ rateLimitMap' = rateLimitMap
      /\ granted \in [Address -> Seq(Nat)]
  BY DEF Pass, WindowInv, AuthTypeOK
<1>2. AuthTypeOK'
  BY <1>1 DEF WindowInv, AuthTypeOK
<1>3. ASSUME NEW a \in Address PROVE Kept(a)'
  <2>1. granted[a] \in Seq(Nat)
    BY <1>1
  <2>2. Ordered(granted[a], now')
    BY <1>1, <2>1 DEF WindowInv, Kept, Ordered
  <2>3. granted[a] # <<>> /\ now - granted[a][Len(granted[a])] > WindowMs
          => now' - granted[a][Len(granted[a])] > WindowMs
    BY <1>1, <2>1 DEF WindowMs
  <2>4. QED
    BY <1>1, <2>2, <2>3 DEF WindowInv, Kept
<1>4. QED
  BY <1>2, <1>3 DEF WindowInv

\* The inductive invariant: each entry counts the last run of its address, and an address
\* without an entry has been quiet for longer than a window.
THEOREM WindowInvariance == AuthSpec => []WindowInv
<1>1. AuthInit => WindowInv
  BY DEF AuthInit, WindowInv, AuthTypeOK, Kept, Ordered, Limited, MaxAttempts
<1>2. WindowInv /\ [AuthNext]_authVars => WindowInv'
  <2> SUFFICES ASSUME WindowInv, [AuthNext]_authVars PROVE WindowInv'
    OBVIOUS
  <2>1. CASE Pass
    BY <2>1, PassKeeps
  <2>2. ASSUME NEW a \in Address, Allow(a) \/ Deny(a) PROVE WindowInv'
    BY <2>2, AllowKeeps, DenyKeeps
  <2>3. CASE UNCHANGED authVars
    BY <2>3 DEF authVars, WindowInv, AuthTypeOK, Kept
  <2>4. QED
    BY <2>1, <2>2, <2>3 DEF AuthNext
<1>3. QED
  BY <1>1, <1>2, PTL DEF AuthSpec

-----------------------------------------------------------------------------
\* "5 per IP per 60 seconds" (AuthHandler.ts): six granted attempts of one address never
\* fit into one window.
THEOREM Limit == AuthSpec => []LimitHolds
<1>1. WindowInv => LimitHolds
  BY DEF WindowInv, Kept, Limited, LimitHolds
<1>2. QED
  BY <1>1, WindowInvariance, PTL

\* checkRateLimit() refuses an address exactly while its own last five granted attempts
\* follow each other within a window each, up to now.
THEOREM Refusal == AuthSpec => []RefusedExactly
<1>1. ASSUME WindowInv, NEW a \in Address PROVE ~Allowed(a) <=> Burst(granted[a], now)
  <2> DEFINE s == granted[a]
  <2>1. s \in Seq(Nat) /\ Len(s) \in Nat /\ now \in Nat /\ \A i \in 1..Len(s) : s[i] \in Nat
    BY <1>1 DEF WindowInv, AuthTypeOK
  <2>2. CASE a \in Live
    <3> DEFINE k == rateLimitMap[a].attempts
               n == Len(s)
    <3>1. /\ k \in 1..MaxAttempts /\ Runs(s, k)
          /\ Allowed(a) <=> k < MaxAttempts
          /\ now - s[n] <= WindowMs
      BY <1>1, <2>2
         DEF WindowInv, AuthTypeOK, RateLimitEntry, Kept, Live, CountsRun, Allowed
    <3>2. /\ n \in Nat /\ Len(s) = n /\ k \in 1..5
      BY <2>1, <3>1 DEF MaxAttempts
    <3> HIDE DEF s, k, n
    <3>3. CASE k = MaxAttempts
      <4>1. Burst(s, now)
        BY <3>1, <3>2, <3>3 DEF Burst, Runs, MaxAttempts
      <4>2. ~(k < MaxAttempts)
        BY <3>3 DEF MaxAttempts
      <4>3. QED
        BY <3>1, <4>1, <4>2 DEF s
    <3>4. CASE k < MaxAttempts
      <4>1. ASSUME Burst(s, now) PROVE FALSE
        <5>1. /\ k < n /\ n - k \in n - MaxAttempts + 1..n - 1
              /\ n - k \in 1..n /\ n - k + 1 \in 1..n
          BY <3>2, <3>4, <4>1 DEF Burst, MaxAttempts
        <5>2. s[n - k + 1] - s[n - k] > WindowMs
          BY <3>1, <3>2, <5>1 DEF Runs
        <5>3. s[n - k + 1] - s[n - k] <= WindowMs
          BY <3>2, <4>1, <5>1 DEF Burst
        <5>4. s[n - k + 1] \in Nat /\ s[n - k] \in Nat /\ WindowMs \in Nat
          BY <2>1, <3>2, <5>1 DEF WindowMs
        <5>5. QED
          BY <5>2, <5>3, <5>4
      <4>2. QED
        BY <3>1, <3>4, <4>1 DEF s
    <3>5. QED
      BY <3>1, <3>2, <3>3, <3>4 DEF MaxAttempts, s
  <2>3. CASE a \notin Live
    <3>1. Allowed(a)
      BY <2>3 DEF Allowed
    <3>2. ASSUME Burst(s, now) PROVE FALSE
      <4>1. s # <<>> /\ Len(s) \in 1..Len(s)
        BY <2>1, <3>2 DEF Burst, MaxAttempts
      <4>2. now - s[Len(s)] > WindowMs
        BY <1>1, <2>3, <4>1, PauseBehind
      <4>3. QED
        BY <2>1, <3>2, <4>1, <4>2 DEF Burst, WindowMs
    <3>3. QED
      BY <3>1, <3>2
  <2>4. QED
    BY <2>2, <2>3
<1>2. WindowInv => RefusedExactly
  BY <1>1 DEF RefusedExactly
<1>3. QED
  BY <1>2, WindowInvariance, PTL

=============================================================================
