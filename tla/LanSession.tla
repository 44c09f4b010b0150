------------------------------- MODULE LanSession -------------------------------
(***************************************************************************)
(* A LAN session: SessionHost composed with the SessionClients it talks to *)
(* (src/src/client/SessionClient.ts) and with the presence panel their     *)
(* extension keeps (wireClientEvents in src/src/extension.ts).             *)
(*                                                                         *)
(* Each step of the host is the action of SessionHost together with the    *)
(* frames that handler writes; each client reads its frames in order and   *)
(* keeps a roster of its own.                                              *)
(***************************************************************************)
EXTENDS SessionHost

CONSTANT Listeners  \* the clients that run the extension's UI

ASSUME ListenersOK == Listeners \subseteq Client

VARIABLES
    toClient,  \* toClient[c]: frames in flight to the client
    status,    \* status[k]: how far SessionClient k is
    roster,    \* roster[k]: SessionClient.members as a bag of ids
    wiredOn,   \* wiredOn[k]: the connection of k on which its extension began to
               \* listen to the events, None while it does not
    panel      \* panel[k]: ids with a row in the presence panel, own row left out

lanVars == <<vars, toClient, status, roster, wiredOn, panel>>

\* How often a list may name an id: twice only for the loopback host
Listed == IF Loopback = {} THEN 0..1 ELSE 0..2

\* One record stands for adjacent frames of one type: ids is whom they are about.
\* A state-sync carries a bag of rows, since the host can list an id twice.
HostFrame ==
    [type : {"member-joined", "member-left", "presence-update"}, ids : SUBSET MemberId]
    \cup [type : {"state-sync"}, rows : [MemberId -> Listed]]
    \cup [type : {"auth-response", "member-kicked"}]

\* "stuck" is ConnectionState `reconnecting` with no attempt pending
Status == {"new", "dialing", "connected", "reconnecting", "redialing", "stuck",
           "disconnected"}

LanTypeOK ==
    /\ toClient \in [Conn -> Seq(HostFrame)]
    /\ status \in [Client -> Status]
    /\ roster \in [Client -> [MemberId -> Listed]]
    /\ wiredOn \in [Client -> Conn \cup {None}]
    /\ panel \in [Client -> SUBSET MemberId]

LanInit ==
    /\ Init
    /\ toClient = [c \in Conn |-> <<>>]
    /\ status = [k \in Client |-> "new"]
    /\ roster = [k \in Client |-> [m \in MemberId |-> 0]]
    /\ wiredOn = [k \in Client |-> None]
    /\ panel = [k \in Client |-> {}]

-----------------------------------------------------------------------------
(* What the host writes *)

About(type, S) == [type |-> type, ids |-> S]

\* broadcast() and transport.send(): a write to a socket that is not OPEN is dropped,
\* and nobody reads what a dead peer is sent
Written(channels, targets, frames) ==
    [c \in Conn |-> IF c \in targets /\ sock[c] = "open" /\ peer[c] = "up"
                    THEN channels[c] \o frames ELSE channels[c]]

Write(targets, frames) == toClient' = Written(toClient, targets, frames)

SocketsOf(S) == {ws[m] : m \in S \cap Members}

\* getMembersList(): the host's own row, then a row per member
Rows(binding, host) ==
    [m \in MemberId |-> (IF m = host THEN 1 ELSE 0) + (IF binding[m] # None THEN 1 ELSE 0)]

\* Frames about nobody are not sent
Say(type, S) == IF S = {} THEN <<>> ELSE <<About(type, S)>>

\* Slip: the state is sent before the verdict
WelcomeSwapped(id, binding, host, known) ==
    << [type |-> "state-sync", rows |-> Rows(binding, host)],
       [type |-> "auth-response"] >>
    \o Say("presence-update", known \ {id})

\* Slip: no presence snapshot
WelcomeBare(id, binding, host, known) ==
    << [type |-> "auth-response"],
       [type |-> "state-sync", rows |-> Rows(binding, host)] >>

\* sendPresenceSnapshotToMember(): a row for everybody the host knows but the joiner
Snapshot(id, known) == Say("presence-update", known \ {id})

\* What an accepted connection is sent: auth-response, state-sync, presence snapshot
Welcome(id, binding, host, known) ==
    << [type |-> "auth-response"],
       [type |-> "state-sync", rows |-> Rows(binding, host)] >>
    \o Snapshot(id, known)

\* removeMember() for the ids in S tells those that stay
WriteLeft(S) == Write(SocketsOf(MemberId \ S), Say("member-left", S))

\* Slip: the others are told of a member that never left
RebindFramesAnnounced(c) ==
    LET m == SeatOf(owner[c])
        welcomed == Written(toClient, {c},
                            Welcome(m, [ws EXCEPT ![m] = c], hostMemberId, presence))
    IN  toClient' = Written(welcomed, SocketsOf(MemberId \ {m}),
                            <<About("member-joined", {m})>>)

RebindFrames(c) ==
    LET m == SeatOf(owner[c])
    IN  Write({c}, Welcome(m, [ws EXCEPT ![m] = c], hostMemberId, presence))

\* A loopback client's presence is announced before its entry is stored
JoinFrames(c) ==
    LET isHost == owner[c] \in Loopback
        host == IF isHost THEN c ELSE hostMemberId
        known == IF isHost THEN presence \cup {c} ELSE presence
        announced == IF isHost
                     THEN Written(toClient, SocketsOf(MemberId),
                                  <<About("presence-update", {c})>>)
                     ELSE toClient
        welcomed == Written(announced, {c}, Welcome(c, [ws EXCEPT ![c] = c], host, known))
    IN  toClient' = Written(welcomed, SocketsOf(MemberId \ {c}),
                            <<About("member-joined", {c})>>)

\* Relayed to everybody but the sender, stored or not
PresenceFrames(c) ==
    Write(SocketsOf(MemberId \ Sender(c)), Say("presence-update", Sender(c)))

-----------------------------------------------------------------------------
(* The clients *)

\* Dials for the first time, or because the reconnect timer fired
Dial(c, k) ==
    /\ status[k] \in {"new", "reconnecting"}
    /\ Open(c, k)
    /\ status' = [status EXCEPT ![k] = IF @ = "new" THEN "dialing" ELSE "redialing"]
    /\ UNCHANGED <<toClient, roster, wiredOn, panel>>

\* The reconnect timer gives up, or the user leaves: the panel is cleared
Disconnect(k) ==
    /\ status[k] \in {"reconnecting", "stuck"}
    /\ status' = [status EXCEPT ![k] = "disconnected"]
    /\ panel' = [panel EXCEPT ![k] = {}]
    /\ UNCHANGED <<vars, toClient, roster, wiredOn>>

\* The transport's onClose: a connected client reconnects.  The handlers were
\* installed by the first connect(), so a redial that dies before its auth-response
\* finds `resolved` set and a status other than connected, and does nothing.
AfterClose(s) ==
    CASE s = "connected" -> "reconnecting"
      [] s = "redialing" -> "stuck"
      [] OTHER -> "disconnected"

ClientClosed(c) ==
    LET k == owner[c]
    IN  /\ PeerDown(c)
        /\ toClient' = [toClient EXCEPT ![c] = <<>>]
        /\ status' = [status EXCEPT ![k] = AfterClose(@)]
        /\ UNCHANGED <<roster, wiredOn, panel>>

\* connect() resolved true; after two more awaits the extension attaches its
\* listeners (wireClientEvents) and announces where its own editor is
Wire(c) ==
    LET k == owner[c]
    IN  /\ peer[c] = "up"
        /\ status[k] = "connected"
        /\ k \in Listeners /\ wiredOn[k] = None
        /\ wiredOn' = [wiredOn EXCEPT ![k] = c]
        /\ toHost' = IF Readable(c) THEN [toHost EXCEPT ![c] = Append(@, "presence-update")]
                     ELSE toHost
        /\ UNCHANGED <<owner, peer, sock, pongDue, sent, closureId, authTimer, ws, isAlive,
                       mapVars, hostMemberId, presence, tracking, stopped, toClient, status,
                       roster, panel>>

Wired(k) == k \in Client /\ wiredOn[k] # None

\* handleMessage() on SessionClient.members
Updated(rows, f) ==
    CASE f.type = "state-sync" -> f.rows
      [] f.type = "member-joined" ->
           [m \in MemberId |-> IF m \in f.ids THEN rows[m] + 1 ELSE rows[m]]
      [] f.type = "member-left" -> [m \in MemberId |-> IF m \in f.ids THEN 0 ELSE rows[m]]
      [] OTHER -> rows

\* The presence panel follows presence-update and member-left events
Redrawn(rows, f) ==
    CASE f.type = "presence-update" -> rows \cup f.ids
      [] f.type = "member-left" -> rows \ f.ids
      [] OTHER -> rows

\* handleMessage() for the next frame; a kicked client closes for good
ClientRead(c) ==
    LET k == owner[c]
        f == Head(toClient[c])
        isKick == f.type = "member-kicked"
    IN  /\ peer[c] = "up"
        /\ toClient[c] # <<>>
        /\ roster' = [roster EXCEPT ![k] = Updated(@, f)]
        /\ toClient' = [toClient EXCEPT ![c] = IF isKick THEN <<>> ELSE Tail(@)]
        /\ status' = [status EXCEPT ![k] = IF isKick THEN "disconnected"
                                           ELSE IF f.type = "auth-response" THEN "connected"
                                           ELSE @]
        /\ panel' = [panel EXCEPT ![k] = IF isKick THEN {}
                                         ELSE IF wiredOn[k] # None THEN Redrawn(@, f) ELSE @]
        /\ IF isKick THEN PeerDown(c) ELSE UNCHANGED vars
        /\ UNCHANGED wiredOn

-----------------------------------------------------------------------------
(* One step of the session *)

AtHost == UNCHANGED <<status, roster, wiredOn, panel>>
Quiet == AtHost /\ UNCHANGED toClient

Refuse(c) == RejectAuth(c) /\ Quiet
TakeBack(c) == Rebind(c) /\ RebindFrames(c) /\ AtHost
LetIn(c) == Join(c) /\ JoinFrames(c) /\ AtHost
RelayPresence(c) == PresenceUpdate(c) /\ PresenceFrames(c) /\ AtHost
NoteTracked(c) == TrackedPathsUpdate(c) /\ Quiet
NotePong(c) == Pong(c) /\ Quiet
TimeOut(c) == AuthTimeout(c) /\ Quiet
LoseSocket(c) == CloseEvent(c) /\ WriteLeft(LostWith(c)) /\ AtHost
Tick == HeartbeatTick /\ WriteLeft(Members \ isAlive) /\ AtHost
Kick(m) == KickMember(m) /\ Write({ws[m]}, <<[type |-> "member-kicked"]>>) /\ AtHost
ShowHost ==
    HostPresence /\ Write(SocketsOf(MemberId), <<About("presence-update", {HostId})>>) /\ AtHost
StopSession == Stop /\ Quiet
ReportTracked(c) == Wired(owner[c]) /\ ClientSend(c, "tracked-paths-update") /\ Quiet
ReportEditor(c) == Wired(owner[c]) /\ ClientSend(c, "presence-update") /\ Quiet

LanNext ==
    \/ \E c \in Conn, k \in Client : Dial(c, k)
    \/ \E c \in Conn :
          \/ ClientClosed(c) \/ Wire(c) \/ ClientRead(c) \/ ReportTracked(c) \/ ReportEditor(c)
          \/ Refuse(c) \/ TakeBack(c) \/ LetIn(c) \/ RelayPresence(c) \/ NoteTracked(c)
          \/ NotePong(c) \/ TimeOut(c) \/ LoseSocket(c)
    \/ \E k \in Client : Disconnect(k)
    \/ \E m \in MemberId : Kick(m)
    \/ Tick \/ ShowHost \/ StopSession

LanSpec == LanInit /\ [][LanNext]_lanVars

-----------------------------------------------------------------------------
(* Properties *)

\* c carries a seated member whose frames still flow both ways
Attached(c) ==
    sock[c] = "open" /\ peer[c] = "up" /\ \E m \in Members : ws[m] = c

\* What a client knows of the roster, or shows in its panel, after one frame
Taken(what, rows, f) == IF what = "roster" THEN Updated(rows, f) ELSE Redrawn(rows, f)

\* The same once it has read a whole queue
CaughtUp(what, rows, q) ==
    LET at[i \in 0..Len(q)] == IF i = 0 THEN rows ELSE Taken(what, at[i - 1], q[i])
    IN  at[Len(q)]

\* What a client knows once it has read everything already sent to it is exactly the
\* host's list, duplicates included: no join or leave is missed, doubled or put in
\* the wrong order, across reconnects and heartbeat evictions.
RosterConverges ==
    \A c \in Conn :
       Attached(c) =>
          CaughtUp("roster", roster[owner[c]], toClient[c]) = Rows(ws, hostMemberId)

\* A client that is reading from its member socket was let in: nothing the host sends
\* to members reaches a socket before the auth-response on it.
NothingBeforeWelcome ==
    \A c \in Conn :
       peer[c] = "up" /\ status[owner[c]] \in {"dialing", "redialing"} /\ toClient[c] # <<>>
          => Head(toClient[c]).type = "auth-response"

\* The panel of k once it has read everything already sent to it on c
Shown(c) == CaughtUp("panel", panel[owner[c]], toClient[c])

\* A listening client that comes back finds in its panel every row the host holds
\* about somebody else, whatever changed while it was away and whatever is relayed
\* while the snapshot is in flight (sendPresenceSnapshotToMember).
SnapshotRestoresPanel ==
    \A c \in Conn :
       Attached(c) /\ wiredOn[owner[c]] \notin {None, c}
          => presence \ {closureId[c]} \subseteq Shown(c)

\* A client that listens to the events and has read everything sent to it
UpToDate(c) == ~stopped /\ Attached(c) /\ toClient[c] = <<>> /\ Wired(owner[c])

-----------------------------------------------------------------------------
(* What the repository says and the code does not keep (README, section 6) *)

\* "mirrors the session roster" (260530-np7-PLAN.md): the panel has no row the host
\* has dropped.
PanelHasNoGhost ==
    \A c \in Conn : UpToDate(c) => panel[owner[c]] \subseteq presence
===============================================================================
