---------------------------- MODULE ClientReconnect ----------------------------
(***************************************************************************)
(* One SessionClient on a LAN transport: its connection state machine, the *)
(* heartbeat that notices a dead host, the reconnect ladder, and the       *)
(* status the extension shows (src/src/client, src/src/network/heartbeat). *)
(*                                                                         *)
(* connect() installs the transport's handlers on its first call only, so  *)
(* for the life of the client they settle the FIRST connect() promise: a   *)
(* redial's own promise only ever settles when the socket does not open.   *)
(***************************************************************************)
EXTENDS Integers, Sequences

CONSTANTS
    Socket,       \* WebSocket objects; a closed one is used again by a later dial
    MaxAttempts,  \* ReconnectManager.maxAttempts
    None

ASSUME ReconnectConstants == MaxAttempts \in Nat \ {0} /\ None \notin Socket

VARIABLES
    sock,          \* sock[s]: readyState of s, "aborting" when closed while connecting
    peer,          \* peer[s]: what the host holds at the other end
    inbox,         \* inbox[s]: frames from the host that were not read yet
    pongs,         \* sockets with a pong on its way to the client
    ws,            \* LanClientTransport.ws
    status,        \* ConnectionStateMachine.status
    firstConnect,  \* the promise of the first connect()
    intentionalClose,
    heartbeat,     \* HeartbeatManager: "waiting" while the pong timeout is armed
    timer,         \* ReconnectManager: a redial is scheduled
    attempts,      \* ReconnectManager.attempts
    aborted,       \* ReconnectManager.aborted
    wired,         \* wireClientEvents() has attached the extension's listeners
    shown,         \* the status the extension shows
    left,          \* history: the user disconnected or the host kicked
    failed         \* history: dials that failed since the client was last connected

sockVars == <<sock, peer, inbox, pongs, ws>>
ladder == <<timer, attempts, aborted, failed>>
ui == <<wired, shown>>
vars == <<sockVars, status, firstConnect, intentionalClose, heartbeat, ladder, ui, left>>

ConnectionStatus == {"disconnected", "connected", "reconnecting"}

ReconnectTypeOK ==
    /\ sock \in [Socket -> {"none", "connecting", "aborting", "open", "closing"}]
    /\ peer \in [Socket -> {"none", "asked", "seated", "closed", "gone"}]
    /\ inbox \in [Socket -> Seq({"accepted", "refused", "member-kicked"})]
    /\ pongs \subseteq Socket
    /\ ws \in Socket \cup {None}
    /\ status \in ConnectionStatus
    /\ firstConnect \in {"new", "pending", "true", "false"}
    /\ intentionalClose \in BOOLEAN
    /\ heartbeat \in {"off", "idle", "waiting"}
    /\ timer \in BOOLEAN
    /\ attempts \in 0..MaxAttempts
    /\ aborted \in BOOLEAN
    /\ wired \in BOOLEAN
    /\ shown \in ConnectionStatus
    /\ left \in BOOLEAN
    /\ failed \in 0..MaxAttempts

Init ==
    /\ sock = [s \in Socket |-> "none"]
    /\ peer = [s \in Socket |-> "none"]
    /\ inbox = [s \in Socket |-> <<>>]
    /\ pongs = {}
    /\ ws = None
    /\ status = "disconnected"
    /\ firstConnect = "new"
    /\ intentionalClose = FALSE
    /\ heartbeat = "off"
    /\ timer = FALSE
    /\ attempts = 0
    /\ aborted = FALSE
    /\ wired = FALSE
    /\ shown = "disconnected"
    /\ left = FALSE
    /\ failed = 0

-----------------------------------------------------------------------------
(* Helpers *)

\* transition(): a move the table does not list is ignored
Transition(from, to) ==
    IF <<from, to>> \in {<<"disconnected", "connected">>, <<"connected", "reconnecting">>,
                         <<"connected", "disconnected">>, <<"reconnecting", "connected">>,
                         <<"reconnecting", "disconnected">>}
    THEN to ELSE from

\* connection-changed reaches the extension once it listens
Shown(st) == IF wired THEN st ELSE shown

\* scheduleReconnect() after n failed attempts: sets the timer, or gives up
ScheduleReconnect(st, seen, n) ==
    LET giveUp == aborted \/ n >= MaxAttempts
    IN  /\ status' = IF giveUp THEN Transition(st, "disconnected") ELSE st
        /\ shown' = IF giveUp THEN Shown("disconnected") ELSE seen
        /\ timer' = ~giveUp
        /\ attempts' = n

\* transport.close(): forgets the socket, which keeps reading until its close event
TransportClose ==
    /\ ws' = None
    /\ sock' = IF ws = None THEN sock
               ELSE [sock EXCEPT ![ws] = CASE @ = "open" -> "closing"
                                           [] @ = "connecting" -> "aborting"
                                           [] OTHER -> @]

\* A socket is over: the slot is free for another dial
Gone(s) ==
    /\ sock' = [sock EXCEPT ![s] = "none"]
    /\ peer' = [peer EXCEPT ![s] = "none"]
    /\ inbox' = [inbox EXCEPT ![s] = <<>>]
    /\ pongs' = pongs \ {s}
    /\ UNCHANGED ws

\* new WebSocket(...)
Dial(s) ==
    /\ sock[s] = "none"
    /\ sock' = [sock EXCEPT ![s] = "connecting"]
    /\ ws' = s
    /\ intentionalClose' = FALSE
    /\ UNCHANGED <<peer, inbox, pongs>>

-----------------------------------------------------------------------------
(* The network and the host *)

\* The socket opens and the onOpen handler sends auth-request
Opens(s) ==
    /\ sock[s] = "connecting"
    /\ sock' = [sock EXCEPT ![s] = "open"]
    /\ peer' = [peer EXCEPT ![s] = "asked"]
    /\ UNCHANGED <<inbox, pongs, ws, status, firstConnect, intentionalClose, heartbeat, ladder,
                   ui, left>>

\* What the host does at its end: it lets the client in, turns it away, kicks it, closes
\* the socket (auth timeout, stop, exit; also the OS reporting a lost peer), or vanishes
HostMoves ==
    {<<"asked", "seated", <<"accepted">> >>, <<"asked", "closed", <<"refused">> >>,
     <<"seated", "closed", <<"member-kicked">> >>}
    \cup {<<p, "closed", <<>> >> : p \in {"asked", "seated", "gone"}}
    \cup {<<p, "gone", <<>> >> : p \in {"asked", "seated"}}

HostMove(s) ==
    /\ \E move \in HostMoves :
          /\ peer[s] = move[1]
          /\ peer' = [peer EXCEPT ![s] = move[2]]
          /\ inbox' = [inbox EXCEPT ![s] = @ \o move[3]]
    /\ UNCHANGED <<sock, pongs, ws, status, firstConnect, intentionalClose, heartbeat, ladder,
                   ui, left>>

-----------------------------------------------------------------------------
(* The client *)

\* JoinPanel or the URI handler calls connect() for the first time
Connect(s) ==
    /\ firstConnect = "new"
    /\ Dial(s)
    /\ firstConnect' = "pending"
    /\ UNCHANGED <<status, heartbeat, ladder, ui, left>>

\* The reconnect timer fires and calls connect() again
ReconnectTimer(s) ==
    /\ timer
    /\ Dial(s)
    /\ timer' = FALSE
    /\ UNCHANGED <<status, firstConnect, heartbeat, attempts, aborted, failed, ui, left>>

\* error and close events of a socket that never opened.  The first connect() resolves
\* false; a redial's promise does too, and the next attempt is scheduled.
DialFails(s) ==
    /\ sock[s] \in {"connecting", "aborting"}
    /\ Gone(s)
    /\ heartbeat' = "off"
    /\ IF firstConnect = "pending"
       THEN firstConnect' = "false" /\ UNCHANGED <<status, ladder, shown>>
       ELSE /\ ScheduleReconnect(status, shown, attempts + 1)
            /\ failed' = failed + 1
            /\ UNCHANGED <<firstConnect, aborted>>
    /\ UNCHANGED <<intentionalClose, wired, left>>

Settled(verdict) == IF firstConnect = "pending" THEN verdict ELSE firstConnect

\* handleMessage: auth-response accepted.  No check that the socket is still wanted.
ReadAccepted ==
    /\ status' = Transition(status, "connected")
    /\ shown' = Shown("connected")
    /\ heartbeat' = "idle"
    /\ firstConnect' = Settled("true")
    /\ failed' = 0
    /\ UNCHANGED <<sock, ws, intentionalClose, left, timer, aborted, attempts>>

\* handleMessage: auth-response refused
ReadRefused ==
    /\ firstConnect' = Settled("false")
    /\ UNCHANGED <<sock, ws, status, shown, heartbeat, intentionalClose, left, ladder>>

\* disconnectInternal()
DisconnectInternal ==
    /\ heartbeat' = "off"
    /\ intentionalClose' = TRUE
    /\ TransportClose
    /\ status' = Transition(status, "disconnected")
    /\ left' = TRUE

\* handleMessage: member-kicked.  The reconnect ladder is not aborted.
ReadKicked ==
    /\ DisconnectInternal
    /\ shown' = Shown("disconnected")
    /\ UNCHANGED <<firstConnect, ladder>>

\* A socket that is being closed still delivers the frames that arrive
Read(s) ==
    /\ sock[s] \in {"open", "closing"}
    /\ inbox[s] # <<>>
    /\ inbox' = [inbox EXCEPT ![s] = Tail(@)]
    /\ CASE Head(inbox[s]) = "accepted" -> ReadAccepted
         [] Head(inbox[s]) = "refused" -> ReadRefused
         [] OTHER -> ReadKicked
    /\ UNCHANGED <<peer, pongs, wired>>

\* Slip: the heartbeat survives its socket
AfterCloseBeating == heartbeat' = heartbeat

AfterClose == heartbeat' = "off"

\* onClose: the host closed and everything it sent was read, or the client's own close
\* completed or timed out
CloseEvent(s) ==
    /\ \/ sock[s] = "open" /\ peer[s] = "closed" /\ inbox[s] = <<>>
       \/ sock[s] = "closing"
    /\ Gone(s)
    /\ AfterClose
    /\ firstConnect' = Settled("false")
    /\ IF firstConnect = "true" /\ ~intentionalClose /\ status = "connected"
       THEN ScheduleReconnect("reconnecting", Shown("reconnecting"), attempts)
       ELSE UNCHANGED <<status, shown, timer, attempts>>
    /\ UNCHANGED <<intentionalClose, aborted, wired, left, failed>>

-----------------------------------------------------------------------------
(* Heartbeat *)

\* Slip: the timeout is not armed
ArmNothing == heartbeat' = heartbeat

ArmTimeout == heartbeat' = "waiting"

\* The interval fires: ping, and arm the timeout.  The timeout (5 s) is shorter than
\* the interval (15 s), so none is armed when it fires.
HeartbeatTick ==
    /\ heartbeat = "idle"
    /\ ArmTimeout
    /\ pongs' = IF ws # None /\ sock[ws] = "open" /\ peer[ws] = "seated"
                THEN pongs \cup {ws} ELSE pongs
    /\ UNCHANGED <<sock, peer, inbox, ws, status, firstConnect, intentionalClose, ladder, ui,
                   left>>

\* A pong of whichever socket clears the timeout
Pong(s) ==
    /\ s \in pongs
    /\ pongs' = pongs \ {s}
    /\ heartbeat' = IF heartbeat = "waiting" THEN "idle" ELSE heartbeat
    /\ UNCHANGED <<sock, peer, inbox, ws, status, firstConnect, intentionalClose, ladder, ui,
                   left>>

\* Slip: the dead socket's reconnect does not wait for its close event
PongTimeoutRedials ==
    /\ heartbeat = "waiting"
    /\ heartbeat' = "off"
    /\ TransportClose
    /\ ScheduleReconnect(Transition(status, "reconnecting"), Shown("reconnecting"), attempts)
    /\ UNCHANGED <<peer, inbox, pongs, firstConnect, intentionalClose, aborted, failed, wired,
                   left>>

\* No pong in time: the dead socket is closed; its close event starts the reconnect
PongTimeout ==
    /\ heartbeat = "waiting"
    /\ heartbeat' = "idle"
    /\ TransportClose
    /\ UNCHANGED <<peer, inbox, pongs, status, firstConnect, intentionalClose, ladder, ui,
                   left>>

-----------------------------------------------------------------------------
(* The extension *)

\* connect() resolved true; once the history and the secret are stored, the listeners
\* are attached and the client is shown as connected
Wire ==
    /\ firstConnect = "true"
    /\ ~wired
    /\ wired' = TRUE
    /\ shown' = "connected"
    /\ UNCHANGED <<sockVars, status, firstConnect, intentionalClose, heartbeat, ladder, left>>

\* Slip: abort() leaves the pending timer running
AbortKeepsTimer == aborted' = TRUE /\ UNCHANGED timer

\* ReconnectManager.abort()
Abort == aborted' = TRUE /\ timer' = FALSE

\* disconnect(), from the sidebar or on deactivation: the extension forgets the client
Disconnect ==
    /\ wired
    /\ ~aborted
    /\ Abort
    /\ DisconnectInternal
    /\ shown' = "disconnected"
    /\ UNCHANGED <<peer, inbox, pongs, firstConnect, attempts, failed, wired>>

Next ==
    \/ \E s \in Socket :
          \/ Opens(s) \/ HostMove(s) \/ Connect(s) \/ ReconnectTimer(s) \/ DialFails(s)
          \/ Read(s) \/ CloseEvent(s) \/ Pong(s)
    \/ HeartbeatTick \/ PongTimeout \/ Wire \/ Disconnect

\* The client's own timers run, and a socket that is closed does report it
Fairness ==
    /\ WF_vars(HeartbeatTick)
    /\ WF_vars(PongTimeout)
    /\ \A s \in Socket : WF_vars(CloseEvent(s))

Spec == Init /\ [][Next]_vars /\ Fairness

-----------------------------------------------------------------------------
(* Properties *)

Alive(s) == sock[s] # "none"

\* The client never holds two sockets: a redial waits until the last one has reported
\* its close, whatever the heartbeat, the host and the user do in between.  The host's
\* model relies on it (SessionHost!Open).
OneSocket == \A s, t \in Socket : Alive(s) /\ Alive(t) => s = t

\* After disconnect() or a kick nothing dials again, not even when the dial that was in
\* flight fails or the closed socket still delivers an auth-response.
LeftForGood == left => ~timer /\ \A s \in Socket : sock[s] # "connecting"

\* Pings never outlive the socket they watch, and a connected client is being watched.
HeartbeatFollowsSocket ==
    /\ heartbeat # "off" => \E s \in Socket : sock[s] \in {"open", "closing"}
    /\ status = "connected" /\ ~left => heartbeat # "off"

\* A host that vanished without a word is noticed: the client does not stay connected
\* to it (startClientHeartbeat).
DeadHostNoticed ==
    \A s \in Socket :
       (status = "connected" /\ peer[s] = "gone") ~> (status # "connected" \/ left)

-----------------------------------------------------------------------------
(* What the repository says and the code does not keep (README, section 6) *)

\* A redial that is scheduled or running is what `reconnecting` means
\* (ConnectionState.ts: "reconnecting --[fail]-----> disconnected").
ReconnectingIsActive == status = "reconnecting" => timer \/ \E s \in Socket : Alive(s)

\* A client gives up only when this outage has used every attempt
\* (client.test.ts: "should reset attempts on success").
GivesUpAfterAllAttempts ==
    [][status # "disconnected" /\ status' = "disconnected" /\ ~left'
          => failed' = MaxAttempts]_vars

-----------------------------------------------------------------------------
(* The inductive invariant behind the safety properties *)

\* What is in flight from the host: a verdict, then perhaps a kick, and nothing before
\* the socket is open
FramesInFlight ==
    \A s \in Socket :
       /\ sock[s] \notin {"open", "closing"} => peer[s] = "none"
       /\ peer[s] \in {"none", "asked"} => inbox[s] = <<>>
       /\ inbox[s] \in {<<>>, <<"accepted">>, <<"accepted", "member-kicked">>,
                        <<"member-kicked">>, <<"refused">>}
       /\ inbox[s] \notin {<<>>, <<"accepted">>} => peer[s] = "closed"

\* The first connect() settles before anything else can happen, and a first connect()
\* that resolved false leaves a socket that has nothing more to say
FirstConnectFirst ==
    /\ wired \/ timer \/ status # "disconnected" => firstConnect = "true"
    /\ firstConnect = "new" => ~left /\ \A s \in Socket : ~Alive(s)
    /\ firstConnect = "false" =>
          \A s \in Socket : Alive(s) => peer[s] = "closed" /\ inbox[s] = <<>>

\* A redial is only scheduled when the last socket is gone, and while attempts are left
LadderBounded ==
    /\ timer => attempts < MaxAttempts /\ \A s \in Socket : ~Alive(s)
    /\ \A s \in Socket : sock[s] \in {"connecting", "aborting"} /\ firstConnect # "pending"
          => attempts < MaxAttempts
    /\ failed <= attempts

\* Leaving closes the socket intentionally; without abort() there is no dial in flight
LeavingCloses ==
    /\ left <=> intentionalClose
    /\ left /\ ~aborted => \A s \in Socket : sock[s] \notin {"connecting", "aborting"}

ConnectingIsCurrent == \A s \in Socket : sock[s] = "connecting" => ws = s

\* A state from which no step of client, host or network leads to a second socket, a dial
\* after leaving or a heartbeat without a socket: what the theorems are derived from
ReconnectInv ==
    /\ ReconnectTypeOK
    /\ OneSocket
    /\ LeftForGood
    /\ HeartbeatFollowsSocket
    /\ FramesInFlight
    /\ FirstConnectFirst
    /\ LadderBounded
    /\ LeavingCloses
    /\ ConnectingIsCurrent
===============================================================================
