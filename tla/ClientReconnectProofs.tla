------------------------- MODULE ClientReconnectProofs -------------------------
(***************************************************************************)
(* The safety of a client's reconnect ladder, for any number of socket     *)
(* names and attempts.  Every action preserves ReconnectInv: one lemma per *)
(* action, and under it one step per conjunct.                             *)
(***************************************************************************)
EXTENDS ClientReconnect, SequenceTheorems, TLAPS

\* What a client may find in flight
Queues == {<<>>, <<"accepted">>, <<"accepted", "member-kicked">>, <<"member-kicked">>,
           <<"refused">>}

\* Reading the next frame of a queue leaves a queue; a verdict is always its head
LEMMA QueueFacts ==
    ASSUME NEW q \in Queues
    PROVE  /\ q \in Seq({"accepted", "refused", "member-kicked"})
           /\ q # <<>> => /\ Tail(q) \in Queues
                          /\ Head(q) \in {"accepted", "refused", "member-kicked"}
                          /\ Head(q) = "accepted" =>
                                q \in {<<"accepted">>, <<"accepted", "member-kicked">>}
                          /\ Head(q) # "accepted" => Tail(q) = <<>>
                          /\ Head(q) = "refused" => q = <<"refused">>
                          /\ Head(q) = "member-kicked" => q = <<"member-kicked">>
                          /\ q = <<"accepted">> => Tail(q) = <<>>
<1>1. CASE q = <<>>
  BY <1>1
<1>2. CASE q = <<"accepted">>
  BY <1>2 DEF Queues
<1>3. CASE q = <<"accepted", "member-kicked">>
  <2>1. Tail(q) = <<"member-kicked">> /\ Head(q) = "accepted"
    BY <1>3
  <2> QED
    BY <1>3, <2>1 DEF Queues
<1>4. CASE q = <<"member-kicked">>
  BY <1>4 DEF Queues
<1>5. CASE q = <<"refused">>
  BY <1>5 DEF Queues
<1> QED
  BY <1>1, <1>2, <1>3, <1>4, <1>5 DEF Queues

\* What appending to a one-element queue gives
LEMMA Second ==
    ASSUME NEW S, NEW q \in Seq(S), NEW b \in S, Len(q) = 1
    PROVE  Append(q, b) = <<q[1], b>>
<1> DEFINE x == Append(q, b)
           y == <<q[1], b>>
<1>1. x \in Seq(S) 
  OBVIOUS
<1>2. Len(x) = 2
  <2>1. Len(x) = Len(q) + 1
    BY AppendProperties
  <2> QED
    BY <2>1
<1>3. x[1] = q[1]
  <2>1. \A i \in 1..Len(q) : x[i] = q[i]
    BY AppendProperties, SMTT(30)
  <2>2. 1 \in 1..Len(q)
    OBVIOUS
  <2> QED
    BY <2>1, <2>2, Zenon
<1>4. x[2] = b
  <2>1. x[Len(q) + 1] = b
    BY AppendProperties, SMTT(30)
  <2>2. Len(q) + 1 = 2
    OBVIOUS
  <2> QED
    BY <2>1, <2>2, Zenon
<1>5. y \in Seq(S)
  <2>1. q[1] \in S
    <3>1. 1 \in 1..Len(q)
      OBVIOUS
    <3> QED
      BY <3>1, ElementOfSeq
  <2> QED
    BY <2>1
<1>6. Len(y) = 2 /\ y[1] = q[1] /\ y[2] = b
  OBVIOUS
<1> HIDE DEF x, y
<1>7. x = y
  BY <1>1, <1>2, <1>3, <1>4, <1>5, <1>6, SeqEqual
<1> QED
  BY <1>7 DEF x, y

\* What the host appends to a queue
LEMMA Appended ==
    /\ <<>> \o <<"accepted">> = <<"accepted">>
    /\ <<>> \o <<"refused">> = <<"refused">>
    /\ <<>> \o <<"member-kicked">> = <<"member-kicked">>
    /\ <<"accepted">> \o <<"member-kicked">> = <<"accepted", "member-kicked">>
<1> DEFINE W == {"accepted", "member-kicked"}
           one == <<"accepted">>
<1>1. one \in Seq(W) /\ Len(one) = 1 /\ one[1] = "accepted" /\ "member-kicked" \in W
  OBVIOUS
<1>2. one \o <<"member-kicked">> = Append(one, "member-kicked")
  BY <1>1, AppendIsConcat
<1>3. Append(one, "member-kicked") = <<one[1], "member-kicked">>
  <2> HIDE DEF one, W
  <2> QED
    BY <1>1, Second
<1>4. /\ <<>> \o <<"accepted">> = <<"accepted">>
      /\ <<>> \o <<"refused">> = <<"refused">>
      /\ <<>> \o <<"member-kicked">> = <<"member-kicked">>
  OBVIOUS
<1> QED
  BY <1>1, <1>2, <1>3, <1>4

\* transport.close() closes or aborts the current socket and touches no other
LEMMA TransportCloseFacts ==
    ASSUME ReconnectTypeOK, TransportClose
    PROVE  /\ sock' \in [Socket -> {"none", "connecting", "aborting", "open", "closing"}]
           /\ ws' = None
           /\ \A s \in Socket :
                 /\ sock'[s] = "none" <=> sock[s] = "none"
                 /\ sock'[s] \in {"open", "closing"} <=> sock[s] \in {"open", "closing"}
                 /\ sock'[s] \in {"connecting", "aborting"} <=>
                       sock[s] \in {"connecting", "aborting"}
                 /\ sock'[s] = "connecting" => sock[s] = "connecting" /\ s # ws
<1>1. CASE ws = None
  BY <1>1, ReconnectConstants DEF ReconnectTypeOK, TransportClose
<1>2. CASE ws # None
  <2> DEFINE closed == CASE sock[ws] = "open" -> "closing"
                         [] sock[ws] = "connecting" -> "aborting"
                         [] OTHER -> sock[ws]
  <2>1. ws \in Socket /\ sock' = [sock EXCEPT ![ws] = closed] /\ ws' = None
    BY <1>2 DEF ReconnectTypeOK, TransportClose
  <2>2. /\ sock[ws] \in {"none", "connecting", "aborting", "open", "closing"}
        /\ sock \in [Socket -> {"none", "connecting", "aborting", "open", "closing"}]
    BY <2>1 DEF ReconnectTypeOK
  <2>3. /\ closed \in {"none", "aborting", "closing"}
        /\ closed = "none" <=> sock[ws] = "none"
        /\ closed = "closing" <=> sock[ws] \in {"open", "closing"}
    BY <2>2
  <2> HIDE DEF closed
  <2> QED
    BY <2>1, <2>2, <2>3
<1> QED
  BY <1>1, <1>2

\* A socket that is over leaves nothing behind and touches no other
LEMMA GoneFacts ==
    ASSUME ReconnectTypeOK, NEW s \in Socket, Gone(s)
    PROVE  /\ sock' \in [Socket -> {"none", "connecting", "aborting", "open", "closing"}]
           /\ peer' \in [Socket -> {"none", "asked", "seated", "closed", "gone"}]
           /\ inbox' \in [Socket -> Seq({"accepted", "refused", "member-kicked"})]
           /\ pongs' \subseteq Socket
           /\ ws' = ws
           /\ sock'[s] = "none" /\ peer'[s] = "none" /\ inbox'[s] = <<>>
           /\ \A t \in Socket \ {s} :
                 sock'[t] = sock[t] /\ peer'[t] = peer[t] /\ inbox'[t] = inbox[t]
  BY DEF ReconnectTypeOK, Gone

\* The first connect() is made when no socket was ever alive (FirstConnectFirst).
LEMMA ConnectStep ==
    ASSUME ReconnectInv, NEW s \in Socket, Connect(s)
    PROVE  ReconnectInv'
<1>1. ReconnectTypeOK'
  BY DEF ReconnectInv, ReconnectTypeOK, Connect, Dial, ladder, ui
<1>2. OneSocket'
  BY DEF ReconnectInv, OneSocket, FirstConnectFirst, Alive, Connect, Dial
<1>3. LeftForGood'
  BY DEF ReconnectInv, LeftForGood, FirstConnectFirst, Connect
<1>4. HeartbeatFollowsSocket'
  BY DEF ReconnectInv, HeartbeatFollowsSocket, Connect, Dial
<1>5. FramesInFlight'
  BY DEF ReconnectInv, FramesInFlight, Connect, Dial
<1>6. FirstConnectFirst'
  BY DEF ReconnectInv, FirstConnectFirst, Connect, ladder, ui
<1>7. LadderBounded'
  BY DEF ReconnectInv, FirstConnectFirst, LadderBounded, Connect, ladder
<1>8. LeavingCloses'
  BY DEF ReconnectInv, FirstConnectFirst, LeavingCloses, Connect, Dial
<1>9. ConnectingIsCurrent'
  BY DEF ReconnectInv, FirstConnectFirst, ConnectingIsCurrent, Alive, Connect, Dial
<1> QED
  BY <1>1, <1>2, <1>3, <1>4, <1>5, <1>6, <1>7, <1>8, <1>9 DEF ReconnectInv

\* A redial replaces a socket that is gone (LadderBounded).
LEMMA ReconnectTimerStep ==
    ASSUME ReconnectInv, NEW s \in Socket, ReconnectTimer(s)
    PROVE  ReconnectInv'
<1>1. ReconnectTypeOK'
  BY DEF ReconnectInv, ReconnectTypeOK, ReconnectTimer, Dial, ui
<1>2. OneSocket'
  BY DEF ReconnectInv, OneSocket, LadderBounded, Alive, ReconnectTimer, Dial
<1>3. LeftForGood'
  BY DEF ReconnectInv, LeftForGood, ReconnectTimer
<1>4. HeartbeatFollowsSocket'
  BY DEF ReconnectInv, HeartbeatFollowsSocket, ReconnectTimer, Dial
<1>5. FramesInFlight'
  BY DEF ReconnectInv, FramesInFlight, ReconnectTimer, Dial
<1>6. FirstConnectFirst'
  BY DEF ReconnectInv, FirstConnectFirst, ReconnectTimer
<1>7. LadderBounded'
  BY DEF ReconnectInv, LadderBounded, ReconnectTimer
<1>8. LeavingCloses'
  BY DEF ReconnectInv, LeftForGood, LeavingCloses, ReconnectTimer, Dial
<1>9. ConnectingIsCurrent'
  BY DEF ReconnectInv, LadderBounded, ConnectingIsCurrent, Alive, ReconnectTimer, Dial
<1> QED
  BY <1>1, <1>2, <1>3, <1>4, <1>5, <1>6, <1>7, <1>8, <1>9 DEF ReconnectInv

\* A dial that opens was not aborted, so the user has not left (LeavingCloses).
LEMMA OpensStep ==
    ASSUME ReconnectInv, NEW s \in Socket, Opens(s)
    PROVE  ReconnectInv'
<1>1. ReconnectTypeOK'
  BY DEF ReconnectInv, ReconnectTypeOK, Opens, ladder, ui
<1>2. OneSocket'
  BY DEF ReconnectInv, OneSocket, Alive, Opens
<1>3. LeftForGood'
  BY DEF ReconnectInv, LeftForGood, Opens
<1>4. HeartbeatFollowsSocket'
  BY DEF ReconnectInv, HeartbeatFollowsSocket, Opens
<1>5. FramesInFlight'
  BY DEF ReconnectInv, ReconnectTypeOK, FramesInFlight, Opens
<1>6. FirstConnectFirst'
  BY DEF ReconnectInv, FramesInFlight, FirstConnectFirst, Alive, Opens, ladder, ui
<1>7. LadderBounded'
  BY DEF ReconnectInv, LadderBounded, Alive, Opens, ladder
<1>8. LeavingCloses'
  BY DEF ReconnectInv, LeavingCloses, Opens, ladder
<1>9. ConnectingIsCurrent'
  BY DEF ReconnectInv, ConnectingIsCurrent, Opens
<1> QED
  BY <1>1, <1>2, <1>3, <1>4, <1>5, <1>6, <1>7, <1>8, <1>9 DEF ReconnectInv

\* disconnect() aborts the ladder and closes the socket in one turn.
LEMMA DisconnectStep ==
    ASSUME ReconnectInv, Disconnect
    PROVE  ReconnectInv'
<1>1. ReconnectTypeOK'
  BY TransportCloseFacts
     DEF ReconnectInv, ReconnectTypeOK, Disconnect, DisconnectInternal, Abort, Transition,
         ConnectionStatus
<1>2. OneSocket'
  BY TransportCloseFacts DEF ReconnectInv, OneSocket, Alive, Disconnect, DisconnectInternal
<1>3. LeftForGood'
  BY TransportCloseFacts
     DEF ReconnectInv, LeftForGood, ConnectingIsCurrent, Disconnect, DisconnectInternal,
         Abort
<1>4. HeartbeatFollowsSocket'
  BY DEF HeartbeatFollowsSocket, Disconnect, DisconnectInternal
<1>5. FramesInFlight'
  BY TransportCloseFacts DEF ReconnectInv, FramesInFlight, Disconnect, DisconnectInternal
<1>6. FirstConnectFirst'
  BY DEF ReconnectInv, FirstConnectFirst, Disconnect
<1>7. LadderBounded'
  BY TransportCloseFacts
     DEF ReconnectInv, LadderBounded, Disconnect, DisconnectInternal, Abort
<1>8. LeavingCloses'
  BY DEF LeavingCloses, Disconnect, DisconnectInternal, Abort
<1>9. ConnectingIsCurrent'
  BY TransportCloseFacts
     DEF ReconnectInv, ConnectingIsCurrent, Disconnect, DisconnectInternal
<1> QED
  BY <1>1, <1>2, <1>3, <1>4, <1>5, <1>6, <1>7, <1>8, <1>9 DEF ReconnectInv

\* A ping changes no socket.
LEMMA HeartbeatTickStep ==
    ASSUME ReconnectInv, HeartbeatTick
    PROVE  ReconnectInv'
<1>1. ReconnectTypeOK'
  BY DEF ReconnectInv, ReconnectTypeOK, HeartbeatTick, ArmTimeout, ladder, ui
<1>2. OneSocket'
  BY DEF ReconnectInv, OneSocket, Alive, HeartbeatTick
<1>3. LeftForGood'
  BY DEF ReconnectInv, LeftForGood, HeartbeatTick, ladder
<1>4. HeartbeatFollowsSocket'
  BY DEF ReconnectInv, HeartbeatFollowsSocket, HeartbeatTick, ArmTimeout
<1>5. FramesInFlight'
  BY DEF ReconnectInv, FramesInFlight, HeartbeatTick
<1>6. FirstConnectFirst'
  BY DEF ReconnectInv, FirstConnectFirst, Alive, HeartbeatTick, ladder, ui
<1>7. LadderBounded'
  BY DEF ReconnectInv, LadderBounded, Alive, HeartbeatTick, ladder
<1>8. LeavingCloses'
  BY DEF ReconnectInv, LeavingCloses, HeartbeatTick, ladder
<1>9. ConnectingIsCurrent'
  BY DEF ReconnectInv, ConnectingIsCurrent, HeartbeatTick
<1> QED
  BY <1>1, <1>2, <1>3, <1>4, <1>5, <1>6, <1>7, <1>8, <1>9 DEF ReconnectInv

\* A pong, of whichever socket, changes no socket.
LEMMA PongStep ==
    ASSUME ReconnectInv, NEW s \in Socket, Pong(s)
    PROVE  ReconnectInv'
<1>1. ReconnectTypeOK'
  BY DEF ReconnectInv, ReconnectTypeOK, Pong, ladder, ui
<1>2. OneSocket'
  BY DEF ReconnectInv, OneSocket, Alive, Pong
<1>3. LeftForGood'
  BY DEF ReconnectInv, LeftForGood, Pong, ladder
<1>4. HeartbeatFollowsSocket'
  BY DEF ReconnectInv, HeartbeatFollowsSocket, Pong
<1>5. FramesInFlight'
  BY DEF ReconnectInv, FramesInFlight, Pong
<1>6. FirstConnectFirst'
  BY DEF ReconnectInv, FirstConnectFirst, Alive, Pong, ladder, ui
<1>7. LadderBounded'
  BY DEF ReconnectInv, LadderBounded, Alive, Pong, ladder
<1>8. LeavingCloses'
  BY DEF ReconnectInv, LeavingCloses, Pong, ladder
<1>9. ConnectingIsCurrent'
  BY DEF ReconnectInv, ConnectingIsCurrent, Pong
<1> QED
  BY <1>1, <1>2, <1>3, <1>4, <1>5, <1>6, <1>7, <1>8, <1>9 DEF ReconnectInv

\* The pong timeout closes the socket and leaves the redial to its close event.
LEMMA PongTimeoutStep ==
    ASSUME ReconnectInv, PongTimeout
    PROVE  ReconnectInv'
<1>1. ReconnectTypeOK'
  BY TransportCloseFacts DEF ReconnectInv, ReconnectTypeOK, PongTimeout, ladder, ui
<1>2. OneSocket'
  BY TransportCloseFacts DEF ReconnectInv, OneSocket, Alive, PongTimeout
<1>3. LeftForGood'
  BY TransportCloseFacts DEF ReconnectInv, LeftForGood, PongTimeout, ladder
<1>4. HeartbeatFollowsSocket'
  BY TransportCloseFacts DEF ReconnectInv, HeartbeatFollowsSocket, PongTimeout
<1>5. FramesInFlight'
  BY TransportCloseFacts DEF ReconnectInv, FramesInFlight, PongTimeout
<1>6. FirstConnectFirst'
  BY TransportCloseFacts DEF ReconnectInv, FirstConnectFirst, Alive, PongTimeout, ladder, ui
<1>7. LadderBounded'
  BY TransportCloseFacts DEF ReconnectInv, LadderBounded, Alive, PongTimeout, ladder
<1>8. LeavingCloses'
  BY TransportCloseFacts DEF ReconnectInv, LeavingCloses, PongTimeout, ladder
<1>9. ConnectingIsCurrent'
  BY TransportCloseFacts DEF ReconnectInv, ConnectingIsCurrent, PongTimeout
<1> QED
  BY <1>1, <1>2, <1>3, <1>4, <1>5, <1>6, <1>7, <1>8, <1>9 DEF ReconnectInv

\* The extension attaches its listeners.
LEMMA WireStep ==
    ASSUME ReconnectInv, Wire
    PROVE  ReconnectInv'
<1>1. ReconnectTypeOK'
  BY DEF ReconnectInv, ReconnectTypeOK, Wire, sockVars, ladder, ConnectionStatus
<1>2. OneSocket'
  BY DEF ReconnectInv, OneSocket, Alive, Wire, sockVars
<1>3. LeftForGood'
  BY DEF ReconnectInv, LeftForGood, Wire, sockVars, ladder
<1>4. HeartbeatFollowsSocket'
  BY DEF ReconnectInv, HeartbeatFollowsSocket, Wire, sockVars
<1>5. FramesInFlight'
  BY DEF ReconnectInv, FramesInFlight, Wire, sockVars
<1>6. FirstConnectFirst'
  BY DEF FirstConnectFirst, Wire
<1>7. LadderBounded'
  BY DEF ReconnectInv, LadderBounded, Alive, Wire, sockVars, ladder
<1>8. LeavingCloses'
  BY DEF ReconnectInv, LeavingCloses, Wire, sockVars, ladder
<1>9. ConnectingIsCurrent'
  BY DEF ReconnectInv, ConnectingIsCurrent, Wire, sockVars
<1> QED
  BY <1>1, <1>2, <1>3, <1>4, <1>5, <1>6, <1>7, <1>8, <1>9 DEF ReconnectInv

\* A failed dial was the only socket, so the next attempt may be scheduled or given up.
LEMMA DialFailsStep ==
    ASSUME ReconnectInv, NEW s \in Socket, DialFails(s)
    PROVE  ReconnectInv'
<1>a. /\ sock' \in [Socket -> {"none", "connecting", "aborting", "open", "closing"}]
      /\ peer' \in [Socket -> {"none", "asked", "seated", "closed", "gone"}]
      /\ inbox' \in [Socket -> Seq({"accepted", "refused", "member-kicked"})]
      /\ pongs' \subseteq Socket
      /\ ws' = ws
      /\ \A t \in Socket : sock'[t] = "none" /\ peer'[t] = "none" /\ inbox'[t] = <<>>
  BY GoneFacts, ZenonT(60) DEF ReconnectInv, OneSocket, Alive, FramesInFlight, DialFails
<1>b. ~timer /\ firstConnect # "new" /\ heartbeat' = "off"
  BY DEF ReconnectInv, FirstConnectFirst, LadderBounded, Alive, AfterClose, DialFails
<1>c. firstConnect \in {"pending", "true"} /\ (firstConnect = "true" => attempts < MaxAttempts)
  BY DEF ReconnectInv, ReconnectTypeOK, FramesInFlight, FirstConnectFirst, LadderBounded,
         Alive, DialFails
<1>1. ReconnectTypeOK'
  <2>1. CASE firstConnect = "pending"
    BY <2>1, <1>a, <1>b DEF ReconnectInv, ReconnectTypeOK, DialFails, ladder
  <2>2. CASE firstConnect = "true"
    <3>1. /\ ScheduleReconnect(status, shown, attempts + 1) /\ failed' = failed + 1
          /\ UNCHANGED <<firstConnect, aborted, intentionalClose, wired, left>>
      BY <2>2 DEF DialFails
    <3>2. timer' \in BOOLEAN
      BY <3>1 DEF ScheduleReconnect
    <3>3. status' \in ConnectionStatus /\ shown' \in ConnectionStatus
      BY <3>1 DEF ReconnectInv, ReconnectTypeOK, ScheduleReconnect, Transition, Shown,
                  ConnectionStatus
    <3>4. attempts' \in 0..MaxAttempts /\ failed' \in 0..MaxAttempts
      BY <3>1, <2>2, <1>c, ReconnectConstants
         DEF ReconnectInv, ReconnectTypeOK, LadderBounded, ScheduleReconnect
    <3> QED
      BY <3>1, <3>2, <3>3, <3>4, <1>a, <1>b DEF ReconnectInv, ReconnectTypeOK
  <2> QED
    BY <2>1, <2>2, <1>c
<1>2. OneSocket'
  BY <1>a DEF OneSocket, Alive
<1>3. LeftForGood'
  BY <1>a DEF ReconnectInv, LeftForGood, LeavingCloses, DialFails, ScheduleReconnect, ladder
<1>4. HeartbeatFollowsSocket'
  BY DEF ReconnectInv, OneSocket, HeartbeatFollowsSocket, Alive, DialFails,
         ScheduleReconnect, Transition
<1>5. FramesInFlight'
  BY <1>a DEF FramesInFlight
<1>6. FirstConnectFirst'
  BY <1>a, <1>c DEF ReconnectInv, FirstConnectFirst, Alive, DialFails, ladder
<1>7. LadderBounded'
  BY ReconnectConstants, <1>a
     DEF ReconnectInv, ReconnectTypeOK, LadderBounded, Alive, DialFails, ScheduleReconnect,
         ladder
<1>8. LeavingCloses'
  BY <1>a DEF ReconnectInv, LeavingCloses, DialFails
<1>9. ConnectingIsCurrent'
  BY <1>a DEF ConnectingIsCurrent
<1> QED
  BY <1>1, <1>2, <1>3, <1>4, <1>5, <1>6, <1>7, <1>8, <1>9 DEF ReconnectInv

\* The closed socket was the only one; the ladder starts only if the close was not wanted.
LEMMA CloseEventStep ==
    ASSUME ReconnectInv, NEW s \in Socket, CloseEvent(s)
    PROVE  ReconnectInv'
<1>a. /\ sock' \in [Socket -> {"none", "connecting", "aborting", "open", "closing"}]
      /\ peer' \in [Socket -> {"none", "asked", "seated", "closed", "gone"}]
      /\ inbox' \in [Socket -> Seq({"accepted", "refused", "member-kicked"})]
      /\ pongs' \subseteq Socket
      /\ ws' = ws
      /\ \A t \in Socket : sock'[t] = "none" /\ peer'[t] = "none" /\ inbox'[t] = <<>>
  BY GoneFacts, ZenonT(60) DEF ReconnectInv, OneSocket, Alive, FramesInFlight, CloseEvent
<1>b. ~timer /\ firstConnect # "new" /\ heartbeat' = "off"
  BY DEF ReconnectInv, FirstConnectFirst, LadderBounded, Alive, AfterClose, CloseEvent
<1>1. ReconnectTypeOK'
  BY <1>a, <1>b, ZenonT(60)
     DEF ReconnectInv, ReconnectTypeOK, CloseEvent, ScheduleReconnect, Transition, Shown,
         Settled, ConnectionStatus
<1>2. OneSocket'
  BY <1>a DEF OneSocket, Alive
<1>3. LeftForGood'
  BY <1>a DEF ReconnectInv, LeftForGood, LeavingCloses, CloseEvent
<1>4. HeartbeatFollowsSocket'
  BY <1>b
     DEF ReconnectInv, HeartbeatFollowsSocket, FirstConnectFirst, LeavingCloses, CloseEvent,
         ScheduleReconnect, Transition
<1>5. FramesInFlight'
  BY <1>a DEF FramesInFlight
<1>6. FirstConnectFirst'
  BY <1>a DEF ReconnectInv, FirstConnectFirst, Alive, CloseEvent, Settled
<1>7. LadderBounded'
  BY ReconnectConstants, <1>a
     DEF ReconnectInv, ReconnectTypeOK, LadderBounded, Alive, CloseEvent, ScheduleReconnect
<1>8. LeavingCloses'
  BY <1>a DEF ReconnectInv, LeavingCloses, CloseEvent
<1>9. ConnectingIsCurrent'
  BY <1>a DEF ConnectingIsCurrent
<1> QED
  BY <1>1, <1>2, <1>3, <1>4, <1>5, <1>6, <1>7, <1>8, <1>9 DEF ReconnectInv

\* The host never sends a second verdict, and nothing after a kick (FramesInFlight).
LEMMA HostMoveStep ==
    ASSUME ReconnectInv, NEW s \in Socket, HostMove(s)
    PROVE  ReconnectInv'
<1> PICK move \in HostMoves : /\ peer[s] = move[1]
                              /\ peer' = [peer EXCEPT ![s] = move[2]]
                              /\ inbox' = [inbox EXCEPT ![s] = @ \o move[3]]
  BY DEF HostMove
<1>0. UNCHANGED <<sock, pongs, ws, status, firstConnect, intentionalClose, heartbeat, ladder,
                  ui, left>>
  BY DEF HostMove
<1>a. /\ sock[s] \in {"open", "closing"}
      /\ peer[s] \in {"asked", "seated", "gone"}
      /\ peer'[s] \in {"seated", "closed", "gone"}
      /\ peer' \in [Socket -> {"none", "asked", "seated", "closed", "gone"}]
  BY DEF ReconnectInv, ReconnectTypeOK, FramesInFlight, HostMoves
<1>b. /\ inbox'[s] \in Queues
      /\ inbox'[s] \notin {<<>>, <<"accepted">>} => peer'[s] = "closed"
  <2>1. inbox[s] \in Queues /\ (inbox[s] \notin {<<>>, <<"accepted">>} => peer[s] = "closed")
        /\ (peer[s] = "asked" => inbox[s] = <<>>)
    BY DEF ReconnectInv, FramesInFlight, Queues
  <2>2. inbox'[s] = inbox[s] \o move[3] /\ peer'[s] = move[2]
    BY DEF ReconnectInv, ReconnectTypeOK
  <2>3. inbox[s] \in {<<>>, <<"accepted">>}
    BY <2>1, <1>a
  <2>4. CASE move[3] = <<>>
    BY <2>1, <2>2, <2>3, <2>4 DEF Queues
  <2>5. CASE move = <<"asked", "seated", <<"accepted">> >>
    <3>1. inbox'[s] = <<>> \o <<"accepted">>
      BY <2>1, <2>2, <2>5
    <3> QED
      BY <3>1, Appended DEF Queues
  <2>6. CASE move = <<"asked", "closed", <<"refused">> >>
    <3>1. inbox'[s] = <<>> \o <<"refused">> /\ peer'[s] = "closed"
      BY <2>1, <2>2, <2>6
    <3> QED
      BY <3>1, Appended DEF Queues
  <2>7. CASE move = <<"seated", "closed", <<"member-kicked">> >>
    <3>1. inbox'[s] = inbox[s] \o <<"member-kicked">> /\ peer'[s] = "closed"
      BY <2>2, <2>7
    <3> QED
      BY <3>1, <2>3, Appended DEF Queues
  <2> QED
    BY <2>4, <2>5, <2>6, <2>7 DEF HostMoves
<1>c. inbox' \in [Socket -> Seq({"accepted", "refused", "member-kicked"})]
  BY <1>b, QueueFacts DEF ReconnectInv, ReconnectTypeOK
<1>d. \A t \in Socket \ {s} : peer'[t] = peer[t] /\ inbox'[t] = inbox[t]
  BY DEF ReconnectInv, ReconnectTypeOK
<1>1. ReconnectTypeOK'
  BY <1>0, <1>a, <1>c DEF ReconnectInv, ReconnectTypeOK, ladder, ui
<1>2. /\ OneSocket' /\ LeftForGood' /\ HeartbeatFollowsSocket'
      /\ LeavingCloses' /\ ConnectingIsCurrent'
  BY <1>0 DEF ReconnectInv, OneSocket, LeftForGood, HeartbeatFollowsSocket, LeavingCloses,
              ConnectingIsCurrent, Alive, ladder, ui
<1>3. FramesInFlight'
  <2> SUFFICES ASSUME NEW t \in Socket
               PROVE  /\ sock[t] \notin {"open", "closing"} => peer'[t] = "none"
                      /\ peer'[t] \in {"none", "asked"} => inbox'[t] = <<>>
                      /\ inbox'[t] \in Queues
                      /\ inbox'[t] \notin {<<>>, <<"accepted">>} => peer'[t] = "closed"
    BY <1>0 DEF FramesInFlight, Queues
  <2>1. CASE t = s
    BY <2>1, <1>a, <1>b
  <2>2. CASE t # s
    BY <2>2, <1>d DEF ReconnectInv, FramesInFlight, Queues
  <2> QED
    BY <2>1, <2>2
<1>4. FirstConnectFirst'
  <2>1. firstConnect # "false"
    BY <1>a DEF ReconnectInv, FirstConnectFirst, Alive
  <2> QED
    BY <2>1, <1>0 DEF ReconnectInv, FirstConnectFirst, Alive, ladder, ui
<1>5. LadderBounded'
  BY <1>0 DEF ReconnectInv, LadderBounded, Alive, ladder
<1> QED
  BY <1>1, <1>2, <1>3, <1>4, <1>5 DEF ReconnectInv

\* A frame settles the first connect(), and a kick closes the socket that delivered it.
LEMMA ReadStep ==
    ASSUME ReconnectInv, NEW s \in Socket, Read(s)
    PROVE  ReconnectInv'
<1> DEFINE frame == Head(inbox[s])
<1>a. /\ sock[s] \in {"open", "closing"} /\ inbox[s] # <<>>
      /\ inbox' = [inbox EXCEPT ![s] = Tail(@)]
      /\ UNCHANGED <<peer, pongs, wired>>
      /\ inbox[s] \in Queues
  BY DEF Read, ReconnectInv, FramesInFlight, Queues
<1>b. /\ inbox'[s] = Tail(inbox[s]) /\ inbox'[s] \in Queues
      /\ \A t \in Socket \ {s} : inbox'[t] = inbox[t]
      /\ inbox' \in [Socket -> Seq({"accepted", "refused", "member-kicked"})]
  BY <1>a, QueueFacts DEF ReconnectInv, ReconnectTypeOK
<1>c. /\ ~timer /\ firstConnect \in {"pending", "true"}
      /\ \A t \in Socket \ {s} : sock[t] = "none"
  BY <1>a DEF ReconnectInv, ReconnectTypeOK, OneSocket, FirstConnectFirst, LadderBounded, Alive
<1>d. /\ frame \in {"accepted", "refused", "member-kicked"}
      /\ frame # "accepted" => inbox'[s] = <<>> /\ peer[s] = "closed"
      /\ peer[s] \notin {"none", "asked"}
      /\ inbox'[s] # <<>> => peer[s] = "closed"
  BY <1>a, <1>b, QueueFacts DEF ReconnectInv, FramesInFlight, Queues
<1>2. CASE ReadAccepted
  <2> USE <1>2 DEF ReadAccepted
  <2>0. firstConnect' = "true"
    BY <1>c DEF Settled
  <2>1. ReconnectTypeOK'
    BY <1>a, <1>b, <2>0, ReconnectConstants
       DEF ReconnectInv, ReconnectTypeOK, ConnectionStatus, Transition, Shown
  <2>2. OneSocket' /\ LeftForGood' /\ LeavingCloses' /\ ConnectingIsCurrent'
    BY DEF ReconnectInv, OneSocket, LeftForGood, LeavingCloses, ConnectingIsCurrent, Alive
  <2>3. HeartbeatFollowsSocket'
    BY <1>a DEF HeartbeatFollowsSocket
  <2>4. FramesInFlight'
    BY <1>a, <1>b, <1>d DEF ReconnectInv, FramesInFlight, Queues
  <2>5. FirstConnectFirst'
    BY <2>0 DEF FirstConnectFirst
  <2>6. LadderBounded'
    BY <1>a, <1>c DEF ReconnectInv, ReconnectTypeOK, LadderBounded, Alive
  <2> QED
    BY <2>1, <2>2, <2>3, <2>4, <2>5, <2>6 DEF ReconnectInv
<1>3. CASE frame # "accepted" /\ ReadRefused
  <2> USE <1>3 DEF ReadRefused
  <2>1. ReconnectTypeOK'
    BY <1>a, <1>b DEF ReconnectInv, ReconnectTypeOK, Settled, ladder
  <2>2. OneSocket' /\ LeftForGood' /\ LeavingCloses' /\ ConnectingIsCurrent'
    BY DEF ReconnectInv, OneSocket, LeftForGood, LeavingCloses, ConnectingIsCurrent, Alive,
           ladder
  <2>3. HeartbeatFollowsSocket'
    BY DEF ReconnectInv, HeartbeatFollowsSocket
  <2>4. FramesInFlight'
    BY <1>a, <1>b, <1>d DEF ReconnectInv, FramesInFlight, Queues
  <2>5. FirstConnectFirst'
    BY <1>a, <1>c, <1>d DEF ReconnectInv, FirstConnectFirst, Settled, Alive, ladder
  <2>6. LadderBounded'
    BY <1>a, <1>c DEF ReconnectInv, LadderBounded, Settled, Alive, ladder
  <2> QED
    BY <2>1, <2>2, <2>3, <2>4, <2>5, <2>6 DEF ReconnectInv
<1>4. CASE frame # "accepted" /\ ReadKicked
  <2>a. /\ ReconnectTypeOK /\ TransportClose
        /\ heartbeat' = "off" /\ intentionalClose' = TRUE /\ left' = TRUE
        /\ status' = Transition(status, "disconnected") /\ shown' = Shown("disconnected")
        /\ UNCHANGED <<firstConnect, ladder>>
    BY <1>4 DEF ReadKicked, DisconnectInternal, ReconnectInv
  <2>b. /\ sock'[s] \in {"open", "closing"}
        /\ \A t \in Socket \ {s} : sock'[t] = "none"
    BY <2>a, <1>a, <1>c, TransportCloseFacts
  <2>1. ReconnectTypeOK'
    BY <2>a, <1>a, <1>b, TransportCloseFacts
       DEF ReconnectTypeOK, ConnectionStatus, Transition, Shown, ladder
  <2>2. OneSocket' /\ LeftForGood' /\ HeartbeatFollowsSocket'
    BY <2>a, <2>b, <1>c DEF OneSocket, LeftForGood, HeartbeatFollowsSocket, Alive, ladder
  <2>3. LeavingCloses' /\ ConnectingIsCurrent'
    BY <2>a, <2>b DEF LeavingCloses, ConnectingIsCurrent
  <2>4. FramesInFlight'
    BY <2>b, <1>a, <1>b, <1>c, <1>d DEF ReconnectInv, FramesInFlight, Queues
  <2>5. FirstConnectFirst'
    BY <2>a, <2>b, <1>a, <1>c, <1>d
       DEF ReconnectInv, FirstConnectFirst, Transition, Alive, ladder
  <2>6. LadderBounded'
    BY <2>a, <2>b, <1>c DEF ReconnectInv, LadderBounded, Alive, ladder
  <2> QED
    BY <2>1, <2>2, <2>3, <2>4, <2>5, <2>6 DEF ReconnectInv
<1> QED
  BY <1>2, <1>3, <1>4, <1>a, <1>d DEF Read

\* Nothing has happened yet.
LEMMA InitHolds == ASSUME Init PROVE ReconnectInv
<1> USE DEF Init, Alive
<1>1. ReconnectTypeOK
  <2>1. inbox \in [Socket -> Seq({"accepted", "refused", "member-kicked"})]
    OBVIOUS
  <2>2. attempts \in 0..MaxAttempts /\ failed \in 0..MaxAttempts
    BY ReconnectConstants
  <2>3. /\ sock \in [Socket -> {"none", "connecting", "aborting", "open", "closing"}]
        /\ peer \in [Socket -> {"none", "asked", "seated", "closed", "gone"}]
        /\ pongs \subseteq Socket /\ ws \in Socket \cup {None}
    OBVIOUS
  <2>4. /\ status \in ConnectionStatus /\ shown \in ConnectionStatus
        /\ firstConnect \in {"new", "pending", "true", "false"}
        /\ heartbeat \in {"off", "idle", "waiting"}
    BY DEF ConnectionStatus
  <2>5. {intentionalClose, timer, aborted, wired, left} \subseteq BOOLEAN
    OBVIOUS
  <2> QED
    BY <2>1, <2>2, <2>3, <2>4, <2>5, Zenon DEF ReconnectTypeOK
<1>2. OneSocket /\ LeftForGood /\ HeartbeatFollowsSocket
  BY DEF OneSocket, LeftForGood, HeartbeatFollowsSocket
<1>3. FramesInFlight
  BY DEF FramesInFlight
<1>4. FirstConnectFirst
  BY DEF FirstConnectFirst
<1>5. LadderBounded /\ LeavingCloses /\ ConnectingIsCurrent
  BY DEF LadderBounded, LeavingCloses, ConnectingIsCurrent
<1> QED
  BY <1>1, <1>2, <1>3, <1>4, <1>5 DEF ReconnectInv

\* The invariant only reads the variables of the specification.
LEMMA Stutter == ASSUME ReconnectInv, UNCHANGED vars PROVE ReconnectInv'
  BY DEF vars, sockVars, ladder, ui, ReconnectInv, ReconnectTypeOK, OneSocket, LeftForGood,
     HeartbeatFollowsSocket, FramesInFlight, FirstConnectFirst, LadderBounded, LeavingCloses,
     ConnectingIsCurrent, Alive

\* Every step preserves the invariant.
LEMMA Inductive == ReconnectInv /\ [Next]_vars => ReconnectInv'
<1> SUFFICES ASSUME ReconnectInv, [Next]_vars PROVE ReconnectInv'
  OBVIOUS
<1>1. ASSUME NEW s \in Socket, Opens(s) \/ HostMove(s) \/ Read(s) \/ CloseEvent(s) \/ Pong(s)
      PROVE  ReconnectInv'
  BY <1>1, OpensStep, HostMoveStep, ReadStep, CloseEventStep, PongStep
<1>2. ASSUME NEW s \in Socket, Connect(s) \/ ReconnectTimer(s) \/ DialFails(s)
      PROVE  ReconnectInv'
  BY <1>2, ConnectStep, ReconnectTimerStep, DialFailsStep
<1>3. CASE HeartbeatTick \/ PongTimeout \/ Wire \/ Disconnect
  BY <1>3, HeartbeatTickStep, PongTimeoutStep, WireStep, DisconnectStep
<1>4. CASE UNCHANGED vars
  BY <1>4, Stutter
<1> QED
  BY <1>1, <1>2, <1>3, <1>4 DEF Next

\* The inductive invariant holds for every set of sockets and number of attempts.
THEOREM Invariance == Spec => []ReconnectInv
<1> QED
  BY InitHolds, Inductive, PTL DEF Spec

\* Every variable of the client keeps its type; in particular the ladder never counts
\* more than maxAttempts failures.
THEOREM TypeCorrect == Spec => []ReconnectTypeOK
<1>1. ReconnectInv => ReconnectTypeOK
  BY DEF ReconnectInv
<1> QED
  BY Invariance, <1>1, PTL

\* The reconnect ladder, the heartbeat and the user never make the client hold two
\* sockets at once.
THEOREM NeverTwoSockets == Spec => []OneSocket
<1>1. ReconnectInv => OneSocket
  BY DEF ReconnectInv
<1> QED
  BY Invariance, <1>1, PTL

\* After disconnect() or a kick no redial is scheduled or running.
THEOREM StaysAway == Spec => []LeftForGood
<1>1. ReconnectInv => LeftForGood
  BY DEF ReconnectInv
<1> QED
  BY Invariance, <1>1, PTL

\* The heartbeat runs exactly while there is a socket to watch.
THEOREM Watched == Spec => []HeartbeatFollowsSocket
<1>1. ReconnectInv => HeartbeatFollowsSocket
  BY DEF ReconnectInv
<1> QED
  BY Invariance, <1>1, PTL
===============================================================================
