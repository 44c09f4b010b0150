------------------------------ MODULE CloudProofs ------------------------------
(***************************************************************************)
(* The safety of the relay's registry, for any number of sockets, sessions *)
(* and subjects and any caps, and of a cloud session on its way from the   *)
(* joiners over the relay to the host and back, for any number of joiners, *)
(* sockets and faults.  Every action preserves the invariant of its model, *)
(* RelayInv or CloudInv: one lemma per action, and under it one step per   *)
(* conjunct that the action can disturb.                                   *)
(***************************************************************************)
EXTENDS RelayRegistry, CloudJoin, FiniteSetTheorems, SequenceTheorems, TLAPS

-------------------------------------------------------------------------------
(* The registry of the relay *)

\* Closing sockets touches open ones only.
LEMMA ClosingFacts ==
    ASSUME RelayTypeOK, NEW C
    PROVE  /\ Closing(C) \in [Conn -> {"none", "verifying", "open", "closing", "closed"}]
           /\ \A c \in Conn :
                /\ c \in C /\ ready[c] = "open" => Closing(C)[c] = "closing"
                /\ ~(c \in C /\ ready[c] = "open") => Closing(C)[c] = ready[c]
  BY DEF RelayTypeOK, Closing

\* A host that is told of m has heard the word about m, and the other hosts nothing.
LEMMA ToldFacts ==
    ASSUME RelayTypeOK, NEW H, NEW m \in Subject, NEW w \in {"nothing", "frame", "left"}
    PROVE  /\ Told(H, m, w) \in [Conn -> [Subject -> {"nothing", "frame", "left"}]]
           /\ \A c \in Conn : c \notin H => Told(H, m, w)[c] = heard[c]
           /\ \A c \in H \cap Conn : \A n \in Subject :
                Told(H, m, w)[c][n] = IF n = m THEN w ELSE heard[c][n]
  BY DEF RelayTypeOK, Told

\* A host takes its slot
LEMMA TakeSlotStep ==
    ASSUME RelayInv, NEW c \in Conn, Admits(c), TakeSlot(c, claims[c].aud),
           first[c] # "settled", ready[c] \notin {"none", "verifying"}, claims[c].role = "host",
           first' = [first EXCEPT ![c] = "settled"],
           UNCHANGED <<accepting, claims, members, heard>>
    PROVE  RelayInv'
<1> DEFINE s == claims[c].aud
           m == claims[c].sub
<1>a. s \in Session /\ m \in Subject /\ attached[c] = None /\ heard[c] = Silence
  BY DEF RelayInv, RelayTypeOK, Handshake, Claims
<1>b. /\ registered' = registered \cup {s}
      /\ \A t \in Session : host'[t] = IF t = s THEN c ELSE host[t]
      /\ hostId'[s] = m
      /\ \A t \in Session : t # s => hostId'[t] = hostId[t]
      /\ grace' = grace \ {s}
      /\ \A d \in Conn : attached'[d] = IF d = c THEN s ELSE attached[d]
      /\ \A d \in Conn : first'[d] = IF d = c THEN "settled" ELSE first[d]
  BY <1>a DEF RelayInv, RelayTypeOK, TakeSlot, Admits, WithoutTimers
<1>c. \A d \in Conn : ready'[d] = IF d = host[s] /\ ready[d] = "open" THEN "closing" ELSE ready[d]
  <2>1. ready' = Closing({host[s]})
    BY DEF TakeSlot
  <2> QED
    BY <2>1, ClosingFacts DEF RelayInv
<1>d. \A d \in Conn : d # c => first'[d] = first[d] /\ attached'[d] = attached[d]
  BY <1>b
<1> HIDE DEF s, m
<1>1. RelayTypeOK'
  <2>1. ready' \in [Conn -> {"none", "verifying", "open", "closing", "closed"}]
    BY ClosingFacts, Zenon DEF RelayInv, TakeSlot
  <2>2. first' \in [Conn -> {"waiting", "verifying", "settled"}]
    BY DEF RelayInv, RelayTypeOK
  <2>3. /\ attached' \in [Conn -> Session \cup {None}]
        /\ host' \in [Session -> Conn \cup {None}]
        /\ hostId' \in [Session -> Subject \cup {None}]
    BY <1>a DEF RelayInv, RelayTypeOK, TakeSlot, s, m
  <2> QED
    BY <1>a, <1>b, <2>1, <2>2, <2>3 DEF RelayInv, RelayTypeOK
<1>2. Handshake'
  <2> SUFFICES ASSUME NEW d \in Conn PROVE Handshake!(d)'
    BY DEF Handshake
  <2>1. CASE d = c
    BY <1>a, <1>b, <1>c, <2>1, RelayConstants DEF RelayInv, Handshake, s
  <2>2. CASE d # c
    BY <1>b, <1>c, <2>2 DEF RelayInv, Handshake
  <2> QED
    BY <2>1, <2>2
<1>3. PlacesAttached'
  BY <1>a, <1>b, <1>c, RelayConstants DEF RelayInv, PlacesAttached, RelayTypeOK, Handshake, s, m
<1>4. GraceIffNoHost'
  BY <1>a, <1>b, <1>c, RelayConstants
      DEF RelayInv, GraceIffNoHost, RelayTypeOK, PlacesAttached, s, m
<1>5. NoneCutOff'
  BY <1>a, <1>b, <1>c, RelayConstants
      DEF RelayInv, NoneCutOff, RelayTypeOK, Handshake, PlacesAttached, s, m
<1>6. MembersLive'
  BY <1>a, <1>b, <1>c, RelayConstants
      DEF RelayInv, MembersLive, RelayTypeOK, Handshake, PlacesAttached, s, m
<1>7. HostIsOwner'
  BY <1>a, <1>b, <1>c, RelayConstants
      DEF RelayInv, HostIsOwner, RelayTypeOK, Handshake, PlacesAttached, s, m
<1>8. NoneLeavesUnheard'
  <2> SUFFICES ASSUME NEW t \in registered', NEW h \in Hosting(t)', NEW n \in Subject,
                      heard'[h][n] = "frame"
               PROVE  \E d \in members'[t] : claims'[d].sub = n
    BY Zenon DEF NoneLeavesUnheard
  <2>1. h \in Conn /\ h = host'[t] /\ ready'[h] = "open" /\ t \in Session
    BY <1>a, <1>b DEF Hosting, RelayInv, RelayTypeOK
  <2>2. t # s
    <3>1. CASE t = s
      <4>1. heard'[c][n] = "nothing"
        BY <1>a DEF Silence
      <4> QED
        BY <1>b, <2>1, <3>1, <4>1
    <3> QED
      BY <3>1
  <2>3. t \in registered /\ h \in Hosting(t)
    BY <1>b, <1>c, <2>1, <2>2 DEF Hosting, RelayInv, RelayTypeOK
  <2>4. heard[h][n] = "frame" /\ claims' = claims /\ members' = members
    OBVIOUS
  <2>5. NoneLeavesUnheard
    BY DEF RelayInv
  <2>6. \E d \in members[t] : claims[d].sub = n
    BY <2>3, <2>4, <2>5 DEF NoneLeavesUnheard
  <2> QED
    BY <2>4, <2>6
<1> QED
  BY <1>1, <1>2, <1>3, <1>4, <1>5, <1>6, <1>7, <1>8 DEF RelayInv

\* A first frame that is not accepted closes the socket
LEMMA RefusedStep ==
    ASSUME RelayInv, NEW c \in Conn, ready[c] \notin {"none", "verifying"},
           first' = [first EXCEPT ![c] = "settled"], ready' = Closing({c}),
           UNCHANGED <<accepting, claims, attached, registry, heard>>
    PROVE  RelayInv'
<1>a. \A d \in Conn : first'[d] = IF d = c THEN "settled" ELSE first[d]
  BY DEF RelayInv, RelayTypeOK
<1>b. \A d \in Conn : ready'[d] = IF d = c /\ ready[d] = "open" THEN "closing" ELSE ready[d]
  BY ClosingFacts DEF RelayInv
<1>1. RelayTypeOK'
  <2>1. ready' \in [Conn -> {"none", "verifying", "open", "closing", "closed"}]
    BY ClosingFacts DEF RelayInv
  <2> QED
    BY <2>1 DEF RelayInv, RelayTypeOK, registry
<1>2. Handshake'
  BY <1>a, <1>b DEF RelayInv, Handshake
<1>3. PlacesAttached' /\ GraceIffNoHost' /\ HostIsOwner'
  BY DEF RelayInv, PlacesAttached, GraceIffNoHost, HostIsOwner, registry
<1>4. NoneCutOff'
  BY <1>b DEF RelayInv, NoneCutOff, registry
<1>5. MembersLive'
  <2> SUFFICES ASSUME NEW s \in Session, NEW d \in members[s]
               PROVE  ready'[d] \in {"open", "closing"}
    BY DEF MembersLive, registry
  <2> QED
    BY <1>b DEF RelayInv, RelayTypeOK, MembersLive
<1>6. NoneLeavesUnheard'
  <2>1. ASSUME NEW s \in Session, NEW h \in Hosting(s)' PROVE h \in Hosting(s)
    <3>1. h = host[s] /\ h # None /\ ready'[h] = "open"
      BY DEF Hosting, registry
    <3>2. h \in Conn
      BY <3>1 DEF RelayInv, RelayTypeOK
    <3>3. ready[h] = "open"
      BY <1>b, <3>1, <3>2
    <3> QED
      BY <3>1, <3>3 DEF Hosting
  <2> QED
    BY <2>1 DEF RelayInv, RelayTypeOK, NoneLeavesUnheard, registry
<1> QED
  BY <1>1, <1>2, <1>3, <1>4, <1>5, <1>6 DEF RelayInv

\* A member that a session takes in
LEMMA JoinedStep ==
    ASSUME RelayInv, NEW c \in Conn, FirstFrame(c), claims[c].role = "member",
           Joinable(claims[c].aud),
           first' = [first EXCEPT ![c] = "settled"],
           members' = [members EXCEPT ![claims[c].aud] = @ \cup {c}],
           attached' = [attached EXCEPT ![c] = claims[c].aud],
           \/ (heard' = Told(Hosting(claims[c].aud), claims[c].sub, "frame") /\ UNCHANGED ready)
           \/ (ready' = Closing({c}) /\ UNCHANGED heard),
           UNCHANGED <<accepting, claims, registered, host, hostId, grace>>
    PROVE  RelayInv'
<1> DEFINE s == claims[c].aud
           m == claims[c].sub
<1>a. /\ s \in Session /\ m \in Subject /\ s \in registered
      /\ attached[c] = None /\ ready[c] = "open"
  BY DEF RelayInv, RelayTypeOK, Handshake, Claims, FirstFrame, Joinable
<1>b. /\ \A d \in Conn : first'[d] = IF d = c THEN "settled" ELSE first[d]
      /\ \A d \in Conn : attached'[d] = IF d = c THEN s ELSE attached[d]
      /\ members'[s] = members[s] \cup {c}
      /\ \A t \in Session : t # s => members'[t] = members[t]
  BY <1>a DEF RelayInv, RelayTypeOK
<1>c. /\ \A d \in Conn : ready'[d] = ready[d] \/ (d = c /\ ready'[d] = "closing")
      /\ ready' \in [Conn -> {"none", "verifying", "open", "closing", "closed"}]
  BY <1>a, ClosingFacts DEF RelayInv, RelayTypeOK
<1>d. /\ heard' \in [Conn -> [Subject -> {"nothing", "frame", "left"}]]
      /\ \A d \in Conn : d \notin Hosting(s) => heard'[d] = heard[d]
      /\ \A d \in Conn, n \in Subject : n # m => heard'[d][n] = heard[d][n]
  <2>1. CASE heard' = Told(Hosting(s), m, "frame")
    <3>1. \A d \in Conn, n \in Subject : n # m => heard'[d][n] = heard[d][n]
      BY <1>a, <2>1, ToldFacts DEF RelayInv
    <3> QED
      BY <1>a, <2>1, <3>1, ToldFacts DEF RelayInv
  <2>2. CASE heard' = heard
    BY <2>2 DEF RelayInv, RelayTypeOK
  <2> QED
    BY <2>1, <2>2
<1>e. \A t \in Session : \A h \in Hosting(t) : h \in Conn /\ h # c /\ h = host[t] /\ attached[h] = t
  BY <1>a, RelayConstants DEF Hosting, RelayInv, RelayTypeOK, PlacesAttached
<1> HIDE DEF s, m
<1>1. RelayTypeOK'
  <2>1. /\ first' \in [Conn -> {"waiting", "verifying", "settled"}]
        /\ attached' \in [Conn -> Session \cup {None}]
        /\ members' \in [Session -> SUBSET Conn]
    BY <1>a DEF RelayInv, RelayTypeOK, s
  <2> QED
    BY <1>c, <1>d, <2>1 DEF RelayInv, RelayTypeOK
<1>2. Handshake'
  <2> SUFFICES ASSUME NEW d \in Conn PROVE Handshake!(d)'
    BY DEF Handshake
  <2>1. CASE d = c
    BY <1>a, <1>b, <1>c, <2>1, RelayConstants DEF RelayInv, Handshake, s
  <2>2. CASE d # c
    <3>1. attached[d] = None => heard'[d] = heard[d]
      BY <1>a, <1>d, <1>e, RelayConstants
    <3> QED
      BY <1>b, <1>c, <2>2, <3>1 DEF RelayInv, Handshake
  <2> QED
    BY <2>1, <2>2
<1>3. PlacesAttached'
  BY <1>a, <1>b, RelayConstants DEF RelayInv, PlacesAttached, RelayTypeOK, s
<1>4. GraceIffNoHost' /\ HostIsOwner'
  BY DEF RelayInv, GraceIffNoHost, HostIsOwner
<1>5. NoneCutOff'
  BY <1>a, <1>b, <1>c DEF RelayInv, NoneCutOff, RelayTypeOK
<1>6. MembersLive'
  BY <1>a, <1>b, <1>c DEF RelayInv, MembersLive, RelayTypeOK
<1>7. NoneLeavesUnheard'
  <2> SUFFICES ASSUME NEW t \in registered, NEW h \in Hosting(t)', NEW n \in Subject,
                      heard'[h][n] = "frame"
               PROVE  \E d \in members'[t] : claims[d].sub = n
    BY DEF NoneLeavesUnheard
  <2>1. h \in Hosting(t) /\ t \in Session
    BY <1>a, <1>c, RelayConstants DEF Hosting, RelayInv, RelayTypeOK
  <2>2. CASE heard[h][n] = "frame"
    <3>1. PICK d \in members[t] : claims[d].sub = n
      BY <2>1, <2>2 DEF RelayInv, NoneLeavesUnheard
    <3> QED
      BY <1>b, <2>1, <3>1
  <2>3. CASE heard[h][n] # "frame"
    <3>1. n = m /\ t = s
      BY <1>a, <1>d, <1>e, <2>1, <2>3
    <3>2. c \in members'[t]
      BY <1>a, <1>b, <3>1
    <3>3. claims[c].sub = n
      BY <3>1 DEF m
    <3> QED
      BY <3>2, <3>3, Zenon
  <2> QED
    BY <2>2, <2>3
<1> QED
  BY <1>1, <1>2, <1>3, <1>4, <1>5, <1>6, <1>7 DEF RelayInv

\* A member's later frames
LEMMA MemberFrameStep == ASSUME RelayInv, NEW c \in Conn, MemberFrame(c) PROVE RelayInv'
<1> DEFINE s == attached[c]
           m == claims[c].sub
<1>a. /\ s \in registered /\ s \in Session /\ m \in Subject /\ c \in members[s]
      /\ heard' = Told(Hosting(s), m, "frame")
      /\ UNCHANGED <<sockets, attached, registry>>
  <2>1. claims[c] \in Claims
    BY DEF RelayInv, RelayTypeOK, Handshake, MemberFrame
  <2> QED
    BY <2>1 DEF RelayInv, RelayTypeOK, MemberFrame, Claims
<1>b. /\ heard' \in [Conn -> [Subject -> {"nothing", "frame", "left"}]]
      /\ \A d \in Conn : d \notin Hosting(s) => heard'[d] = heard[d]
      /\ \A d \in Conn, n \in Subject : n # m => heard'[d][n] = heard[d][n]
  <2>1. \A d \in Conn, n \in Subject : n # m => heard'[d][n] = heard[d][n]
    BY <1>a, ToldFacts DEF RelayInv
  <2> QED
    BY <1>a, <2>1, ToldFacts DEF RelayInv
<1>c. \A t \in Session : \A h \in Hosting(t) : h \in Conn /\ h = host[t] /\ attached[h] = t
  BY RelayConstants DEF Hosting, RelayInv, RelayTypeOK, PlacesAttached
<1> HIDE DEF s, m
<1>1. RelayTypeOK'
  BY <1>a, <1>b DEF RelayInv, RelayTypeOK, sockets, registry
<1>2. Handshake'
  BY <1>a, <1>b, <1>c, RelayConstants DEF RelayInv, Handshake, sockets
<1>3. PlacesAttached' /\ GraceIffNoHost' /\ HostIsOwner' /\ NoneCutOff' /\ MembersLive'
  BY <1>a DEF RelayInv, PlacesAttached, GraceIffNoHost, HostIsOwner, NoneCutOff, MembersLive,
     sockets, registry
<1>4. NoneLeavesUnheard'
  <2> SUFFICES ASSUME NEW t \in registered, NEW h \in Hosting(t), NEW n \in Subject,
                      heard'[h][n] = "frame"
               PROVE  \E d \in members[t] : claims[d].sub = n
    BY <1>a DEF NoneLeavesUnheard, Hosting, sockets, registry
  <2>1. CASE heard[h][n] = "frame"
    BY <2>1 DEF RelayInv, NoneLeavesUnheard
  <2>2. CASE heard[h][n] # "frame"
    <3>1. n = m /\ t = s
      BY <1>a, <1>b, <1>c, <2>2 DEF RelayInv, RelayTypeOK
    <3> QED
      BY <1>a, <3>1 DEF m
  <2> QED
    BY <2>1, <2>2
<1> QED
  BY <1>1, <1>2, <1>3, <1>4 DEF RelayInv

\* What the close event of a socket does to the places it held: the host slot it held is
\* empty and has its timer, the member it stood for is forgotten, nothing else changes
LEMMA CloseEventFacts ==
    ASSUME RelayInv, NEW c \in Conn, CloseEvent(c)
    PROVE  /\ ready' = [ready EXCEPT ![c] = "closed"] /\ ready[c] = "closing"
           /\ host' \in [Session -> Conn \cup {None}]
           /\ \A t \in Session : host'[t] = IF host[t] = c THEN None ELSE host[t]
           /\ members' \in [Session -> SUBSET Conn]
           /\ \A t \in Session : members'[t] = members[t] \ {c}
           /\ \A t \in registered : t \in grace' <=> (t \in grace \/ host[t] = c)
           /\ grace' \subseteq registered
           /\ UNCHANGED <<accepting, claims, first, attached, registered, hostId>>
<1> DEFINE s == attached[c]
<1>1. \A t \in Session : t # s => host[t] # c /\ c \notin members[t]
  BY RelayConstants DEF RelayInv, RelayTypeOK, PlacesAttached
<1>2. CASE s \in registered /\ host[s] = c
  <2>1. /\ host' = [host EXCEPT ![s] = None] /\ grace' = grace \cup {s}
        /\ members' = members /\ s \in Session
    BY <1>2 DEF CloseEvent, Detach, RelayInv, RelayTypeOK
  <2>2. \A t \in Session : c \notin members[t]
    BY <1>2, RelayConstants DEF RelayInv, RelayTypeOK, PlacesAttached
  <2>3. \A t \in Session : members'[t] = members[t] \ {c}
    BY <2>1, <2>2 DEF RelayInv, RelayTypeOK
  <2> HIDE DEF s
  <2> QED
    BY <1>1, <1>2, <2>1, <2>3 DEF CloseEvent, RelayInv, RelayTypeOK
<1>3. CASE s \in registered /\ host[s] # c
  <2>1. /\ members' = [members EXCEPT ![s] = @ \ {c}] /\ s \in Session
        /\ host' = host /\ grace' = grace
    BY <1>3 DEF CloseEvent, Detach, RelayInv, RelayTypeOK
  <2> HIDE DEF s
  <2>2. \A t \in Session : members'[t] = members[t] \ {c}
    <3>1. \A t \in Session : t # s => members'[t] = members[t]
      BY <2>1 DEF RelayInv, RelayTypeOK
    <3>2. members'[s] = members[s] \ {c}
      BY <2>1 DEF RelayInv, RelayTypeOK
    <3> QED
      BY <1>1, <3>1, <3>2
  <2>3. members' \in [Session -> SUBSET Conn]
    BY <2>1 DEF RelayInv, RelayTypeOK
  <2> QED
    BY <1>1, <1>3, <2>1, <2>2, <2>3 DEF CloseEvent, RelayInv, RelayTypeOK
<1>4. CASE s \notin registered
  <2>1. UNCHANGED <<host, members, grace>>
    BY <1>4 DEF CloseEvent
  <2>2. \A t \in Session : host[t] # c /\ c \notin members[t]
    BY <1>4, RelayConstants DEF RelayInv, RelayTypeOK, PlacesAttached
  <2>3. \A t \in Session : members'[t] = members[t] \ {c}
    BY <2>1, <2>2 DEF RelayInv, RelayTypeOK
  <2> QED
    BY <2>1, <2>2, <2>3 DEF CloseEvent, RelayInv, RelayTypeOK
<1> QED
  BY <1>2, <1>3, <1>4

\* What the host hears of it
LEMMA DepartureFacts ==
    ASSUME RelayInv, NEW c \in Conn, CloseEvent(c)
    PROVE  /\ heard' \in [Conn -> [Subject -> {"nothing", "frame", "left"}]]
           /\ heard'[c] = Silence
           /\ \A d \in Conn : d # c /\ attached[d] = None => heard'[d] = heard[d]
           /\ \A d \in Conn, n \in Subject : d # c /\ heard'[d][n] = "frame" =>
                  heard[d][n] = "frame"
           /\ \A t \in registered : c \in members[t] =>
                \A h \in Hosting(t) : heard'[h][claims[c].sub] # "frame"
<1> DEFINE s == attached[c]
           m == claims[c].sub
<1>1. Silence \in [Subject -> {"nothing", "frame", "left"}]
  BY DEF Silence
<1>2. CASE s \in registered /\ c \in members[s]
  <2>1. heard' = [Told(Hosting(s), m, "left") EXCEPT ![c] = Silence]
    BY <1>2 DEF CloseEvent, Departure
  <2>2. m \in Subject
    <3>1. claims[c] \in Claims
      BY DEF CloseEvent, RelayInv, RelayTypeOK, Handshake
    <3> QED
      BY <3>1 DEF Claims
  <2>3. \A h \in Hosting(s) : h \in Conn /\ h # c /\ attached[h] = s /\ s # None
    BY <1>2, RelayConstants DEF CloseEvent, Hosting, RelayInv, RelayTypeOK, PlacesAttached
  <2>4. \A t \in registered : c \in members[t] => t = s
    BY DEF RelayInv, RelayTypeOK, PlacesAttached
  <2> HIDE DEF s, m
  <2>5. /\ Told(Hosting(s), m, "left") \in [Conn -> [Subject -> {"nothing", "frame", "left"}]]
        /\ \A d \in Conn : d \notin Hosting(s) => Told(Hosting(s), m, "left")[d] = heard[d]
        /\ \A d \in Hosting(s) \cap Conn : \A n \in Subject :
              Told(Hosting(s), m, "left")[d][n] = IF n = m THEN "left" ELSE heard[d][n]
    BY <2>2, ToldFacts DEF RelayInv
  <2>6. /\ heard' \in [Conn -> [Subject -> {"nothing", "frame", "left"}]]
        /\ heard'[c] = Silence
        /\ \A d \in Conn : d # c => heard'[d] = Told(Hosting(s), m, "left")[d]
    BY <1>1, <2>1, <2>5
  <2>7. \A h \in Hosting(s) : heard'[h][m] = "left"
    BY <2>2, <2>3, <2>5, <2>6
  <2>8. \A d \in Conn, n \in Subject : d # c /\ heard'[d][n] = "frame" => heard[d][n] = "frame"
    BY <2>5, <2>6
  <2>9. \A d \in Conn : d # c /\ attached[d] = None => heard'[d] = heard[d]
    BY <2>3, <2>5, <2>6
  <2> QED
    BY <2>4, <2>6, <2>7, <2>8, <2>9 DEF m
<1>3. CASE ~(s \in registered /\ c \in members[s])
  <2>1. heard' = [heard EXCEPT ![c] = Silence]
    BY <1>3 DEF CloseEvent, Departure
  <2>2. \A t \in registered : c \notin members[t]
    BY <1>3 DEF RelayInv, RelayTypeOK, PlacesAttached
  <2> QED
    BY <1>1, <2>1, <2>2 DEF RelayInv, RelayTypeOK
<1> QED
  BY <1>2, <1>3

\* The close event of a socket
LEMMA CloseEventStep == ASSUME RelayInv, NEW c \in Conn, CloseEvent(c) PROVE RelayInv'
<1>a. /\ \A d \in Conn : ready'[d] = IF d = c THEN "closed" ELSE ready[d]
      /\ ready' \in [Conn -> {"none", "verifying", "open", "closing", "closed"}]
      /\ ready[c] = "closing"
  BY CloseEventFacts DEF RelayInv, RelayTypeOK
<1>b. /\ host' \in [Session -> Conn \cup {None}]
      /\ \A t \in Session : host'[t] = IF host[t] = c THEN None ELSE host[t]
      /\ members' \in [Session -> SUBSET Conn]
      /\ \A t \in Session : members'[t] = members[t] \ {c}
  BY CloseEventFacts
<1>c. /\ \A t \in registered : t \in grace' <=> (t \in grace \/ host[t] = c)
      /\ grace' \subseteq registered
      /\ UNCHANGED <<accepting, claims, first, attached, registered, hostId>>
  BY CloseEventFacts
<1>d. /\ heard' \in [Conn -> [Subject -> {"nothing", "frame", "left"}]]
      /\ heard'[c] = Silence
      /\ \A d \in Conn : d # c /\ attached[d] = None => heard'[d] = heard[d]
      /\ \A d \in Conn, n \in Subject : d # c /\ heard'[d][n] = "frame" => heard[d][n] = "frame"
      /\ \A t \in registered : c \in members[t] =>
           \A h \in Hosting(t) : heard'[h][claims[c].sub] # "frame"
  BY DepartureFacts
<1>1. RelayTypeOK'
  BY <1>a, <1>b, <1>c, <1>d DEF RelayInv, RelayTypeOK
<1>2. Handshake'
  <2> SUFFICES ASSUME NEW d \in Conn PROVE Handshake!(d)'
    BY DEF Handshake
  <2>1. CASE d = c
    BY <1>a, <1>c, <1>d, <2>1 DEF RelayInv, Handshake
  <2>2. CASE d # c
    BY <1>a, <1>c, <1>d, <2>2 DEF RelayInv, Handshake
  <2> QED
    BY <2>1, <2>2
<1>3. PlacesAttached'
  BY <1>b, <1>c, RelayConstants DEF RelayInv, PlacesAttached
<1>4. GraceIffNoHost'
  BY <1>b, <1>c, RelayConstants DEF RelayInv, RelayTypeOK, GraceIffNoHost
<1>5. NoneCutOff'
  <2> SUFFICES ASSUME NEW d \in Conn, ready'[d] = "open", attached[d] # None
               PROVE  /\ attached[d] \in registered
                      /\ d = host'[attached[d]] \/ d \in members'[attached[d]]
    BY <1>c DEF NoneCutOff
  <2>1. d # c /\ ready[d] = "open" /\ attached[d] \in Session
    BY <1>a DEF RelayInv, RelayTypeOK
  <2> QED
    BY <1>b, <2>1 DEF RelayInv, NoneCutOff
<1>6. MembersLive'
  <2> SUFFICES ASSUME NEW t \in Session, NEW d \in members[t], d # c
               PROVE  ready'[d] \in {"open", "closing"}
    BY <1>b DEF MembersLive
  <2> QED
    BY <1>a DEF RelayInv, RelayTypeOK, MembersLive
<1>7. HostIsOwner'
  BY <1>b, <1>c, RelayConstants DEF RelayInv, RelayTypeOK, HostIsOwner
<1>8. NoneLeavesUnheard'
  <2> SUFFICES ASSUME NEW t \in registered, NEW h \in Hosting(t)', NEW n \in Subject,
                      heard'[h][n] = "frame"
               PROVE  \E d \in members'[t] : claims[d].sub = n
    BY <1>c DEF NoneLeavesUnheard
  <2>1. t \in Session /\ h \in Hosting(t) /\ h \in Conn /\ h # c
    BY <1>a, <1>b, RelayConstants DEF Hosting, RelayInv, RelayTypeOK
  <2>2. PICK d \in members[t] : claims[d].sub = n
    BY <1>d, <2>1 DEF RelayInv, NoneLeavesUnheard
  <2>3. d # c
    BY <1>d, <2>1, <2>2
  <2> QED
    BY <1>b, <2>1, <2>2, <2>3
<1> QED
  BY <1>1, <1>2, <1>3, <1>4, <1>5, <1>6, <1>7, <1>8 DEF RelayInv

\* The upgrade of a connection that did not exist before
LEMMA UpgradeStep ==
    ASSUME RelayInv, NEW c \in Conn, NEW role \in {"host", "member"}, NEW s \in Session,
           NEW m \in Subject, Upgrade(c, role, s, m)
    PROVE  RelayInv'
<1>a. /\ ready[c] = "none" /\ first[c] = "waiting" /\ attached[c] = None
      /\ ready'[c] \in {"open", "verifying"} /\ claims'[c] \in Claims
      /\ \A d \in Conn : d # c => ready'[d] = ready[d] /\ claims'[d] = claims[d]
      /\ UNCHANGED <<accepting, first, attached, registered, host, hostId, members, grace, heard>>
  BY RelayConstants DEF Upgrade, Claims, RelayInv, RelayTypeOK, Handshake, registry
<1>b. \A t \in Session : host[t] # c /\ c \notin members[t]
  BY <1>a, RelayConstants DEF RelayInv, RelayTypeOK, PlacesAttached
<1>1. RelayTypeOK'
  BY DEF Upgrade, Claims, RelayInv, RelayTypeOK, registry
<1>2. Handshake'
  <2> SUFFICES ASSUME NEW d \in Conn PROVE Handshake!(d)'
    BY DEF Handshake
  <2>1. CASE d = c
    BY <1>a, <2>1 DEF RelayInv, Handshake
  <2>2. CASE d # c
    BY <1>a, <2>2 DEF RelayInv, Handshake
  <2> QED
    BY <2>1, <2>2
<1>3. PlacesAttached'
  BY <1>a, <1>b, RelayConstants DEF RelayInv, RelayTypeOK, PlacesAttached
<1>4. GraceIffNoHost' /\ HostIsOwner'
  BY <1>a, <1>b DEF RelayInv, RelayTypeOK, GraceIffNoHost, HostIsOwner
<1>5. NoneCutOff'
  BY <1>a DEF RelayInv, NoneCutOff
<1>6. MembersLive'
  BY <1>a, <1>b DEF RelayInv, RelayTypeOK, MembersLive
<1>7. NoneLeavesUnheard'
  <2>1. \A t \in registered : Hosting(t)' = Hosting(t)
    BY <1>a, <1>b DEF RelayInv, RelayTypeOK, Hosting
  <2>2. \A t \in registered : \A d \in members[t] : claims'[d] = claims[d]
    BY <1>a, <1>b DEF RelayInv, RelayTypeOK
  <2> QED
    BY <1>a, <2>1, <2>2 DEF RelayInv, NoneLeavesUnheard
<1> QED
  BY <1>1, <1>2, <1>3, <1>4, <1>5, <1>6, <1>7 DEF RelayInv

\* The check of a token on the upgrade settles
LEMMA VerifiedStep == ASSUME RelayInv, NEW c \in Conn, Verified(c) PROVE RelayInv'
<1>a. /\ ready[c] = "verifying" /\ attached[c] = None /\ ready'[c] \in {"open", "closed"}
      /\ \A d \in Conn : d # c => ready'[d] = ready[d]
      /\ UNCHANGED <<accepting, claims, first, attached, registered, host, hostId, members,
                     grace, heard>>
  BY DEF Verified, RelayInv, RelayTypeOK, Handshake, registry
<1>b. \A t \in Session : host[t] # c /\ c \notin members[t]
  BY <1>a, RelayConstants DEF RelayInv, RelayTypeOK, PlacesAttached
<1>1. RelayTypeOK'
  BY DEF Verified, RelayInv, RelayTypeOK, registry
<1>2. Handshake'
  BY <1>a DEF RelayInv, Handshake
<1>3. PlacesAttached' /\ GraceIffNoHost' /\ HostIsOwner'
  BY <1>a DEF RelayInv, PlacesAttached, GraceIffNoHost, HostIsOwner
<1>4. NoneCutOff'
  BY <1>a DEF RelayInv, NoneCutOff
<1>5. MembersLive'
  BY <1>a, <1>b DEF RelayInv, RelayTypeOK, MembersLive
<1>6. NoneLeavesUnheard'
  <2>1. \A t \in registered : Hosting(t)' = Hosting(t)
    BY <1>a, <1>b DEF RelayInv, RelayTypeOK, Hosting
  <2> QED
    BY <1>a, <2>1 DEF RelayInv, NoneLeavesUnheard
<1> QED
  BY <1>1, <1>2, <1>3, <1>4, <1>5, <1>6 DEF RelayInv

\* A socket starts to close
LEMMA SocketClosesStep == ASSUME RelayInv, NEW c \in Conn, SocketCloses(c) PROVE RelayInv'
<1>a. /\ ready[c] = "open" /\ ready'[c] = "closing"
      /\ \A d \in Conn : d # c => ready'[d] = ready[d]
      /\ ready' \in [Conn -> {"none", "verifying", "open", "closing", "closed"}]
      /\ UNCHANGED <<accepting, claims, first, attached, registered, host, hostId, members,
                     grace, heard>>
  BY ClosingFacts DEF SocketCloses, RelayInv, registry
<1>1. RelayTypeOK'
  BY <1>a DEF RelayInv, RelayTypeOK
<1>2. Handshake'
  BY <1>a DEF RelayInv, Handshake
<1>3. PlacesAttached' /\ GraceIffNoHost' /\ HostIsOwner'
  BY <1>a DEF RelayInv, PlacesAttached, GraceIffNoHost, HostIsOwner
<1>4. NoneCutOff'
  BY <1>a DEF RelayInv, NoneCutOff
<1>5. MembersLive'
  BY <1>a DEF RelayInv, RelayTypeOK, MembersLive
<1>6. NoneLeavesUnheard'
  <2>1. \A t \in registered : Hosting(t)' \subseteq Hosting(t)
    BY <1>a, RelayConstants DEF RelayInv, RelayTypeOK, Hosting
  <2> QED
    BY <1>a, <2>1 DEF RelayInv, NoneLeavesUnheard
<1> QED
  BY <1>1, <1>2, <1>3, <1>4, <1>5, <1>6 DEF RelayInv

\* Sessions are torn down
LEMMA CloseSessionsStep ==
    ASSUME RelayInv, NEW S, S \subseteq registered, CloseSessions(S), accepting' \in BOOLEAN
    PROVE  RelayInv'
<1> DEFINE gone == UNION {SocketsOf(s) : s \in S}
<1>a. /\ registered' = registered \ S /\ grace' = grace \ S
      /\ \A t \in registered' :
            host'[t] = host[t] /\ hostId'[t] = hostId[t] /\ members'[t] = members[t]
      /\ \A t \in Session : t \notin registered' => host'[t] = None /\ members'[t] = {}
      /\ UNCHANGED <<claims, first, attached, heard>>
  BY RelayConstants DEF CloseSessions, WithoutTimers, RelayInv, RelayTypeOK, PlacesAttached
<1>b. /\ ready' \in [Conn -> {"none", "verifying", "open", "closing", "closed"}]
      /\ \A d \in Conn : ready'[d] = ready[d] \/ (ready[d] = "open" /\ ready'[d] = "closing")
      /\ \A d \in Conn : ready'[d] = "open" => d \notin gone
  BY ClosingFacts DEF CloseSessions, RelayInv
<1>c. \A s \in S : \A d \in Conn : (d = host[s] \/ d \in members[s]) => d \in gone
  BY DEF SocketsOf
<1> HIDE DEF gone
<1>1. RelayTypeOK'
  BY <1>a, <1>b DEF CloseSessions, WithoutTimers, RelayInv, RelayTypeOK
<1>2. Handshake'
  BY <1>a, <1>b DEF RelayInv, Handshake
<1>3. PlacesAttached'
  BY <1>a, RelayConstants DEF RelayInv, PlacesAttached
<1>4. GraceIffNoHost' /\ HostIsOwner'
  BY <1>a DEF RelayInv, GraceIffNoHost, HostIsOwner
<1>5. NoneCutOff'
  BY <1>a, <1>b, <1>c DEF RelayInv, NoneCutOff
<1>6. MembersLive'
  <2> SUFFICES ASSUME NEW t \in Session, NEW d \in members'[t]
               PROVE  ready'[d] \in {"open", "closing"}
    BY DEF MembersLive
  <2>1. d \in members[t] /\ d \in Conn
    BY <1>a DEF RelayInv, RelayTypeOK
  <2> QED
    BY <1>b, <2>1 DEF RelayInv, MembersLive
<1>7. NoneLeavesUnheard'
  <2> SUFFICES ASSUME NEW t \in registered', NEW h \in Hosting(t)', NEW n \in Subject,
                      heard[h][n] = "frame"
               PROVE  \E d \in members'[t] : claims[d].sub = n
    BY <1>a DEF NoneLeavesUnheard
  <2>1. t \in registered /\ t \in Session
    BY <1>a DEF RelayInv, RelayTypeOK
  <2>2. h \in Hosting(t)
    BY <1>a, <1>b, <2>1 DEF RelayInv, RelayTypeOK, Hosting
  <2> QED
    BY <1>a, <2>1, <2>2 DEF RelayInv, NoneLeavesUnheard
<1> QED
  BY <1>1, <1>2, <1>3, <1>4, <1>5, <1>6, <1>7 DEF RelayInv

\* A relay that has just started
LEMMA InitHolds == Init => RelayInv
<1> SUFFICES ASSUME Init PROVE RelayInv
  OBVIOUS
<1>1. RelayTypeOK
  BY DEF Init, RelayTypeOK, Silence
<1>2. Handshake /\ PlacesAttached /\ MembersLive
  BY DEF Init, Handshake, PlacesAttached, MembersLive
<1>3. GraceIffNoHost /\ NoneCutOff /\ HostIsOwner /\ NoneLeavesUnheard
  BY DEF Init, GraceIffNoHost, NoneCutOff, HostIsOwner, NoneLeavesUnheard
<1> QED
  BY <1>1, <1>2, <1>3 DEF RelayInv

\* Either exit of register() preserves the invariant
LEMMA RegisterStep ==
    ASSUME RelayInv, NEW c \in Conn, Register(c), first[c] # "settled",
           ready[c] \notin {"none", "verifying"}, claims[c].role = "host"
    PROVE  RelayInv'
<1>1. CASE Admits(c) /\ TakeSlot(c, claims[c].aud)
  BY <1>1, TakeSlotStep DEF Register
<1>2. CASE ~(Admits(c) /\ TakeSlot(c, claims[c].aud))
  BY <1>2, RefusedStep DEF Register, registry
<1> QED
  BY <1>1, <1>2

\* A host's session-register, registered at once or left to be verified
LEMMA SessionRegisterStep == ASSUME RelayInv, NEW c \in Conn, SessionRegister(c) PROVE RelayInv'
<1>1. /\ first[c] = "waiting" /\ ready[c] = "open" /\ claims[c].role = "host"
  BY DEF SessionRegister, FirstFrame
<1>2. CASE ~claims[c].pending
  BY <1>1, <1>2, RegisterStep DEF SessionRegister
<1>3. CASE claims[c].pending
  <2>1. /\ first' = [first EXCEPT ![c] = "verifying"]
        /\ UNCHANGED <<accepting, ready, claims, attached, registered, host, hostId,
                       members, grace, heard>>
    BY <1>3 DEF SessionRegister, registry
  <2>2. RelayTypeOK' /\ Handshake'
    BY <1>1, <2>1 DEF RelayInv, RelayTypeOK, Handshake
  <2>3. PlacesAttached' /\ GraceIffNoHost' /\ NoneCutOff' /\ MembersLive' /\ HostIsOwner'
    BY <2>1 DEF RelayInv, PlacesAttached, GraceIffNoHost, NoneCutOff, MembersLive, HostIsOwner
  <2>4. NoneLeavesUnheard'
    BY <2>1 DEF RelayInv, NoneLeavesUnheard, Hosting
  <2> QED
    BY <2>2, <2>3, <2>4 DEF RelayInv
<1> QED
  BY <1>2, <1>3

\* The check of a new host's token settles
LEMMA BootstrapSettlesStep ==
    ASSUME RelayInv, NEW c \in Conn, BootstrapSettles(c) PROVE RelayInv'
<1>1. first[c] = "verifying" /\ ready[c] \notin {"none", "verifying"} /\ claims[c].role = "host"
  BY DEF BootstrapSettles, RelayInv, Handshake
<1>2. CASE Register(c)
  BY <1>1, <1>2, RegisterStep
<1>3. CASE ~Register(c)
  BY <1>1, <1>3, RefusedStep DEF BootstrapSettles
<1> QED
  BY <1>2, <1>3

\* A member's first frame
LEMMA MemberAttachesStep ==
    ASSUME RelayInv, NEW c \in Conn, MemberAttaches(c) PROVE RelayInv'
<1>1. CASE Joinable(claims[c].aud)
  BY <1>1, JoinedStep DEF MemberAttaches
<1>2. CASE ~Joinable(claims[c].aud)
  BY <1>2, RefusedStep DEF MemberAttaches, FirstFrame, registry
<1> QED
  BY <1>1, <1>2

\* The invariant only reads the variables of the specification
LEMMA Stutter == ASSUME RelayInv, UNCHANGED vars PROVE RelayInv'
  BY DEF vars, sockets, registry, RelayInv, RelayTypeOK, Handshake, PlacesAttached,
     GraceIffNoHost, NoneCutOff, MembersLive, HostIsOwner, NoneLeavesUnheard, Hosting

\* Every step preserves the invariant
LEMMA Inductive == RelayInv /\ [Next]_vars => RelayInv'
<1> SUFFICES ASSUME RelayInv, [Next]_vars PROVE RelayInv'
  OBVIOUS
<1>1. ASSUME NEW c \in Conn, NEW role \in {"host", "member"}, NEW s \in Session,
             NEW m \in Subject, Upgrade(c, role, s, m)
      PROVE  RelayInv'
  BY <1>1, UpgradeStep
<1>2. ASSUME NEW c \in Conn, Verified(c) \/ SessionRegister(c) \/ BootstrapSettles(c)
      PROVE  RelayInv'
  BY <1>2, VerifiedStep, SessionRegisterStep, BootstrapSettlesStep
<1>3. ASSUME NEW c \in Conn, BadFirstFrame(c)
      PROVE  RelayInv'
  BY <1>3, RefusedStep DEF BadFirstFrame, FirstFrame
<1>4. ASSUME NEW c \in Conn,
             MemberAttaches(c) \/ MemberFrame(c) \/ SocketCloses(c) \/ CloseEvent(c)
      PROVE  RelayInv'
  BY <1>4, MemberAttachesStep, MemberFrameStep, SocketClosesStep, CloseEventStep
<1>5. ASSUME NEW s \in Session, GraceExpires(s) \/ IdleReap(s)
      PROVE  RelayInv'
  <2>1. CloseSessions({s}) /\ {s} \subseteq registered /\ accepting' \in BOOLEAN
    BY <1>5 DEF GraceExpires, IdleReap, RelayInv, RelayTypeOK
  <2> QED
    BY <2>1, CloseSessionsStep
<1>6. CASE Shutdown
  <2>1. CloseSessions(registered) /\ accepting' \in BOOLEAN
    BY <1>6 DEF Shutdown
  <2> QED
    BY <2>1, CloseSessionsStep
<1>7. CASE UNCHANGED vars
  BY <1>7, Stutter
<1> QED
  BY <1>1, <1>2, <1>3, <1>4, <1>5, <1>6, <1>7 DEF Next

\* The inductive invariant holds for every number of connections, sessions and caps.
THEOREM Invariance == Spec => []RelayInv
<1> QED
  BY InitHolds, Inductive, PTL DEF Spec

\* Every variable of the relay keeps its type; a grace timer belongs to a registered session.
THEOREM TypeCorrect == Spec => []RelayTypeOK
<1>1. RelayInv => RelayTypeOK
  BY DEF RelayInv
<1> QED
  BY Invariance, <1>1, PTL

\* A grace timer runs exactly while its session has no host: neither a return of the host,
\* nor the late close event of a socket that lost its slot, leaves the two out of step.
THEOREM GraceCorrect == Spec => []GraceIffNoHost
<1>1. RelayInv => GraceIffNoHost
  BY DEF RelayInv
<1> QED
  BY Invariance, <1>1, PTL

\* Whatever closes a session or takes over a host slot, no open socket is left without a
\* place from which its frames are routed.
THEOREM NobodyCutOff == Spec => []NoneCutOff
<1>1. RelayInv => NoneCutOff
  BY DEF RelayInv
<1> QED
  BY Invariance, <1>1, PTL

\* A place under the member cap is only held by a socket whose close event is to come.
THEOREM PlacesFreed == Spec => []MembersLive
<1>1. RelayInv => MembersLive
  BY DEF RelayInv
<1> QED
  BY Invariance, <1>1, PTL

\* Concurrent registrations never hand a session's host slot to another identity.
THEOREM OwnerKeepsSlot == Spec => []HostIsOwner
<1>1. RelayInv => HostIsOwner
  BY DEF RelayInv
<1> QED
  BY Invariance, <1>1, PTL

\* The host has been told of every member it heard from that has no socket left.
THEOREM DeparturesHeard == Spec => []NoneLeavesUnheard
<1>1. RelayInv => NoneLeavesUnheard
  BY DEF RelayInv
<1> QED
  BY Invariance, <1>1, PTL

-----------------------------------------------------------------------------
(* The caps *)

\* Only finitely many sessions and members are counted, and within the caps
Counted ==
    /\ IsFiniteSet(registered) /\ Cardinality(registered) <= MaxSessions
    /\ \A s \in registered :
          IsFiniteSet(members[s]) /\ Cardinality(members[s]) <= MaxMembers

\* Adding to a set that is below a cap, or an element it has, keeps the cap
LEMMA CapKept ==
    ASSUME NEW S, NEW x, NEW cap \in Nat, IsFiniteSet(S),
           Cardinality(S) < cap \/ (x \in S /\ Cardinality(S) <= cap)
    PROVE  IsFiniteSet(S \cup {x}) /\ Cardinality(S \cup {x}) <= cap
<1>1. /\ IsFiniteSet(S \cup {x}) /\ Cardinality(S) \in Nat
      /\ Cardinality(S \cup {x}) = IF x \in S THEN Cardinality(S) ELSE Cardinality(S) + 1
  BY FS_AddElement, FS_CardinalityType
<1> QED
  BY <1>1

\* A part of a set that is within a cap is within it
LEMMA CapAfterRemoval ==
    ASSUME NEW S, NEW T, T \subseteq S, NEW cap \in Nat, IsFiniteSet(S), Cardinality(S) <= cap
    PROVE  IsFiniteSet(T) /\ Cardinality(T) <= cap
<1>1. IsFiniteSet(T) /\ Cardinality(T) <= Cardinality(S)
  BY FS_Subset
<1>2. Cardinality(T) \in Nat /\ Cardinality(S) \in Nat
  BY <1>1, FS_CardinalityType
<1> QED
  BY <1>1, <1>2

\* Only register() and attachMember() add to what is counted, and both look at the count
\* in the turn in which they add.
LEMMA StaysCounted == RelayInv /\ RelayInv' /\ Counted /\ [Next]_vars => Counted'
<1> SUFFICES ASSUME RelayInv, RelayInv', Counted, [Next]_vars PROVE Counted'
  OBVIOUS
<1>0. MaxSessions \in Nat /\ MaxMembers \in Nat
  BY RelayConstants
<1>1. ASSUME registered' \subseteq registered,
             \A s \in registered' : members'[s] \subseteq members[s]
      PROVE  Counted'
  BY <1>0, <1>1, CapAfterRemoval DEF Counted
<1>2. ASSUME NEW c \in Conn, Register(c) PROVE Counted'
  <2> DEFINE t == claims[c].aud
  <2>1. CASE Admits(c) /\ TakeSlot(c, t)
    <3>1. registered' = registered \cup {t} /\ members' = members
      BY <1>2, <2>1 DEF TakeSlot, Register
    <3>2. IsFiniteSet(registered') /\ Cardinality(registered') <= MaxSessions
      <4>1. t \in registered \/ Cardinality(registered) < MaxSessions
        BY <2>1 DEF Admits
      <4> HIDE DEF t
      <4> QED
        BY <1>0, <3>1, <4>1, CapKept DEF Counted
    <3>3. ASSUME NEW s \in registered'
          PROVE  IsFiniteSet(members[s]) /\ Cardinality(members[s]) <= MaxMembers
      <4>1. CASE s \in registered
        BY <4>1 DEF Counted
      <4>2. CASE s \notin registered
        <5>1. members[s] = {}
          BY <4>2 DEF RelayInv, RelayTypeOK, PlacesAttached
        <5> QED
          BY <1>0, <5>1, FS_EmptySet
      <4> QED
        BY <4>1, <4>2
    <3> QED
      BY <3>1, <3>2, <3>3 DEF Counted
  <2>2. CASE ~(Admits(c) /\ TakeSlot(c, t))
    BY <1>1, <1>2, <2>2 DEF Register
  <2> QED
    BY <2>1, <2>2
<1>3. ASSUME NEW c \in Conn, MemberAttaches(c) PROVE Counted'
  <2> DEFINE t == claims[c].aud
  <2>1. CASE Joinable(t)
    <3>1. /\ registered' = registered /\ t \in registered /\ Cardinality(members[t]) < MaxMembers
          /\ members' = [members EXCEPT ![t] = @ \cup {c}]
      BY <1>3, <2>1 DEF MemberAttaches, Joinable
    <3> HIDE DEF t
    <3>2. /\ members'[t] = members[t] \cup {c}
          /\ \A s \in registered : s # t => members'[s] = members[s]
      BY <3>1 DEF RelayInv, RelayTypeOK
    <3>3. IsFiniteSet(members'[t]) /\ Cardinality(members'[t]) <= MaxMembers
      <4>1. IsFiniteSet(members[t])
        BY <3>1 DEF Counted
      <4>2. /\ IsFiniteSet(members[t] \cup {c})
            /\ Cardinality(members[t] \cup {c}) <= MaxMembers
        BY <1>0, <3>1, <4>1, CapKept
      <4> QED
        BY <3>2, <4>2
    <3> QED
      BY <3>1, <3>2, <3>3 DEF Counted
  <2>2. CASE ~Joinable(t)
    BY <1>1, <1>3, <2>2 DEF MemberAttaches
  <2> QED
    BY <2>1, <2>2
<1>4. ASSUME NEW c \in Conn, CloseEvent(c) PROVE Counted'
  <2>1. registered' = registered /\ \A s \in registered : members'[s] \subseteq members[s]
    BY <1>4, CloseEventFacts DEF RelayInv, RelayTypeOK
  <2> QED
    BY <1>1, <2>1
<1>5. ASSUME NEW S, CloseSessions(S) PROVE Counted'
  <2>1. registered' = registered \ S /\ \A s \in registered' : members'[s] = members[s]
    BY <1>5 DEF CloseSessions, RelayInv, RelayTypeOK
  <2> QED
    BY <1>1, <2>1
<1>6. ASSUME UNCHANGED <<registered, members>> PROVE Counted'
  BY <1>6 DEF Counted
<1>7. ASSUME NEW c \in Conn, SessionRegister(c) \/ BootstrapSettles(c) PROVE Counted'
  BY <1>2, <1>6, <1>7 DEF SessionRegister, BootstrapSettles, registry
<1>8. ASSUME NEW c \in Conn,
             \/ \E role \in {"host", "member"}, s \in Session, m \in Subject :
                   Upgrade(c, role, s, m)
             \/ Verified(c) \/ BadFirstFrame(c) \/ MemberFrame(c) \/ SocketCloses(c)
      PROVE  Counted'
  BY <1>6, <1>8 DEF Upgrade, Verified, BadFirstFrame, MemberFrame, SocketCloses, registry
<1>9. CASE UNCHANGED vars
  BY <1>6, <1>9 DEF vars, registry
<1> QED
  BY <1>3, <1>4, <1>5, <1>7, <1>8, <1>9 DEF Next, GraceExpires, IdleReap, Shutdown

\* Tokens that are verified at the same time do not exceed the caps: the count is taken
\* when a session or a member is added, not when its check began.
THEOREM CapsHold == Spec => []WithinCaps
<1>1. Init => Counted
  BY RelayConstants, FS_EmptySet DEF Init, Counted
<1>2. Counted /\ RelayInv => WithinCaps
  <2> SUFFICES ASSUME Counted, RelayInv PROVE WithinCaps
    OBVIOUS
  <2> QED
    BY DEF Counted, WithinCaps
<1> QED
  BY <1>1, <1>2, StaysCounted, Invariance, PTL DEF Spec

-----------------------------------------------------------------------------
(* Queues *)

\* What a queue holds, by position and as a set
LEMMA InQueue ==
    ASSUME NEW S, NEW q \in Seq(S)
    PROVE  /\ DOMAIN q = 1..Len(q) /\ Len(q) \in Nat
           /\ \A k \in DOMAIN q : q[k] \in S /\ q[k] \in ToSet(q)
           /\ ToSet(q) \subseteq S
           /\ \A x : x \in ToSet(q) <=> \E k \in DOMAIN q : x = q[k]
  BY DEF ToSet

\* A frame at the end of a queue
LEMMA Appended ==
    ASSUME NEW S, NEW q \in Seq(S), NEW e \in S
    PROVE  /\ Append(q, e) \in Seq(S)
           /\ Len(Append(q, e)) = Len(q) + 1
           /\ DOMAIN Append(q, e) = 1..Len(q) + 1
           /\ \A k \in 1..Len(q) : Append(q, e)[k] = q[k]
           /\ Append(q, e)[Len(q) + 1] = e
           /\ ToSet(Append(q, e)) = ToSet(q) \cup {e}
<1>1. /\ Append(q, e) \in Seq(S)
      /\ Len(Append(q, e)) = Len(q) + 1
      /\ DOMAIN Append(q, e) = 1..Len(q) + 1
      /\ \A k \in 1..Len(q) : Append(q, e)[k] = q[k]
      /\ Append(q, e)[Len(q) + 1] = e
  OBVIOUS
<1>2. DOMAIN q = 1..Len(q) /\ Len(q) \in Nat
  OBVIOUS
<1>3. 1..Len(q) + 1 = 1..Len(q) \cup {Len(q) + 1}
  BY <1>2
<1>4. QED
  BY <1>1, <1>2, <1>3 DEF ToSet

\* The first frame is taken from a queue
LEMMA Taken ==
    ASSUME NEW S, NEW q \in Seq(S), q # <<>>
    PROVE  /\ Tail(q) \in Seq(S)
           /\ Len(Tail(q)) = Len(q) - 1 /\ Len(q) \in Nat \ {0}
           /\ DOMAIN Tail(q) = 1..Len(q) - 1 /\ DOMAIN q = 1..Len(q)
           /\ \A k \in 1..Len(q) - 1 : Tail(q)[k] = q[k + 1]
           /\ Head(q) = q[1] /\ Head(q) \in S /\ Head(q) \in ToSet(q)
           /\ ToSet(q) = {Head(q)} \cup ToSet(Tail(q))
<1>1. /\ Tail(q) \in Seq(S)
      /\ Len(Tail(q)) = Len(q) - 1 /\ Len(q) \in Nat \ {0}
      /\ DOMAIN Tail(q) = 1..Len(q) - 1 /\ DOMAIN q = 1..Len(q)
      /\ \A k \in 1..Len(q) - 1 : Tail(q)[k] = q[k + 1]
      /\ Head(q) = q[1] /\ Head(q) \in S
  OBVIOUS
<1>2. Head(q) \in ToSet(q)
  BY <1>1 DEF ToSet
<1>3. \A k \in 1..Len(q) : k = 1 \/ k - 1 \in 1..Len(q) - 1
  BY <1>1
<1>4. \A k \in 1..Len(q) : k = 1 \/ q[k] = Tail(q)[k - 1]
  BY <1>1, <1>3
<1>5. \A k \in 1..Len(q) : q[k] \in {Head(q)} \cup ToSet(Tail(q))
  <2> SUFFICES ASSUME NEW k \in 1..Len(q), k # 1 PROVE q[k] \in ToSet(Tail(q))
    BY <1>1
  <2>1. k - 1 \in DOMAIN Tail(q) /\ q[k] = Tail(q)[k - 1]
    BY <1>1, <1>3, <1>4
  <2>2. QED
    BY <2>1 DEF ToSet
<1>6. \A x \in ToSet(Tail(q)) : x \in ToSet(q)
  BY <1>1, \A k \in 1..Len(q) - 1 : k + 1 \in 1..Len(q) DEF ToSet
<1>7. \A x \in ToSet(q) : x \in {Head(q)} \cup ToSet(Tail(q))
  BY <1>1, <1>5 DEF ToSet
<1>8. QED
  BY <1>1, <1>2, <1>6, <1>7

\* Two queues, one behind the other
LEMMA Joined ==
    ASSUME NEW S, NEW p \in Seq(S), NEW q \in Seq(S)
    PROVE  /\ p \o q \in Seq(S)
           /\ Len(p \o q) = Len(p) + Len(q)
           /\ DOMAIN (p \o q) = 1..Len(p) + Len(q)
           /\ \A k \in 1..Len(p) : (p \o q)[k] = p[k]
           /\ \A k \in 1..Len(q) : (p \o q)[Len(p) + k] = q[k]
           /\ ToSet(p \o q) = ToSet(p) \cup ToSet(q)
<1>1. /\ p \o q \in Seq(S)
      /\ Len(p \o q) = Len(p) + Len(q)
      /\ DOMAIN (p \o q) = 1..Len(p) + Len(q)
      /\ \A k \in 1..Len(p) : (p \o q)[k] = p[k]
      /\ \A k \in 1..Len(q) : (p \o q)[Len(p) + k] = q[k]
  OBVIOUS
<1>2. DOMAIN p = 1..Len(p) /\ DOMAIN q = 1..Len(q) /\ Len(p) \in Nat /\ Len(q) \in Nat
  OBVIOUS
<1>3. \A k \in 1..Len(p) + Len(q) : k \in 1..Len(p) \/ k - Len(p) \in 1..Len(q)
  BY <1>2
<1>4. \A k \in 1..Len(p) + Len(q) : k \in 1..Len(p) \/ (p \o q)[k] = q[k - Len(p)]
  <2> SUFFICES ASSUME NEW k \in 1..Len(p) + Len(q), k \notin 1..Len(p)
               PROVE  (p \o q)[k] = q[k - Len(p)]
    OBVIOUS
  <2>1. k - Len(p) \in 1..Len(q) /\ Len(p) + (k - Len(p)) = k
    BY <1>2, <1>3
  <2>2. QED
    BY <1>1, <2>1
<1>5. \A x \in ToSet(p \o q) : x \in ToSet(p) \cup ToSet(q)
  BY <1>1, <1>2, <1>3, <1>4 DEF ToSet
<1>6. \A x \in ToSet(p) : x \in ToSet(p \o q)
  BY <1>1, <1>2, \A k \in 1..Len(p) : k \in 1..Len(p) + Len(q) DEF ToSet
<1>7. \A x \in ToSet(q) : x \in ToSet(p \o q)
  BY <1>1, <1>2, \A k \in 1..Len(q) : Len(p) + k \in 1..Len(p) + Len(q) DEF ToSet
<1>8. QED
  BY <1>1, <1>5, <1>6, <1>7

\* One place is taken out of a queue, and what was behind it moves up
LEMMA Removed ==
    ASSUME NEW S, NEW q \in Seq(S), NEW k \in DOMAIN q
    PROVE  /\ RemoveAt(q, k) \in Seq(S)
           /\ Len(RemoveAt(q, k)) = Len(q) - 1 /\ Len(q) \in Nat \ {0}
           /\ DOMAIN RemoveAt(q, k) = 1..Len(q) - 1
           /\ \A j \in 1..Len(q) - 1 : RemoveAt(q, k)[j] = IF j < k THEN q[j] ELSE q[j + 1]
           /\ ToSet(RemoveAt(q, k)) \subseteq ToSet(q)
           /\ \A x \in ToSet(q) : x # q[k] => x \in ToSet(RemoveAt(q, k))
<1> DEFINE r == RemoveAt(q, k)
<1>1. k \in 1..Len(q) /\ Len(q) \in Nat \ {0} /\ DOMAIN q = 1..Len(q)
  OBVIOUS
<1>2. /\ r \in Seq(S) /\ Len(r) = Len(q) - 1 /\ DOMAIN r = 1..Len(q) - 1
      /\ \A j \in 1..Len(q) - 1 : r[j] = IF j < k THEN q[j] ELSE q[j + 1]
  <2> DEFINE u == SubSeq(q, 1, k - 1)
             v == SubSeq(q, k + 1, Len(q))
  <2>1. u \in Seq(S) /\ Len(u) = k - 1 /\ \A j \in 1..k - 1 : u[j] = q[j]
    BY <1>1
  <2>2. v \in Seq(S) /\ Len(v) = Len(q) - k /\ \A j \in 1..Len(q) - k : v[j] = q[k + j]
    BY <1>1
  <2>3. r = u \o v
    BY DEF RemoveAt
  <2> HIDE DEF r, u, v
  <2>4. /\ r \in Seq(S) /\ Len(r) = (k - 1) + (Len(q) - k)
        /\ \A j \in 1..k - 1 : r[j] = u[j]
        /\ \A j \in 1..Len(q) - k : r[(k - 1) + j] = v[j]
    <3>1. /\ u \o v \in Seq(S) /\ Len(u \o v) = Len(u) + Len(v)
          /\ \A j \in 1..Len(u) : (u \o v)[j] = u[j]
          /\ \A j \in 1..Len(v) : (u \o v)[Len(u) + j] = v[j]
      <4>1. u \in Seq(S) /\ v \in Seq(S)
        BY <2>1, <2>2
      <4>2. QED
        BY <4>1, Joined
    <3>2. QED
      BY <2>1, <2>2, <2>3, <3>1
  <2>5. (k - 1) + (Len(q) - k) = Len(q) - 1
    BY <1>1
  <2>6. ASSUME NEW j \in 1..Len(q) - 1, ~(j < k) PROVE r[j] = q[j + 1]
    <3>1. j - k + 1 \in 1..Len(q) - k
      BY <1>1, <2>6
    <3>2. (k - 1) + (j - k + 1) = j /\ k + (j - k + 1) = j + 1
      BY <1>1
    <3>3. r[(k - 1) + (j - k + 1)] = v[j - k + 1] /\ v[j - k + 1] = q[k + (j - k + 1)]
      BY <2>2, <2>4, <3>1
    <3>4. QED
      BY <3>2, <3>3
  <2>7. ASSUME NEW j \in 1..Len(q) - 1, j < k PROVE r[j] = q[j]
    <3>1. j \in 1..k - 1
      BY <1>1, <2>7
    <3>2. QED
      BY <2>1, <2>4, <3>1
  <2>8. r \in Seq(S) /\ Len(r) = Len(q) - 1 /\ DOMAIN r = 1..Len(q) - 1
    BY <2>4, <2>5
  <2>9. QED
    BY <2>6, <2>7, <2>8
<1>3. ToSet(r) \subseteq ToSet(q)
  BY <1>1, <1>2, \A j \in 1..Len(q) - 1 : j \in 1..Len(q) /\ j + 1 \in 1..Len(q) DEF ToSet
<1>4. ASSUME NEW j \in 1..Len(q), q[j] # q[k] PROVE q[j] \in ToSet(r)
  <2>1. CASE j < k
    BY <1>1, <1>2, <2>1, j \in 1..Len(q) - 1 DEF ToSet
  <2>2. CASE j > k
    <3>1. j - 1 \in 1..Len(q) - 1 /\ ~(j - 1 < k) /\ (j - 1) + 1 = j
      BY <1>1, <2>2
    <3>2. QED
      BY <1>2, <3>1 DEF ToSet
  <2>3. QED
    BY <1>1, <1>4, <2>1, <2>2
<1>5. \A x \in ToSet(q) : x # q[k] => x \in ToSet(r)
  BY <1>1, <1>4 DEF ToSet
<1>6. QED
  BY <1>1, <1>2, <1>3, <1>5

\* The least of a set of positions
LEMMA MinFacts ==
    ASSUME NEW I, I \subseteq Nat, I # {}
    PROVE  Min(I) \in I /\ \A j \in I : Min(I) <= j
<1>1. PICK k \in I : \A m \in I : ~(<<m, k>> \in OpToRel(<, Nat))
  BY NatLessThanWellFounded, WFMin
<1>2. ASSUME NEW m \in I PROVE k <= m
  <2>1. k \in Nat /\ m \in Nat /\ ~(m < k)
    BY <1>1 DEF OpToRel
  <2>2. QED
    BY <2>1
<1>3. QED
  BY <1>2 DEF Min

\* The relay picks a socket of the target, if it has one
LEMMA ReceiverFacts ==
    ASSUME CloudTypeOK, NEW target
    PROVE  LET k == Receiver(target) IN
           \/ k = 0 /\ \A s \in ToSet(memberSockets) : sock[s].sub # target
           \/ /\ k \in DOMAIN memberSockets /\ k # 0 /\ memberSockets[k] \in ToSet(memberSockets)
              /\ memberSockets[k] \in Socket
              /\ sock[memberSockets[k]].sub = target
<1> DEFINE I == {i \in 1..Len(memberSockets) : sock[memberSockets[i]].sub = target}
<1>1. /\ DOMAIN memberSockets = 1..Len(memberSockets)
      /\ \A i \in DOMAIN memberSockets : memberSockets[i] \in Socket
  BY DEF CloudTypeOK
<1>2. Receiver(target) = IF I # {} THEN Min(I) ELSE 0
  BY DEF Receiver, SelectInSeq
<1>3. CASE I = {}
  BY <1>1, <1>2, <1>3 DEF ToSet
<1>4. CASE I # {}
  <2>1. Min(I) \in I
    BY <1>4, MinFacts, I \subseteq Nat
  <2>2. PICK k \in I : k = Receiver(target)
    BY <1>2, <1>4, <2>1
  <2>3. k \in DOMAIN memberSockets /\ k # 0 /\ sock[memberSockets[k]].sub = target
    BY <1>1
  <2>4. memberSockets[k] \in ToSet(memberSockets) /\ memberSockets[k] \in Socket
    BY <1>1, <2>3 DEF ToSet
  <2>5. QED
    BY <2>2, <2>3, <2>4
<1>5. QED
  BY <1>3, <1>4

\* What a queue of attached sockets keeps of one that is detached
LEMMA Detached ==
    ASSUME NEW S, NEW q \in Seq(S), IsInjective(q), NEW s \in ToSet(q)
    PROVE  /\ RemoveFirst(q, s) \in Seq(S)
           /\ IsInjective(RemoveFirst(q, s))
           /\ ToSet(RemoveFirst(q, s)) = ToSet(q) \ {s}
<1> DEFINE I == {i \in 1..Len(q) : q[i] = s}
           k == Min(I)
           r == RemoveAt(q, k)
<1>1. DOMAIN q = 1..Len(q) /\ Len(q) \in Nat
  OBVIOUS
<1>2. I # {}
  BY <1>1 DEF ToSet
<1>3. k \in I
  BY <1>2, MinFacts, I \subseteq Nat
<1>4. RemoveFirst(q, s) = r
  <2>1. SelectInSeq(q, LAMBDA v : v = s) = k
    BY <1>2 DEF SelectInSeq
  <2>2. \E i \in 1..Len(q) : q[i] = s
    BY <1>3
  <2>3. QED
    BY <2>1, <2>2 DEF RemoveFirst
<1>5. k \in DOMAIN q /\ q[k] = s /\ k \in 1..Len(q)
  BY <1>1, <1>3
<1> HIDE DEF k, r
<1>6. /\ r \in Seq(S) /\ DOMAIN r = 1..Len(q) - 1
      /\ \A j \in 1..Len(q) - 1 : r[j] = IF j < k THEN q[j] ELSE q[j + 1]
      /\ ToSet(r) \subseteq ToSet(q)
      /\ \A x \in ToSet(q) : x # s => x \in ToSet(r)
  BY <1>5, Removed DEF r
<1>7. \A a, b \in 1..Len(q) : q[a] = q[b] => a = b
  BY <1>1 DEF IsInjective
<1>8. \A j \in 1..Len(q) - 1 : r[j] # s
  BY <1>1, <1>5, <1>6, <1>7
<1>9. IsInjective(r)
  <2> SUFFICES ASSUME NEW a \in 1..Len(q) - 1, NEW b \in 1..Len(q) - 1, r[a] = r[b]
               PROVE  a = b
    BY <1>6 DEF IsInjective
  <2>1. a \in 1..Len(q) /\ b \in 1..Len(q) /\ a + 1 \in 1..Len(q) /\ b + 1 \in 1..Len(q)
    BY <1>1
  <2>2. r[a] = (IF a < k THEN q[a] ELSE q[a + 1]) /\ r[b] = (IF b < k THEN q[b] ELSE q[b + 1])
    BY <1>6
  <2>3. CASE a < k /\ b < k
    BY <1>7, <2>1, <2>2, <2>3
  <2>4. CASE a < k /\ ~(b < k)
    <3>1. a = b + 1
      BY <1>7, <2>1, <2>2, <2>4
    <3>2. QED
      BY <1>5, <2>1, <2>4, <3>1
  <2>5. CASE ~(a < k) /\ b < k
    <3>1. a + 1 = b
      BY <1>7, <2>1, <2>2, <2>5
    <3>2. QED
      BY <1>5, <2>1, <2>5, <3>1
  <2>6. CASE ~(a < k) /\ ~(b < k)
    <3>1. a + 1 = b + 1
      BY <1>7, <2>1, <2>2, <2>6
    <3>2. QED
      BY <3>1
  <2>7. QED
    BY <2>3, <2>4, <2>5, <2>6
<1>10. s \notin ToSet(r)
  BY <1>6, <1>8 DEF ToSet
<1>11. QED
  BY <1>4, <1>6, <1>9, <1>10

\* The frames of a broadcast: one to every open connection among the ids
LEMMA ToAllFacts ==
    ASSUME NEW vs, IsFiniteSet(vs), NEW ids, NEW m
    PROVE  LET fs == ToAll(vs, ids, m)
               S  == {[target |-> x, msg |-> m] : x \in ids \cap vs}
           IN  fs \in Seq(S) /\ ToSet(fs) = S
<1> DEFINE T == ids \cap vs
           to == SetToSeq(T)
           fs == [k \in DOMAIN to |-> [target |-> to[k], msg |-> m]]
           S == {[target |-> x, msg |-> m] : x \in T}
<1>1. IsFiniteSet(T) /\ Cardinality(T) \in Nat
  BY FS_Intersection, FS_CardinalityType
<1>2. to \in [1..Cardinality(T) -> T] /\ IsInjective(to)
  <2>1. PICK f : f \in Bijection(1..Cardinality(T), T)
    BY <1>1, FS_CardinalityType DEF ExistsBijection
  <2>2. f \in [1..Cardinality(T) -> T] /\ IsInjective(f)
    BY <2>1 DEF Bijection, Injection
  <2>3. QED
    BY <2>2 DEF SetToSeq
<1>3. \A x \in T : \E k \in 1..Cardinality(T) : to[k] = x
  <2>1. to \in Injection(1..Cardinality(T), T)
    BY <1>2 DEF Injection
  <2>2. Cardinality(1..Cardinality(T)) = Cardinality(T)
    BY <1>1, FS_Interval
  <2>3. to \in Surjection(1..Cardinality(T), T)
    BY <1>1, <2>1, <2>2, FS_Injection
  <2>4. QED
    BY <2>3 DEF Surjection
<1> HIDE DEF to, T
<1>4. fs \in Seq(S)
  <2>1. fs \in [1..Cardinality(T) -> S]
    BY <1>2
  <2>2. QED
    BY <1>1, <2>1, SeqDef
<1>5. ToSet(fs) = S
  BY <1>2, <1>3 DEF ToSet
<1>6. ToAll(vs, ids, m) = fs
  BY DEF ToAll, to, T
<1>7. QED
  BY <1>4, <1>5, <1>6 DEF T

\* A frame for one virtual connection goes out if it is open
LEMMA UnicastFacts ==
    ASSUME NEW vs, NEW x, NEW m
    PROVE  LET fs == Unicast(vs, x, m)
               S  == {[target |-> y, msg |-> m] : y \in {x} \cap vs}
           IN  fs \in Seq(S) /\ ToSet(fs) = S
<1> DEFINE S == {[target |-> y, msg |-> m] : y \in {x} \cap vs}
           e == [target |-> x, msg |-> m]
<1>1. CASE x \in vs
  <2>1. Unicast(vs, x, m) = <<e>> /\ S = {e}
    BY <1>1 DEF Unicast
  <2>2. <<e>> \in Seq({e}) /\ ToSet(<<e>>) = {e}
    <3> HIDE DEF e
    <3>1. QED
      BY DEF ToSet
  <2>3. QED
    BY <2>1, <2>2
<1>2. CASE x \notin vs
  <2>1. Unicast(vs, x, m) = <<>> /\ S = {}
    BY <1>2 DEF Unicast
  <2>2. QED
    BY <2>1 DEF ToSet
<1>3. QED
  BY <1>1, <1>2

-----------------------------------------------------------------------------
(* Clients and their sockets *)

\* What no event of the transport changes
Same(q, r) ==
    /\ q.me = r.me /\ q.token = r.token /\ q.ws = r.ws
    /\ q.swapped = r.swapped /\ q.left = r.left /\ q.roster = r.roster

\* connect() waits no longer
Over(q, r) == q.verdict # "waiting" /\ (q.verdict = "none" => r.verdict = "none")

\* connect() settles, and nothing else about the client changes
LEMMA SettledFacts ==
    ASSUME NEW r \in ClientState, NEW v \in {"true", "false"}
    PROVE  /\ Settled(r, v) \in ClientState
           /\ Same(Settled(r, v), r) /\ Over(Settled(r, v), r)
           /\ Settled(r, v).timer = r.timer /\ Settled(r, v).strays = r.strays
           /\ Settled(r, v).swap = r.swap
  BY DEF Settled, ClientState, Same, Over

\* A timer is armed, and nothing else about the client changes
LEMMA ScheduledFacts ==
    ASSUME NEW r \in ClientState
    PROVE  /\ Scheduled(r) \in ClientState
           /\ Same(Scheduled(r), r)
           /\ Scheduled(r).verdict = r.verdict /\ Scheduled(r).shared = r.shared
           /\ Scheduled(r).swap = r.swap
<1> DEFINE n == IF r.timer THEN r.strays + 1 ELSE r.strays
<1>1. n \in Nat
  BY DEF ClientState
<1>2. Scheduled(r) = IF r.left THEN r ELSE [r EXCEPT !.strays = n, !.timer = TRUE]
  BY DEF Scheduled
<1> HIDE DEF n
<1>3. QED
  BY <1>1, <1>2 DEF ClientState, Same

\* A dial has failed
LEMMA AfterFailureFacts ==
    ASSUME NEW r \in ClientState, NEW i \in Nat, NEW ladder \in BOOLEAN
    PROVE  /\ AfterFailure(r, i, ladder) \in ClientState
           /\ Same(AfterFailure(r, i, ladder), r) /\ Over(AfterFailure(r, i, ladder), r)
<1> DEFINE closed == IF r.swap # 0 THEN r ELSE Scheduled(r)
           again == IF ladder THEN Scheduled(closed) ELSE closed
           s == Settled(again, "false")
<1>1. closed \in ClientState /\ Same(closed, r) /\ closed.verdict = r.verdict
  BY ScheduledFacts DEF Same
<1>2. again \in ClientState /\ Same(again, r) /\ again.verdict = r.verdict
  <2> HIDE DEF closed
  <2>1. QED
    BY <1>1, ScheduledFacts DEF Same
<1>3. s \in ClientState /\ Same(s, r) /\ Over(s, r)
  <2> HIDE DEF again
  <2>1. QED
    BY <1>2, SettledFacts DEF Same, Over
<1>4. AfterFailure(r, i, ladder) = [s EXCEPT !.swap = IF i = @ THEN 0 ELSE @]
  BY DEF AfterFailure
<1> HIDE DEF s
<1>5. QED
  BY <1>3, <1>4, CloudConstants DEF ClientState, Same, Over

\* A socket has closed
LEMMA AfterCloseFacts ==
    ASSUME NEW r \in ClientState, NEW code
    PROVE  /\ AfterClose(r, code) \in ClientState
           /\ Same(AfterClose(r, code), r) /\ Over(AfterClose(r, code), r)
<1>1. /\ Settled(r, "false") \in ClientState /\ Same(Settled(r, "false"), r)
      /\ Over(Settled(r, "false"), r)
  BY SettledFacts
<1>2. /\ Scheduled(Settled(r, "false")) \in ClientState
      /\ Same(Scheduled(Settled(r, "false")), Settled(r, "false"))
      /\ Scheduled(Settled(r, "false")).verdict = Settled(r, "false").verdict
  BY <1>1, ScheduledFacts
<1>3. QED
  BY <1>1, <1>2 DEF AfterClose, Same, Over

\* A dial with the bootstrap token marks those that share it, and no more
LEMMA SharingFacts ==
    ASSUME CloudTypeOK, NEW c \in Client
    PROVE  /\ Sharing(c) \in [Client -> ClientState]
           /\ \A d \in Client :
                /\ Same(Sharing(c)[d], client[d])
                /\ Sharing(c)[d].verdict = client[d].verdict
                /\ Sharing(c)[d].swap = client[d].swap
                /\ Sharing(c)[d].timer = client[d].timer
                /\ Sharing(c)[d].strays = client[d].strays
                /\ client[d].shared => Sharing(c)[d].shared
                /\ d # c /\ client[c].token = Boot /\ client[d].verdict = "waiting" =>
                     Sharing(c)[d].shared
                /\ d # c /\ client[d].verdict # "waiting" => Sharing(c)[d] = client[d]
           /\ client[c].token = Boot /\ client[c].ws = 0 /\ SharesBootstrap(c) =>
                Sharing(c)[c].shared
<1>1. \A d \in Client : client[d] \in ClientState
  BY DEF CloudTypeOK
<1>2. SharesBootstrap(c) \in BOOLEAN
  BY DEF SharesBootstrap
<1> DEFINE Sh(d) == \/ client[d].shared
                    \/ /\ client[c].token = Boot
                       /\ IF d = c THEN client[c].ws = 0 /\ SharesBootstrap(c)
                          ELSE client[d].verdict = "waiting"
<1>3. Sharing(c) = [d \in Client |-> [client[d] EXCEPT !.shared = Sh(d)]]
  BY DEF Sharing
<1>4. \A d \in Client : Sh(d) \in BOOLEAN
  BY <1>1, <1>2 DEF ClientState
<1>5. \A d \in Client : d # c /\ client[d].verdict # "waiting" => Sh(d) = client[d].shared
  BY <1>1 DEF ClientState
<1>6. \A d \in Client : client[d].shared => Sh(d) = TRUE
  BY <1>4
<1>7. \A d \in Client : d # c /\ client[c].token = Boot /\ client[d].verdict = "waiting" =>
           Sh(d) = TRUE
  BY <1>4
<1>8. client[c].token = Boot /\ client[c].ws = 0 /\ SharesBootstrap(c) => Sh(c) = TRUE
  BY <1>4
<1> HIDE DEF Sh
<1>9. QED
  BY <1>1, <1>3, <1>4, <1>5, <1>6, <1>7, <1>8 DEF ClientState, Same

\* A socket is not the one it was
Ages(a, b) ==
    /\ a.phase # "none" /\ b.phase # "none" /\ b.sub = a.sub
    /\ a.cut => b.cut
    /\ a.phase # "dialing" => b.phase # "dialing"
    /\ a.phase = "closing" => b.phase \in {"closing", "closed"}
    /\ a.phase = "closed" => b.phase = "closed"
    /\ b.cut => b.phase # "dialing"

Evolves ==
    /\ \A c \in Client : client'[c].ws >= client[c].ws
    /\ \A c \in Client, i \in 1..MaxDials :
          \/ sock'[<<c, i>>] = sock[<<c, i>>]
          \/ Ages(sock[<<c, i>>], sock'[<<c, i>>])
          \/ /\ i = client[c].ws + 1 /\ client'[c].ws = i
             /\ sock'[<<c, i>>].phase = "dialing" /\ ~sock'[<<c, i>>].cut
             /\ sock'[<<c, i>>].sub = client'[c].token

\* Whom the clients are and know stays
Steady ==
    \A c \in Client :
       /\ client'[c].token = client[c].token /\ client'[c].me = client[c].me
       /\ client'[c].roster = client[c].roster
       /\ client[c].left => client'[c].left
       /\ client[c].swapped => client'[c].swapped \/ client'[c].left

\* The types of one client and one of its sockets
LEMMA TypedSocket ==
    ASSUME CloudTypeOK, NEW c \in Client, NEW i \in 1..MaxDials
    PROVE  /\ <<c, i>> \in Socket /\ sock[<<c, i>>] \in SocketState
           /\ client[c] \in ClientState /\ i \in Nat /\ client[c].ws \in Nat
           /\ client[c].ws <= MaxDials
<1>1. <<c, i>> \in Socket
  BY DEF Socket
<1>2. sock[<<c, i>>] \in SocketState
  BY <1>1 DEF CloudTypeOK
<1>3. client[c] \in ClientState
  BY DEF CloudTypeOK
<1>4. i \in Nat /\ client[c].ws \in Nat /\ client[c].ws <= MaxDials
  BY <1>3, CloudConstants DEF ClientState
<1>5. QED
  BY <1>1, <1>2, <1>3, <1>4

\* The same in the next state
LEMMA TypedSocketNext ==
    ASSUME CloudTypeOK', NEW c \in Client, NEW i \in 1..MaxDials
    PROVE  sock'[<<c, i>>] \in SocketState /\ client'[c] \in ClientState /\ client'[c].ws \in Nat
<1>1. <<c, i>> \in Socket
  BY DEF Socket
<1>2. sock'[<<c, i>>] \in SocketState
  BY <1>1 DEF CloudTypeOK
<1>3. client'[c] \in ClientState
  BY DEF CloudTypeOK
<1>4. client'[c].ws \in Nat
  BY <1>3, CloudConstants DEF ClientState
<1>5. QED
  BY <1>2, <1>3, <1>4

\* A socket is its client and its number
LEMMA OfSocket ==
    ASSUME NEW s \in Socket
    PROVE  /\ s[1] \in Client /\ s[2] \in 1..MaxDials /\ s = <<s[1], s[2]>>
           /\ sock[s] = sock[<<s[1], s[2]>>]
<1>1. s[1] \in Client /\ s[2] \in 1..MaxDials
  BY DEF Socket
<1>2. s = <<s[1], s[2]>>
  BY DEF Socket
<1>3. QED
  BY <1>1, <1>2

\* The types of what the queues hold
LEMMA QueuesTyped ==
    ASSUME CloudTypeOK
    PROVE  /\ \A f \in ToSet(toHost) :
                /\ f \in HostBound /\ f.by \in Client /\ f.sub \in Sub
                /\ f.type \in {"auth-request", "member-left"}
           /\ \A f \in ToSet(toRelay) : f \in RelayBound /\ f.target \in Sub /\ f.msg \in Message
           /\ \A t \in ToSet(issuing) :
                /\ t \in Asker /\ t.by \in Client /\ t.key \in Sub /\ t.id \in Nat
                /\ t.kind \in {"bootstrap", "rebind", "new"}
           /\ \A s \in ToSet(memberSockets) : s \in Socket
<1>1. ToSet(toHost) \subseteq HostBound
  BY InQueue DEF CloudTypeOK
<1>2. ToSet(toRelay) \subseteq RelayBound
  BY InQueue DEF CloudTypeOK
<1>3. ToSet(issuing) \subseteq Asker
  BY InQueue DEF CloudTypeOK
<1>4. ToSet(memberSockets) \subseteq Socket
  BY InQueue DEF CloudTypeOK
<1>5. \A f \in HostBound : /\ f.by \in Client /\ f.sub \in Sub
                           /\ f.type \in {"auth-request", "member-left"}
  BY DEF HostBound
<1>6. \A f \in RelayBound : f.target \in Sub /\ f.msg \in Message
  BY DEF RelayBound
<1>7. \A t \in Asker : /\ t.by \in Client /\ t.key \in Sub /\ t.id \in Nat
                       /\ t.kind \in {"bootstrap", "rebind", "new"}
  BY DEF Asker
<1>8. QED
  BY <1>1, <1>2, <1>3, <1>4, <1>5, <1>6, <1>7

\* What is in use of the sockets stays, and grows older
LEMMA EvolvesFacts ==
    ASSUME CloudTypeOK, SocketsInOrder, Evolves, NEW s \in Socket, sock[s].phase # "none"
    PROVE  \/ sock'[s] = sock[s]
           \/ Ages(sock[s], sock'[s])
<1>1. s[1] \in Client /\ s[2] \in 1..MaxDials /\ s = <<s[1], s[2]>>
  BY DEF Socket
<1>2. s[2] <= client[s[1]].ws
  BY <1>1 DEF SocketsInOrder
<1>3. client[s[1]].ws \in Nat /\ s[2] \in Nat
  BY <1>1, TypedSocket
<1>4. s[2] # client[s[1]].ws + 1
  BY <1>2, <1>3
<1>5. QED
  BY <1>1, <1>4 DEF Evolves

\* The sockets stay in order, whatever is attached meanwhile
LEMMA OrderKept ==
    ASSUME CloudTypeOK, CloudTypeOK', SocketsInOrder, Evolves,
           \A s \in ToSet(memberSockets)' \ ToSet(memberSockets) :
              sock'[s].phase \in {"open", "closing", "closed"},
           IsInjective(memberSockets)',
           \A f \in ToSet(toHost)' : f \in ToSet(toHost) \/ client'[f.by].ws # 0
    PROVE  SocketsInOrder'
<1>1. ASSUME NEW c \in Client, NEW i \in 1..MaxDials
      PROVE  /\ sock'[<<c, i>>].phase # "none" => i <= client'[c].ws
             /\ sock'[<<c, i>>].cut => sock'[<<c, i>>].phase \in {"open", "closing", "closed"}
  <2>1. /\ sock[<<c, i>>] \in SocketState /\ sock'[<<c, i>>] \in SocketState
        /\ client[c].ws \in Nat /\ client'[c].ws \in Nat /\ i \in Nat
    BY TypedSocket, TypedSocketNext
  <2>2. /\ sock[<<c, i>>].phase # "none" => i <= client[c].ws
        /\ sock[<<c, i>>].cut => sock[<<c, i>>].phase \in {"open", "closing", "closed"}
    BY DEF SocketsInOrder
  <2>3. client'[c].ws >= client[c].ws
    BY DEF Evolves
  <2>4. CASE sock'[<<c, i>>] = sock[<<c, i>>]
    BY <2>1, <2>2, <2>3, <2>4
  <2>5. CASE Ages(sock[<<c, i>>], sock'[<<c, i>>])
    BY <2>1, <2>2, <2>3, <2>5 DEF Ages, SocketState
  <2>6. CASE i = client[c].ws + 1 /\ client'[c].ws = i /\ ~sock'[<<c, i>>].cut
    BY <2>1, <2>6
  <2>7. QED
    BY <2>4, <2>5, <2>6 DEF Evolves
<1>2. ASSUME NEW s \in ToSet(memberSockets)'
      PROVE  sock'[s].phase \in {"open", "closing", "closed"}
  <2>1. CASE s \notin ToSet(memberSockets)
    BY <2>1
  <2>2. CASE s \in ToSet(memberSockets)
    <3>1. s \in Socket /\ sock[s].phase \in {"open", "closing", "closed"}
      BY <2>2, InQueue DEF CloudTypeOK, SocketsInOrder
    <3>2. sock'[s] \in SocketState
      BY <3>1 DEF CloudTypeOK
    <3>3. sock'[s] = sock[s] \/ Ages(sock[s], sock'[s])
      BY <3>1, EvolvesFacts
    <3>4. QED
      BY <3>1, <3>2, <3>3 DEF Ages, SocketState
  <2>3. QED
    BY <2>1, <2>2
<1>3. ASSUME NEW f \in ToSet(toHost)' PROVE client'[f.by].ws # 0
  <2>1. CASE client'[f.by].ws # 0
    BY <2>1
  <2>2. CASE f \in ToSet(toHost)
    <3>1. f.by \in Client /\ client[f.by].ws # 0
      BY <2>2, QueuesTyped DEF SocketsInOrder
    <3>2. client[f.by].ws \in Nat /\ client'[f.by].ws \in Nat /\ client'[f.by].ws >= client[f.by].ws
      BY <3>1, CloudConstants DEF CloudTypeOK, ClientState, Evolves
    <3>3. QED
      BY <3>1, <3>2
  <2>3. QED
    BY <2>1, <2>2
<1>4. QED
  BY <1>1, <1>2, <1>3 DEF SocketsInOrder

\* The sub of a socket stays, or is that of the token it was dialled with
LEMMA SubsKept ==
    ASSUME CloudTypeOK, SocketsInOrder, NamesItself, Evolves, Steady,
           NEW c \in Client, NEW i \in 1..MaxDials
    PROVE  sock'[<<c, i>>].sub \in {Boot, client'[c].token}
<1>1. sock[<<c, i>>].sub \in {Boot, client[c].token} /\ client'[c].token = client[c].token
  BY DEF NamesItself, Steady
<1>2. QED
  BY <1>1 DEF Evolves, Ages

\* What is between the client and the relay, as seen by the host
LEMMA SteadyNames ==
    ASSUME CloudTypeOK, SocketsInOrder, NamesItself, HandedOnce, OwnIdentity, Evolves, Steady,
           UNCHANGED <<toRelay, hostVars>>,
           \A f \in ToSet(toHost)' :
              f \in ToSet(toHost) \/ (f.by \in Client /\ f.sub \in {Boot, client[f.by].token})
    PROVE  NamesItself' /\ HandedOnce' /\ OwnIdentity'
<1>0. /\ UNCHANGED <<toRelay, virt, seats, issuing, minted>>
      /\ UNCHANGED <<ToSet(toRelay), ToSet(issuing)>>
  BY DEF hostVars, ToSet
<1>1. \A c \in Client : client'[c].token = client[c].token /\ client'[c].me = client[c].me
  BY DEF Steady
<1>2. OwnIdentity'
  BY <1>1 DEF OwnIdentity
<1>3. HandedOnce'
  BY <1>0, <1>1 DEF HandedOnce
<1>4. NamesItself'
  <2>1. \A c \in Client :
          /\ client'[c].token \in {Boot} \cup 1..minted'
          /\ client'[c].me \in 0..minted'
          /\ client'[c].token # Boot => client'[c].swapped \/ client'[c].left
    BY <1>0, <1>1 DEF NamesItself, Steady
  <2>2. \A c \in Client, i \in 1..MaxDials : sock'[<<c, i>>].sub \in {Boot, client'[c].token}
    BY SubsKept
  <2>3. \A f \in ToSet(toHost)' : f.sub \in {Boot, client'[f.by].token}
    <3>1. \A f \in ToSet(toHost) : f.by \in Client
      BY QueuesTyped
    <3>2. QED
      BY <1>1, <3>1 DEF NamesItself
  <2>4. \A t \in ToSet(issuing)' :
          IF t.kind = "bootstrap" THEN t.key = Boot /\ t.id \in 1..minted'
          ELSE t.key = t.id /\ t.key = client'[t.by].token
    <3>1. \A t \in ToSet(issuing) : t.by \in Client
      BY QueuesTyped
    <3>2. QED
      BY <1>0, <1>1, <3>1 DEF NamesItself
  <2>5. \A m \in seats' : m.id = client'[m.by].token
    BY <1>0, <1>1 DEF NamesItself, CloudTypeOK
  <2>6. \A f \in ToSet(toRelay)' :
          /\ f.msg.type = "handoff" => f.target = Boot /\ f.msg.id \in 1..minted'
          /\ f.msg.type = "welcome" => f.target = f.msg.id
          /\ f.target = Boot => f.msg.type \in {"handoff", "refused"}
    BY <1>0 DEF NamesItself
  <2>7. QED
    BY <2>1, <2>2, <2>3, <2>4, <2>5, <2>6 DEF NamesItself
<1>5. QED
  BY <1>2, <1>3, <1>4

\* A sub in doubt stays in doubt while sockets grow older and frames are added
LEMMA DoubtStays ==
    ASSUME CloudTypeOK, SocketsInOrder, Evolves,
           ToSet(memberSockets) \subseteq ToSet(memberSockets)',
           ToSet(toHost) \subseteq ToSet(toHost)', NEW id, Doubtful(id)
    PROVE  Doubtful(id)'
<1>1. CASE \E f \in ToSet(toHost) : f.type = "member-left" /\ f.sub = id
  BY <1>1 DEF Doubtful
<1>2. CASE \E s \in ToSet(memberSockets) :
              sock[s].sub = id /\ (sock[s].cut \/ sock[s].phase \in {"closing", "closed"})
  <2>1. PICK s \in ToSet(memberSockets) :
              sock[s].sub = id /\ (sock[s].cut \/ sock[s].phase \in {"closing", "closed"})
    BY <1>2
  <2>2. s \in Socket /\ sock[s].phase # "none"
    BY InQueue DEF CloudTypeOK, SocketsInOrder
  <2>3. sock'[s] = sock[s] \/ Ages(sock[s], sock'[s])
    BY <2>2, EvolvesFacts
  <2>4. s \in ToSet(memberSockets)'
    OBVIOUS
  <2>5. sock'[s].sub = id /\ (sock'[s].cut \/ sock'[s].phase \in {"closing", "closed"})
    BY <2>1, <2>3 DEF Ages
  <2>6. QED
    BY <2>4, <2>5 DEF Doubtful
<1>3. QED
  BY <1>1, <1>2 DEF Doubtful

\* What is attached keeps its sub
LEMMA SubOfAttached ==
    ASSUME CloudTypeOK, SocketsInOrder, Evolves, NEW s \in ToSet(memberSockets)
    PROVE  s \in Socket /\ sock'[s].sub = sock[s].sub
<1>1. s \in Socket /\ sock[s].phase # "none"
  BY InQueue DEF CloudTypeOK, SocketsInOrder
<1>2. QED
  BY <1>1, EvolvesFacts DEF Ages

\* Who knows whom is not a matter of the sockets
LEMMA SteadyInformed ==
    ASSUME CloudTypeOK, SocketsInOrder, Informed, Evolves, Steady,
           ToSet(memberSockets) \subseteq ToSet(memberSockets)',
           ToSet(toHost) \subseteq ToSet(toHost)',
           UNCHANGED <<toRelay, hostVars>>
    PROVE  Informed'
<1>0. UNCHANGED <<toRelay, virt, seats, issuing, minted>> /\ UNCHANGED <<ToSet(issuing), SeatIds>>
  BY DEF hostVars, ToSet, SeatIds
<1> SUFFICES ASSUME NEW c \in Client, client'[c].token \in SeatIds', ~client'[c].left,
                    ~Doubtful(client[c].token)'
             PROVE  \/ \E t \in ToSet(issuing)' : t.key = client'[c].token
                    \/ \A b \in SeatIds' : \/ \E t \in ToSet(issuing)' : t.kind = "new" /\ t.id = b
                                           \/ WillKnow(c, b)'
  BY DEF Informed
<1>1. /\ client'[c].token = client[c].token /\ client'[c].roster = client[c].roster
      /\ ~client[c].left
  BY DEF Steady
<1>2. ~Doubtful(client[c].token)
  <2>1. PICK id : id = client[c].token
    OBVIOUS
  <2>2. ~Doubtful(id)'
    BY <1>1, <2>1 DEF Doubtful
  <2>3. ~Doubtful(id)
    BY <2>2, DoubtStays
  <2>4. QED
    BY <2>1, <2>3
<1>3. \A b : WillKnow(c, b) <=> WillKnow(c, b)'
  BY <1>0, <1>1 DEF WillKnow, KeptAfter
<1>4. QED
  BY <1>0, <1>1, <1>2, <1>3 DEF Informed

\* The requests of the seated and of those who ask stay backed by a socket
LEMMA SteadyHeld ==
    ASSUME CloudTypeOK, SocketsInOrder, AskersHeld, SeatIsHeld, Evolves,
           UNCHANGED <<memberSockets, toHost, virt, seats>>
    PROVE  AskersHeld' /\ SeatIsHeld'
<1>1. UNCHANGED <<ToSet(memberSockets), ToSet(toHost), SeatIds>>
  BY DEF ToSet, SeatIds
<1>2. \A s \in ToSet(memberSockets) : sock'[s].sub = sock[s].sub
  BY SubOfAttached
<1>3. \A id : (\E s \in ToSet(memberSockets) : sock[s].sub = id) =>
              \E s \in ToSet(memberSockets)' : sock'[s].sub = id
  BY <1>1, <1>2
<1>4. AskersHeld'
  BY <1>3 DEF AskersHeld
<1>5. SeatIsHeld'
  BY <1>1, <1>3 DEF SeatIsHeld
<1>6. QED
  BY <1>4, <1>5

\* A step of a client that touches the transport only
LEMMA TransportStep ==
    ASSUME CloudInv, CloudTypeOK', Evolves, Steady,
           UNCHANGED <<memberSockets, toHost, toRelay, hostVars>>
    PROVE  /\ SocketsInOrder' /\ NamesItself' /\ HandedOnce' /\ OwnIdentity'
           /\ AskersHeld' /\ SeatIsHeld' /\ Informed'
<1>1. /\ UNCHANGED <<ToSet(memberSockets), ToSet(toHost), virt, seats>>
      /\ UNCHANGED IsInjective(memberSockets)
  BY DEF ToSet, hostVars, IsInjective
<1>2. SocketsInOrder'
  <2>1. IsInjective(memberSockets)' /\ CloudTypeOK /\ SocketsInOrder
    BY <1>1 DEF CloudInv, SocketsInOrder
  <2>2. QED
    BY <1>1, <2>1, OrderKept
<1>3. NamesItself' /\ HandedOnce' /\ OwnIdentity'
  BY <1>1, SteadyNames DEF CloudInv
<1>4. AskersHeld' /\ SeatIsHeld'
  BY <1>1, SteadyHeld DEF CloudInv
<1>5. Informed'
  BY <1>1, SteadyInformed DEF CloudInv
<1>6. QED
  BY <1>2, <1>3, <1>4, <1>5

\* A dial changes one socket
LEMMA DialledFacts ==
    ASSUME NEW sk \in [Socket -> SocketState], NEW c \in Client, NEW r \in ClientState,
           r.ws < MaxDials, NEW ladder \in BOOLEAN
    PROVE  LET d == Dialled(sk, c, r, ladder) IN
           /\ r.ws \in Nat /\ r.ws + 1 \in 1..MaxDials /\ <<c, r.ws + 1>> \in Socket
           /\ d \in [Socket -> SocketState]
           /\ d[<<c, r.ws + 1>>] =
                [phase |-> "dialing", sub |-> r.token, ladder |-> ladder, cut |-> FALSE]
           /\ \A s \in Socket : s # <<c, r.ws + 1>> => d[s] = sk[s]
<1>1. r.ws \in Nat /\ r.ws + 1 \in 1..MaxDials
  BY CloudConstants DEF ClientState
<1>2. <<c, r.ws + 1>> \in Socket
  BY <1>1 DEF Socket
<1>3. [phase |-> "dialing", sub |-> r.token, ladder |-> ladder, cut |-> FALSE] \in SocketState
  BY DEF SocketState, ClientState
<1>4. QED
  BY <1>1, <1>2, <1>3 DEF Dialled

\* ws.close() changes one socket, and only if it is open or connecting
LEMMA ShutFacts ==
    ASSUME NEW sk \in [Socket -> SocketState], NEW s
    PROVE  /\ Shut(sk, s) \in [Socket -> SocketState]
           /\ \A x \in Socket : x # s => Shut(sk, s)[x] = sk[x]
           /\ s \in Socket =>
                /\ Shut(sk, s)[s].sub = sk[s].sub /\ Shut(sk, s)[s].cut = sk[s].cut
                /\ Shut(sk, s)[s].phase = IF sk[s].phase = "open" THEN "closing"
                                          ELSE IF sk[s].phase = "dialing" THEN "closed"
                                          ELSE sk[s].phase
                /\ sk[s].phase \notin {"open", "dialing"} => Shut(sk, s)[s] = sk[s]
<1> DEFINE p(x) == CASE x = "open" -> "closing" [] x = "dialing" -> "closed" [] OTHER -> x
<1>1. \A x : p(x) = IF x = "open" THEN "closing" ELSE IF x = "dialing" THEN "closed" ELSE x
  OBVIOUS
<1>2. Shut(sk, s) = [sk EXCEPT ![s] = [sk[s] EXCEPT !.phase = p(sk[s].phase)]]
  BY DEF Shut
<1> HIDE DEF p
<1>3. CASE s \in Socket
  <2>1. sk[s] \in SocketState
    BY <1>3
  <2>2. p(sk[s].phase) \in {"none", "dialing", "open", "closing", "closed"}
    BY <1>1, <2>1 DEF SocketState
  <2>3. [sk[s] EXCEPT !.phase = p(sk[s].phase)] \in SocketState
    BY <2>1, <2>2 DEF SocketState
  <2>4. QED
    BY <1>1, <1>2, <1>3, <2>1, <2>3 DEF SocketState
<1>4. CASE s \notin Socket
  BY <1>2, <1>4
<1>5. QED
  BY <1>3, <1>4
\* What the host, the relay and the frames are does not concern the types of the rest
LEMMA TypesStay ==
    ASSUME CloudTypeOK, sock' \in [Socket -> SocketState], client' \in [Client -> ClientState],
           UNCHANGED <<memberSockets, toHost, toRelay, hostVars>>,
           faults' \subseteq {"dial", "loss", "refusal"}
    PROVE  CloudTypeOK'
  BY DEF CloudTypeOK, hostVars

\* One client has dialled
LEMMA DialEvolves ==
    ASSUME CloudTypeOK, NEW c \in Client, NEW ladder \in BOOLEAN, MayDial(c),
           sock' = Dialled(sock, c, client[c], ladder), client' \in [Client -> ClientState],
           client'[c].ws = client[c].ws + 1,
           Same([client'[c] EXCEPT !.ws = client[c].ws], client[c]),
           \A d \in Client : d # c => Same(client'[d], client[d])
    PROVE  /\ Evolves /\ Steady /\ sock' \in [Socket -> SocketState]
           /\ sock'[<<c, client'[c].ws>>].phase = "dialing"
<1>1. /\ client[c] \in ClientState /\ client[c].ws < MaxDials
      /\ sock \in [Socket -> SocketState]
  BY DEF CloudTypeOK, MayDial
<1>2. /\ client[c].ws \in Nat
      /\ sock' \in [Socket -> SocketState]
      /\ sock'[<<c, client[c].ws + 1>>] =
           [phase |-> "dialing", sub |-> client[c].token, ladder |-> ladder, cut |-> FALSE]
      /\ \A s \in Socket : s # <<c, client[c].ws + 1>> => sock'[s] = sock[s]
  BY <1>1, DialledFacts
<1>3. /\ client'[c].token = client[c].token /\ client'[c].me = client[c].me
      /\ client'[c].roster = client[c].roster /\ client'[c].left = client[c].left
      /\ client'[c].swapped = client[c].swapped
  BY <1>1 DEF Same, ClientState
<1>4. Steady
  BY <1>3 DEF Steady, Same
<1>5. \A d \in Client : client'[d].ws >= client[d].ws
  <2>1. \A d \in Client : d # c => client'[d].ws = client[d].ws /\ client[d].ws \in Nat
    BY CloudConstants DEF Same, CloudTypeOK, ClientState
  <2>2. QED
    BY <1>2, <2>1
<1>6. ASSUME NEW d \in Client, NEW i \in 1..MaxDials
      PROVE  \/ sock'[<<d, i>>] = sock[<<d, i>>]
             \/ /\ i = client[d].ws + 1 /\ client'[d].ws = i
                /\ sock'[<<d, i>>].phase = "dialing" /\ ~sock'[<<d, i>>].cut
                /\ sock'[<<d, i>>].sub = client'[d].token
  <2>1. <<d, i>> \in Socket
    BY DEF Socket
  <2>2. CASE <<d, i>> = <<c, client[c].ws + 1>>
    BY <1>2, <1>3, <2>2
  <2>3. CASE <<d, i>> # <<c, client[c].ws + 1>>
    BY <1>2, <2>1, <2>3
  <2>4. QED
    BY <2>2, <2>3
<1>7. sock'[<<c, client'[c].ws>>].phase = "dialing"
  BY <1>2
<1>8. QED
  BY <1>2, <1>4, <1>5, <1>6, <1>7 DEF Evolves

\* One socket of a client has changed, and what the transport keeps of it
LEMMA OneEvolves ==
    ASSUME CloudTypeOK, NEW c \in Client, NEW i \in 1..MaxDials, NEW b \in SocketState,
           Ages(sock[<<c, i>>], b), sock' = [sock EXCEPT ![<<c, i>>] = b],
           \A d \in Client : Same(client'[d], client[d])
    PROVE  Evolves /\ Steady /\ sock' \in [Socket -> SocketState]
<1>1. <<c, i>> \in Socket /\ sock \in [Socket -> SocketState]
  BY TypedSocket DEF CloudTypeOK
<1>2. /\ sock' \in [Socket -> SocketState] /\ sock'[<<c, i>>] = b
      /\ \A s \in Socket : s # <<c, i>> => sock'[s] = sock[s]
  BY <1>1
<1>3. \A d \in Client, j \in 1..MaxDials : sock'[<<d, j>>] = sock[<<d, j>>]
           \/ Ages(sock[<<d, j>>], sock'[<<d, j>>])
  <2> SUFFICES ASSUME NEW d \in Client, NEW j \in 1..MaxDials
               PROVE  sock'[<<d, j>>] = sock[<<d, j>>] \/ Ages(sock[<<d, j>>], sock'[<<d, j>>])
    OBVIOUS
  <2>1. <<d, j>> \in Socket
    BY DEF Socket
  <2>2. CASE <<d, j>> = <<c, i>>
    BY <1>2, <2>2
  <2>3. CASE <<d, j>> # <<c, i>>
    BY <1>2, <2>1, <2>3
  <2>4. QED
    BY <2>2, <2>3
<1>4. \A d \in Client : client'[d].ws >= client[d].ws
  BY CloudConstants DEF Same, CloudTypeOK, ClientState
<1>5. Steady
  BY DEF Steady, Same
<1>6. QED
  BY <1>2, <1>3, <1>4, <1>5 DEF Evolves

-----------------------------------------------------------------------------
(* The steps of a joiner, at the joiner *)

\* The first dial, at the client
LEMMA JoinStep ==
    ASSUME CloudInv, NEW c \in Client, Join(c)
    PROVE  /\ CloudTypeOK' /\ Evolves /\ Steady
           /\ client[c] = NewClient /\ client'[c].ws = 1 /\ client'[c].shared = Sharing(c)[c].shared
           /\ client'[c].verdict = "waiting" /\ client'[c].token = Boot
           /\ client'[c].timer = FALSE /\ client'[c].strays = 0 /\ client'[c].swap = 0
           /\ ~client'[c].left /\ ~client'[c].swapped
           /\ \A d \in Client : d # c => client'[d] = Sharing(c)[d]
           /\ sock'[<<c, 1>>].phase = "dialing"
<1>1. CloudTypeOK /\ client[c].verdict = "none" /\ client[c] = NewClient
  BY DEF CloudInv, Join, WaitsFresh, Fresh
<1>2. client[c].ws = 0 /\ client[c].token = Boot /\ client[c].swap = 0 /\ ~client[c].left
      /\ ~client[c].swapped /\ client[c].timer = FALSE /\ client[c].strays = 0
  BY <1>1 DEF NewClient
<1>3. /\ Sharing(c) \in [Client -> ClientState]
      /\ \A d \in Client : Same(Sharing(c)[d], client[d])
      /\ Sharing(c)[c].timer = client[c].timer /\ Sharing(c)[c].strays = client[c].strays
      /\ Sharing(c)[c].swap = client[c].swap
  BY <1>1, SharingFacts
<1>4. MayDial(c) /\ 0 < MaxDials /\ MaxDials \in Nat
  BY <1>2, CloudConstants DEF Join, MayDial
<1>5. client' = [Sharing(c) EXCEPT ![c] = [Sharing(c)[c] EXCEPT !.verdict = "waiting", !.ws = 1]]
  BY <1>3 DEF Join
<1>6. client' \in [Client -> ClientState]
  <2>0. \A r \in ClientState : [r EXCEPT !.verdict = "waiting", !.ws = 1] \in ClientState
    BY <1>4, 1 \in 0..MaxDials DEF ClientState
  <2>1. [Sharing(c)[c] EXCEPT !.verdict = "waiting", !.ws = 1] \in ClientState
    BY <1>3, <2>0
  <2>2. QED
    BY <1>3, <1>5, <2>1
<1>7. /\ client'[c] = [Sharing(c)[c] EXCEPT !.verdict = "waiting", !.ws = 1]
      /\ \A d \in Client : d # c => client'[d] = Sharing(c)[d]
  BY <1>3, <1>5
<1>8. /\ client'[c].ws = 1 /\ client'[c].verdict = "waiting"
      /\ client'[c].shared = Sharing(c)[c].shared
      /\ client'[c].timer = client[c].timer /\ client'[c].strays = client[c].strays
      /\ client'[c].swap = client[c].swap
      /\ Same([client'[c] EXCEPT !.ws = 0], client[c])
  BY <1>2, <1>3, <1>7 DEF ClientState, Same
<1>9. /\ Evolves /\ Steady /\ sock' \in [Socket -> SocketState]
      /\ sock'[<<c, client'[c].ws>>].phase = "dialing"
  <2>1. sock' = Dialled(sock, c, client[c], FALSE)
    BY DEF Join
  <2>2. \A d \in Client : d # c => Same(client'[d], client[d])
    BY <1>3, <1>7
  <2>3. client'[c].ws = client[c].ws + 1 /\ Same([client'[c] EXCEPT !.ws = client[c].ws], client[c])
    BY <1>2, <1>8
  <2>4. QED
    BY <1>1, <1>4, <1>6, <2>1, <2>2, <2>3, DialEvolves
<1>10. CloudTypeOK'
  <2>1. UNCHANGED <<memberSockets, toHost, toRelay, hostVars, faults>>
    BY DEF Join, wire
  <2>2. QED
    BY <1>1, <1>6, <1>9, <2>1, TypesStay DEF CloudTypeOK
<1>11. sock'[<<c, 1>>].phase = "dialing"
  BY <1>8, <1>9
<1>12. client'[c].token = Boot /\ ~client'[c].left /\ ~client'[c].swapped
  BY <1>2, <1>3, <1>7 DEF ClientState, Same
<1>13. QED
  BY <1>1, <1>2, <1>7, <1>8, <1>9, <1>10, <1>11, <1>12

\* A dial of the reconnect manager, at the client
LEMMA RedialStep ==
    ASSUME CloudInv, NEW c \in Client, Redial(c)
    PROVE  /\ CloudTypeOK' /\ Evolves /\ Steady
           /\ client[c].verdict \notin {"none", "waiting"} /\ client'[c].verdict = client[c].verdict
           /\ client'[c].ws = client[c].ws + 1
           /\ \A d \in Client : d # c => client'[d] = Sharing(c)[d]
<1>1. CloudTypeOK /\ client[c] \in ClientState
  BY DEF CloudInv, CloudTypeOK
<1>2. client[c].verdict \notin {"none", "waiting"}
  <2>1. client[c].timer \/ client[c].strays > 0
    BY DEF Redial
  <2>2. CASE client[c].verdict = "none"
    <3>1. client[c] = NewClient
      BY <2>2 DEF CloudInv, WaitsFresh, Fresh
    <3>2. client[c].timer = FALSE /\ client[c].strays = 0
      BY <3>1 DEF NewClient
    <3>3. QED
      BY <2>1, <3>2
  <2>3. CASE client[c].verdict = "waiting"
    <3>1. ~client[c].timer /\ client[c].strays = 0
      BY <2>3 DEF CloudInv, WaitsFresh, Fresh
    <3>2. QED
      BY <2>1, <3>1
  <2>4. QED
    BY <2>2, <2>3
<1>3. /\ Sharing(c) \in [Client -> ClientState]
      /\ \A d \in Client : Same(Sharing(c)[d], client[d])
      /\ Sharing(c)[c].verdict = client[c].verdict /\ Sharing(c)[c].strays = client[c].strays
  BY <1>1, SharingFacts
<1>4. MayDial(c) /\ client[c].ws + 1 \in 0..MaxDials /\ client[c].ws \in Nat
  BY <1>1, CloudConstants DEF Redial, MayDial, ClientState
<1>5. PICK r : /\ r \in ClientState
               /\ client' = [Sharing(c) EXCEPT ![c] = r]
               /\ r.ws = client[c].ws + 1 /\ r.verdict = client[c].verdict
               /\ Same([r EXCEPT !.ws = client[c].ws], client[c])
  <2> DEFINE a == [Sharing(c)[c] EXCEPT !.timer = FALSE, !.ws = client[c].ws + 1]
             b == [Sharing(c)[c] EXCEPT !.strays = client[c].strays - 1, !.ws = client[c].ws + 1]
  <2>0. Sharing(c)[c] \in ClientState /\ Sharing(c)[c].ws = client[c].ws
    BY <1>3 DEF Same
  <2>1. CASE client[c].timer /\ client' = [Sharing(c) EXCEPT ![c].timer = FALSE, ![c].ws = @ + 1]
    <3>1. client' = [Sharing(c) EXCEPT ![c] = a]
      BY <1>3, <2>0, <2>1
    <3>2. a \in ClientState /\ a.ws = client[c].ws + 1 /\ a.verdict = client[c].verdict
      BY <1>3, <1>4, <2>0 DEF ClientState
    <3>3. Same([a EXCEPT !.ws = client[c].ws], client[c])
      BY <1>3, <2>0 DEF Same, ClientState
    <3>4. QED
      BY <3>1, <3>2, <3>3
  <2>2. CASE /\ client[c].strays > 0
             /\ client' = [Sharing(c) EXCEPT ![c].strays = @ - 1, ![c].ws = @ + 1]
    <3>1. client' = [Sharing(c) EXCEPT ![c] = b]
      BY <1>3, <2>0, <2>2
    <3>2. client[c].strays - 1 \in Nat
      BY <1>1, <2>2 DEF ClientState
    <3>3. b \in ClientState /\ b.ws = client[c].ws + 1 /\ b.verdict = client[c].verdict
      BY <1>3, <1>4, <2>0, <3>2 DEF ClientState
    <3>4. Same([b EXCEPT !.ws = client[c].ws], client[c])
      BY <1>3, <2>0 DEF Same, ClientState
    <3>5. QED
      BY <3>1, <3>3, <3>4
  <2>3. QED
    BY <2>1, <2>2 DEF Redial
<1>6. client' \in [Client -> ClientState] /\ client'[c] = r
      /\ \A d \in Client : d # c => client'[d] = Sharing(c)[d]
  BY <1>3, <1>5
<1>7. Evolves /\ Steady /\ sock' \in [Socket -> SocketState]
  <2>1. sock' = Dialled(sock, c, client[c], TRUE)
    BY DEF Redial
  <2>2. \A d \in Client : d # c => Same(client'[d], client[d])
    BY <1>3, <1>6
  <2>3. client'[c].ws = client[c].ws + 1 /\ Same([client'[c] EXCEPT !.ws = client[c].ws], client[c])
    BY <1>5, <1>6
  <2>4. QED
    BY <1>1, <1>4, <1>6, <2>1, <2>2, <2>3, DialEvolves
<1>8. CloudTypeOK'
  <2>1. UNCHANGED <<memberSockets, toHost, toRelay, hostVars, faults>>
    BY DEF Redial, wire
  <2>2. QED
    BY <1>1, <1>6, <1>7, <2>1, TypesStay DEF CloudTypeOK
<1>9. QED
  BY <1>2, <1>5, <1>6, <1>7, <1>8
\* A client of which a socket is known has dialled
LEMMA HasDialled ==
    ASSUME CloudInv, NEW c \in Client, NEW i \in 1..MaxDials, sock[<<c, i>>].phase # "none"
    PROVE  i <= client[c].ws /\ client[c].ws \in Nat \ {0} /\ client[c].verdict # "none"
<1>1. i \in Nat \ {0} /\ client[c].ws \in Nat
  BY CloudConstants DEF CloudInv, CloudTypeOK, ClientState
<1>2. i <= client[c].ws
  BY DEF CloudInv, SocketsInOrder
<1>3. client[c].ws # 0
  BY <1>1, <1>2
<1>4. client[c].verdict # "none"
  <2>1. client[c].verdict = "none" => client[c] = NewClient
    BY DEF CloudInv, WaitsFresh, Fresh
  <2>2. NewClient.ws = 0
    BY DEF NewClient
  <2>3. QED
    BY <1>3, <2>1, <2>2
<1>5. QED
  BY <1>1, <1>2, <1>3, <1>4

\* A failed dial, at the client
LEMMA DialFailsStep ==
    ASSUME CloudInv, NEW c \in Client, NEW i \in 1..MaxDials, DialFails(c, i)
    PROVE  /\ CloudTypeOK' /\ Evolves /\ Steady
           /\ client'[c].verdict \notin {"none", "waiting"}
           /\ client'[c].ws = client[c].ws
           /\ \A d \in Client : d # c => client'[d] = client[d]
<1>1. CloudTypeOK /\ client[c] \in ClientState /\ sock[<<c, i>>] \in SocketState
  BY TypedSocket DEF CloudInv, CloudTypeOK
<1>2. sock[<<c, i>>].phase = "dialing" /\ ~sock[<<c, i>>].cut
  <2>1. sock[<<c, i>>].phase = "dialing"
    BY DEF DialFails
  <2>2. QED
    BY <2>1 DEF CloudInv, SocketsInOrder
<1>3. i \in Nat /\ sock[<<c, i>>].ladder \in BOOLEAN
  BY <1>1 DEF SocketState
<1> DEFINE r == AfterFailure(client[c], i, sock[<<c, i>>].ladder)
           b == [sock[<<c, i>>] EXCEPT !.phase = "closed"]
<1>4. r \in ClientState /\ Same(r, client[c]) /\ Over(r, client[c])
  BY <1>1, <1>3, AfterFailureFacts
<1>5. client' = [client EXCEPT ![c] = r] /\ sock' = [sock EXCEPT ![<<c, i>>] = b]
  BY DEF DialFails
<1>6. b \in SocketState /\ Ages(sock[<<c, i>>], b)
  BY <1>1, <1>2 DEF SocketState, Ages
<1> HIDE DEF r, b
<1>7. /\ client' \in [Client -> ClientState] /\ client'[c] = r
      /\ \A d \in Client : d # c => client'[d] = client[d]
  BY <1>1, <1>4, <1>5 DEF CloudTypeOK
<1>8. \A d \in Client : Same(client'[d], client[d])
  BY <1>4, <1>7 DEF Same
<1>9. Evolves /\ Steady /\ sock' \in [Socket -> SocketState]
  BY <1>1, <1>5, <1>6, <1>8, OneEvolves
<1>10. CloudTypeOK'
  <2>1. UNCHANGED <<memberSockets, toHost, toRelay, hostVars>> /\ faults' = faults \cup {"dial"}
    BY DEF DialFails, wire
  <2>2. faults' \subseteq {"dial", "loss", "refusal"}
    BY <1>1, <2>1 DEF CloudTypeOK
  <2>3. QED
    BY <1>1, <1>7, <1>9, <2>1, <2>2, TypesStay
<1>11. client'[c].verdict \notin {"none", "waiting"}
  BY <1>2, <1>4, <1>7, HasDialled DEF Over
<1>12. QED
  BY <1>4, <1>7, <1>9, <1>10, <1>11 DEF Same

\* A lost connection, at the client
LEMMA LoseStep ==
    ASSUME CloudInv, NEW c \in Client, NEW i \in 1..MaxDials, Lose(c, i)
    PROVE  /\ CloudTypeOK' /\ Evolves /\ Steady
           /\ sock'[<<c, i>>].cut
           /\ \A s \in Socket : s # <<c, i>> => sock'[s] = sock[s]
           /\ \A s \in Socket : sock'[s].phase = sock[s].phase
<1>1. CloudTypeOK /\ sock[<<c, i>>] \in SocketState /\ <<c, i>> \in Socket
  BY TypedSocket DEF CloudInv
<1>2. sock[<<c, i>>].phase \in {"open", "closing"}
  BY DEF Lose
<1> DEFINE b == [sock[<<c, i>>] EXCEPT !.cut = TRUE]
<1>3. sock' = [sock EXCEPT ![<<c, i>>] = b] /\ client' = client
  BY DEF Lose
<1>4. b \in SocketState /\ Ages(sock[<<c, i>>], b) /\ b.cut /\ b.phase = sock[<<c, i>>].phase
  BY <1>1, <1>2 DEF SocketState, Ages
<1> HIDE DEF b
<1>5. \A d \in Client : Same(client'[d], client[d])
  BY <1>3 DEF Same
<1>6. Evolves /\ Steady /\ sock' \in [Socket -> SocketState]
  BY <1>1, <1>3, <1>4, <1>5, OneEvolves
<1>7. CloudTypeOK'
  <2>1. UNCHANGED <<memberSockets, toHost, toRelay, hostVars>> /\ faults' = faults \cup {"loss"}
    BY DEF Lose, wire
  <2>2. faults' \subseteq {"dial", "loss", "refusal"}
    BY <1>1, <2>1 DEF CloudTypeOK
  <2>3. client' \in [Client -> ClientState]
    BY <1>1, <1>3 DEF CloudTypeOK
  <2>4. QED
    BY <1>1, <1>6, <2>1, <2>2, <2>3, TypesStay
<1>8. sock'[<<c, i>>] = b /\ \A s \in Socket : s # <<c, i>> => sock'[s] = sock[s]
  BY <1>1, <1>3 DEF CloudTypeOK
<1>9. QED
  BY <1>4, <1>6, <1>7, <1>8

\* A close event, at the client
LEMMA SocketClosedStep ==
    ASSUME CloudInv, NEW c \in Client, NEW i \in 1..MaxDials, SocketClosed(c, i)
    PROVE  /\ CloudTypeOK' /\ Evolves /\ Steady
           /\ client'[c].verdict \notin {"none", "waiting"}
           /\ client'[c].ws = client[c].ws
           /\ \A d \in Client : d # c => client'[d] = client[d]
<1>1. CloudTypeOK /\ client[c] \in ClientState /\ sock[<<c, i>>] \in SocketState
  BY TypedSocket DEF CloudInv, CloudTypeOK
<1>2. sock[<<c, i>>].phase \in {"open", "closing"}
  BY DEF SocketClosed
<1> DEFINE r == AfterClose(client[c], IF sock[<<c, i>>].cut THEN 1006 ELSE 1000)
           b == [sock[<<c, i>>] EXCEPT !.phase = "closed"]
<1>3. r \in ClientState /\ Same(r, client[c]) /\ Over(r, client[c])
  BY <1>1, AfterCloseFacts
<1>4. client' = [client EXCEPT ![c] = r] /\ sock' = [sock EXCEPT ![<<c, i>>] = b]
  BY DEF SocketClosed
<1>5. b \in SocketState /\ Ages(sock[<<c, i>>], b)
  BY <1>1, <1>2 DEF SocketState, Ages
<1> HIDE DEF r, b
<1>6. /\ client' \in [Client -> ClientState] /\ client'[c] = r
      /\ \A d \in Client : d # c => client'[d] = client[d]
  BY <1>1, <1>3, <1>4 DEF CloudTypeOK
<1>7. \A d \in Client : Same(client'[d], client[d])
  BY <1>3, <1>6 DEF Same
<1>8. Evolves /\ Steady /\ sock' \in [Socket -> SocketState]
  BY <1>1, <1>4, <1>5, <1>7, OneEvolves
<1>9. CloudTypeOK'
  <2>1. UNCHANGED <<memberSockets, toHost, toRelay, hostVars, faults>>
    BY DEF SocketClosed, wire
  <2>2. QED
    BY <1>1, <1>6, <1>8, <2>1, TypesStay DEF CloudTypeOK
<1>10. client'[c].verdict \notin {"none", "waiting"}
  BY <1>2, <1>3, <1>6, HasDialled DEF Over
<1>11. QED
  BY <1>3, <1>6, <1>8, <1>9, <1>10 DEF Same

\* A member leaves, at the client
LEMMA DisconnectStep ==
    ASSUME CloudInv, NEW c \in Client, Disconnect(c)
    PROVE  /\ CloudTypeOK' /\ Evolves /\ Steady
           /\ client'[c].verdict = "true"
           /\ client'[c].ws = client[c].ws
           /\ \A d \in Client : d # c => client'[d] = client[d]
<1> DEFINE s == <<c, client[c].ws>>
           w == IF sock[s].phase = "dialing" THEN 0 ELSE client[c].swap
           r == [client[c] EXCEPT !.left = TRUE, !.swapped = FALSE, !.timer = FALSE, !.swap = w]
<1>1. /\ CloudTypeOK /\ client[c] \in ClientState /\ client[c].verdict = "true"
      /\ sock \in [Socket -> SocketState]
  BY DEF CloudInv, CloudTypeOK, Disconnect
<1>2. client' = [client EXCEPT ![c] = r] /\ sock' = Shut(sock, s)
  BY DEF Disconnect
<1>3. w \in 0..MaxDials
  BY <1>1, CloudConstants DEF ClientState
<1> HIDE DEF w
<1>4. /\ r \in ClientState /\ r.verdict = "true" /\ r.left
      /\ r.me = client[c].me /\ r.token = client[c].token /\ r.roster = client[c].roster
      /\ r.ws = client[c].ws
  BY <1>1, <1>3 DEF ClientState
<1> HIDE DEF r
<1>5. /\ client' \in [Client -> ClientState] /\ client'[c] = r
      /\ \A d \in Client : d # c => client'[d] = client[d]
  BY <1>1, <1>2, <1>4 DEF CloudTypeOK
<1>6. Steady
  BY <1>4, <1>5 DEF Steady
<1>7. sock' \in [Socket -> SocketState] /\ \A x \in Socket : x # s => sock'[x] = sock[x]
  BY <1>1, <1>2, ShutFacts
<1>8. s \in Socket => sock'[s] = sock[s] \/ Ages(sock[s], sock'[s])
  <2> SUFFICES ASSUME s \in Socket PROVE sock'[s] = sock[s] \/ Ages(sock[s], sock'[s])
    OBVIOUS
  <2>1. /\ sock'[s].sub = sock[s].sub /\ sock'[s].cut = sock[s].cut
        /\ sock'[s].phase = IF sock[s].phase = "open" THEN "closing"
                            ELSE IF sock[s].phase = "dialing" THEN "closed" ELSE sock[s].phase
    BY <1>1, <1>2, ShutFacts
  <2>2. sock[s] \in SocketState /\ sock'[s] \in SocketState
    BY <1>1, <1>7
  <2>3. CASE sock[s].phase \in {"open", "dialing"}
    <3>1. s[1] \in Client /\ s[2] \in 1..MaxDials /\ s = <<s[1], s[2]>>
      BY DEF Socket
    <3>2. sock[s].cut => sock[s].phase \in {"open", "closing", "closed"}
      BY <3>1 DEF CloudInv, SocketsInOrder
    <3>3. QED
      BY <2>1, <2>2, <2>3, <3>2 DEF Ages, SocketState
  <2>4. CASE sock[s].phase = "none"
    <3>1. sock'[s] = sock[s]
      BY <1>1, <1>2, <2>4, ShutFacts
    <3>2. QED
      BY <3>1
  <2>5. CASE sock[s].phase \in {"closing", "closed"}
    BY <2>1, <2>2, <2>5 DEF Ages, SocketState
  <2>6. QED
    BY <2>2, <2>3, <2>4, <2>5 DEF SocketState
<1>9. Evolves
  <2> HIDE DEF s
  <2>1. \A d \in Client : client'[d].ws >= client[d].ws
    <3>1. \A d \in Client : client'[d].ws = client[d].ws
      BY <1>4, <1>5
    <3>2. \A d \in Client : client[d].ws \in Nat
      BY <1>1, CloudConstants DEF CloudTypeOK, ClientState
    <3>3. QED
      BY <3>1, <3>2
  <2>2. \A x \in Socket : sock'[x] = sock[x] \/ Ages(sock[x], sock'[x])
    BY <1>7, <1>8
  <2>3. \A d \in Client, i \in 1..MaxDials : <<d, i>> \in Socket
    BY DEF Socket
  <2>4. QED
    BY <2>1, <2>2, <2>3 DEF Evolves
<1>10. CloudTypeOK'
  <2>1. UNCHANGED <<memberSockets, toHost, toRelay, hostVars, faults>>
    BY DEF Disconnect, wire
  <2>2. QED
    BY <1>1, <1>5, <1>7, <2>1, TypesStay DEF CloudTypeOK
<1>11. QED
  BY <1>4, <1>5, <1>6, <1>9, <1>10

\* A client's step touches no socket of another
LEMMA OwnSocketsOnly ==
    ASSUME CloudTypeOK, NEW c \in Client, ClientStep(c)
    PROVE  \A s \in Socket : s[1] # c => sock'[s] = sock[s]
<1>0. /\ sock \in [Socket -> SocketState] /\ client[c] \in ClientState
  BY DEF CloudTypeOK
<1>1. \A sk \in [Socket -> SocketState], ladder \in BOOLEAN :
        MayDial(c) => \A s \in Socket : s[1] # c => Dialled(sk, c, client[c], ladder)[s] = sk[s]
  BY DEF Dialled
<1>2. CASE Join(c)
  BY <1>0, <1>1, <1>2 DEF Join
<1>3. CASE Redial(c)
  BY <1>0, <1>1, <1>3 DEF Redial
<1>4. CASE Disconnect(c)
  <2>1. sock' = Shut(sock, <<c, client[c].ws>>)
    BY <1>4 DEF Disconnect
  <2>2. PICK x : x = <<c, client[c].ws>>
    OBVIOUS
  <2>3. \A s \in Socket : s # x => sock'[s] = sock[s]
    BY <1>0, <2>1, <2>2, ShutFacts
  <2>4. QED
    BY <2>2, <2>3
<1>5. ASSUME NEW i \in 1..MaxDials, Opened(c, i)
      PROVE  \A s \in Socket : s[1] # c => sock'[s] = sock[s]
  BY <1>0, <1>5 DEF Opened
<1>6. ASSUME NEW i \in 1..MaxDials, DialFails(c, i)
      PROVE  \A s \in Socket : s[1] # c => sock'[s] = sock[s]
  BY <1>0, <1>6 DEF DialFails
<1>7. ASSUME NEW i \in 1..MaxDials, Lose(c, i)
      PROVE  \A s \in Socket : s[1] # c => sock'[s] = sock[s]
  BY <1>0, <1>7 DEF Lose
<1>8. ASSUME NEW i \in 1..MaxDials, SocketClosed(c, i)
      PROVE  \A s \in Socket : s[1] # c => sock'[s] = sock[s]
  BY <1>0, <1>8 DEF SocketClosed
<1>9. QED
  BY <1>2, <1>3, <1>4, <1>5, <1>6, <1>7, <1>8 DEF ClientStep

\* A socket is attached once, whatever it sends
LEMMA Attached ==
    ASSUME NEW S, NEW q \in Seq(S), IsInjective(q), NEW s \in S
    PROVE  LET a == IF s \in ToSet(q) THEN q ELSE Append(q, s) IN
           a \in Seq(S) /\ ToSet(a) = ToSet(q) \cup {s} /\ IsInjective(a)
<1>1. CASE s \in ToSet(q)
  BY <1>1
<1>2. CASE s \notin ToSet(q)
  <2> DEFINE a == Append(q, s)
  <2>1. /\ a \in Seq(S) /\ ToSet(a) = ToSet(q) \cup {s}
        /\ DOMAIN a = 1..Len(q) + 1
        /\ \A k \in 1..Len(q) : a[k] = q[k]
        /\ a[Len(q) + 1] = s
    BY Appended
  <2>2. \A k \in 1..Len(q) : q[k] # s
    BY <1>2, InQueue
  <2>3. IsInjective(a)
    <3> SUFFICES ASSUME NEW j \in 1..Len(q) + 1, NEW k \in 1..Len(q) + 1, a[j] = a[k] PROVE j = k
      BY <2>1 DEF IsInjective
    <3>1. Len(q) \in Nat /\ DOMAIN q = 1..Len(q)
      OBVIOUS
    <3>2. \A m \in 1..Len(q) + 1 : m \in 1..Len(q) \/ m = Len(q) + 1
      BY <3>1
    <3> HIDE DEF a
    <3>3. CASE j \in 1..Len(q) /\ k \in 1..Len(q)
      <4>1. q[j] = q[k]
        BY <2>1, <3>3
      <4>2. QED
        BY <3>1, <3>3, <4>1 DEF IsInjective
    <3>4. QED
      BY <2>1, <2>2, <3>2, <3>3
  <2>4. QED
    BY <1>2, <2>1, <2>3
<1>3. QED
  BY <1>1, <1>2

\* A socket has opened and the client has asked for its seat
LEMMA OpenedStep ==
    ASSUME CloudInv, NEW c \in Client, NEW i \in 1..MaxDials, Opened(c, i)
    PROVE  LET s == <<c, client[c].ws>> IN
           /\ CloudTypeOK' /\ Evolves /\ Steady
           /\ Same(client'[c], client[c])
           /\ client'[c].verdict = client[c].verdict /\ client'[c].shared = client[c].shared
           /\ client'[c].strays = client[c].strays
           /\ client[c].timer = FALSE => client'[c].timer = FALSE
           /\ client'[c].swap \in {0, client[c].swap}
           /\ client[c].verdict # "none"
           /\ \A d \in Client : d # c => client'[d] = client[d]
           /\ sock[<<c, i>>].phase = "dialing" /\ sock'[<<c, i>>].phase = "open"
           /\ ~sock'[<<c, i>>].cut
           /\ \A x \in Socket : x # <<c, i>> => sock'[x] = sock[x]
           /\ IsInjective(memberSockets)'
           /\ \/ /\ UNCHANGED <<memberSockets, toHost>>
                 /\ sock'[s].phase = "open" => sock'[s].cut
              \/ /\ s \in Socket /\ sock'[s].phase = "open" /\ ~sock'[s].cut
                 /\ ToSet(memberSockets)' = ToSet(memberSockets) \cup {s}
                 /\ toHost' = Append(toHost,
                      [type |-> "auth-request", sub |-> sock'[s].sub, by |-> c])
<1> DEFINE s == <<c, client[c].ws>>
           b == [sock[<<c, i>>] EXCEPT !.phase = "open"]
           w == IF i = client[c].swap THEN 0 ELSE client[c].swap
           tm == client[c].timer /\ ~sock[<<c, i>>].ladder
           r == [client[c] EXCEPT !.swap = w, !.timer = tm]
           e == [type |-> "auth-request", sub |-> sock'[s].sub, by |-> c]
<1>1. /\ CloudTypeOK /\ client[c] \in ClientState /\ sock[<<c, i>>] \in SocketState
      /\ <<c, i>> \in Socket
      /\ sock \in [Socket -> SocketState]
  BY TypedSocket DEF CloudInv, CloudTypeOK
<1>2. sock[<<c, i>>].phase = "dialing" /\ ~sock[<<c, i>>].cut
  <2>1. sock[<<c, i>>].phase = "dialing"
    BY DEF Opened
  <2>2. QED
    BY <2>1 DEF CloudInv, SocketsInOrder
<1>3. client[c].ws \in 1..MaxDials /\ client[c].verdict # "none"
  <2>1. i <= client[c].ws /\ client[c].ws \in Nat \ {0} /\ client[c].verdict # "none"
    BY <1>2, HasDialled
  <2>2. QED
    BY <1>1, <2>1, CloudConstants DEF ClientState
<1>4. s \in Socket
  BY <1>3 DEF Socket
<1>5. sock' = [sock EXCEPT ![<<c, i>>] = b] /\ client' = [client EXCEPT ![c] = r]
  BY <1>1 DEF Opened, CloudTypeOK
<1>6. b \in SocketState /\ Ages(sock[<<c, i>>], b) /\ b.phase = "open" /\ ~b.cut
  BY <1>1, <1>2 DEF SocketState, Ages
<1>7. w \in 0..MaxDials /\ tm \in BOOLEAN /\ (client[c].timer = FALSE => tm = FALSE)
           /\ w \in {0, client[c].swap}
  BY <1>1, CloudConstants DEF ClientState
<1> HIDE DEF w, tm
<1>8. /\ r \in ClientState /\ Same(r, client[c]) /\ r.verdict = client[c].verdict
      /\ r.shared = client[c].shared /\ r.strays = client[c].strays /\ r.swap = w /\ r.timer = tm
  BY <1>1, <1>7 DEF ClientState, Same
<1> HIDE DEF r, b
<1>9. /\ client' \in [Client -> ClientState] /\ client'[c] = r
      /\ \A d \in Client : d # c => client'[d] = client[d]
  BY <1>1, <1>5, <1>8 DEF CloudTypeOK
<1>10. sock'[<<c, i>>] = b /\ \A x \in Socket : x # <<c, i>> => sock'[x] = sock[x]
  BY <1>1, <1>5
<1>11. \A d \in Client : Same(client'[d], client[d])
  BY <1>8, <1>9 DEF Same
<1>12. Evolves /\ Steady /\ sock' \in [Socket -> SocketState]
  BY <1>1, <1>5, <1>6, <1>11, OneEvolves
<1>13. Asks(c, sock') /\ UNCHANGED <<toRelay, hostVars, faults>>
  BY DEF Opened
<1>14. sock'[s] \in SocketState
  BY <1>4, <1>12
<1>15. CASE ~(sock'[s].phase = "open" /\ ~sock'[s].cut)
  <2>1. UNCHANGED <<memberSockets, toHost>>
    BY <1>13, <1>15 DEF Asks
  <2>2. IsInjective(memberSockets)'
    BY <2>1 DEF CloudInv, SocketsInOrder, IsInjective
  <2>3. CloudTypeOK'
    BY <1>1, <1>9, <1>12, <1>13, <2>1, TypesStay DEF CloudTypeOK
  <2>4. QED
    BY <1>2, <1>3, <1>6, <1>7, <1>8, <1>9, <1>10, <1>12, <1>14, <1>15, <2>1, <2>2, <2>3
<1>16. CASE sock'[s].phase = "open" /\ ~sock'[s].cut
  <2>1. /\ memberSockets' = IF s \in ToSet(memberSockets) THEN memberSockets
                            ELSE Append(memberSockets, s)
        /\ toHost' = Append(toHost, e)
    BY <1>13, <1>16 DEF Asks
  <2>2. memberSockets \in Seq(Socket) /\ toHost \in Seq(HostBound) /\ IsInjective(memberSockets)
    BY <1>1 DEF CloudTypeOK, CloudInv, SocketsInOrder
  <2>3. e \in HostBound
    BY <1>14 DEF HostBound, SocketState
  <2>4. toHost' \in Seq(HostBound)
    <3> HIDE DEF e
    <3>1. QED
      BY <2>1, <2>2, <2>3
  <2>7. /\ memberSockets' \in Seq(Socket) /\ ToSet(memberSockets)' = ToSet(memberSockets) \cup {s}
        /\ IsInjective(memberSockets)'
    <3> DEFINE a == IF s \in ToSet(memberSockets) THEN memberSockets ELSE Append(memberSockets, s)
    <3>1. a \in Seq(Socket) /\ ToSet(a) = ToSet(memberSockets) \cup {s} /\ IsInjective(a)
      BY <1>4, <2>2, Attached
    <3>2. memberSockets' = a
      BY <2>1
    <3> HIDE DEF a
    <3>3. QED
      BY <3>1, <3>2 DEF ToSet, IsInjective
  <2>8. CloudTypeOK'
    BY <1>1, <1>9, <1>12, <1>13, <2>4, <2>7 DEF CloudTypeOK, hostVars
  <2>9. QED
    BY <1>2, <1>3, <1>4, <1>6, <1>7, <1>8, <1>9, <1>10, <1>12, <1>16, <2>1, <2>7, <2>8
<1>17. QED
  BY <1>15, <1>16

\* Nothing a client or the host does makes another use the bootstrap token, but its dial
LEMMA StaysUnshared ==
    ASSUME CloudTypeOK, SocketsInOrder, Evolves, NEW d \in Client, ~SharesBootstrap(d),
           \A c \in Client : c # d /\ client'[c].ws # client[c].ws => client'[c].token # Boot,
           \A s \in ToSet(memberSockets)' : s \in ToSet(memberSockets)
                \/ (s \in Socket /\ sock'[s].phase = "open"),
           \A f \in ToSet(toHost)' : f \in ToSet(toHost) \/ f.by = d \/ f.sub # Boot,
           \A t \in ToSet(issuing)' : t \in ToSet(issuing) \/ t.by = d \/ t.key # Boot
    PROVE  ~SharesBootstrap(d)'
<1>1. /\ \A s \in Socket : s[1] # d /\ sock[s].sub = Boot =>
           /\ sock[s].phase \notin {"dialing", "open", "closing"}
           /\ s \notin ToSet(memberSockets)
      /\ \A f \in ToSet(toHost) : f.sub # Boot \/ f.by = d
      /\ \A t \in ToSet(issuing) : t.key # Boot \/ t.by = d
  BY DEF SharesBootstrap
<1>2. ASSUME NEW s \in Socket, s[1] # d, sock'[s].sub = Boot
      PROVE  sock'[s].phase \notin {"dialing", "open", "closing"} /\ s \notin ToSet(memberSockets)'
  <2>1. s[1] \in Client /\ s[2] \in 1..MaxDials /\ s = <<s[1], s[2]>> /\ sock[s] \in SocketState
    BY OfSocket DEF CloudTypeOK
  <2>2. client[s[1]].ws \in Nat /\ client'[s[1]].ws >= client[s[1]].ws
    BY <2>1, TypedSocket DEF Evolves
  <2>3. \/ sock'[s] = sock[s]
        \/ Ages(sock[s], sock'[s])
        \/ /\ s[2] = client[s[1]].ws + 1 /\ client'[s[1]].ws = s[2]
           /\ sock'[s].sub = client'[s[1]].token
    BY <2>1 DEF Evolves
  <2>4. ~(s[2] = client[s[1]].ws + 1 /\ client'[s[1]].ws = s[2]
          /\ sock'[s].sub = client'[s[1]].token)
    <3> SUFFICES ASSUME s[2] = client[s[1]].ws + 1, client'[s[1]].ws = s[2],
                        sock'[s].sub = client'[s[1]].token
                 PROVE  FALSE
      OBVIOUS
    <3>1. client'[s[1]].ws # client[s[1]].ws
      BY <2>2
    <3>2. client'[s[1]].token # Boot
      BY <1>2, <2>1, <3>1
    <3>3. QED
      BY <1>2, <3>2
  <2>5. /\ sock[s].sub = Boot
        /\ (sock[s].phase \in {"none", "closed"} => sock'[s].phase \in {"none", "closed"})
    BY <1>2, <2>3, <2>4 DEF Ages
  <2>6. sock[s].phase \in {"none", "closed"} /\ s \notin ToSet(memberSockets)
    BY <1>1, <1>2, <2>1, <2>5 DEF SocketState
  <2>7. QED
    BY <2>5, <2>6
<1>3. \A f \in ToSet(toHost)' : f.sub # Boot \/ f.by = d
  BY <1>1
<1>4. \A t \in ToSet(issuing)' : t.key # Boot \/ t.by = d
  BY <1>1
<1>5. QED
  BY <1>2, <1>3, <1>4 DEF SharesBootstrap

\* The answer a joiner waits for stays on its way when things are added to it
LEMMA AnswerKept ==
    ASSUME NEW d \in Client, Answerable(d), ~SharesBootstrap(d)',
           client'[d].ws = client[d].ws, sock'[<<d, 1>>] = sock[<<d, 1>>],
           \A f \in ToSet(toHost)' : f \in ToSet(toHost) \/ f.sub # Boot \/ f.type = "auth-request",
           \A f \in ToSet(toHost) : f.sub = Boot => f \in ToSet(toHost)',
           <<d, 1>> \in ToSet(memberSockets) => <<d, 1>> \in ToSet(memberSockets)',
           Boot \in virt => Boot \in virt',
           \A t \in ToSet(issuing) : t.key = Boot => t \in ToSet(issuing)',
           \A f \in ToSet(toRelay) : f.target = Boot => f \in ToSet(toRelay)'
    PROVE  Answerable(d)'
<1> SUFFICES ASSUME client[d].ws = 1, ~sock[<<d, 1>>].cut
             PROVE  /\ \A f \in ToSet(toHost)' : f.sub = Boot => f.type = "auth-request"
                    /\ sock[<<d, 1>>].phase = "open" =>
                         /\ <<d, 1>> \in ToSet(memberSockets)'
                         /\ \/ \E f \in ToSet(toHost)' : f.sub = Boot
                            \/ Boot \in virt' /\ \E t \in ToSet(issuing)' : t.key = Boot
                            \/ \E f \in ToSet(toRelay)' : f.target = Boot
  BY DEF Answerable
<1>1. /\ \A f \in ToSet(toHost) : f.sub = Boot => f.type = "auth-request"
      /\ sock[<<d, 1>>].phase = "open" =>
           /\ <<d, 1>> \in ToSet(memberSockets)
           /\ \/ \E f \in ToSet(toHost) : f.sub = Boot
              \/ Boot \in virt /\ \E t \in ToSet(issuing) : t.key = Boot
              \/ \E f \in ToSet(toRelay) : f.target = Boot
  BY DEF Answerable
<1>2. QED
  BY <1>1

\* The other clients, after a step of one
OthersStand(c) ==
    \/ client'[c].ws = client[c].ws /\ \A d \in Client : d # c => client'[d] = client[d]
    \/ \A d \in Client : d # c => client'[d] = Sharing(c)[d]

\* The other clients wait as they did
LEMMA OthersFresh ==
    ASSUME CloudInv, NEW c \in Client, ClientStep(c), OthersStand(c), NEW d \in Client, d # c
    PROVE  Fresh(d)'
<1>1. CloudTypeOK /\ Fresh(d) /\ client[d] \in ClientState
  BY DEF CloudInv, WaitsFresh, CloudTypeOK
<1>2. /\ Same(client'[d], client[d]) /\ client'[d].verdict = client[d].verdict
      /\ client'[d].timer = client[d].timer /\ client'[d].strays = client[d].strays
      /\ client'[d].swap = client[d].swap
      /\ client[d].verdict # "waiting" => client'[d] = client[d]
  BY <1>1, SharingFacts DEF OthersStand, Same
<1>3. CASE client[d].verdict = "waiting"
  <2>1. client[d].ws \in {1, 2} /\ client[d].ws <= MaxDials
    BY <1>1, <1>3, CloudConstants DEF Fresh, ClientState
  <2>2. <<d, 1>> \in Socket
    BY <2>1, CloudConstants DEF Socket
  <2>3. sock'[<<d, 1>>] = sock[<<d, 1>>]
    BY <1>1, <2>2, OwnSocketsOnly
  <2>4. QED
    BY <1>1, <1>2, <1>3, <2>3 DEF Fresh, Same
<1>4. CASE client[d].verdict # "waiting"
  BY <1>1, <1>2, <1>4 DEF Fresh
<1>5. QED
  BY <1>3, <1>4

\* The other clients are answered as they would have been
LEMMA OthersAnswered ==
    ASSUME CloudInv, NEW c \in Client, ClientStep(c), Evolves, Steady, OthersStand(c),
           NEW d \in Client, d # c, client'[d].verdict = "waiting", ~client'[d].shared,
           UNCHANGED <<toRelay, hostVars>>,
           ToSet(memberSockets) \subseteq ToSet(memberSockets)',
           \A s \in ToSet(memberSockets)' : s \in ToSet(memberSockets)
                \/ (s \in Socket /\ sock'[s].phase = "open"),
           ToSet(toHost) \subseteq ToSet(toHost)',
           \A f \in ToSet(toHost)' :
              f \in ToSet(toHost)
                \/ (f.type = "auth-request" /\ (~SharesBootstrap(d) => f.sub # Boot))
    PROVE  Answerable(d)'
<1>1. CloudTypeOK /\ SocketsInOrder /\ client[d] \in ClientState
  BY DEF CloudInv, CloudTypeOK
<1>2. /\ Same(client'[d], client[d]) /\ client[d].verdict = "waiting" /\ ~client[d].shared
  BY <1>1, SharingFacts DEF OthersStand, Same
<1>3. Answerable(d) /\ ~SharesBootstrap(d)
  BY <1>2 DEF CloudInv, WaitsForAnswer, Answerable
<1>4. ASSUME NEW e \in Client, e # d, client'[e].ws # client[e].ws PROVE client'[e].token # Boot
  <2>1. e = c /\ client'[d] = Sharing(c)[d]
    BY <1>1, <1>4, SharingFacts DEF OthersStand, Same
  <2>2. client[c].token # Boot
    BY <1>1, <1>2, <2>1, SharingFacts
  <2>3. QED
    BY <2>1, <2>2 DEF Steady
<1>5. UNCHANGED <<ToSet(issuing), ToSet(toRelay), virt>>
  BY DEF hostVars, ToSet
<1>6. ~SharesBootstrap(d)'
  BY <1>1, <1>3, <1>4, <1>5, StaysUnshared
<1>7. sock'[<<d, 1>>] = sock[<<d, 1>>]
  <2>0. Fresh(d)
    BY DEF CloudInv, WaitsFresh
  <2>1. client[d].ws \in {1, 2} /\ client[d].ws <= MaxDials
    BY <1>1, <1>2, <2>0, CloudConstants DEF Fresh, ClientState
  <2>2. <<d, 1>> \in Socket
    BY <2>1, CloudConstants DEF Socket
  <2>3. QED
    BY <1>1, <2>2, OwnSocketsOnly
<1>8. client'[d].ws = client[d].ws
  BY <1>2 DEF Same
<1>9. QED
  BY <1>3, <1>5, <1>6, <1>7, <1>8, AnswerKept

-----------------------------------------------------------------------------
(* The steps of a joiner *)

\* The first dial preserves the invariant
LEMMA JoinKeeps ==
    ASSUME CloudInv, NEW c \in Client, Join(c)
    PROVE  CloudInv'
<1>1. /\ CloudTypeOK' /\ Evolves /\ Steady
      /\ client[c] = NewClient /\ client'[c].ws = 1 /\ client'[c].shared = Sharing(c)[c].shared
      /\ client'[c].verdict = "waiting" /\ client'[c].token = Boot
      /\ client'[c].timer = FALSE /\ client'[c].strays = 0 /\ client'[c].swap = 0
      /\ ~client'[c].left /\ ~client'[c].swapped
      /\ \A d \in Client : d # c => client'[d] = Sharing(c)[d]
      /\ sock'[<<c, 1>>].phase = "dialing"
  BY JoinStep
<1>2. UNCHANGED <<memberSockets, toHost, toRelay, hostVars>> /\ OthersStand(c) /\ ClientStep(c)
  BY <1>1 DEF Join, wire, OthersStand, ClientStep
<1>3. /\ SocketsInOrder' /\ NamesItself' /\ HandedOnce' /\ OwnIdentity'
      /\ AskersHeld' /\ SeatIsHeld' /\ Informed'
  BY <1>1, <1>2, TransportStep
<1>4. ASSUME NEW d \in Client PROVE Fresh(d)'
  <2>1. CASE d = c
    BY <1>1, <2>1 DEF Fresh
  <2>2. CASE d # c
    BY <1>2, <2>2, OthersFresh
  <2>3. QED
    BY <2>1, <2>2
<1>5. ASSUME NEW d \in Client, client'[d].verdict = "waiting", ~client'[d].shared
      PROVE  Answerable(d)'
  <2>0. UNCHANGED <<ToSet(memberSockets), ToSet(toHost), ToSet(issuing)>>
    BY <1>2 DEF ToSet, hostVars
  <2>1. CASE d # c
    BY <1>1, <1>2, <1>5, <2>0, <2>1, OthersAnswered
  <2>2. CASE d = c
    <3>1. CloudTypeOK /\ SocketsInOrder /\ client[c].ws = 0 /\ client[c].token = Boot
      BY <1>1 DEF CloudInv, NewClient
    <3>2. ~SharesBootstrap(c)
      BY <1>1, <1>5, <2>2, <3>1, SharingFacts
    <3>3. \A e \in Client : e # c => client'[e].ws = client[e].ws
      BY <1>1, <3>1, SharingFacts DEF Same
    <3>4. ~SharesBootstrap(c)'
      BY <1>1, <2>0, <3>1, <3>2, <3>3, StaysUnshared
    <3>5. ASSUME NEW f \in ToSet(toHost), f.sub = Boot PROVE FALSE
      BY <3>1, <3>2, <3>5 DEF SocketsInOrder, SharesBootstrap
    <3>6. QED
      BY <1>1, <2>0, <2>2, <3>4, <3>5 DEF Answerable
  <2>3. QED
    BY <2>1, <2>2
<1>6. QED
  BY <1>1, <1>3, <1>4, <1>5 DEF CloudInv, WaitsFresh, WaitsForAnswer

\* A dial of the reconnect manager preserves the invariant
LEMMA RedialKeeps ==
    ASSUME CloudInv, NEW c \in Client, Redial(c)
    PROVE  CloudInv'
<1>1. /\ CloudTypeOK' /\ Evolves /\ Steady
      /\ client[c].verdict \notin {"none", "waiting"} /\ client'[c].verdict = client[c].verdict
      /\ \A d \in Client : d # c => client'[d] = Sharing(c)[d]
  BY RedialStep
<1>2. UNCHANGED <<memberSockets, toHost, toRelay, hostVars>> /\ OthersStand(c) /\ ClientStep(c)
  BY <1>1 DEF Redial, wire, OthersStand, ClientStep
<1>3. /\ SocketsInOrder' /\ NamesItself' /\ HandedOnce' /\ OwnIdentity'
      /\ AskersHeld' /\ SeatIsHeld' /\ Informed'
  BY <1>1, <1>2, TransportStep
<1>4. ASSUME NEW d \in Client PROVE Fresh(d)'
  <2>1. CASE d = c
    BY <1>1, <2>1 DEF Fresh
  <2>2. CASE d # c
    BY <1>2, <2>2, OthersFresh
  <2>3. QED
    BY <2>1, <2>2
<1>5. ASSUME NEW d \in Client, client'[d].verdict = "waiting", ~client'[d].shared
      PROVE  Answerable(d)'
  <2>0. UNCHANGED <<ToSet(memberSockets), ToSet(toHost)>>
    BY <1>2 DEF ToSet
  <2>1. d # c
    BY <1>1, <1>5
  <2>2. QED
    BY <1>1, <1>2, <1>5, <2>0, <2>1, OthersAnswered
<1>6. QED
  BY <1>1, <1>3, <1>4, <1>5 DEF CloudInv, WaitsFresh, WaitsForAnswer

\* A step of the transport after which its client waits no longer
LEMMA SettlingKeeps ==
    ASSUME CloudInv, NEW c \in Client, ClientStep(c), CloudTypeOK', Evolves, Steady,
           UNCHANGED <<memberSockets, toHost, toRelay, hostVars>>,
           client'[c].verdict \notin {"none", "waiting"}, client'[c].ws = client[c].ws,
           \A d \in Client : d # c => client'[d] = client[d]
    PROVE  CloudInv'
<1>1. OthersStand(c) /\ UNCHANGED <<ToSet(memberSockets), ToSet(toHost)>>
  BY DEF OthersStand, ToSet
<1>2. /\ SocketsInOrder' /\ NamesItself' /\ HandedOnce' /\ OwnIdentity'
      /\ AskersHeld' /\ SeatIsHeld' /\ Informed'
  BY TransportStep
<1>3. ASSUME NEW d \in Client PROVE Fresh(d)'
  <2>1. CASE d = c
    BY <2>1 DEF Fresh
  <2>2. CASE d # c
    BY <1>1, <2>2, OthersFresh
  <2>3. QED
    BY <2>1, <2>2
<1>4. ASSUME NEW d \in Client, client'[d].verdict = "waiting", ~client'[d].shared
      PROVE  Answerable(d)'
  <2>1. d # c
    BY <1>4
  <2>2. QED
    BY <1>1, <1>4, <2>1, OthersAnswered
<1>5. QED
  BY <1>2, <1>3, <1>4 DEF CloudInv, WaitsFresh, WaitsForAnswer

\* A lost connection preserves the invariant
LEMMA LoseKeeps ==
    ASSUME CloudInv, NEW c \in Client, NEW i \in 1..MaxDials, Lose(c, i)
    PROVE  CloudInv'
<1>1. /\ CloudTypeOK' /\ Evolves /\ Steady
      /\ sock'[<<c, i>>].cut
      /\ \A s \in Socket : s # <<c, i>> => sock'[s] = sock[s]
      /\ \A s \in Socket : sock'[s].phase = sock[s].phase
  BY LoseStep
<1>2. /\ UNCHANGED <<client, memberSockets, toHost, toRelay, hostVars>> /\ OthersStand(c)
      /\ ClientStep(c)
  BY DEF Lose, wire, OthersStand, ClientStep
<1>3. /\ SocketsInOrder' /\ NamesItself' /\ HandedOnce' /\ OwnIdentity'
      /\ AskersHeld' /\ SeatIsHeld' /\ Informed'
  BY <1>1, <1>2, TransportStep
<1>4. 1 \in 1..MaxDials
  BY CloudConstants
<1>5. ASSUME NEW d \in Client PROVE Fresh(d)'
  <2>1. <<d, 1>> \in Socket
    BY <1>4 DEF Socket
  <2>2. sock'[<<d, 1>>].phase = sock[<<d, 1>>].phase
    BY <1>1, <2>1
  <2>3. QED
    BY <1>2, <2>2 DEF CloudInv, WaitsFresh, Fresh
<1>6. ASSUME NEW d \in Client, client'[d].verdict = "waiting", ~client'[d].shared
      PROVE  Answerable(d)'
  <2>0. UNCHANGED <<ToSet(memberSockets), ToSet(toHost), ToSet(issuing), ToSet(toRelay), virt>>
    BY <1>2 DEF ToSet, hostVars
  <2>1. CASE d # c
    BY <1>1, <1>2, <1>6, <2>0, <2>1, OthersAnswered
  <2>2. CASE d = c
    <3>1. CloudTypeOK /\ SocketsInOrder /\ Fresh(c) /\ Answerable(c) /\ ~SharesBootstrap(c)
      BY <1>2, <1>6, <2>2 DEF CloudInv, WaitsFresh, WaitsForAnswer, Answerable
    <3>2. ~SharesBootstrap(c)'
      BY <1>1, <1>2, <2>0, <3>1, StaysUnshared
    <3>3. CASE client[c].ws = 1
      <4>1. i <= client[c].ws
        <5>1. sock[<<c, i>>].phase # "none"
          BY DEF Lose
        <5>2. QED
          BY <3>1, <5>1 DEF SocketsInOrder
      <4>2. i = 1
        BY <3>3, <4>1
      <4>3. QED
        BY <1>1, <2>2, <3>2, <4>2 DEF Answerable
    <3>4. CASE client[c].ws # 1
      BY <1>2, <2>2, <3>2, <3>4 DEF Answerable
    <3>5. QED
      BY <3>3, <3>4
  <2>3. QED
    BY <2>1, <2>2
<1>7. QED
  BY <1>1, <1>3, <1>5, <1>6 DEF CloudInv, WaitsFresh, WaitsForAnswer

\* A failed dial preserves the invariant
LEMMA DialFailsKeeps ==
    ASSUME CloudInv, NEW c \in Client, NEW i \in 1..MaxDials, DialFails(c, i)
    PROVE  CloudInv'
<1>1. ClientStep(c) /\ UNCHANGED <<memberSockets, toHost, toRelay, hostVars>>
  BY DEF ClientStep, DialFails, wire
<1>2. QED
  BY <1>1, DialFailsStep, SettlingKeeps

\* A close event preserves the invariant
LEMMA SocketClosedKeeps ==
    ASSUME CloudInv, NEW c \in Client, NEW i \in 1..MaxDials, SocketClosed(c, i)
    PROVE  CloudInv'
<1>1. ClientStep(c) /\ UNCHANGED <<memberSockets, toHost, toRelay, hostVars>>
  BY DEF ClientStep, SocketClosed, wire
<1>2. QED
  BY <1>1, SocketClosedStep, SettlingKeeps

\* A member that leaves preserves the invariant
LEMMA DisconnectKeeps ==
    ASSUME CloudInv, NEW c \in Client, Disconnect(c)
    PROVE  CloudInv'
<1>1. ClientStep(c) /\ UNCHANGED <<memberSockets, toHost, toRelay, hostVars>>
  BY DEF ClientStep, Disconnect, wire
<1>2. QED
  BY <1>1, DisconnectStep, SettlingKeeps

\* An opened socket, and the request sent on it, preserve the invariant
LEMMA OpenedKeeps ==
    ASSUME CloudInv, NEW c \in Client, NEW i \in 1..MaxDials, Opened(c, i)
    PROVE  CloudInv'
<1> DEFINE s == <<c, client[c].ws>>
           e == [type |-> "auth-request", sub |-> sock'[s].sub, by |-> c]
<1>1. /\ CloudTypeOK' /\ Evolves /\ Steady
      /\ Same(client'[c], client[c])
      /\ client'[c].verdict = client[c].verdict /\ client'[c].shared = client[c].shared
      /\ client'[c].strays = client[c].strays
      /\ client[c].timer = FALSE => client'[c].timer = FALSE
      /\ client'[c].swap \in {0, client[c].swap}
      /\ client[c].verdict # "none"
      /\ \A d \in Client : d # c => client'[d] = client[d]
      /\ sock[<<c, i>>].phase = "dialing" /\ sock'[<<c, i>>].phase = "open"
      /\ ~sock'[<<c, i>>].cut
      /\ \A x \in Socket : x # <<c, i>> => sock'[x] = sock[x]
      /\ IsInjective(memberSockets)'
  BY OpenedStep
<1>2. \/ /\ UNCHANGED <<memberSockets, toHost>>
         /\ sock'[s].phase = "open" => sock'[s].cut
      \/ /\ s \in Socket /\ sock'[s].phase = "open" /\ ~sock'[s].cut
         /\ ToSet(memberSockets)' = ToSet(memberSockets) \cup {s}
         /\ toHost' = Append(toHost, e)
  BY OpenedStep
<1>3. /\ CloudTypeOK /\ CloudTypeOK' /\ SocketsInOrder /\ client[c] \in ClientState
      /\ client'[c] \in ClientState
  BY <1>1 DEF CloudInv, CloudTypeOK
<1>4. /\ UNCHANGED <<toRelay, hostVars, ToSet(toRelay), ToSet(issuing), SeatIds>> /\ ClientStep(c)
      /\ OthersStand(c)
  BY <1>1 DEF Opened, ClientStep, OthersStand, Same, ToSet, hostVars, SeatIds
<1>5. s \in Socket => sock'[s].sub \in {Boot, client[c].token} /\ client[c].ws # 0
  <2> SUFFICES ASSUME s \in Socket
               PROVE  sock'[s].sub \in {Boot, client[c].token} /\ client[c].ws # 0
    OBVIOUS
  <2>1. client[c].ws \in 1..MaxDials
    BY DEF Socket
  <2>2. sock'[s].sub \in {Boot, client'[c].token}
    BY <1>1, <1>3, <2>1, SubsKept DEF CloudInv
  <2>3. QED
    BY <1>1, <2>1, <2>2, CloudConstants DEF Same
<1>6. /\ ToSet(memberSockets) \subseteq ToSet(memberSockets)'
      /\ ToSet(toHost) \subseteq ToSet(toHost)'
      /\ \A x \in ToSet(memberSockets)' : x \in ToSet(memberSockets)
              \/ (x = s /\ s \in Socket /\ sock'[s].phase = "open")
      /\ \A f \in ToSet(toHost)' : f \in ToSet(toHost)
              \/ (f = e /\ s \in Socket /\ sock'[s].phase = "open" /\ s \in ToSet(memberSockets)')
  <2>1. CASE UNCHANGED <<memberSockets, toHost>>
    BY <2>1 DEF ToSet
  <2>2. CASE /\ s \in Socket /\ sock'[s].phase = "open" /\ ~sock'[s].cut
             /\ ToSet(memberSockets)' = ToSet(memberSockets) \cup {s}
             /\ toHost' = Append(toHost, e)
    <3>1. e \in HostBound
      <4>1. sock'[s] \in SocketState
        BY <1>3, <2>2 DEF CloudTypeOK
      <4>2. QED
        BY <4>1 DEF HostBound, SocketState
    <3> HIDE DEF e
    <3>2. ToSet(toHost') = ToSet(toHost) \cup {e}
      BY <1>3, <2>2, <3>1, Appended DEF CloudTypeOK
    <3>3. ToSet(toHost)' = ToSet(toHost) \cup {e}
      BY <3>2 DEF ToSet
    <3>4. QED
      BY <2>2, <3>3
  <2>3. QED
    BY <1>2, <2>1, <2>2
<1>7. SocketsInOrder'
  <2>1. \A f \in ToSet(toHost)' : f \in ToSet(toHost) \/ client'[f.by].ws # 0
    BY <1>1, <1>5, <1>6 DEF Same
  <2>2. QED
    BY <1>1, <1>3, <1>6, <2>1, OrderKept
<1>8. NamesItself' /\ HandedOnce' /\ OwnIdentity'
  <2>1. \A f \in ToSet(toHost)' :
              f \in ToSet(toHost) \/ (f.by \in Client /\ f.sub \in {Boot, client[f.by].token})
    BY <1>5, <1>6
  <2>2. QED
    BY <1>1, <1>4, <2>1, SteadyNames DEF CloudInv
<1>9. Informed'
  BY <1>1, <1>4, <1>6, SteadyInformed DEF CloudInv
<1>10. \A id : (\E x \in ToSet(memberSockets) : sock[x].sub = id) =>
            \E x \in ToSet(memberSockets)' : sock'[x].sub = id
  BY <1>1, <1>3, <1>6, SubOfAttached
<1>11. SeatIsHeld'
  BY <1>4, <1>6, <1>10 DEF CloudInv, SeatIsHeld, hostVars
<1>12. AskersHeld'
  <2>1. CASE UNCHANGED <<memberSockets, toHost>>
    BY <1>10, <2>1 DEF CloudInv, AskersHeld
  <2>2. CASE /\ s \in Socket /\ ToSet(memberSockets)' = ToSet(memberSockets) \cup {s}
             /\ toHost' = Append(toHost, e)
    <3>1. e \in HostBound /\ e.sub = sock'[s].sub
      <4>1. sock'[s] \in SocketState
        BY <1>3, <2>2 DEF CloudTypeOK
      <4>2. QED
        BY <4>1 DEF HostBound, SocketState
    <3> HIDE DEF e
    <3>2. /\ DOMAIN toHost' = 1..Len(toHost) + 1 /\ DOMAIN toHost = 1..Len(toHost)
          /\ Len(toHost) \in Nat
          /\ \A j \in 1..Len(toHost) : toHost'[j] = toHost[j]
          /\ toHost'[Len(toHost) + 1] = e
      BY <1>3, <2>2, <3>1, Appended DEF CloudTypeOK
    <3> SUFFICES ASSUME NEW j \in DOMAIN toHost', toHost'[j].type = "auth-request"
                 PROVE  \/ \E x \in ToSet(memberSockets)' : sock'[x].sub = toHost'[j].sub
                        \/ \E k \in DOMAIN toHost' : /\ k > j
                                                     /\ toHost'[k].type = "member-left"
                                                     /\ toHost'[k].sub = toHost'[j].sub
      BY DEF AskersHeld
    <3>3. CASE j \in 1..Len(toHost)
      <4>1. \/ \E x \in ToSet(memberSockets) : sock[x].sub = toHost[j].sub
            \/ \E k \in DOMAIN toHost : /\ k > j
                                        /\ toHost[k].type = "member-left"
                                        /\ toHost[k].sub = toHost[j].sub
        BY <3>2, <3>3 DEF CloudInv, AskersHeld
      <4>2. CASE \E x \in ToSet(memberSockets) : sock[x].sub = toHost[j].sub
        BY <1>10, <3>2, <3>3, <4>2
      <4>3. CASE \E k \in DOMAIN toHost : /\ k > j
                                        /\ toHost[k].type = "member-left"
                                        /\ toHost[k].sub = toHost[j].sub
        BY <3>2, <3>3, <4>3
      <4>4. QED
        BY <4>1, <4>2, <4>3
    <3>4. CASE j = Len(toHost) + 1
      BY <2>2, <3>1, <3>2, <3>4
    <3>5. QED
      BY <3>2, <3>3, <3>4
  <2>3. QED
    BY <1>2, <2>1, <2>2
<1>13. i <= client[c].ws /\ i \in Nat /\ i # 0
  BY <1>1, HasDialled, CloudConstants
<1>14. ASSUME NEW d \in Client PROVE Fresh(d)'
  <2>1. CASE d # c
    BY <1>4, <2>1, OthersFresh
  <2>2. CASE d = c
    <3>1. Fresh(c)
      BY DEF CloudInv, WaitsFresh
    <3>2. CASE client[c].verdict = "waiting"
      <4>1. CASE client[c].ws = 1
        BY <1>1, <1>13, <2>2, <3>1, <3>2, <4>1 DEF Fresh, Same
      <4>2. CASE client[c].ws = 2
        <5>1. sock[<<c, 1>>].phase = "closing" /\ i # 1
          BY <1>1, <3>1, <3>2, <4>2 DEF Fresh
        <5>2. <<c, 1>> \in Socket
          <6>1. 1 \in 1..MaxDials
            BY CloudConstants
          <6>2. QED
            BY <6>1 DEF Socket
        <5>3. sock'[<<c, 1>>] = sock[<<c, 1>>]
          BY <1>1, <5>1, <5>2
        <5>4. QED
          BY <1>1, <2>2, <3>1, <3>2, <4>2, <5>3 DEF Fresh, Same
      <4>3. QED
        BY <3>1, <3>2, <4>1, <4>2 DEF Fresh
    <3>3. CASE client[c].verdict # "waiting"
      BY <1>1, <2>2, <3>3 DEF Fresh
    <3>4. QED
      BY <3>2, <3>3
  <2>3. QED
    BY <2>1, <2>2
<1>15. ASSUME NEW d \in Client, client'[d].verdict = "waiting", ~client'[d].shared
       PROVE  Answerable(d)'
  <2>1. CASE d # c
    <3>1. ~SharesBootstrap(d) => \A f \in ToSet(toHost)' : f \in ToSet(toHost) \/ f.sub # Boot
      <4> SUFFICES ASSUME NEW f \in ToSet(toHost)', f \notin ToSet(toHost), f.sub = Boot
                   PROVE  SharesBootstrap(d)
        OBVIOUS
      <4>1. s \in Socket /\ sock'[s].phase = "open" /\ sock'[s].sub = Boot
        BY <1>6
      <4>2. sock[s].phase \in {"open", "dialing"} /\ sock[s].sub = Boot
        <5>1. CASE s = <<c, i>>
          <6>1. sock[s] = sock'[s] \/ Ages(sock[s], sock'[s])
            BY <1>1, <1>3, <4>1, <5>1, EvolvesFacts
          <6>2. QED
            BY <1>1, <4>1, <5>1, <6>1 DEF Ages
        <5>2. CASE s # <<c, i>>
          BY <1>1, <4>1, <5>2
        <5>3. QED
          BY <5>1, <5>2
      <4>3. s[1] # d
        BY <2>1
      <4>4. PICK x \in Socket : x = s
        BY <4>1
      <4>5. QED
        BY <4>2, <4>3, <4>4 DEF SharesBootstrap
    <3>2. \A f \in ToSet(toHost)' : f \in ToSet(toHost) \/ f.type = "auth-request"
      BY <1>6
    <3>3. QED
      BY <1>1, <1>4, <1>6, <1>15, <2>1, <3>1, <3>2, OthersAnswered
  <2>2. CASE d = c
    <3>1. Fresh(c) /\ Answerable(c) /\ ~SharesBootstrap(c) /\ client[c].verdict = "waiting"
      BY <1>1, <1>15, <2>2 DEF CloudInv, WaitsFresh, WaitsForAnswer, Answerable
    <3>2. ~SharesBootstrap(c)'
      <4>1. \A f \in ToSet(toHost)' : f \in ToSet(toHost) \/ f.by = c
        BY <1>6
      <4>2. QED
        BY <1>1, <1>3, <1>4, <1>6, <3>1, <4>1, StaysUnshared
    <3>3. CASE client[c].ws = 1
      <4>1. i = 1 /\ client[c].token = Boot /\ s = <<c, 1>>
        BY <1>13, <3>1, <3>3 DEF Fresh
      <4>2. sock'[s].phase = "open" /\ ~sock'[s].cut
        BY <1>1, <4>1
      <4>3. /\ s \in Socket /\ s \in ToSet(memberSockets)'
            /\ e \in ToSet(toHost)'
        <5>1. /\ s \in Socket /\ ToSet(memberSockets)' = ToSet(memberSockets) \cup {s}
              /\ toHost' = Append(toHost, e)
          BY <1>2, <4>2
        <5>2. e \in HostBound
          <6>1. sock'[s] \in SocketState
            BY <1>3, <5>1 DEF CloudTypeOK
          <6>2. QED
            BY <6>1 DEF HostBound, SocketState
        <5> HIDE DEF e
        <5>3. ToSet(toHost') = ToSet(toHost) \cup {e}
          BY <1>3, <5>1, <5>2, Appended DEF CloudTypeOK
        <5>4. QED
          BY <5>1, <5>3 DEF ToSet
      <4>4. e.sub = Boot /\ e.type = "auth-request"
        BY <1>5, <4>1, <4>3
      <4>5. \A f \in ToSet(toHost)' : f.sub = Boot => f.type = "auth-request"
        <5>1. ~sock[<<c, 1>>].cut
          BY <1>1, <1>3, <4>1 DEF SocketsInOrder
        <5>2. \A f \in ToSet(toHost) : f.sub = Boot => f.type = "auth-request"
          BY <3>1, <3>3, <5>1 DEF Answerable
        <5>3. QED
          BY <1>6, <5>2
      <4>6. QED
        BY <2>2, <3>2, <4>1, <4>3, <4>4, <4>5 DEF Answerable
    <3>4. CASE client[c].ws # 1
      BY <1>1, <2>2, <3>2, <3>4 DEF Answerable, Same
    <3>5. QED
      BY <3>3, <3>4
  <2>3. QED
    BY <2>1, <2>2
<1>16. QED
  BY <1>1, <1>7, <1>8, <1>9, <1>11, <1>12, <1>14, <1>15 DEF CloudInv, WaitsFresh, WaitsForAnswer

\* Every step of a client preserves the invariant
LEMMA ClientKeeps ==
    ASSUME CloudInv, NEW c \in Client, ClientStep(c)
    PROVE  CloudInv'
  BY JoinKeeps, RedialKeeps, DisconnectKeeps, OpenedKeeps, DialFailsKeeps, LoseKeeps,
     SocketClosedKeeps DEF ClientStep

-----------------------------------------------------------------------------
(* What the relay delivers *)

\* The one joiner that has the bootstrap token to itself is its receiver
LEMMA BootReceiver ==
    ASSUME CloudInv, NEW d \in Client, Answerable(d), client[d].verdict = "waiting",
           client[d].ws = 1,
           sock[<<d, 1>>].phase = "open", ~sock[<<d, 1>>].cut
    PROVE  LET k == Receiver(Boot) IN k # 0 /\ memberSockets[k] = <<d, 1>>
<1>1. CloudTypeOK /\ SocketsInOrder /\ Fresh(d) /\ ~SharesBootstrap(d)
  BY DEF CloudInv, WaitsFresh, Answerable
<1>2. client[d].token = Boot /\ 1 \in 1..MaxDials
  <2>1. client[d].token = Boot
    BY <1>1 DEF Fresh
  <2>2. client[d].ws <= MaxDials
    BY <1>1, CloudConstants DEF CloudTypeOK, ClientState
  <2>3. QED
    BY <2>1, <2>2, CloudConstants
<1>3. sock[<<d, 1>>].sub = Boot
  BY <1>2 DEF CloudInv, NamesItself
<1>4. <<d, 1>> \in ToSet(memberSockets)
  BY DEF Answerable
<1> DEFINE k == Receiver(Boot)
<1>5. /\ k # 0 /\ memberSockets[k] \in ToSet(memberSockets) /\ memberSockets[k] \in Socket
      /\ sock[memberSockets[k]].sub = Boot
  BY <1>1, <1>3, <1>4, ReceiverFacts
<1> HIDE DEF k
<1>6. PICK s \in Socket : s = memberSockets[k]
  BY <1>5
<1>7. s[1] = d
  BY <1>1, <1>5, <1>6 DEF SharesBootstrap
<1>8. s[2] \in 1..MaxDials /\ s = <<d, s[2]>>
  BY <1>7, OfSocket
<1>9. s[2] <= 1
  <2>1. sock[s].phase # "none"
    BY <1>1, <1>5, <1>6 DEF SocketsInOrder
  <2>2. QED
    BY <1>1, <1>8, <2>1 DEF SocketsInOrder
<1>10. s[2] = 1
  BY <1>8, <1>9, CloudConstants
<1>11. QED
  BY <1>5, <1>6, <1>8, <1>10 DEF k

\* A member that is not in doubt is the receiver of what is sent to it
LEMMA SeatReceiver ==
    ASSUME CloudInv, NEW c \in Client, client[c].token \in SeatIds, ~Doubtful(client[c].token)
    PROVE  LET k == Receiver(client[c].token) IN
           /\ client[c].token # Boot
           /\ k # 0 /\ memberSockets[k][1] = c
           /\ ~sock[memberSockets[k]].cut /\ sock[memberSockets[k]].phase = "open"
<1> DEFINE id == client[c].token
           k == Receiver(id)
<1>1. CloudTypeOK /\ id \in Nat /\ id # Boot
  BY CloudConstants DEF CloudInv, CloudTypeOK, SeatIds
<1>2. \E s \in ToSet(memberSockets) : sock[s].sub = id
  BY DEF CloudInv, SeatIsHeld, Doubtful
<1> HIDE DEF id
<1>3. /\ k # 0 /\ memberSockets[k] \in ToSet(memberSockets) /\ memberSockets[k] \in Socket
      /\ sock[memberSockets[k]].sub = id
  BY <1>1, <1>2, ReceiverFacts
<1> HIDE DEF k
<1>4. PICK s \in Socket : s = memberSockets[k]
  BY <1>3
<1>5. ~sock[s].cut /\ sock[s].phase \notin {"closing", "closed"}
  BY <1>3, <1>4 DEF Doubtful, id
<1>6. sock[s].phase = "open"
  BY <1>3, <1>4, <1>5 DEF CloudInv, SocketsInOrder
<1>7. s[1] = c
  <2>1. s[1] \in Client /\ s[2] \in 1..MaxDials /\ sock[s] = sock[<<s[1], s[2]>>]
    BY OfSocket
  <2>2. sock[s].sub \in {Boot, client[s[1]].token}
    BY <2>1 DEF CloudInv, NamesItself
  <2>3. client[s[1]].token = client[c].token
    BY <1>1, <1>3, <1>4, <2>2 DEF id
  <2>4. QED
    BY <1>1, <2>1, <2>3 DEF CloudInv, OwnIdentity, id
<1>8. QED
  BY <1>1, <1>3, <1>4, <1>5, <1>6, <1>7 DEF id, k

\* The relay has handled the first frame to a client, or to another
LEMMA KnowsRead ==
    ASSUME toRelay \in Seq(RelayBound), toRelay # <<>>, toRelay' = Tail(toRelay),
           NEW c \in Client, NEW b, client'[c].token = client[c].token, WillKnow(c, b),
           IF Head(toRelay).target = client[c].token
           THEN /\ Brings(Head(toRelay).msg, b) => b \in client'[c].roster
                /\ b \in client[c].roster /\ ~Takes(Head(toRelay).msg, b) => b \in client'[c].roster
           ELSE client'[c].roster = client[c].roster
    PROVE  WillKnow(c, b)'
<1> DEFINE id == client[c].token
<1>1. /\ DOMAIN toRelay = 1..Len(toRelay) /\ Len(toRelay) \in Nat \ {0}
      /\ DOMAIN toRelay' = 1..Len(toRelay) - 1
      /\ \A k \in 1..Len(toRelay) - 1 : toRelay'[k] = toRelay[k + 1] /\ k + 1 \in 1..Len(toRelay)
      /\ Head(toRelay) = toRelay[1] /\ 1 \in 1..Len(toRelay)
  BY Taken
<1>2. \A j \in Nat : KeptAfter(j + 1, id, b) =>
         \A k \in DOMAIN toRelay' : k > j /\ toRelay'[k].target = id => ~Takes(toRelay'[k].msg, b)
  BY <1>1 DEF KeptAfter
<1>3. KeptAfter(0, id, b) => KeptAfter(1, id, b)
           /\ (Head(toRelay).target = id => ~Takes(Head(toRelay).msg, b))
  BY <1>1 DEF KeptAfter
<1>4. client'[c].token = id
  OBVIOUS
<1> HIDE DEF id
<1>5. \A j \in Nat : KeptAfter(j + 1, id, b) => KeptAfter(j, client[c].token, b)'
  BY <1>2, <1>4 DEF KeptAfter
<1>6. CASE b \in client[c].roster /\ KeptAfter(0, id, b)
  <2>1. b \in client'[c].roster
    BY <1>3, <1>6 DEF id
  <2>2. KeptAfter(0, client[c].token, b)'
    BY <1>3, <1>5, <1>6
  <2>3. QED
    BY <2>1, <2>2 DEF WillKnow
<1>7. CASE \E j \in DOMAIN toRelay :
          /\ toRelay[j].target = id /\ Brings(toRelay[j].msg, b)
          /\ KeptAfter(j, id, b)
  <2>1. PICK j \in DOMAIN toRelay :
          /\ toRelay[j].target = id /\ Brings(toRelay[j].msg, b)
          /\ KeptAfter(j, id, b)
    BY <1>7
  <2>2. CASE j = 1
    <3>1. b \in client'[c].roster
      BY <1>1, <2>1, <2>2 DEF id
    <3>2. KeptAfter(0, client[c].token, b)'
      BY <1>5, <2>1, <2>2
    <3>3. QED
      BY <3>1, <3>2 DEF WillKnow
  <2>3. CASE j # 1
    <3>1. j - 1 \in 1..Len(toRelay) - 1 /\ j - 1 \in Nat /\ (j - 1) + 1 = j
      BY <1>1, <2>3
    <3>2. toRelay'[j - 1] = toRelay[j] /\ j - 1 \in DOMAIN toRelay'
      BY <1>1, <3>1
    <3>3. KeptAfter(j - 1, client[c].token, b)'
      BY <1>5, <2>1, <3>1
    <3>4. QED
      BY <1>4, <2>1, <3>2, <3>3 DEF WillKnow
  <2>4. QED
    BY <2>2, <2>3
<1>8. QED
  BY <1>6, <1>7 DEF WillKnow, id

\* The frames behind the first one, and what they hand out
LEMMA HandedBehind ==
    ASSUME CloudTypeOK, HandedOnce, toRelay # <<>>, toRelay' = Tail(toRelay), UNCHANGED issuing
    PROVE  /\ ToSet(toRelay)' \subseteq ToSet(toRelay)
           /\ \A f \in ToSet(toRelay) : f = Head(toRelay) \/ f \in ToSet(toRelay)'
           /\ Head(toRelay) \in RelayBound /\ Head(toRelay) \in ToSet(toRelay)
           /\ toRelay' \in Seq(RelayBound)
           /\ \A k \in DOMAIN toRelay' : toRelay'[k].msg.type = "handoff" =>
                /\ \A c \in Client : toRelay'[k].msg.id \notin {client[c].token, client[c].me}
                /\ \A j \in DOMAIN toRelay' :
                      /\ toRelay'[j].msg.type = "handoff"
                      /\ toRelay'[j].msg.id = toRelay'[k].msg.id
                      => j = k
                /\ Head(toRelay).msg.type = "handoff" => toRelay'[k].msg.id # Head(toRelay).msg.id
           /\ Head(toRelay).msg.type = "handoff" =>
                /\ \A c \in Client : Head(toRelay).msg.id \notin {client[c].token, client[c].me}
                /\ \A k \in DOMAIN issuing : issuing[k].kind = "bootstrap" =>
                        issuing[k].id # Head(toRelay).msg.id
<1>1. /\ DOMAIN toRelay = 1..Len(toRelay) /\ Len(toRelay) \in Nat \ {0}
      /\ DOMAIN toRelay' = 1..Len(toRelay) - 1
      /\ \A k \in 1..Len(toRelay) - 1 : toRelay'[k] = toRelay[k + 1]
      /\ Head(toRelay) = toRelay[1] /\ Head(toRelay) \in RelayBound
      /\ Head(toRelay) \in ToSet(toRelay)
      /\ toRelay' \in Seq(RelayBound)
      /\ ToSet(toRelay) = {Head(toRelay)} \cup ToSet(Tail(toRelay))
  <2>1. toRelay \in Seq(RelayBound)
    BY DEF CloudTypeOK
  <2>2. QED
    BY <2>1, Taken
<1>2. ToSet(toRelay)' = ToSet(Tail(toRelay))
  BY DEF ToSet
<1>3. \A k \in 1..Len(toRelay) - 1 : k + 1 \in 1..Len(toRelay) /\ k + 1 # 1
  BY <1>1
<1>4. 1 \in 1..Len(toRelay)
  BY <1>1
<1>5. ASSUME NEW k \in DOMAIN toRelay', toRelay'[k].msg.type = "handoff"
      PROVE  /\ \A c \in Client : toRelay'[k].msg.id \notin {client[c].token, client[c].me}
             /\ \A j \in DOMAIN toRelay' :
                   /\ toRelay'[j].msg.type = "handoff"
                   /\ toRelay'[j].msg.id = toRelay'[k].msg.id
                   => j = k
             /\ Head(toRelay).msg.type = "handoff" => toRelay'[k].msg.id # Head(toRelay).msg.id
  <2>1. k + 1 \in DOMAIN toRelay /\ toRelay'[k] = toRelay[k + 1]
    BY <1>1, <1>3
  <2>2. \A c \in Client : toRelay'[k].msg.id \notin {client[c].token, client[c].me}
    BY <1>5, <2>1 DEF HandedOnce
  <2>3. \A j \in DOMAIN toRelay :
           toRelay[j].msg.type = "handoff" /\ toRelay[j].msg.id = toRelay[k + 1].msg.id => j = k + 1
    BY <1>5, <2>1 DEF HandedOnce
  <2>4. ASSUME NEW j \in DOMAIN toRelay', toRelay'[j].msg.type = "handoff",
               toRelay'[j].msg.id = toRelay'[k].msg.id
        PROVE  j = k
    <3>1. j + 1 \in DOMAIN toRelay /\ toRelay'[j] = toRelay[j + 1]
      BY <1>1, <1>3
    <3>2. j + 1 = k + 1
      BY <2>1, <2>3, <2>4, <3>1
    <3>3. QED
      BY <1>1, <3>2
  <2>5. Head(toRelay).msg.type = "handoff" => toRelay'[k].msg.id # Head(toRelay).msg.id
    BY <1>1, <1>3, <1>4, <2>1, <2>3
  <2>6. QED
    BY <2>2, <2>4, <2>5
<1>6. Head(toRelay).msg.type = "handoff" =>
        /\ \A c \in Client : Head(toRelay).msg.id \notin {client[c].token, client[c].me}
        /\ \A k \in DOMAIN issuing : issuing[k].kind = "bootstrap" =>
                issuing[k].id # Head(toRelay).msg.id
  BY <1>1, <1>4 DEF HandedOnce
<1>7. QED
  BY <1>1, <1>2, <1>5, <1>6

\* Names, when a client has read a frame and kept its token
LEMMA ReadNames ==
    ASSUME CloudTypeOK, CloudTypeOK', SocketsInOrder, NamesItself, HandedOnce, OwnIdentity, Evolves,
           UNCHANGED <<toHost, hostVars>>, toRelay # <<>>, toRelay' = Tail(toRelay),
           \A d \in Client : /\ client'[d].token = client[d].token
                             /\ client[d].swapped \/ client[d].left =>
                                     client'[d].swapped \/ client'[d].left,
           NEW c \in Client, \A d \in Client : d # c => client'[d].me = client[d].me,
           \/ client'[c].me \in {client[c].me, client[c].token}
           \/ Head(toRelay).msg.type = "handoff" /\ client'[c].me = Head(toRelay).msg.id
    PROVE  NamesItself' /\ HandedOnce' /\ OwnIdentity'
<1> DEFINE m == Head(toRelay)
<1>0. /\ UNCHANGED <<virt, seats, issuing, minted>> /\ UNCHANGED <<ToSet(toHost), ToSet(issuing)>>
  BY DEF hostVars, ToSet
<1>1. /\ ToSet(toRelay)' \subseteq ToSet(toRelay)
      /\ m \in ToSet(toRelay)
      /\ \A k \in DOMAIN toRelay' : toRelay'[k].msg.type = "handoff" =>
           /\ \A d \in Client : toRelay'[k].msg.id \notin {client[d].token, client[d].me}
           /\ \A j \in DOMAIN toRelay' :
                 /\ toRelay'[j].msg.type = "handoff"
                 /\ toRelay'[j].msg.id = toRelay'[k].msg.id
                 => j = k
           /\ m.msg.type = "handoff" => toRelay'[k].msg.id # m.msg.id
      /\ m.msg.type = "handoff" =>
           /\ \A d \in Client : m.msg.id \notin {client[d].token, client[d].me}
           /\ \A k \in DOMAIN issuing : issuing[k].kind = "bootstrap" => issuing[k].id # m.msg.id
  BY <1>0, HandedBehind
<1>2. m.msg.type = "handoff" => m.msg.id \in 1..minted
  BY <1>1 DEF NamesItself
<1> HIDE DEF m
<1>3. /\ client'[c].me \in {client[c].me, client[c].token}
           \/ (m.msg.type = "handoff" /\ client'[c].me = m.msg.id)
      /\ client'[c].me \in Nat /\ client[c].me \in Nat
  BY DEF m, CloudTypeOK, ClientState
<1>4. client'[c].me \in 0..minted
  BY <1>2, <1>3, CloudConstants DEF NamesItself, CloudTypeOK
<1>5. NamesItself'
  <2>1. \A d \in Client :
          /\ client'[d].token \in {Boot} \cup 1..minted'
          /\ client'[d].me \in 0..minted'
          /\ client'[d].token # Boot => client'[d].swapped \/ client'[d].left
    BY <1>0, <1>4 DEF NamesItself
  <2>2. \A d \in Client, i \in 1..MaxDials : sock'[<<d, i>>].sub \in {Boot, client'[d].token}
    BY DEF NamesItself, Evolves, Ages
  <2>3. \A f \in ToSet(toHost)' : f.sub \in {Boot, client'[f.by].token}
    BY <1>0, QueuesTyped DEF NamesItself
  <2>4. \A t \in ToSet(issuing)' :
          IF t.kind = "bootstrap" THEN t.key = Boot /\ t.id \in 1..minted'
          ELSE t.key = t.id /\ t.key = client'[t.by].token
    BY <1>0, QueuesTyped DEF NamesItself
  <2>5. \A n \in seats' : n.id = client'[n.by].token
    BY <1>0 DEF NamesItself, CloudTypeOK
  <2>6. \A f \in ToSet(toRelay)' :
          /\ f.msg.type = "handoff" => f.target = Boot /\ f.msg.id \in 1..minted'
          /\ f.msg.type = "welcome" => f.target = f.msg.id
          /\ f.target = Boot => f.msg.type \in {"handoff", "refused"}
    BY <1>0, <1>1 DEF NamesItself
  <2>7. QED
    BY <2>1, <2>2, <2>3, <2>4, <2>5, <2>6 DEF NamesItself
<1>6. HandedOnce'
  <2>1. ASSUME NEW k \in DOMAIN issuing, issuing[k].kind = "bootstrap"
        PROVE  /\ \A d \in Client : issuing[k].id \notin {client'[d].token, client'[d].me}
               /\ \A j \in DOMAIN issuing :
                     issuing[j].kind = "bootstrap" /\ issuing[j].id = issuing[k].id => j = k
               /\ \A f \in ToSet(toRelay)' : f.msg.type = "handoff" => f.msg.id # issuing[k].id
    <3>1. /\ \A d \in Client : issuing[k].id \notin {client[d].token, client[d].me}
          /\ \A j \in DOMAIN issuing :
                issuing[j].kind = "bootstrap" /\ issuing[j].id = issuing[k].id => j = k
          /\ \A f \in ToSet(toRelay) : f.msg.type = "handoff" => f.msg.id # issuing[k].id
      BY <2>1 DEF HandedOnce
    <3>2. issuing[k].id # client'[c].me
      BY <1>1, <1>3, <2>1, <3>1
    <3>3. QED
      BY <1>1, <3>1, <3>2
  <2>2. ASSUME NEW k \in DOMAIN toRelay', toRelay'[k].msg.type = "handoff"
        PROVE  /\ \A d \in Client : toRelay'[k].msg.id \notin {client'[d].token, client'[d].me}
               /\ \A j \in DOMAIN toRelay' :
                     /\ toRelay'[j].msg.type = "handoff"
                     /\ toRelay'[j].msg.id = toRelay'[k].msg.id
                     => j = k
    <3>1. toRelay'[k].msg.id # client'[c].me
      BY <1>1, <1>3, <2>2
    <3>2. QED
      BY <1>1, <2>2, <3>1
  <2>3. QED
    BY <1>0, <2>1, <2>2 DEF HandedOnce
<1>7. OwnIdentity'
  <2>1. ASSUME NEW d \in Client, d # c
        PROVE  /\ client'[c].me = client[d].me => client'[c].me = 0
               /\ client'[c].me # client[d].token
    <3>1. /\ client[c].me = client[d].me => client[c].me = 0
          /\ client[c].me # client[d].token /\ client[d].me # client[c].token
          /\ client[c].token = client[d].token => client[c].token = Boot
      BY <2>1 DEF OwnIdentity
    <3>2. client'[c].me # Boot
      BY <1>3, CloudConstants
    <3>3. QED
      BY <1>1, <1>3, <3>1, <3>2
  <2>2. QED
    BY <2>1 DEF OwnIdentity
<1>8. QED
  BY <1>5, <1>6, <1>7

\* swapToken() leaves a client on its next socket, with its own token
LEMMA SwapTokenFacts ==
    ASSUME CloudTypeOK, SocketsInOrder, NEW c \in Client, NEW id \in Nat, MayDial(c),
           client[c].swap = 0,
           client[c].ws # 0,
           SwapToken(c, [client[c] EXCEPT !.swapped = TRUE], id)
    PROVE  /\ sock' \in [Socket -> SocketState] /\ client' \in [Client -> ClientState]
           /\ Evolves
           /\ \A d \in Client : d # c => client'[d] = client[d]
           /\ \A s \in Socket : s[1] # c => sock'[s] = sock[s]
           /\ client'[c].token = id /\ client'[c].me = client[c].me
           /\ client'[c].roster = client[c].roster
           /\ client'[c].swapped /\ client'[c].left = client[c].left
           /\ client'[c].ws = client[c].ws + 1
           /\ client'[c].verdict = "none" => client[c].verdict = "none"
           /\ client'[c].verdict = "waiting" =>
                /\ sock[<<c, client[c].ws>>].phase # "dialing"
                /\ client[c].verdict = "waiting" /\ client'[c].shared = client[c].shared
                /\ client'[c].timer = client[c].timer /\ client'[c].strays = client[c].strays
           /\ sock[<<c, client[c].ws>>].phase = "open" =>
                   sock'[<<c, client[c].ws>>].phase = "closing"
<1> DEFINE n == client[c].ws
           s == <<c, n>>
           r == [client[c] EXCEPT !.swapped = TRUE]
           q == [r EXCEPT !.swap = r.ws + 1]
           dropped == IF sock[s].phase = "dialing" THEN AfterFailure(q, n, sock[s].ladder) ELSE r
           t == [dropped EXCEPT !.token = id, !.swap = r.ws + 1]
           z == [t EXCEPT !.ws = t.ws + 1]
           sh == Shut(sock, s)
<1>1. /\ client[c] \in ClientState /\ sock \in [Socket -> SocketState]
      /\ client \in [Client -> ClientState]
      /\ n \in Nat /\ n + 1 \in 1..MaxDials /\ n \in 1..MaxDials /\ n + 1 \in 0..MaxDials
  <2>1. /\ client[c] \in ClientState /\ sock \in [Socket -> SocketState]
        /\ client \in [Client -> ClientState]
    BY DEF CloudTypeOK
  <2>2. n \in 0..MaxDials /\ n < MaxDials
    BY <2>1 DEF ClientState, MayDial
  <2>3. QED
    BY <2>1, <2>2, CloudConstants
<1>2. s \in Socket /\ sock[s] \in SocketState /\ sock[s].ladder \in BOOLEAN
  BY <1>1 DEF Socket, SocketState
<1>3. r \in ClientState /\ r.ws = n /\ q \in ClientState
  BY <1>1 DEF ClientState
<1>4. /\ r.me = client[c].me /\ r.roster = client[c].roster /\ r.swapped /\ r.left = client[c].left
      /\ r.verdict = client[c].verdict /\ r.shared = client[c].shared
      /\ r.timer = client[c].timer /\ r.strays = client[c].strays
  BY <1>1 DEF ClientState
<1>5. Same(q, r) /\ q.verdict = r.verdict
  BY <1>3 DEF ClientState, Same
<1> HIDE DEF r, q
<1>6. /\ dropped \in ClientState /\ Same(dropped, r)
      /\ dropped.verdict = "none" => r.verdict = "none"
      /\ dropped.verdict = "waiting" => sock[s].phase # "dialing" /\ dropped = r
  <2>1. CASE sock[s].phase = "dialing"
    <3>1. /\ AfterFailure(q, n, sock[s].ladder) \in ClientState
          /\ Same(AfterFailure(q, n, sock[s].ladder), q)
          /\ Over(AfterFailure(q, n, sock[s].ladder), q)
      BY <1>1, <1>2, <1>3, AfterFailureFacts
    <3>2. QED
      BY <1>5, <2>1, <3>1 DEF Same, Over
  <2>2. CASE sock[s].phase # "dialing"
    BY <1>3, <2>2 DEF Same
  <2>3. QED
    BY <2>1, <2>2
<1> HIDE DEF dropped
<1>7. /\ t \in ClientState /\ t.ws = n /\ t.token = id /\ t.me = client[c].me
      /\ t.roster = client[c].roster
      /\ t.swapped /\ t.left = client[c].left
      /\ t.verdict = dropped.verdict /\ t.shared = dropped.shared
      /\ t.timer = dropped.timer /\ t.strays = dropped.strays
  BY <1>1, <1>3, <1>4, <1>6 DEF ClientState, Same, Sub
<1> HIDE DEF t
<1>8. /\ z \in ClientState /\ z.ws = n + 1 /\ z.token = id /\ z.me = client[c].me
      /\ z.roster = client[c].roster
      /\ z.swapped /\ z.left = client[c].left
      /\ z.verdict = dropped.verdict /\ z.shared = dropped.shared
      /\ z.timer = dropped.timer /\ z.strays = dropped.strays
  BY <1>1, <1>7 DEF ClientState
<1>9. sock' = Dialled(sh, c, t, FALSE) /\ client' = [client EXCEPT ![c] = z]
  BY <1>3 DEF SwapToken, t, dropped, q, r
<1> HIDE DEF z
<1>10. /\ client' \in [Client -> ClientState] /\ client'[c] = z
       /\ \A d \in Client : d # c => client'[d] = client[d]
  BY <1>1, <1>8, <1>9
<1>11. /\ sh \in [Socket -> SocketState]
       /\ \A x \in Socket : x # s => sh[x] = sock[x]
       /\ sh[s].sub = sock[s].sub /\ sh[s].cut = sock[s].cut
       /\ sh[s].phase = IF sock[s].phase = "open" THEN "closing"
                        ELSE IF sock[s].phase = "dialing" THEN "closed" ELSE sock[s].phase
       /\ sock[s].phase \notin {"open", "dialing"} => sh[s] = sock[s]
  <2> HIDE DEF s
  <2>1. QED
    BY <1>1, <1>2, ShutFacts
<1> HIDE DEF sh
<1>12. t.ws < MaxDials
  BY <1>1, <1>7, CloudConstants
<1>13. /\ <<c, t.ws + 1>> \in Socket
       /\ sock' \in [Socket -> SocketState]
       /\ sock'[<<c, t.ws + 1>>] = [phase |-> "dialing", sub |-> t.token, ladder |-> FALSE,
            cut |-> FALSE]
       /\ \A x \in Socket : x # <<c, t.ws + 1>> => sock'[x] = sh[x]
  <2>1. sh \in [Socket -> SocketState] /\ t \in ClientState /\ FALSE \in BOOLEAN
    BY <1>7, <1>11
  <2> DEFINE y == Dialled(sh, c, t, FALSE)
  <2>2. /\ <<c, t.ws + 1>> \in Socket
        /\ y \in [Socket -> SocketState]
        /\ y[<<c, t.ws + 1>>] = [phase |-> "dialing", sub |-> t.token, ladder |-> FALSE,
             cut |-> FALSE]
        /\ \A x \in Socket : x # <<c, t.ws + 1>> => y[x] = sh[x]
    BY <1>12, <2>1, DialledFacts
  <2>3. sock' = y
    BY <1>9
  <2> HIDE DEF y
  <2>4. QED
    BY <2>2, <2>3
<1>14. s # <<c, t.ws + 1>>
  BY <1>1, <1>7
<1>15. sock'[s] = sh[s]
  BY <1>2, <1>13, <1>14
<1>16. sock'[s] = sock[s] \/ Ages(sock[s], sock'[s])
  <2>1. sock[s].cut => sock[s].phase \in {"open", "closing", "closed"}
    BY <1>1 DEF SocketsInOrder
  <2>2. CASE sock[s].phase \in {"open", "dialing"}
    BY <1>2, <1>11, <1>15, <2>1, <2>2 DEF Ages, SocketState
  <2>3. CASE sock[s].phase \notin {"open", "dialing"}
    BY <1>11, <1>15, <2>3
  <2>4. QED
    BY <2>2, <2>3
<1>17. Evolves
  <2>1. \A d \in Client : client'[d].ws >= client[d].ws
    <3>1. \A d \in Client : client[d].ws \in Nat
      BY CloudConstants DEF CloudTypeOK, ClientState
    <3>2. client'[c].ws >= client[c].ws
      BY <1>1, <1>8, <1>10
    <3>3. QED
      BY <1>10, <3>1, <3>2
  <2>2. ASSUME NEW d \in Client, NEW i \in 1..MaxDials
        PROVE  \/ sock'[<<d, i>>] = sock[<<d, i>>]
               \/ Ages(sock[<<d, i>>], sock'[<<d, i>>])
               \/ /\ i = client[d].ws + 1 /\ client'[d].ws = i
                  /\ sock'[<<d, i>>].phase = "dialing" /\ ~sock'[<<d, i>>].cut
                  /\ sock'[<<d, i>>].sub = client'[d].token
    <3>1. PICK x \in Socket : x = <<d, i>>
      BY DEF Socket
    <3>2. CASE x = <<c, t.ws + 1>>
      <4>1. d = c /\ i = n + 1
        BY <1>7, <3>1, <3>2
      <4>2. sock'[x].phase = "dialing" /\ ~sock'[x].cut /\ sock'[x].sub = id
        BY <1>7, <1>13, <3>2
      <4>3. QED
        BY <1>8, <1>10, <3>1, <4>1, <4>2
    <3>3. CASE x # <<c, t.ws + 1>> /\ x # s
      BY <1>11, <1>13, <3>1, <3>3
    <3>4. CASE x = s
      BY <1>16, <3>1, <3>4
    <3>5. QED
      BY <3>2, <3>3, <3>4
  <2>3. QED
    BY <2>1, <2>2 DEF Evolves
<1>18. \A x \in Socket : x[1] # c => sock'[x] = sock[x]
  BY <1>11, <1>13
<1>19. z.verdict = "waiting" => sock[s].phase # "dialing" /\ client[c].verdict = "waiting"
            /\ z.shared = client[c].shared
            /\ z.timer = client[c].timer /\ z.strays = client[c].strays
  BY <1>4, <1>6, <1>8
<1>20. z.verdict = "none" => client[c].verdict = "none"
  BY <1>4, <1>6, <1>8
<1>21. QED
  BY <1>8, <1>10, <1>11, <1>13, <1>15, <1>17, <1>18, <1>19, <1>20

\* Names, when a client has taken the token handed to it
LEMMA SwapNames ==
    ASSUME CloudTypeOK, CloudTypeOK', SocketsInOrder, NamesItself, HandedOnce, OwnIdentity, Evolves,
           UNCHANGED <<toHost, hostVars>>, toRelay # <<>>, toRelay' = Tail(toRelay),
           NEW c \in Client, \A d \in Client : d # c => client'[d] = client[d],
           Head(toRelay).msg.type = "handoff", client[c].token = Boot,
           client'[c].token = Head(toRelay).msg.id, client'[c].me = client[c].me, client'[c].swapped
    PROVE  NamesItself' /\ HandedOnce' /\ OwnIdentity'
<1> DEFINE m == Head(toRelay)
           id == m.msg.id
<1>0. /\ UNCHANGED <<virt, seats, issuing, minted>> /\ UNCHANGED <<ToSet(toHost), ToSet(issuing)>>
  BY DEF hostVars, ToSet
<1>1. /\ ToSet(toRelay)' \subseteq ToSet(toRelay)
      /\ m \in ToSet(toRelay)
      /\ \A k \in DOMAIN toRelay' : toRelay'[k].msg.type = "handoff" =>
           /\ \A d \in Client : toRelay'[k].msg.id \notin {client[d].token, client[d].me}
           /\ \A j \in DOMAIN toRelay' :
                 /\ toRelay'[j].msg.type = "handoff"
                 /\ toRelay'[j].msg.id = toRelay'[k].msg.id
                 => j = k
           /\ m.msg.type = "handoff" => toRelay'[k].msg.id # m.msg.id
      /\ m.msg.type = "handoff" =>
           /\ \A d \in Client : m.msg.id \notin {client[d].token, client[d].me}
           /\ \A k \in DOMAIN issuing : issuing[k].kind = "bootstrap" => issuing[k].id # m.msg.id
  BY <1>0, HandedBehind
<1>2. id \in 1..minted /\ id \in Nat /\ id # Boot
  <2>1. id \in 1..minted
    BY <1>1 DEF NamesItself
  <2>2. QED
    BY <2>1, CloudConstants DEF CloudTypeOK
<1>3. client'[c].token = id
  OBVIOUS
<1> HIDE DEF m
<1>4. /\ \A k \in DOMAIN toRelay' : toRelay'[k].msg.type = "handoff" => toRelay'[k].msg.id # id
      /\ \A d \in Client : id \notin {client[d].token, client[d].me}
      /\ \A k \in DOMAIN issuing : issuing[k].kind = "bootstrap" => issuing[k].id # id
  BY <1>1 DEF m
<1> HIDE DEF id
<1>5. NamesItself'
  <2>1. \A d \in Client :
          /\ client'[d].token \in {Boot} \cup 1..minted'
          /\ client'[d].me \in 0..minted'
          /\ client'[d].token # Boot => client'[d].swapped \/ client'[d].left
    BY <1>0, <1>2, <1>3 DEF NamesItself
  <2>2. ASSUME NEW d \in Client, NEW i \in 1..MaxDials
        PROVE  sock'[<<d, i>>].sub \in {Boot, client'[d].token}
    <3>1. sock[<<d, i>>].sub \in {Boot, client[d].token}
      BY DEF NamesItself
    <3>2. sock'[<<d, i>>].sub \in {sock[<<d, i>>].sub, client'[d].token}
      BY DEF Evolves, Ages
    <3>3. QED
      BY <3>1, <3>2
  <2>3. \A f \in ToSet(toHost)' : f.sub \in {Boot, client'[f.by].token}
    <3>1. \A f \in ToSet(toHost) : f.by \in Client /\ f.sub \in {Boot, client[f.by].token}
      BY QueuesTyped DEF NamesItself
    <3>2. QED
      BY <1>0, <3>1
  <2>4. ASSUME NEW t \in ToSet(issuing)'
        PROVE  IF t.kind = "bootstrap" THEN t.key = Boot /\ t.id \in 1..minted'
               ELSE t.key = t.id /\ t.key = client'[t.by].token
    <3>1. t.by \in Client /\ t.id \in Nat /\ t.id # Boot
      BY <1>0, QueuesTyped, CloudConstants
    <3>2. IF t.kind = "bootstrap" THEN t.key = Boot /\ t.id \in 1..minted
          ELSE t.key = t.id /\ t.key = client[t.by].token
      BY <1>0 DEF NamesItself
    <3>3. t.kind # "bootstrap" => t.by # c
      BY <3>1, <3>2
    <3>4. QED
      BY <1>0, <3>1, <3>2, <3>3
  <2>5. ASSUME NEW n \in seats' PROVE n.id = client'[n.by].token
    <3>1. n.by \in Client /\ n.id \in Nat /\ n.id = client[n.by].token
      BY <1>0 DEF NamesItself, CloudTypeOK
    <3>2. n.by # c
      BY <3>1, CloudConstants
    <3>3. QED
      BY <3>1, <3>2
  <2>6. \A f \in ToSet(toRelay)' :
          /\ f.msg.type = "handoff" => f.target = Boot /\ f.msg.id \in 1..minted'
          /\ f.msg.type = "welcome" => f.target = f.msg.id
          /\ f.target = Boot => f.msg.type \in {"handoff", "refused"}
    BY <1>0, <1>1 DEF NamesItself
  <2>7. QED
    BY <2>1, <2>2, <2>3, <2>4, <2>5, <2>6 DEF NamesItself
<1>6. HandedOnce'
  <2>1. ASSUME NEW k \in DOMAIN issuing, issuing[k].kind = "bootstrap"
        PROVE  /\ \A d \in Client : issuing[k].id \notin {client'[d].token, client'[d].me}
               /\ \A j \in DOMAIN issuing :
                     issuing[j].kind = "bootstrap" /\ issuing[j].id = issuing[k].id => j = k
               /\ \A f \in ToSet(toRelay)' : f.msg.type = "handoff" => f.msg.id # issuing[k].id
    <3>1. /\ \A d \in Client : issuing[k].id \notin {client[d].token, client[d].me}
          /\ \A j \in DOMAIN issuing :
                issuing[j].kind = "bootstrap" /\ issuing[j].id = issuing[k].id => j = k
          /\ \A f \in ToSet(toRelay) : f.msg.type = "handoff" => f.msg.id # issuing[k].id
      BY <2>1 DEF HandedOnce
    <3>2. issuing[k].id # id
      BY <1>4, <2>1
    <3>3. QED
      BY <1>1, <1>3, <3>1, <3>2
  <2>2. ASSUME NEW k \in DOMAIN toRelay', toRelay'[k].msg.type = "handoff"
        PROVE  /\ \A d \in Client : toRelay'[k].msg.id \notin {client'[d].token, client'[d].me}
               /\ \A j \in DOMAIN toRelay' :
                     /\ toRelay'[j].msg.type = "handoff"
                     /\ toRelay'[j].msg.id = toRelay'[k].msg.id
                     => j = k
    <3>1. toRelay'[k].msg.id # id
      BY <1>4, <2>2
    <3>2. QED
      BY <1>1, <1>3, <2>2, <3>1
  <2>3. QED
    BY <1>0, <2>1, <2>2 DEF HandedOnce
<1>7. OwnIdentity'
  BY <1>3, <1>4 DEF OwnIdentity
<1>8. QED
  BY <1>5, <1>6, <1>7

\* What each type of message holds
LEMMA MessageFacts ==
    ASSUME NEW m \in Message
    PROVE  /\ m.type \in {"refused", "handoff", "member-joined", "member-left", "welcome"}
           /\ m.type # "refused" => m.id \in Nat
           /\ m.type = "welcome" => m.members \in SUBSET Nat
  BY DEF Message

\* What a frame makes of the client that reads it, unless it swaps tokens
Reads(q, r, m) ==
    /\ r.token = q.token /\ r.ws = q.ws /\ r.left = q.left /\ r.swap = q.swap
    /\ r.timer = q.timer /\ r.strays = q.strays
    /\ q.swapped => r.swapped
    /\ \/ /\ r.verdict = q.verdict /\ r.shared = q.shared /\ r.swapped = q.swapped
          /\ m.type \in {"member-joined", "member-left"}
       \/ Over(r, q)
    /\ r.me = q.me \/ (m.type \in {"welcome", "handoff"} /\ r.me = m.id)
    /\ m.type \in {"refused", "handoff"} => r.roster = q.roster
    /\ m.type = "welcome" /\ q.swapped => r.roster = m.members
    /\ m.type = "member-joined" => r.roster = q.roster \cup {m.id}
    /\ m.type = "member-left" => r.roster = q.roster \ {m.id}

\* What a client does with a frame, but for the swap of tokens
LEMMA HandleMessageFacts ==
    ASSUME CloudTypeOK, NEW c \in Client, NEW m \in Message, HandleMessage(c, m)
    PROVE  \/ /\ m.type \in {"handoff", "welcome"} /\ ~client[c].swapped
              /\ client[c].swap = 0 /\ ~client[c].left /\ MayDial(c)
              /\ SwapToken(c, [client[c] EXCEPT !.swapped = TRUE], m.id)
           \/ /\ UNCHANGED sock
              /\ \E r \in ClientState : client' = [client EXCEPT ![c] = r] /\ Reads(client[c], r, m)
<1> DEFINE q == client[c]
           roster == IF m.type = "welcome" THEN m.members ELSE q.roster
           a == [q EXCEPT !.swapped = TRUE]
           b == [q EXCEPT !.me = m.id, !.roster = roster]
<1>1. /\ q \in ClientState /\ client \in [Client -> ClientState]
      /\ m.type \in {"refused", "handoff", "member-joined", "member-left", "welcome"}
      /\ m.type # "refused" => m.id \in Nat
      /\ m.type = "welcome" => m.members \in SUBSET Nat
  BY MessageFacts DEF CloudTypeOK
<1>2. CASE m.type \in {"handoff", "welcome"} /\ Accepted(c, m)
  <2>1. CASE ~q.swapped /\ q.swap = 0 /\ ~q.left
    BY <1>2, <2>1 DEF Accepted
  <2>2. CASE ~q.swapped /\ ~(q.swap = 0 /\ ~q.left)
    <3>1. /\ a \in ClientState /\ a.verdict = q.verdict /\ a.me = q.me /\ a.token = q.token
          /\ a.ws = q.ws
          /\ a.swapped /\ a.left = q.left /\ a.roster = q.roster /\ a.swap = q.swap
          /\ a.timer = q.timer /\ a.strays = q.strays
      BY <1>1 DEF ClientState
    <3>2. client' = [client EXCEPT ![c] = Settled(a, "false")] /\ UNCHANGED sock
      BY <1>2, <2>2 DEF Accepted
    <3> HIDE DEF a
    <3>3. /\ Settled(a, "false") \in ClientState
          /\ Same(Settled(a, "false"), a) /\ Over(Settled(a, "false"), a)
          /\ Settled(a, "false").timer = a.timer /\ Settled(a, "false").strays = a.strays
          /\ Settled(a, "false").swap = a.swap
      BY <3>1, SettledFacts
    <3>4. Reads(q, Settled(a, "false"), m)
      BY <1>2, <2>2, <3>1, <3>3 DEF Reads, Same, Over
    <3>5. QED
      BY <3>2, <3>3, <3>4
  <2>3. CASE q.swapped
    <3>0. roster \in SUBSET Nat
      BY <1>1 DEF ClientState
    <3>1. /\ b \in ClientState /\ b.verdict = q.verdict /\ b.me = m.id /\ b.token = q.token
          /\ b.ws = q.ws
          /\ b.swapped = q.swapped /\ b.left = q.left /\ b.swap = q.swap
          /\ b.timer = q.timer /\ b.strays = q.strays
          /\ b.roster = roster
      <4> HIDE DEF roster
      <4>1. QED
        BY <1>1, <1>2, <3>0 DEF ClientState
    <3>2. client' = [client EXCEPT ![c] = Settled(b, "true")] /\ UNCHANGED sock
      BY <1>2, <2>3 DEF Accepted
    <3> HIDE DEF b
    <3>3. /\ Settled(b, "true") \in ClientState
          /\ Same(Settled(b, "true"), b) /\ Over(Settled(b, "true"), b)
          /\ Settled(b, "true").timer = b.timer /\ Settled(b, "true").strays = b.strays
          /\ Settled(b, "true").swap = b.swap
      BY <3>1, SettledFacts
    <3>4. Reads(q, Settled(b, "true"), m)
      BY <1>2, <2>3, <3>1, <3>3 DEF Reads, Same, Over
    <3>5. QED
      BY <3>2, <3>3, <3>4
  <2>4. QED
    BY <2>1, <2>2, <2>3
<1>3. CASE /\ m.type = "refused" /\ client' = [client EXCEPT ![c] = Settled(q, "false")]
           /\ UNCHANGED sock
  <2>1. /\ Settled(q, "false") \in ClientState
        /\ Same(Settled(q, "false"), q) /\ Over(Settled(q, "false"), q)
        /\ Settled(q, "false").timer = q.timer /\ Settled(q, "false").strays = q.strays
        /\ Settled(q, "false").swap = q.swap
    BY <1>1, SettledFacts
  <2>2. Reads(q, Settled(q, "false"), m)
    BY <1>3, <2>1 DEF Reads, Same, Over
  <2>3. QED
    BY <1>3, <2>1, <2>2
<1>4. CASE /\ m.type = "member-joined" /\ client' = [client EXCEPT ![c].roster = @ \cup {m.id}]
           /\ UNCHANGED sock
  <2> DEFINE s == q.roster \cup {m.id}
             r == [q EXCEPT !.roster = s]
  <2>1. s \in SUBSET Nat
    BY <1>1, <1>4 DEF ClientState
  <2>2. client' = [client EXCEPT ![c] = r]
    BY <1>1, <1>4
  <2>3. s = q.roster \cup {m.id}
    OBVIOUS
  <2> HIDE DEF s
  <2>4. r \in ClientState /\ Reads(q, r, m)
    BY <1>1, <1>4, <2>1, <2>3 DEF ClientState, Reads
  <2>5. QED
    BY <1>4, <2>2, <2>4
<1>5. CASE /\ m.type = "member-left" /\ client' = [client EXCEPT ![c].roster = @ \ {m.id}]
           /\ UNCHANGED sock
  <2> DEFINE s == q.roster \ {m.id}
             r == [q EXCEPT !.roster = s]
  <2>1. s \in SUBSET Nat
    BY <1>1, <1>5 DEF ClientState
  <2>2. client' = [client EXCEPT ![c] = r]
    BY <1>1, <1>5
  <2>3. s = q.roster \ {m.id}
    OBVIOUS
  <2> HIDE DEF s
  <2>4. r \in ClientState /\ Reads(q, r, m)
    BY <1>1, <1>5, <2>1, <2>3 DEF ClientState, Reads
  <2>5. QED
    BY <1>5, <2>2, <2>4
<1>6. QED
  BY <1>2, <1>3, <1>4, <1>5 DEF HandleMessage

\* Nothing but the frame has changed for the host and the relay
LEMMA ReadOrder ==
    ASSUME CloudInv, CloudTypeOK', Evolves, UNCHANGED <<memberSockets, toHost, hostVars>>
    PROVE  SocketsInOrder' /\ AskersHeld' /\ SeatIsHeld'
<1>1. /\ UNCHANGED <<ToSet(memberSockets), ToSet(toHost), virt, seats>>
      /\ UNCHANGED IsInjective(memberSockets)
  BY DEF ToSet, hostVars, IsInjective
<1>2. IsInjective(memberSockets)' /\ CloudTypeOK /\ SocketsInOrder
  BY <1>1 DEF CloudInv, SocketsInOrder
<1>3. SocketsInOrder'
  BY <1>1, <1>2, OrderKept
<1>4. AskersHeld' /\ SeatIsHeld'
  BY <1>1, SteadyHeld DEF CloudInv
<1>5. QED
  BY <1>3, <1>4

\* A frame that is read leaves everyone as well informed as before
LEMMA ReadInformed ==
    ASSUME CloudInv, Evolves, UNCHANGED <<memberSockets, toHost, hostVars>>,
           toRelay # <<>>, toRelay' = Tail(toRelay),
           \A c \in Client :
              /\ client[c].left => client'[c].left
              /\ client'[c].token = client[c].token \/ client'[c].token \notin SeatIds,
           \A c \in Client, b \in SeatIds :
              client[c].token \in SeatIds /\ ~client[c].left /\ ~Doubtful(client[c].token)
              /\ client'[c].token = client[c].token =>
                 IF Head(toRelay).target = client[c].token
                 THEN /\ Brings(Head(toRelay).msg, b) => b \in client'[c].roster
                      /\ b \in client[c].roster /\ ~Takes(Head(toRelay).msg, b) =>
                              b \in client'[c].roster
                 ELSE client'[c].roster = client[c].roster
    PROVE  Informed'
<1>0. /\ UNCHANGED <<virt, seats, issuing, minted>>
      /\ UNCHANGED <<ToSet(issuing), SeatIds, ToSet(memberSockets), ToSet(toHost)>>
  BY DEF hostVars, ToSet, SeatIds
<1> SUFFICES ASSUME NEW c \in Client, client'[c].token \in SeatIds', ~client'[c].left,
                    ~Doubtful(client[c].token)'
             PROVE  \/ \E t \in ToSet(issuing)' : t.key = client'[c].token
                    \/ \A b \in SeatIds' : \/ \E t \in ToSet(issuing)' : t.kind = "new" /\ t.id = b
                                           \/ WillKnow(c, b)'
  BY DEF Informed
<1>1. client'[c].token = client[c].token /\ ~client[c].left /\ client[c].token \in SeatIds
  BY <1>0
<1>2. ~Doubtful(client[c].token)
  <2>1. PICK id : id = client[c].token
    OBVIOUS
  <2>2. ~Doubtful(id)'
    BY <1>1, <2>1 DEF Doubtful
  <2>3. ~Doubtful(id)
    BY <1>0, <2>2, DoubtStays DEF CloudInv
  <2>4. QED
    BY <2>1, <2>3
<1>3. ASSUME NEW b \in SeatIds, WillKnow(c, b) PROVE WillKnow(c, b)'
  <2>1. toRelay \in Seq(RelayBound)
    BY DEF CloudInv, CloudTypeOK
  <2>2. IF Head(toRelay).target = client[c].token
        THEN /\ Brings(Head(toRelay).msg, b) => b \in client'[c].roster
             /\ b \in client[c].roster /\ ~Takes(Head(toRelay).msg, b) => b \in client'[c].roster
        ELSE client'[c].roster = client[c].roster
    BY <1>1, <1>2
  <2>3. QED
    BY <1>1, <1>3, <2>1, <2>2, KnowsRead
<1>4. \/ \E t \in ToSet(issuing) : t.key = client[c].token
      \/ \A b \in SeatIds : \/ \E t \in ToSet(issuing) : t.kind = "new" /\ t.id = b
                            \/ WillKnow(c, b)
  BY <1>1, <1>2 DEF CloudInv, Informed
<1>5. QED
  BY <1>0, <1>1, <1>3, <1>4

\* A joiner still waits for its answer, unless this was it
LEMMA ReadAnswered ==
    ASSUME CloudInv, Evolves, UNCHANGED <<memberSockets, toHost, hostVars>>,
           toRelay # <<>>, toRelay' = Tail(toRelay),
           NEW d \in Client, Answerable(d),
           \A c \in Client : c # d /\ client'[c].ws # client[c].ws => client'[c].token # Boot,
           \/ /\ client'[d].ws = client[d].ws /\ sock'[<<d, 1>>] = sock[<<d, 1>>]
              /\ Head(toRelay).target = Boot =>
                    client[d].ws # 1 \/ sock[<<d, 1>>].cut \/ sock[<<d, 1>>].phase # "open"
           \/ client'[d].ws # 1
    PROVE  Answerable(d)'
<1>0. UNCHANGED <<virt, ToSet(memberSockets), ToSet(toHost), ToSet(issuing)>>
  BY DEF ToSet, hostVars
<1>1. CloudTypeOK /\ SocketsInOrder /\ HandedOnce /\ ~SharesBootstrap(d)
  BY DEF CloudInv, Answerable
<1>2. ~SharesBootstrap(d)'
  BY <1>0, <1>1, StaysUnshared
<1>3. \A f \in ToSet(toRelay) : f = Head(toRelay) \/ f \in ToSet(toRelay)'
  <2>1. UNCHANGED issuing
    BY DEF hostVars
  <2>2. QED
    BY <1>1, <2>1, HandedBehind
<1>4. CASE client'[d].ws # 1
  BY <1>2, <1>4 DEF Answerable
<1>5. CASE /\ client'[d].ws = client[d].ws /\ sock'[<<d, 1>>] = sock[<<d, 1>>]
           /\ Head(toRelay).target # Boot
  BY <1>0, <1>2, <1>3, <1>5, AnswerKept
<1>6. CASE client'[d].ws = client[d].ws /\ sock'[<<d, 1>>] = sock[<<d, 1>>]
           /\ (client[d].ws # 1 \/ sock[<<d, 1>>].cut \/ sock[<<d, 1>>].phase # "open")
  BY <1>0, <1>2, <1>6 DEF Answerable
<1>7. QED
  BY <1>4, <1>5, <1>6

\* The frame finds an open socket under its target's sub
Reaches(f) ==
    LET k == Receiver(f.target) IN
    k # 0 /\ ~sock[memberSockets[k]].cut /\ sock[memberSockets[k]].phase \in {"open", "closing"}

\* What there is to know of a socket that receives
LEMMA ReachedFacts ==
    ASSUME CloudInv, toRelay # <<>>, Reaches(Head(toRelay)), NEW s,
           s = memberSockets[Receiver(Head(toRelay).target)]
    PROVE  /\ s \in Socket /\ s[1] \in Client /\ 1 \in 1..MaxDials
           /\ client[s[1]].ws \in Nat \ {0} /\ client[s[1]].verdict # "none"
           /\ Head(toRelay).target = Boot \/ Head(toRelay).target = client[s[1]].token
           /\ Head(toRelay).msg \in Message /\ Head(toRelay).target \in Sub
           /\ Head(toRelay) \in ToSet(toRelay)
<1>1. CloudTypeOK /\ SocketsInOrder
  BY DEF CloudInv
<1>2. s \in ToSet(memberSockets) /\ s \in Socket /\ sock[s].sub = Head(toRelay).target
  BY <1>1, ReceiverFacts DEF Reaches
<1>3. s[1] \in Client /\ s[2] \in 1..MaxDials /\ sock[s] = sock[<<s[1], s[2]>>]
  BY <1>2, OfSocket
<1>4. sock[<<s[1], s[2]>>].phase # "none"
  BY <1>1, <1>2, <1>3 DEF SocketsInOrder
<1>5. client[s[1]].ws \in Nat \ {0} /\ client[s[1]].verdict # "none"
  BY <1>3, <1>4, HasDialled
<1>6. sock[s].sub \in {Boot, client[s[1]].token}
  BY <1>3 DEF CloudInv, NamesItself
<1>7. Head(toRelay) \in RelayBound /\ Head(toRelay) \in ToSet(toRelay)
  BY <1>1, Taken DEF CloudTypeOK
<1>8. 1 \in 1..MaxDials
  BY <1>3, CloudConstants
<1>9. QED
  BY <1>2, <1>3, <1>5, <1>6, <1>7, <1>8 DEF RelayBound

\* The joiner that would receive the frame under the bootstrap token receives it
LEMMA BootReached ==
    ASSUME CloudInv, toRelay # <<>>, Head(toRelay).target = Boot,
           NEW d \in Client, Answerable(d), client[d].verdict = "waiting", client[d].ws = 1,
           ~sock[<<d, 1>>].cut, sock[<<d, 1>>].phase = "open"
    PROVE  Reaches(Head(toRelay)) /\ memberSockets[Receiver(Head(toRelay).target)][1] = d
  BY BootReceiver DEF Reaches

\* A frame that reaches nobody preserves the invariant
LEMMA LostKeeps ==
    ASSUME CloudInv, toRelay # <<>>, toRelay' = Tail(toRelay), ~Reaches(Head(toRelay)),
           UNCHANGED <<sock, client, memberSockets, toHost, hostVars, faults>>
    PROVE  CloudInv'
<1>1. CloudTypeOK /\ SocketsInOrder /\ HandedOnce /\ UNCHANGED issuing
  BY DEF CloudInv, hostVars
<1>2. CloudTypeOK'
  <2>1. toRelay' \in Seq(RelayBound)
    BY <1>1, HandedBehind
  <2>2. QED
    BY <1>1, <2>1 DEF CloudTypeOK, hostVars
<1>3. Evolves
  BY CloudConstants DEF Evolves, CloudInv, CloudTypeOK, ClientState
<1>4. SocketsInOrder' /\ AskersHeld' /\ SeatIsHeld'
  BY <1>2, <1>3, ReadOrder
<1>5. NamesItself' /\ HandedOnce' /\ OwnIdentity'
  <2>1. CASE Client = {}
    BY <2>1, <1>2, HandedBehind DEF CloudInv, NamesItself, HandedOnce, OwnIdentity, hostVars,
       ToSet, CloudTypeOK, Socket, HostBound
  <2>2. CASE Client # {}
    <3>1. PICK c \in Client : TRUE
      BY <2>2
    <3>2. QED
      BY <1>2, <1>3, ReadNames DEF CloudInv
  <2>3. QED
    BY <2>1, <2>2
<1>6. Informed'
  <2>1. \A c \in Client : client[c].token \in SeatIds /\ ~Doubtful(client[c].token) =>
           Head(toRelay).target # client[c].token
    BY SeatReceiver DEF Reaches
  <2>2. QED
    BY <1>3, <2>1, ReadInformed
<1>7. WaitsFresh'
  BY DEF CloudInv, WaitsFresh, Fresh
<1>8. ASSUME NEW d \in Client, client'[d].verdict = "waiting", ~client'[d].shared
      PROVE  Answerable(d)'
  <2>1. Answerable(d)
    BY <1>8 DEF CloudInv, WaitsForAnswer
  <2>2. Head(toRelay).target = Boot =>
           client[d].ws # 1 \/ sock[<<d, 1>>].cut \/ sock[<<d, 1>>].phase # "open"
    BY <1>8, <2>1, BootReached
  <2>3. QED
    BY <1>3, <2>1, <2>2, ReadAnswered
<1>9. QED
  BY <1>2, <1>4, <1>5, <1>6, <1>7, <1>8 DEF CloudInv, WaitsForAnswer

\* A frame that is read, but for the swap of tokens, preserves the invariant
LEMMA ReadKeeps ==
    ASSUME CloudInv, toRelay # <<>>, toRelay' = Tail(toRelay), Reaches(Head(toRelay)),
           UNCHANGED <<sock, memberSockets, toHost, hostVars, faults>>,
           NEW c, c = memberSockets[Receiver(Head(toRelay).target)][1],
           NEW r \in ClientState, client' = [client EXCEPT ![c] = r],
           Reads(client[c], r, Head(toRelay).msg)
    PROVE  CloudInv'
<1> DEFINE f == Head(toRelay)
<1>1. CloudTypeOK /\ SocketsInOrder /\ HandedOnce /\ NamesItself /\ OwnIdentity /\ UNCHANGED issuing
  BY DEF CloudInv, hostVars
<1>2. /\ c \in Client /\ client[c].verdict # "none" /\ 1 \in 1..MaxDials
      /\ f.target = Boot \/ f.target = client[c].token
      /\ f.msg \in Message /\ f.target \in Sub /\ f \in ToSet(toRelay)
  BY ReachedFacts
<1>3. /\ client' \in [Client -> ClientState] /\ client'[c] = r
      /\ \A d \in Client : d # c => client'[d] = client[d]
  BY <1>1, <1>2 DEF CloudTypeOK
<1> HIDE DEF f
<1>4. Reads(client[c], r, f.msg)
  BY DEF f
<1>5. /\ f.msg.type = "handoff" => f.target = Boot
      /\ f.msg.type = "welcome" => f.target = f.msg.id
      /\ f.target = Boot => f.msg.type \in {"handoff", "refused"}
      /\ f.msg.type \in {"refused", "handoff", "member-joined", "member-left", "welcome"}
      /\ f.msg.type # "refused" => f.msg.id \in Nat
  BY <1>1, <1>2, MessageFacts DEF NamesItself
<1>6. CloudTypeOK'
  <2>1. toRelay' \in Seq(RelayBound)
    BY <1>1, HandedBehind
  <2>2. QED
    BY <1>1, <1>3, <2>1 DEF CloudTypeOK, hostVars
<1>7. \A d \in Client : /\ client'[d].ws = client[d].ws /\ client'[d].token = client[d].token
                        /\ client'[d].left = client[d].left
  BY <1>3, <1>4 DEF Reads
<1>8. Evolves
  BY <1>1, <1>7, CloudConstants DEF Evolves, CloudTypeOK, ClientState
<1>9. SocketsInOrder' /\ AskersHeld' /\ SeatIsHeld'
  BY <1>6, <1>8, ReadOrder
<1>10. NamesItself' /\ HandedOnce' /\ OwnIdentity'
  <2>1. \/ client'[c].me \in {client[c].me, client[c].token}
        \/ f.msg.type = "handoff" /\ client'[c].me = f.msg.id
    <3>1. r.me = client[c].me \/ (f.msg.type \in {"welcome", "handoff"} /\ r.me = f.msg.id)
      BY <1>4 DEF Reads
    <3>2. f.msg.type = "welcome" => f.msg.id = client[c].token
      BY <1>2, <1>5, CloudConstants
    <3>3. QED
      BY <1>3, <3>1, <3>2
  <2>2. \A d \in Client : client[d].swapped \/ client[d].left =>
             client'[d].swapped \/ client'[d].left
    <3>1. \A d \in Client : client[d].swapped => client'[d].swapped
      BY <1>3, <1>4 DEF Reads
    <3>2. QED
      BY <1>7, <3>1
  <2>3. QED
    BY <1>1, <1>2, <1>3, <1>6, <1>7, <1>8, <2>1, <2>2, ReadNames DEF f
<1>11. Informed'
  <2>1. ASSUME NEW e \in Client, NEW b \in SeatIds,
               client[e].token \in SeatIds, ~client[e].left, ~Doubtful(client[e].token)
        PROVE  IF f.target = client[e].token
               THEN /\ Brings(f.msg, b) => b \in client'[e].roster
                    /\ b \in client[e].roster /\ ~Takes(f.msg, b) => b \in client'[e].roster
               ELSE client'[e].roster = client[e].roster
    <3>1. client[e].token # Boot
      BY <2>1, SeatReceiver
    <3>2. CASE f.target = client[e].token
      <4>1. e = c
        BY <2>1, <3>2, SeatReceiver DEF f
      <4>2. client[c].swapped
        BY <1>1, <1>2, <2>1, <3>1, <4>1 DEF NamesItself
      <4>3. QED
        BY <1>3, <1>4, <1>5, <3>1, <3>2, <4>1, <4>2 DEF Reads, Brings, Takes
    <3>3. CASE f.target # client[e].token
      <4>1. CASE e = c
        <5>1. f.msg.type \in {"handoff", "refused"}
          BY <1>2, <1>5, <3>3, <4>1
        <5>2. QED
          BY <1>3, <1>4, <3>3, <4>1, <5>1 DEF Reads
      <4>2. CASE e # c
        BY <1>3, <3>3, <4>2
      <4>3. QED
        BY <4>1, <4>2
    <3>4. QED
      BY <3>2, <3>3
  <2>2. QED
    BY <1>7, <1>8, <2>1, ReadInformed DEF f
<1>12. ASSUME NEW d \in Client PROVE Fresh(d)'
  <2>1. Fresh(d)
    BY DEF CloudInv, WaitsFresh
  <2>2. CASE d = c
    <3>1. r.verdict # "none"
      BY <1>2, <1>4 DEF Reads, Over
    <3>2. CASE r.verdict = "waiting"
      BY <1>3, <1>4, <2>1, <2>2, <3>2 DEF Reads, Over, Fresh
    <3>3. CASE r.verdict # "waiting"
      BY <1>3, <2>2, <3>1, <3>3 DEF Fresh
    <3>4. QED
      BY <3>2, <3>3
  <2>3. CASE d # c
    BY <1>3, <2>1, <2>3 DEF Fresh
  <2>4. QED
    BY <2>2, <2>3
<1>13. ASSUME NEW d \in Client, client'[d].verdict = "waiting", ~client'[d].shared
       PROVE  Answerable(d)'
  <2>1. client[d].verdict = "waiting" /\ ~client[d].shared
        /\ (d = c => f.msg.type \in {"member-joined", "member-left"})
    BY <1>3, <1>4, <1>13 DEF Reads, Over
  <2>2. Answerable(d)
    BY <2>1 DEF CloudInv, WaitsForAnswer
  <2>3. f.target = Boot =>
           client[d].ws # 1 \/ sock[<<d, 1>>].cut \/ sock[<<d, 1>>].phase # "open"
    <3> SUFFICES ASSUME f.target = Boot, client[d].ws = 1, ~sock[<<d, 1>>].cut,
                        sock[<<d, 1>>].phase = "open"
                 PROVE  FALSE
      OBVIOUS
    <3>1. d = c
      BY <2>1, <2>2, BootReached DEF f
    <3>2. QED
      BY <1>5, <2>1, <3>1
  <2>4. QED
    BY <1>7, <1>8, <2>2, <2>3, ReadAnswered DEF f
<1>14. QED
  BY <1>6, <1>9, <1>10, <1>11, <1>12, <1>13 DEF CloudInv, WaitsForAnswer, WaitsFresh

\* The swap of tokens preserves the invariant
LEMMA SwapKeeps ==
    ASSUME CloudInv, toRelay # <<>>, toRelay' = Tail(toRelay), Reaches(Head(toRelay)),
           UNCHANGED <<memberSockets, toHost, hostVars, faults>>,
           NEW c, c = memberSockets[Receiver(Head(toRelay).target)][1],
           Head(toRelay).msg.type \in {"handoff", "welcome"}, ~client[c].swapped,
           client[c].swap = 0, ~client[c].left, MayDial(c),
           SwapToken(c, [client[c] EXCEPT !.swapped = TRUE], Head(toRelay).msg.id)
    PROVE  CloudInv'
<1> DEFINE f == Head(toRelay)
<1>1. CloudTypeOK /\ SocketsInOrder /\ HandedOnce /\ NamesItself /\ OwnIdentity /\ UNCHANGED issuing
  BY DEF CloudInv, hostVars
<1>2. /\ c \in Client /\ client[c].verdict # "none" /\ 1 \in 1..MaxDials
      /\ client[c].ws \in Nat \ {0}
      /\ f.target = Boot \/ f.target = client[c].token
      /\ f.msg \in Message /\ f.target \in Sub /\ f \in ToSet(toRelay)
  BY ReachedFacts
<1>3. client[c].token = Boot
  BY <1>1, <1>2 DEF NamesItself
<1>4. f.msg.id \in Nat
  BY <1>2, MessageFacts
<1>5. f.target = Boot /\ f.msg.type = "handoff"
  <2>1. f.msg.type = "welcome" => f.target = f.msg.id
    BY <1>1, <1>2 DEF NamesItself
  <2>2. QED
    BY <1>2, <1>3, <1>4, <2>1, CloudConstants
<1>6. /\ sock' \in [Socket -> SocketState] /\ client' \in [Client -> ClientState]
      /\ Evolves
      /\ \A d \in Client : d # c => client'[d] = client[d]
      /\ \A s \in Socket : s[1] # c => sock'[s] = sock[s]
      /\ client'[c].token = f.msg.id /\ client'[c].me = client[c].me
      /\ client'[c].roster = client[c].roster
      /\ client'[c].swapped /\ client'[c].left = client[c].left
      /\ client'[c].ws = client[c].ws + 1
      /\ client'[c].verdict = "none" => client[c].verdict = "none"
      /\ client'[c].verdict = "waiting" =>
           /\ sock[<<c, client[c].ws>>].phase # "dialing"
           /\ client[c].verdict = "waiting" /\ client'[c].shared = client[c].shared
           /\ client'[c].timer = client[c].timer /\ client'[c].strays = client[c].strays
      /\ sock[<<c, client[c].ws>>].phase = "open" => sock'[<<c, client[c].ws>>].phase = "closing"
  BY <1>1, <1>2, <1>4, SwapTokenFacts
<1>6a. /\ client'[c].token = f.msg.id /\ client'[c].token # Boot
       /\ client'[c].ws = client[c].ws + 1 /\ client'[c].ws # 1
       /\ \A d \in Client : d # c => client'[d] = client[d]
  <2>1. client'[c].token = f.msg.id /\ client'[c].ws = client[c].ws + 1
    BY <1>6
  <2>2. f.msg.id # Boot
    BY <1>4, CloudConstants
  <2>3. client[c].ws + 1 # 1
    <3>1. \A n \in Nat \ {0} : n + 1 # 1
      OBVIOUS
    <3>2. QED
      BY <1>2, <3>1
  <2>4. QED
    BY <1>6, <2>1, <2>2, <2>3
<1>7. CloudTypeOK'
  <2>1. toRelay' \in Seq(RelayBound)
    BY <1>1, HandedBehind
  <2>2. QED
    BY <1>1, <1>6, <2>1 DEF CloudTypeOK, hostVars
<1>8. SocketsInOrder' /\ AskersHeld' /\ SeatIsHeld'
  BY <1>6, <1>7, ReadOrder
<1>9. NamesItself' /\ HandedOnce' /\ OwnIdentity'
  BY <1>1, <1>2, <1>3, <1>5, <1>6, <1>7, SwapNames
<1>10. \A d \in Client : f.msg.id \notin {client[d].token, client[d].me}
  BY <1>1, <1>5, HandedBehind
<1> HIDE DEF f
<1>11. Informed'
  <2>1. f.msg.id \notin SeatIds
    <3>1. \A m \in seats : m.by \in Client /\ m.id = client[m.by].token
      BY <1>1 DEF NamesItself, CloudTypeOK
    <3>2. QED
      BY <1>10, <3>1 DEF SeatIds
  <2>2. \A e \in Client : /\ client[e].left => client'[e].left
                          /\ client'[e].token = client[e].token \/ client'[e].token \notin SeatIds
    BY <1>6, <2>1
  <2>3. ASSUME NEW e \in Client, client[e].token \in SeatIds, ~Doubtful(client[e].token),
               client'[e].token = client[e].token
        PROVE  f.target # client[e].token /\ client'[e].roster = client[e].roster
    <3>1. client[e].token # Boot
      BY <2>3, SeatReceiver
    <3>2. QED
      BY <1>3, <1>5, <1>6, <3>1
  <2>4. QED
    BY <1>6, <2>2, <2>3, ReadInformed DEF f
<1>12. \A d \in Client : <<d, 1>> \in Socket
  BY <1>2 DEF Socket
<1>13. ASSUME NEW d \in Client PROVE Fresh(d)'
  <2>1. Fresh(d)
    BY DEF CloudInv, WaitsFresh
  <2>2. CASE d = c
    <3>1. CASE client'[c].verdict = "waiting"
      <4>1. client[c].verdict = "waiting" /\ sock[<<c, client[c].ws>>].phase # "dialing"
        BY <1>6, <3>1
      <4>2. /\ client[c].ws = 1 /\ sock[<<c, 1>>].phase = "open" /\ ~client[c].timer
            /\ client[c].strays = 0
        BY <2>1, <2>2, <4>1 DEF Fresh
      <4>3. client'[c].ws = 2 /\ sock'[<<c, 1>>].phase = "closing"
        <5>1. client'[c].ws = 2
          <6>1. client[c].ws = 1 /\ client'[c].ws = client[c].ws + 1
            BY <1>6a, <4>2
          <6>2. QED
            BY <6>1
        <5>2. sock[<<c, client[c].ws>>].phase = "open" =>
                   sock'[<<c, client[c].ws>>].phase = "closing"
          BY <1>6
        <5>3. <<c, client[c].ws>> = <<c, 1>>
          BY <4>2
        <5>4. QED
          BY <4>2, <5>1, <5>2, <5>3
      <4>4. QED
        BY <1>6, <2>2, <3>1, <4>2, <4>3 DEF Fresh
    <3>2. CASE client'[c].verdict # "waiting"
      BY <1>2, <1>6, <2>2, <3>2 DEF Fresh
    <3>3. QED
      BY <3>1, <3>2
  <2>3. CASE d # c
    <3>1. sock'[<<d, 1>>] = sock[<<d, 1>>]
      BY <1>6, <1>12, <2>3
    <3>2. QED
      BY <1>6, <2>1, <2>3, <3>1 DEF Fresh
  <2>4. QED
    BY <2>2, <2>3
<1>14. ASSUME NEW d \in Client, client'[d].verdict = "waiting", ~client'[d].shared
       PROVE  Answerable(d)'
  <2>1. client[d].verdict = "waiting" /\ ~client[d].shared
    BY <1>6, <1>14
  <2>2. Answerable(d)
    BY <2>1 DEF CloudInv, WaitsForAnswer
  <2>3. \A e \in Client : client'[e].ws # client[e].ws => client'[e].token # Boot
    BY <1>6a
  <2>4. CASE d = c
    <3>1. client'[d].ws # 1
      BY <1>6a, <2>4
    <3>2. QED
      BY <1>6, <2>2, <2>3, <3>1, ReadAnswered
  <2>5. CASE d # c
    <3>1. sock'[<<d, 1>>] = sock[<<d, 1>>] /\ client'[d].ws = client[d].ws
      BY <1>6, <1>12, <2>5
    <3>2. client[d].ws # 1 \/ sock[<<d, 1>>].cut \/ sock[<<d, 1>>].phase # "open"
      BY <1>5, <2>1, <2>2, <2>5, BootReached DEF f
    <3>3. QED
      BY <1>6, <2>2, <2>3, <3>1, <3>2, ReadAnswered
  <2>6. QED
    BY <2>4, <2>5
<1>15. QED
  BY <1>7, <1>8, <1>9, <1>11, <1>13, <1>14 DEF CloudInv, WaitsForAnswer, WaitsFresh

\* Every frame the relay routes preserves the invariant
LEMMA RelayRoutesKeeps ==
    ASSUME CloudInv, RelayRoutes
    PROVE  CloudInv'
<1>1. /\ toRelay # <<>> /\ toRelay' = Tail(toRelay)
      /\ UNCHANGED <<memberSockets, toHost, hostVars, faults>>
  BY DEF RelayRoutes
<1>2. CASE ~Reaches(Head(toRelay))
  <2>1. UNCHANGED <<sock, client>>
    BY <1>2 DEF RelayRoutes, Reaches
  <2>2. QED
    BY <1>1, <1>2, <2>1, LostKeeps
<1>3. CASE Reaches(Head(toRelay))
  <2>1. PICK c : c = memberSockets[Receiver(Head(toRelay).target)][1]
    OBVIOUS
  <2>2. PICK m : m = Head(toRelay).msg
    OBVIOUS
  <2>3. HandleMessage(c, m)
    BY <1>3, <2>1, <2>2 DEF RelayRoutes, Reaches
  <2>4. c \in Client /\ m \in Message /\ CloudTypeOK
    BY <1>1, <1>3, <2>1, <2>2, ReachedFacts DEF CloudInv
  <2>5. CASE /\ m.type \in {"handoff", "welcome"} /\ ~client[c].swapped
             /\ client[c].swap = 0 /\ ~client[c].left /\ MayDial(c)
             /\ SwapToken(c, [client[c] EXCEPT !.swapped = TRUE], m.id)
    BY <1>1, <1>3, <2>1, <2>2, <2>5, SwapKeeps
  <2>6. CASE /\ UNCHANGED sock
             /\ \E r \in ClientState : client' = [client EXCEPT ![c] = r] /\ Reads(client[c], r, m)
    <3>1. PICK r \in ClientState : client' = [client EXCEPT ![c] = r] /\ Reads(client[c], r, m)
      BY <2>6
    <3>2. QED
      BY <1>1, <1>3, <2>1, <2>2, <2>6, <3>1, ReadKeeps
  <2>7. QED
    BY <2>3, <2>4, <2>5, <2>6, HandleMessageFacts
<1>4. QED
  BY <1>2, <1>3

-----------------------------------------------------------------------------
(* What the host sends *)

\* Queue r is q and behind it the frames of S
Sent(q, r, S) ==
    /\ r \in Seq(RelayBound) /\ Len(r) >= Len(q)
    /\ \A k \in 1..Len(q) : r[k] = q[k]
    /\ \A k \in Len(q) + 1..Len(r) : r[k] \in S
    /\ \A g \in S : \E k \in Len(q) + 1..Len(r) : r[k] = g

\* The host sends nothing
LEMMA SentNothing ==
    ASSUME NEW q \in Seq(RelayBound)
    PROVE  Sent(q, q, {})
  BY DEF Sent

\* The host sends more behind what it has sent
LEMMA SentMore ==
    ASSUME NEW q \in Seq(RelayBound), NEW r, NEW S, Sent(q, r, S), NEW fs \in Seq(RelayBound)
    PROVE  Sent(q, r \o fs, S \cup ToSet(fs))
<1>1. /\ r \in Seq(RelayBound) /\ Len(r) >= Len(q)
      /\ \A k \in 1..Len(q) : r[k] = q[k]
      /\ \A k \in Len(q) + 1..Len(r) : r[k] \in S
      /\ \A g \in S : \E k \in Len(q) + 1..Len(r) : r[k] = g
  BY DEF Sent
<1>2. Len(q) \in Nat /\ Len(r) \in Nat /\ Len(fs) \in Nat /\ DOMAIN fs = 1..Len(fs)
  BY <1>1
<1> DEFINE z == r \o fs
<1>3. /\ z \in Seq(RelayBound) /\ Len(z) = Len(r) + Len(fs)
      /\ \A k \in 1..Len(r) : z[k] = r[k]
      /\ \A k \in 1..Len(fs) : z[Len(r) + k] = fs[k]
  BY <1>1, Joined
<1> HIDE DEF z
<1>4. \A k \in 1..Len(q) : z[k] = q[k]
  BY <1>1, <1>2, <1>3, \A k \in 1..Len(q) : k \in 1..Len(r)
<1>5. ASSUME NEW k \in Len(q) + 1..Len(z) PROVE z[k] \in S \cup ToSet(fs)
  <2>1. CASE k <= Len(r)
    <3>1. k \in 1..Len(r) /\ k \in Len(q) + 1..Len(r)
      BY <1>2, <2>1
    <3>2. QED
      BY <1>1, <1>3, <3>1
  <2>2. CASE ~(k <= Len(r))
    <3>1. k - Len(r) \in 1..Len(fs) /\ Len(r) + (k - Len(r)) = k
      BY <1>1, <1>2, <1>3, <2>2
    <3>2. z[Len(r) + (k - Len(r))] = fs[k - Len(r)]
      BY <1>3, <3>1
    <3>3. fs[k - Len(r)] \in ToSet(fs)
      BY <1>2, <3>1 DEF ToSet
    <3>4. QED
      BY <3>1, <3>2, <3>3
  <2>3. QED
    BY <2>1, <2>2
<1>6. ASSUME NEW g \in S PROVE \E k \in Len(q) + 1..Len(z) : z[k] = g
  <2>1. PICK k \in Len(q) + 1..Len(r) : r[k] = g
    BY <1>1
  <2>2. k \in 1..Len(r) /\ k \in Len(q) + 1..Len(z)
    BY <1>2, <1>3
  <2>3. QED
    BY <1>3, <2>1, <2>2
<1>7. ASSUME NEW g \in ToSet(fs) PROVE \E k \in Len(q) + 1..Len(z) : z[k] = g
  <2>1. PICK k \in 1..Len(fs) : fs[k] = g
    BY <1>2 DEF ToSet
  <2>2. Len(r) + k \in Len(q) + 1..Len(z)
    BY <1>1, <1>2, <1>3
  <2>3. z[Len(r) + k] = g
    BY <1>3, <2>1
  <2>4. QED
    BY <2>2, <2>3
<1>8. Len(z) >= Len(q)
  BY <1>1, <1>2, <1>3
<1>9. QED
  BY <1>3, <1>4, <1>5, <1>6, <1>7, <1>8 DEF Sent, z

\* The host sends
LEMMA SentOnce ==
    ASSUME NEW q \in Seq(RelayBound), NEW fs \in Seq(RelayBound)
    PROVE  Sent(q, q \o fs, ToSet(fs))
<1>1. Sent(q, q \o fs, {} \cup ToSet(fs))
  BY SentNothing, SentMore
<1>2. QED
  BY <1>1

\* What is in the queue after the host has sent
LEMMA SentFacts ==
    ASSUME NEW q \in Seq(RelayBound), NEW r, NEW S, Sent(q, r, S)
    PROVE  /\ ToSet(r) = ToSet(q) \cup S
           /\ DOMAIN r = 1..Len(r) /\ DOMAIN q = 1..Len(q) /\ Len(r) \in Nat /\ Len(q) \in Nat
           /\ DOMAIN q \subseteq DOMAIN r
<1>1. /\ r \in Seq(RelayBound) /\ Len(r) >= Len(q)
      /\ \A k \in 1..Len(q) : r[k] = q[k]
      /\ \A k \in Len(q) + 1..Len(r) : r[k] \in S
      /\ \A g \in S : \E k \in Len(q) + 1..Len(r) : r[k] = g
  BY DEF Sent
<1>2. DOMAIN r = 1..Len(r) /\ DOMAIN q = 1..Len(q) /\ Len(r) \in Nat /\ Len(q) \in Nat
  BY <1>1
<1>3. 1..Len(r) = 1..Len(q) \cup (Len(q) + 1..Len(r)) /\ 1..Len(q) \subseteq 1..Len(r)
  BY <1>1, <1>2
<1>4. QED
  BY <1>1, <1>2, <1>3 DEF ToSet

\* No id is handed out twice in this queue
HandsOut(q) ==
    \A k, j \in DOMAIN q :
       q[k].msg.type = "handoff" /\ q[j].msg.type = "handoff" /\ q[j].msg.id = q[k].msg.id => j = k

\* Ids stay apart when nothing is handed out, or one id that is not in the queue
LEMMA HandsOutMore ==
    ASSUME NEW q \in Seq(RelayBound), NEW r, NEW S, Sent(q, r, S), HandsOut(q),
           \/ \A g \in S : g.msg.type # "handoff"
           \/ /\ Len(r) <= Len(q) + 1
              /\ \A g \in S, f \in ToSet(q) : f.msg.type = "handoff" => f.msg.id # g.msg.id
    PROVE  HandsOut(r)
<1>1. /\ r \in Seq(RelayBound) /\ Len(r) >= Len(q)
      /\ \A k \in 1..Len(q) : r[k] = q[k]
      /\ \A k \in Len(q) + 1..Len(r) : r[k] \in S
  BY DEF Sent
<1>2. DOMAIN r = 1..Len(r) /\ DOMAIN q = 1..Len(q) /\ Len(r) \in Nat /\ Len(q) \in Nat
  BY <1>1
<1>3. \A k \in 1..Len(r) : k \in 1..Len(q) \/ k \in Len(q) + 1..Len(r)
  BY <1>1, <1>2
<1> SUFFICES ASSUME NEW k \in 1..Len(r), NEW j \in 1..Len(r),
                    r[k].msg.type = "handoff", r[j].msg.type = "handoff", r[j].msg.id = r[k].msg.id
             PROVE  j = k
  BY <1>2 DEF HandsOut
<1>4. CASE k \in 1..Len(q) /\ j \in 1..Len(q)
  BY <1>1, <1>2, <1>4 DEF HandsOut
<1>5. CASE k \in Len(q) + 1..Len(r) /\ j \in Len(q) + 1..Len(r)
  <2>1. Len(r) <= Len(q) + 1
    BY <1>1, <1>5
  <2>2. QED
    BY <1>2, <1>5, <2>1
<1>6. CASE k \in 1..Len(q) /\ j \in Len(q) + 1..Len(r)
  <2>1. r[k] \in ToSet(q) /\ r[j] \in S
    BY <1>1, <1>2, <1>6 DEF ToSet
  <2>2. QED
    BY <2>1
<1>7. CASE j \in 1..Len(q) /\ k \in Len(q) + 1..Len(r)
  <2>1. r[j] \in ToSet(q) /\ r[k] \in S
    BY <1>1, <1>2, <1>7 DEF ToSet
  <2>2. QED
    BY <2>1
<1>8. QED
  BY <1>3, <1>4, <1>5, <1>6, <1>7

\* Frames that take nobody away leave a client as well informed as before
LEMMA KnowsSent ==
    ASSUME toRelay \in Seq(RelayBound), NEW S, Sent(toRelay, toRelay', S), UNCHANGED client,
           NEW c \in Client, NEW b, \A g \in S : ~Takes(g.msg, b),
           \/ WillKnow(c, b)
           \/ \E g \in S : g.target = client[c].token /\ Brings(g.msg, b)
    PROVE  WillKnow(c, b)'
<1>1. /\ toRelay' \in Seq(RelayBound) /\ Len(toRelay') >= Len(toRelay)
      /\ \A k \in 1..Len(toRelay) : toRelay'[k] = toRelay[k]
      /\ \A k \in Len(toRelay) + 1..Len(toRelay') : toRelay'[k] \in S
      /\ \A g \in S : \E k \in Len(toRelay) + 1..Len(toRelay') : toRelay'[k] = g
  BY DEF Sent
<1>2. /\ DOMAIN toRelay' = 1..Len(toRelay') /\ DOMAIN toRelay = 1..Len(toRelay)
      /\ Len(toRelay') \in Nat /\ Len(toRelay) \in Nat
  BY <1>1
<1>3. \A k \in 1..Len(toRelay') : k \in 1..Len(toRelay) \/ k \in Len(toRelay) + 1..Len(toRelay')
  BY <1>1, <1>2
<1>4. \A k \in 1..Len(toRelay) : k \in 1..Len(toRelay')
  BY <1>1, <1>2
<1> DEFINE id == client[c].token
<1>5. ASSUME NEW j \in Nat, KeptAfter(j, id, b) PROVE KeptAfter(j, client[c].token, b)'
  BY <1>1, <1>2, <1>3, <1>5 DEF KeptAfter
<1>6. CASE b \in client[c].roster /\ KeptAfter(0, id, b)
  BY <1>5, <1>6 DEF WillKnow
<1>7. CASE \E j \in DOMAIN toRelay :
          /\ toRelay[j].target = id /\ Brings(toRelay[j].msg, b)
          /\ KeptAfter(j, id, b)
  <2>1. PICK j \in DOMAIN toRelay :
          /\ toRelay[j].target = id /\ Brings(toRelay[j].msg, b)
          /\ KeptAfter(j, id, b)
    BY <1>7
  <2>2. j \in Nat /\ j \in DOMAIN toRelay' /\ toRelay'[j] = toRelay[j]
    BY <1>1, <1>2, <1>4
  <2>3. KeptAfter(j, client[c].token, b)'
    BY <1>5, <2>1, <2>2
  <2>4. QED
    BY <2>1, <2>2, <2>3 DEF WillKnow
<1>8. CASE \E g \in S : g.target = client[c].token /\ Brings(g.msg, b)
  <2>1. PICK g \in S : g.target = client[c].token /\ Brings(g.msg, b)
    BY <1>8
  <2>2. PICK j \in Len(toRelay) + 1..Len(toRelay') : toRelay'[j] = g
    BY <1>1
  <2>3. j \in DOMAIN toRelay' /\ j \in Nat
    BY <1>2
  <2>4. \A k \in DOMAIN toRelay' : k > j => k \in Len(toRelay) + 1..Len(toRelay')
    BY <1>2
  <2>5. KeptAfter(j, client[c].token, b)'
    BY <1>1, <2>4 DEF KeptAfter
  <2>6. QED
    BY <2>1, <2>2, <2>3, <2>5 DEF WillKnow
<1>9. QED
  BY <1>6, <1>7, <1>8 DEF WillKnow

\* The host has sent the frames of S
LEMMA HostInformed ==
    ASSUME CloudInv, UNCHANGED <<sock, client, memberSockets>>, NEW S, Sent(toRelay, toRelay', S),
           \A id \in SeatIds' : \A f \in ToSet(toHost) :
              f.type = "member-left" /\ f.sub = id => f \in ToSet(toHost)',
           \A c \in Client :
              client[c].token \in SeatIds' /\ (\E t \in ToSet(issuing) : t.key = client[c].token) =>
                 \/ \E t \in ToSet(issuing)' : t.key = client[c].token
                 \/ \A b \in SeatIds' : \E g \in S : g.target = client[c].token /\ Brings(g.msg, b),
           \A id \in SeatIds' : \/ id \in SeatIds
                                \/ \E t \in ToSet(issuing)' : t.kind = "new" /\ t.id = id
                                        /\ t.key = id,
           \A t \in ToSet(issuing), c \in Client :
              t.kind = "new" /\ client[c].token \in SeatIds' /\ t.key # client[c].token =>
                 \/ t \in ToSet(issuing)'
                 \/ \E g \in S : g.target = client[c].token /\ Brings(g.msg, t.id),
           \A g \in S, b \in SeatIds' : ~Takes(g.msg, b)
    PROVE  Informed'
<1> SUFFICES ASSUME NEW c \in Client, client[c].token \in SeatIds', ~client[c].left,
                    ~Doubtful(client[c].token)'
             PROVE  \/ \E t \in ToSet(issuing)' : t.key = client[c].token
                    \/ \A b \in SeatIds' : \/ \E t \in ToSet(issuing)' : t.kind = "new" /\ t.id = b
                                           \/ WillKnow(c, b)'
  BY DEF Informed
<1>0. toRelay \in Seq(RelayBound) /\ UNCHANGED ToSet(memberSockets)
  BY DEF CloudInv, CloudTypeOK, ToSet
<1>1. CASE client[c].token \notin SeatIds
  BY <1>1
<1>2. CASE client[c].token \in SeatIds
  <2>1. ~Doubtful(client[c].token)
    BY <1>0 DEF Doubtful
  <2>2. \/ \E t \in ToSet(issuing) : t.key = client[c].token
        \/ \A b \in SeatIds : \/ \E t \in ToSet(issuing) : t.kind = "new" /\ t.id = b
                              \/ WillKnow(c, b)
    BY <1>2, <2>1 DEF CloudInv, Informed
  <2>3. CASE \E t \in ToSet(issuing) : t.key = client[c].token
    <3>1. CASE \E t \in ToSet(issuing)' : t.key = client[c].token
      BY <3>1
    <3>2. CASE \A b \in SeatIds' : \E g \in S : g.target = client[c].token /\ Brings(g.msg, b)
      BY <1>0, <3>2, KnowsSent
    <3>3. QED
      BY <2>3, <3>1, <3>2
  <2>4. CASE ~(\E t \in ToSet(issuing) : t.key = client[c].token)
    <3> SUFFICES ASSUME NEW b \in SeatIds', ~(\E t \in ToSet(issuing)' : t.kind = "new" /\ t.id = b)
                 PROVE  WillKnow(c, b)'
      OBVIOUS
    <3>1. b \in SeatIds
      OBVIOUS
    <3>2. CASE \E t \in ToSet(issuing) : t.kind = "new" /\ t.id = b
      <4>1. PICK t \in ToSet(issuing) : t.kind = "new" /\ t.id = b
        BY <3>2
      <4>2. \E g \in S : g.target = client[c].token /\ Brings(g.msg, b)
        BY <2>4, <4>1
      <4>3. QED
        BY <1>0, <4>2, KnowsSent
    <3>3. CASE WillKnow(c, b)
      BY <1>0, <3>3, KnowsSent
    <3>4. QED
      BY <2>2, <2>4, <3>1, <3>2, <3>3
  <2>5. QED
    BY <2>3, <2>4
<1>3. QED
  BY <1>1, <1>2

\* Everything the host sends and stores names its client
LEMMA HostNames ==
    ASSUME CloudInv, CloudTypeOK', UNCHANGED <<sock, client, memberSockets>>, NEW S,
           Sent(toRelay, toRelay', S),
           ToSet(toHost)' \subseteq ToSet(toHost), minted' >= minted,
           \A g \in S : /\ g.msg.type = "handoff" => g.target = Boot /\ g.msg.id \in 1..minted
                        /\ g.msg.type = "welcome" => g.target = g.msg.id
                        /\ g.target = Boot => g.msg.type \in {"handoff", "refused"},
           \A t \in ToSet(issuing)' :
              \/ t \in ToSet(issuing)
              \/ IF t.kind = "bootstrap" THEN t.key = Boot /\ t.id \in 1..minted'
                 ELSE t.key = t.id /\ t.key = client[t.by].token,
           \A m \in seats' : m \in seats \/ m.id = client[m.by].token
    PROVE  NamesItself' /\ OwnIdentity' /\ SocketsInOrder'
<1>1. minted \in Nat /\ minted' \in Nat /\ CloudTypeOK /\ SocketsInOrder /\ NamesItself
  BY DEF CloudInv, CloudTypeOK
<1>2. 1..minted \subseteq 1..minted' /\ 0..minted \subseteq 0..minted'
  BY <1>1
<1>3. ToSet(toRelay)' = ToSet(toRelay) \cup S
  <2>1. ToSet(toRelay') = ToSet(toRelay) \cup S
    BY <1>1, SentFacts DEF CloudTypeOK
  <2>2. QED
    BY <2>1 DEF ToSet
<1>4. OwnIdentity'
  BY DEF CloudInv, OwnIdentity
<1>5. NamesItself'
  <2>1. \A c \in Client :
          /\ client[c].token \in {Boot} \cup 1..minted'
          /\ client[c].me \in 0..minted'
          /\ client[c].token # Boot => client[c].swapped \/ client[c].left
    BY <1>1, <1>2 DEF NamesItself
  <2>2. \A c \in Client, i \in 1..MaxDials : sock[<<c, i>>].sub \in {Boot, client[c].token}
    BY <1>1 DEF NamesItself
  <2>3. \A f \in ToSet(toHost)' : f.sub \in {Boot, client[f.by].token}
    BY <1>1 DEF NamesItself
  <2>4. \A t \in ToSet(issuing)' :
          IF t.kind = "bootstrap" THEN t.key = Boot /\ t.id \in 1..minted'
          ELSE t.key = t.id /\ t.key = client[t.by].token
    BY <1>1, <1>2 DEF NamesItself
  <2>5. \A m \in seats' : m.id = client[m.by].token
    BY <1>1 DEF NamesItself
  <2>6. \A f \in ToSet(toRelay)' :
          /\ f.msg.type = "handoff" => f.target = Boot /\ f.msg.id \in 1..minted'
          /\ f.msg.type = "welcome" => f.target = f.msg.id
          /\ f.target = Boot => f.msg.type \in {"handoff", "refused"}
    BY <1>1, <1>2, <1>3 DEF NamesItself
  <2>7. QED
    BY <2>1, <2>2, <2>3, <2>4, <2>5, <2>6 DEF NamesItself
<1>6. SocketsInOrder'
  <2>1. UNCHANGED ToSet(memberSockets) /\ UNCHANGED IsInjective(memberSockets)
    BY DEF ToSet, IsInjective
  <2>2. QED
    BY <1>1, <2>1 DEF SocketsInOrder
<1>7. QED
  BY <1>4, <1>5, <1>6

\* The host reads a request or a departure, and the later requests are as before
LEMMA HostAskers ==
    ASSUME CloudInv, UNCHANGED <<sock, memberSockets>>,
           toHost' = toHost \/ (toHost # <<>> /\ toHost' = Tail(toHost))
    PROVE  AskersHeld'
<1>0. UNCHANGED ToSet(memberSockets)
  BY DEF ToSet
<1>1. CASE toHost' = toHost
  BY <1>0, <1>1 DEF CloudInv, AskersHeld
<1>2. CASE toHost # <<>> /\ toHost' = Tail(toHost)
  <2>1. /\ DOMAIN toHost = 1..Len(toHost) /\ Len(toHost) \in Nat \ {0}
        /\ DOMAIN toHost' = 1..Len(toHost) - 1
        /\ \A k \in 1..Len(toHost) - 1 : toHost'[k] = toHost[k + 1]
    BY <1>2, Taken DEF CloudInv, CloudTypeOK
  <2> SUFFICES ASSUME NEW j \in DOMAIN toHost', toHost'[j].type = "auth-request"
               PROVE  \/ \E s \in ToSet(memberSockets) : sock[s].sub = toHost'[j].sub
                      \/ \E k \in DOMAIN toHost' : /\ k > j
                                                   /\ toHost'[k].type = "member-left"
                                                   /\ toHost'[k].sub = toHost'[j].sub
    BY <1>0 DEF AskersHeld
  <2>2. j + 1 \in DOMAIN toHost /\ toHost'[j] = toHost[j + 1] /\ j \in Nat
    BY <2>1
  <2>3. \/ \E s \in ToSet(memberSockets) : sock[s].sub = toHost[j + 1].sub
        \/ \E k \in DOMAIN toHost : /\ k > j + 1
                                    /\ toHost[k].type = "member-left"
                                    /\ toHost[k].sub = toHost[j + 1].sub
    BY <2>2 DEF CloudInv, AskersHeld
  <2>4. CASE \E k \in DOMAIN toHost : /\ k > j + 1
                                      /\ toHost[k].type = "member-left"
                                      /\ toHost[k].sub = toHost[j + 1].sub
    <3>1. PICK k \in DOMAIN toHost : /\ k > j + 1
                                      /\ toHost[k].type = "member-left"
                                      /\ toHost[k].sub = toHost[j + 1].sub
      BY <2>4
    <3>2. k - 1 \in DOMAIN toHost' /\ k - 1 > j /\ (k - 1) + 1 = k
      BY <2>1, <2>2, <3>1
    <3>3. toHost'[k - 1] = toHost[k]
      BY <2>1, <3>2
    <3>4. QED
      BY <2>2, <3>1, <3>2, <3>3
  <2>5. QED
    BY <2>2, <2>3, <2>4
<1>3. QED
  BY <1>1, <1>2

\* The host leaves those that wait for an answer with one on its way
LEMMA HostAnswered ==
    ASSUME CloudInv, UNCHANGED <<sock, client, memberSockets>>, NEW S, Sent(toRelay, toRelay', S),
           ToSet(toHost)' \subseteq ToSet(toHost),
           \A t \in ToSet(issuing)' :
              \/ t \in ToSet(issuing)
              \/ t.key # Boot
              \/ \E f \in ToSet(toHost) : f.sub = Boot /\ f.by = t.by,
           (\A f \in ToSet(toHost) : f.sub = Boot => f.type = "auth-request") =>
              \/ \E g \in S : g.target = Boot
              \/ Boot \in virt' /\ \E t \in ToSet(issuing)' : t.key = Boot
              \/ /\ \A f \in ToSet(toHost) : f.sub = Boot => f \in ToSet(toHost)'
                 /\ Boot \in virt /\ (\E t \in ToSet(issuing) : t.key = Boot) =>
                      Boot \in virt' /\ (\E t \in ToSet(issuing)' : t.key = Boot)
    PROVE  WaitsFresh' /\ WaitsForAnswer'
<1>0. /\ UNCHANGED ToSet(memberSockets) /\ CloudTypeOK /\ SocketsInOrder
      /\ ToSet(toRelay)' = ToSet(toRelay) \cup S
  <2>1. ToSet(toRelay') = ToSet(toRelay) \cup S
    BY SentFacts DEF CloudInv, CloudTypeOK
  <2>2. QED
    BY <2>1 DEF CloudInv, ToSet
<1>1. WaitsFresh'
  BY DEF CloudInv, WaitsFresh, Fresh
<1>2. ASSUME NEW d \in Client, client[d].verdict = "waiting", ~client[d].shared PROVE Answerable(d)'
  <2>1. Answerable(d) /\ ~SharesBootstrap(d)
    BY <1>2 DEF CloudInv, WaitsForAnswer, Answerable
  <2>2. ~SharesBootstrap(d)'
    <3>1. \A t \in ToSet(issuing)' : t.key = Boot => t.by = d
      BY <2>1 DEF SharesBootstrap
    <3>2. QED
      BY <1>0, <2>1, <3>1 DEF SharesBootstrap
  <2> SUFFICES ASSUME client[d].ws = 1, ~sock[<<d, 1>>].cut
               PROVE  /\ \A f \in ToSet(toHost)' : f.sub = Boot => f.type = "auth-request"
                      /\ sock[<<d, 1>>].phase = "open" =>
                           /\ <<d, 1>> \in ToSet(memberSockets)
                           /\ \/ \E f \in ToSet(toHost)' : f.sub = Boot
                              \/ Boot \in virt' /\ \E t \in ToSet(issuing)' : t.key = Boot
                              \/ \E f \in ToSet(toRelay)' : f.target = Boot
    BY <1>0, <2>2 DEF Answerable
  <2>3. /\ \A f \in ToSet(toHost) : f.sub = Boot => f.type = "auth-request"
        /\ sock[<<d, 1>>].phase = "open" =>
             /\ <<d, 1>> \in ToSet(memberSockets)
             /\ \/ \E f \in ToSet(toHost) : f.sub = Boot
                \/ Boot \in virt /\ \E t \in ToSet(issuing) : t.key = Boot
                \/ \E f \in ToSet(toRelay) : f.target = Boot
    BY <2>1 DEF Answerable
  <2>4. QED
    BY <1>0, <2>3
<1>3. QED
  BY <1>1, <1>2 DEF WaitsForAnswer

\* One frame behind a queue
LEMMA JoinedOne ==
    ASSUME NEW S, NEW q \in Seq(S), NEW e \in S
    PROVE  /\ q \o <<e>> \in Seq(S) /\ ToSet(q \o <<e>>) = ToSet(q) \cup {e}
           /\ DOMAIN (q \o <<e>>) = 1..Len(q) + 1 /\ DOMAIN q = 1..Len(q) /\ Len(q) \in Nat
           /\ \A k \in 1..Len(q) : (q \o <<e>>)[k] = q[k]
           /\ (q \o <<e>>)[Len(q) + 1] = e
<1> DEFINE o == <<e>>
<1>1. o \in Seq(S) /\ Len(o) = 1 /\ o[1] = e /\ DOMAIN o = 1..1
  OBVIOUS
<1>2. ToSet(o) = {e}
  BY <1>1 DEF ToSet
<1>3. DOMAIN q = 1..Len(q) /\ Len(q) \in Nat
  OBVIOUS
<1> HIDE DEF o
<1>4. /\ q \o o \in Seq(S) /\ Len(q \o o) = Len(q) + Len(o)
      /\ DOMAIN (q \o o) = 1..Len(q) + Len(o)
      /\ \A k \in 1..Len(q) : (q \o o)[k] = q[k]
      /\ \A k \in 1..Len(o) : (q \o o)[Len(q) + k] = o[k]
      /\ ToSet(q \o o) = ToSet(q) \cup ToSet(o)
  BY <1>1, Joined
<1>5. (q \o o)[Len(q) + 1] = e
  BY <1>1, <1>4
<1>6. /\ q \o o \in Seq(S) /\ ToSet(q \o o) = ToSet(q) \cup {e}
      /\ DOMAIN (q \o o) = 1..Len(q) + 1
  BY <1>1, <1>2, <1>4
<1> USE DEF o
<1>7. QED
  BY <1>3, <1>4, <1>5, <1>6

-----------------------------------------------------------------------------
(* The steps of the relay and of the host *)

\* A socket that the relay detaches preserves the invariant
LEMMA RelayNoticesKeeps ==
    ASSUME CloudInv, NEW s \in Socket, RelayNotices(s)
    PROVE  CloudInv'
<1> DEFINE e == [type |-> "member-left", sub |-> sock[s].sub, by |-> s[1]]
<1>1. /\ s \in ToSet(memberSockets) /\ (sock[s].cut \/ sock[s].phase \in {"closing", "closed"})
      /\ memberSockets' = RemoveFirst(memberSockets, s)
      /\ toHost' = toHost \o <<e>>
      /\ UNCHANGED <<sock, client, toRelay, hostVars, faults>>
  BY DEF RelayNotices, LeftFrame
<1>2. CloudTypeOK /\ SocketsInOrder
  BY DEF CloudInv
<1>3. /\ s[1] \in Client /\ s[2] \in 1..MaxDials /\ s = <<s[1], s[2]>>
      /\ sock[s] = sock[<<s[1], s[2]>>] /\ sock[s] \in SocketState
  BY <1>2, OfSocket DEF CloudTypeOK
<1>4. /\ client[s[1]].ws \in Nat \ {0} /\ s[2] <= client[s[1]].ws
      /\ sock[s].sub \in {Boot, client[s[1]].token}
  <2>1. sock[<<s[1], s[2]>>].phase # "none"
    BY <1>1, <1>2, <1>3 DEF SocketsInOrder
  <2>2. QED
    BY <1>3, <2>1, HasDialled DEF CloudInv, NamesItself
<1>5. e \in HostBound /\ e.type = "member-left" /\ e.sub = sock[s].sub /\ e.by = s[1]
  BY <1>3 DEF HostBound, SocketState
<1> HIDE DEF e
<1>6. /\ toHost' \in Seq(HostBound) /\ ToSet(toHost)' = ToSet(toHost) \cup {e}
      /\ DOMAIN toHost' = 1..Len(toHost) + 1 /\ DOMAIN toHost = 1..Len(toHost)
      /\ Len(toHost) \in Nat
      /\ \A k \in 1..Len(toHost) : toHost'[k] = toHost[k]
      /\ toHost'[Len(toHost) + 1] = e
  <2>1. toHost \in Seq(HostBound)
    BY <1>2 DEF CloudTypeOK
  <2>2. /\ toHost' \in Seq(HostBound) /\ ToSet(toHost') = ToSet(toHost) \cup {e}
        /\ DOMAIN toHost' = 1..Len(toHost) + 1 /\ DOMAIN toHost = 1..Len(toHost)
        /\ Len(toHost) \in Nat
        /\ \A k \in 1..Len(toHost) : toHost'[k] = toHost[k]
        /\ toHost'[Len(toHost) + 1] = e
    BY <1>1, <1>5, <2>1, JoinedOne
  <2>3. QED
    BY <2>2 DEF ToSet
<1>7. /\ memberSockets' \in Seq(Socket) /\ IsInjective(memberSockets)'
      /\ ToSet(memberSockets)' = ToSet(memberSockets) \ {s}
  <2>1. memberSockets \in Seq(Socket) /\ IsInjective(memberSockets)
    BY <1>2 DEF CloudTypeOK, SocketsInOrder
  <2>2. /\ memberSockets' \in Seq(Socket) /\ IsInjective(memberSockets')
        /\ ToSet(memberSockets') = ToSet(memberSockets) \ {s}
    BY <1>1, <2>1, Detached
  <2>3. QED
    BY <2>2 DEF ToSet, IsInjective
<1>8. CloudTypeOK'
  BY <1>1, <1>2, <1>6, <1>7 DEF CloudTypeOK, hostVars
<1>9. Evolves /\ Steady
  BY <1>1, CloudConstants DEF Evolves, Steady, CloudInv, CloudTypeOK, ClientState
<1>10. SocketsInOrder'
  <2>1. \A f \in ToSet(toHost)' : f \in ToSet(toHost) \/ client'[f.by].ws # 0
    BY <1>1, <1>4, <1>5, <1>6
  <2>2. QED
    BY <1>2, <1>7, <1>8, <1>9, <2>1, OrderKept
<1>11. NamesItself' /\ HandedOnce' /\ OwnIdentity'
  <2>1. \A f \in ToSet(toHost)' :
              f \in ToSet(toHost) \/ (f.by \in Client /\ f.sub \in {Boot, client[f.by].token})
    BY <1>3, <1>4, <1>5, <1>6
  <2>2. QED
    BY <1>1, <1>9, <2>1, SteadyNames DEF CloudInv
<1>12. UNCHANGED <<SeatIds, virt, ToSet(issuing), ToSet(toRelay)>>
  BY <1>1 DEF hostVars, SeatIds, ToSet
<1>13. \A id : (\E x \in ToSet(memberSockets) : sock[x].sub = id) =>
          \/ \E x \in ToSet(memberSockets)' : sock[x].sub = id
          \/ id = e.sub
  BY <1>5, <1>7
<1>14. SeatIsHeld'
  BY <1>1, <1>5, <1>6, <1>12, <1>13 DEF CloudInv, SeatIsHeld
<1>15. AskersHeld'
  <2> SUFFICES ASSUME NEW j \in DOMAIN toHost', toHost'[j].type = "auth-request"
               PROVE  \/ \E x \in ToSet(memberSockets)' : sock'[x].sub = toHost'[j].sub
                      \/ \E k \in DOMAIN toHost' : /\ k > j
                                                   /\ toHost'[k].type = "member-left"
                                                   /\ toHost'[k].sub = toHost'[j].sub
    BY DEF AskersHeld
  <2>1. j \in 1..Len(toHost) /\ toHost'[j] = toHost[j]
    <3>1. j # Len(toHost) + 1
      BY <1>5, <1>6
    <3>2. QED
      BY <1>6, <3>1
  <2>2. \/ \E x \in ToSet(memberSockets) : sock[x].sub = toHost[j].sub
        \/ \E k \in DOMAIN toHost : /\ k > j
                                    /\ toHost[k].type = "member-left"
                                    /\ toHost[k].sub = toHost[j].sub
    BY <1>6, <2>1 DEF CloudInv, AskersHeld
  <2>3. CASE \E k \in DOMAIN toHost : /\ k > j
                                    /\ toHost[k].type = "member-left"
                                    /\ toHost[k].sub = toHost[j].sub
    BY <1>6, <2>1, <2>3
  <2>4. CASE \E x \in ToSet(memberSockets)' : sock[x].sub = toHost[j].sub
    BY <1>1, <2>1, <2>4
  <2>5. CASE toHost[j].sub = e.sub
    <3>1. Len(toHost) + 1 \in DOMAIN toHost' /\ Len(toHost) + 1 > j
      BY <1>6, <2>1
    <3>2. QED
      BY <1>5, <1>6, <2>1, <2>5, <3>1
  <2>6. QED
    BY <1>13, <2>2, <2>3, <2>4, <2>5
<1>16. Informed'
  <2> SUFFICES ASSUME NEW c \in Client, client[c].token \in SeatIds', ~client[c].left,
                      ~Doubtful(client[c].token)'
               PROVE  \/ \E t \in ToSet(issuing)' : t.key = client[c].token
                      \/ \A b \in SeatIds' :
                           \/ \E t \in ToSet(issuing)' : t.kind = "new" /\ t.id = b
                           \/ WillKnow(c, b)'
    BY <1>1 DEF Informed
  <2>1. ~Doubtful(client[c].token)
    BY <1>1, <1>5, <1>6, <1>7 DEF Doubtful
  <2>2. \A b : WillKnow(c, b) <=> WillKnow(c, b)'
    BY <1>1 DEF WillKnow, KeptAfter
  <2>3. QED
    BY <1>12, <2>1, <2>2 DEF CloudInv, Informed
<1>17. WaitsFresh'
  BY <1>1 DEF CloudInv, WaitsFresh, Fresh
<1>18. ASSUME NEW d \in Client, client[d].verdict = "waiting", ~client[d].shared
       PROVE  Answerable(d)'
  <2>1. Answerable(d) /\ ~SharesBootstrap(d) /\ Fresh(d)
    BY <1>18 DEF CloudInv, WaitsForAnswer, Answerable, WaitsFresh
  <2>2. ~SharesBootstrap(d)'
    <3>1. e.by = d \/ e.sub # Boot
      BY <1>1, <1>5, <2>1 DEF SharesBootstrap
    <3>2. \A f \in ToSet(toHost)' : f \in ToSet(toHost) \/ f.by = d \/ f.sub # Boot
      BY <1>6, <3>1
    <3>3. \A c \in Client : client'[c].ws = client[c].ws
      BY <1>1
    <3>4. QED
      BY <1>2, <1>7, <1>9, <1>12, <2>1, <3>2, <3>3, StaysUnshared
  <2>3. CASE client[d].ws = 1 /\ ~sock[<<d, 1>>].cut
    <3>1. client[d].token = Boot /\ sock[<<d, 1>>].phase \in {"dialing", "open"}
      BY <1>18, <2>1, <2>3 DEF Fresh
    <3>2. 1 \in 1..MaxDials
      BY <1>3, CloudConstants
    <3>3. sock[<<d, 1>>].sub = Boot
      BY <3>1, <3>2 DEF CloudInv, NamesItself
    <3>4. s # <<d, 1>>
      BY <1>1, <2>3, <3>1
    <3>5. sock[s].sub # Boot
      <4> SUFFICES ASSUME sock[s].sub = Boot PROVE FALSE
        OBVIOUS
      <4>1. s[1] = d
        BY <1>1, <2>1 DEF SharesBootstrap
      <4>2. s[2] = 1
        BY <1>3, <1>4, <2>3, <4>1, CloudConstants
      <4>3. QED
        BY <1>3, <3>4, <4>1, <4>2
    <3>6. QED
      BY <1>1, <1>5, <1>6, <1>7, <1>12, <2>1, <2>2, <3>4, <3>5, AnswerKept
  <2>4. CASE ~(client[d].ws = 1 /\ ~sock[<<d, 1>>].cut)
    BY <1>1, <2>2, <2>4 DEF Answerable
  <2>5. QED
    BY <2>3, <2>4
<1>19. WaitsForAnswer'
  BY <1>1, <1>18 DEF WaitsForAnswer
<1>20. QED
  BY <1>8, <1>10, <1>11, <1>14, <1>15, <1>16, <1>17, <1>19 DEF CloudInv

\* A virtual connection is closed, with frames sent before
LEMMA ClosesFacts ==
    ASSUME CloudTypeOK, NEW key \in Sub, NEW vs, vs \subseteq Sub, IsFiniteSet(vs),
           NEW frames \in Seq(RelayBound), Closes(vs, seats, key, frames)
    PROVE  /\ virt' = vs \ {key} /\ virt' \subseteq Sub /\ IsFiniteSet(virt')
           /\ seats' \subseteq seats /\ SeatIds' = SeatIds \ {key}
           /\ toRelay' \in Seq(RelayBound)
           /\ \E S :
                /\ \A g \in S : g.msg.type = "member-left" /\ g.msg.id = key /\ g.target \in SeatIds
                /\ Sent(toRelay, toRelay', ToSet(frames) \cup S)
                /\ Sent(toRelay \o frames, toRelay', S)
<1> DEFINE m == [type |-> "member-left", id |-> key]
           ids == SeatIds \ {key}
           fs == IF key \in SeatIds THEN ToAll(vs \ {key}, ids, m) ELSE <<>>
<1>1. /\ virt' = vs \ {key} /\ seats' = {n \in seats : n.id # key}
      /\ toRelay' = toRelay \o frames \o fs
  BY DEF Closes, SeatIds
<1>2. virt' \subseteq Sub /\ IsFiniteSet(virt')
  BY <1>1, FS_RemoveElement
<1>3. seats' \subseteq seats /\ SeatIds' = SeatIds \ {key}
  BY <1>1 DEF SeatIds
<1>4. SeatIds \subseteq Nat
  BY DEF SeatIds, CloudTypeOK
<1>5. /\ fs \in Seq(RelayBound)
      /\ \A g \in ToSet(fs) : g.msg.type = "member-left" /\ g.msg.id = key /\ g.target \in SeatIds
  <2>1. CASE key \in SeatIds
    <3> DEFINE T == {[target |-> x, msg |-> m] : x \in ids \cap (vs \ {key})}
    <3>1. fs \in Seq(T) /\ ToSet(fs) = T
      <4> DEFINE w == vs \ {key}
      <4>1. IsFiniteSet(w)
        BY <1>1, <1>2
      <4>2. fs = ToAll(w, ids, m) /\ T = {[target |-> x, msg |-> m] : x \in ids \cap w}
        BY <2>1
      <4> HIDE DEF w, ids, m, fs, T
      <4>3. LET gs == ToAll(w, ids, m)
                 S  == {[target |-> x, msg |-> m] : x \in ids \cap w}
             IN  gs \in Seq(S) /\ ToSet(gs) = S
        BY <4>1, ToAllFacts
      <4>4. QED
        BY <4>2, <4>3
    <3>2. m \in Message /\ m.type = "member-left" /\ m.id = key
      BY <1>4, <2>1 DEF Message
    <3>3. T \subseteq RelayBound
      <4> HIDE DEF m
      <4>1. QED
        BY <3>2 DEF RelayBound
    <3>4. \A g \in T : g.msg.type = "member-left" /\ g.msg.id = key /\ g.target \in SeatIds
      BY <3>2
    <3> HIDE DEF T, fs
    <3>5. fs \in Seq(RelayBound)
      BY <3>1, <3>3
    <3>6. QED
      BY <3>1, <3>4, <3>5
  <2>2. CASE key \notin SeatIds
    BY <2>2 DEF ToSet
  <2>3. QED
    BY <2>1, <2>2
<1> HIDE DEF fs
<1>6. toRelay \in Seq(RelayBound) /\ toRelay \o frames \in Seq(RelayBound)
  BY DEF CloudTypeOK
<1>7. Sent(toRelay, toRelay', ToSet(frames) \cup ToSet(fs))
  BY <1>1, <1>5, <1>6, SentOnce, SentMore
<1>8. Sent(toRelay \o frames, toRelay', ToSet(fs))
  BY <1>1, <1>5, <1>6, SentOnce
<1>9. toRelay' \in Seq(RelayBound)
  BY <1>7 DEF Sent
<1>10. QED
  BY <1>1, <1>2, <1>3, <1>5, <1>7, <1>8, <1>9

\* Ids go out once, when what the host sends hands out none
LEMMA NoHandoffs ==
    ASSUME CloudInv, UNCHANGED client, NEW S, Sent(toRelay, toRelay', S),
           \A g \in S : g.msg.type # "handoff",
           UNCHANGED issuing
    PROVE  HandedOnce'
<1>1. toRelay \in Seq(RelayBound) /\ HandedOnce
  BY DEF CloudInv, CloudTypeOK
<1>2. ToSet(toRelay') = ToSet(toRelay) \cup S
  BY <1>1, SentFacts
<1>3. \A f \in ToSet(toRelay') : f.msg.type = "handoff" => f \in ToSet(toRelay)
  BY <1>2
<1>4. HandsOut(toRelay')
  BY <1>1, HandsOutMore DEF HandedOnce, HandsOut
<1>5. ASSUME NEW k \in DOMAIN toRelay', toRelay'[k].msg.type = "handoff"
      PROVE  \A c \in Client : toRelay'[k].msg.id \notin {client[c].token, client[c].me}
  <2>1. toRelay'[k] \in ToSet(toRelay)
    BY <1>3, <1>5 DEF ToSet
  <2>2. PICK j \in DOMAIN toRelay : toRelay'[k] = toRelay[j]
    BY <2>1 DEF ToSet
  <2>3. QED
    BY <1>1, <1>5, <2>2 DEF HandedOnce
<1>6. ToSet(toRelay)' = ToSet(toRelay')
  BY DEF ToSet
<1>7. QED
  BY <1>1, <1>3, <1>4, <1>5, <1>6 DEF HandedOnce, HandsOut

\* Seats have ids, and the bootstrap token is none
LEMMA SeatsTyped ==
    ASSUME CloudTypeOK
    PROVE  SeatIds \subseteq Nat /\ Boot \notin SeatIds
  BY CloudConstants DEF CloudTypeOK, SeatIds

\* The host has read a frame: what is left to read
LEMMA HeadRead ==
    ASSUME CloudInv, toHost # <<>>, toHost' = Tail(toHost)
    PROVE  LET e == Head(toHost) IN
           /\ e \in HostBound /\ e.by \in Client /\ e.sub \in Sub
           /\ e.type \in {"auth-request", "member-left"}
           /\ e \in ToSet(toHost) /\ ToSet(toHost) = {e} \cup ToSet(toHost)'
           /\ e.sub \in {Boot, client[e.by].token}
           /\ toHost' \in Seq(HostBound) /\ toHost[1] = e
<1>1. toHost \in Seq(HostBound) /\ CloudTypeOK /\ NamesItself
  BY DEF CloudInv, CloudTypeOK
<1>2. /\ Tail(toHost) \in Seq(HostBound)
      /\ Head(toHost) = toHost[1] /\ Head(toHost) \in ToSet(toHost)
      /\ ToSet(toHost) = {Head(toHost)} \cup ToSet(Tail(toHost))
  BY <1>1, Taken
<1>3. ToSet(toHost)' = ToSet(Tail(toHost))
  BY DEF ToSet
<1>4. QED
  BY <1>1, <1>2, <1>3, QueuesTyped DEF NamesItself

\* A connection is closed upon a frame, with all that this entails
LEMMA ConnectionClosed ==
    ASSUME CloudInv, toHost # <<>>, toHost' = Tail(toHost),
           UNCHANGED <<sock, client, memberSockets, issuing, minted>>,
           faults' \subseteq {"dial", "loss", "refusal"}, NEW key, key = Head(toHost).sub,
           virt' = virt \ {key}, seats' \subseteq seats, SeatIds' = SeatIds \ {key},
           NEW S, Sent(toRelay, toRelay', S),
           \A g \in S : \/ g.msg.type = "member-left" /\ g.msg.id = key /\ g.target \in SeatIds
                        \/ g.msg.type = "refused",
           Head(toHost).type = "auth-request" => \E g \in S : g.target = key
    PROVE  CloudInv'
<1> DEFINE e == Head(toHost)
<1>1. /\ e.type \in {"auth-request", "member-left"}
      /\ e \in ToSet(toHost) /\ ToSet(toHost) = {e} \cup ToSet(toHost)'
      /\ toHost' \in Seq(HostBound)
  BY HeadRead
<1> HIDE DEF e
<1>2. CloudTypeOK /\ SeatIds \subseteq Nat /\ Boot \notin SeatIds
  BY SeatsTyped DEF CloudInv
<1>3. UNCHANGED <<ToSet(memberSockets), ToSet(issuing)>>
  BY DEF ToSet
<1>4. CloudTypeOK'
  <2>1. virt' \subseteq Sub /\ IsFiniteSet(virt')
    BY <1>2, FS_RemoveElement DEF CloudTypeOK
  <2>2. toRelay' \in Seq(RelayBound)
    BY DEF Sent
  <2>3. QED
    BY <1>1, <1>2, <2>1, <2>2 DEF CloudTypeOK
<1>5. NamesItself' /\ OwnIdentity' /\ SocketsInOrder'
  <2>1. \A g \in S : /\ g.msg.type = "handoff" => g.target = Boot /\ g.msg.id \in 1..minted
                     /\ g.msg.type = "welcome" => g.target = g.msg.id
                     /\ g.target = Boot => g.msg.type \in {"handoff", "refused"}
    BY <1>2
  <2>2. minted' >= minted
    BY <1>2 DEF CloudTypeOK
  <2>3. QED
    BY <1>1, <1>3, <1>4, <2>1, <2>2, HostNames
<1>6. HandedOnce'
  BY NoHandoffs
<1>7. AskersHeld'
  BY HostAskers
<1>8. \A f \in ToSet(toHost) : f # e => f \in ToSet(toHost)'
  BY <1>1
<1>9. e.sub = key /\ (e.type = "auth-request" => \E g \in S : g.target = key)
  BY DEF e
<1>10. SeatIsHeld'
  BY <1>3, <1>8, <1>9 DEF CloudInv, SeatIsHeld
<1>11. Informed'
  <2>1. \A g \in S, b \in SeatIds' : ~Takes(g.msg, b)
    BY DEF Takes
  <2>2. \A id \in SeatIds' : \A f \in ToSet(toHost) :
           f.type = "member-left" /\ f.sub = id => f \in ToSet(toHost)'
    BY <1>8, <1>9
  <2>3. QED
    BY <1>3, <2>1, <2>2, HostInformed
<1>12. WaitsFresh' /\ WaitsForAnswer'
  <2>1. ToSet(toHost)' \subseteq ToSet(toHost)
    BY <1>1
  <2>2. ASSUME \A f \in ToSet(toHost) : f.sub = Boot => f.type = "auth-request"
        PROVE  \/ \E g \in S : g.target = Boot
               \/ /\ \A f \in ToSet(toHost) : f.sub = Boot => f \in ToSet(toHost)'
                  /\ Boot \in virt => Boot \in virt'
    <3>1. CASE key = Boot
      BY <1>1, <1>9, <2>2, <3>1
    <3>2. CASE key # Boot
      BY <1>8, <1>9, <3>2
    <3>3. QED
      BY <3>1, <3>2
  <2>3. QED
    BY <1>3, <2>1, <2>2, HostAnswered
<1>13. QED
  BY <1>4, <1>5, <1>6, <1>7, <1>10, <1>11, <1>12 DEF CloudInv

\* A member-left frame preserves the invariant
LEMMA HostReadsLeftKeeps ==
    ASSUME CloudInv, HostReadsLeft
    PROVE  CloudInv'
<1> DEFINE key == Head(toHost).sub
<1>1. /\ toHost # <<>> /\ Head(toHost).type = "member-left" /\ toHost' = Tail(toHost)
      /\ IF key \in virt THEN Closes(virt, seats, key, <<>>)
         ELSE UNCHANGED <<virt, seats, toRelay>>
      /\ UNCHANGED <<sock, client, memberSockets, issuing, minted, faults>>
  BY DEF HostReadsLeft
<1>2. CloudTypeOK /\ faults' \subseteq {"dial", "loss", "refusal"} /\ toRelay \in Seq(RelayBound)
  BY <1>1 DEF CloudInv, CloudTypeOK
<1>3. key \in Sub
  BY <1>1, HeadRead
<1>4. /\ virt' = virt \ {key} /\ seats' \subseteq seats /\ SeatIds' = SeatIds \ {key}
      /\ \E S : /\ Sent(toRelay, toRelay', S)
                /\ \A g \in S : g.msg.type = "member-left" /\ g.msg.id = key /\ g.target \in SeatIds
  <2> HIDE DEF key
  <2>1. CASE key \in virt
    <3>1. ToSet(<<>>) = {} /\ <<>> \in Seq(RelayBound)
      BY DEF ToSet
    <3>2. virt \subseteq Sub /\ IsFiniteSet(virt) /\ Closes(virt, seats, key, <<>>)
      BY <1>1, <1>2, <2>1 DEF CloudTypeOK
    <3>3. /\ virt' = virt \ {key} /\ seats' \subseteq seats /\ SeatIds' = SeatIds \ {key}
          /\ \E S :
               /\ \A g \in S : g.msg.type = "member-left" /\ g.msg.id = key /\ g.target \in SeatIds
               /\ Sent(toRelay, toRelay', ToSet(<<>>) \cup S)
      BY <1>2, <1>3, <3>1, <3>2, ClosesFacts
    <3>4. \A S : ToSet(<<>>) \cup S = S
      BY <3>1
    <3>5. QED
      BY <3>3, <3>4
  <2>2. CASE key \notin virt
    <3>1. key \notin SeatIds
      BY <2>2 DEF CloudInv, SeatIsHeld
    <3>2. UNCHANGED <<virt, seats, toRelay, SeatIds>>
      BY <1>1, <2>2 DEF SeatIds
    <3>3. Sent(toRelay, toRelay', {})
      BY <1>2, <3>2, SentNothing
    <3>4. QED
      BY <2>2, <3>1, <3>2, <3>3
  <2>3. QED
    BY <2>1, <2>2
<1>5. PICK S : /\ Sent(toRelay, toRelay', S)
               /\ \A g \in S : g.msg.type = "member-left" /\ g.msg.id = key /\ g.target \in SeatIds
  BY <1>4
<1>6. QED
  BY <1>1, <1>2, <1>4, <1>5, ConnectionClosed

\* A refused request preserves the invariant
LEMMA RejectAuthKeeps ==
    ASSUME CloudInv, RejectAuth
    PROVE  CloudInv'
<1> DEFINE key == Head(toHost).sub
           vs  == virt \cup {key}
           m   == [type |-> "refused"]
           fs  == Unicast(vs, key, m)
<1>1. /\ toHost # <<>> /\ toHost' = Tail(toHost)
      /\ Closes(vs, seats, key, fs)
      /\ faults' = faults \cup {"refusal"}
      /\ UNCHANGED <<sock, client, memberSockets, issuing, minted>>
  BY DEF RejectAuth, VirtualFor
<1>2. CloudTypeOK /\ faults' \subseteq {"dial", "loss", "refusal"}
  BY <1>1 DEF CloudInv, CloudTypeOK
<1>3. key \in Sub
  BY <1>1, HeadRead
<1>4. vs \subseteq Sub /\ IsFiniteSet(vs) /\ virt \subseteq Sub
  BY <1>2, <1>3, FS_AddElement DEF CloudTypeOK
<1>5. m.type = "refused" /\ m \in Message
  BY DEF Message
<1>6. /\ fs \in Seq(RelayBound) /\ \E g \in ToSet(fs) : g.target = key
      /\ \A g \in ToSet(fs) : g.msg.type = "refused"
  <2> DEFINE T == {[target |-> y, msg |-> m] : y \in {key} \cap vs}
  <2> HIDE DEF key, m
  <2>1. fs \in Seq(T) /\ ToSet(fs) = T
    BY UnicastFacts
  <2>2. T \subseteq RelayBound
    BY <1>3, <1>5 DEF RelayBound
  <2>3. \A g \in T : g.msg.type = "refused"
    BY <1>5
  <2>4. [target |-> key, msg |-> m] \in T /\ [target |-> key, msg |-> m].target = key
    OBVIOUS
  <2> HIDE DEF fs, T
  <2>5. fs \in Seq(RelayBound)
    BY <2>1, <2>2
  <2>6. QED
    BY <2>1, <2>3, <2>4, <2>5
<1> HIDE DEF fs, m
<1>7. PICK S : /\ virt' = vs \ {key} /\ seats' \subseteq seats /\ SeatIds' = SeatIds \ {key}
               /\ \A g \in S : g.msg.type = "member-left" /\ g.msg.id = key /\ g.target \in SeatIds
               /\ Sent(toRelay, toRelay', ToSet(fs) \cup S)
  <2> HIDE DEF key, vs
  <2>1. QED
    BY <1>1, <1>2, <1>3, <1>4, <1>6, ClosesFacts
<1>8. virt' = virt \ {key}
  BY <1>7
<1>9. PICK T : T = ToSet(fs) \cup S
  OBVIOUS
<1>10. /\ \A g \in T : \/ g.msg.type = "member-left" /\ g.msg.id = key /\ g.target \in SeatIds
                       \/ g.msg.type = "refused"
       /\ \E g \in T : g.target = key
       /\ Sent(toRelay, toRelay', T)
  BY <1>6, <1>7, <1>9
<1>11. QED
  BY <1>1, <1>2, <1>7, <1>8, <1>10, ConnectionClosed

\* A request is under way to its token: what it is, and what it stands for
LEMMA AskedOnce ==
    ASSUME CloudInv, UNCHANGED <<client, toRelay>>, NEW t \in Asker, issuing' = Append(issuing, t),
           t.kind = "bootstrap" => t.id = minted + 1
    PROVE  HandedOnce'
<1>1. /\ issuing \in Seq(Asker) /\ minted \in Nat /\ NamesItself /\ HandedOnce /\ CloudTypeOK
      /\ UNCHANGED ToSet(toRelay)
  BY DEF CloudInv, CloudTypeOK, ToSet
<1>2. /\ DOMAIN issuing' = 1..Len(issuing) + 1 /\ DOMAIN issuing = 1..Len(issuing)
      /\ Len(issuing) \in Nat
      /\ \A k \in 1..Len(issuing) : issuing'[k] = issuing[k] /\ issuing[k] \in ToSet(issuing)
      /\ issuing'[Len(issuing) + 1] = t
  BY <1>1, Appended, InQueue
<1>3. \A k \in 1..Len(issuing) : issuing[k].kind = "bootstrap" => issuing[k].id \in 1..minted
  BY <1>1, <1>2 DEF NamesItself
<1>4. ASSUME NEW k \in DOMAIN issuing', issuing'[k].kind = "bootstrap"
      PROVE  /\ \A c \in Client : issuing'[k].id \notin {client[c].token, client[c].me}
             /\ \A j \in DOMAIN issuing' :
                   issuing'[j].kind = "bootstrap" /\ issuing'[j].id = issuing'[k].id => j = k
             /\ \A f \in ToSet(toRelay) : f.msg.type = "handoff" => f.msg.id # issuing'[k].id
  <2>1. CASE k \in 1..Len(issuing)
    <3>1. /\ issuing[k].kind = "bootstrap" /\ issuing'[k] = issuing[k] /\ k \in DOMAIN issuing
          /\ issuing[k].id \in 1..minted
      BY <1>2, <1>3, <1>4, <2>1
    <3>2. /\ \A c \in Client : issuing[k].id \notin {client[c].token, client[c].me}
          /\ \A j \in DOMAIN issuing :
                issuing[j].kind = "bootstrap" /\ issuing[j].id = issuing[k].id => j = k
          /\ \A f \in ToSet(toRelay) : f.msg.type = "handoff" => f.msg.id # issuing[k].id
      BY <1>1, <3>1 DEF HandedOnce
    <3>3. ASSUME NEW j \in DOMAIN issuing', issuing'[j].kind = "bootstrap",
                 issuing'[j].id = issuing[k].id
          PROVE  j = k
      <4>1. j # Len(issuing) + 1
        BY <1>1, <1>2, <3>1, <3>3
      <4>2. j \in DOMAIN issuing /\ issuing'[j] = issuing[j]
        BY <1>2, <4>1
      <4>3. QED
        BY <3>2, <3>3, <4>2
    <3>4. QED
      BY <3>1, <3>2, <3>3
  <2>2. CASE k = Len(issuing) + 1
    <3>1. issuing'[k] = t /\ t.id = minted + 1
      BY <1>2, <1>4, <2>2
    <3>2. \A c \in Client : t.id \notin {client[c].token, client[c].me}
      <4> SUFFICES ASSUME NEW c \in Client PROVE t.id \notin {client[c].token, client[c].me}
        OBVIOUS
      <4>1. client[c].token \in {Boot} \cup 1..minted /\ client[c].me \in 0..minted
        BY <1>1 DEF NamesItself
      <4>2. QED
        BY <1>1, <3>1, <4>1, CloudConstants
    <3>3. \A f \in ToSet(toRelay) : f.msg.type = "handoff" => f.msg.id # t.id
      BY <1>1, <3>1 DEF NamesItself
    <3>4. ASSUME NEW j \in DOMAIN issuing', issuing'[j].kind = "bootstrap", issuing'[j].id = t.id
          PROVE  j = k
      <4>1. j \notin 1..Len(issuing)
        BY <1>1, <1>2, <1>3, <3>1, <3>4
      <4>2. QED
        BY <1>2, <2>2, <4>1
    <3>5. QED
      BY <3>1, <3>2, <3>3, <3>4
  <2>3. QED
    BY <1>2, <2>1, <2>2
<1>5. \A k \in DOMAIN toRelay : toRelay[k].msg.type = "handoff" =>
          /\ \A c \in Client : toRelay[k].msg.id \notin {client[c].token, client[c].me}
          /\ \A j \in DOMAIN toRelay :
                toRelay[j].msg.type = "handoff" /\ toRelay[j].msg.id = toRelay[k].msg.id => j = k
  BY <1>1 DEF HandedOnce
<1>6. QED
  BY <1>1, <1>4, <1>5 DEF HandedOnce

\* The three kinds of request, by what they do to the members
LEMMA AcceptFacts ==
    ASSUME CloudInv, AcceptAuth
    PROVE  LET e == Head(toHost) IN
           /\ e.type = "auth-request" /\ toHost # <<>> /\ toHost' = Tail(toHost)
           /\ virt' = virt \cup {e.sub} /\ virt' \subseteq Sub /\ IsFiniteSet(virt')
           /\ UNCHANGED <<sock, client, memberSockets, toRelay, faults>>
           /\ minted' \in Nat /\ minted' >= minted
           /\ \E t \in Asker :
                /\ issuing' = Append(issuing, t) /\ t.key = e.sub /\ t.by = e.by
                /\ t.kind = "bootstrap" => t.id = minted + 1
                /\ IF t.kind = "bootstrap" THEN t.key = Boot /\ t.id \in 1..minted'
                   ELSE t.key = t.id /\ t.key = client[t.by].token
                /\ \/ UNCHANGED <<seats, SeatIds>>
                   \/ /\ t.kind = "new" /\ SeatIds' = SeatIds \cup {t.id}
                      /\ seats' \subseteq [id : Nat, by : Client]
                      /\ \A m \in seats' : m \in seats \/ m.id = client[m.by].token
<1> DEFINE key == Head(toHost).sub
           by  == Head(toHost).by
           held == {m.id : m \in {n \in seats : n.by = by}}
<1>1. /\ Head(toHost).type = "auth-request" /\ toHost # <<>> /\ toHost' = Tail(toHost)
      /\ virt' = virt \cup {key}
      /\ UNCHANGED <<sock, client, memberSockets, toRelay, faults>>
      /\ \/ /\ key = Boot
            /\ minted' = minted + 1
            /\ issuing' = Append(issuing, Request("bootstrap", minted + 1))
            /\ UNCHANGED seats
         \/ /\ key # Boot /\ held # {}
            /\ \E id \in held : issuing' = Append(issuing, Request("rebind", id))
            /\ UNCHANGED <<seats, minted>>
         \/ /\ key # Boot /\ held = {}
            /\ seats' = {m \in seats : m.id # key} \cup {[id |-> key, by |-> by]}
            /\ issuing' = Append(issuing, Request("new", key))
            /\ UNCHANGED minted
  BY DEF AcceptAuth, VirtualFor, TentativeId
<1>2. /\ minted \in Nat /\ seats \subseteq [id : Nat, by : Client]
      /\ virt \subseteq Sub /\ IsFiniteSet(virt) /\ NamesItself
  BY DEF CloudInv, CloudTypeOK
<1>3. by \in Client /\ key \in Sub /\ key \in {Boot, client[by].token}
  BY <1>1, HeadRead
<1>4. virt' \subseteq Sub /\ IsFiniteSet(virt')
  BY <1>1, <1>2, <1>3, FS_AddElement
<1>5. \A kind, id : Request(kind, id) = [kind |-> kind, id |-> id, key |-> key, by |-> by]
  BY DEF Request
<1> HIDE DEF key, by, held
<1>6. CASE /\ key = Boot
           /\ minted' = minted + 1
           /\ issuing' = Append(issuing, Request("bootstrap", minted + 1))
           /\ UNCHANGED seats
  <2> DEFINE t == [kind |-> "bootstrap", id |-> minted + 1, key |-> key, by |-> by]
  <2>1. /\ t \in Asker /\ issuing' = Append(issuing, t) /\ t.key = key /\ t.by = by
        /\ t.kind = "bootstrap" /\ t.id = minted + 1
    BY <1>2, <1>3, <1>5, <1>6 DEF Asker
  <2>2. minted' \in Nat /\ minted' >= minted /\ minted + 1 \in 1..minted' /\ UNCHANGED SeatIds
    BY <1>2, <1>6 DEF SeatIds
  <2> HIDE DEF t
  <2>3. QED
    BY <1>1, <1>4, <1>6, <2>1, <2>2 DEF key, by
<1>7. CASE /\ key # Boot /\ held # {}
           /\ \E id \in held : issuing' = Append(issuing, Request("rebind", id))
           /\ UNCHANGED <<seats, minted>>
  <2>1. PICK id \in held : issuing' = Append(issuing, Request("rebind", id))
    BY <1>7
  <2>2. PICK m \in seats : m.by = by /\ m.id = id
    BY DEF held
  <2>3. id = key /\ id \in Nat /\ key = client[by].token
    BY <1>2, <1>3, <1>7, <2>2 DEF NamesItself
  <2> DEFINE t == [kind |-> "rebind", id |-> id, key |-> key, by |-> by]
  <2>4. /\ t \in Asker /\ issuing' = Append(issuing, t) /\ t.key = key /\ t.by = by
        /\ t.kind = "rebind" /\ t.id = key
    BY <1>2, <1>3, <1>5, <2>1, <2>3 DEF Asker
  <2>5. minted' \in Nat /\ minted' >= minted /\ UNCHANGED SeatIds
    BY <1>2, <1>7 DEF SeatIds
  <2> HIDE DEF t
  <2>6. QED
    BY <1>1, <1>4, <1>7, <2>3, <2>4, <2>5 DEF key, by
<1>8. CASE /\ key # Boot /\ held = {}
           /\ seats' = {m \in seats : m.id # key} \cup {[id |-> key, by |-> by]}
           /\ issuing' = Append(issuing, Request("new", key))
           /\ UNCHANGED minted
  <2>1. key \in Nat /\ key = client[by].token
    BY <1>3, <1>8 DEF Sub
  <2> DEFINE t == [kind |-> "new", id |-> key, key |-> key, by |-> by]
             m == [id |-> key, by |-> by]
  <2>2. /\ t \in Asker /\ issuing' = Append(issuing, t) /\ t.key = key /\ t.by = by
        /\ t.kind = "new" /\ t.id = key
    BY <1>2, <1>3, <1>5, <1>8, <2>1 DEF Asker
  <2>3. minted' \in Nat /\ minted' >= minted
    BY <1>2, <1>8
  <2>4. m \in [id : Nat, by : Client] /\ m.id = client[m.by].token /\ m.id = key
    BY <1>3, <2>1
  <2>5. seats' = {n \in seats : n.id # key} \cup {m}
    BY <1>8
  <2> HIDE DEF t, m
  <2>6. /\ SeatIds' = SeatIds \cup {key} /\ seats' \subseteq [id : Nat, by : Client]
        /\ \A n \in seats' : n \in seats \/ n.id = client[n.by].token
    <3>1. SeatIds' = SeatIds \cup {key}
      BY <2>4, <2>5 DEF SeatIds
    <3>2. QED
      BY <1>2, <2>4, <2>5, <3>1
  <2>7. QED
    BY <1>1, <1>4, <1>8, <2>1, <2>2, <2>3, <2>6 DEF key, by
<1>9. QED
  BY <1>1, <1>6, <1>7, <1>8

\* An accepted request preserves the invariant
LEMMA AcceptAuthKeeps ==
    ASSUME CloudInv, AcceptAuth
    PROVE  CloudInv'
<1> DEFINE e == Head(toHost)
<1>1. /\ e.type = "auth-request" /\ toHost # <<>> /\ toHost' = Tail(toHost)
      /\ virt' = virt \cup {e.sub} /\ virt' \subseteq Sub /\ IsFiniteSet(virt')
      /\ UNCHANGED <<sock, client, memberSockets, toRelay, faults>>
      /\ minted' \in Nat /\ minted' >= minted
  BY AcceptFacts
<1>2. PICK t \in Asker :
                /\ issuing' = Append(issuing, t) /\ t.key = e.sub /\ t.by = e.by
                /\ t.kind = "bootstrap" => t.id = minted + 1
                /\ IF t.kind = "bootstrap" THEN t.key = Boot /\ t.id \in 1..minted'
                   ELSE t.key = t.id /\ t.key = client[t.by].token
                /\ \/ UNCHANGED <<seats, SeatIds>>
                   \/ /\ t.kind = "new" /\ SeatIds' = SeatIds \cup {t.id}
                      /\ seats' \subseteq [id : Nat, by : Client]
                      /\ \A m \in seats' : m \in seats \/ m.id = client[m.by].token
  BY AcceptFacts
<1>3. /\ e \in ToSet(toHost) /\ ToSet(toHost) = {e} \cup ToSet(toHost)'
      /\ toHost' \in Seq(HostBound) /\ toHost[1] = e
  BY <1>1, HeadRead
<1>4. /\ CloudTypeOK /\ UNCHANGED ToSet(memberSockets)
      /\ toRelay \in Seq(RelayBound)
  BY <1>1 DEF CloudInv, CloudTypeOK, ToSet
<1>5. issuing' \in Seq(Asker) /\ ToSet(issuing)' = ToSet(issuing) \cup {t}
  <2>1. issuing' \in Seq(Asker) /\ ToSet(issuing') = ToSet(issuing) \cup {t}
    BY <1>2, <1>4, Appended DEF CloudTypeOK
  <2>2. QED
    BY <2>1 DEF ToSet
<1> HIDE DEF e
<1>6. CloudTypeOK'
  <2>1. seats' \subseteq [id : Nat, by : Client]
    BY <1>2, <1>4 DEF CloudTypeOK
  <2>2. QED
    BY <1>1, <1>3, <1>4, <1>5, <2>1 DEF CloudTypeOK
<1>7. Sent(toRelay, toRelay', {})
  BY <1>1, <1>4, SentNothing
<1>8. NamesItself' /\ OwnIdentity' /\ SocketsInOrder'
  <2>1. \A m \in seats' : m \in seats \/ m.id = client[m.by].token
    BY <1>2
  <2>2. ToSet(toHost)' \subseteq ToSet(toHost)
    BY <1>3
  <2>3. \A x \in ToSet(issuing)' :
              \/ x \in ToSet(issuing)
              \/ IF x.kind = "bootstrap" THEN x.key = Boot /\ x.id \in 1..minted'
                 ELSE x.key = x.id /\ x.key = client[x.by].token
    BY <1>2, <1>5
  <2>4. QED
    BY <1>1, <1>6, <1>7, <2>1, <2>2, <2>3, HostNames
<1>9. HandedOnce'
  BY <1>1, <1>2, AskedOnce
<1>10. AskersHeld'
  BY <1>1, HostAskers
<1>11. \A f \in ToSet(toHost) : f.type = "member-left" => f \in ToSet(toHost)'
  BY <1>1, <1>3
<1>12. SeatIsHeld'
  <2> SUFFICES ASSUME NEW id \in SeatIds'
               PROVE  /\ id \in virt'
                      /\ \/ \E s \in ToSet(memberSockets) : sock[s].sub = id
                         \/ \E f \in ToSet(toHost)' : f.type = "member-left" /\ f.sub = id
    BY <1>1, <1>4 DEF SeatIsHeld
  <2>1. CASE id \in SeatIds
    BY <1>1, <1>11, <2>1 DEF CloudInv, SeatIsHeld
  <2>2. CASE id = e.sub
    <3>1. /\ DOMAIN toHost = 1..Len(toHost) /\ Len(toHost) \in Nat \ {0}
          /\ \A k \in DOMAIN toHost : toHost[k] \in ToSet(toHost)
      BY <1>1, <1>4, Taken, InQueue DEF CloudTypeOK
    <3>2. \/ \E s \in ToSet(memberSockets) : sock[s].sub = e.sub
          \/ \E k \in DOMAIN toHost : /\ k > 1
                                      /\ toHost[k].type = "member-left"
                                      /\ toHost[k].sub = e.sub
      BY <1>1, <1>3, <3>1 DEF CloudInv, AskersHeld
    <3>3. QED
      BY <1>1, <1>11, <2>2, <3>1, <3>2
  <2>3. id \in SeatIds \/ id = e.sub
    BY <1>2
  <2>4. QED
    BY <2>1, <2>2, <2>3
<1>13. Informed'
  <2>1. \A id \in SeatIds' : \A f \in ToSet(toHost) :
           f.type = "member-left" /\ f.sub = id => f \in ToSet(toHost)'
    BY <1>11
  <2>2. \A id \in SeatIds' : \/ id \in SeatIds
                             \/ \E x \in ToSet(issuing)' : x.kind = "new" /\ x.id = id /\ x.key = id
    BY <1>2, <1>5
  <2>3. \A x \in ToSet(issuing) : x \in ToSet(issuing)'
    BY <1>5
  <2>4. QED
    BY <1>1, <1>7, <2>1, <2>2, <2>3, HostInformed
<1>14. WaitsFresh' /\ WaitsForAnswer'
  <2>1. ToSet(toHost)' \subseteq ToSet(toHost)
    BY <1>3
  <2>2. \A x \in ToSet(issuing)' :
              \/ x \in ToSet(issuing)
              \/ x.key # Boot
              \/ \E f \in ToSet(toHost) : f.sub = Boot /\ f.by = x.by
    BY <1>2, <1>3, <1>5
  <2>3. \/ Boot \in virt' /\ \E x \in ToSet(issuing)' : x.key = Boot
        \/ /\ \A f \in ToSet(toHost) : f.sub = Boot => f \in ToSet(toHost)'
           /\ Boot \in virt /\ (\E x \in ToSet(issuing) : x.key = Boot) =>
                Boot \in virt' /\ (\E x \in ToSet(issuing)' : x.key = Boot)
    <3>1. CASE e.sub = Boot
      BY <1>1, <1>2, <1>5, <3>1
    <3>2. CASE e.sub # Boot
      BY <1>1, <1>3, <1>5, <3>2
    <3>3. QED
      BY <3>1, <3>2
  <2>4. QED
    BY <1>1, <1>7, <2>1, <2>2, <2>3, HostAnswered
<1>15. QED
  BY <1>6, <1>8, <1>9, <1>10, <1>12, <1>13, <1>14 DEF CloudInv

\* A request has got its token, and with it perhaps an id on its way
LEMMA TakenOnce ==
    ASSUME CloudInv, UNCHANGED client, NEW k \in DOMAIN issuing, issuing' = RemoveAt(issuing, k),
           NEW S, Sent(toRelay, toRelay', S),
           \/ \A g \in S : g.msg.type # "handoff"
           \/ /\ issuing[k].kind = "bootstrap" /\ Len(toRelay') <= Len(toRelay) + 1
              /\ \A g \in S : g.msg.id = issuing[k].id
    PROVE  HandedOnce'
<1>1. issuing \in Seq(Asker) /\ toRelay \in Seq(RelayBound) /\ HandedOnce
  BY DEF CloudInv, CloudTypeOK
<1>2. ToSet(toRelay)' = ToSet(toRelay) \cup S
  <2>1. ToSet(toRelay') = ToSet(toRelay) \cup S
    BY <1>1, SentFacts
  <2>2. QED
    BY <2>1 DEF ToSet
<1>3. /\ DOMAIN issuing' = 1..Len(issuing) - 1 /\ DOMAIN issuing = 1..Len(issuing)
      /\ Len(issuing) \in Nat \ {0} /\ k \in 1..Len(issuing)
      /\ \A j \in 1..Len(issuing) - 1 : issuing'[j] = IF j < k THEN issuing[j] ELSE issuing[j + 1]
  <2>1. DOMAIN issuing = 1..Len(issuing)
    BY <1>1
  <2>2. QED
    BY <1>1, <2>1, Removed
<1> DEFINE old(j) == IF j < k THEN j ELSE j + 1
<1>4. \A j \in DOMAIN issuing' :
         old(j) \in DOMAIN issuing /\ old(j) # k /\ issuing'[j] = issuing[old(j)]
  BY <1>3
<1>5. \A i, j \in DOMAIN issuing' : old(i) = old(j) => i = j
  BY <1>3
<1> HIDE DEF old
<1>6. ASSUME NEW j \in DOMAIN issuing', issuing'[j].kind = "bootstrap"
      PROVE  /\ \A c \in Client : issuing'[j].id \notin {client[c].token, client[c].me}
             /\ \A i \in DOMAIN issuing' :
                   issuing'[i].kind = "bootstrap" /\ issuing'[i].id = issuing'[j].id => i = j
             /\ \A f \in ToSet(toRelay)' : f.msg.type = "handoff" => f.msg.id # issuing'[j].id
  <2>1. PICK l \in DOMAIN issuing : l = old(j)
    BY <1>4
  <2>2. l # k /\ issuing'[j] = issuing[l] /\ issuing[l].kind = "bootstrap"
    BY <1>4, <1>6, <2>1
  <2>3. /\ \A c \in Client : issuing[l].id \notin {client[c].token, client[c].me}
        /\ \A i \in DOMAIN issuing :
              issuing[i].kind = "bootstrap" /\ issuing[i].id = issuing[l].id => i = l
        /\ \A f \in ToSet(toRelay) : f.msg.type = "handoff" => f.msg.id # issuing[l].id
    BY <1>1, <2>2 DEF HandedOnce
  <2>4. ASSUME NEW i \in DOMAIN issuing', issuing'[i].kind = "bootstrap",
               issuing'[i].id = issuing[l].id
        PROVE  i = j
    <3>1. old(i) \in DOMAIN issuing /\ issuing'[i] = issuing[old(i)]
      BY <1>4
    <3>2. old(i) = l
      BY <2>3, <2>4, <3>1
    <3>3. QED
      BY <1>5, <2>1, <3>2
  <2>5. \A f \in S : f.msg.type = "handoff" => f.msg.id # issuing[l].id
    BY <2>2, <2>3
  <2>6. QED
    BY <1>2, <2>2, <2>3, <2>4, <2>5
<1>7. HandsOut(toRelay')
  <2>1. HandsOut(toRelay)
    BY <1>1 DEF HandsOut, HandedOnce
  <2>2. \/ \A g \in S : g.msg.type # "handoff"
        \/ /\ Len(toRelay') <= Len(toRelay) + 1
           /\ \A g \in S, f \in ToSet(toRelay) : f.msg.type = "handoff" => f.msg.id # g.msg.id
    BY <1>1 DEF HandedOnce
  <2>3. QED
    BY <1>1, <2>1, <2>2, HandsOutMore
<1>8. ASSUME NEW f \in ToSet(toRelay)', f.msg.type = "handoff"
      PROVE  \A c \in Client : f.msg.id \notin {client[c].token, client[c].me}
  <2>1. CASE f \in ToSet(toRelay)
    <3>1. PICK j \in DOMAIN toRelay : f = toRelay[j]
      BY <2>1 DEF ToSet
    <3>2. QED
      BY <1>1, <1>8, <3>1 DEF HandedOnce
  <2>2. CASE f \in S
    BY <1>1, <1>8, <2>2 DEF HandedOnce
  <2>3. QED
    BY <1>2, <2>1, <2>2
<1>9. \A j \in DOMAIN toRelay' : toRelay'[j] \in ToSet(toRelay)'
  BY DEF ToSet
<1>10. QED
  BY <1>6, <1>7, <1>8, <1>9 DEF HandedOnce, HandsOut

\* Who awaited its token, and what it is told
LEMMA IssuedFacts ==
    ASSUME CloudInv, NEW k \in DOMAIN issuing, Issued(k)
    PROVE  LET t == issuing[k] IN
           /\ UNCHANGED <<sock, client, memberSockets, toHost, minted, faults, seats, SeatIds>>
           /\ virt' \subseteq virt /\ IsFiniteSet(virt')
           /\ \E S :
                /\ Sent(toRelay, toRelay', S)
                /\ \A g \in S : g.msg.type \in {"handoff", "welcome", "member-joined"}
                /\ \/ /\ t.kind = "bootstrap" /\ virt' = virt \ {Boot}
                      /\ Len(toRelay') <= Len(toRelay) + 1
                      /\ \A g \in S : g.target = Boot /\ g.msg.type = "handoff" /\ g.msg.id = t.id
                      /\ Boot \in virt => \E g \in S : g.target = Boot
                   \/ /\ t.kind # "bootstrap" /\ virt' = virt
                      /\ \A g \in S : g.msg.type # "handoff" /\ g.target # Boot
                      /\ \A g \in S : g.msg.type = "welcome" =>
                            g.target = t.id /\ g.msg.id = t.id /\ g.msg.members = SeatIds
                      /\ t.key \in virt =>
                            \E g \in S : g.target = t.key /\ g.msg.type = "welcome"
                      /\ t.kind = "new" =>
                            \A id \in (SeatIds \ {t.id}) \cap virt :
                               \E g \in S : /\ g.target = id
                                            /\ g.msg.type = "member-joined" /\ g.msg.id = t.id
<1> DEFINE t == issuing[k]
           h == [type |-> "handoff", id |-> t.id]
           w == [type |-> "welcome", id |-> t.id, members |-> SeatIds]
           n == [type |-> "member-joined", id |-> t.id]
           others == SeatIds \ {t.id}
<1>1. /\ UNCHANGED <<sock, client, memberSockets, toHost, minted, faults>>
      /\ \/ /\ t.kind = "bootstrap"
            /\ Closes(virt, seats, Boot, Unicast(virt, Boot, h))
         \/ /\ t.kind = "rebind" /\ toRelay' = toRelay \o Unicast(virt, t.key, w)
            /\ UNCHANGED <<virt, seats>>
         \/ /\ t.kind = "new"
            /\ toRelay' = toRelay \o Unicast(virt, t.key, w) \o ToAll(virt, others, n)
            /\ UNCHANGED <<virt, seats>>
  BY DEF Issued, Handoff, Welcome, Announced
<1>2. /\ CloudTypeOK /\ SeatIds \subseteq Nat /\ Boot \notin SeatIds
      /\ toRelay \in Seq(RelayBound) /\ virt \subseteq Sub /\ IsFiniteSet(virt)
      /\ issuing \in Seq(Asker)
  BY SeatsTyped DEF CloudInv, CloudTypeOK
<1>3. t \in ToSet(issuing) /\ t \in Asker /\ t.id \in Nat /\ t.key \in Sub
  <2>1. t \in ToSet(issuing) /\ t \in Asker
    BY <1>2, InQueue
  <2>2. QED
    BY <2>1 DEF Asker
<1>4. t.kind # "bootstrap" => t.key = t.id
  BY <1>3 DEF CloudInv, NamesItself
<1>5. /\ h \in Message /\ h.type = "handoff" /\ h.id = t.id
      /\ w \in Message /\ w.type = "welcome" /\ w.id = t.id /\ w.members = SeatIds
      /\ n \in Message /\ n.type = "member-joined" /\ n.id = t.id
  BY <1>2, <1>3 DEF Message
<1> HIDE DEF t, h, w, n, others
<1>6. ASSUME NEW x \in Sub, NEW m \in Message
      PROVE  /\ Unicast(virt, x, m) \in Seq(RelayBound) /\ Len(Unicast(virt, x, m)) <= 1
             /\ \A g \in ToSet(Unicast(virt, x, m)) : g.target = x /\ g.msg = m
             /\ x \in virt => \E g \in ToSet(Unicast(virt, x, m)) : g.target = x /\ g.msg = m
  <2> DEFINE T == {[target |-> y, msg |-> m] : y \in {x} \cap virt}
             fs == Unicast(virt, x, m)
  <2>1. fs \in Seq(T) /\ ToSet(fs) = T
    BY UnicastFacts
  <2>2. T \subseteq RelayBound
    BY <1>6 DEF RelayBound
  <2>3. \A g \in T : g.target = x /\ g.msg = m
    OBVIOUS
  <2>4. x \in virt => \E g \in T : g.target = x /\ g.msg = m
    <3>1. x \in virt => [target |-> x, msg |-> m] \in T
      OBVIOUS
    <3>2. QED
      BY <3>1
  <2>5. Len(fs) <= 1
    BY DEF Unicast
  <2> HIDE DEF fs, T
  <2>6. fs \in Seq(RelayBound)
    BY <2>1, <2>2
  <2>7. QED
    BY <2>1, <2>3, <2>4, <2>5, <2>6 DEF fs
<1>7. /\ ToAll(virt, others, n) \in Seq(RelayBound)
      /\ \A g \in ToSet(ToAll(virt, others, n)) : g.target \in SeatIds /\ g.msg = n
      /\ \A id \in others \cap virt :
            \E g \in ToSet(ToAll(virt, others, n)) : g.target = id /\ g.msg = n
  <2> DEFINE T == {[target |-> y, msg |-> n] : y \in others \cap virt}
             fs == ToAll(virt, others, n)
  <2>1. fs \in Seq(T) /\ ToSet(fs) = T
    BY <1>2, ToAllFacts
  <2>2. T \subseteq RelayBound
    BY <1>2, <1>5 DEF RelayBound
  <2>3. \A g \in T : g.target \in SeatIds /\ g.msg = n
    BY DEF others
  <2>4. \A id \in others \cap virt : \E g \in T : g.target = id /\ g.msg = n
    <3>1. \A id \in others \cap virt : [target |-> id, msg |-> n] \in T
      OBVIOUS
    <3>2. QED
      BY <3>1
  <2> HIDE DEF fs, T
  <2>5. fs \in Seq(RelayBound)
    BY <2>1, <2>2
  <2>6. QED
    BY <2>1, <2>3, <2>4, <2>5 DEF fs
<1>8. ASSUME t.kind = "bootstrap", Closes(virt, seats, Boot, Unicast(virt, Boot, h))
      PROVE  /\ virt' = virt \ {Boot} /\ IsFiniteSet(virt') /\ UNCHANGED <<seats, SeatIds>>
             /\ \E S : /\ Sent(toRelay, toRelay', S) /\ Len(toRelay') <= Len(toRelay) + 1
                       /\ \A g \in S : g.target = Boot /\ g.msg.type = "handoff" /\ g.msg.id = t.id
                       /\ Boot \in virt => \E g \in S : g.target = Boot
  <2> DEFINE fs == Unicast(virt, Boot, h)
  <2>1. /\ virt' = virt \ {Boot} /\ seats' = {m \in seats : m.id # Boot}
        /\ toRelay' = toRelay \o fs \o <<>>
    BY <1>2, <1>8 DEF Closes, SeatIds
  <2>2. seats' = seats
    BY <1>2, <2>1 DEF SeatIds
  <2>3. /\ fs \in Seq(RelayBound) /\ Len(fs) <= 1
        /\ \A g \in ToSet(fs) : g.target = Boot /\ g.msg = h
        /\ Boot \in virt => \E g \in ToSet(fs) : g.target = Boot
    <3>1. Boot \in Sub
      BY DEF Sub
    <3>2. QED
      BY <1>5, <1>6, <3>1
  <2> HIDE DEF fs
  <2>4. toRelay \o fs \in Seq(RelayBound) /\ Len(toRelay \o fs) = Len(toRelay) + Len(fs)
    BY <1>2, <2>3
  <2>5. toRelay' = toRelay \o fs
    BY <2>1, <2>4, ConcatEmptySeq
  <2>6. Sent(toRelay, toRelay', ToSet(fs))
    BY <1>2, <2>3, <2>5, SentOnce
  <2>7. Len(toRelay') <= Len(toRelay) + 1
    <3>1. Len(toRelay) \in Nat /\ Len(fs) \in Nat
      BY <1>2, <2>3
    <3>2. QED
      BY <2>3, <2>4, <2>5, <3>1
  <2>8. IsFiniteSet(virt')
    BY <1>2, <2>1, FS_RemoveElement
  <2>9. \A g \in ToSet(fs) : g.target = Boot /\ g.msg.type = "handoff" /\ g.msg.id = t.id
    BY <1>5, <2>3
  <2>10. QED
    BY <2>1, <2>2, <2>3, <2>6, <2>7, <2>8, <2>9 DEF SeatIds
<1>9. ASSUME t.kind = "rebind", toRelay' = toRelay \o Unicast(virt, t.key, w)
      PROVE  \E S : /\ Sent(toRelay, toRelay', S)
                    /\ \A g \in S : g.msg = w /\ g.target = t.key
                    /\ t.key \in virt => \E g \in S : g.target = t.key /\ g.msg = w
  <2> DEFINE fs == Unicast(virt, t.key, w)
  <2>1. /\ fs \in Seq(RelayBound)
        /\ \A g \in ToSet(fs) : g.target = t.key /\ g.msg = w
        /\ t.key \in virt => \E g \in ToSet(fs) : g.target = t.key /\ g.msg = w
    BY <1>3, <1>5, <1>6
  <2> HIDE DEF fs
  <2>2. Sent(toRelay, toRelay', ToSet(fs))
    BY <1>2, <1>9, <2>1, SentOnce DEF fs
  <2>3. QED
    BY <2>1, <2>2
<1>10. ASSUME t.kind = "new",
              toRelay' = toRelay \o Unicast(virt, t.key, w) \o ToAll(virt, others, n)
       PROVE  \E S : /\ Sent(toRelay, toRelay', S)
                     /\ \A g \in S : \/ g.msg = w /\ g.target = t.key
                                     \/ g.msg = n /\ g.target \in SeatIds
                     /\ t.key \in virt => \E g \in S : g.target = t.key /\ g.msg = w
                     /\ \A id \in others \cap virt : \E g \in S : g.target = id /\ g.msg = n
  <2> DEFINE fs == Unicast(virt, t.key, w)
             gs == ToAll(virt, others, n)
  <2>1. /\ fs \in Seq(RelayBound)
        /\ \A g \in ToSet(fs) : g.target = t.key /\ g.msg = w
        /\ t.key \in virt => \E g \in ToSet(fs) : g.target = t.key /\ g.msg = w
    BY <1>3, <1>5, <1>6
  <2>2. /\ gs \in Seq(RelayBound)
        /\ \A g \in ToSet(gs) : g.target \in SeatIds /\ g.msg = n
        /\ \A id \in others \cap virt : \E g \in ToSet(gs) : g.target = id /\ g.msg = n
    BY <1>7
  <2>3. toRelay' = toRelay \o fs \o gs
    BY <1>10
  <2> HIDE DEF fs, gs
  <2>4. Sent(toRelay, toRelay \o fs, ToSet(fs))
    BY <1>2, <2>1, SentOnce
  <2>5. Sent(toRelay, toRelay', ToSet(fs) \cup ToSet(gs))
    BY <1>2, <2>2, <2>3, <2>4, SentMore
  <2>6. QED
    BY <2>1, <2>2, <2>5
<1>11. t.kind # "bootstrap" => t.key = t.id /\ t.key # Boot
  BY <1>3, <1>4, CloudConstants
<1>12. CASE t.kind = "bootstrap" /\ Closes(virt, seats, Boot, Unicast(virt, Boot, h))
  BY <1>1, <1>8, <1>12 DEF t
<1>13. CASE /\ t.kind = "rebind" /\ toRelay' = toRelay \o Unicast(virt, t.key, w)
            /\ UNCHANGED <<virt, seats>>
  <2>1. UNCHANGED <<seats, virt, SeatIds>> /\ IsFiniteSet(virt')
    BY <1>2, <1>13 DEF SeatIds
  <2>2. PICK S : /\ Sent(toRelay, toRelay', S)
                 /\ \A g \in S : g.msg = w /\ g.target = t.key
                 /\ t.key \in virt => \E g \in S : g.target = t.key /\ g.msg = w
    BY <1>9, <1>13
  <2>3. /\ \A g \in S : /\ g.msg.type = "welcome" /\ g.target = t.id /\ g.msg.id = t.id
                        /\ g.msg.members = SeatIds /\ g.target # Boot
        /\ t.key \in virt => \E g \in S : g.target = t.key /\ g.msg.type = "welcome"
    BY <1>5, <1>11, <1>13, <2>2
  <2>4. QED
    BY <1>1, <1>13, <2>1, <2>2, <2>3 DEF t
<1>14. CASE /\ t.kind = "new"
            /\ toRelay' = toRelay \o Unicast(virt, t.key, w) \o ToAll(virt, others, n)
            /\ UNCHANGED <<virt, seats>>
  <2>1. UNCHANGED <<seats, virt, SeatIds>> /\ IsFiniteSet(virt')
    BY <1>2, <1>14 DEF SeatIds
  <2>2. PICK S : /\ Sent(toRelay, toRelay', S)
                 /\ \A g \in S : \/ g.msg = w /\ g.target = t.key
                                 \/ g.msg = n /\ g.target \in SeatIds
                 /\ t.key \in virt => \E g \in S : g.target = t.key /\ g.msg = w
                 /\ \A id \in others \cap virt : \E g \in S : g.target = id /\ g.msg = n
    BY <1>10, <1>14
  <2>3. /\ \A g \in S : /\ g.msg.type \in {"welcome", "member-joined"} /\ g.target # Boot
                        /\ g.msg.type = "welcome" =>
                             g.target = t.id /\ g.msg.id = t.id /\ g.msg.members = SeatIds
        /\ t.key \in virt => \E g \in S : g.target = t.key /\ g.msg.type = "welcome"
        /\ \A id \in (SeatIds \ {t.id}) \cap virt :
              \E g \in S : g.target = id /\ g.msg.type = "member-joined" /\ g.msg.id = t.id
    <3>1. /\ w.type = "welcome" /\ w.id = t.id /\ w.members = SeatIds
          /\ n.type = "member-joined" /\ n.id = t.id /\ t.key = t.id /\ t.key # Boot
      BY <1>5, <1>11, <1>14
    <3>2. ASSUME NEW g \in S
          PROVE  /\ g.msg.type \in {"welcome", "member-joined"} /\ g.target # Boot
                 /\ g.msg.type = "welcome" =>
                      g.target = t.id /\ g.msg.id = t.id /\ g.msg.members = SeatIds
      <4>1. CASE g.msg = w /\ g.target = t.key
        BY <3>1, <4>1
      <4>2. CASE g.msg = n /\ g.target \in SeatIds
        BY <1>2, <3>1, <4>2
      <4>3. QED
        BY <2>2, <4>1, <4>2
    <3>3. t.key \in virt => \E g \in S : g.target = t.key /\ g.msg.type = "welcome"
      BY <2>2, <3>1
    <3>4. ASSUME NEW id \in (SeatIds \ {t.id}) \cap virt
          PROVE  \E g \in S : g.target = id /\ g.msg.type = "member-joined" /\ g.msg.id = t.id
      <4>1. PICK g \in S : g.target = id /\ g.msg = n
        BY <2>2 DEF others
      <4>2. QED
        BY <3>1, <4>1
    <3>5. QED
      BY <3>2, <3>3, <3>4
  <2>4. QED
    BY <1>1, <1>14, <2>1, <2>2, <2>3 DEF t
<1>15. QED
  BY <1>1, <1>12, <1>13, <1>14

\* A signed token preserves the invariant
LEMMA IssuedKeeps ==
    ASSUME CloudInv, NEW k \in DOMAIN issuing, Issued(k)
    PROVE  CloudInv'
<1> DEFINE t == issuing[k]
<1>1. /\ UNCHANGED <<sock, client, memberSockets, toHost, minted, faults, seats, SeatIds>>
      /\ virt' \subseteq virt /\ IsFiniteSet(virt')
  BY IssuedFacts
<1>2. PICK S :
                /\ Sent(toRelay, toRelay', S)
                /\ \A g \in S : g.msg.type \in {"handoff", "welcome", "member-joined"}
                /\ \/ /\ t.kind = "bootstrap" /\ virt' = virt \ {Boot}
                      /\ Len(toRelay') <= Len(toRelay) + 1
                      /\ \A g \in S : g.target = Boot /\ g.msg.type = "handoff" /\ g.msg.id = t.id
                      /\ Boot \in virt => \E g \in S : g.target = Boot
                   \/ /\ t.kind # "bootstrap" /\ virt' = virt
                      /\ \A g \in S : g.msg.type # "handoff" /\ g.target # Boot
                      /\ \A g \in S : g.msg.type = "welcome" =>
                            g.target = t.id /\ g.msg.id = t.id /\ g.msg.members = SeatIds
                      /\ t.key \in virt =>
                            \E g \in S : g.target = t.key /\ g.msg.type = "welcome"
                      /\ t.kind = "new" =>
                            \A id \in (SeatIds \ {t.id}) \cap virt :
                               \E g \in S : /\ g.target = id
                                            /\ g.msg.type = "member-joined" /\ g.msg.id = t.id
  BY IssuedFacts
<1>3. /\ CloudTypeOK /\ SeatIds \subseteq Nat /\ Boot \notin SeatIds /\ minted \in Nat
      /\ issuing \in Seq(Asker) /\ toRelay \in Seq(RelayBound)
      /\ UNCHANGED <<ToSet(memberSockets), ToSet(toHost)>>
  BY <1>1, SeatsTyped DEF CloudInv, CloudTypeOK, ToSet
<1>4. /\ issuing' \in Seq(Asker) /\ ToSet(issuing)' \subseteq ToSet(issuing)
      /\ \A x \in ToSet(issuing) : x # t => x \in ToSet(issuing)'
  <2>1. issuing' = RemoveAt(issuing, k)
    BY DEF Issued
  <2>2. /\ issuing' \in Seq(Asker) /\ ToSet(issuing') \subseteq ToSet(issuing)
        /\ \A x \in ToSet(issuing) : x # t => x \in ToSet(issuing')
    BY <1>3, <2>1, Removed
  <2>3. QED
    BY <2>2 DEF ToSet
<1>5. /\ t \in ToSet(issuing) /\ t.id \in Nat
      /\ IF t.kind = "bootstrap" THEN t.key = Boot /\ t.id \in 1..minted
         ELSE t.key = t.id /\ t.key # Boot
  <2>1. t \in ToSet(issuing) /\ t.id \in Nat
    <3>1. t \in ToSet(issuing) /\ t \in Asker
      BY <1>3, InQueue
    <3>2. QED
      BY <3>1 DEF Asker
  <2>2. QED
    BY <2>1, CloudConstants DEF CloudInv, NamesItself
<1>6. HandedOnce'
  <2>1. issuing' = RemoveAt(issuing, k)
    BY DEF Issued
  <2>2. QED
    BY <1>1, <1>2, <2>1, TakenOnce
<1> HIDE DEF t
<1>7. CloudTypeOK'
  <2>1. toRelay' \in Seq(RelayBound)
    BY <1>2 DEF Sent
  <2>2. QED
    BY <1>1, <1>3, <1>4, <2>1 DEF CloudTypeOK
<1>8. NamesItself' /\ OwnIdentity' /\ SocketsInOrder'
  <2>1. \A g \in S : /\ g.msg.type = "handoff" => g.target = Boot /\ g.msg.id \in 1..minted
                     /\ g.msg.type = "welcome" => g.target = g.msg.id
                     /\ g.target = Boot => g.msg.type \in {"handoff", "refused"}
    BY <1>2, <1>5
  <2>2. minted' >= minted /\ \A m \in seats' : m \in seats
    BY <1>1, <1>3
  <2>3. QED
    BY <1>1, <1>2, <1>3, <1>4, <1>7, <2>1, <2>2, HostNames
<1>9. AskersHeld'
  BY <1>1, HostAskers
<1>10. SeatIsHeld'
  <2>1. \A id \in SeatIds : id \in virt => id \in virt'
    BY <1>2, <1>3
  <2>2. QED
    BY <1>1, <1>3, <2>1 DEF CloudInv, SeatIsHeld
<1>11. Informed'
  <2>1. \A g \in S, b \in SeatIds' : ~Takes(g.msg, b)
    BY <1>1, <1>2 DEF Takes
  <2>2. SeatIds \subseteq virt
    BY DEF CloudInv, SeatIsHeld
  <2>3. ASSUME NEW c \in Client, client[c].token \in SeatIds',
               \E x \in ToSet(issuing) : x.key = client[c].token
        PROVE  \/ \E x \in ToSet(issuing)' : x.key = client[c].token
               \/ \A b \in SeatIds' : \E g \in S : g.target = client[c].token /\ Brings(g.msg, b)
    <3>1. PICK x \in ToSet(issuing) : x.key = client[c].token
      BY <2>3
    <3>2. CASE x # t
      BY <1>4, <3>1, <3>2
    <3>3. CASE x = t
      <4>1. t.key \in virt /\ t.kind # "bootstrap" /\ t.key = client[c].token
        BY <1>1, <1>3, <1>5, <2>2, <2>3, <3>1, <3>3
      <4>2. PICK g \in S : g.target = t.key /\ g.msg.type = "welcome"
        BY <1>2, <4>1
      <4>3. g.msg.members = SeatIds
        BY <1>2, <4>1, <4>2
      <4>4. \A b \in SeatIds' : Brings(g.msg, b)
        BY <1>1, <4>2, <4>3 DEF Brings
      <4>5. QED
        BY <4>1, <4>2, <4>4
    <3>4. QED
      BY <3>2, <3>3
  <2>4. ASSUME NEW x \in ToSet(issuing), NEW c \in Client, x.kind = "new",
               client[c].token \in SeatIds', x.key # client[c].token
        PROVE  \/ x \in ToSet(issuing)'
               \/ \E g \in S : g.target = client[c].token /\ Brings(g.msg, x.id)
    <3>1. CASE x # t
      BY <1>4, <3>1
    <3>2. CASE x = t
      <4>1. t.kind = "new" /\ client[c].token \in (SeatIds \ {t.id}) \cap virt
        BY <1>1, <1>5, <2>2, <2>4, <3>2
      <4>2. PICK g \in S : /\ g.target = client[c].token
                           /\ g.msg.type = "member-joined" /\ g.msg.id = t.id
        BY <1>2, <4>1
      <4>3. QED
        BY <3>2, <4>2 DEF Brings
    <3>3. QED
      BY <3>1, <3>2
  <2>5. /\ \A id \in SeatIds' : id \in SeatIds
        /\ \A f \in ToSet(toHost) : f \in ToSet(toHost)'
    BY <1>1, <1>3
  <2>6. QED
    BY <1>1, <1>2, <2>1, <2>3, <2>4, <2>5, HostInformed
<1>12. WaitsFresh' /\ WaitsForAnswer'
  <2>1. \/ \E g \in S : g.target = Boot
        \/ Boot \in virt /\ (\E x \in ToSet(issuing) : x.key = Boot) =>
             Boot \in virt' /\ (\E x \in ToSet(issuing)' : x.key = Boot)
    BY <1>2, <1>4, <1>5
  <2>2. QED
    BY <1>1, <1>2, <1>3, <1>4, <2>1, HostAnswered
<1>13. QED
  BY <1>6, <1>7, <1>8, <1>9, <1>10, <1>11, <1>12 DEF CloudInv

-----------------------------------------------------------------------------
(* The theorems of a cloud session *)

\* The invariant holds of the initial states
LEMMA CloudStarts == CloudInit => CloudInv
<1> SUFFICES ASSUME CloudInit PROVE CloudInv
  OBVIOUS
<1>1. /\ sock = [s \in Socket |-> NoSocket] /\ client = [c \in Client |-> NewClient]
      /\ memberSockets = <<>> /\ toHost = <<>> /\ toRelay = <<>>
      /\ virt = {} /\ seats = {} /\ issuing = <<>> /\ minted = 0 /\ faults = {}
  BY DEF CloudInit
<1>2. /\ \A c \in Client : client[c] = NewClient
      /\ \A c \in Client, i \in 1..MaxDials : sock[<<c, i>>] = NoSocket
  BY <1>1 DEF Socket
<1>3. /\ ToSet(memberSockets) = {} /\ ToSet(toHost) = {} /\ ToSet(toRelay) = {}
      /\ ToSet(issuing) = {} /\ SeatIds = {}
  BY <1>1 DEF ToSet, SeatIds
<1>4. NewClient \in ClientState /\ NoSocket \in SocketState
  BY CloudConstants DEF NewClient, ClientState, NoSocket, SocketState, Sub
<1>5. /\ NoSocket.phase = "none" /\ ~NoSocket.cut /\ NoSocket.sub = Boot
      /\ NewClient.token = Boot /\ NewClient.me = 0 /\ NewClient.verdict = "none"
  BY DEF NoSocket, NewClient
<1>6. CloudTypeOK
  BY <1>1, <1>4, FS_EmptySet DEF CloudTypeOK
<1>7. SocketsInOrder
  <2>1. IsInjective(memberSockets)
    BY <1>1 DEF IsInjective
  <2>2. QED
    BY <1>2, <1>3, <1>5, <2>1 DEF SocketsInOrder
<1>8. NamesItself
  <2>1. \A c \in Client : client[c].me \in 0..minted
    BY <1>1, <1>2, <1>5
  <2>2. QED
    BY <1>1, <1>2, <1>3, <1>5, <2>1 DEF NamesItself
<1>9. HandedOnce /\ AskersHeld /\ SeatIsHeld /\ Informed
  BY <1>1, <1>3 DEF HandedOnce, AskersHeld, SeatIsHeld, Informed
<1>10. OwnIdentity
  BY <1>2, CloudConstants DEF OwnIdentity, NewClient
<1>11. WaitsFresh /\ WaitsForAnswer
  BY <1>2, <1>5 DEF WaitsFresh, Fresh, WaitsForAnswer
<1>12. QED
  BY <1>6, <1>7, <1>8, <1>9, <1>10, <1>11 DEF CloudInv

\* Stuttering preserves the invariant
LEMMA CloudStays ==
    ASSUME CloudInv, UNCHANGED cloudVars
    PROVE  CloudInv'
<1>1. UNCHANGED <<sock, client, memberSockets, toHost, toRelay, virt, seats, issuing, minted,
        faults>>
  BY DEF cloudVars
<1>2. UNCHANGED <<ToSet(memberSockets), ToSet(toHost), ToSet(toRelay), ToSet(issuing), SeatIds,
                  IsInjective(memberSockets)>>
  BY <1>1 DEF ToSet, SeatIds, IsInjective
<1>3. CloudTypeOK'
  BY <1>1 DEF CloudInv, CloudTypeOK
<1>4. SocketsInOrder' /\ NamesItself'
  BY <1>1, <1>2 DEF CloudInv, SocketsInOrder, NamesItself
<1>5. HandedOnce' /\ OwnIdentity' /\ AskersHeld' /\ SeatIsHeld'
  BY <1>1, <1>2 DEF CloudInv, HandedOnce, OwnIdentity, AskersHeld, SeatIsHeld
<1>6. Informed'
  <2>1. \A c, b : WillKnow(c, b)' <=> WillKnow(c, b)
    BY <1>1 DEF WillKnow, KeptAfter
  <2>2. \A id : Doubtful(id)' <=> Doubtful(id)
    BY <1>1, <1>2 DEF Doubtful
  <2>3. QED
    BY <1>1, <1>2, <2>1, <2>2 DEF CloudInv, Informed
<1>7. WaitsFresh'
  BY <1>1 DEF CloudInv, WaitsFresh, Fresh
<1>8. WaitsForAnswer'
  <2>1. \A c : Answerable(c)' <=> Answerable(c)
    BY <1>1, <1>2 DEF Answerable, SharesBootstrap
  <2>2. QED
    BY <1>1, <2>1 DEF CloudInv, WaitsForAnswer
<1>9. QED
  BY <1>3, <1>4, <1>5, <1>6, <1>7, <1>8 DEF CloudInv

\* Every step preserves the invariant
LEMMA CloudKeeps == CloudInv /\ [CloudNext]_cloudVars => CloudInv'
<1> SUFFICES ASSUME CloudInv, [CloudNext]_cloudVars PROVE CloudInv'
  OBVIOUS
<1>1. ASSUME NEW c \in Client, ClientStep(c) PROVE CloudInv'
  BY <1>1, ClientKeeps
<1>2. CASE RelayRoutes
  BY <1>2, RelayRoutesKeeps
<1>3. ASSUME NEW s \in Socket, RelayNotices(s) PROVE CloudInv'
  BY <1>3, RelayNoticesKeeps
<1>4. CASE HostReadsLeft
  BY <1>4, HostReadsLeftKeeps
<1>5. CASE RejectAuth
  BY <1>5, RejectAuthKeeps
<1>6. CASE AcceptAuth
  BY <1>6, AcceptAuthKeeps
<1>7. ASSUME NEW k \in DOMAIN issuing, Issued(k) PROVE CloudInv'
  BY <1>7, IssuedKeeps
<1>8. CASE UNCHANGED cloudVars
  BY <1>8, CloudStays
<1>9. QED
  BY <1>1, <1>2, <1>3, <1>4, <1>5, <1>6, <1>7, <1>8 DEF CloudNext, HostStep

\* What every state of a cloud session has in common
THEOREM CloudInvariance == CloudSpec => []CloudInv
<1>1. CloudInit => CloudInv
  BY CloudStarts
<1>2. CloudInv /\ [CloudNext]_cloudVars => CloudInv'
  BY CloudKeeps
<1>3. QED
  BY <1>1, <1>2, PTL DEF CloudSpec

\* A seat at the host is never without its virtual connection, nor that connection
\* without a socket at the relay or the word that it has gone
THEOREM SeatsAreHeld == CloudSpec => []SeatIsHeld
<1>1. CloudInv => SeatIsHeld
  BY DEF CloudInv
<1>2. QED
  BY <1>1, CloudInvariance, PTL

\* No two clients ever share an identity, however many dial with the bootstrap token of
\* one link and whichever of them reads the answer
THEOREM Identities == CloudSpec => []OwnIdentity
<1>1. CloudInv => OwnIdentity
  BY DEF CloudInv
<1>2. QED
  BY <1>1, CloudInvariance, PTL

\* The invariant gives a member at rest its complete roster
LEMMA KnowsAll == CloudInv => RosterComplete
<1> SUFFICES ASSUME CloudInv, AtRest, NEW c \in Client, ~client[c].left, client[c].me \in SeatIds,
                    NEW b \in SeatIds
             PROVE  b \in client[c].roster
  BY DEF RosterComplete
<1>1. /\ ToSet(toHost) = {} /\ ToSet(issuing) = {} /\ DOMAIN toRelay = {}
      /\ \A s \in Socket : sock[s].cut => sock[s].phase = "closed"
      /\ \A s \in ToSet(memberSockets) : s \in Socket /\ sock[s].phase = "open"
  BY QueuesTyped DEF AtRest, ToSet, CloudInv
<1>2. client[c].token \in SeatIds
  <2>1. PICK m \in seats : m.id = client[c].me
    BY DEF SeatIds
  <2>2. m.by \in Client /\ m.id = client[m.by].token
    BY DEF CloudInv, CloudTypeOK, NamesItself
  <2>3. m.by = c
    BY <2>1, <2>2 DEF CloudInv, OwnIdentity
  <2>4. QED
    BY <2>1, <2>2, <2>3
<1>3. ~Doubtful(client[c].token)
  BY <1>1 DEF Doubtful
<1>4. WillKnow(c, b)
  BY <1>1, <1>2, <1>3 DEF CloudInv, Informed
<1>5. QED
  BY <1>1, <1>4 DEF WillKnow

\* Once nothing is in flight, a member with a seat knows all the members
THEOREM RostersComplete == CloudSpec => []RosterComplete
  BY KnowsAll, CloudInvariance, PTL

\* The invariant leaves no joiner at rest waiting
LEMMA NoneWaits == CloudInv => NobodyLeftWaiting
<1> SUFFICES ASSUME CloudInv, AtRest, NEW c \in Client, client[c].verdict = "waiting",
                    ~client[c].shared
             PROVE  FALSE
  BY DEF NobodyLeftWaiting
<1>1. /\ ToSet(toHost) = {} /\ ToSet(issuing) = {} /\ ToSet(toRelay) = {}
      /\ \A s \in Socket : sock[s].phase \notin {"dialing", "closing"}
      /\ \A s \in Socket : sock[s].cut => sock[s].phase = "closed"
  BY DEF AtRest, ToSet
<1>2. Fresh(c) /\ Answerable(c) /\ CloudTypeOK
  BY DEF CloudInv, WaitsFresh, WaitsForAnswer
<1>3. <<c, 1>> \in Socket
  <2>1. client[c].ws \in 0..MaxDials /\ client[c].ws \in {1, 2}
    BY <1>2 DEF Fresh, CloudTypeOK, ClientState
  <2>2. 1 \in 1..MaxDials
    BY <2>1, CloudConstants
  <2>3. QED
    BY <2>2 DEF Socket
<1>4. client[c].ws = 1 /\ sock[<<c, 1>>].phase = "open" /\ ~sock[<<c, 1>>].cut
  <2>1. client[c].ws = 1 /\ sock[<<c, 1>>].phase \in {"dialing", "open"}
    BY <1>1, <1>2, <1>3 DEF Fresh
  <2>2. QED
    BY <1>1, <1>3, <2>1
<1>5. QED
  BY <1>1, <1>2, <1>4 DEF Answerable

\* A joiner whose request is answered while it has the bootstrap token to itself does not
\* wait for good
THEOREM NobodyWaits == CloudSpec => []NobodyLeftWaiting
  BY NoneWaits, CloudInvariance, PTL
================================================================================
