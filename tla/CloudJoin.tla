------------------------------- MODULE CloudJoin -------------------------------
(***************************************************************************)
(* Members of a cloud session from the invite link to the seat: the        *)
(* CloudTransport and SessionClient of every joiner, the relay between     *)
(* them and the host, and the host's CloudHostTransport and                *)
(* handleAuthRequest.  A joiner dials with the bootstrap token all links   *)
(* of a session share, is handed a token of its own, swaps sockets and     *)
(* asks again.  Connections can be lost, and each end notices in its own   *)
(* time; the host stays connected (its own loss is in RelayRegistry).      *)
(*                                                                         *)
(* A frame travels in one step between a joiner and the relay and through  *)
(* a queue between the relay and the host.  The auth-response that seats a *)
(* member and the state-sync sent right behind it are one frame, welcome.  *)
(***************************************************************************)
EXTENDS Integers, Sequences, SequencesExt, FiniteSets

CONSTANTS
    Client,       \* SessionClient instances, each with its CloudTransport
    Boot,         \* sub of the bootstrap token, "bootstrap-" + sessionId
    MaxDials,     \* bound: sockets a client opens
    MaxFaults     \* bound: kinds of fault in a run, each once

ASSUME CloudConstants == Boot \notin Nat /\ {MaxDials, MaxFaults} \subseteq Nat

Socket == Client \X (1..MaxDials)   \* <<c, i>>: the i-th WebSocket of client c

VARIABLES
    sock,           \* sock[s]: its phase at the client, its token's sub, who dialled, if it is cut
    client,         \* client[c]: the fields of the SessionClient and its CloudTransport
    memberSockets,  \* relay: the session's sockets, in the order they were attached
    toHost,         \* frames from the relay to the host
    toRelay,        \* frames from the host to the relay, each with its target
    virt,           \* host: the keys of the open virtual connections
    seats,          \* host: its members and the clientId each is known by
    issuing,        \* host: auth-requests that await their token
    minted,         \* member ids made up so far
    faults          \* the faults so far

cloudVars == <<sock, client, memberSockets, toHost, toRelay, virt, seats, issuing, minted, faults>>
hostVars == <<virt, seats, issuing, minted>>
wire == <<toHost, toRelay>>

NoSocket == [phase |-> "none", sub |-> Boot, ladder |-> FALSE, cut |-> FALSE]

NewClient ==
    [verdict |-> "none",   \* of connect(): waiting, true or false
     me |-> 0,             \* SessionClient.memberId
     token |-> Boot,       \* sub of CloudTransport.token
     ws |-> 0,             \* CloudTransport.ws
     swapped |-> FALSE,    \* cloudSwapCompleted
     swap |-> 0,           \* the socket swapToken() waits for; swapInProgress is swap # 0
     timer |-> FALSE,      \* ReconnectManager.timer is armed
     strays |-> 0,         \* armed timers the ReconnectManager has forgotten
     left |-> FALSE,       \* intentionalClose
     roster |-> {},        \* SessionClient.members
     shared |-> FALSE]     \* history: waiting while another uses the bootstrap token

CloudInit ==
    /\ sock = [s \in Socket |-> NoSocket]
    /\ client = [c \in Client |-> NewClient]
    /\ memberSockets = <<>>
    /\ toHost = <<>> /\ toRelay = <<>>
    /\ virt = {} /\ seats = {} /\ issuing = <<>>
    /\ minted = 0
    /\ faults = {}

SeatIds == {m.id : m \in seats}

-------------------------------------------------------------------------------
(* The joiner's transport                                                  *)

Settled(r, verdict) ==
    IF r.verdict = "waiting" THEN [r EXCEPT !.verdict = verdict, !.shared = FALSE] ELSE r

\* The manager keeps one timer: arming another forgets the former, which still fires
Scheduled(r) ==
    IF r.left THEN r
    ELSE [r EXCEPT !.strays = IF r.timer THEN @ + 1 ELSE @, !.timer = TRUE]

\* `new WebSocket` with the token of the moment; it becomes CloudTransport.ws
Dialled(sk, c, r, ladder) ==
    [sk EXCEPT ![<<c, r.ws + 1>>] =
        [phase |-> "dialing", sub |-> r.token, ladder |-> ladder, cut |-> FALSE]]

MayHappen(fault) == fault \notin faults /\ Cardinality(faults) < MaxFaults

MayDial(c) == client[c].ws < MaxDials

\* Another joiner is using the bootstrap token, or has left traces of it
SharesBootstrap(c) ==
    \/ \E s \in Socket : /\ s[1] # c /\ sock[s].sub = Boot
                         /\ \/ sock[s].phase \in {"dialing", "open", "closing"}
                            \/ s \in ToSet(memberSockets)
    \/ \E f \in ToSet(toHost) : f.sub = Boot /\ f.by # c
    \/ \E t \in ToSet(issuing) : t.key = Boot /\ t.by # c

\* Client c is about to dial with its token
Sharing(c) ==
    [d \in Client |->
        [client[d] EXCEPT !.shared =
            \/ @
            \/ /\ client[c].token = Boot
               /\ IF d = c THEN client[c].ws = 0 /\ SharesBootstrap(c)
                  ELSE client[d].verdict = "waiting"]]

Join(c) ==
    /\ client[c].verdict = "none" /\ MayDial(c)
    /\ sock' = Dialled(sock, c, client[c], FALSE)
    /\ client' = [Sharing(c) EXCEPT ![c].verdict = "waiting", ![c].ws = 1]
    /\ UNCHANGED <<memberSockets, wire, hostVars, faults>>

\* send() writes to CloudTransport.ws, whichever socket opened; the first
\* frame of a socket attaches it at the relay
Asks(c, sk) ==
    LET s == <<c, client[c].ws>> IN
    IF sk[s].phase = "open" /\ ~sk[s].cut
    THEN /\ memberSockets' = IF s \in ToSet(memberSockets)
                             THEN memberSockets
                             ELSE Append(memberSockets, s)
         /\ toHost' = Append(toHost, [type |-> "auth-request", sub |-> sk[s].sub, by |-> c])
    ELSE UNCHANGED <<memberSockets, toHost>>

Opened(c, i) ==
    /\ sock[<<c, i>>].phase = "dialing"
    /\ LET sk == [sock EXCEPT ![<<c, i>>].phase = "open"] IN
       /\ sock' = sk
       /\ Asks(c, sk)
    /\ client' = [client EXCEPT
         ![c].swap = IF i = @ THEN 0 ELSE @,
         ![c].timer = @ /\ ~sock[<<c, i>>].ladder]
    /\ UNCHANGED <<toRelay, hostVars, faults>>

\* connect() resolves false after the close handler ran: a dial of the
\* reconnect manager is scheduled again by both
AfterFailure(r, i, ladder) ==
    LET closed == IF r.swap # 0 THEN r ELSE Scheduled(r)
        again  == IF ladder THEN Scheduled(closed) ELSE closed
    IN  [Settled(again, "false") EXCEPT !.swap = IF i = @ THEN 0 ELSE @]

DialFails(c, i) ==
    /\ sock[<<c, i>>].phase = "dialing" /\ MayHappen("dial")
    /\ sock' = [sock EXCEPT ![<<c, i>>].phase = "closed"]
    /\ client' = [client EXCEPT ![c] = AfterFailure(@, i, sock[<<c, i>>].ladder)]
    /\ faults' = faults \cup {"dial"}
    /\ UNCHANGED <<memberSockets, wire, hostVars>>

Lose(c, i) ==
    /\ sock[<<c, i>>].phase \in {"open", "closing"} /\ ~sock[<<c, i>>].cut
    /\ MayHappen("loss")
    /\ sock' = [sock EXCEPT ![<<c, i>>].cut = TRUE]
    /\ faults' = faults \cup {"loss"}
    /\ UNCHANGED <<client, memberSockets, wire, hostVars>>

\* Close code 1006 is relay-unreachable; the 1000 of an orderly close is final
AfterClose(r, code) ==
    IF code = 1006 /\ r.swap = 0 THEN Scheduled(Settled(r, "false")) ELSE Settled(r, "false")

SocketClosed(c, i) ==
    LET s == sock[<<c, i>>] IN
    /\ \/ s.phase = "open" /\ s.cut
       \/ s.phase = "closing" /\ (s.cut \/ <<c, i>> \notin ToSet(memberSockets))
    /\ sock' = [sock EXCEPT ![<<c, i>>].phase = "closed"]
    /\ client' = [client EXCEPT ![c] = AfterClose(@, IF s.cut THEN 1006 ELSE 1000)]
    /\ UNCHANGED <<memberSockets, wire, hostVars, faults>>

\* A timer fires and dials, whatever the state of the sockets there are
Redial(c) ==
    /\ client[c].timer \/ client[c].strays > 0
    /\ MayDial(c)
    /\ \/ client[c].timer /\ client' = [Sharing(c) EXCEPT ![c].timer = FALSE, ![c].ws = @ + 1]
       \/ client[c].strays > 0 /\ client' = [Sharing(c) EXCEPT ![c].strays = @ - 1, ![c].ws = @ + 1]
    /\ sock' = Dialled(sock, c, client[c], TRUE)
    /\ UNCHANGED <<memberSockets, wire, hostVars, faults>>

-------------------------------------------------------------------------------
(* The joiner's session client                                             *)

\* ws.close(): a socket still connecting is aborted
Shut(sk, s) ==
    [sk EXCEPT ![s].phase = CASE @ = "open" -> "closing" [] @ = "dialing" -> "closed" [] OTHER -> @]

\* swapToken(): close the socket, take the token, dial again
SwapToken(c, r, id) ==
    LET s == <<c, r.ws>>
        dropped == IF sock[s].phase = "dialing"
                   THEN AfterFailure([r EXCEPT !.swap = r.ws + 1], r.ws, sock[s].ladder)
                   ELSE r
        t == [dropped EXCEPT !.token = id, !.swap = r.ws + 1]
    IN  /\ sock' = Dialled(Shut(sock, s), c, t, FALSE)
        /\ client' = [client EXCEPT ![c] = [t EXCEPT !.ws = @ + 1]]

\* The first accepted answer swaps tokens, a later one seats the member
Accepted(c, m) ==
    LET r == client[c] IN
    IF ~r.swapped
    THEN IF r.swap = 0 /\ ~r.left
         THEN MayDial(c) /\ SwapToken(c, [r EXCEPT !.swapped = TRUE], m.id)
         ELSE /\ client' = [client EXCEPT ![c] = Settled([@ EXCEPT !.swapped = TRUE], "false")]
              /\ UNCHANGED sock
    ELSE /\ client' = [client EXCEPT ![c] =
                Settled([@ EXCEPT !.me = m.id,
                                  !.roster = IF m.type = "welcome"
                                             THEN m.members
                                             ELSE r.roster], "true")]
         /\ UNCHANGED sock

HandleMessage(c, m) ==
    \/ m.type \in {"handoff", "welcome"} /\ Accepted(c, m)
    \/ /\ m.type = "refused"
       /\ client' = [client EXCEPT ![c] = Settled(@, "false")]
       /\ UNCHANGED sock
    \/ /\ m.type = "member-joined"
       /\ client' = [client EXCEPT ![c].roster = @ \cup {m.id}]
       /\ UNCHANGED sock
    \/ /\ m.type = "member-left"
       /\ client' = [client EXCEPT ![c].roster = @ \ {m.id}]
       /\ UNCHANGED sock

\* The invite panel hands the client to the extension, and with it the button
\* to leave, once connect() is true; leaving closes the newest socket only
Disconnect(c) ==
    LET r == client[c]
        s == <<c, r.ws>>
    IN  /\ r.verdict = "true" /\ ~r.left
        /\ sock' = Shut(sock, s)
        /\ client' = [client EXCEPT ![c] =
             [@ EXCEPT !.left = TRUE, !.swapped = FALSE, !.timer = FALSE,
                       !.swap = IF sock[s].phase = "dialing" THEN 0 ELSE r.swap]]
        /\ UNCHANGED <<memberSockets, wire, hostVars, faults>>

-------------------------------------------------------------------------------
(* The relay                                                               *)

\* The first of the session's sockets that carries the target's sub
Receiver(target) == SelectInSeq(memberSockets, LAMBDA s : sock[s].sub = target)

RelayRoutes ==
    /\ toRelay # <<>>
    /\ toRelay' = Tail(toRelay)
    /\ LET m == Head(toRelay)
           k == Receiver(m.target)
       IN  IF /\ k # 0
              /\ ~sock[memberSockets[k]].cut
              /\ sock[memberSockets[k]].phase \in {"open", "closing"}
           THEN HandleMessage(memberSockets[k][1], m.msg)
           ELSE UNCHANGED <<sock, client>>
    /\ UNCHANGED <<memberSockets, toHost, hostVars, faults>>

\* Slip: the relay detaches the socket and tells nobody
LeftFrameUnsent(s) == <<>>

LeftFrame(s) == <<[type |-> "member-left", sub |-> sock[s].sub, by |-> s[1]]>>

\* The relay learns of a socket's end, from its close frame or from silence
RelayNotices(s) ==
    /\ s \in ToSet(memberSockets)
    /\ sock[s].cut \/ sock[s].phase \in {"closing", "closed"}
    /\ memberSockets' = RemoveFirst(memberSockets, s)
    /\ toHost' = toHost \o LeftFrame(s)
    /\ UNCHANGED <<sock, client, toRelay, hostVars, faults>>

-------------------------------------------------------------------------------
(* The host                                                                *)

\* A frame for one virtual connection, if it is open
Unicast(vs, target, m) == IF target \in vs THEN <<[target |-> target, msg |-> m]>> ELSE <<>>

ToAll(vs, ids, m) ==
    LET to == SetToSeq(ids \cap vs) IN [k \in DOMAIN to |-> [target |-> to[k], msg |-> m]]

\* A frame of an unknown sub opens a virtual connection under that key
VirtualFor(key) == virt \cup {key}

\* The token of a request is signed asynchronously; of its claims the sub matters
Request(kind, id) == [kind |-> kind, id |-> id, key |-> Head(toHost).sub, by |-> Head(toHost).by]

\* closeConnection(): the virtual connection's close handler removes the
\* member bound to it and tells the others
Closes(vs, ms, key, frames) ==
    /\ virt' = vs \ {key}
    /\ seats' = {m \in ms : m.id # key}
    /\ toRelay' = toRelay \o frames \o
         IF key \in {m.id : m \in ms}
         THEN ToAll(vs \ {key}, {m.id : m \in ms} \ {key}, [type |-> "member-left", id |-> key])
         ELSE <<>>

HostReadsLeft ==
    /\ toHost # <<>> /\ Head(toHost).type = "member-left"
    /\ toHost' = Tail(toHost)
    /\ IF Head(toHost).sub \in virt
       THEN Closes(virt, seats, Head(toHost).sub, <<>>)
       ELSE UNCHANGED <<virt, seats, toRelay>>
    /\ UNCHANGED <<sock, client, memberSockets, issuing, minted, faults>>

\* Rate limit, which all joiners of the relay share, or invite code
RejectAuth ==
    /\ toHost # <<>> /\ Head(toHost).type = "auth-request"
    /\ MayHappen("refusal")
    /\ toHost' = Tail(toHost)
    /\ LET key == Head(toHost).sub
           vs  == VirtualFor(key)
       IN  Closes(vs, seats, key, Unicast(vs, key, [type |-> "refused"]))
    /\ faults' = faults \cup {"refusal"}
    /\ UNCHANGED <<sock, client, memberSockets, issuing, minted>>

\* Slip: one id per session, as the bootstrap token has one sub
TentativeIdShared == 1

TentativeId == minted + 1   \* crypto.randomUUID()

\* The member is stored, then its token is awaited
AcceptAuth ==
    /\ toHost # <<>> /\ Head(toHost).type = "auth-request"
    /\ toHost' = Tail(toHost)
    /\ LET key  == Head(toHost).sub
           by   == Head(toHost).by
           held == {m.id : m \in {n \in seats : n.by = by}}
       IN  /\ virt' = VirtualFor(key)
           /\ \/ /\ key = Boot
                 /\ minted' = minted + 1
                 /\ issuing' = Append(issuing, Request("bootstrap", TentativeId))
                 /\ UNCHANGED seats
              \/ /\ key # Boot /\ held # {}
                 /\ \E id \in held : issuing' = Append(issuing, Request("rebind", id))
                 /\ UNCHANGED <<seats, minted>>
              \/ /\ key # Boot /\ held = {}
                 /\ seats' = {m \in seats : m.id # key} \cup {[id |-> key, by |-> by]}
                 /\ issuing' = Append(issuing, Request("new", key))
                 /\ UNCHANGED minted
    /\ UNCHANGED <<sock, client, memberSockets, toRelay, faults>>

Welcome(t) ==
    Unicast(virt, t.key, [type |-> "welcome", id |-> t.id, members |-> SeatIds])

\* Slip: the new member's path returns before the broadcast, as the rebind's does
AnnouncedToNobody(t) == <<>>

Announced(t) ==
    ToAll(virt, SeatIds \ {t.id}, [type |-> "member-joined", id |-> t.id])

\* Slip: the bootstrap connection is closed before the answer is sent
HandoffAfterClose(t) == Unicast(virt \ {Boot}, Boot, [type |-> "handoff", id |-> t.id])

Handoff(t) == Unicast(virt, Boot, [type |-> "handoff", id |-> t.id])

\* The token of the k-th waiting auth-request is signed
Issued(k) ==
    LET t == issuing[k] IN
    /\ issuing' = RemoveAt(issuing, k)
    /\ \/ /\ t.kind = "bootstrap"
          /\ Closes(virt, seats, Boot, Handoff(t))
       \/ /\ t.kind = "rebind"
          /\ toRelay' = toRelay \o Welcome(t)
          /\ UNCHANGED <<virt, seats>>
       \/ /\ t.kind = "new"
          /\ toRelay' = toRelay \o Welcome(t) \o Announced(t)
          /\ UNCHANGED <<virt, seats>>
    /\ UNCHANGED <<sock, client, memberSockets, toHost, minted, faults>>

-------------------------------------------------------------------------------
ClientStep(c) ==
    \/ Join(c) \/ Redial(c) \/ Disconnect(c)
    \/ \E i \in 1..MaxDials : Opened(c, i) \/ DialFails(c, i) \/ Lose(c, i) \/ SocketClosed(c, i)

HostStep == HostReadsLeft \/ RejectAuth \/ AcceptAuth \/ \E k \in DOMAIN issuing : Issued(k)

CloudNext ==
    \/ \E c \in Client : ClientStep(c)
    \/ RelayRoutes \/ \E s \in Socket : RelayNotices(s)
    \/ HostStep

CloudSpec == CloudInit /\ [][CloudNext]_cloudVars

-------------------------------------------------------------------------------
(* What a cloud session owes its members                                   *)

\* A seat never outlives its connection: the member's virtual connection is
\* open (SessionHost stores the member before it awaits the token, so a close
\* in between removes it), and the relay has a socket for it or has a
\* member-left frame on the way to the host.
SeatIsHeld ==
    \A id \in SeatIds :
       /\ id \in virt
       /\ \/ \E s \in ToSet(memberSockets) : sock[s].sub = id
          \/ \E f \in ToSet(toHost) : f.type = "member-left" /\ f.sub = id

\* No two clients ever hold one identity, though all of them start from one
\* token and the answers to it travel to whoever is first in line at the relay.
OwnIdentity ==
    \A c, d \in Client : c # d =>
       /\ client[c].token = client[d].token => client[c].token = Boot
       /\ client[c].me = client[d].me => client[c].me = 0
       /\ client[c].me # client[d].token

AtRest ==
    /\ toHost = <<>> /\ toRelay = <<>> /\ issuing = <<>>
    /\ \A s \in Socket : /\ sock[s].phase \notin {"dialing", "closing"}
                         /\ sock[s].cut => sock[s].phase = "closed"
    /\ \A s \in ToSet(memberSockets) : sock[s].phase = "open"

\* Whatever was lost on the way, once nothing is in flight a member that has
\* a seat knows every other member that has one. A member that has left is no
\* reader of its roster: a stray timer may dial for it and seat its ghost again
\* (NoDialAfterLeaving below), which keeps the roster of the day it left.
RosterComplete ==
    AtRest => \A c \in Client :
                 ~client[c].left /\ client[c].me \in SeatIds => SeatIds \subseteq client[c].roster

\* The invite panel never waits for good: with nothing in flight connect() has
\* settled, except for a joiner that had to share the bootstrap token.
NobodyLeftWaiting ==
    AtRest => \A c \in Client : client[c].verdict = "waiting" => client[c].shared

-----------------------------------------------------------------------------
(* What the repository says and the code does not keep (README, section 6) *)

\* A member that left never dials again: markIntentionalClose() says that the
\* abort cancels any retry that was scheduled.
NoDialAfterLeaving ==
    [][\A c \in Client : client[c].left => client'[c].ws = client[c].ws]_cloudVars
-------------------------------------------------------------------------------
(* The inductive invariant of the proofs *)

Sub == Nat \cup {Boot}

Message ==
    [type : {"refused"}]
    \cup [type : {"handoff", "member-joined", "member-left"}, id : Nat]
    \cup [type : {"welcome"}, id : Nat, members : SUBSET Nat]

SocketState ==
    [phase : {"none", "dialing", "open", "closing", "closed"}, sub : Sub,
     ladder : BOOLEAN, cut : BOOLEAN]

ClientState ==
    [verdict : {"none", "waiting", "true", "false"}, me : Nat, token : Sub,
     ws : 0..MaxDials, swapped : BOOLEAN, swap : 0..MaxDials, timer : BOOLEAN,
     strays : Nat, left : BOOLEAN, roster : SUBSET Nat, shared : BOOLEAN]

HostBound == [type : {"auth-request", "member-left"}, sub : Sub, by : Client]

RelayBound == [target : Sub, msg : Message]

Asker == [kind : {"bootstrap", "rebind", "new"}, id : Nat, key : Sub, by : Client]

CloudTypeOK ==
    /\ sock \in [Socket -> SocketState]
    /\ client \in [Client -> ClientState]
    /\ memberSockets \in Seq(Socket)
    /\ toHost \in Seq(HostBound)
    /\ toRelay \in Seq(RelayBound)
    /\ virt \subseteq Sub /\ IsFiniteSet(virt)
    /\ seats \subseteq [id : Nat, by : Client]
    /\ issuing \in Seq(Asker)
    /\ minted \in Nat
    /\ faults \subseteq {"dial", "loss", "refusal"}

\* Sockets are dialled in order, and what is attached has been opened, once
SocketsInOrder ==
    /\ \A c \in Client, i \in 1..MaxDials :
          /\ sock[<<c, i>>].phase # "none" => i <= client[c].ws
          /\ sock[<<c, i>>].cut => sock[<<c, i>>].phase \in {"open", "closing", "closed"}
    /\ \A s \in ToSet(memberSockets) : sock[s].phase \in {"open", "closing", "closed"}
    /\ IsInjective(memberSockets)
    /\ \A f \in ToSet(toHost) : client[f.by].ws # 0

\* A client has one identity, its token, which is under the bootstrap token's until the
\* swap; everything that speaks for it or to it names this one
NamesItself ==
    /\ \A c \in Client :
          /\ client[c].token \in {Boot} \cup 1..minted
          /\ client[c].me \in 0..minted
          /\ client[c].token # Boot => client[c].swapped \/ client[c].left
    /\ \A c \in Client, i \in 1..MaxDials : sock[<<c, i>>].sub \in {Boot, client[c].token}
    /\ \A f \in ToSet(toHost) : f.sub \in {Boot, client[f.by].token}
    /\ \A t \in ToSet(issuing) :
          IF t.kind = "bootstrap" THEN t.key = Boot /\ t.id \in 1..minted
          ELSE t.key = t.id /\ t.key = client[t.by].token
    /\ \A m \in seats : m.id = client[m.by].token
    /\ \A f \in ToSet(toRelay) :
          /\ f.msg.type = "handoff" => f.target = Boot /\ f.msg.id \in 1..minted
          /\ f.msg.type = "welcome" => f.target = f.msg.id
          /\ f.target = Boot => f.msg.type \in {"handoff", "refused"}

\* An id on its way to a joiner has no other holder, and is on its way once
HandedOnce ==
    /\ \A k \in DOMAIN issuing : issuing[k].kind = "bootstrap" =>
          /\ \A c \in Client : issuing[k].id \notin {client[c].token, client[c].me}
          /\ \A j \in DOMAIN issuing :
                issuing[j].kind = "bootstrap" /\ issuing[j].id = issuing[k].id => j = k
          /\ \A f \in ToSet(toRelay) : f.msg.type = "handoff" => f.msg.id # issuing[k].id
    /\ \A k \in DOMAIN toRelay : toRelay[k].msg.type = "handoff" =>
          /\ \A c \in Client : toRelay[k].msg.id \notin {client[c].token, client[c].me}
          /\ \A j \in DOMAIN toRelay :
                toRelay[j].msg.type = "handoff" /\ toRelay[j].msg.id = toRelay[k].msg.id => j = k

\* Whoever asks for a seat is attached, or the word that it no longer is follows the
\* request
AskersHeld ==
    \A j \in DOMAIN toHost : toHost[j].type = "auth-request" =>
       \/ \E s \in ToSet(memberSockets) : sock[s].sub = toHost[j].sub
       \/ \E k \in DOMAIN toHost : /\ k > j
                                   /\ toHost[k].type = "member-left"
                                   /\ toHost[k].sub = toHost[j].sub

\* The relay has a socket under this sub that is gone, or the host is about to hear that
\* one has gone: what is sent may be lost, and the seat will be taken away
Doubtful(id) ==
    \/ \E s \in ToSet(memberSockets) :
          sock[s].sub = id /\ (sock[s].cut \/ sock[s].phase \in {"closing", "closed"})
    \/ \E f \in ToSet(toHost) : f.type = "member-left" /\ f.sub = id

Brings(m, b) ==
    \/ m.type = "welcome" /\ b \in m.members
    \/ m.type = "member-joined" /\ m.id = b

Takes(m, b) ==
    \/ m.type = "welcome" /\ b \notin m.members
    \/ m.type = "member-left" /\ m.id = b

\* No frame after the j-th tells the client that b has gone
KeptAfter(j, id, b) ==
    \A k \in DOMAIN toRelay : k > j /\ toRelay[k].target = id => ~Takes(toRelay[k].msg, b)

\* When the client has read the frames on their way to it, it knows of b
WillKnow(c, b) ==
    \/ b \in client[c].roster /\ KeptAfter(0, client[c].token, b)
    \/ \E j \in DOMAIN toRelay :
          /\ toRelay[j].target = client[c].token /\ Brings(toRelay[j].msg, b)
          /\ KeptAfter(j, client[c].token, b)

\* A member whose seat is not in doubt awaits its welcome, or knows every other member or
\* is about to
Informed ==
    \A c \in Client :
       client[c].token \in SeatIds /\ ~client[c].left /\ ~Doubtful(client[c].token) =>
          \/ \E t \in ToSet(issuing) : t.key = client[c].token
          \/ \A b \in SeatIds : \/ \E t \in ToSet(issuing) : t.kind = "new" /\ t.id = b
                                \/ WillKnow(c, b)

\* While connect() waits nothing has failed: the client is on its first socket with the
\* bootstrap token, or has dialled its second while the first one closes
Fresh(c) ==
    LET r == client[c] IN
    /\ r.verdict = "none" => r = NewClient
    /\ r.verdict = "waiting" =>
         /\ ~r.left /\ ~r.timer /\ r.strays = 0
         /\ \/ /\ r.ws = 1 /\ ~r.swapped /\ r.token = Boot /\ r.swap = 0
               /\ sock[<<c, 1>>].phase \in {"dialing", "open"}
            \/ r.ws = 2 /\ r.swapped /\ sock[<<c, 1>>].phase = "closing"

WaitsFresh == \A c \in Client : Fresh(c)

\* The request that the client sent on its first socket is under way, or its answer is
Answerable(c) ==
    /\ ~SharesBootstrap(c)
    /\ client[c].ws = 1 /\ ~sock[<<c, 1>>].cut =>
         /\ \A f \in ToSet(toHost) : f.sub = Boot => f.type = "auth-request"
         /\ sock[<<c, 1>>].phase = "open" =>
              /\ <<c, 1>> \in ToSet(memberSockets)
              /\ \/ \E f \in ToSet(toHost) : f.sub = Boot
                 \/ Boot \in virt /\ \E t \in ToSet(issuing) : t.key = Boot
                 \/ \E f \in ToSet(toRelay) : f.target = Boot

\* A joiner that has the bootstrap token to itself gets an answer
WaitsForAnswer ==
    \A c \in Client : client[c].verdict = "waiting" /\ ~client[c].shared => Answerable(c)

CloudInv ==
    /\ CloudTypeOK /\ SocketsInOrder /\ NamesItself /\ HandedOnce /\ OwnIdentity
    /\ AskersHeld /\ SeatIsHeld /\ Informed /\ WaitsFresh /\ WaitsForAnswer
===============================================================================
