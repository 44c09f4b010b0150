# VersionCon in TLA+

VersionCon is a VS Code extension with which a team shares one folder without git: one
member's extension *hosts* a session, the others join it over a WebSocket (directly on the
LAN, or through a relay), push files to branches the host keeps, review each other's
pushes, chat, and see who is editing what. These modules model the parts in which several
actors and several asynchronous steps meet, check them with TLC, and prove with TLAPS what
matters most in them for every number of members, sockets, files and requests. Paths below
are relative to the repository (`src/...` is the extension, `relay/src/...` the relay).

## 1. Inventory

| Part | State it keeps | Operations | What is hard about it | What makes it correct |
|---|---|---|---|---|
| **Host membership** `src/host/SessionHost.ts` | `members` (id, socket, isAlive), `clientIdToMemberId`, `memberIdToClientId`, `hostMemberId`, `memberTracking`, per connection the captured `memberId` and the auth timer | auth-request (reject, dedupe and rebind, new member), pong, close, heartbeat tick, kick, stop | a client owns several sockets at once; their frames, closes and pongs arrive in any order | one seat per client, a member bound to its own live socket, both maps mirror each other, late closes harmless |
| **Presence and roster** `PresenceMap.ts`, host frames, panel in `extension.ts` | `presenceMap`; each client's `members`; each panel's rows | presence-update, snapshot, state-sync, member-joined, member-left | frames sent while a client is away are lost; the UI attaches its listeners late | every roster converges to the host's list; the panel mirrors the host's rows |
| **LAN transport** `LanTransport.ts` | socket states | connect, send, close, terminate, ping | close handshake overlaps other events; writes to a closing socket are dropped | (environment of the above) |
| **Session client** `SessionClient.ts`, `ConnectionState.ts`, `heartbeat.ts` | status, members, first `connect()` promise, `intentionalClose`, reconnect timer, attempts, heartbeat | connect, message, close, reconnect timer, ping, pong timeout, disconnect | timers against sockets against the user | one socket, no dial after leaving, dead host noticed |
| **Session start** `WizardPanel.ts`, `JoinPanel.ts`, their webviews, `extension.ts` | the panels, the state each webview was last sent, starts and joins under way, `activeHost`, `activeClient` | steps, relay test, Start, Back, deep link, Connect, close, end session | awaits against clicks, late verdicts, webviews that are discarded and recreated | what a panel shows is so; no host starts on an untested relay |
| **Review workflow** `SessionHost.ts` 1583-2135, `ReviewStore.ts`, `ReviewState.ts`, `requireReviewGate.ts` | stored reviews, write chain per review, a cache per extension | open, comment, vote, resolve, replay, merge gate | read, await the disk, write back, announce; frames against replays | no lost vote, caches agree, closed is final, the gate never allows an unapproved merge |
| **Invite codes** `AuthHandler.ts` | code, window of attempts per address | check, regenerate | shared addresses, reconnect storms | five attempts a window, nobody else kept out |
| **Chat** `ChatLog.ts`, `ChatPanel.ts`, chat handlers of host and extension | log, a cache per window, panels | say, announce, amend, clear, truncate, replay | records enter the log before they are broadcast; replays meet live frames | who stays misses nothing; amends reach everybody |
| **Push and revert** `PushService.ts`, `PushHistory.ts`, `FileSystemLayer.ts` | branch folder, snapshots, history, staged files | push, revert, partial revert | file by file, crash in between, branch switch in between; files go through utf-8 text; read errors are swallowed | a listed push can be undone; a revert restores |
| **Branches** `BranchManager.ts`, `BranchPermissions.ts` | metadata file, folders | create, switch, merge, import, delete, lock, require review | two files changed in sequence, switches that overlap | records name the branch that was written |
| **Sync tracking** `SyncTracker.ts` | latest and synced push, stale paths | remote push, local push, sync, pull | announcements at every await of a sync, syncs that overlap | what is announced stays listed until a later look has settled it |
| **AST analysis** `AstAnalyzer.ts`, `worker.ts`, `joinImpact.ts` | pending requests, worker process, circuit | analyze, timeout, exit, fork | answers of a killed worker; one timer kills for all | every request settles exactly once; importers are told |
| **Cloud transports** `CloudTransport.ts`, `CloudHostTransport.ts` | socket, token, `swapInProgress`; virtual connections | connect, token swap, demultiplex | late closes of a replaced socket, awaits inside authentication | a join ends seated or refused, a seat has a connection |
| **Relay** `SessionRegistry.ts`, `server.ts`, `router.ts` | session: host socket, member sockets, grace timer | register, attach, detach, route, reap | verification awaits, several sockets per id, host drops | a frame reaches the socket its id is attached to; no departure goes unheard |
| **Token service, MCP, discovery, storage, comparison, views** | little or none | queries, I/O | no concurrency of their own | (not modelled) |

How they interact: a client's `SessionClient` talks frames to the host's `SessionHost`
over a transport; both are event emitters the extension listens to; the extension keeps
the caches (`ReviewState`, chat records, panel rows, `SyncTracker`) and calls back into host
or client. Everything runs on one event loop per process, so a handler is atomic up to its
first `await`; concurrency comes from awaits, timers and the other processes.

The hazards found while reading are listed with their lines in `PROJECT.json`, each with
the properties that would catch it, or a note saying why none does.

## 2. Modules

| Module | Models | Composed of |
|---|---|---|
| `SessionHost` | the host's membership, one action per handler or timer | |
| `Membership` | what a session promises: seats and ids, no sockets | refined by `SessionHost` |
| `LanSession` | host, clients, rosters and presence panels together | extends `SessionHost` |
| `ClientReconnect` | one `SessionClient` in detail | |
| `SessionStart` | wizard, join panel, deep links and the window's two slots | |
| `ReviewWorkflow` | the reviews of one push | |
| `ChatFeed` | log, caches, panels and replays of the chat | |
| `AstAnalyzer` | the analysis worker, its timers and its circuit | |
| `PushFeed` | announcements, activity rows and `SyncTracker` | extends `AstAnalyzer` |
| `JoinImpact`, `JoinImpactCases` | `joinImpact()` as operators; small inputs for TLC | |
| `Workspace` | one window's files, branches, history and commands, with restarts | |
| `CloudJoin` | joiners, relay and host of a cloud session, from the link to the seat | |
| `RelayRegistry` | the relay: upgrades, first frames, sessions, grace timers | |
| `AuthWindow` | the rate limit of authentication attempts | |
| `...Proofs` | theorems (section 4); `SessionHostProofs` has those of `LanSession` and `AuthWindow` too, `PushFeedProofs` those of `JoinImpact`, `CloudProofs` those of `RelayRegistry` and `CloudJoin` | extends the modules and TLAPS |
| `MC...` | constants and symmetry for TLC | |

An operator whose comment begins with *Slip* is a plausible mistake in the definition that
follows it. It is used by no specification; replacing the definition by it makes a
property fail, which shows that the property depends on that code. Type invariants
(`TypeOK`, `ReviewTypeOK`, `CloudTypeOK`, ...) are in the modules; no run spends a property on
them, and each of them is proved, by itself or as a part of an inductive invariant. So are the
other inductive invariants (`IInv`, `RelayInv`, `CloudInv`, ...): TLC was asked about each on a
small instance before its proof was begun, and may be again by adding it to a `.cfg`.

### SessionHost

`ws[m]` is the socket of `members.get(m)` (None when absent); `closureId[c]` is the
variable `memberId` that the handlers of connection `c` captured in `handleConnection`;
`authTimer` the armed ten-second timers; the two maps, `hostMemberId`, the keys of
`presenceMap` and `memberTracking` keep their names. A member id is a UUID minted once
per connection, so the id minted on `c` is written `c`. The environment is `sock` (host's
end), `peer` (client's end), `toHost` (frames in flight) and `pongDue`.

| Action | Code |
|---|---|
| `Open` | `handleConnection`: handlers, timer armed |
| `RejectAuth`, `Rebind`, `Join` | the exits of `handleAuthRequest` on a LAN session |
| `PresenceUpdate`, `TrackedPathsUpdate`, `Pong` | frames and pongs, booked on the captured id |
| `AuthTimeout`, `CloseEvent` | the timer and `onClose` with its ws-identity guard |
| `HeartbeatTick`, `KickMember`, `HostPresence`, `Stop` | timer and calls of the extension |
| `ClientSend`, `PeerDown` | environment |

No LAN path of these handlers awaits before its last write to this state, hence one
action each. The tick is one action since its loop does not yield. `sock[c] = "kicked"`
differs from `"closing"` only for the property about kicks.

### LanSession

Each action of the host is conjoined with the frames that handler writes, in order, to the
sockets that are open at that moment; each client reads its socket in order and keeps
`roster` (a bag: `members.push` does not deduplicate) and `panel`. Adjacent
presence-update frames of one snapshot are one record. `Snapshot` is the presence snapshot.
Clients in `Listeners` run the extension, whose listeners appear (`Wire`) some time after
`connect()` resolved, because `JoinPanel` awaits two stores in between.

### ClientReconnect

`firstConnect` is the promise of the first `connect()`: the handlers are installed once
and close over it, so a redial's own promise settles only if its socket never opens. A
pending redial is `timer`; `failed` and `left` are history variables for the properties.
The host's part is reduced to what it may do to one connection (external). A heartbeat is
`idle` or `waiting` (pong timeout armed). A socket name is reused after its close was
reported, so two names are enough to state that there are never two sockets.

### ReviewWorkflow

`store` is the map's entry for the push (one review per push id); `writes` are the
`upsertRequest()` calls that await the disk; `chain[r]` the mutations queued by
`enqueueReviewWrite`. The parent is read when a mutation's turn comes, the store changes
when the write settles, and the announcement follows in the same turn of the event loop.
`OpenReview` does not use the chain, as in the code. The extension asks for a second
review only through a question raised when it knew of none, but such a question may be
answered at any later time, hence no guard. `cache[v]` is `ReviewState` of each extension,
`Applied` its five `apply...` methods, `Senders` and `MayOpen` who may ask for what, `Echo` what the
host's own extension hears. A review frame is replayed on a rebind as in
`sendReviewStateSyncToMember`.

### RelayRegistry

`ready[c]` is the upgrade and then `readyState` of a socket, `claims[c]` what
`verifyClient` stashed on the request (`pending` for a new host, whose token only the
first frame can check), `first[c]` the pair `firstFrameHandled`, `firstFrameSettled`,
`attached[c]` the handlers' `attachedSessionId`. `registered`, `host`, `hostId`, `members`
and `grace` are the fields of `Session`, kept per session id; the member list and
`memberSocketIds` always change together and are one set of sockets. Whether a token is
good is a choice. `heard[c][m]` is a history variable: the last the relay sent to socket
`c` about member `m`, reset when the socket is gone.

| Action | Code |
|---|---|
| `Upgrade`, `Verified` | `verifyClient`, before and after its await |
| `BadFirstFrame`, `SessionRegister`, `BootstrapSettles`, `MemberAttaches` | the exits of `handleFirstFrame`, before and after its await |
| `MemberFrame` | `handleSubsequentFrame` and `route()` of a member |
| `CloseEvent` | `ws.on('close')`: `member-left` first, then `detach()` |
| `GraceExpires`, `IdleReap`, `Shutdown` | timers, `close()` |
| `SocketCloses` | a socket begins to close, by either side |

### SessionStart

Every panel is a webview of its own: `wizard[p].shown` and `form[p].shown` are what it was
last sent, and the buttons it offers (`OffersNext`, `OffersStart`, ...) follow what is shown,
while the handlers go by what is stored. `job[j]` is one call of `handleWizardComplete` or
`handleJoinConnect` at one of its awaits; `serving` and `connected` are hosts that listen
and clients that hold a seat, whether or not the window knows of them in `activeHost` and
`activeClient`. Nothing in the code stops a second Start or Connect while the first is under
way, so nothing does here.

| Action | Code |
|---|---|
| `HostCommand`, `WizardOpens`, `WizardNext`, `WizardBack`, `SetMode`, `EditUrl`, `Test`, `TestResult`, `RevisitWizard`, `CloseWizard` | `WizardPanel` and `wizard.js` |
| `Start`, `Created`, `Bound`, `StartFails`, `HostReady`, `HostUnheard` | `handleWizardComplete`, await by await; `HostUnheard` is the state update that throws because the panel was closed |
| `JoinCommand`, `OpenLink`, `WebviewReady`, `HideForm`, `CloseForm` | `JoinPanel`, `join.js` and the URI handler |
| `Connect`, `Joined`, `JoinFails`, `ClientReady` | `handleJoinConnect`, await by await |
| `HostEnded`, `Disconnect`, `ClientEnds` | the ends of a session in `extension.ts` |

### ChatFeed

`log` is `ChatLog.records`; `jobs` are the log operations whose write is awaited, each with
what follows it (broadcast, amend, `chat-cleared`, `chat-truncated`). A message of a member
is broadcast after its write, a system event at once. `cache[w]` is `clientChatRecords` of
each window and `panel[w]` its chat panel, which drops what it is sent until its page is
ready. `client[m]` is the window's `SessionClient`: a join through `JoinPanel` makes a *new* one,
which is *wired* to the window's handlers some awaits after it is seated (`Wire`); what it
reads before is dropped by `emit()` (`Unheard`), the replay as a rule. A reconnect keeps the
client, and so its listeners. When the ladder gives up or the member is kicked (`Ended`), the
client is gone and the cache stays, for a later join to meet; the sidebar's disconnect (`Left`)
empties it. `owed[m]` is a history variable: the records in m's replay or logged since, but for
those that came before the listeners.

### AstAnalyzer and PushFeed

A request ends by the worker's answer, its exit, or its timer, which kills the worker that
is installed at that time; `Strikes` failures in a row keep the worker out of use until
`Cooled`. `PushFeed` puts the analysis between a push's announcement and its amend. A
push's chat event is linked to the activity row its announcement made, and the amend finds
that row through the event. The list keeps the `RingCap` newest rows: `age[m][x]` is the place
of a push's row from its end, and reverts age it too. `client[m]` is as in `ChatFeed`.

`tracker[m]` is `SyncTracker`. `sync[m][r]` is run r of `versioncon.sync`: the files it has still
to visit of the list it took when it began, and the file it waits for. `BeginSync` and `VisitPath`
go from one `await` to the next (`Proceed`): what the run has waited for is settled or left,
files that are gone from the branch are settled as they are met, and the next wait, or the end
(`AtEnd`), follows. Announcements, also of the very file that a run waits for, and other runs
come between. A run fails with a rejected read or copy (`SyncFails`). `due` (what was announced
when no sync waited for it), `failed` and `owed` are history variables.

### JoinImpact

`Changes` is `diffArray()` over the five kinds of symbols, `Callers` the join with the
members' references, `PerMember` what a member is told. Names
are sequences of segments, paths the segments between a leading `./` and the extension.
What an import *means* is stated apart from the code (`Folder`, `Imports`: resolved from the
importing file's own folder, to a file or the index of a folder); `ImportersAreTold` compares
the two. `JoinImpactCases` holds `JoinImpactCorrect`, an assumption that TLC evaluates on small
inputs before the run `pushes`: what the operators yield is compared with a reference definition.

### Workspace

`dir[b]` is the folder of branch b, `active` the active-branch file, `saved` the two JSON
files, `snap[x]` the snapshots of push x, `ws` the workspace and `mem` what the window
holds in memory. A command is a job: what it has read stays in it over its awaits, and up to
`MaxJobs` jobs interleave, switches among them. `BeginPush` comes after the questions to the
user, so it may find another branch than the one `AskPush` checked the right for.

A file is copied byte by byte, but read and put away as utf-8 text: `Decoded` is what is left of
a content, the content itself only if it is in `Text`. Any file operation may be rejected. A
push takes a read that is rejected for a new or a deleted file (`ReadFile`, remembered in
`misread`), a revert skips a file whose unlinking or snapshot fails (`SkipFile`, `missed`), a copy
or a write leaves its file cut short or missing (`WriteFails`), a history that is being written may
be lost (`HistoryFails`), the branch metadata be old or cut short (`SaveBranches`), an active-branch
file that cannot be read is taken for main (`ActiveRead`), and otherwise the command ends
(`Fail`, which stands also for a user who gives up). `Restart` closes the window in any state and
loads what is on disk. `before[x]`, `alone` and `crossed` are history variables: the branch as push
x found it, the pushes to whose branch nobody else has written since, and whether two switches
have overlapped or the active-branch file could not be read.

| Action | Code |
|---|---|
| `Edit`, `AddNewFile`, `AddToWorkspace`, `Pull`, `Stage` | the user, and commands of one write |
| `AskPush`, `BeginPush`, `ReadFile`, `CopyFile`, `AddRecord`, `BeginWrite`, `Saved` | `versioncon.push`, `executePush()`, `PushHistory.save()` |
| `BeginRevert`, `RevertFile`, `SkipFile`, `MarkReverted` | `revertPush()`, `revertFiles()` |
| `SwitchBranch`, `ShowBranch`, `CreateBranch`, `MergeBranch`, `CopyAcross`, `Copied`, `ImportBranch`, `Imported`, `DeleteBranch`, `Deleted` | `BranchManager` and its commands |
| `Fail`, `WriteFails`, `HistoryFails`, `Restart` | a rejected operation, or the window closed, in any of them |

### CloudJoin

A joiner dials with the bootstrap token that all links of a session share, asks, is handed
a member id with a token of its own, swaps sockets and asks again. `sock[s]` is a socket at
the client, `memberSockets` the relay's, in the order in which it looks for a
receiver, `virt` the host's virtual connections, `seats` its members, `issuing` the
auth-requests that await their token. Connections are cut, dials fail and requests are
refused, each kind once (`MaxFaults` of them), and each end notices in its own time. The
host stays connected; its own loss is in `RelayRegistry`. Of a virtual connection the
host's heartbeat, which would evict it after two unanswered ticks (`SessionHost.ts:2583-2599`), its
authentication timer (`SessionHost.ts:515-526`) and kicks are left out: `HostReadsLeft` is the only
way in which the host loses a joiner here. `SessionHost` has all three, on LAN sockets. `RosterComplete` speaks of members
that have not left: a ghost that a stray timer seats again (section 6) has nobody to read its
roster. The names differ from those of `RelayRegistry` (`CloudInit`, `SocketClosed`, `Request`)
because one module proves about both.

| Action | Code |
|---|---|
| `Join`, `Opened`, `DialFails`, `Lose`, `SocketClosed`, `Redial`, `Disconnect`, `HandleMessage` (`Accepted`, `SwapToken`) | `CloudTransport`, `ReconnectManager`, `SessionClient` |
| `RelayRoutes`, `RelayNotices` | `router.ts`, the close handler of `server.ts` |
| `HostReadsLeft`, `RejectAuth`, `AcceptAuth`, `Issued` | `CloudHostTransport`, the awaiting branches of `handleAuthRequest` |

### AuthWindow

`checkRateLimit()` as it is: expired entries are cleaned first (`Live`), an attempt is let
through and counted (`Allow`) or refused and not counted (`Refuse`), and time is a natural
number that only grows (`Pass`; the clock is not set back). `granted` is a history variable. Module
`SessionHost` keeps the refusal a choice, so it holds for every window.

## 3. Runs

The first eleven runs pass; in the last TLC finds a violation, described in section 6.

| Run | Checks | Bounds | Shows |
|---|---|---|---|
| `lan` | `ClientIdMapsAgree`, `BoundToOwnSocket`, `OneSeatPerClient`, `LiveMemberKept`, `ImplementsMembership`, `RosterConverges`, `NothingBeforeWelcome` | 3 connections, 2 clients | host and clients together, in every interleaving of joins, reconnects, late closes, kicks and stop |
| `lan_presence` | `SnapshotRestoresPanel` | 2 connections, one client listens, 1 report | presence panels after a reconnect |
| `host_liveness` | `DeadPeerEvicted`, `UnauthenticatedClosed` | 2 connections, 2 clients, one with the host's secret | timers clean up |
| `client` | `OneSocket`, `LeftForGood`, `HeartbeatFollowsSocket`, `DeadHostNoticed` | the code's ten attempts | the reconnect ladder and the client's heartbeat |
| `relay` | `GraceIffNoHost`, `NoneCutOff`, `MembersLive`, `HostIsOwner`, `NoneLeavesUnheard`, `WithinCaps` | 4 sockets, 2 session ids, 2 subjects, 1 session and 2 members at most | slots, timers and places of the relay's sessions |
| `cloud` | `SeatIsHeld`, `OwnIdentity`, `RosterComplete`, `NobodyLeftWaiting` | 2 joiners, 3 sockets each, any 2 kinds of fault | joins over the relay while tokens are swapped and connections lost |
| `start` | `ShareScreenIsLive`, `NoUntestedStart`, `ConfirmedLinkShown`, `OverlayHasJoin` | 2 panels, 2 starts or joins, 2 links, 2 tests | panels against awaits |
| `review` | `CachesAgree`, `CapHolds`, `ChainDrains` | 2 reviews of a push, a member and the host, 2 requests, cap 1 | votes, comments, resolutions, failing writes, returns, the write chain |
| `chat` | `NothingMissed`, `AmendsReachMembers` | a member that joins twice, 1 message, 2 announcements, 1 analysis, 1 prune, replay of 2 | replay against live frames, listeners that come late, a cache kept from a former session |
| `pushes` | `RowsFollowPushes`, `ArrivalsSurviveSync`, `SettledMayStage`, `AnalysesEnd` | 2 pushes that share a file, a list of 2 rows, 1 sync at a time, 3 joins, reverts, own pushes and failed syncs in all, 2 strikes | rows, sync and analyses; `JoinImpactCorrect` before it |
| `workspace` | `ListedPushesUndoable`, `RecordsNameTheirBranch`, `RevertRestores` | 1 file, 3 contents of which 2 are text, 2 branches, 1 push, 2 commands at once and 4 in all, 1 edit, 1 rejected operation or restart | commands that interleave, fail and are cut short |
| `revert_wrong_branch` | `RevertRestoresItsBranch` | 1 command at once, 2 edits | the finding of section 6 |

Why the bounds are enough. The subtle cases of the membership need a superseded socket, its
successor and a bystander: three connections for two clients give a client two
generations while the other is seated, or one client three. `MaxData` bounds frames that only
add a key to a set; one lets a late frame outlive its member. At the relay a host, its
successor and two members (or two sockets of one member) need four sockets; a cap below the
number of session ids lets two new hosts race for the last session, and one id torn down be
registered again while sockets of its former life still close. A cloud join takes two
sockets, the third is a redial; two joiners give each other answers meant for the other, and
two faults a cut during the recovery from another. In a window, two of each kind are a
panel and its successor, a start that overlaps another, a link that replaces another. Two
review requests and a cap of one let two comments race at the cap, a vote wait behind a
resolution, or either meet a second review being opened. In the chat a member that
returns has a past and a present, and a replay of two is shorter than a log can get. Two
analyses are the one whose timer fires and the one whose worker it kills. Two pushes that
share a file let it be announced again while a sync waits for it or has passed it, and the other
file be left over; three entries fill a list of two. Syncs that overlap one another make the run
too long for TLC (it grows past ten million states); they are covered by the proofs, where the
runs of the command are any set. In the workspace the hazards are
between two commands on one file of one branch, with the other branch to switch to (two
switches among them, and with four commands a push and a revert besides); more
files only repeat the steps of one, and the proofs cover any number. The ten attempts are the
code's own. Symmetry is used where the values are interchangeable in every property, and
never in a run with a liveness property. `CHECK_DEADLOCK FALSE` everywhere: every instance
bounds its sockets, requests or edits, and a session may simply end.

Fairness. Node's timers fire, so the heartbeat tick, the authentication timeout, the
client's ping timer and pong timeout and the timer of an analysis are weakly fair; a socket
that is closing or terminated reports its close (`ws` bounds the handshake by thirty
seconds); file system calls settle, and a promise chain continues. Nothing is assumed of the
network, the peer, the worker, the user or the order of anything.

## 4. Proofs

Every safety invariant and action property of a passing run is proved here for all values of
the constants (`RosterConverges` for a session without a loopback client), and so is the
refinement of the host.

`SessionHostProofs` proves for every set of sockets, clients and loopback clients:

* `Invariance`: `Spec => []IInv`, and from it `TypeCorrect`, `MapsAgree`,
  `BoundCorrectly`, `OneSeat`;
* `LiveKept`: the action property that a member only leaves with the socket it is bound
  to, or with the session;
* `Refinement`: the host implements `Membership`, with the seat of a client read off
  the maps and the issued ids off the captured ones.

The only assumption is `ConstantsOK` (names are distinct). The safety properties are not
inductive alone: that a rebind or a join preserves `BoundToOwnSocket` needs to know that no
socket authenticates twice (`AuthFirst`: an auth-request is first in its queue and its
connection has no id), that a fresh id is unknown everywhere (`Minted`, `MintedMapping`:
ids in use were minted on some connection, for its client) and that an unused socket
is blank (`UnusedIsBlank`). `IInv` is their conjunction with the three properties. The proof
has a lemma per action; `Removal` and `MemberFacts` carry what `removeMember` does to both
maps and are used by close, tick and kick alike. `OneSeat` follows because both maps mirror
each other: two members of one client would be the same entry of `clientIdToMemberId`.
`Refinement` shows that `Join` takes a seat, a removal or stop loses seats and that every
other step stutters.

Of `LanSession` it proves `LanInvariance` (`LanSpec => []LanInv`) and from it:

* `WelcomeComesFirst` (`NothingBeforeWelcome`), `PanelRestored` (`SnapshotRestoresPanel`);
* `RostersConverge` (`RosterConverges`), for a session without a loopback client. With one
  the property is false: `handleAuthRequest` moves the host's row from the id it was given to
  the id of the loopback client, which is announced as one more member, so whoever was in the
  session before keeps the former row as well;
* `HostSafeInSession`, `LiveKeptInSession` and `SessionRefinement`: what was proved of the host
  alone holds of it in a session. Each step of a session is a step of `SessionHost` for the
  host's variables, except `Wire`, in which a client only starts to listen (`SessionStep`).

`LanInv` adds to `IInv` that a client has one socket that is up (`OneLive`), and that while it
waits for its verdict this one carries nothing, or the verdict first (`Waits`). `Knows` says what
is to be proved of the rosters and panels: what a client has, once it has read the frames on
their way, is the host's list. It is a recursive function over the queue
(`CaughtUp`); it is unfolded at the front when a frame is read and at the back when one is sent,
by lemmas that rest on the library's theorem that such a function exists, so the rest of the
proof never looks inside a queue.

`ClientReconnectProofs` proves for every set of socket names and every `MaxAttempts`:

* `Invariance`: `Spec => []ReconnectInv`, and from it `TypeCorrect`, `NeverTwoSockets`,
  `StaysAway` and `Watched`.

The only assumption is `ReconnectConstants`. None of the properties is inductive
alone. That a redial finds no live socket needs to know that a timer is only set when the
last one is gone (`LadderBounded`); that a late `accepted` cannot revive a client that left
needs `FramesInFlight` (a verdict comes once, nothing follows a kick) and `LeavingCloses`
(leaving closes the socket intentionally, and only `abort()` leaves a dial in flight);
that the first `connect()` cannot be settled by a redial needs `FirstConnectFirst`;
that closing `ws` closes the dial in flight needs `ConnectingIsCurrent`. The proof has a
lemma per action, with the conjuncts of the invariant as its steps; `TransportCloseFacts` and
`GoneFacts` say what closing and losing a socket do, `QueueFacts` and `Appended` what the
queues of frames can hold.

`CloudProofs` proves of `RelayRegistry`, for every set of sockets, session ids and subjects and for
every value of the two caps:

* `Invariance`: `Spec => []RelayInv`, and from it `TypeCorrect`, `GraceCorrect`,
  `NobodyCutOff`, `PlacesFreed`, `OwnerKeepsSlot`, `DeparturesHeard`;
* `CapsHold`, from `Counted`: what is counted is finite and within its cap.

The only assumption is `RelayConstants`. The properties need two strengthenings.
`Handshake` says that a socket is attached only after its first frame has settled, and has
heard nothing before; so a socket that registers is new to every session. `PlacesAttached`
says that a place is held only by a socket that is attached to that session, in its own
role; so the close event of a socket can touch its own session only, a host's close never
removes a member, and tearing a session down reaches every socket attached to it.
`NoneLeavesUnheard` rests on the order in the close handler (`DepartureFacts`: looked up
before it is forgotten) and on a host that takes the slot having heard nothing. There is a
lemma per action; `RegisterStep` and `RefusedStep` are shared by the two ways into
`register()`, `CloseSessionsStep` by expiry, reaper and shutdown.

Of `CloudJoin` it proves, for any number of joiners, any number of sockets for each and any
budget of faults, `CloudInvariance` (`CloudSpec => []CloudInv`), and from it all four
properties of the run. The only assumption is `CloudConstants`. The parts of `CloudInv` are in
`CloudJoin` itself:

* `Identities` (`OwnIdentity`): an id is made up once, for one request, and travels from the
  request to one frame to one client. `NamesItself` says that a client, its sockets, its
  seat and the frames from it all name the client's own token; `HandedOnce` that an id still on
  its way to a joiner has no holder, and is on its way only once.
* `SeatsAreHeld` (`SeatIsHeld`) needs `AskersHeld`: whoever asks for a seat is attached, or the
  notice of its departure is behind the request in the same queue and will take the seat away.
  This is where the order of the relay's one queue to the host is used.
* `RostersComplete` (`RosterComplete`): at rest nothing tells why a roster is complete, so
  `Informed` says it of every state. Of a member whose seat is not in doubt (`Doubtful`: one of its
  sockets is gone, or the host is about to hear so) it says that its welcome is still to be
  written or that it knows everybody, or will when it has read its frames (`WillKnow`: a frame
  that brings the other one, and none after it that takes it away).
* `NobodyWaits` (`NobodyLeftWaiting`): while `connect()` waits nothing has failed (`Fresh`), and of a
  joiner that has the bootstrap token to itself the request or the answer is somewhere on the
  way (`Answerable`). What others do does not touch either unless they hold the bootstrap token
  as well, which is what `shared` remembers.

`ReviewWorkflowProofs` proves for every number of members, reviews and requests, and every
cap:

* `Invariance`: `Spec => []ReviewInv`, and from it `Agreement` (`CachesAgree`) and `Cap`
  (`CapHolds`).

`CachesAgree` says that the frames a member has yet to read turn what it knows into what is
stored; it is stated with a recursive function over the queue. The invariant says the same
without recursion: there is a course of states from the one to the other (`Reaches`), which
a frame that is sent extends (`CourseAppend`) and a frame that is read shortens
(`CourseTail`); that there is only one such course (`CourseUnique`, by the least place at
which two would differ) makes it the one the function computes (`CourseEnds`). That an announcement
fits the store it meets needs `OneWriter`: while one review was asked for, writes come one at
a time, and what a write stores is what its frame makes of the store (`MutationEffect`).

`PushFeedProofs` proves for every number of members and pushes `RowsFollow`
(`RowsFollowPushes`), `Arrivals` (`ArrivalsSurviveSync`), `MayStageAgain`
(`SettledMayStage`) and `OpenPromisesArePending`: an analysis is unanswered exactly while it is
pending, so it has a timer and is settled once. Members, files, pushes, overlapping runs of the
sync command and the length of the list are arbitrary; the assumptions are that a push touches
some files (`FilesAssumption`), that the list keeps a row (`RingAssumption`) and
`StrikesAssumption`. The argument of `RowsFollow` is about the order of the frames on the way to a
member (`Trails`): what its row still lacks is in the channel, announcement before event before
amend, as long as the list has the row or will have it (`Trail`), and an announcement comes
once and before its row (`Announced`, `ComesOnce`), so no second row is ever linked. `Arrivals` and
`MayStageAgain` are inductive with the types; `ProceedFacts` says what a run may do to tracker and
`due` between two waits, and is used by `BeginSync` and `VisitPath` alike.

It also proves of `joinImpact()`, for all versions and references, that nothing is
attributed to a file that does not import the changed symbol or its class
(`NoImportNoAttribution`), that a member is told for each of its files at the top of the branch that
imports it in the sense of the language (`NoImporterMissed`: an import resolved from the
file's own folder agrees with the comparison `pathMatches()` makes, which `TopImportsMatch` shows
and which fails in a folder), and that listing a symbol once per member drops none of its callers
(`RegroupingLosesNothing`).

`WorkspaceProofs` proves for any number of files, contents, branches, pushes, commands at once,
rejected operations and restarts `RecordsAreNamed` (`RecordsNameTheirBranch`) and
`PushesAreUndoable` (`ListedPushesUndoable`). The assumptions are `WorkspaceConstants` and
`NoneAssumption` (what is absent differs from what may be there). `RecordsAreNamed` follows from
`Pairs`: until two switches overlap, the window's directory and name, the active-branch file once no
switch is under way, and every push that took them agree. The invariant `Undo` of the latter says of a push in progress that
it has put away what it has read (`PutAway`) and that the branch still holds the rest as the
push found it, unless somebody else has written there (`PushInv`); of a push that was cut
short it says that nothing lists it (`Unlisted`). Every image of the history, in memory, on
disk or on its way there, is covered, which is what a restart needs.

`RevertsRestore` (`RevertRestores`) needs the same of files: what a push did not change, and
nobody else has written since, is as the push had found it. `Back` says so of the listed pushes
(`Untouched`; `Agree`: every image of the history agrees with the window's on what a push
changed), of a push that is still copying (`Pushing`, the file it is at
included), and of a full revert, of the files it has done with and did not skip (`Reverting`;
`Undone`: with the content the push found, or what decoding keeps of it). A revert step
restores a file because the push can be undone (`UndoHolds`, the theorem above), so the two
invariants are proved one after the other.

`SessionStartProofs` proves for any number of panels, links, starts, joins and tests
`Invariance` and `TypeCorrect`, and from it all four properties of the run: `ShareScreens`
(`ShareScreenIsLive`), `StartsAreTested` (`NoUntestedStart`), `LinksAreShown`
(`ConfirmedLinkShown`) and `OverlaysEnd` (`OverlayHasJoin`). The strengthenings are about the two
copies that a panel has of its state, the stored one and the one its webview shows: the shown
step is the stored one or lags behind a share screen (`ShownFollows`), so no click offered by an
old screen skips the test of the relay (`Tested`); a link confirmed while the webview loads
is kept in exactly one place (`LinkKept`).

`ChatFeedProofs` proves for any number of members, messages, announcements, joins and prunes and
every length of the replay `ChatInvariance`, and from it `NothingIsMissed` (`NothingMissed`) and
`AmendsArrive` (`AmendsReachMembers`). The only assumption is `FeedAssumption`. What a
member will have is described without computing it: its *base* is what it has `Heard` over this
connection (its cache, or nothing while it has no listeners), or the history at
the front of its channel that will replace it (`HistoryFirst`), and a record is there if the base
has it or a frame brings it and no clear follows (`Has`). `NothingLost` says that each record a
member is owed is there or about to be broadcast. For the amends three facts about events are
needed: one that is not announced is nowhere (`Unannounced`), one that is, is nowhere twice
(`EventsOnce`; `applyAmend` patches only the first), and if the log has it amended then each
member's copy is, or an amend follows it in the channel (`AmendsComing`). What a window has kept of
an earlier session is not on its way to it again (`KeptOnce`), so a copy that was patched is the
only one; the two invariants are proved together.

Of `AuthWindow`, `SessionHostProofs` proves for every set of addresses and every sequence of attempts `Limit`
(`LimitHolds`: the sixth attempt let through comes more than a window after the first) and
`Refusal` (`RefusedExactly`: an address is kept out exactly while its own last five granted
attempts are a burst). The invariant says that an entry counts the attempts since the last pause
longer than the window. There is no run for it: the window is measured in milliseconds and time has
no bound; on a scaled down window TLC agrees.

Only model-checked: `DeadPeerEvicted`, `UnauthenticatedClosed`, `DeadHostNoticed`, `ChainDrains`
and `AnalysesEnd` (liveness under fairness and ENABLED are outside the prover's reach);
`JoinImpactCorrect`, which compares `joinImpact()` with a reference definition over bounded
inputs.

## 5. Not modelled

The token service and TLS are cryptography: the models take their verdicts as choices. mDNS
discovery, bandwidth counters, the MCP server's queries and its file of running servers, the
editor's secret and history stores, git and the views that only draw what is modelled
elsewhere hold no shared state of their own.

Within the modelled parts:

* **Host and clients**: frames are reduced to their kind and whom they are about; the
  comparison and regeneration of invite codes, TLS pinning and byte accounting are left out.
* **Session start**: the texts of fields and errors, settings, copy buttons, recent
  sessions, quick connect, the advertisement on the network, and deactivation.
* **Reviews**: one push on one branch; the store's file, its reloading and a branch switch
  under a pending write; the comment rate window is a choice (a comment may be dropped).
* **Chat**: the log's file and its switch with the branch, unread counts, a window's own
  clearing of its view, export.
* **Chat and pushes**: a window has one `SessionClient` at a time (`SessionStart` has two joins at
  once); the ladder's redial itself is in `ClientReconnect`.
* **Pushes**: what a sync finds in a file is a choice. `RingCap` stands for the list's 200 rows, and
  rows of created branches, which age the list as reverts do, are left out.
  `AstAnalyzer.dispose()` is left out, and what tree-sitter and the adapters read out of a
  file is given.
* **Workspace**: `BranchPermissions` is a constant (`Writable`): locking, requiring reviews
  and editing permissions are no actions, and neither is the export to a git remote.
  A write takes effect at one moment, with its begin and end a step each only for the history; the
  active-branch file is written whole or not at all; a directory is removed in one step, and
  `WorkspaceDiffer` sees the files of one moment. A copy into the workspace that fails is an `Edit`.
* **Cloud**: the heartbeat, authentication timer and kick of a virtual connection
  (`SessionHost.ts:515-526`, `2583-2599`); the host's own loss of its socket (only at the relay, where its frames to its
  members change nothing), the failure of a token's signing, the relay's limit of connections
  per address, and frames lost between a socket's opening and its attachment.

## 6. Where code and documentation disagree

| Run | The repository says | The code |
|---|---|---|
| `revert_wrong_branch` | "Files will be restored to their pre-push state" (`extension.ts:2643`) | `revertPush()` (`PushService.ts:166`) restores into the branch that is shown when it runs, whichever the push was made to |

These were met while modelling and follow from the modules. Where a definition is
named, it states what the repository says and TLC finds it violated, though no run is kept for it.

Membership and presence:

* "The close event handler will call removeMember" (`SessionHost.ts:1300`): not if the kicked
  client has reconnected on another socket first (`KickedMemberRemoved`).
* "close all connections" (`SessionHost.ts:471`): connections not yet authenticated stay
  open and may join a stopped session (`NoMemberAfterStop`).
* A plan (260530-np7) says the presence panel "mirrors the session roster"; a client that
  reconnects only adds the rows of the snapshot, so a member that left while it was away
  keeps its row (`PanelHasNoGhost` in `LanSession`).
* `PresenceMap.ts:7` says rows are "Cleared on member-left"; a presence-update still unread
  on a superseded socket puts the row of a departed member back (`PresenceUpdate` does not
  ask whether the captured id is seated, nor does the code).
* `SessionHost.ts:2650` says the host is "intentionally NOT stored in this.members"; the
  loopback connection of its own extension is stored (`Join`), so `getMembersList` lists it twice.
* `SessionHost.ts:2334` says the snapshot arrives "so the joiner's panel is fully
  populated"; on a first join its frames come before the extension listens (`Wire`).
* An attempt made exactly when the refusal's `retryAfterMs` is over is refused again, with
  "Try again in 0 seconds": `checkRateLimit()` asks for strictly more than the window.

Client:

* "reconnecting --[fail]-----> disconnected" (`ConnectionState.ts:23`): a redial whose
  socket opens and closes before the verdict leaves the client reconnecting for ever
  (`ReconnectingIsActive`).
* `client.test.ts:37` says the ladder "should reset attempts on success"; a redial that
  succeeds settles no promise, so the attempts of all outages add up
  (`GivesUpAfterAllAttempts`).
* `SessionClient.ts:706` says disconnecting means to "transition to disconnected"; an
  auth-response still unread on the closing socket makes the client connected again.
* `extension.ts:1697` says the banners "follow the live state"; the first one is set
  blindly after two awaits (`Wire` in `ClientReconnect`), also for a client that was
  dropped meanwhile.

Session start:

* "Editing the URL field invalidates any prior test-connection result"
  (`WizardPanel.ts`, at the handler): a verdict on the former URL that is still on its way
  marks the edited one as reachable (`TestResult`). `NoUntestedStart` therefore speaks of
  some test that succeeded since the last edit, not of a test of this URL.
* "session should keep running" when the wizard is closed: closing it while the host starts
  makes the state update throw before the callback (`HostUnheard`), so the host serves and
  the extension never learns of it.
* "Session start failed -- show error, do NOT advance step": when the invite code cannot be
  stored the step has advanced already, and the host runs unknown (`StartFails`). A
  join whose save fails leaves a seated client unknown in the same way (`JoinFails`).
* Nothing guards a second Start: the second host replaces `this.sessionHost`, the first
  one's callback hands that one to the extension, and the first runs on unknown. Hosting or
  joining while in a session replaces `activeHost` or `activeClient` likewise.
* Two calls of the host command that overlap at the port search open two wizards, and
  closing either empties the slot (`WizardOpens`, `CloseWizard`).

Reviews:

* "resolved ≠ approved" (`requireReviewGate.ts:71`): the abandonment of a superseded review
  is never announced, so its approval counts again once the newer one is closed
  (`ClosedReviewBlocksMerge`).
* `ReviewState.ts:82` says closed reviews "are immutable"; `processReviewOpened` abandons
  the former review outside its chain, so a vote being written revives it.
* `SessionHost.ts:1573` says handlers do not "drop each other's writes"; two openings of
  one push are not serialized and the store has one slot for both.

Chat and pushes:

* "Single host event-loop serialization makes this safe under concurrent appends"
  (`ChatLog.ts:41`): `save()` awaits, so two whole-file writes may overlap.
* A member's message is not shown in the host's own window until its chat is opened anew;
  a joiner may see a message twice, from the replay and from the broadcast that follows the write;
  records broadcast between a clear and its `chat-cleared` are dropped by the members though the
  log has them.
* "After a remote push is observed, the tracker is 'out of sync' until onSync() is called"
  (`SyncTracker.ts:12`): a push of the member's own, or a revert under the id it synced last,
  makes it in sync with files still listed (`OwnPush`, `HostRevert`).
* "the cache is still primed for next open" (`extension.ts:1926`) and "The next session reseeds via
  chat-history" (`extension.ts:2045`): on a join through `JoinPanel` the replay is sent right after
  the seat (`SessionHost.ts:1216`) and dropped, since `wireClientEvents()` attaches its listeners two
  awaits after `connect()` (`JoinPanel.ts:480-499`) and `emit()` keeps nothing
  (`SessionClient.ts:162`); pushes that arrive in between give no row and no mark (`Unheard`). A
  window whose session had ended without its user's doing goes on showing what it kept of that
  session, amended since or not (`Ended`).
* `versioncon.sync` clears the mark of a file once it has compared or copied it
  (`extension.ts:3688`, `3699`, `3720`), also where the file was announced again since it was looked
  up, and then acknowledges the later push without its content having been taken (`VisitPath`).
* A sync that fails may leave the list empty and the tracker out of sync, so staging stays blocked
  until the command is run once more (`SyncFails`; `SettledMayStage` excepts it).
* `SyncTracker.ts:14` and `extension.ts:1714` say a reconnect seeds the tracker with missed
  pushes; the client never emits the event the extension listens for (`Join` leaves the
  tracker alone).
* `joinImpact.ts` says a missed attribution "is the dangerous direction"; `pathMatches()`
  compares the import as written with the path from the branch root, so an import by a
  relative path matches only between files at the root (`PathMatches`).

Workspace:

* An import into a branch name whose folder exists though no branch is listed for it removes
  that folder when it fails (`Imported`).
* A push with nothing staged takes the files the workspace lacks as deleted (`AskPush`).
* "new file" and "deleted file" (`PushService.ts:108`, `113`) are said of every read that is rejected,
  for whatever reason: the push then puts nothing away, and reverting it removes the file (`ReadFile`).
* Snapshots are "the branch version before it was overwritten" (`PushHistory.ts:74`) as text only:
  contents that are not utf-8 come back garbled (`Snapshot`, `Decoded`).
* "already gone" (`PushService.ts:175`) and "Returns null if the snapshot doesn't exist"
  (`PushHistory.ts:84`) are said of any error: a revert skips such a file and the push is marked
  reverted, so that no full revert can be tried again (`SkipFile`, `MarkReverted`).
* Two switches that overlap leave the window with the directory of the one and the name of the other
  (`extension.ts:2768-2772`), and its pushes with a record of the wrong branch (`crossed`). The
  same follows from an active-branch file that cannot be read, which is taken for main
  (`BranchManager.ts:59`).
* The right to push is checked before the user is asked for a message (`extension.ts:2499-2512`); the
  branch may be switched meanwhile, and the push goes to the one shown then (`BeginPush`).
* Deleting a branch while a switch to it is under way removes the folder of the branch that
  is shown (`DeleteBranch`, `ShowBranch`).

Relay and cloud:

* The grace period "Gives Wi-Fi blips a chance to recover" (`relay/README.md:116`): a host
  is let back on `session-register`, which `createCloud` sends once
  (`SessionHostFactory.ts:104`) and a redial never does, so `GraceExpires` ends the session.
* `server.ts:660` of the relay tells the host "that this member's WSS has closed so the
  host can immediately remove the member"; when a member has redialled before its old
  socket's close is noticed, the same id is live on the new one and is removed all the same
  (`RelayNotices`, `HostReadsLeft`).
* `SessionRegistry.ts:210` clears the slot of a host that drops and starts its grace timer;
  a new host whose socket closes while its token is verified is registered after its close
  event (`BootstrapSettles` does not look at the socket), so the slot holds a dead socket
  with no timer until the reaper finds the session idle.
* `CloudTransport.ts:461` says an abort cancels every scheduled retry; a redial that fails is
  scheduled by `connect()` and by the ladder, of which only the later timer is remembered,
  so a client dials after leaving (`NoDialAfterLeaving`), or holds two sockets. The host seats
  that ghost again, and what it is sent about later comers may be lost with it.
* The close event of the bootstrap socket settles `connect()` with false in the middle of the
  token swap (`SessionClient.ts:195`): the panel reports a failed authentication though the join
  goes on and is seated.
* Two joiners at once share the subject of the bootstrap token: the answers go to the first
  socket the relay finds, and the virtual connection is closed by the first of them to be
  answered. `NobodyLeftWaiting` makes no promise to a joiner that had to share it (`shared`).
* All joiners of a relay count as one address of the rate limit, and a join takes two of its
  five attempts.

## 7. Plan

What is left, in this order; each with its promise and the theorem worth proving.

1. An abstract specification of a relay session (one host identity, present, awaited or
   gone; members come and go) that `RelayRegistry` refines, and `CloudJoin` with a host that
   loses its socket.
2. Branch switches in `ReviewWorkflow` and `ChatFeed`: both replace their store while a write
   to the former one is awaited.
3. Locks, review requirements and permissions in `Workspace`, with the gate of
   `ReviewWorkflow` before a merge.
4. `ReviewWorkflow` composed with `SessionHost`, for votes of members seated under a new id.
