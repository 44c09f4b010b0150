------------------------------- MODULE PushFeed --------------------------------
(***************************************************************************)
(* What members learn of the host's pushes and reverts: the announcement,     *)
(* the chat event that is linked to the row it made in the activity list, the *)
(* amend of that row when the host's analysis has found something, and the    *)
(* SyncTracker that blocks staging until versioncon.sync has been run          *)
(* (src/src/host/SessionHost.ts, src/src/extension.ts,                        *)
(* src/src/filesystem/SyncTracker.ts, src/src/ui/ActivityLogProvider.ts).     *)
(*                                                                         *)
(* What a window reads before it has its listeners is dropped.  Commands may   *)
(* overlap.  What a sync finds in a file is left out: it settles it or not.   *)
(***************************************************************************)
EXTENDS AstAnalyzer, Sequences

CONSTANTS
    Member,
    File,
    Files,       \* Files[x]: what push x touches
    Run,         \* runs of the sync command that overlap
    RingCap,     \* RING_BUFFER_CAP
    MaxEvents,   \* bound: joins, reverts, pushes of the members' own, and syncs that fail
    None

ASSUME FilesAssumption ==
    /\ Files \in [Request -> (SUBSET File) \ {{}}]
    /\ \A r \in [todo : SUBSET File, at : File] : r # None
ASSUME RingAssumption == RingCap \in Nat \ {0}

VARIABLES
    seated,    \* members of the session
    client,    \* client[m]: the window's SessionClient, "none", "new" or with listeners, "wired"
    chan,      \* chan[m]: frames on their way to m
    row,       \* row[m][x]: the activity entry of push x
    age,       \* age[m][x]: its place from the list's end, 0 before it was added, RingCap + 1
               \* once it has been dropped
    tracker,   \* tracker[m]: SyncTracker
    sync,      \* sync[m][r]: what run r of versioncon.sync has still to visit and the file it
               \* is at, or None
    used,      \* joins, reverts, own pushes and failed syncs so far
    owed,      \* owed[m]: pushes announced since m took its seat, but for those it read too
               \* early (history variable)
    due,       \* due[m]: files announced when no sync was at them, and not settled by one
               \* since (history variable)
    failed     \* members with a sync that failed since the last acknowledgement (history
               \* variable)

ghosts == <<owed, due, failed>>
syncVars == <<tracker, sync>>
rows == <<row, age>>
memberVars == <<seated, client, chan, rows>>
vars == <<memberVars, syncVars, used, ghosts, astVars>>

Reset == [latest |-> None, synced |-> None, paths |-> {}]
Nobody == [m \in Member |-> {}]

Init ==
    /\ seated = {}
    /\ client = [m \in Member |-> "none"]
    /\ chan = [m \in Member |-> <<>>]
    /\ row = [m \in Member |-> [x \in Request |-> "none"]]
    /\ age = [m \in Member |-> [x \in Request |-> 0]]
    /\ tracker = [m \in Member |-> Reset]
    /\ sync = [m \in Member |-> [r \in Run |-> None]]
    /\ used = 0
    /\ owed = Nobody /\ due = Nobody /\ failed = {}
    /\ AstInit

-----------------------------------------------------------------------------
(* The host *)

Frame(type, x, files) == [type |-> type, push |-> x, files |-> files]
Push(x) == Frame("push", x, Files[x])
ChatEvent(x) == Frame("event", x, {})
ChatAmend(x) == Frame("amend", x, {})
Send(frames) == chan' = [m \in Member |-> IF m \in seated THEN chan[m] \o frames ELSE <<>>]

\* Slip: the event overtakes the announcement
HostPushEventFirst(x) ==
    /\ outcome[x] = "none"
    /\ Settle({x}, "asked")
    /\ Send(<<ChatEvent(x), Push(x)>>)
    /\ owed' = [m \in Member |-> IF m \in seated THEN owed[m] \cup {x} ELSE {}]
    /\ UNCHANGED <<seated, client, rows, syncVars, used, due, failed,
                   worker, pending, failures, cooling>>

\* broadcastPush(): the announcement, its event, and then the analysis
HostPush(x) ==
    /\ outcome[x] = "none"
    /\ Settle({x}, "asked")
    /\ Send(<<Push(x), ChatEvent(x)>>)
    /\ owed' = [m \in Member |-> IF m \in seated THEN owed[m] \cup {x} ELSE {}]
    /\ UNCHANGED <<seated, client, rows, syncVars, used, due, failed,
                   worker, pending, failures, cooling>>

\* broadcastRevert(): under the id of the push and with all its files, also where only
\* some were reverted; its chat event is linked to no row
HostRevert(x) ==
    /\ outcome[x] # "none" /\ used < MaxEvents
    /\ used' = used + 1
    /\ Send(<<Frame("reverted", x, Files[x])>>)
    /\ UNCHANGED <<seated, client, rows, syncVars, ghosts, astVars>>

\* runAstAnalysisAndAmend(), with the result
Amend(x) ==
    /\ outcome[x] = "found"
    /\ Settle({x}, "used")
    /\ Send(<<ChatAmend(x)>>)
    /\ UNCHANGED <<seated, client, rows, syncVars, used, ghosts,
                   worker, pending, failures, cooling>>

Analysis ==
    /\ \/ \E x \in Request : Analyze(x) \/ Answer(x) \/ TimedOut(x)
       \/ WorkerExits \/ Cooled
    /\ UNCHANGED <<memberVars, syncVars, used, ghosts>>

-----------------------------------------------------------------------------
(* A member's window *)

InSync(t) == t.latest = None \/ t.latest = t.synced

OnSync(t) == [t EXCEPT !.synced = t.latest, !.paths = {}]

\* onRemotePush() and recordRemoteFiles()
OnRemote(t, x, files) == [t EXCEPT !.latest = x, !.paths = @ \cup files]

\* The files that m's syncs wait for: looked up, and not yet settled or left
Visited(m) == {sync[m][r].at : r \in {r \in Run : sync[m][r] # None}}

Noted(m, x, files) ==
    /\ tracker' = [tracker EXCEPT ![m] = OnRemote(@, x, files)]
    /\ due' = [due EXCEPT ![m] = @ \cup (files \ Visited(m))]

\* An activity entry is added, for the pushes of xs if it is one of theirs; the list keeps
\* the newest
Added(m, xs) ==
    /\ age' = [age EXCEPT ![m] = [y \in Request |->
                 IF y \in xs THEN 1 ELSE IF @[y] \in 1 .. RingCap THEN @[y] + 1 ELSE @[y]]]
    /\ row' = [row EXCEPT ![m] = [y \in Request |->
                 IF y \in xs THEN "added" ELSE IF age'[m][y] > RingCap THEN "none" ELSE @[y]]]

\* An activity entry that is as expected changes
Row(m, x, from, to) ==
    /\ row' = IF row[m][x] = from THEN [row EXCEPT ![m][x] = to] ELSE row
    /\ UNCHANGED age

Received(m, f) ==
    CASE f.type = "push"     -> Noted(m, f.push, f.files) /\ Added(m, {f.push})
      [] f.type = "reverted" -> Noted(m, f.push, f.files) /\ Added(m, {})
      [] f.type = "event"    -> Row(m, f.push, "added", "linked")
                                /\ UNCHANGED <<tracker, due>>
      [] f.type = "amend"    -> Row(m, f.push, "linked", "amended")
                                /\ UNCHANGED <<tracker, due>>

\* emit() without listeners
Unheard(m, f) ==
    /\ owed' = [owed EXCEPT ![m] = IF f.type = "push" THEN @ \ {f.push} ELSE @]
    /\ UNCHANGED <<rows, tracker, due>>

Deliver(m) ==
    /\ chan[m] # <<>>
    /\ IF client[m] = "wired" THEN Received(m, Head(chan[m])) /\ UNCHANGED owed
       ELSE Unheard(m, Head(chan[m]))
    /\ chan' = [chan EXCEPT ![m] = Tail(@)]
    /\ UNCHANGED <<seated, client, sync, used, failed, astVars>>

\* The ladder seats the client that is there; JoinPanel makes a new one
Join(m) ==
    /\ m \notin seated /\ used < MaxEvents
    /\ used' = used + 1
    /\ seated' = seated \cup {m}
    /\ client' = [client EXCEPT ![m] = IF @ = "none" THEN "new" ELSE @]
    /\ UNCHANGED <<chan, rows, syncVars, ghosts, astVars>>

\* wireClientEvents(), once connect() has returned and the session is saved as a recent one
Wire(m) ==
    /\ client[m] = "new"
    /\ client' = [client EXCEPT ![m] = "wired"]
    /\ UNCHANGED <<seated, chan, rows, syncVars, used, ghosts, astVars>>

Gone(m) ==
    /\ seated' = seated \ {m}
    /\ chan' = [chan EXCEPT ![m] = <<>>]
    /\ owed' = [owed EXCEPT ![m] = {}]

\* The connection is lost and the client will try again
Dropped(m) ==
    /\ m \in seated
    /\ Gone(m)
    /\ UNCHANGED <<client, rows, syncVars, used, due, failed, astVars>>

\* It has ended, and the listener resets the tracker
Ended(m) ==
    /\ client[m] # "none"
    /\ Gone(m)
    /\ client' = [client EXCEPT ![m] = "none"]
    /\ IF client[m] = "wired"
       THEN /\ tracker' = [tracker EXCEPT ![m] = Reset]
            /\ due' = [due EXCEPT ![m] = {}]
       ELSE UNCHANGED <<tracker, due>>
    /\ UNCHANGED <<rows, sync, used, failed, astVars>>

\* onLocalPush(): a push of the member's own acknowledges the others
OwnPush(m) ==
    /\ used < MaxEvents
    /\ used' = used + 1
    /\ tracker' = [tracker EXCEPT ![m].latest = m, ![m].synced = m]
    /\ UNCHANGED <<memberVars, sync, owed, due, failed, astVars>>

-----------------------------------------------------------------------------
(* versioncon.sync, also where staging asks for it                           *)

\* clearPath()
Cleared(t, files) == [t EXCEPT !.paths = @ \ files]

\* Slip: the sync is complete whatever the set still holds
AtEndUnasked(t) == OnSync(t)

\* Slip: a sync that settles every file forgets to say so
AtEndSilent(t) == t

\* What has arrived meanwhile counts
AtEnd(t) == IF t.paths = {} THEN OnSync(t) ELSE t

\* Run r clears the files of `settled` and goes on: files that are gone from the branch are
\* settled as they are met, up to one it must wait for, or to the end
Proceed(m, r, todo, settled) ==
    \E gone \in SUBSET todo :
       LET t == Cleared(tracker[m], settled \cup gone) IN
       /\ due' = [due EXCEPT ![m] = @ \ (settled \cup gone)]
       /\ \/ \E p \in todo \ gone :
                /\ sync' = [sync EXCEPT ![m][r] = [todo |-> todo \ (gone \cup {p}), at |-> p]]
                /\ tracker' = [tracker EXCEPT ![m] = t]
                /\ UNCHANGED failed
          \/ /\ gone = todo
             /\ sync' = [sync EXCEPT ![m][r] = None]
             /\ tracker' = [tracker EXCEPT ![m] = AtEnd(t)]
             /\ failed' = IF t.paths = {} THEN failed \ {m} ELSE failed

\* With an empty set the command acknowledges at once
BeginSync(m, r) ==
    /\ sync[m][r] = None
    /\ Proceed(m, r, tracker[m].paths, {})
    /\ UNCHANGED <<memberVars, used, owed, astVars>>

\* What the run has waited for is here: the copy of a file that was missing, the bytes of
\* both, the user.  Copied, the same, or taken from the branch: settled, whatever has been
\* announced since it was looked up.  Kept, or dismissed: left in the set.
VisitPath(m, r) ==
    /\ sync[m][r] # None
    /\ \E settled \in SUBSET {sync[m][r].at} : Proceed(m, r, sync[m][r].todo, settled)
    /\ UNCHANGED <<memberVars, used, owed, astVars>>

\* A copy or a read fails, and the command with it
SyncFails(m, r) ==
    /\ sync[m][r] # None /\ used < MaxEvents
    /\ used' = used + 1
    /\ sync' = [sync EXCEPT ![m][r] = None]
    /\ failed' = failed \cup {m}
    /\ UNCHANGED <<memberVars, tracker, owed, due, astVars>>

-----------------------------------------------------------------------------
Next ==
    \/ \E x \in Request : HostPush(x) \/ HostRevert(x) \/ Amend(x)
    \/ Analysis
    \/ \E m \in Member :
          Join(m) \/ Wire(m) \/ Dropped(m) \/ Ended(m) \/ Deliver(m) \/ OwnPush(m)
    \/ \E m \in Member, r \in Run :
          BeginSync(m, r) \/ VisitPath(m, r) \/ SyncFails(m, r)

Spec == Init /\ [][Next]_vars

\* A request's timer
Timer(x) == TimedOut(x) /\ UNCHANGED <<memberVars, syncVars, used, ghosts>>

FairSpec == Spec /\ \A x \in Request : WF_vars(Timer(x))

-----------------------------------------------------------------------------
(* Properties *)

Quiet(m) == m \in seated /\ chan[m] = <<>>

\* A push whose announcement has reached a member's listeners has a row there that is linked
\* to its event, and an amend finds that row: it never overtakes the event, and is not lost
\* while the member stays, until RingCap newer rows have pushed it out.
RowsFollowPushes ==
    \A m \in Member : Quiet(m) =>
       \A x \in owed[m] : age[m][x] <= RingCap =>
          row[m][x] = "amended" \/ (row[m][x] = "linked" /\ outcome[x] # "used")

\* What is announced while syncs run survives them: a file stays listed until a sync that
\* came to it after the announcement has settled it, though the member may push, other files
\* may be settled, and syncs may overlap, fail, or end in between.
ArrivalsSurviveSync == \A m \in Member : due[m] \subseteq tracker[m].paths

\* A member whose last listed file has been settled may stage again, unless a sync failed.
SettledMayStage ==
    \A m \in Member \ failed :
       tracker[m].paths = {} /\ (\A r \in Run : sync[m][r] = None) => InSync(tracker[m])

\* Every analysis ends, though workers hang, exit, or are killed on behalf of another.
AnalysesEnd == \A x \in Request : outcome[x] = "waiting" ~> outcome[x] # "waiting"

===============================================================================
