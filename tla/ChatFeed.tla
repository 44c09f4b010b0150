------------------------------- MODULE ChatFeed --------------------------------
(***************************************************************************)
(* Chat in a session.  The host keeps the ChatLog of its branch, broadcasts   *)
(* messages and the events of pushes, reverts and new branches, and replays   *)
(* the log to who joins (src/src/host/SessionHost.ts, filesystem/ChatLog.ts); *)
(* every window keeps a cache of the records and may have a panel open        *)
(* (src/src/extension.ts, src/src/ui/ChatPanel.ts).  The analysis of a push,  *)
(* which amends its event, is in PushFeed; here it ends one way or the other. *)
(*                                                                         *)
(* A member's connection is a queue of frames; it is lost as a whole.  What is  *)
(* read before the window's listeners are attached is dropped.              *)
(* Bodies, names and time stamps are left out.                              *)
(***************************************************************************)
EXTENDS Integers, Sequences

CONSTANTS
    Member,      \* windows that join
    Host,        \* the window that hosts
    Watched,     \* the windows whose user opens the chat panel
    Analyzed,    \* the announcements that are pushes with content to analyse
    Event,       \* ids of announcements
    Said,        \* ids of user messages
    Replay,      \* how many records a joiner is sent
    Kept,        \* how many user messages the milder truncation keeps
    MaxJoins,    \* bound: joins of all members
    MaxPrunes,   \* bound: times the host clears or truncates the chat
    None

ASSUME FeedAssumption ==
    /\ Replay \in Nat /\ Kept \in Nat
    /\ Host \notin Member
    /\ Watched \subseteq Member \cup {Host}

Window == Member \cup {Host}

\* ChatRecord: a user's message, or the event of a push or of its revert
Rec(kind, of) == [kind |-> kind, of |-> of, amended |-> FALSE]
Key(r) == <<r.kind, r.of>>
Keys(s) == {Key(s[i]) : i \in DOMAIN s}

VARIABLES
    log,       \* the records of the branch's ChatLog
    jobs,      \* ChatLog operations waiting for their write
    cache,     \* cache[w]: clientChatRecords
    panel,     \* panel[w]: "closed", "loading" or "open", and the records it shows
    client,    \* client[m]: the window's SessionClient, "none", "new" or with listeners, "wired"
    active,    \* windows with an activeClient, though it may have given up
    seated,    \* members of the session
    chan,      \* chan[m]: frames on their way to m
    analysis,  \* analysis[x]: "none", "asked" or "done"
    used,      \* bound counters, and the messages said
    owed       \* owed[m]: records sent to m, or that will be, but for those it read too early
               \* (history variable)

logVars == <<log, jobs>>
clientVars == <<client, active>>
memberVars == <<clientVars, seated, chan>>
vars == <<logVars, cache, panel, memberVars, used, owed, analysis>>

Closed == [state |-> "closed", records |-> <<>>]

Init ==
    /\ log = <<>>
    /\ jobs = {}
    /\ cache = [w \in Window |-> <<>>]
    /\ panel = [w \in Window |-> Closed]
    /\ client = [m \in Member |-> "none"]
    /\ active = {}
    /\ seated = {}
    /\ chan = [m \in Member |-> <<>>]
    /\ used = [joins |-> 0, prunes |-> 0, said |-> {}]
    /\ owed = [m \in Member |-> {}]
    /\ analysis = [x \in Event |-> "none"]

-----------------------------------------------------------------------------
(* Windows *)

\* The cache changes, and an open panel is told
Show(w, s) ==
    /\ cache' = [cache EXCEPT ![w] = s]
    /\ panel' = IF panel[w].state = "open" THEN [panel EXCEPT ![w].records = s] ELSE panel

Shown(w, r) == Show(w, Append(cache[w], r))

\* The first record with the id is patched
Patched(s, key) ==
    LET at == {i \in DOMAIN s : Key(s[i]) = key}
    IN  IF at = {} THEN s
        ELSE [s EXCEPT ![CHOOSE i \in at : \A j \in at : i <= j].amended = TRUE]

\* versioncon.openChat
OpenPanel(w) ==
    /\ panel[w].state = "closed"
    /\ w = Host \/ w \in active
    /\ panel' = [panel EXCEPT ![w].state = "loading"]
    /\ UNCHANGED <<logVars, cache, memberVars, used, owed, analysis>>

\* "webview-ready": until then the page drops what it is sent
PanelReady(w) ==
    /\ panel[w].state = "loading"
    /\ panel' = [panel EXCEPT ![w] = [state |-> "open", records |-> cache[w]]]
    /\ UNCHANGED <<logVars, cache, memberVars, used, owed, analysis>>

ClosePanel(w) ==
    /\ panel[w].state # "closed"
    /\ panel' = [panel EXCEPT ![w] = Closed]
    /\ UNCHANGED <<logVars, cache, memberVars, used, owed, analysis>>

-----------------------------------------------------------------------------
(* The host's log.  An operation of ChatLog changes the records and then      *)
(* waits for its write.                                                     *)

Job(then, r) == [then |-> then, rec |-> r]

Send(f) == chan' = [m \in Member |-> IF m \in seated THEN Append(chan[m], f) ELSE <<>>]
Frame(type, arg) == [type |-> type, arg |-> arg]

Owe(keys) == owed' = [m \in Member |-> IF m \in seated THEN owed[m] \cup keys ELSE {}]

\* append()
Record(r) == log' = Append(log, r)

\* A member's message reaches the host, which alone does not see it, or the host's user
\* says something, which the host's window shows at once
Say(w, n) ==
    /\ n \notin used.said
    /\ w = Host \/ (w \in seated /\ client[w] = "wired")
    /\ used' = [used EXCEPT !.said = @ \cup {n}]
    /\ LET r == Rec("user", n)
       IN  /\ Record(r)
           /\ jobs' = jobs \cup {Job("broadcast", r)}
           /\ Owe({Key(r)})
           /\ IF w = Host THEN Shown(Host, r) ELSE UNCHANGED <<cache, panel>>
    /\ UNCHANGED <<memberVars, analysis>>

\* appendAndBroadcastSystemEvent(): nobody waits for the write
SystemEvent(r) ==
    /\ Record(r)
    /\ Send(Frame("chat", r))
    /\ Owe({Key(r)})
    /\ Shown(Host, r)
    /\ UNCHANGED jobs

\* broadcastPush(), for a push of the host's own, the only one that is announced;
\* broadcastRevert() and broadcastBranchCreated() ask for no analysis
Announce(x) ==
    /\ analysis[x] = "none"
    /\ analysis' = [analysis EXCEPT ![x] = IF x \in Analyzed THEN "asked" ELSE "done"]
    /\ SystemEvent(Rec("event", x))
    /\ UNCHANGED <<clientVars, seated, used>>

\* broadcastChatCleared() and broadcastChatTruncated(): a member drops what it has either way
Emptied == Frame("emptied", None)

\* What follows an operation: a message or an amend is broadcast; chat-cleared and
\* chat-truncated tell the members to drop what they have
Follow(j) ==
    CASE j.then = "broadcast" ->
            /\ Send(Frame("chat", j.rec))
            /\ UNCHANGED <<cache, panel, owed>>
      [] j.then = "amend" ->
            /\ Send(Frame("amend", Key(j.rec)))
            /\ Show(Host, Patched(cache[Host], Key(j.rec)))
            /\ UNCHANGED owed
      [] j.then \in {"cleared", "truncated"} ->
            /\ Send(Emptied)
            /\ Show(Host, IF j.then = "cleared" THEN <<>> ELSE log)
            /\ owed' = [m \in Member |->
                 owed[m] \cap {Key(k.rec) : k \in {k \in jobs : k.then = "broadcast"}}]

\* Slip: a failed write stops what follows
WriteEndsOrThrows(j) ==
    /\ jobs' = jobs \ {j}
    /\ Follow(j) \/ UNCHANGED <<cache, panel, chan, owed>>
    /\ UNCHANGED <<log, clientVars, seated, used, analysis>>

\* The write ends or fails, which stops nothing but a clear or a truncation
WriteEnds(j) ==
    /\ jobs' = jobs \ {j}
    /\ \/ Follow(j)
       \/ j.then \in {"cleared", "truncated"} /\ UNCHANGED <<cache, panel, chan, owed>>
    /\ UNCHANGED <<log, clientVars, seated, used, analysis>>

\* Array.filter()
Filtered(s, keep) ==
    LET kept[i \in 0..Len(s)] == IF i = 0 THEN <<>>
                                ELSE IF s[i] \in keep THEN Append(kept[i - 1], s[i])
                                ELSE kept[i - 1]
    IN  kept[Len(s)]

Records(s) == {s[i] : i \in DOMAIN s}
UserRecords(s) == Filtered(s, {r \in Records(s) : r.kind = "user"})
LastOf(s, n) == SubSeq(s, Len(s) - n + 1, Len(s))
Recent(s, n) == IF Len(s) <= n THEN s ELSE LastOf(s, n)

\* Manage chat: "delete all", "keep 100 and activity", "activity only"
Prune(then, s) ==
    /\ used.prunes < MaxPrunes
    /\ used' = [used EXCEPT !.prunes = @ + 1]
    /\ log' = s
    /\ jobs' = jobs \cup {Job(then, None)}
    /\ UNCHANGED <<cache, panel, memberVars, owed, analysis>>

ClearChat == Prune("cleared", <<>>)

TruncateKeepRecent ==
    LET recent == Keys(Recent(UserRecords(log), Kept))
        keep == {r \in Records(log) : r.kind # "user" \/ Key(r) \in recent}
    IN  Prune("truncated", Filtered(log, keep))

TruncateActivityOnly ==
    Prune("truncated", Filtered(log, {r \in Records(log) : r.kind # "user"}))

-----------------------------------------------------------------------------
(* runAstAnalysisAndAmend() *)

\* Slip: the amend is written and not broadcast
AmendSilent(x) ==
    /\ log' = Patched(log, <<"event", x>>)
    /\ UNCHANGED <<jobs, chan, cache, panel>>

\* patchMeta() in the log of now; without the record there is nothing to write and the
\* amend goes out at once
Amend(x) ==
    LET key == <<"event", x>>
    IN  IF key \in Keys(log)
        THEN /\ log' = Patched(log, key)
             /\ jobs' = jobs \cup {Job("amend", Rec("event", x))}
             /\ UNCHANGED <<chan, cache, panel>>
        ELSE /\ Send(Frame("amend", key))
             /\ Show(Host, Patched(cache[Host], key))
             /\ UNCHANGED logVars

\* An analysis that found nothing, or failed, changes nothing
AnalysisEnds(x) ==
    /\ analysis[x] = "asked"
    /\ analysis' = [analysis EXCEPT ![x] = "done"]
    /\ \/ Amend(x)
       \/ UNCHANGED <<logVars, cache, panel, chan>>
    /\ UNCHANGED <<clientVars, seated, used, owed>>

-----------------------------------------------------------------------------
(* Members *)

\* sendChatHistoryToMember(), right after the seat is taken.  The ladder seats the client
\* that is there; JoinPanel makes a new one.
Join(m) ==
    /\ m \notin seated /\ used.joins < MaxJoins
    /\ used' = [used EXCEPT !.joins = @ + 1]
    /\ seated' = seated \cup {m}
    /\ client' = [client EXCEPT ![m] = IF @ = "none" THEN "new" ELSE @]
    /\ LET records == Recent(log, Replay)
       IN  /\ chan' = [chan EXCEPT ![m] = <<Frame("history", records)>>]
           /\ owed' = [owed EXCEPT ![m] = Keys(records)]
    /\ UNCHANGED <<logVars, active, cache, panel, analysis>>

\* wireClientEvents(), once connect() has returned and the session is saved as a recent one
Wire(m) ==
    /\ client[m] = "new"
    /\ client' = [client EXCEPT ![m] = "wired"]
    /\ active' = active \cup {m}
    /\ UNCHANGED <<logVars, cache, panel, seated, chan, used, owed, analysis>>

Gone(m) ==
    /\ seated' = seated \ {m}
    /\ chan' = [chan EXCEPT ![m] = <<>>]
    /\ owed' = [owed EXCEPT ![m] = {}]

\* The connection is lost and the client will try again: the window keeps everything
Dropped(m) ==
    /\ m \in seated
    /\ Gone(m)
    /\ UNCHANGED <<logVars, clientVars, cache, panel, used, analysis>>

\* The ladder gives up, or the member is kicked: the window keeps everything but the client
Ended(m) ==
    /\ client[m] # "none"
    /\ Gone(m)
    /\ client' = [client EXCEPT ![m] = "none"]
    /\ UNCHANGED <<logVars, active, cache, panel, used, analysis>>

\* The sidebar's disconnect: activeClient, if it is alive, and the records
Left(m) ==
    /\ m \in active
    /\ active' = active \ {m}
    /\ IF client[m] = "wired"
       THEN Gone(m) /\ client' = [client EXCEPT ![m] = "none"]
       ELSE UNCHANGED <<client, seated, chan, owed>>
    /\ Show(m, <<>>)
    /\ UNCHANGED <<logVars, used, analysis>>

\* The window's handlers
Received(m, f) ==
    CASE f.type = "history" -> Show(m, f.arg)
      [] f.type = "chat"    -> Shown(m, f.arg)
      [] f.type = "amend"   -> Show(m, Patched(cache[m], f.arg))
      [] f.type = "emptied" -> Show(m, <<>>)

\* emit() without listeners: the records of the frame are lost on the window
Unheard(m, f) ==
    /\ owed' = [owed EXCEPT ![m] = @ \ CASE f.type = "history" -> Keys(f.arg)
                                         [] f.type = "chat"    -> {Key(f.arg)}
                                         [] OTHER              -> {}]
    /\ UNCHANGED <<cache, panel>>

Deliver(m) ==
    /\ chan[m] # <<>>
    /\ IF client[m] = "wired" THEN Received(m, Head(chan[m])) /\ UNCHANGED owed
       ELSE Unheard(m, Head(chan[m]))
    /\ chan' = [chan EXCEPT ![m] = Tail(@)]
    /\ UNCHANGED <<logVars, clientVars, seated, used, analysis>>

-----------------------------------------------------------------------------
Next ==
    \/ \E w \in Watched : OpenPanel(w) \/ PanelReady(w) \/ ClosePanel(w)
    \/ \E w \in Window, n \in Said : Say(w, n)
    \/ \E x \in Event : Announce(x) \/ AnalysisEnds(x)
    \/ \E j \in jobs : WriteEnds(j)
    \/ ClearChat \/ TruncateKeepRecent \/ TruncateActivityOnly
    \/ \E m \in Member : Join(m) \/ Wire(m) \/ Dropped(m) \/ Ended(m) \/ Left(m) \/ Deliver(m)

Spec == Init /\ [][Next]_vars

-----------------------------------------------------------------------------
(* Properties *)

Quiet(m) ==
    /\ m \in seated /\ chan[m] = <<>>
    /\ jobs = {}

Seen(m) == IF panel[m].state = "open" THEN panel[m].records ELSE cache[m]

\* A member that stays gets every record that is in its replay or enters the log later,
\* unless the chat is pruned in between, or the window reads the frame before it has its
\* listeners: joining falls neither between the record's entry into the log and its
\* broadcast nor after both.
NothingMissed == \A m \in Member : Quiet(m) => owed[m] \subseteq Keys(Seen(m))

\* A push whose record is amended in the host's log is amended in the copy that a member
\* has got over this connection, whether the member joined before, while or after the
\* analysis ran, and whatever it kept of an earlier connection.
AmendsReachMembers ==
    \A m \in Member : Quiet(m) =>
       \A i \in DOMAIN log, k \in DOMAIN Seen(m) :
          log[i].amended /\ Key(Seen(m)[k]) = Key(log[i]) /\ Key(log[i]) \in owed[m] =>
             Seen(m)[k].amended

===============================================================================
