----------------------------- MODULE PushFeedProofs ----------------------------
(***************************************************************************)
(* The safety of what members learn of pushes, for every number of members,   *)
(* pushes, files, syncs and joins and every length of the activity list.  The  *)
(* argument of RowsFollowPushes is about the order of the frames on the way   *)
(* to a member: what its row still lacks is in the channel, announcement      *)
(* before event before amend, and an announcement comes once.                 *)
(*                                                                         *)
(* The last part is about the impact an event carries: what joinImpact()      *)
(* attributes, for every pair of versions and for all references.             *)
(***************************************************************************)
EXTENDS PushFeed, JoinImpact, TLAPS

Reverted == {Frame("reverted", x, files) : x \in Request, files \in (SUBSET File) \ {{}}}

Frames ==
    {Push(x) : x \in Request} \cup Reverted
    \cup {ChatEvent(x) : x \in Request} \cup {ChatAmend(x) : x \in Request}

Trackers ==
    [latest : Request \cup Member \cup {None}, synced : Request \cup Member \cup {None},
     paths : SUBSET File]

Marks == {"none", "added", "linked", "amended"}

Runs == [todo : SUBSET File, at : File]

\* What the proofs need of the types.
FeedTypeOK ==
    /\ client \in [Member -> {"none", "new", "wired"}]
    /\ chan \in [Member -> Seq(Frames)]
    /\ row \in [Member -> [Request -> Marks]]
    /\ age \in [Member -> [Request -> Nat]]
    /\ tracker \in [Member -> Trackers]
    /\ sync \in [Member -> [Run -> Runs \cup {None}]]
    /\ owed \in [Member -> SUBSET Request]
    /\ due \in [Member -> SUBSET File]

-----------------------------------------------------------------------------
(* Types *)

LEMMA FramesSent ==
    ASSUME NEW x \in Request
    PROVE  Push(x) \in Frames /\ ChatEvent(x) \in Frames /\ ChatAmend(x) \in Frames
  BY DEF Frames

\* What a frame is, from its type.
LEMMA FrameFacts ==
    ASSUME NEW f \in Frames
    PROVE  /\ f.push \in Request /\ f.type \in {"push", "reverted", "event", "amend"}
           /\ f.type \in {"push", "reverted"} => f.files \in (SUBSET File) \ {{}}
           /\ f.type = "push" => f = Push(f.push)
           /\ f.type = "event" => f = ChatEvent(f.push)
           /\ f.type = "amend" => f = ChatAmend(f.push)
<1>1. CASE \E x \in Request : f = Push(x)
  BY <1>1, FilesAssumption DEF Push, Frame
<1>2. CASE f \in Reverted
  BY <1>2 DEF Reverted, Frame
<1>3. CASE \E x \in Request : f = ChatEvent(x)
  BY <1>3 DEF ChatEvent, Frame
<1>4. CASE \E x \in Request : f = ChatAmend(x)
  BY <1>4 DEF ChatAmend, Frame
<1>5. QED
  BY <1>1, <1>2, <1>3, <1>4 DEF Frames

LEMMA FramesDiffer ==
    ASSUME NEW x \in Request
    PROVE  /\ Push(x).type = "push" /\ Push(x).push = x
           /\ ChatEvent(x).type = "event" /\ ChatEvent(x).push = x
           /\ ChatAmend(x).type = "amend" /\ ChatAmend(x).push = x
  BY DEF Push, ChatEvent, ChatAmend, Frame

\* Frames are appended to the channels of those who are seated.
LEMMA SendType ==
    ASSUME FeedTypeOK, NEW frames \in Seq(Frames), Send(frames)
    PROVE  chan' \in [Member -> Seq(Frames)]
  BY DEF FeedTypeOK, Send

LEMMA TrackerSteps ==
    ASSUME NEW t \in Trackers, NEW x \in Request \cup Member, NEW paths \in SUBSET File
    PROVE  /\ [t EXCEPT !.latest = x, !.synced = x] \in Trackers
           /\ [t EXCEPT !.paths = paths] \in Trackers
           /\ [t EXCEPT !.latest = x, !.paths = paths] \in Trackers
           /\ [t EXCEPT !.synced = t.latest, !.paths = paths] \in Trackers
           /\ [t EXCEPT !.paths = paths].paths = paths
           /\ [t EXCEPT !.latest = x, !.paths = paths].paths = paths
<1>1. /\ t = [latest |-> t.latest, synced |-> t.synced, paths |-> t.paths]
      /\ t.latest \in Request \cup Member \cup {None}
      /\ t.synced \in Request \cup Member \cup {None}
      /\ t.paths \in SUBSET File
  BY DEF Trackers
<1>2. QED
  BY <1>1 DEF Trackers

LEMMA NotedType ==
    ASSUME FeedTypeOK, NEW m \in Member, NEW x \in Request, NEW files \in SUBSET File,
           Noted(m, x, files)
    PROVE  /\ tracker' \in [Member -> Trackers]
           /\ due' \in [Member -> SUBSET File]
           /\ tracker'[m].paths = tracker[m].paths \cup files
           /\ \A n \in Member \ {m} : tracker'[n] = tracker[n] /\ due'[n] = due[n]
           /\ due'[m] \subseteq due[m] \cup files
<1> DEFINE t == tracker[m]
<1>1. t \in Trackers /\ t.paths \cup files \in SUBSET File
  BY DEF FeedTypeOK, Trackers
<1>2. OnRemote(t, x, files) \in Trackers /\ OnRemote(t, x, files).paths = t.paths \cup files
  BY <1>1, TrackerSteps DEF OnRemote
<1>3. QED
  BY <1>2 DEF FeedTypeOK, Noted

\* What a new entry does to the rows.
LEMMA AddedFacts ==
    ASSUME FeedTypeOK, NEW m \in Member, NEW xs \in SUBSET Request, Added(m, xs)
    PROVE  /\ row' \in [Member -> [Request -> Marks]]
           /\ age' \in [Member -> [Request -> Nat]]
           /\ \A n \in Member \ {m} : row'[n] = row[n] /\ age'[n] = age[n]
           /\ \A x \in xs : age'[m][x] = 1 /\ row'[m][x] = "added"
           /\ \A x \in Request \ xs :
                 /\ age'[m][x] = IF age[m][x] \in 1 .. RingCap THEN age[m][x] + 1
                                 ELSE age[m][x]
                 /\ age'[m][x] <= RingCap => row'[m][x] = row[m][x]
<1> DEFINE a == [y \in Request |->
                   IF y \in xs THEN 1
                   ELSE IF age[m][y] \in 1 .. RingCap THEN age[m][y] + 1 ELSE age[m][y]]
           w == [y \in Request |->
                   IF y \in xs THEN "added" ELSE IF a[y] > RingCap THEN "none" ELSE row[m][y]]
<1>1. age' = [age EXCEPT ![m] = a]
  BY DEF Added, FeedTypeOK
<1>2. age'[m] = a
  BY <1>1 DEF FeedTypeOK
<1>3. row' = [row EXCEPT ![m] = w]
  BY <1>2 DEF Added, FeedTypeOK
<1>4. a \in [Request -> Nat] /\ w \in [Request -> Marks]
  BY RingAssumption DEF FeedTypeOK, Marks
<1>5. \A x \in xs : a[x] = 1 /\ w[x] = "added"
  OBVIOUS
<1>6. \A x \in Request \ xs :
         /\ a[x] = IF age[m][x] \in 1 .. RingCap THEN age[m][x] + 1 ELSE age[m][x]
         /\ a[x] <= RingCap => w[x] = row[m][x]
  BY <1>4, RingAssumption
<1> HIDE DEF a, w
<1>7. QED
  BY <1>1, <1>3, <1>4, <1>5, <1>6 DEF FeedTypeOK

\* What a change of an entry does to the rows.
LEMMA RowFacts ==
    ASSUME FeedTypeOK, NEW m \in Member, NEW x \in Request, NEW from,
           NEW to \in Marks, Row(m, x, from, to)
    PROVE  /\ row' \in [Member -> [Request -> Marks]]
           /\ UNCHANGED age
           /\ \A n \in Member \ {m} : row'[n] = row[n]
           /\ \A y \in Request :
                 row'[m][y] = IF y = x /\ row[m][x] = from THEN to ELSE row[m][y]
  BY DEF FeedTypeOK, Row

\* A frame that is read by listeners does one of four things.
LEMMA ReceivedCases ==
    ASSUME NEW m, NEW f \in Frames, Received(m, f)
    PROVE  \/ f.type = "push" /\ Noted(m, f.push, f.files) /\ Added(m, {f.push})
           \/ f.type = "reverted" /\ Noted(m, f.push, f.files) /\ Added(m, {})
           \/ f.type = "event" /\ Row(m, f.push, "added", "linked") /\ UNCHANGED <<tracker, due>>
           \/ f.type = "amend" /\ Row(m, f.push, "linked", "amended")
              /\ UNCHANGED <<tracker, due>>
<1>1. f.type \in {"push", "reverted", "event", "amend"}
  BY FrameFacts
<1>2. QED
  BY <1>1 DEF Received

LEMMA DeliverType ==
    ASSUME FeedTypeOK, NEW m \in Member, Deliver(m)
    PROVE  FeedTypeOK'
<1> DEFINE f == Head(chan[m])
<1>1. f \in Frames /\ Tail(chan[m]) \in Seq(Frames)
  BY DEF FeedTypeOK, Deliver
<1>2. chan' \in [Member -> Seq(Frames)] /\ UNCHANGED <<client, sync>>
  BY <1>1 DEF FeedTypeOK, Deliver
<1>3. /\ f.push \in Request /\ {f.push} \in SUBSET Request /\ {} \in SUBSET Request
      /\ f.type \in {"push", "reverted"} => f.files \in SUBSET File
  BY <1>1, FrameFacts
<1>4. \/ Received(m, f) /\ UNCHANGED owed
      \/ Unheard(m, f)
  BY DEF Deliver
<1>5. "linked" \in Marks /\ "amended" \in Marks
  BY DEF Marks
<1> HIDE DEF f
<1>6. CASE Unheard(m, f)
  BY <1>2, <1>6 DEF Unheard, FeedTypeOK, rows
<1>7. CASE Received(m, f) /\ UNCHANGED owed
  <2>1. CASE Noted(m, f.push, f.files) /\ (Added(m, {f.push}) \/ Added(m, {}))
             /\ f.type \in {"push", "reverted"}
    BY <1>2, <1>3, <1>7, <2>1, NotedType, AddedFacts DEF FeedTypeOK
  <2>2. CASE /\ UNCHANGED <<tracker, due>>
             /\ Row(m, f.push, "added", "linked") \/ Row(m, f.push, "linked", "amended")
    BY <1>2, <1>3, <1>5, <1>7, <2>2, RowFacts DEF FeedTypeOK
  <2>3. QED
    BY <1>1, <1>7, <2>1, <2>2, ReceivedCases
<1>8. QED
  BY <1>4, <1>6, <1>7

\* A run of the sync command clears files of its own, and acknowledges at its end if then
\* the set is empty.
LEMMA ProceedFacts ==
    ASSUME FeedTypeOK, NEW m \in Member, NEW r \in Run, NEW todo \in SUBSET File,
           NEW settled \in SUBSET File, Proceed(m, r, todo, settled)
    PROVE  \E files \in SUBSET File :
              /\ tracker' \in [Member -> Trackers]
              /\ sync' \in [Member -> [Run -> Runs \cup {None}]]
              /\ due' \in [Member -> SUBSET File]
              /\ tracker'[m].paths = tracker[m].paths \ files /\ due'[m] = due[m] \ files
              /\ \A n \in Member \ {m} :
                    /\ tracker'[n] = tracker[n] /\ due'[n] = due[n] /\ sync'[n] = sync[n]
                    /\ n \in failed' <=> n \in failed
              /\ \/ sync'[m][r] # None
                 \/ tracker'[m].paths # {} \/ InSync(tracker'[m])
<1>1. PICK gone \in SUBSET todo :
         LET t == Cleared(tracker[m], settled \cup gone) IN
         /\ due' = [due EXCEPT ![m] = @ \ (settled \cup gone)]
         /\ \/ \E p \in todo \ gone :
                  /\ sync' = [sync EXCEPT ![m][r] = [todo |-> todo \ (gone \cup {p}), at |-> p]]
                  /\ tracker' = [tracker EXCEPT ![m] = t]
                  /\ UNCHANGED failed
            \/ /\ gone = todo
               /\ sync' = [sync EXCEPT ![m][r] = None]
               /\ tracker' = [tracker EXCEPT ![m] = AtEnd(t)]
               /\ failed' = IF t.paths = {} THEN failed \ {m} ELSE failed
  BY DEF Proceed
<1> DEFINE files == settled \cup gone
           t == Cleared(tracker[m], files)
<1>2. files \in SUBSET File /\ tracker[m].paths \ files \in SUBSET File /\ tracker[m] \in Trackers
  BY DEF FeedTypeOK, Trackers
<1>3. t \in Trackers /\ t.paths = tracker[m].paths \ files
  BY <1>2, TrackerSteps DEF Cleared
<1>4. /\ due' \in [Member -> SUBSET File] /\ due'[m] = due[m] \ files
      /\ \A n \in Member \ {m} : due'[n] = due[n]
  BY <1>1 DEF FeedTypeOK
<1>5. OnSync(t) \in Trackers /\ OnSync(t).paths = {} /\ InSync(OnSync(t))
  BY <1>3, TrackerSteps DEF OnSync, InSync, Trackers
<1>6. /\ AtEnd(t) \in Trackers /\ AtEnd(t).paths = t.paths
      /\ AtEnd(t).paths # {} \/ InSync(AtEnd(t))
  BY <1>3, <1>5 DEF AtEnd
<1>7. CASE \E p \in todo \ gone :
              /\ sync' = [sync EXCEPT ![m][r] = [todo |-> todo \ (gone \cup {p}), at |-> p]]
              /\ tracker' = [tracker EXCEPT ![m] = t]
              /\ UNCHANGED failed
  <2>1. PICK p \in todo \ gone :
              /\ sync' = [sync EXCEPT ![m][r] = [todo |-> todo \ (gone \cup {p}), at |-> p]]
              /\ tracker' = [tracker EXCEPT ![m] = t]
              /\ UNCHANGED failed
    BY <1>7
  <2> DEFINE s == [todo |-> todo \ (gone \cup {p}), at |-> p]
  <2>2. s \in Runs /\ s # None
    BY FilesAssumption DEF Runs
  <2>3. /\ sync' \in [Member -> [Run -> Runs \cup {None}]] /\ sync'[m][r] = s
        /\ \A n \in Member \ {m} : sync'[n] = sync[n]
    <3> HIDE DEF s
    <3>1. QED
      BY <2>1, <2>2 DEF FeedTypeOK, s
  <2> HIDE DEF s, t, files
  <2>4. tracker' \in [Member -> Trackers] /\ tracker'[m] = t
        /\ \A n \in Member \ {m} : tracker'[n] = tracker[n]
    BY <1>3, <2>1 DEF FeedTypeOK
  <2>5. QED
    BY <1>2, <1>3, <1>4, <2>1, <2>2, <2>3, <2>4
<1>8. CASE /\ sync' = [sync EXCEPT ![m][r] = None]
           /\ tracker' = [tracker EXCEPT ![m] = AtEnd(t)]
           /\ failed' = IF t.paths = {} THEN failed \ {m} ELSE failed
  <2> HIDE DEF t, files
  <2>1. /\ sync' \in [Member -> [Run -> Runs \cup {None}]]
        /\ \A n \in Member \ {m} : sync'[n] = sync[n]
    BY <1>8 DEF FeedTypeOK
  <2>2. tracker' \in [Member -> Trackers] /\ tracker'[m] = AtEnd(t)
        /\ \A n \in Member \ {m} : tracker'[n] = tracker[n]
    BY <1>6, <1>8 DEF FeedTypeOK
  <2>3. \A n \in Member \ {m} : n \in failed' <=> n \in failed
    BY <1>8
  <2>4. QED
    BY <1>2, <1>3, <1>4, <1>6, <2>1, <2>2, <2>3
<1>9. QED
  BY <1>1, <1>7, <1>8

\* The two steps of a run in which it goes on.
LEMMA SyncSteps ==
    ASSUME FeedTypeOK, NEW m \in Member, NEW r \in Run, BeginSync(m, r) \/ VisitPath(m, r)
    PROVE  /\ \E todo \in SUBSET File, settled \in SUBSET File : Proceed(m, r, todo, settled)
           /\ UNCHANGED <<memberVars, used, owed, astVars>>
<1>1. CASE BeginSync(m, r)
  <2>1. tracker[m].paths \in SUBSET File /\ {} \in SUBSET File
    BY DEF FeedTypeOK, Trackers
  <2>2. QED
    BY <1>1, <2>1 DEF BeginSync
<1>2. CASE VisitPath(m, r)
  <2>1. sync[m][r] \in Runs
    BY <1>2 DEF VisitPath, FeedTypeOK
  <2>2. sync[m][r].todo \in SUBSET File /\ SUBSET {sync[m][r].at} \subseteq SUBSET File
    BY <2>1 DEF Runs
  <2>3. QED
    BY <1>2, <2>2 DEF VisitPath
<1>3. QED
  BY <1>1, <1>2

\* A member's place at the host is lost, and its frames with it.
LEMMA GoneType ==
    ASSUME FeedTypeOK, NEW m \in Member, Gone(m)
    PROVE  /\ chan' \in [Member -> Seq(Frames)] /\ owed' \in [Member -> SUBSET Request]
           /\ chan'[m] = <<>> /\ owed'[m] = {}
           /\ \A n \in Member \ {m} : chan'[n] = chan[n] /\ owed'[n] = owed[n]
  BY DEF Gone, FeedTypeOK

LEMMA FeedType == Spec => []FeedTypeOK
<1>1. Init => FeedTypeOK
  BY DEF Init, FeedTypeOK, Reset, Trackers, Nobody, Marks
<1>2. ASSUME FeedTypeOK, [Next]_vars
      PROVE  FeedTypeOK'
  <2>1. ASSUME NEW x \in Request, HostPush(x)
        PROVE  FeedTypeOK'
    <3>1. <<Push(x), ChatEvent(x)>> \in Seq(Frames)
      BY FramesSent
    <3>2. chan' \in [Member -> Seq(Frames)]
      BY <1>2, <2>1, <3>1, SendType DEF HostPush
    <3>3. owed' \in [Member -> SUBSET Request]
      BY <1>2, <2>1 DEF HostPush, FeedTypeOK
    <3>4. QED
      BY <1>2, <2>1, <3>2, <3>3 DEF HostPush, FeedTypeOK, syncVars, rows
  <2>2. ASSUME NEW x \in Request, HostRevert(x)
        PROVE  FeedTypeOK'
    <3>1. Send(<<Frame("reverted", x, Files[x])>>)
      BY <2>2 DEF HostRevert
    <3>2. <<Frame("reverted", x, Files[x])>> \in Seq(Frames)
      BY FilesAssumption DEF Frames, Reverted
    <3>3. chan' \in [Member -> Seq(Frames)]
      BY <1>2, <3>1, <3>2, SendType
    <3>4. QED
      BY <1>2, <2>2, <3>3 DEF HostRevert, FeedTypeOK, syncVars, ghosts, rows
  <2>3. ASSUME NEW x \in Request, Amend(x)
        PROVE  FeedTypeOK'
    <3>1. <<ChatAmend(x)>> \in Seq(Frames)
      BY FramesSent
    <3>2. chan' \in [Member -> Seq(Frames)]
      BY <1>2, <2>3, <3>1, SendType DEF Amend
    <3>3. QED
      BY <1>2, <2>3, <3>2 DEF Amend, FeedTypeOK, syncVars, ghosts, rows
  <2>4. CASE Analysis
    BY <1>2, <2>4 DEF Analysis, FeedTypeOK, memberVars, syncVars, ghosts, rows
  <2>5. ASSUME NEW m \in Member, Join(m) \/ Wire(m)
        PROVE  FeedTypeOK'
    <3>1. client' \in [Member -> {"none", "new", "wired"}]
      BY <1>2, <2>5 DEF Join, Wire, FeedTypeOK
    <3>2. QED
      BY <1>2, <2>5, <3>1 DEF Join, Wire, FeedTypeOK, syncVars, ghosts, rows
  <2>6. ASSUME NEW m \in Member, Dropped(m)
        PROVE  FeedTypeOK'
    BY <1>2, <2>6, GoneType DEF Dropped, FeedTypeOK, syncVars, rows
  <2>7. ASSUME NEW m \in Member, Ended(m)
        PROVE  FeedTypeOK'
    <3>1. Reset \in Trackers
      BY DEF Reset, Trackers
    <3>2. tracker' \in [Member -> Trackers] /\ due' \in [Member -> SUBSET File]
      BY <1>2, <2>7, <3>1 DEF Ended, FeedTypeOK
    <3>3. client' \in [Member -> {"none", "new", "wired"}]
      BY <1>2, <2>7 DEF Ended, FeedTypeOK
    <3>4. QED
      BY <1>2, <2>7, <3>2, <3>3, GoneType DEF Ended, FeedTypeOK, rows
  <2>8. ASSUME NEW m \in Member, Deliver(m)
        PROVE  FeedTypeOK'
    BY <1>2, <2>8, DeliverType
  <2>9. ASSUME NEW m \in Member, OwnPush(m)
        PROVE  FeedTypeOK'
    <3>1. [tracker[m] EXCEPT !.latest = m, !.synced = m] \in Trackers
      BY <1>2, TrackerSteps DEF FeedTypeOK
    <3>2. tracker' = [tracker EXCEPT ![m] = [@ EXCEPT !.latest = m, !.synced = m]]
      BY <1>2, <2>9 DEF OwnPush, FeedTypeOK, Trackers
    <3>3. tracker' \in [Member -> Trackers]
      BY <1>2, <3>1, <3>2 DEF FeedTypeOK
    <3>4. QED
      BY <1>2, <2>9, <3>3 DEF OwnPush, FeedTypeOK, memberVars, rows
  <2>10. ASSUME NEW m \in Member, NEW r \in Run, BeginSync(m, r) \/ VisitPath(m, r)
         PROVE  FeedTypeOK'
    <3>1. /\ tracker' \in [Member -> Trackers] /\ due' \in [Member -> SUBSET File]
          /\ sync' \in [Member -> [Run -> Runs \cup {None}]]
      BY <1>2, <2>10, SyncSteps, ProceedFacts
    <3>2. QED
      BY <1>2, <2>10, <3>1, SyncSteps DEF FeedTypeOK, memberVars, rows
  <2>11. ASSUME NEW m \in Member, NEW r \in Run, SyncFails(m, r)
         PROVE  FeedTypeOK'
    BY <1>2, <2>11 DEF SyncFails, FeedTypeOK, memberVars, rows
  <2>12. CASE UNCHANGED vars
    BY <1>2, <2>12 DEF vars, memberVars, syncVars, ghosts, rows, FeedTypeOK
  <2>13. QED
    BY <1>2, <2>1, <2>2, <2>3, <2>4, <2>5, <2>6, <2>7, <2>8, <2>9, <2>10, <2>11, <2>12
       DEF Next
<1>3. QED
  BY <1>1, <1>2, PTL DEF Spec
-----------------------------------------------------------------------------
(* Syncs *)

\* What is announced to a member while no sync is at its file stays listed until a sync
\* settles it: a path leaves the tracker's set when it is settled, when the client ends, or
\* in an acknowledgement, which is given only where the set is empty.
THEOREM Arrivals == Spec => []ArrivalsSurviveSync
<1>1. Init => ArrivalsSurviveSync
  BY DEF Init, ArrivalsSurviveSync, Nobody
<1>2. ASSUME FeedTypeOK, ArrivalsSurviveSync, [Next]_vars
      PROVE  ArrivalsSurviveSync'
  <2>1. ASSUME UNCHANGED <<tracker, due>>
        PROVE  ArrivalsSurviveSync'
    BY <1>2, <2>1 DEF ArrivalsSurviveSync
  <2>2. ASSUME NEW m \in Member, NEW files, tracker'[m].paths = tracker[m].paths \ files,
               due'[m] = due[m] \ files,
               \A n \in Member \ {m} : tracker'[n] = tracker[n] /\ due'[n] = due[n]
        PROVE  ArrivalsSurviveSync'
    BY <1>2, <2>2 DEF ArrivalsSurviveSync
  <2>3. ASSUME NEW x \in Request, HostPush(x) \/ HostRevert(x) \/ Amend(x)
        PROVE  ArrivalsSurviveSync'
    BY <2>1, <2>3 DEF HostPush, HostRevert, Amend, syncVars, ghosts
  <2>4. CASE Analysis
    BY <2>1, <2>4 DEF Analysis, syncVars, ghosts
  <2>5. ASSUME NEW m \in Member, Join(m) \/ Wire(m) \/ Dropped(m)
        PROVE  ArrivalsSurviveSync'
    BY <2>1, <2>5 DEF Join, Wire, Dropped, syncVars, ghosts
  <2>6. ASSUME NEW m \in Member, Ended(m)
        PROVE  ArrivalsSurviveSync'
    <3>1. CASE UNCHANGED <<tracker, due>>
      BY <2>1, <3>1
    <3>2. CASE tracker' = [tracker EXCEPT ![m] = Reset] /\ due' = [due EXCEPT ![m] = {}]
      BY <1>2, <3>2 DEF ArrivalsSurviveSync, FeedTypeOK
    <3>3. QED
      BY <2>6, <3>1, <3>2 DEF Ended
  <2>7. ASSUME NEW m \in Member, Deliver(m)
        PROVE  ArrivalsSurviveSync'
    <3> DEFINE f == Head(chan[m])
    <3>1. f \in Frames /\ (Received(m, f) \/ Unheard(m, f))
      BY <1>2, <2>7 DEF Deliver, FeedTypeOK
    <3>2. /\ f.push \in Request
          /\ f.type \in {"push", "reverted"} => f.files \in SUBSET File
      BY <3>1, FrameFacts
    <3> HIDE DEF f
    <3>3. CASE UNCHANGED <<tracker, due>>
      BY <2>1, <3>3
    <3>4. CASE Noted(m, f.push, f.files) /\ f.type \in {"push", "reverted"}
      <4>1. /\ tracker'[m].paths = tracker[m].paths \cup f.files
            /\ \A n \in Member \ {m} : tracker'[n] = tracker[n] /\ due'[n] = due[n]
            /\ due'[m] \subseteq due[m] \cup f.files
        BY <1>2, <3>2, <3>4, NotedType
      <4>2. QED
        BY <1>2, <4>1 DEF ArrivalsSurviveSync
    <3>5. QED
      BY <3>1, <3>3, <3>4, ReceivedCases DEF Unheard
  <2>8. ASSUME NEW m \in Member, OwnPush(m)
        PROVE  ArrivalsSurviveSync'
    <3>1. tracker[m]' = [tracker[m] EXCEPT !.latest = m, !.synced = m]
      BY <1>2, <2>8 DEF OwnPush, FeedTypeOK, Trackers
    <3>2. tracker[m]'.paths = tracker[m].paths
      BY <1>2, <3>1 DEF FeedTypeOK, Trackers
    <3>3. \A n \in Member \ {m} : tracker[n]' = tracker[n]
      BY <1>2, <2>8 DEF OwnPush, FeedTypeOK
    <3>4. due' = due
      BY <2>8 DEF OwnPush
    <3>5. QED
      BY <1>2, <3>2, <3>3, <3>4 DEF ArrivalsSurviveSync
  <2>9. ASSUME NEW m \in Member, NEW r \in Run, BeginSync(m, r) \/ VisitPath(m, r)
        PROVE  ArrivalsSurviveSync'
    <3>1. \E files \in SUBSET File :
             /\ tracker'[m].paths = tracker[m].paths \ files /\ due'[m] = due[m] \ files
             /\ \A n \in Member \ {m} : tracker'[n] = tracker[n] /\ due'[n] = due[n]
      BY <1>2, <2>9, SyncSteps, ProceedFacts
    <3>2. QED
      BY <2>2, <3>1
  <2>10. ASSUME NEW m \in Member, NEW r \in Run, SyncFails(m, r)
         PROVE  ArrivalsSurviveSync'
    BY <2>1, <2>10 DEF SyncFails
  <2>11. CASE UNCHANGED vars
    BY <2>1, <2>11 DEF vars, syncVars, ghosts
  <2>12. QED
    BY <1>2, <2>3, <2>4, <2>5, <2>6, <2>7, <2>8, <2>9, <2>10, <2>11 DEF Next
<1>3. QED
  BY <1>1, <1>2, FeedType, PTL DEF Spec

\* A member whose last listed file has been settled may stage again: the run that empties
\* the set, or another that ends after it, also acknowledges what was seen.
THEOREM MayStageAgain == Spec => []SettledMayStage
<1>1. Init => SettledMayStage
  BY DEF Init, SettledMayStage, InSync, Reset
<1>2. ASSUME FeedTypeOK, SettledMayStage, [Next]_vars
      PROVE  SettledMayStage'
  <2>1. ASSUME UNCHANGED <<tracker, sync, failed>>
        PROVE  SettledMayStage'
    BY <1>2, <2>1 DEF SettledMayStage, InSync
  <2>2. ASSUME NEW m \in Member,
               \A n \in Member \ {m} : /\ tracker'[n] = tracker[n] /\ sync'[n] = sync[n]
                                       /\ n \in failed' <=> n \in failed,
               \/ m \in failed' \/ tracker'[m].paths # {} \/ InSync(tracker'[m])
               \/ \E r \in Run : sync'[m][r] # None
        PROVE  SettledMayStage'
    BY <1>2, <2>2 DEF SettledMayStage, InSync
  <2>3. ASSUME NEW x \in Request, HostPush(x) \/ HostRevert(x) \/ Amend(x)
        PROVE  SettledMayStage'
    BY <2>1, <2>3 DEF HostPush, HostRevert, Amend, syncVars, ghosts
  <2>4. CASE Analysis
    BY <2>1, <2>4 DEF Analysis, syncVars, ghosts
  <2>5. ASSUME NEW m \in Member, Join(m) \/ Wire(m) \/ Dropped(m)
        PROVE  SettledMayStage'
    BY <2>1, <2>5 DEF Join, Wire, Dropped, syncVars, ghosts
  <2>6. ASSUME NEW m \in Member, Ended(m)
        PROVE  SettledMayStage'
    <3>1. UNCHANGED <<sync, failed>>
      BY <2>6 DEF Ended
    <3>2. CASE UNCHANGED tracker
      BY <2>1, <3>1, <3>2
    <3>3. CASE tracker' = [tracker EXCEPT ![m] = Reset]
      <4>1. tracker'[m] = Reset /\ \A n \in Member \ {m} : tracker'[n] = tracker[n]
        BY <1>2, <3>3 DEF FeedTypeOK
      <4>2. QED
        BY <2>2, <3>1, <4>1 DEF InSync, Reset
    <3>4. QED
      BY <2>6, <3>2, <3>3 DEF Ended
  <2>7. ASSUME NEW m \in Member, Deliver(m)
        PROVE  SettledMayStage'
    <3> DEFINE f == Head(chan[m])
    <3>1. /\ f \in Frames /\ (Received(m, f) \/ Unheard(m, f))
          /\ UNCHANGED <<sync, failed>>
      BY <1>2, <2>7 DEF Deliver, FeedTypeOK
    <3>2. /\ f.push \in Request
          /\ f.type \in {"push", "reverted"} => f.files \in (SUBSET File) \ {{}}
      BY <3>1, FrameFacts
    <3> HIDE DEF f
    <3>3. CASE UNCHANGED tracker
      BY <2>1, <3>1, <3>3
    <3>4. CASE Noted(m, f.push, f.files) /\ f.type \in {"push", "reverted"}
      <4>1. /\ tracker'[m].paths = tracker[m].paths \cup f.files
            /\ \A n \in Member \ {m} : tracker'[n] = tracker[n]
        BY <1>2, <3>2, <3>4, NotedType
      <4>2. tracker'[m].paths # {}
        BY <3>2, <3>4, <4>1
      <4>3. QED
        BY <2>2, <3>1, <4>1, <4>2
    <3>5. QED
      BY <3>1, <3>3, <3>4, ReceivedCases DEF Unheard
  <2>8. ASSUME NEW m \in Member, OwnPush(m)
        PROVE  SettledMayStage'
    <3>1. tracker'[m] = [tracker[m] EXCEPT !.latest = m, !.synced = m]
      BY <1>2, <2>8 DEF OwnPush, FeedTypeOK, Trackers
    <3>2. InSync(tracker'[m])
      BY <1>2, <3>1 DEF InSync, FeedTypeOK, Trackers
    <3>3. \A n \in Member \ {m} : tracker'[n] = tracker[n]
      BY <1>2, <2>8 DEF OwnPush, FeedTypeOK
    <3>4. UNCHANGED <<sync, failed>>
      BY <2>8 DEF OwnPush
    <3>5. QED
      BY <2>2, <3>2, <3>3, <3>4
  <2>9. ASSUME NEW m \in Member, NEW r \in Run, BeginSync(m, r) \/ VisitPath(m, r)
        PROVE  SettledMayStage'
    <3>1. /\ \A n \in Member \ {m} : /\ tracker'[n] = tracker[n] /\ sync'[n] = sync[n]
                                     /\ n \in failed' <=> n \in failed
          /\ \/ sync'[m][r] # None
             \/ tracker'[m].paths # {} \/ InSync(tracker'[m])
      BY <1>2, <2>9, SyncSteps, ProceedFacts
    <3>2. QED
      BY <2>2, <3>1
  <2>10. ASSUME NEW m \in Member, NEW r \in Run, SyncFails(m, r)
         PROVE  SettledMayStage'
    <3>1. /\ UNCHANGED tracker /\ failed' = failed \cup {m}
          /\ \A n \in Member \ {m} : sync'[n] = sync[n]
      BY <1>2, <2>10 DEF SyncFails, FeedTypeOK
    <3>2. QED
      BY <2>2, <3>1
  <2>11. CASE UNCHANGED vars
    BY <2>1, <2>11 DEF vars, syncVars, ghosts
  <2>12. QED
    BY <1>2, <2>3, <2>4, <2>5, <2>6, <2>7, <2>8, <2>9, <2>10, <2>11 DEF Next
<1>3. QED
  BY <1>1, <1>2, FeedType, PTL DEF Spec
-----------------------------------------------------------------------------
(* The order of frames *)

Comes(s, a) == \E i \in 1..Len(s) : s[i] = a
ComesBefore(s, a, b) == \E i, j \in 1..Len(s) : i < j /\ s[i] = a /\ s[j] = b
ComeInOrder(s, a, b, c) ==
    \E i, j, k \in 1..Len(s) : i < j /\ j < k /\ s[i] = a /\ s[j] = b /\ s[k] = c

\* What is on its way stays on its way when more is sent.
LEMMA SentAfter ==
    ASSUME NEW S, NEW s \in Seq(S), NEW t \in Seq(S), NEW a, NEW b, NEW c
    PROVE  /\ Comes(s, a) => Comes(s \o t, a)
           /\ ComesBefore(s, a, b) => ComesBefore(s \o t, a, b)
           /\ ComeInOrder(s, a, b, c) => ComeInOrder(s \o t, a, b, c)
<1>1. \A i \in 1..Len(s) : i \in 1..Len(s \o t) /\ (s \o t)[i] = s[i]
  OBVIOUS
<1>2. QED
  BY <1>1 DEF Comes, ComesBefore, ComeInOrder

\* Sending one frame or two puts them behind what is on its way.
LEMMA SentLast ==
    ASSUME NEW S, NEW s \in Seq(S), NEW a \in S, NEW b \in S, NEW c \in S
    PROVE  /\ Comes(s \o <<c>>, c)
           /\ Comes(s, b) => ComesBefore(s \o <<c>>, b, c)
           /\ ComesBefore(s, a, b) => ComeInOrder(s \o <<c>>, a, b, c)
           /\ ComesBefore(s \o <<b, c>>, b, c) /\ Comes(s \o <<b, c>>, c)
<1>1. /\ Len(s \o <<c>>) = Len(s) + 1 /\ (s \o <<c>>)[Len(s) + 1] = c
      /\ \A i \in 1..Len(s) : (s \o <<c>>)[i] = s[i]
  OBVIOUS
<1>2. /\ Len(s \o <<b, c>>) = Len(s) + 2
      /\ (s \o <<b, c>>)[Len(s) + 1] = b /\ (s \o <<b, c>>)[Len(s) + 2] = c
  OBVIOUS
<1>3. Len(s) \in Nat
  OBVIOUS
<1>4. Comes(s \o <<c>>, c)
  BY <1>1, <1>3 DEF Comes
<1>5. Comes(s, b) => ComesBefore(s \o <<c>>, b, c)
  BY <1>1, <1>3 DEF Comes, ComesBefore
<1>6. ComesBefore(s, a, b) => ComeInOrder(s \o <<c>>, a, b, c)
  BY <1>1, <1>3 DEF ComeInOrder, ComesBefore
<1>7. ComesBefore(s \o <<b, c>>, b, c) /\ Comes(s \o <<b, c>>, c)
  <2> DEFINE u == s \o <<b, c>>
  <2>1. /\ Len(s) + 1 \in 1..Len(u) /\ u[Len(s) + 1] = b
        /\ Len(s) + 2 \in 1..Len(u) /\ u[Len(s) + 2] = c
    BY <1>2, <1>3
  <2> HIDE DEF u
  <2>2. ComesBefore(u, b, c)
    BY <1>3, <2>1 DEF ComesBefore
  <2>3. Comes(u, c)
    BY <2>1 DEF Comes
  <2>4. QED
    BY <2>2, <2>3 DEF u
<1>8. QED
  BY <1>4, <1>5, <1>6, <1>7

\* Delivering the first frame leaves the others, in their order.
LEMMA Delivered ==
    ASSUME NEW S, NEW s \in Seq(S), s # <<>>, NEW a, NEW b, NEW c
    PROVE  /\ Head(s) # a =>
                /\ Comes(s, a) => Comes(Tail(s), a)
                /\ ComesBefore(s, a, b) => ComesBefore(Tail(s), a, b)
                /\ ComeInOrder(s, a, b, c) => ComeInOrder(Tail(s), a, b, c)
           /\ ComesBefore(s, a, b) => Comes(Tail(s), b)
           /\ ComeInOrder(s, a, b, c) => ComesBefore(Tail(s), b, c)
<1>1. /\ Head(s) = s[1] /\ Len(s) \in Nat /\ Len(Tail(s)) = Len(s) - 1
      /\ \A i \in 1..Len(s) - 1 : Tail(s)[i] = s[i + 1]
  OBVIOUS
<1>2. \A i \in 1..Len(s) : i # 1 => i - 1 \in 1..Len(Tail(s)) /\ Tail(s)[i - 1] = s[i]
  BY <1>1
<1>3. Head(s) # a /\ Comes(s, a) => Comes(Tail(s), a)
  BY <1>1, <1>2 DEF Comes
<1>4. ASSUME Head(s) # a, ComesBefore(s, a, b)
      PROVE  ComesBefore(Tail(s), a, b)
  <2>1. PICK i, j \in 1..Len(s) : i < j /\ s[i] = a /\ s[j] = b
    BY <1>4 DEF ComesBefore
  <2>2. i # 1 /\ j # 1
    BY <1>1, <1>4, <2>1
  <2>3. i - 1 < j - 1
    BY <2>1
  <2>4. QED
    BY <1>2, <2>1, <2>2, <2>3 DEF ComesBefore
<1>5. ASSUME Head(s) # a, ComeInOrder(s, a, b, c)
      PROVE  ComeInOrder(Tail(s), a, b, c)
  <2>1. PICK i, j, k \in 1..Len(s) : i < j /\ j < k /\ s[i] = a /\ s[j] = b /\ s[k] = c
    BY <1>5 DEF ComeInOrder
  <2>2. i # 1 /\ j # 1 /\ k # 1
    BY <1>1, <1>5, <2>1
  <2>3. i - 1 < j - 1 /\ j - 1 < k - 1
    BY <2>1
  <2>4. QED
    BY <1>2, <2>1, <2>2, <2>3 DEF ComeInOrder
<1>6. ASSUME ComesBefore(s, a, b)
      PROVE  Comes(Tail(s), b)
  <2>1. PICK i, j \in 1..Len(s) : i < j /\ s[i] = a /\ s[j] = b
    BY <1>6 DEF ComesBefore
  <2>2. j # 1
    BY <2>1
  <2>3. QED
    BY <1>2, <2>1, <2>2 DEF Comes
<1>7. ASSUME ComeInOrder(s, a, b, c)
      PROVE  ComesBefore(Tail(s), b, c)
  <2>1. PICK i, j, k \in 1..Len(s) : i < j /\ j < k /\ s[i] = a /\ s[j] = b /\ s[k] = c
    BY <1>7 DEF ComeInOrder
  <2>2. j # 1 /\ k # 1 /\ j - 1 < k - 1
    BY <2>1
  <2>3. QED
    BY <1>2, <2>1, <2>2 DEF ComesBefore
<1>8. QED
  BY <1>3, <1>4, <1>5, <1>6, <1>7

\* A frame comes at most once.
ComesOnce(s, a) == \A i, j \in 1..Len(s) : s[i] = a /\ s[j] = a => i = j

\* What is sent without another copy of a leaves it at one.
LEMMA SentOnce ==
    ASSUME NEW S, NEW s \in Seq(S), NEW t \in Seq(S), NEW a, ComesOnce(s, a),
           \/ ~Comes(t, a)
           \/ ~Comes(s, a) /\ ComesOnce(t, a)
    PROVE  /\ ComesOnce(s \o t, a)
           /\ ~Comes(t, a) /\ Comes(s \o t, a) => Comes(s, a)
<1>1. /\ Len(s) \in Nat /\ Len(t) \in Nat /\ Len(s \o t) = Len(s) + Len(t)
      /\ \A i \in 1..Len(s) : (s \o t)[i] = s[i]
      /\ \A i \in 1..Len(s) + Len(t) : i \notin 1..Len(s) =>
            i - Len(s) \in 1..Len(t) /\ (s \o t)[i] = t[i - Len(s)]
  OBVIOUS
<1> DEFINE u == s \o t
           k == Len(s)
           l == Len(t)
<1>2. /\ k \in Nat /\ l \in Nat /\ Len(u) = k + l
      /\ \A i \in 1..k : u[i] = s[i]
      /\ \A i \in 1..k + l : i \notin 1..k => i - k \in 1..l /\ u[i] = t[i - k]
  BY <1>1
<1>3. /\ ComesOnce(s, a) <=> \A i, j \in 1..k : s[i] = a /\ s[j] = a => i = j
      /\ ComesOnce(t, a) <=> \A i, j \in 1..l : t[i] = a /\ t[j] = a => i = j
      /\ Comes(s, a) <=> \E i \in 1..k : s[i] = a
      /\ Comes(t, a) <=> \E i \in 1..l : t[i] = a
  BY DEF Comes, ComesOnce
<1>4. ComesOnce(u, a) <=> \A i, j \in 1..k + l : u[i] = a /\ u[j] = a => i = j
  BY <1>2 DEF ComesOnce
<1>5. Comes(u, a) <=> \E i \in 1..k + l : u[i] = a
  BY <1>2 DEF Comes
<1> HIDE DEF u, k, l
<1>6. CASE ~Comes(t, a)
  <2>1. \A i \in 1..k + l : u[i] = a => i \in 1..k /\ s[i] = a
    BY <1>2, <1>3, <1>6
  <2>2. ComesOnce(u, a)
    BY <1>3, <1>4, <2>1
  <2>3. Comes(u, a) => Comes(s, a)
    BY <1>3, <1>5, <2>1
  <2>4. QED
    BY <2>2, <2>3 DEF u
<1>7. CASE ~Comes(s, a) /\ Comes(t, a) /\ ComesOnce(t, a)
  <2>1. \A i \in 1..k + l : u[i] = a => i \in Int /\ i - k \in 1..l /\ t[i - k] = a
    BY <1>2, <1>3, <1>7
  <2>2. ASSUME NEW i \in 1..k + l, NEW j \in 1..k + l, u[i] = a, u[j] = a
        PROVE  i = j
    <3>1. i - k = j - k
      BY <1>3, <1>7, <2>1, <2>2
    <3>2. QED
      BY <1>2, <3>1
  <2>3. ComesOnce(u, a)
    BY <1>4, <2>2
  <2>4. QED
    BY <1>7, <2>3 DEF u
<1>8. QED
  BY <1>6, <1>7

\* One of a kind is gone once it is delivered.
LEMMA DeliveredOnce ==
    ASSUME NEW S, NEW s \in Seq(S), s # <<>>, NEW a, ComesOnce(s, a)
    PROVE  /\ ComesOnce(Tail(s), a)
           /\ Comes(Tail(s), a) => Comes(s, a) /\ Head(s) # a
<1>1. /\ Head(s) = s[1] /\ Len(s) \in Nat \ {0} /\ Len(Tail(s)) = Len(s) - 1
      /\ \A i \in 1..Len(s) - 1 : i + 1 \in 1..Len(s) /\ Tail(s)[i] = s[i + 1]
  OBVIOUS
<1>2. ComesOnce(Tail(s), a)
  <2>1. ASSUME NEW i \in 1..Len(s) - 1, NEW j \in 1..Len(s) - 1,
               Tail(s)[i] = a, Tail(s)[j] = a
        PROVE  i = j
    <3>1. i + 1 = j + 1
      BY <1>1, <2>1 DEF ComesOnce
    <3>2. QED
      BY <1>1, <3>1
  <2>2. QED
    BY <1>1, <2>1 DEF ComesOnce
<1>3. ASSUME Comes(Tail(s), a)
      PROVE  Comes(s, a) /\ Head(s) # a
  <2>1. PICK i \in 1..Len(s) - 1 : Tail(s)[i] = a
    BY <1>1, <1>3 DEF Comes
  <2>2. i + 1 \in 1..Len(s) /\ i + 1 # 1 /\ s[i + 1] = a
    BY <1>1, <2>1
  <2>3. 1 \in 1..Len(s)
    BY <1>1
  <2>4. QED
    BY <1>1, <2>2, <2>3 DEF Comes, ComesOnce
<1>4. QED
  BY <1>2, <1>3

-----------------------------------------------------------------------------
(* Rows *)

\* What row x of m still lacks is on its way to m, in the order in which it helps.
Trail(m, x) ==
    /\ age[m][x] = 0 =>
          /\ ComesBefore(chan[m], Push(x), ChatEvent(x))
          /\ outcome[x] = "used" => ComeInOrder(chan[m], Push(x), ChatEvent(x), ChatAmend(x))
    /\ age[m][x] \in 1 .. RingCap =>
          /\ client[m] = "wired" /\ row[m][x] # "none"
          /\ row[m][x] = "added" =>
                /\ Comes(chan[m], ChatEvent(x))
                /\ outcome[x] = "used" => ComesBefore(chan[m], ChatEvent(x), ChatAmend(x))
          /\ row[m][x] = "linked" /\ outcome[x] = "used" => Comes(chan[m], ChatAmend(x))

\* A push is announced once, and has no row before.
Announced(m, x) ==
    /\ age[m][x] = 0 => row[m][x] = "none"
    /\ ComesOnce(chan[m], Push(x))
    /\ Comes(chan[m], Push(x)) => age[m][x] = 0
    /\ outcome[x] = "none" => age[m][x] = 0 /\ ~Comes(chan[m], Push(x))

Follows(m) ==
    /\ m \notin seated => owed[m] = {}
    /\ \A x \in owed[m] : Trail(m, x)
    /\ \A x \in Request : Announced(m, x)

Trails == \A m \in Member : Follows(m)

LEMMA TrailsGiveRows == FeedTypeOK /\ Trails => RowsFollowPushes
<1> SUFFICES ASSUME FeedTypeOK, Trails, NEW m \in Member, Quiet(m), NEW x \in owed[m],
                    age[m][x] <= RingCap
             PROVE  row[m][x] = "amended" \/ (row[m][x] = "linked" /\ outcome[x] # "used")
  BY DEF RowsFollowPushes
<1>1. Trail(m, x) /\ chan[m] = <<>> /\ x \in Request
  BY DEF Trails, Follows, Quiet, FeedTypeOK
<1>2. row[m][x] \in Marks /\ age[m][x] \in Nat
  BY <1>1 DEF FeedTypeOK
<1>3. \A a, b : ~Comes(<<>>, a) /\ ~ComesBefore(<<>>, a, b)
  BY DEF Comes, ComesBefore
<1>4. age[m][x] = 0 \/ age[m][x] \in 1 .. RingCap
  BY <1>2, RingAssumption
<1>5. QED
  BY <1>1, <1>2, <1>3, <1>4 DEF Trail, Marks

\* What is sent keeps the trails of pushes whose row and outcome stay.
LEMMA SendKeepsTrail ==
    ASSUME FeedTypeOK, NEW frames \in Seq(Frames), Send(frames), NEW m \in Member,
           m \in seated, UNCHANGED <<row, age, client>>, NEW x \in Request, Trail(m, x),
           outcome'[x] = "used" => outcome[x] = "used"
    PROVE  Trail(m, x)'
<1>1. chan[m] \in Seq(Frames) /\ chan'[m] = chan[m] \o frames
  BY DEF FeedTypeOK, Send
<1>2. Push(x)' = Push(x) /\ ChatEvent(x)' = ChatEvent(x) /\ ChatAmend(x)' = ChatAmend(x)
  BY DEF Push, ChatEvent, ChatAmend, Frame
<1>3. QED
  BY <1>1, <1>2, SentAfter DEF Trail

\* So does it keep what is known of announcements, if it holds none of the push.
LEMMA SendKeepsAnnounced ==
    ASSUME FeedTypeOK, NEW frames \in Seq(Frames), Send(frames), NEW m \in Member,
           UNCHANGED <<row, age>>, NEW x \in Request, Announced(m, x), ~Comes(frames, Push(x)),
           outcome'[x] = "none" => outcome[x] = "none"
    PROVE  Announced(m, x)'
<1>1. chan[m] \in Seq(Frames) /\ chan'[m] = IF m \in seated THEN chan[m] \o frames ELSE <<>>
  BY DEF FeedTypeOK, Send
<1>2. ComesOnce(<<>>, Push(x)) /\ ~Comes(<<>>, Push(x))
  BY DEF Comes, ComesOnce
<1>3. QED
  BY <1>1, <1>2, SentOnce DEF Announced

\* What reading a frame does to the row of x.
LEMMA DeliverRow ==
    ASSUME FeedTypeOK, NEW m \in Member, client[m] = "wired", NEW f \in Frames,
           Received(m, f), NEW x \in Request
    PROVE  /\ f = Push(x) => age'[m][x] = 1 /\ row'[m][x] = "added"
           /\ f # Push(x) =>
                 /\ age[m][x] = 0 => age'[m][x] = 0
                 /\ age'[m][x] \in 1 .. RingCap =>
                       /\ age[m][x] \in 1 .. RingCap
                       /\ row'[m][x] = IF f = ChatEvent(x) /\ row[m][x] = "added" THEN "linked"
                                       ELSE IF f = ChatAmend(x) /\ row[m][x] = "linked"
                                       THEN "amended" ELSE row[m][x]
                 /\ age'[m][x] = 0 => age[m][x] = 0 /\ (row[m][x] = "none" => row'[m][x] = "none")
<1>1. /\ f.push \in Request /\ {f.push} \in SUBSET Request /\ {} \in SUBSET Request
      /\ age[m][x] \in Nat /\ RingCap \in Nat /\ 1 <= RingCap
      /\ "linked" \in Marks /\ "amended" \in Marks
  BY FrameFacts, RingAssumption DEF FeedTypeOK, Marks
<1>2. /\ f = Push(x) <=> f.type = "push" /\ f.push = x
      /\ f = ChatEvent(x) <=> f.type = "event" /\ f.push = x
      /\ f = ChatAmend(x) <=> f.type = "amend" /\ f.push = x
  BY FrameFacts, FramesDiffer
<1>3. ASSUME NEW xs \in SUBSET Request, Added(m, xs), x \in xs
      PROVE  age'[m][x] = 1 /\ row'[m][x] = "added"
  BY <1>3, AddedFacts
<1>4. ASSUME NEW xs \in SUBSET Request, Added(m, xs), x \notin xs
      PROVE  /\ age[m][x] = 0 => age'[m][x] = 0
             /\ age'[m][x] = 0 => age[m][x] = 0 /\ row'[m][x] = row[m][x]
             /\ age'[m][x] \in 1 .. RingCap =>
                   age[m][x] \in 1 .. RingCap /\ row'[m][x] = row[m][x]
  <2>1. /\ age'[m][x] = IF age[m][x] \in 1 .. RingCap THEN age[m][x] + 1 ELSE age[m][x]
        /\ age'[m][x] <= RingCap => row'[m][x] = row[m][x]
    BY <1>4, AddedFacts
  <2>2. QED
    BY <1>1, <2>1
<1>5. CASE f.type = "push" /\ Added(m, {f.push})
  BY <1>1, <1>2, <1>3, <1>4, <1>5
<1>6. CASE f.type = "reverted" /\ Added(m, {})
  BY <1>1, <1>2, <1>4, <1>6
<1>7. CASE f.type = "event" /\ Row(m, f.push, "added", "linked")
  <2>1. /\ UNCHANGED age
        /\ row'[m][x] = IF x = f.push /\ row[m][f.push] = "added" THEN "linked" ELSE row[m][x]
    BY <1>1, <1>7, RowFacts
  <2>2. f # Push(x) /\ f # ChatAmend(x)
    BY <1>2, <1>7
  <2>3. QED
    BY <1>2, <1>7, <2>1, <2>2
<1>8. CASE f.type = "amend" /\ Row(m, f.push, "linked", "amended")
  <2>1. /\ UNCHANGED age
        /\ row'[m][x] = IF x = f.push /\ row[m][f.push] = "linked" THEN "amended" ELSE row[m][x]
    BY <1>1, <1>8, RowFacts
  <2>2. f # Push(x) /\ f # ChatEvent(x)
    BY <1>2, <1>8
  <2>3. QED
    BY <1>2, <1>8, <2>1, <2>2
<1>9. QED
  BY <1>5, <1>6, <1>7, <1>8, ReceivedCases

LEMMA DeliverKeepsTrail ==
    ASSUME FeedTypeOK, NEW m \in Member, Deliver(m), NEW x \in Request, Announced(m, x),
           Trail(m, x), x \in owed'[m]
    PROVE  Trail(m, x)'
<1> DEFINE f == Head(chan[m])
           p == Push(x)
           e == ChatEvent(x)
           a == ChatAmend(x)
           c == chan[m]
<1>1. /\ c \in Seq(Frames) /\ c # <<>> /\ f \in Frames /\ chan'[m] = Tail(c)
      /\ UNCHANGED <<outcome, client>>
      /\ \/ client[m] = "wired" /\ Received(m, f)
         \/ client[m] # "wired" /\ Unheard(m, f)
  BY DEF FeedTypeOK, Deliver, astVars
<1>2. p # e /\ p # a /\ e # a
  BY FramesDiffer
<1>3. /\ f # p => /\ ComesBefore(c, p, e) => ComesBefore(Tail(c), p, e)
                  /\ ComeInOrder(c, p, e, a) => ComeInOrder(Tail(c), p, e, a)
      /\ f # e => /\ Comes(c, e) => Comes(Tail(c), e)
                  /\ ComesBefore(c, e, a) => ComesBefore(Tail(c), e, a)
      /\ f # a /\ Comes(c, a) => Comes(Tail(c), a)
      /\ ComesBefore(c, p, e) => Comes(Tail(c), e)
      /\ ComeInOrder(c, p, e, a) => ComesBefore(Tail(c), e, a)
      /\ ComesBefore(c, e, a) => Comes(Tail(c), a)
  <2>1. f # p => /\ ComesBefore(c, p, e) => ComesBefore(Tail(c), p, e)
                 /\ ComeInOrder(c, p, e, a) => ComeInOrder(Tail(c), p, e, a)
    BY <1>1, Delivered
  <2>2. f # e => /\ Comes(c, e) => Comes(Tail(c), e)
                 /\ ComesBefore(c, e, a) => ComesBefore(Tail(c), e, a)
    BY <1>1, Delivered
  <2>3. f # a /\ Comes(c, a) => Comes(Tail(c), a)
    BY <1>1, Delivered
  <2>4. /\ ComesBefore(c, p, e) => Comes(Tail(c), e)
        /\ ComeInOrder(c, p, e, a) => ComesBefore(Tail(c), e, a)
    BY <1>1, Delivered
  <2>5. ComesBefore(c, e, a) => Comes(Tail(c), a)
    BY <1>1, Delivered
  <2>6. QED
    BY <2>1, <2>2, <2>3, <2>4, <2>5
<1>4. /\ age[m][x] = 0 =>
            /\ ComesBefore(c, p, e)
            /\ outcome[x] = "used" => ComeInOrder(c, p, e, a)
      /\ age[m][x] \in 1 .. RingCap =>
            /\ client[m] = "wired" /\ row[m][x] # "none"
            /\ row[m][x] = "added" =>
                  /\ Comes(c, e)
                  /\ outcome[x] = "used" => ComesBefore(c, e, a)
            /\ row[m][x] = "linked" /\ outcome[x] = "used" => Comes(c, a)
  BY DEF Trail
<1>5. Comes(c, p) => age[m][x] = 0
  BY DEF Announced
<1>6. f = p => Comes(c, p)
  BY <1>1 DEF Comes
<1> HIDE DEF f, p, e, a, c
<1>7. /\ age'[m][x] = 0 =>
            /\ ComesBefore(Tail(c), p, e)
            /\ outcome[x] = "used" => ComeInOrder(Tail(c), p, e, a)
      /\ age'[m][x] \in 1 .. RingCap =>
            /\ client[m] = "wired" /\ row'[m][x] # "none"
            /\ row'[m][x] = "added" =>
                  /\ Comes(Tail(c), e)
                  /\ outcome[x] = "used" => ComesBefore(Tail(c), e, a)
            /\ row'[m][x] = "linked" /\ outcome[x] = "used" => Comes(Tail(c), a)
  <2>1. CASE client[m] # "wired" /\ Unheard(m, f)
    <3>1. UNCHANGED <<row, age>>
      BY <2>1 DEF Unheard, rows
    <3>2. f # p
      BY <2>1, FramesDiffer DEF Unheard, FeedTypeOK, p
    <3>3. QED
      BY <1>3, <1>4, <2>1, <3>1, <3>2
  <2>2. CASE client[m] = "wired" /\ Received(m, f) /\ f = p
    <3>1. age'[m][x] = 1 /\ row'[m][x] = "added"
      BY <1>1, <2>2, DeliverRow DEF p
    <3>2. age[m][x] = 0
      BY <1>5, <1>6, <2>2
    <3>3. QED
      BY <1>3, <1>4, <2>2, <3>1, <3>2
  <2>3. CASE client[m] = "wired" /\ Received(m, f) /\ f # p
    <3>1. /\ age'[m][x] = 0 => age[m][x] = 0 /\ (row[m][x] = "none" => row'[m][x] = "none")
          /\ age'[m][x] \in 1 .. RingCap =>
                /\ age[m][x] \in 1 .. RingCap
                /\ row'[m][x] = IF f = e /\ row[m][x] = "added" THEN "linked"
                                ELSE IF f = a /\ row[m][x] = "linked" THEN "amended"
                                ELSE row[m][x]
      BY <1>1, <2>3, DeliverRow DEF p, e, a
    <3>2. CASE age'[m][x] = 0
      BY <1>3, <1>4, <2>3, <3>1, <3>2
    <3>3. CASE age'[m][x] \in 1 .. RingCap
      BY <1>2, <1>3, <1>4, <2>3, <3>1, <3>3, RingAssumption
    <3>4. QED
      BY <3>2, <3>3
  <2>4. QED
    BY <1>1, <2>1, <2>2, <2>3
<1>8. p' = p /\ e' = e /\ a' = a /\ c' = Tail(c)
  BY <1>1 DEF p, e, a, c, Push, ChatEvent, ChatAmend, Frame
<1>9. QED
  BY <1>1, <1>7, <1>8 DEF Trail, p, e, a, c

LEMMA DeliverKeepsAnnounced ==
    ASSUME FeedTypeOK, NEW m \in Member, Deliver(m), NEW x \in Request, Announced(m, x)
    PROVE  Announced(m, x)'
<1> DEFINE f == Head(chan[m])
           c == chan[m]
<1>1. /\ c \in Seq(Frames) /\ c # <<>> /\ f \in Frames /\ chan'[m] = Tail(c)
      /\ UNCHANGED outcome
      /\ \/ client[m] = "wired" /\ Received(m, f)
         \/ Unheard(m, f)
  BY DEF FeedTypeOK, Deliver, astVars
<1>2. /\ age[m][x] = 0 => row[m][x] = "none"
      /\ ComesOnce(c, Push(x))
      /\ Comes(c, Push(x)) => age[m][x] = 0
      /\ outcome[x] = "none" => age[m][x] = 0 /\ ~Comes(c, Push(x))
  BY DEF Announced
<1>3. /\ ComesOnce(Tail(c), Push(x))
      /\ Comes(Tail(c), Push(x)) => Comes(c, Push(x)) /\ f # Push(x)
  BY <1>1, <1>2, DeliveredOnce
<1>4. f = Push(x) => Comes(c, Push(x))
  BY <1>1 DEF Comes
<1>5. /\ f # Push(x) /\ age[m][x] = 0 => age'[m][x] = 0
      /\ age'[m][x] = 0 => age[m][x] = 0 /\ (row[m][x] = "none" => row'[m][x] = "none")
  <2> HIDE DEF f, c
  <2>1. CASE Unheard(m, f)
    BY <2>1 DEF Unheard, rows
  <2>2. CASE client[m] = "wired" /\ Received(m, f)
    BY <1>1, <2>2, DeliverRow
  <2>3. QED
    BY <1>1, <2>1, <2>2
<1>6. QED
  BY <1>1, <1>2, <1>3, <1>4, <1>5 DEF Announced

\* Frames for others, and steps of others, disturb nothing of m.
LEMMA DeliverToAnother ==
    ASSUME FeedTypeOK, NEW n \in Member, Deliver(n), NEW m \in Member, m # n
    PROVE  /\ row'[m] = row[m] /\ age'[m] = age[m] /\ chan'[m] = chan[m]
           /\ owed'[m] = owed[m]
<1> DEFINE f == Head(chan[n])
<1>1. /\ f \in Frames /\ chan'[m] = chan[m]
      /\ (Received(n, f) /\ UNCHANGED owed) \/ Unheard(n, f)
  BY DEF Deliver, FeedTypeOK
<1>2. /\ f.push \in Request /\ {f.push} \in SUBSET Request /\ {} \in SUBSET Request
      /\ "linked" \in Marks /\ "amended" \in Marks
  BY <1>1, FrameFacts DEF Marks
<1> HIDE DEF f
<1>3. CASE Unheard(n, f)
  BY <1>1, <1>3 DEF Unheard, rows, FeedTypeOK
<1>4. CASE Received(n, f) /\ UNCHANGED owed
  <2>1. CASE Added(n, {f.push}) \/ Added(n, {})
    BY <1>1, <1>2, <1>4, <2>1, AddedFacts
  <2>2. CASE Row(n, f.push, "added", "linked") \/ Row(n, f.push, "linked", "amended")
    BY <1>1, <1>2, <1>4, <2>2, RowFacts
  <2>3. QED
    BY <1>1, <1>4, <2>1, <2>2, ReceivedCases
<1>5. QED
  BY <1>1, <1>3, <1>4

\* The steps of the analysis neither use a result nor withdraw a push.
LEMMA AnalysisUsesNothing ==
    ASSUME Analysis, NEW x \in Request, outcome'[x] \in {"used", "none"}
    PROVE  outcome[x] = outcome'[x]
<1>1. ASSUME NEW y \in Request, Analyze(y)
      PROVE  outcome[x] = outcome'[x]
  BY <1>1 DEF Analyze, RequestFails, RequestSent, Settle
<1>2. ASSUME NEW y \in Request, Answer(y)
      PROVE  outcome[x] = outcome'[x]
  BY <1>2 DEF Answer, Answers, Settle
<1>3. ASSUME NEW y \in Request, TimedOut(y)
      PROVE  outcome[x] = outcome'[x]
  BY <1>3 DEF TimedOut, Settle
<1>4. CASE WorkerExits
  BY <1>4 DEF WorkerExits, Settle
<1>5. CASE Cooled
  BY <1>5 DEF Cooled
<1>6. QED
  BY <1>1, <1>2, <1>3, <1>4, <1>5 DEF Analysis

\* A push whose announcement has reached a member's listeners has its row, linked to its
\* event, once all frames have come, and the amend finds that row, while no more than RingCap
\* entries are newer.
THEOREM RowsFollow == Spec => []RowsFollowPushes
<1>1. Init => Trails
  BY DEF Init, AstInit, Trails, Follows, Announced, Nobody, Comes, ComesOnce
<1>2. ASSUME FeedTypeOK, Trails, [Next]_vars
      PROVE  Trails'
  <2> SUFFICES ASSUME NEW m \in Member
               PROVE  Follows(m)'
    BY DEF Trails
  <2>1. /\ m \notin seated => owed[m] = {}
        /\ \A x \in owed[m] : Trail(m, x)
        /\ owed[m] \subseteq Request
        /\ \A x \in Request : Announced(m, x)
    BY <1>2 DEF Trails, Follows, FeedTypeOK
  <2>2. ASSUME m \notin seated' => owed'[m] = {}, owed'[m] \subseteq owed[m],
               chan'[m] = chan[m], row'[m] = row[m], age'[m] = age[m],
               client[m] = "wired" => client'[m] = "wired",
               \A x \in Request : outcome'[x] \in {"used", "none"} => outcome[x] = outcome'[x]
        PROVE  Follows(m)'
    <3>1. ASSUME NEW x \in owed'[m]
          PROVE  Trail(m, x)'
      BY <2>1, <2>2, <3>1 DEF Trail, Push, ChatEvent, ChatAmend, Frame
    <3>2. ASSUME NEW x \in Request
          PROVE  Announced(m, x)'
      BY <2>1, <2>2, <3>2 DEF Announced, Push, Frame
    <3>3. QED
      BY <2>2, <3>1, <3>2 DEF Follows
  <2>3. ASSUME NEW frames \in Seq(Frames), Send(frames), UNCHANGED <<seated, client, row, age>>,
               NEW ys \in SUBSET Request,
               \A y \in Request \ ys :
                  /\ ~Comes(frames, Push(y))
                  /\ outcome'[y] = "used" => outcome[y] = "used"
                  /\ outcome'[y] = "none" => outcome[y] = "none",
               owed'[m] \ ys \subseteq owed[m], m \notin seated => owed'[m] = {},
               \A y \in ys : Announced(m, y)',
               m \in seated => \A y \in ys \cap owed'[m] : Trail(m, y)'
        PROVE  Follows(m)'
    <3>1. ASSUME NEW y \in Request \ ys
          PROVE  Announced(m, y)'
      BY <1>2, <2>1, <2>3, <3>1, SendKeepsAnnounced
    <3>2. ASSUME m \in seated, NEW y \in owed'[m] \ ys
          PROVE  Trail(m, y)'
      BY <1>2, <2>1, <2>3, <3>2, SendKeepsTrail
    <3>3. QED
      BY <2>3, <3>1, <3>2 DEF Follows
  <2>4. ASSUME NEW x \in Request, HostPush(x)
        PROVE  Follows(m)'
    <3> DEFINE sent == <<Push(x), ChatEvent(x)>>
    <3>1. /\ sent \in Seq(Frames) /\ Send(sent) /\ UNCHANGED <<seated, client, row, age>>
          /\ \A y \in Request \ {x} : outcome'[y] = outcome[y]
          /\ outcome[x] = "none" /\ outcome'[x] = "asked"
          /\ owed'[m] = IF m \in seated THEN owed[m] \cup {x} ELSE {}
      BY <2>4, FramesSent DEF HostPush, Settle, rows
    <3>2. /\ ComesOnce(sent, Push(x)) /\ \A y \in Request \ {x} : ~Comes(sent, Push(y))
      <4>1. /\ Push(x) # ChatEvent(x)
            /\ \A y \in Request \ {x} : Push(x) # Push(y) /\ ChatEvent(x) # Push(y)
        BY FramesDiffer
      <4>2. Len(sent) = 2 /\ sent[1] = Push(x) /\ sent[2] = ChatEvent(x)
        OBVIOUS
      <4> HIDE DEF sent
      <4>3. QED
        BY <4>1, <4>2 DEF Comes, ComesOnce
    <3>3. /\ chan[m] \in Seq(Frames)
          /\ chan'[m] = IF m \in seated THEN chan[m] \o sent ELSE <<>>
      BY <1>2, <3>1 DEF FeedTypeOK, Send
    <3>4. age[m][x] = 0 /\ ~Comes(chan[m], Push(x))
      BY <2>1, <3>1 DEF Announced
    <3>5. Announced(m, x)'
      <4>1. ComesOnce(chan'[m], Push(x))
        <5>1. ComesOnce(<<>>, Push(x)) /\ ComesOnce(chan[m], Push(x))
          BY <2>1 DEF ComesOnce, Announced
        <5> HIDE DEF sent
        <5>2. QED
          BY <3>1, <3>2, <3>3, <3>4, <5>1, SentOnce
      <4>2. /\ Push(x)' = Push(x) /\ age'[m][x] = 0 /\ outcome'[x] # "none"
            /\ row'[m][x] = "none"
        BY <2>1, <3>1, <3>4 DEF Announced, Push, Frame
      <4>3. QED
        BY <4>1, <4>2 DEF Announced
    <3>6. ASSUME m \in seated
          PROVE  Trail(m, x)'
      <4>1. ComesBefore(chan'[m], Push(x), ChatEvent(x))
        BY <3>3, <3>6, FramesSent, SentLast
      <4>2. age'[m][x] = 0 /\ outcome'[x] # "used"
        BY <3>1, <3>4
      <4>3. Push(x)' = Push(x) /\ ChatEvent(x)' = ChatEvent(x) /\ ChatAmend(x)' = ChatAmend(x)
        BY DEF Push, ChatEvent, ChatAmend, Frame
      <4>4. QED
        BY <4>1, <4>2, <4>3, RingAssumption DEF Trail
    <3> HIDE DEF sent
    <3>7. /\ \A y \in {x} : Announced(m, y)'
          /\ m \in seated => \A y \in {x} \cap owed'[m] : Trail(m, y)'
      BY <3>5, <3>6
    <3>8. /\ \A y \in Request \ {x} :
                /\ ~Comes(sent, Push(y))
                /\ outcome'[y] = "used" => outcome[y] = "used"
                /\ outcome'[y] = "none" => outcome[y] = "none"
          /\ owed'[m] \ {x} \subseteq owed[m] /\ (m \notin seated => owed'[m] = {})
          /\ {x} \in SUBSET Request
      BY <3>1, <3>2
    <3>9. QED
      BY <2>3, <3>1, <3>7, <3>8
  <2>5. ASSUME NEW x \in Request, HostRevert(x)
        PROVE  Follows(m)'
    <3> DEFINE f == Frame("reverted", x, Files[x])
    <3>1. Send(<<f>>)
      BY <2>5 DEF HostRevert
    <3>2. f \in Frames /\ <<f>> \in Seq(Frames)
      BY FilesAssumption DEF Frames, Reverted
    <3>3. \A y \in Request : ~Comes(<<f>>, Push(y))
      <4>1. \A y \in Request : f # Push(y)
        BY DEF Push, Frame
      <4> HIDE DEF f
      <4>2. QED
        BY <4>1 DEF Comes
    <3>4. UNCHANGED <<seated, client, row, age, owed, outcome>>
      BY <2>5 DEF HostRevert, ghosts, astVars, rows
    <3> HIDE DEF f
    <3>5. ASSUME NEW y \in Request
          PROVE  Announced(m, y)'
      BY <1>2, <2>1, <3>1, <3>2, <3>3, <3>4, <3>5, SendKeepsAnnounced
    <3>6. ASSUME m \in seated, NEW y \in owed'[m]
          PROVE  Trail(m, y)'
      <4>1. y \in owed[m] /\ y \in Request
        BY <1>2, <3>4, <3>6 DEF FeedTypeOK
      <4>2. QED
        BY <1>2, <2>1, <3>1, <3>2, <3>3, <3>4, <3>6, <4>1, SendKeepsTrail
    <3>7. m \notin seated => owed'[m] = {}
      BY <2>1, <3>4
    <3>8. QED
      BY <3>4, <3>5, <3>6, <3>7 DEF Follows
  <2>6. ASSUME NEW x \in Request, Amend(x)
        PROVE  Follows(m)'
    <3> DEFINE sent == <<ChatAmend(x)>>
    <3>1. /\ sent \in Seq(Frames) /\ Send(sent)
          /\ UNCHANGED <<seated, client, row, age, owed>>
          /\ outcome[x] = "found" /\ outcome'[x] = "used"
          /\ \A y \in Request \ {x} : outcome'[y] = outcome[y]
      BY <2>6, FramesSent DEF Amend, Settle, ghosts, rows
    <3>2. \A y \in Request : ~Comes(sent, Push(y))
      <4>1. \A y \in Request : ChatAmend(x) # Push(y)
        BY FramesDiffer
      <4>2. QED
        BY <4>1 DEF Comes
    <3>3. Announced(m, x)'
      BY <1>2, <2>1, <3>1, <3>2, SendKeepsAnnounced
    <3>4. ASSUME m \in seated, x \in owed[m]
          PROVE  Trail(m, x)'
      <4>1. chan[m] \in Seq(Frames) /\ chan'[m] = chan[m] \o sent
        BY <1>2, <3>1, <3>4 DEF FeedTypeOK, Send
      <4>2. /\ age[m][x] = 0 =>
                  ComesBefore(chan[m], Push(x), ChatEvent(x))
            /\ age[m][x] \in 1 .. RingCap =>
                  /\ client[m] = "wired" /\ row[m][x] # "none"
                  /\ row[m][x] = "added" => Comes(chan[m], ChatEvent(x))
        BY <2>1, <3>4 DEF Trail
      <4>3. /\ Comes(chan'[m], ChatAmend(x))
            /\ Comes(chan[m], ChatEvent(x)) =>
                  ComesBefore(chan'[m], ChatEvent(x), ChatAmend(x))
            /\ ComesBefore(chan[m], Push(x), ChatEvent(x)) =>
                  ComeInOrder(chan'[m], Push(x), ChatEvent(x), ChatAmend(x))
        BY <4>1, FramesSent, SentLast
      <4>4. /\ Comes(chan[m], ChatEvent(x)) => Comes(chan'[m], ChatEvent(x))
            /\ ComesBefore(chan[m], Push(x), ChatEvent(x)) =>
                  ComesBefore(chan'[m], Push(x), ChatEvent(x))
        BY <3>1, <4>1, SentAfter
      <4>5. Push(x)' = Push(x) /\ ChatEvent(x)' = ChatEvent(x) /\ ChatAmend(x)' = ChatAmend(x)
        BY DEF Push, ChatEvent, ChatAmend, Frame
      <4>6. QED
        BY <3>1, <4>2, <4>3, <4>4, <4>5 DEF Trail
    <3> HIDE DEF sent
    <3>5. /\ \A y \in {x} : Announced(m, y)'
          /\ m \in seated => \A y \in {x} \cap owed'[m] : Trail(m, y)'
      BY <3>1, <3>3, <3>4
    <3>6. /\ \A y \in Request \ {x} :
                /\ ~Comes(sent, Push(y))
                /\ outcome'[y] = "used" => outcome[y] = "used"
                /\ outcome'[y] = "none" => outcome[y] = "none"
          /\ owed'[m] \ {x} \subseteq owed[m] /\ (m \notin seated => owed'[m] = {})
          /\ {x} \in SUBSET Request
      BY <2>1, <3>1, <3>2
    <3>7. QED
      BY <2>3, <3>1, <3>5, <3>6
  <2>7. CASE Analysis
    BY <2>1, <2>2, <2>7, AnalysisUsesNothing DEF Analysis, memberVars, ghosts, rows
  <2>8. ASSUME NEW n \in Member, Join(n) \/ Wire(n)
        PROVE  Follows(m)'
    <3>1. client[m] = "wired" => client'[m] = "wired"
      BY <1>2, <2>8 DEF Join, Wire, FeedTypeOK
    <3>2. UNCHANGED <<owed, chan, row, age, outcome>> /\ seated \subseteq seated'
      BY <2>8 DEF Join, Wire, ghosts, astVars, rows
    <3>3. QED
      BY <2>1, <2>2, <3>1, <3>2
  <2>9. ASSUME NEW n \in Member, Dropped(n) \/ Ended(n)
        PROVE  Follows(m)'
    <3>1. Gone(n) /\ UNCHANGED <<row, age, outcome>>
      BY <2>9 DEF Dropped, Ended, rows, astVars
    <3>2. CASE m = n
      <4>1. chan'[m] = <<>> /\ owed'[m] = {}
        BY <1>2, <3>1, <3>2, GoneType
      <4>2. \A x \in Request : ComesOnce(<<>>, Push(x)) /\ ~Comes(<<>>, Push(x))
        BY DEF Comes, ComesOnce
      <4>3. ASSUME NEW x \in Request
            PROVE  Announced(m, x)'
        BY <2>1, <3>1, <4>1, <4>2 DEF Announced, Push, Frame
      <4>4. QED
        BY <4>1, <4>3 DEF Follows
    <3>3. CASE m # n
      <4>1. /\ owed'[m] = owed[m] /\ chan'[m] = chan[m]
            /\ m \in seated => m \in seated'
        BY <1>2, <3>1, <3>3, GoneType DEF Gone
      <4>2. client'[m] = client[m]
        BY <1>2, <2>9, <3>3 DEF Dropped, Ended, FeedTypeOK
      <4>3. QED
        BY <2>1, <2>2, <3>1, <4>1, <4>2
    <3>4. QED
      BY <3>2, <3>3
  <2>10. ASSUME NEW n \in Member, Deliver(n)
         PROVE  Follows(m)'
    <3>1. UNCHANGED <<seated, outcome, client>>
      BY <2>10 DEF Deliver, astVars
    <3>2. CASE m = n
      <4>1. owed'[m] \subseteq owed[m]
        BY <1>2, <2>10, <3>2 DEF Deliver, Unheard, FeedTypeOK
      <4>2. ASSUME NEW x \in owed'[m]
            PROVE  Trail(m, x)'
        BY <1>2, <2>1, <2>10, <3>2, <4>1, <4>2, DeliverKeepsTrail
      <4>3. ASSUME NEW x \in Request
            PROVE  Announced(m, x)'
        BY <1>2, <2>1, <2>10, <3>2, <4>3, DeliverKeepsAnnounced
      <4>4. QED
        BY <2>1, <3>1, <4>1, <4>2, <4>3 DEF Follows
    <3>3. CASE m # n
      BY <1>2, <2>1, <2>2, <2>10, <3>1, <3>3, DeliverToAnother
    <3>4. QED
      BY <3>2, <3>3
  <2>11. ASSUME NEW n \in Member, \/ OwnPush(n)
                                  \/ \E r \in Run : \/ BeginSync(n, r) \/ VisitPath(n, r)
                                                    \/ SyncFails(n, r)
         PROVE  Follows(m)'
    <3>1. UNCHANGED <<seated, client, owed, chan, row, age, outcome>>
      BY <2>11 DEF OwnPush, BeginSync, VisitPath, SyncFails, memberVars, astVars, rows
    <3>2. QED
      BY <2>1, <2>2, <3>1
  <2>12. CASE UNCHANGED vars
    BY <2>1, <2>2, <2>12 DEF vars, memberVars, ghosts, astVars, rows
  <2>13. QED
    BY <1>2, <2>4, <2>5, <2>6, <2>7, <2>8, <2>9, <2>10, <2>11, <2>12 DEF Next
<1>3. QED
  BY <1>1, <1>2, TrailsGiveRows, FeedType, PTL DEF Spec
-----------------------------------------------------------------------------
(* The analysis *)

\* An analysis whose promise is open is pending, so that its timer runs, and none that is
\* pending has been answered: analyzeChange() is settled once.  With the timers' fairness
\* this is why every analysis ends.
WaitingIsPending == pending = {x \in Request : outcome[x] = "waiting"}

THEOREM OpenPromisesArePending == Spec => []WaitingIsPending
<1>1. Init => WaitingIsPending
  BY DEF Init, AstInit, WaitingIsPending
<1>2. ASSUME WaitingIsPending, [Next]_vars
      PROVE  WaitingIsPending'
  <2>1. ASSUME NEW x \in Request, HostPush(x) \/ Amend(x)
        PROVE  WaitingIsPending'
    <3>1. /\ UNCHANGED pending /\ outcome[x] # "waiting" /\ outcome'[x] # "waiting"
          /\ \A y \in Request \ {x} : outcome'[y] = outcome[y]
      BY <2>1 DEF HostPush, Amend, Settle
    <3>2. QED
      BY <1>2, <3>1 DEF WaitingIsPending
  <2>2. ASSUME UNCHANGED astVars
        PROVE  WaitingIsPending'
    BY <1>2, <2>2 DEF astVars, WaitingIsPending
  <2>3. ASSUME NEW x \in Request, Analyze(x)
        PROVE  WaitingIsPending'
    <3>1. \A y \in Request \ {x} : outcome'[y] = outcome[y]
      BY <2>3 DEF Analyze, RequestFails, RequestSent, Settle
    <3>2. \/ outcome'[x] = "waiting" /\ pending' = pending \cup {x}
          \/ outcome'[x] = "empty" /\ outcome[x] # "waiting" /\ pending' = pending
      BY <2>3 DEF Analyze, RequestFails, RequestSent, Settle
    <3>3. QED
      BY <1>2, <3>1, <3>2 DEF WaitingIsPending
  <2>4. ASSUME NEW x \in Request, Answer(x) \/ TimedOut(x)
        PROVE  WaitingIsPending'
    <3>1. /\ pending' = pending \ {x} /\ outcome'[x] # "waiting"
          /\ \A y \in Request \ {x} : outcome'[y] = outcome[y]
      BY <2>4 DEF Answer, Answers, TimedOut, Settle
    <3>2. QED
      BY <1>2, <3>1 DEF WaitingIsPending
  <2>5. CASE WorkerExits
    BY <1>2, <2>5 DEF WorkerExits, Settle, WaitingIsPending
  <2>6. CASE Cooled
    BY <1>2, <2>6 DEF Cooled, WaitingIsPending
  <2>7. CASE Analysis
    BY <2>3, <2>4, <2>5, <2>6, <2>7 DEF Analysis
  <2>8. ASSUME NEW x \in Request, HostRevert(x)
        PROVE  WaitingIsPending'
    BY <2>2, <2>8 DEF HostRevert
  <2>9. ASSUME NEW m \in Member, \/ Join(m) \/ Wire(m) \/ Dropped(m) \/ Ended(m)
                                 \/ Deliver(m) \/ OwnPush(m)
                                 \/ \E r \in Run : \/ BeginSync(m, r) \/ VisitPath(m, r)
                                                   \/ SyncFails(m, r)
        PROVE  WaitingIsPending'
    BY <2>2, <2>9 DEF Join, Wire, Dropped, Ended, Deliver, OwnPush, BeginSync, VisitPath, SyncFails
  <2>10. CASE UNCHANGED vars
    BY <2>2, <2>10 DEF vars
  <2>11. QED
    BY <1>2, <2>1, <2>7, <2>8, <2>9, <2>10 DEF Next
<1>3. QED
  BY <1>1, <1>2, PTL DEF Spec

-----------------------------------------------------------------------------
(* What joinImpact() attributes *)

\* Who the callers of a change are.
LEMMA CallerFacts ==
    ASSUME NEW references, NEW d
    PROVE  /\ \A c \in Callers(references, d) :
                 /\ c.memberId \in DOMAIN references
                 /\ c.file \in DOMAIN references[c.memberId]
                 /\ c.line \in Lines(references[c.memberId][c.file], d)
           /\ \A m \in DOMAIN references : \A f \in DOMAIN references[m] :
              \A line \in Lines(references[m][f], d) :
                 [memberId |-> m, file |-> f, line |-> line] \in Callers(references, d)
<1>1. ASSUME NEW c \in Callers(references, d)
      PROVE  /\ c.memberId \in DOMAIN references
             /\ c.file \in DOMAIN references[c.memberId]
             /\ c.line \in Lines(references[c.memberId][c.file], d)
  <2>1. PICK m \in DOMAIN references : \E f \in DOMAIN references[m] :
                c \in CallersIn(m, f, references[m][f], d)
    BY <1>1 DEF Callers
  <2>2. PICK f \in DOMAIN references[m] : c \in CallersIn(m, f, references[m][f], d)
    BY <2>1
  <2>3. QED
    BY <2>2 DEF CallersIn
<1>2. ASSUME NEW m \in DOMAIN references, NEW f \in DOMAIN references[m],
             NEW line \in Lines(references[m][f], d)
      PROVE  [memberId |-> m, file |-> f, line |-> line] \in Callers(references, d)
  <2>1. [memberId |-> m, file |-> f, line |-> line] \in CallersIn(m, f, references[m][f], d)
    BY DEF CallersIn
  <2>2. QED
    BY <2>1 DEF Callers
<1>3. QED
  BY <1>1, <1>2

\* The callers depend on the name and the file of a change, not on its kind.
LEMMA CallersOfKinds ==
    ASSUME NEW references, NEW d, NEW e, SameSymbol(d, e)
    PROVE  Callers(references, d) = Callers(references, e)
<1>1. \A r : Bridges(r, d) = Bridges(r, e)
  BY DEF SameSymbol, Bridges
<1>2. \A s : Refers(s, d) <=> Refers(s, e)
  BY DEF SameSymbol, Refers
<1>3. \A r : Lines(r, d) = Lines(r, e)
  BY <1>1, <1>2 DEF Lines
<1>4. \A m, f, r : CallersIn(m, f, r, d) = CallersIn(m, f, r, e)
  BY <1>3 DEF CallersIn
<1>5. QED
  BY <1>4 DEF Callers

\* An affected symbol is a change with its callers.
LEMMA AffectedFacts ==
    ASSUME NEW versions, NEW references,
           NEW s \in AffectedSymbols(versions, references)
    PROVE  \E d \in Changes(versions) :
              /\ s = AffectedSymbol(references, d)
              /\ SameSymbol(s, d) /\ s.callers = Callers(references, d)
              /\ s.kind \in Kind
<1>1. PICK d \in Changes(versions) : s = AffectedSymbol(references, d)
  BY DEF AffectedSymbols
<1>2. d.kind \in Kind
  <2>1. PICK f \in DOMAIN versions, k \in Kind : d \in ChangesIn(f, k, versions[f])
    BY DEF Changes
  <2>2. QED
    BY <2>1 DEF ChangesIn
<1>3. QED
  BY <1>1, <1>2 DEF AffectedSymbol, SameSymbol

\* Of the kinds of a symbol, one comes first.
LEMMA FirstKind ==
    ASSUME NEW S, S # {}, \A s \in S : s.kind \in Kind
    PROVE  \E s \in S : \A t \in S : s.kind <= t.kind
<1>1. Kind = 1..5
  BY DEF Kind, Kinds
<1>2. \A s \in S : s.kind \in {1, 2, 3, 4, 5}
  BY <1>1
<1> DEFINE Has(k) == \E s \in S : s.kind = k
<1>3. Has(1) \/ Has(2) \/ Has(3) \/ Has(4) \/ Has(5)
  BY <1>2
<1>4. CASE Has(1)
  BY <1>2, <1>4
<1>5. CASE ~Has(1) /\ Has(2)
  BY <1>2, <1>5
<1>6. CASE ~Has(1) /\ ~Has(2) /\ Has(3)
  BY <1>2, <1>6
<1>7. CASE ~Has(1) /\ ~Has(2) /\ ~Has(3) /\ Has(4)
  BY <1>2, <1>7
<1>8. CASE ~Has(1) /\ ~Has(2) /\ ~Has(3) /\ ~Has(4)
  BY <1>2, <1>3, <1>8
<1>9. QED
  BY <1>4, <1>5, <1>6, <1>7, <1>8

\* The symbols that concern a member are represented in what the member is told.
LEMMA Represented ==
    ASSUME NEW versions, NEW references, NEW m,
           NEW s \in AffectedSymbols(versions, references), Concerns(s, m)
    PROVE  \E t \in PerMember(versions, references, m) :
              SameSymbol(s, t) /\ t.callers = s.callers
<1> DEFINE S == {t \in AffectedSymbols(versions, references) :
                    Concerns(t, m) /\ SameSymbol(s, t)}
<1>1. s \in S
  BY DEF SameSymbol
<1>2. \A t \in S : t.kind \in Kind
  BY AffectedFacts
<1> HIDE DEF S
<1>3. PICK t \in S : \A u \in S : t.kind <= u.kind
  BY <1>1, <1>2, FirstKind
<1>4. /\ t \in AffectedSymbols(versions, references)
      /\ Concerns(t, m) /\ SameSymbol(s, t)
  BY DEF S
<1>5. \A u \in AffectedSymbols(versions, references) :
         Concerns(u, m) /\ SameSymbol(t, u) => u \in S
  BY <1>4 DEF S, SameSymbol
<1>6. t \in PerMember(versions, references, m)
  BY <1>3, <1>4, <1>5 DEF PerMember
<1>7. t.callers = s.callers
  <2>1. PICK d : SameSymbol(s, d) /\ s.callers = Callers(references, d)
    BY AffectedFacts
  <2>2. PICK e : SameSymbol(t, e) /\ t.callers = Callers(references, e)
    BY <1>4, AffectedFacts
  <2>3. SameSymbol(d, e)
    BY <1>4, <2>1, <2>2 DEF SameSymbol
  <2>4. QED
    BY <2>1, <2>2, <2>3, CallersOfKinds
<1>8. QED
  BY <1>4, <1>6, <1>7

-----------------------------------------------------------------------------
\* A site is attributed to a change only in a file that imports the symbol, or its class,
\* from the changed file, however its calls are named (joinImpact(), T-05-05).
THEOREM NoImportNoAttribution ==
    ASSUME NEW versions, NEW references
    PROVE  AttributedByImport(versions, references)
<1> SUFFICES ASSUME NEW s \in AffectedSymbols(versions, references), NEW c \in s.callers
             PROVE  /\ \E d \in Changes(versions) : SameSymbol(s, d)
                    /\ \E imp \in references[c.memberId][c.file].imports :
                          /\ imp.name \in {s.name, RootName(s.name)}
                          /\ PathMatches(imp.from, s.changedIn)
  BY DEF AttributedByImport
<1>1. PICK d \in Changes(versions) : SameSymbol(s, d) /\ s.callers = Callers(references, d)
  BY AffectedFacts
<1>2. c.line \in Lines(references[c.memberId][c.file], d)
  BY <1>1, CallerFacts
<1>3. Bridges(references[c.memberId][c.file], d) # {}
  BY <1>2 DEF Lines
<1>4. QED
  BY <1>1, <1>3 DEF Bridges, SameSymbol

\* A branch path and an import are sequences of segments.
Written(versions, references, Segment) ==
    /\ DOMAIN versions \subseteq Seq(Segment)
    /\ \A m \in DOMAIN references : \A f \in DOMAIN references[m] :
          /\ f \in Seq(Segment)
          /\ \A imp \in references[m][f].imports : imp.from \in Seq(Segment)

\* What pathMatches() makes of an import at the top of the branch: it finds the file, or the
\* index of the folder, that the import means, unless the import names an index itself.
LEMMA TopImportsMatch ==
    ASSUME NEW Segment, NEW file \in Seq(Segment), NEW changedIn \in Seq(Segment), NEW imp,
           imp.from \in Seq(Segment), imp.from # <<>>, imp.from[Len(imp.from)] # "index",
           Folder(file) = <<>>, Imports(file, imp, changedIn)
    PROVE  PathMatches(imp.from, changedIn)
<1> DEFINE p == imp.from
<1>1. <<>> \o p = p /\ Len(p) \in Nat \ {0}
  OBVIOUS
<1>2. changedIn = p \/ changedIn = Append(p, "index")
  BY <1>1 DEF Imports
<1>3. Normalize(p) = p
  BY DEF Normalize
<1>4. CASE changedIn = Append(p, "index")
  <2>1. /\ Len(changedIn) = Len(p) + 1 /\ changedIn[Len(changedIn)] = "index"
        /\ SubSeq(changedIn, 1, Len(changedIn) - 1) = p
    BY <1>1, <1>4
  <2>2. Len(changedIn) > 1
    BY <1>1, <2>1
  <2>3. QED
    BY <1>3, <2>1, <2>2 DEF PathMatches, Normalize
<1>5. QED
  BY <1>2, <1>4 DEF PathMatches

\* Every member with a file at the top of the branch that imports a changed symbol, in the
\* language's sense, is told of that file, whatever else changed and under however many
\* kinds (joinImpact() and its regrouping by member).
THEOREM NoImporterMissed ==
    ASSUME NEW versions, NEW references, NEW Segment, Written(versions, references, Segment)
    PROVE  ImportersAreTold(versions, references)
<1> SUFFICES ASSUME NEW d \in Changes(versions), NEW m \in DOMAIN references,
                    NEW f \in DOMAIN references[m], Folder(f) = <<>>,
                    NEW imp \in references[m][f].imports,
                    imp.name \in {d.name, RootName(d.name)},
                    imp.from # <<>>, imp.from[Len(imp.from)] # "index",
                    Imports(f, imp, d.changedIn)
             PROVE  \E s \in PerMember(versions, references, m) :
                       SameSymbol(s, d) /\ \E c \in s.callers : c.memberId = m /\ c.file = f
  BY DEF ImportersAreTold
<1>1. d.changedIn \in Seq(Segment)
  <2>1. PICK g \in DOMAIN versions, k \in Kind : d \in ChangesIn(g, k, versions[g])
    BY DEF Changes
  <2>2. d.changedIn = g
    BY <2>1 DEF ChangesIn
  <2>3. QED
    BY <2>2 DEF Written
<1>2. PathMatches(imp.from, d.changedIn)
  BY <1>1, TopImportsMatch DEF Written
<1>3. Bridges(references[m][f], d) # {}
  BY <1>2 DEF Bridges
<1>4. PICK line : line \in Lines(references[m][f], d)
  BY <1>3 DEF Lines
<1> DEFINE c == [memberId |-> m, file |-> f, line |-> line]
           s == AffectedSymbol(references, d)
<1>5. c \in Callers(references, d)
  BY <1>4, CallerFacts
<1>6. s \in AffectedSymbols(versions, references)
  BY <1>5 DEF AffectedSymbols
<1>7. /\ s.callers = Callers(references, d)
      /\ SameSymbol(s, d)
  BY DEF AffectedSymbol, SameSymbol
<1>8. Concerns(s, m)
  BY <1>5, <1>7 DEF Concerns
<1> HIDE DEF s
<1>9. PICK t \in PerMember(versions, references, m) : SameSymbol(s, t) /\ t.callers = s.callers
  BY <1>6, <1>8, Represented
<1>10. c \in t.callers /\ c.memberId = m /\ c.file = f
  BY <1>5, <1>7, <1>9
<1>11. QED
  BY <1>7, <1>9, <1>10 DEF SameSymbol

\* A member is told of a symbol once, and the entries left out name no other callers (the
\* regrouping of joinImpact() by member).
THEOREM RegroupingLosesNothing ==
    ASSUME NEW versions, NEW references
    PROVE  OnceWithEveryCaller(versions, references)
<1> SUFFICES ASSUME NEW m \in DOMAIN references
             PROVE  /\ \A s \in AffectedSymbols(versions, references) : Concerns(s, m) =>
                          \E t \in PerMember(versions, references, m) :
                             SameSymbol(s, t) /\ t.callers = s.callers
                    /\ \A s, t \in PerMember(versions, references, m) :
                          SameSymbol(s, t) => s = t
  BY DEF OnceWithEveryCaller
<1>1. \A s \in AffectedSymbols(versions, references) : Concerns(s, m) =>
         \E t \in PerMember(versions, references, m) :
            SameSymbol(s, t) /\ t.callers = s.callers
  BY Represented
<1>2. ASSUME NEW s \in PerMember(versions, references, m),
             NEW t \in PerMember(versions, references, m), SameSymbol(s, t)
      PROVE  s = t
  <2>1. /\ s \in AffectedSymbols(versions, references) /\ Concerns(s, m)
        /\ t \in AffectedSymbols(versions, references) /\ Concerns(t, m)
        /\ s.kind <= t.kind /\ t.kind <= s.kind
    BY <1>2 DEF PerMember, SameSymbol
  <2>2. PICK d : s = AffectedSymbol(references, d) /\ SameSymbol(s, d) /\ s.kind \in Kind
    BY <2>1, AffectedFacts
  <2>3. PICK e : t = AffectedSymbol(references, e) /\ SameSymbol(t, e) /\ t.kind \in Kind
    BY <2>1, AffectedFacts
  <2>4. s.kind = t.kind
    BY <2>1, <2>2, <2>3 DEF Kind
  <2>5. SameSymbol(d, e)
    BY <1>2, <2>2, <2>3 DEF SameSymbol
  <2>6. Callers(references, d) = Callers(references, e)
    BY <2>5, CallersOfKinds
  <2>7. d.kind = e.kind
    BY <2>2, <2>3, <2>4 DEF AffectedSymbol
  <2>8. QED
    BY <2>2, <2>3, <2>5, <2>6, <2>7 DEF AffectedSymbol, SameSymbol
<1>3. QED
  BY <1>1, <1>2
===============================================================================
