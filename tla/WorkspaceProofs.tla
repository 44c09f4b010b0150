---------------------------- MODULE WorkspaceProofs ----------------------------
(***************************************************************************)
(* Pushes can be undone, and records name their branch, for any number of     *)
(* files, branches, pushes, commands at once and restarts.  A push in         *)
(* progress has put away what it has read, and the branch still holds the     *)
(* rest as the push found it, unless somebody else has written there.        *)
(***************************************************************************)
EXTENDS Workspace, TLAPS

-----------------------------------------------------------------------------
(* Types *)

Files == [Path -> {"added", "modified", "deleted", None}]
Current == [path : Path, copy : BOOLEAN, drop : BOOLEAN]

AskJobs == [kind : {"ask"}, todo : SUBSET Path, auto : BOOLEAN]
PushJobs ==
    [kind : {"push"}, id : Push, dir : Branch, name : Branch, todo : SUBSET Path,
     cur : Current \cup {None}, files : Files, misread : SUBSET Path, auto : BOOLEAN]
SaveJobs ==
    [kind : {"save"}, id : Push, image : History \cup {None},
     ends : {"push", "auto push", "revert"}]
RevertJobs ==
    [kind : {"revert"}, id : Push, dir : Branch, todo : SUBSET Path, full : BOOLEAN,
     missed : SUBSET Path]
SwitchJobs == [kind : {"switch"}, to : Branch]
CopyJobs == [kind : {"copy"}, from : Branch, to : Branch, todo : SUBSET Path, lists : BOOLEAN]
ImportJobs == [kind : {"import"}, branch : Branch, fails : BOOLEAN]
DeleteJobs == [kind : {"delete"}, branch : Branch]

Jobs == AskJobs \cup PushJobs \cup SaveJobs \cup RevertJobs \cup SwitchJobs \cup CopyJobs
        \cup ImportJobs \cup DeleteJobs

Window ==
    [branches : SUBSET Branch, history : History, dir : Branch, name : Branch,
     staged : SUBSET Path]

WorkspaceTypeOK ==
    /\ dir \in [Branch -> Tree \cup {None}]
    /\ active \in Branch
    /\ saved \in [branches : SUBSET Branch, history : History]
    /\ snap \in [Push -> Tree]
    /\ ws \in Tree
    /\ mem \in Window
    /\ jobs \in SUBSET Jobs
    /\ before \in [Push -> [branch : Branch, tree : Tree] \cup {None}]
    /\ alone \in SUBSET Push
    /\ crossed \in BOOLEAN

\* A revert works on a record that the window lists.
RevertsAreListed == \A j \in jobs : j.kind = "revert" => mem.history[j.id] # None

TInv == WorkspaceTypeOK /\ RevertsAreListed

LEMMA Kinds ==
    ASSUME NEW j \in Jobs
    PROVE  /\ j.kind = "push" => j \in PushJobs
           /\ j.kind = "save" => j \in SaveJobs
           /\ j.kind = "revert" => j \in RevertJobs
           /\ j.kind = "switch" => j \in SwitchJobs
           /\ j.kind = "copy" => j \in CopyJobs
           /\ j.kind = "import" => j \in ImportJobs
           /\ j.kind = "delete" => j \in DeleteJobs
           /\ j.kind = "ask" => j \in AskJobs
  BY DEF Jobs, AskJobs, PushJobs, SaveJobs, RevertJobs, SwitchJobs, CopyJobs, ImportJobs, DeleteJobs

LEMMA Trees ==
    ASSUME WorkspaceTypeOK, NEW b \in Branch
    PROVE  /\ TreeOf(b) \in Tree
           /\ \A p \in Path : At(b, p) \in Content \cup {None}
           /\ FilesOf(b) \in SUBSET Path
<1>1. Nothing \in Tree
  BY DEF Nothing, Tree
<1>2. TreeOf(b) \in Tree
  BY <1>1 DEF WorkspaceTypeOK, TreeOf
<1>3. QED
  BY <1>2 DEF At, FilesOf, Tree

\* What reading a file as text makes of its content.
LEMMA DecodedFacts ==
    ASSUME NEW c \in Content \cup {None}
    PROVE  Decoded(c) \in Content \cup {None} /\ (Decoded(c) = None <=> c = None)
  BY WorkspaceConstants DEF Decoded

\* What a write to one file of a branch leaves alone.
LEMMA PutFacts ==
    ASSUME WorkspaceTypeOK, NEW b \in Branch, NEW p \in Path, NEW c \in Content \cup {None},
           Put(b, p, c)
    PROVE  /\ dir' \in [Branch -> Tree \cup {None}]
           /\ \A q \in Path \ {p} : At(b, q)' = At(b, q)
           /\ \A a \in Branch \ {b} : \A q \in Path : At(a, q)' = At(a, q)
<1> DEFINE t == [TreeOf(b) EXCEPT ![p] = c]
<1>1. TreeOf(b) \in Tree
  BY Trees
<1>2. t \in Tree /\ \A q \in Path \ {p} : t[q] = TreeOf(b)[q]
  BY <1>1 DEF Tree
<1>3. dir' = [dir EXCEPT ![b] = t]
  BY DEF Put
<1> HIDE DEF t
<1>4. dir' \in [Branch -> Tree \cup {None}] /\ dir'[b] = t
      /\ \A a \in Branch \ {b} : dir'[a] = dir[a]
  BY <1>2, <1>3 DEF WorkspaceTypeOK
<1>5. t # None
  BY <1>2, NoneAssumption
<1>6. QED
  BY <1>2, <1>4, <1>5 DEF At, TreeOf

\* The commands of the file system keep the types.
LEMMA UserType ==
    ASSUME TInv, NEW p \in Path,
           Edit(p) \/ AddNewFile(p) \/ AddToWorkspace(p) \/ Pull(p) \/ Stage(p)
    PROVE  TInv'
<1>1. CASE Edit(p) \/ AddNewFile(p)
  <2>1. PICK c \in Content \cup {None} : Edited(p, c)
    BY <1>1 DEF Edit, AddNewFile
  <2>2. ws' \in Tree
    BY <2>1 DEF Edited, TInv, WorkspaceTypeOK, Tree
  <2>3. QED
    BY <2>1, <2>2 DEF Edited, TInv, WorkspaceTypeOK, RevertsAreListed, disk, ghosts
<1>2. CASE AddToWorkspace(p) \/ Pull(p)
  <2>1. AddToWorkspace(p)
    BY <1>2 DEF Pull
  <2>2. mem.dir \in Branch
    BY DEF TInv, WorkspaceTypeOK, Window
  <2>3. At(mem.dir, p) \in Content \cup {None}
    BY <2>2, Trees DEF TInv
  <2>4. ws' \in Tree
    BY <2>1, <2>3 DEF AddToWorkspace, TInv, WorkspaceTypeOK, Tree
  <2>5. QED
    BY <2>1, <2>4 DEF AddToWorkspace, TInv, WorkspaceTypeOK, RevertsAreListed, disk, ghosts
<1>3. CASE Stage(p)
  <2>1. mem' \in Window /\ mem'.history = mem.history
    BY <1>3 DEF Stage, TInv, WorkspaceTypeOK, Window
  <2>2. QED
    BY <1>3, <2>1 DEF Stage, TInv, WorkspaceTypeOK, RevertsAreListed, disk, ghosts
<1>4. QED
  BY <1>1, <1>2, <1>3

\* A job that ends, or goes on as a job that works on a listed record.
LEMMA JobsStay ==
    ASSUME TInv, NEW j \in jobs, UNCHANGED mem,
           \/ End(j) \/ Fail(j)
           \/ \E next \in Jobs : /\ Continue(j, next)
                                 /\ next.kind = "revert" => mem.history[next.id] # None
    PROVE  jobs' \in SUBSET Jobs /\ RevertsAreListed'
  BY DEF End, Fail, Continue, TInv, WorkspaceTypeOK, RevertsAreListed

LEMMA FailType ==
    ASSUME TInv, NEW j \in jobs, Fail(j)
    PROVE  TInv'
<1>1. jobs' \in SUBSET Jobs /\ RevertsAreListed'
  BY JobsStay DEF Fail
<1>2. QED
  BY <1>1 DEF Fail, TInv, WorkspaceTypeOK, disk, ghosts

\* Who else works on the push whose file a revert has spoiled.
LEMMA SpoiledJobs ==
    ASSUME TInv, NEW j \in jobs, NEW p \in Path, NEW k \in Spoiled(j, p)
    PROVE  /\ \E i \in jobs \ {j} :
                 \/ k = i
                 \/ /\ j.kind = "revert" /\ i \in RevertJobs /\ k \in RevertJobs /\ i.id = j.id
                    /\ k.id = i.id /\ k.dir = i.dir /\ k.todo = i.todo /\ k.full = i.full
                    /\ k.missed = i.missed \cup {p}
           /\ j.kind = "revert" /\ k.kind = "revert" /\ k.id = j.id => p \in k.missed
<1>1. PICK i \in jobs \ {j} :
         k = IF j.kind = "revert" /\ i.kind = "revert" /\ i.id = j.id
             THEN [i EXCEPT !.missed = @ \cup {p}] ELSE i
  BY DEF Spoiled
<1>2. CASE ~(j.kind = "revert" /\ i.kind = "revert" /\ i.id = j.id)
  BY <1>1, <1>2
<1>3. CASE j.kind = "revert" /\ i.kind = "revert" /\ i.id = j.id
  <2>1. i \in RevertJobs /\ k = [i EXCEPT !.missed = @ \cup {p}]
    BY <1>1, <1>3, Kinds DEF TInv, WorkspaceTypeOK
  <2>2. /\ k \in RevertJobs /\ k.id = i.id /\ k.dir = i.dir /\ k.todo = i.todo
        /\ k.full = i.full /\ k.missed = i.missed \cup {p}
    BY <2>1 DEF RevertJobs
  <2>3. QED
    BY <1>3, <2>1, <2>2
<1>4. QED
  BY <1>2, <1>3

\* A write that fails half-way is one to the file it was meant for.
LEMMA WriteFailsFacts ==
    ASSUME TInv, NEW j \in jobs, WriteFails(j)
    PROVE  \E b \in Branch, p \in Path, c \in {Garbled, None}, x \in Push \cup {None} :
              /\ Writes(j, b, p) /\ c \in Content \cup {None}
              /\ Put(b, p, c) /\ Disturbed(b, x) /\ jobs' = Spoiled(j, p)
              /\ j.kind \in {"push", "revert"} => x = j.id /\ j.dir = b
              /\ j.kind \notin {"push", "revert"} => x = None
<1>1. PICK b \in Branch, p \in Path, c \in {Garbled, None} :
         /\ Writes(j, b, p) /\ Put(b, p, c) /\ jobs' = Spoiled(j, p)
         /\ Disturbed(b, IF j.kind = "copy" THEN None ELSE j.id)
  BY DEF WriteFails
<1>2. c \in Content \cup {None}
  BY WorkspaceConstants
<1>3. /\ j.kind \in {"push", "revert", "copy"}
      /\ j.kind \in {"push", "revert"} => j.dir = b
  BY <1>1 DEF Writes
<1>4. j.kind \in {"push", "revert"} => j.id \in Push
  BY Kinds DEF TInv, WorkspaceTypeOK, PushJobs, RevertJobs
<1> DEFINE x == IF j.kind = "copy" THEN None ELSE j.id
<1>5. /\ x \in Push \cup {None} /\ Disturbed(b, x)
      /\ j.kind \in {"push", "revert"} => x = j.id
      /\ j.kind \notin {"push", "revert"} => x = None
  BY <1>1, <1>3, <1>4
<1> HIDE DEF x
<1>6. QED
  BY <1>1, <1>2, <1>3, <1>5

LEMMA WriteFailsType ==
    ASSUME TInv, NEW j \in jobs, WriteFails(j)
    PROVE  TInv'
<1>1. PICK b \in Branch, p \in Path, c \in Content \cup {None}, x \in Push \cup {None} :
         Put(b, p, c) /\ Disturbed(b, x) /\ jobs' = Spoiled(j, p)
  BY WriteFailsFacts
<1>2. dir' \in [Branch -> Tree \cup {None}] /\ alone' \in SUBSET Push
  BY <1>1, PutFacts DEF Disturbed, TInv, WorkspaceTypeOK
<1>3. UNCHANGED <<active, saved, snap, ws, mem, before, crossed>>
  BY DEF WriteFails
<1>4. \A k \in jobs' : k \in Jobs /\ (k.kind = "revert" => mem.history[k.id] # None)
  <2>1. ASSUME NEW k \in jobs'
        PROVE  k \in Jobs /\ (k.kind = "revert" => mem.history[k.id] # None)
    <3>1. PICK i \in jobs \ {j} :
             \/ k = i
             \/ i \in RevertJobs /\ k \in RevertJobs /\ k.id = i.id
      BY <1>1, <2>1, SpoiledJobs
    <3>2. QED
      BY <3>1 DEF TInv, WorkspaceTypeOK, RevertsAreListed, Jobs, RevertJobs
  <2>2. QED
    BY <2>1
<1>5. QED
  BY <1>2, <1>3, <1>4 DEF TInv, WorkspaceTypeOK, RevertsAreListed

LEMMA HistoryFailsType ==
    ASSUME TInv, NEW j \in jobs, HistoryFails(j)
    PROVE  TInv'
<1>1. saved' \in [branches : SUBSET Branch, history : History]
  BY DEF HistoryFails, NoHistory, History, TInv, WorkspaceTypeOK
<1>2. QED
  BY <1>1 DEF HistoryFails, End, TInv, WorkspaceTypeOK, RevertsAreListed, ghosts

LEMMA JobSteps ==
    /\ \A j \in PushJobs, p \in Path, c \in Current, s \in {"added", "modified", "deleted"},
          m \in SUBSET Path :
          [j EXCEPT !.todo = @ \ {p}, !.files[p] = s, !.misread = m, !.cur = c] \in PushJobs
    /\ \A j \in PushJobs : [j EXCEPT !.cur = None] \in PushJobs
    /\ \A j \in SaveJobs, h \in History : [j EXCEPT !.image = h] \in SaveJobs
    /\ \A j \in RevertJobs, p \in Path :
          /\ [j EXCEPT !.todo = @ \ {p}] \in RevertJobs
          /\ [j EXCEPT !.todo = @ \ {p}].id = j.id
          /\ [j EXCEPT !.todo = @ \ {p}, !.missed = @ \cup {p}] \in RevertJobs
          /\ [j EXCEPT !.todo = @ \ {p}, !.missed = @ \cup {p}].id = j.id
    /\ \A j \in CopyJobs, p \in Path : [j EXCEPT !.todo = @ \ {p}] \in CopyJobs
<1>1. ASSUME NEW j \in PushJobs, NEW p \in Path, NEW c \in Current, NEW m \in SUBSET Path,
             NEW s \in {"added", "modified", "deleted"}
      PROVE  [j EXCEPT !.todo = @ \ {p}, !.files[p] = s, !.misread = m, !.cur = c] \in PushJobs
  <2>1. [j.files EXCEPT ![p] = s] \in Files
    BY DEF PushJobs, Files
  <2>2. QED
    BY <2>1 DEF PushJobs
<1>2. ASSUME NEW j \in PushJobs
      PROVE  [j EXCEPT !.cur = None] \in PushJobs
  BY DEF PushJobs
<1>3. ASSUME NEW j \in SaveJobs, NEW h \in History
      PROVE  [j EXCEPT !.image = h] \in SaveJobs
  BY DEF SaveJobs
<1>4. ASSUME NEW j \in RevertJobs, NEW p \in Path
      PROVE  /\ [j EXCEPT !.todo = @ \ {p}] \in RevertJobs
             /\ [j EXCEPT !.todo = @ \ {p}].id = j.id
             /\ [j EXCEPT !.todo = @ \ {p}, !.missed = @ \cup {p}] \in RevertJobs
             /\ [j EXCEPT !.todo = @ \ {p}, !.missed = @ \cup {p}].id = j.id
  BY DEF RevertJobs
<1>5. ASSUME NEW j \in CopyJobs, NEW p \in Path
      PROVE  [j EXCEPT !.todo = @ \ {p}] \in CopyJobs
  BY DEF CopyJobs
<1>6. QED
  BY <1>1, <1>2, <1>3, <1>4, <1>5

\* What reading a file makes of a push: the next job, and what is put away.
ReadStep(j, p, inBranch, status, c, next) ==
    /\ inBranch => At(j.dir, p) # None
    /\ c.path = p /\ status # None
    /\ status = "added" => ~inBranch
    /\ c.copy \/ c.drop => status = "added" \/ inBranch
    /\ Snapshot(j, p, inBranch) /\ Continue(j, next)
    /\ next.kind = "push" /\ next.id = j.id /\ next.dir = j.dir
    /\ next.name = j.name /\ next.todo = j.todo \ {p} /\ next.cur = c
    /\ next.files[p] = status /\ \A q \in Path \ {p} : next.files[q] = j.files[q]
    /\ next.misread = IF At(j.dir, p) # None /\ ~inBranch
                      THEN j.misread \cup {p} ELSE j.misread
    /\ UNCHANGED <<dir, active, saved, ws, mem, ghosts>>

LEMMA ReadFileFacts ==
    ASSUME TInv, NEW j \in jobs, NEW p \in Path, ReadFile(j, p)
    PROVE  /\ j \in PushJobs
           /\ \E inBranch \in BOOLEAN, status \in {"added", "modified", "deleted"},
                 c \in Current, next \in PushJobs : ReadStep(j, p, inBranch, status, c, next)
<1>1. j \in PushJobs
  BY Kinds DEF ReadFile, TInv, WorkspaceTypeOK
<1>2. PICK inBranch \in MayRead(At(j.dir, p)), inWorkspace \in MayRead(ws[p]) :
         /\ Snapshot(j, p, inBranch)
         /\ Continue(j, [j EXCEPT !.todo = @ \ {p},
                                  !.files[p] = StatusOf(inBranch, inWorkspace),
                                  !.misread = IF At(j.dir, p) # None /\ ~inBranch
                                              THEN @ \cup {p} ELSE @,
                                  !.cur = [path |-> p, copy |-> inWorkspace,
                                           drop |-> inBranch /\ ~inWorkspace]])
  BY DEF ReadFile
<1>3. inBranch \in BOOLEAN /\ inWorkspace \in BOOLEAN /\ (inBranch => At(j.dir, p) # None)
  BY DEF MayRead
<1> DEFINE status == StatusOf(inBranch, inWorkspace)
           c == [path |-> p, copy |-> inWorkspace, drop |-> inBranch /\ ~inWorkspace]
           m == IF At(j.dir, p) # None /\ ~inBranch THEN j.misread \cup {p} ELSE j.misread
           next == [j EXCEPT !.todo = @ \ {p}, !.files[p] = status, !.misread = m, !.cur = c]
<1>4. /\ status \in {"added", "modified", "deleted"} /\ c \in Current /\ c.path = p
      /\ status = "added" => ~inBranch
      /\ c.copy \/ c.drop => status = "added" \/ inBranch
  BY <1>3 DEF StatusOf, Current
<1>5. status # None
  BY <1>4, NoneAssumption
<1>6. m \in SUBSET Path
  BY <1>1 DEF PushJobs
<1>7. Continue(j, next)
  BY <1>1, <1>2 DEF PushJobs
<1> HIDE DEF status, c, m
<1>8. next \in PushJobs
  BY <1>1, <1>4, <1>6, JobSteps
<1>9. /\ next.kind = "push" /\ next.id = j.id /\ next.dir = j.dir
      /\ next.name = j.name /\ next.todo = j.todo \ {p} /\ next.cur = c
      /\ next.files[p] = status /\ (\A q \in Path \ {p} : next.files[q] = j.files[q])
      /\ next.misread = m
  BY <1>1 DEF PushJobs, Files
<1> HIDE DEF next
<1>10. UNCHANGED <<dir, active, saved, ws, mem, ghosts>>
  BY DEF ReadFile
<1>11. QED
  BY <1>1, <1>2, <1>3, <1>4, <1>5, <1>7, <1>8, <1>9, <1>10 DEF m, ReadStep

LEMMA ReadFileType ==
    ASSUME TInv, NEW j \in jobs, NEW p \in Path, ReadFile(j, p)
    PROVE  TInv'
<1>1. PICK inBranch \in BOOLEAN, status \in {"added", "modified", "deleted"},
           c \in Current, next \in PushJobs : ReadStep(j, p, inBranch, status, c, next)
  BY ReadFileFacts
<1>2. /\ Snapshot(j, p, inBranch) /\ Continue(j, next)
      /\ next.kind = "push" /\ j \in PushJobs
      /\ UNCHANGED <<dir, active, saved, ws, mem, ghosts>>
  BY <1>1, ReadFileFacts DEF ReadStep
<1>3. jobs' \in SUBSET Jobs /\ RevertsAreListed'
  BY <1>2, JobsStay DEF Jobs
<1>4. snap' \in [Push -> Tree]
  <2>1. j.dir \in Branch /\ j.id \in Push
    BY <1>2 DEF PushJobs
  <2>2. Decoded(At(j.dir, p)) \in Content \cup {None}
    BY <2>1, Trees, DecodedFacts DEF TInv
  <2>3. QED
    BY <1>2, <2>1, <2>2 DEF Snapshot, TInv, WorkspaceTypeOK, Tree
<1>5. QED
  BY <1>2, <1>3, <1>4 DEF TInv, WorkspaceTypeOK, ghosts

\* The copy or the unlinking of one file of a push.
LEMMA CopyFileFacts ==
    ASSUME TInv, NEW j \in jobs, CopyFile(j)
    PROVE  \E p \in Path, c \in Content \cup {None}, next \in PushJobs :
              /\ j \in PushJobs /\ j.cur # None /\ j.cur.path = p
              /\ \/ (j.cur.copy \/ j.cur.drop) /\ Put(j.dir, p, c) /\ Disturbed(j.dir, j.id)
                 \/ UNCHANGED <<dir, alone>>
              /\ Continue(j, next)
              /\ next.kind = "push" /\ next.id = j.id /\ next.dir = j.dir
              /\ next.name = j.name /\ next.todo = j.todo /\ next.cur = None
              /\ next.files = j.files /\ next.misread = j.misread
              /\ UNCHANGED <<active, saved, snap, ws, mem, before, crossed>>
<1>1. j \in PushJobs /\ j.cur # None
  BY Kinds DEF CopyFile, TInv, WorkspaceTypeOK
<1> DEFINE p == j.cur.path
           c == IF j.cur.copy THEN ws[p] ELSE None
           next == [j EXCEPT !.cur = None]
<1>2. p \in Path /\ c \in Content \cup {None}
  BY <1>1 DEF PushJobs, Current, TInv, WorkspaceTypeOK, Tree
<1>3. /\ \/ (j.cur.copy \/ j.cur.drop) /\ Put(j.dir, p, c) /\ Disturbed(j.dir, j.id)
         \/ UNCHANGED <<dir, alone>>
      /\ Continue(j, next)
      /\ UNCHANGED <<active, saved, snap, ws, mem, before, crossed>>
  BY DEF CopyFile
<1>4. /\ next \in PushJobs /\ next.kind = "push" /\ next.id = j.id /\ next.dir = j.dir
      /\ next.name = j.name /\ next.todo = j.todo /\ next.cur = None
      /\ next.files = j.files /\ next.misread = j.misread
  BY <1>1 DEF PushJobs
<1> HIDE DEF next, c
<1>5. QED
  BY <1>1, <1>2, <1>3, <1>4

LEMMA CopyFileType ==
    ASSUME TInv, NEW j \in jobs, CopyFile(j)
    PROVE  TInv'
<1>1. PICK p \in Path, c \in Content \cup {None}, next \in PushJobs :
         /\ j \in PushJobs
         /\ \/ Put(j.dir, p, c) /\ Disturbed(j.dir, j.id)
            \/ UNCHANGED <<dir, alone>>
         /\ Continue(j, next) /\ next.kind = "push"
         /\ UNCHANGED <<active, saved, snap, ws, mem, before, crossed>>
  BY CopyFileFacts
<1>2. j.dir \in Branch
  BY <1>1 DEF PushJobs
<1>3. dir' \in [Branch -> Tree \cup {None}]
  BY <1>1, <1>2, PutFacts DEF TInv, WorkspaceTypeOK
<1>4. alone' \in SUBSET Push
  BY <1>1 DEF Disturbed, TInv, WorkspaceTypeOK
<1>5. jobs' \in SUBSET Jobs /\ RevertsAreListed'
  BY <1>1, JobsStay DEF Jobs
<1>6. QED
  BY <1>1, <1>3, <1>4, <1>5 DEF TInv, WorkspaceTypeOK

LEMMA AskPushType ==
    ASSUME TInv, AskPush
    PROVE  TInv' /\ \E job \in AskJobs : jobs' = jobs \cup {job}
<1> DEFINE paths == IF mem.staged = {} THEN Differing ELSE mem.staged
           job == [kind |-> "ask", todo |-> paths, auto |-> mem.staged = {}]
<1>1. paths \in SUBSET Path
  BY DEF TInv, WorkspaceTypeOK, Window, Differing
<1>2. job \in AskJobs /\ job.kind = "ask"
  BY <1>1 DEF AskJobs
<1>3. jobs' = jobs \cup {job} /\ UNCHANGED <<disk, ws, mem, ghosts>>
  BY DEF AskPush, Begin
<1> HIDE DEF job
<1>4. QED
  BY <1>2, <1>3 DEF TInv, WorkspaceTypeOK, RevertsAreListed, Jobs, disk, ghosts

\* The push that follows the question.
LEMMA BeginPushFacts ==
    ASSUME TInv, NEW j \in jobs, NEW x \in Push, BeginPush(j, x)
    PROVE  \E job \in PushJobs, found \in [branch : Branch, tree : Tree] :
              /\ before[x] = None /\ before' = [before EXCEPT ![x] = found]
              /\ found.branch = mem.dir /\ found.tree = TreeOf(mem.dir)
              /\ alone' = alone \cup {x} /\ jobs' = (jobs \ {j}) \cup {job}
              /\ job.kind = "push" /\ job.id = x /\ job.dir = mem.dir /\ job.name = mem.name
              /\ job.cur = None /\ job.misread = {} /\ \A p \in Path : job.files[p] = None
              /\ j.kind = "ask" /\ mem.dir \in Branch
              /\ UNCHANGED <<dir, active, saved, snap, ws, mem, crossed>>
<1> DEFINE job == PushJob(x, mem.dir, mem.name, j)
           found == [branch |-> mem.dir, tree |-> TreeOf(mem.dir)]
<1>1. mem.dir \in Branch /\ mem.name \in Branch /\ j \in AskJobs
  BY Kinds DEF BeginPush, TInv, WorkspaceTypeOK, Window
<1>2. /\ job \in PushJobs /\ job.kind = "push" /\ job.id = x /\ job.dir = mem.dir
      /\ job.name = mem.name /\ job.cur = None /\ job.misread = {}
      /\ \A p \in Path : job.files[p] = None
  <2>1. Nothing \in Files /\ \A p \in Path : Nothing[p] = None
    BY DEF Nothing, Files
  <2>2. QED
    BY <1>1, <2>1 DEF PushJob, PushJobs, AskJobs
<1>3. found \in [branch : Branch, tree : Tree]
  BY <1>1, Trees DEF TInv
<1>4. /\ before[x] = None /\ before' = [before EXCEPT ![x] = found]
      /\ alone' = alone \cup {x} /\ jobs' = (jobs \ {j}) \cup {job}
      /\ j.kind = "ask" /\ UNCHANGED <<dir, active, saved, snap, ws, mem, crossed>>
  BY DEF BeginPush, Continue, disk
<1>5. found.branch = mem.dir /\ found.tree = TreeOf(mem.dir)
  OBVIOUS
<1> HIDE DEF job, found
<1>6. QED
  BY <1>1, <1>2, <1>3, <1>4, <1>5

LEMMA BeginPushType ==
    ASSUME TInv, NEW j \in jobs, NEW x \in Push, BeginPush(j, x)
    PROVE  TInv'
<1>1. PICK job \in PushJobs, found \in [branch : Branch, tree : Tree] :
         /\ job.kind = "push" /\ before' = [before EXCEPT ![x] = found]
         /\ alone' = alone \cup {x} /\ jobs' = (jobs \ {j}) \cup {job}
         /\ UNCHANGED <<dir, active, saved, snap, ws, mem, crossed>>
  BY BeginPushFacts
<1>2. QED
  BY <1>1 DEF TInv, WorkspaceTypeOK, RevertsAreListed, Jobs

\* The record of a push, and the history with it.
LEMMA RecordType ==
    ASSUME TInv, NEW j \in PushJobs
    PROVE  /\ RecordOf(j) \in Record
           /\ [mem.history EXCEPT ![j.id] = RecordOf(j)] \in History
<1>1. RecordOf(j) \in Record
  BY DEF RecordOf, Record, PushJobs, Files
<1>2. mem.history \in History /\ j.id \in Push
  BY DEF TInv, WorkspaceTypeOK, Window, PushJobs
<1>3. QED
  BY <1>1, <1>2 DEF History

LEMMA AddRecordType ==
    ASSUME TInv, NEW j \in jobs, AddRecord(j)
    PROVE  TInv'
<1> DEFINE next == SaveJob(j.id, IF j.auto THEN "auto push" ELSE "push")
<1>1. j \in PushJobs
  BY Kinds DEF AddRecord, TInv, WorkspaceTypeOK
<1>2. next \in SaveJobs /\ next.kind = "save"
  BY <1>1 DEF SaveJob, SaveJobs, PushJobs
<1>3. mem' = [mem EXCEPT !.history[j.id] = RecordOf(j)] /\ jobs' = (jobs \ {j}) \cup {next}
  BY DEF AddRecord, Continue
<1> HIDE DEF next
<1>4. mem' \in Window /\ mem'.history = [mem.history EXCEPT ![j.id] = RecordOf(j)]
  BY <1>1, <1>3, RecordType DEF TInv, WorkspaceTypeOK, Window
<1>5. jobs' \in SUBSET Jobs
  BY <1>2, <1>3 DEF TInv, WorkspaceTypeOK, Jobs
<1>6. RevertsAreListed'
  <2>1. ASSUME NEW k \in jobs', k.kind = "revert"
        PROVE  mem'.history[k.id] # None
    <3>1. k \in jobs /\ mem.history[k.id] # None
      BY <1>2, <1>3, <2>1 DEF TInv, RevertsAreListed
    <3>2. k.id \in Push /\ mem.history \in History
      BY <2>1, <3>1, Kinds DEF TInv, WorkspaceTypeOK, Window, RevertJobs
    <3>3. RecordOf(j) # None
      BY <1>1, RecordType, NoneAssumption
    <3>4. QED
      BY <1>4, <3>1, <3>2, <3>3 DEF History
  <2>2. QED
    BY <2>1 DEF RevertsAreListed
<1>7. QED
  BY <1>4, <1>5, <1>6 DEF AddRecord, TInv, WorkspaceTypeOK, disk, ghosts

LEMMA BeginWriteType ==
    ASSUME TInv, NEW j \in jobs, BeginWrite(j)
    PROVE  TInv'
<1> DEFINE next == [j EXCEPT !.image = mem.history]
<1>1. j \in SaveJobs /\ mem.history \in History
  BY Kinds DEF BeginWrite, TInv, WorkspaceTypeOK, Window
<1>2. next \in SaveJobs /\ next.kind = "save" /\ Continue(j, next) /\ UNCHANGED mem
  BY <1>1, JobSteps DEF BeginWrite, SaveJobs
<1> HIDE DEF next
<1>3. jobs' \in SUBSET Jobs /\ RevertsAreListed'
  BY <1>2, JobsStay DEF Jobs
<1>4. QED
  BY <1>3 DEF BeginWrite, TInv, WorkspaceTypeOK, disk, ghosts

LEMMA SavedType ==
    ASSUME TInv, NEW j \in jobs, Saved(j)
    PROVE  TInv'
<1>1. j \in SaveJobs /\ j.image # None
  BY Kinds DEF Saved, TInv, WorkspaceTypeOK
<1>2. saved' \in [branches : SUBSET Branch, history : History]
  BY <1>1 DEF Saved, TInv, WorkspaceTypeOK, SaveJobs
<1>3. mem' \in Window /\ mem'.history = mem.history
  BY DEF Saved, TInv, WorkspaceTypeOK, Window
<1>4. jobs' = jobs \ {j}
  BY DEF Saved, End
<1>5. QED
  BY <1>2, <1>3, <1>4 DEF Saved, TInv, WorkspaceTypeOK, RevertsAreListed, ghosts

LEMMA BeginRevertType ==
    ASSUME TInv, NEW x \in Push, BeginRevert(x)
    PROVE  TInv'
<1>1. PICK paths \in SUBSET Path, full \in BOOLEAN :
         jobs' = jobs \cup {RevertJob(x, mem.dir, paths, full)}
  BY DEF BeginRevert, Begin, FilesPushed
<1> DEFINE job == RevertJob(x, mem.dir, paths, full)
<1>2. job \in RevertJobs /\ job.id = x
  BY DEF RevertJob, RevertJobs, TInv, WorkspaceTypeOK, Window
<1>3. jobs' = jobs \cup {job} /\ mem.history[x] # None
      /\ UNCHANGED <<disk, ws, mem, ghosts>>
  BY <1>1 DEF BeginRevert
<1> HIDE DEF job
<1>4. QED
  BY <1>2, <1>3
     DEF TInv, WorkspaceTypeOK, RevertsAreListed, Jobs, disk, ghosts

LEMMA RevertFileType ==
    ASSUME TInv, NEW j \in jobs, NEW p \in Path, RevertFile(j, p)
    PROVE  TInv'
<1> DEFINE next == [j EXCEPT !.todo = @ \ {p}]
<1>1. j \in RevertJobs /\ mem.history[j.id] # None
  BY Kinds DEF RevertFile, TInv, WorkspaceTypeOK, RevertsAreListed
<1>2. j.id \in Push /\ j.dir \in Branch
  BY <1>1 DEF RevertJobs
<1>3. next \in RevertJobs /\ next.id = j.id /\ Continue(j, next) /\ UNCHANGED mem
  BY <1>1, JobSteps DEF RevertFile
<1> HIDE DEF next
<1>4. jobs' \in SUBSET Jobs /\ RevertsAreListed'
  BY <1>1, <1>3, JobsStay DEF Jobs
<1>5. dir' \in [Branch -> Tree \cup {None}]
  <2>1. \/ Put(j.dir, p, None)
        \/ Put(j.dir, p, snap[j.id][p])
        \/ UNCHANGED dir
    BY DEF RevertFile, Restore
  <2>2. snap[j.id][p] \in Content \cup {None}
    BY <1>2 DEF TInv, WorkspaceTypeOK, Tree
  <2>3. QED
    BY <1>2, <2>1, <2>2, PutFacts DEF TInv, WorkspaceTypeOK
<1>6. alone' \in SUBSET Push
  BY DEF RevertFile, Disturbed, TInv, WorkspaceTypeOK
<1>7. QED
  BY <1>4, <1>5, <1>6 DEF RevertFile, TInv, WorkspaceTypeOK

LEMMA SkipFileType ==
    ASSUME TInv, NEW j \in jobs, NEW p \in Path, SkipFile(j, p)
    PROVE  TInv'
<1> DEFINE next == [j EXCEPT !.todo = @ \ {p}, !.missed = @ \cup {p}]
<1>1. j \in RevertJobs /\ mem.history[j.id] # None
  BY Kinds DEF SkipFile, TInv, WorkspaceTypeOK, RevertsAreListed
<1>2. next \in RevertJobs /\ next.id = j.id /\ Continue(j, next) /\ UNCHANGED mem
  BY <1>1, JobSteps DEF SkipFile
<1> HIDE DEF next
<1>3. jobs' \in SUBSET Jobs /\ RevertsAreListed'
  BY <1>1, <1>2, JobsStay DEF Jobs
<1>4. QED
  BY <1>3 DEF SkipFile, TInv, WorkspaceTypeOK, disk, ghosts

LEMMA MarkRevertedType ==
    ASSUME TInv, NEW j \in jobs, MarkReverted(j)
    PROVE  /\ TInv'
           /\ mem'.history \in History
           /\ mem'.history[j.id] \in Record /\ mem.history[j.id] \in Record
           /\ mem'.history[j.id].files = mem.history[j.id].files
           /\ mem'.history[j.id].branch = mem.history[j.id].branch
           /\ mem'.history[j.id].dir = mem.history[j.id].dir
           /\ mem'.history[j.id].misread = mem.history[j.id].misread
           /\ mem'.name = mem.name /\ mem'.dir = mem.dir
           /\ \A x \in Push \ {j.id} : mem'.history[x] = mem.history[x]
<1> DEFINE r == mem.history[j.id]
           next == SaveJob(j.id, "revert")
<1>1. j \in RevertJobs /\ r # None
  BY Kinds DEF MarkReverted, TInv, WorkspaceTypeOK, RevertsAreListed
<1>2. j.id \in Push /\ mem.history \in History /\ mem \in Window
  BY <1>1 DEF RevertJobs, TInv, WorkspaceTypeOK, Window
<1>3. r \in Record
  BY <1>1, <1>2 DEF History
<1> DEFINE marked == [r EXCEPT !.reverted = TRUE]
<1>4. /\ marked \in Record /\ marked.files = r.files /\ marked.branch = r.branch
      /\ marked.dir = r.dir /\ marked.misread = r.misread
  BY <1>3 DEF Record
<1>5. mem' = [mem EXCEPT !.history = [@ EXCEPT ![j.id] = marked]]
  BY <1>2, <1>3 DEF MarkReverted, Window, History
<1>6. next \in SaveJobs /\ next.kind = "save" /\ jobs' = (jobs \ {j}) \cup {next}
  BY <1>2 DEF SaveJob, SaveJobs, MarkReverted, Continue
<1> HIDE DEF marked, r, next
<1>7. /\ mem' \in Window /\ mem'.history = [mem.history EXCEPT ![j.id] = marked]
      /\ mem'.name = mem.name /\ mem'.dir = mem.dir
  <2>1. [mem.history EXCEPT ![j.id] = marked] \in History
    BY <1>2, <1>4 DEF History
  <2>2. QED
    BY <1>2, <1>5, <2>1 DEF Window
<1>8. mem'.history[j.id] = marked /\ \A x \in Push \ {j.id} : mem'.history[x] = mem.history[x]
  BY <1>2, <1>7 DEF History
<1>9. TInv'
  <2>1. jobs' \in SUBSET Jobs
    BY <1>6 DEF TInv, WorkspaceTypeOK, Jobs
  <2>2. ASSUME NEW k \in jobs', k.kind = "revert"
        PROVE  mem'.history[k.id] # None
    <3>1. k \in jobs /\ mem.history[k.id] # None
      BY <1>6, <2>2 DEF TInv, RevertsAreListed
    <3>2. k.id \in Push
      BY <2>2, <3>1, Kinds DEF TInv, WorkspaceTypeOK, RevertJobs
    <3>3. QED
      BY <1>4, <1>8, <3>1, <3>2, NoneAssumption
  <2>3. QED
    BY <1>7, <2>1, <2>2
       DEF MarkReverted, TInv, WorkspaceTypeOK, RevertsAreListed, disk, ghosts
<1>10. QED
  BY <1>2, <1>3, <1>4, <1>7, <1>8, <1>9 DEF Window, r, WorkspaceTypeOK, TInv
\* A job begins that is no revert.
LEMMA JobBegins ==
    ASSUME TInv, NEW job \in Jobs, job.kind # "revert", Begin(job), UNCHANGED mem
    PROVE  jobs' \in SUBSET Jobs /\ RevertsAreListed'
  BY DEF Begin, TInv, WorkspaceTypeOK, RevertsAreListed

LEMMA DisturbedType ==
    ASSUME TInv, NEW b, NEW x, Disturbed(b, x)
    PROVE  alone' \in SUBSET Push
  BY DEF Disturbed, TInv, WorkspaceTypeOK

LEMMA SwitchType ==
    ASSUME TInv
    PROVE  /\ \A b \in Branch : SwitchBranch(b) => TInv'
           /\ \A j \in jobs : ShowBranch(j) => TInv'
<1>1. ASSUME NEW b \in Branch, SwitchBranch(b)
      PROVE  TInv'
  <2> DEFINE job == [kind |-> "switch", to |-> b]
  <2>1. job \in Jobs /\ job.kind # "revert" /\ Begin(job) /\ UNCHANGED mem
    BY <1>1 DEF SwitchBranch, Jobs, SwitchJobs
  <2> HIDE DEF job
  <2>2. jobs' \in SUBSET Jobs /\ RevertsAreListed'
    BY <2>1, JobBegins
  <2>3. crossed' \in BOOLEAN
    BY <1>1 DEF SwitchBranch, TInv, WorkspaceTypeOK
  <2>4. QED
    BY <1>1, <2>2, <2>3 DEF SwitchBranch, TInv, WorkspaceTypeOK
<1>2. ASSUME NEW j \in jobs, ShowBranch(j)
      PROVE  TInv'
  <2>1. j \in SwitchJobs
    BY <1>2, Kinds DEF ShowBranch, TInv, WorkspaceTypeOK
  <2>2. PICK b \in Branch : /\ mem' = [mem EXCEPT !.dir = b, !.name = j.to]
                            /\ crossed' = (crossed \/ b # active)
    BY <1>2, WorkspaceConstants DEF ShowBranch, ActiveRead, TInv, WorkspaceTypeOK
  <2>3. mem' \in Window /\ mem'.history = mem.history /\ crossed' \in BOOLEAN
    BY <2>1, <2>2 DEF TInv, WorkspaceTypeOK, Window, SwitchJobs
  <2>4. QED
    BY <1>2, <2>3
       DEF ShowBranch, End, TInv, WorkspaceTypeOK, RevertsAreListed, disk
<1>3. QED
  BY <1>1, <1>2

\* A directory is made where there is none.
LEMMA MakeDirectory ==
    ASSUME TInv, NEW b \in Branch, dir' = [dir EXCEPT ![b] = TreeOf(b)]
    PROVE  /\ dir' \in [Branch -> Tree \cup {None}]
           /\ \A a \in Branch : \A p \in Path : At(a, p)' = At(a, p)
<1>1. TreeOf(b) \in Tree
  BY Trees DEF TInv
<1>2. TreeOf(b) # None
  BY <1>1, NoneAssumption
<1>3. dir' \in [Branch -> Tree \cup {None}]
  BY <1>1 DEF TInv, WorkspaceTypeOK
<1>4. dir'[b] = TreeOf(b) /\ \A a \in Branch \ {b} : dir'[a] = dir[a]
  BY DEF TInv, WorkspaceTypeOK
<1>5. QED
  BY <1>2, <1>3, <1>4 DEF At, TreeOf

\* The metadata file is written, or rejected; the history file is another one.
LEMMA SaveBranchesFacts ==
    ASSUME TInv, NEW ok \in BOOLEAN, SaveBranches(ok), mem' \in Window
    PROVE  /\ saved' \in [branches : SUBSET Branch, history : History]
           /\ saved'.history = saved.history
  BY DEF SaveBranches, TInv, WorkspaceTypeOK, Window

LEMMA CopyType ==
    ASSUME TInv
    PROVE  /\ \A b \in Branch : CreateBranch(b) => TInv'
           /\ \A a, b \in Branch : MergeBranch(a, b) => TInv'
           /\ \A j \in jobs : \A p \in Path : CopyAcross(j, p) => TInv'
           /\ \A j \in jobs : Copied(j) => TInv'
<1>1. ASSUME NEW a \in Branch, NEW b \in Branch, NEW paths \in SUBSET Path, NEW l \in BOOLEAN,
             Begin(CopyJob(a, b, paths, l)), UNCHANGED mem
      PROVE  jobs' \in SUBSET Jobs /\ RevertsAreListed'
  <2> DEFINE job == CopyJob(a, b, paths, l)
  <2>1. job \in Jobs /\ job.kind # "revert"
    BY DEF CopyJob, CopyJobs, Jobs
  <2> HIDE DEF job
  <2>2. QED
    BY <1>1, <2>1, JobBegins DEF job
<1>2. ASSUME NEW b \in Branch, CreateBranch(b)
      PROVE  TInv'
  <2>1. PICK from \in Branch : Begin(CopyJob(from, b, FilesOf(from), TRUE))
    BY <1>2, WorkspaceConstants DEF CreateBranch, ActiveRead, TInv, WorkspaceTypeOK
  <2>2. jobs' \in SUBSET Jobs /\ RevertsAreListed'
    BY <1>1, <1>2, <2>1, Trees DEF CreateBranch, TInv
  <2>3. dir' \in [Branch -> Tree \cup {None}] /\ alone' \in SUBSET Push
    BY <1>2, MakeDirectory, DisturbedType DEF CreateBranch
  <2>4. QED
    BY <1>2, <2>2, <2>3 DEF CreateBranch, TInv, WorkspaceTypeOK
<1>3. ASSUME NEW a \in Branch, NEW b \in Branch, MergeBranch(a, b)
      PROVE  TInv'
  <2>1. FilesOf(a) \in SUBSET Path
    BY Trees DEF TInv
  <2>2. jobs' \in SUBSET Jobs /\ RevertsAreListed'
    BY <1>1, <1>3, <2>1 DEF MergeBranch
  <2>3. QED
    BY <1>3, <2>2 DEF MergeBranch, TInv, WorkspaceTypeOK, disk, ghosts
<1>4. ASSUME NEW j \in jobs, NEW p \in Path, CopyAcross(j, p)
      PROVE  TInv'
  <2> DEFINE next == [j EXCEPT !.todo = @ \ {p}]
  <2>1. j \in CopyJobs
    BY <1>4, Kinds DEF CopyAcross, TInv, WorkspaceTypeOK
  <2>2. /\ Put(j.to, p, At(j.from, p)) /\ Disturbed(j.to, None) /\ Continue(j, next)
        /\ UNCHANGED <<active, saved, snap, ws, mem, before, crossed>>
    BY <1>4 DEF CopyAcross
  <2>3. next \in CopyJobs /\ next.kind # "revert"
    BY <2>1, JobSteps DEF CopyJobs
  <2>4. j.to \in Branch /\ At(j.from, p) \in Content \cup {None}
    BY <2>1, Trees DEF TInv, CopyJobs
  <2> HIDE DEF next
  <2>5. jobs' \in SUBSET Jobs /\ RevertsAreListed'
    BY <2>2, <2>3, JobsStay DEF Jobs
  <2>6. dir' \in [Branch -> Tree \cup {None}] /\ alone' \in SUBSET Push
    BY <2>2, <2>4, PutFacts, DisturbedType DEF TInv
  <2>7. QED
    BY <2>2, <2>5, <2>6 DEF TInv, WorkspaceTypeOK
<1>5. ASSUME NEW j \in jobs, Copied(j)
      PROVE  TInv'
  <2>1. j \in CopyJobs
    BY <1>5, Kinds DEF Copied, TInv, WorkspaceTypeOK
  <2>2. mem' \in Window /\ mem'.history = mem.history
    BY <1>5, <2>1 DEF Copied, TInv, WorkspaceTypeOK, Window, CopyJobs
  <2>3. saved' \in [branches : SUBSET Branch, history : History]
    BY <1>5, <2>2, SaveBranchesFacts DEF Copied, TInv, WorkspaceTypeOK
  <2>4. QED
    BY <1>5, <2>2, <2>3
       DEF Copied, End, TInv, WorkspaceTypeOK, RevertsAreListed, ghosts
<1>6. QED
  BY <1>2, <1>3, <1>4, <1>5

LEMMA ImportType ==
    ASSUME TInv
    PROVE  /\ \A b \in Branch : ImportBranch(b) => TInv'
           /\ \A j \in jobs : Imported(j) => TInv'
           /\ \A b \in Branch : DeleteBranch(b) => TInv'
           /\ \A j \in jobs : Deleted(j) => TInv'
<1>1. ASSUME NEW b \in Branch, ImportBranch(b)
      PROVE  TInv'
  <2> DEFINE job == [kind |-> "import", branch |-> b, fails |-> dir[b] # None]
  <2>1. job \in Jobs /\ job.kind # "revert" /\ Begin(job) /\ UNCHANGED mem
    BY <1>1 DEF ImportBranch, Jobs, ImportJobs
  <2> HIDE DEF job
  <2>2. jobs' \in SUBSET Jobs /\ RevertsAreListed'
    BY <2>1, JobBegins
  <2>3. dir' \in [Branch -> Tree \cup {None}]
    BY <1>1, MakeDirectory DEF ImportBranch
  <2>4. QED
    BY <1>1, <2>2, <2>3 DEF ImportBranch, TInv, WorkspaceTypeOK, ghosts
<1>2. ASSUME NEW j \in jobs, Imported(j)
      PROVE  TInv'
  <2>1. j.branch \in Branch
    BY <1>2, Kinds DEF Imported, TInv, WorkspaceTypeOK, ImportJobs
  <2>2. dir' \in [Branch -> Tree \cup {None}] /\ alone' \in SUBSET Push
    <3>1. \E t \in Tree \cup {None} : dir' = [dir EXCEPT ![j.branch] = t]
      BY <1>2 DEF Imported
    <3>2. QED
      BY <1>2, <2>1, <3>1, DisturbedType DEF Imported, TInv, WorkspaceTypeOK
  <2>3. mem' \in Window /\ mem'.history = mem.history
    <3>1. mem' = mem \/ mem' = [mem EXCEPT !.branches = @ \cup {j.branch}]
      BY <1>2 DEF Imported
    <3>2. QED
      BY <2>1, <3>1 DEF TInv, WorkspaceTypeOK, Window
  <2>4. saved' \in [branches : SUBSET Branch, history : History]
    <3>1. UNCHANGED saved \/ \E ok \in BOOLEAN : SaveBranches(ok)
      BY <1>2 DEF Imported
    <3>2. QED
      BY <2>3, <3>1, SaveBranchesFacts DEF TInv, WorkspaceTypeOK
  <2>5. QED
    BY <1>2, <2>2, <2>3, <2>4
       DEF Imported, End, TInv, WorkspaceTypeOK, RevertsAreListed
<1>3. ASSUME NEW b \in Branch, DeleteBranch(b)
      PROVE  TInv'
  <2> DEFINE job == [kind |-> "delete", branch |-> b]
  <2>1. job \in Jobs /\ job.kind # "revert" /\ Begin(job) /\ UNCHANGED mem
    BY <1>3 DEF DeleteBranch, Jobs, DeleteJobs
  <2> HIDE DEF job
  <2>2. jobs' \in SUBSET Jobs /\ RevertsAreListed'
    BY <2>1, JobBegins
  <2>3. dir' \in [Branch -> Tree \cup {None}] /\ alone' \in SUBSET Push
    BY <1>3, DisturbedType DEF DeleteBranch, TInv, WorkspaceTypeOK
  <2>4. QED
    BY <1>3, <2>2, <2>3 DEF DeleteBranch, TInv, WorkspaceTypeOK
<1>4. ASSUME NEW j \in jobs, Deleted(j)
      PROVE  TInv'
  <2>1. mem' \in Window /\ mem'.history = mem.history
    BY <1>4 DEF Deleted, TInv, WorkspaceTypeOK, Window
  <2>2. saved' \in [branches : SUBSET Branch, history : History]
    BY <1>4, <2>1, SaveBranchesFacts DEF Deleted
  <2>3. QED
    BY <1>4, <2>1, <2>2
       DEF Deleted, End, TInv, WorkspaceTypeOK, RevertsAreListed, ghosts
<1>5. QED
  BY <1>1, <1>2, <1>3, <1>4

LEMMA RestartType ==
    ASSUME TInv, Restart
    PROVE  TInv' /\ mem'.history = saved.history
<1>1. PICK b \in Branch, name \in Branch :
         /\ mem' = Loaded(saved.branches, saved.history, b, name)
         /\ crossed' = (crossed \/ b # name)
  BY WorkspaceConstants DEF Restart, ActiveRead, TInv, WorkspaceTypeOK
<1>2. mem' \in Window /\ mem'.history = saved.history /\ crossed' \in BOOLEAN
  BY <1>1 DEF Loaded, Window, TInv, WorkspaceTypeOK
<1>3. QED
  BY <1>2 DEF Restart, TInv, WorkspaceTypeOK, RevertsAreListed, disk

LEMMA WorkspaceType == Spec => []TInv
<1>1. Init => TInv
  <2>1. NoHistory \in History
    BY DEF NoHistory, History
  <2>2. Nothing \in Tree
    BY DEF Nothing, Tree
  <2>3. Loaded({Main}, NoHistory, Main, Main) \in Window
    BY <2>1, WorkspaceConstants DEF Loaded, Window
  <2>4. ASSUME Init
        PROVE  TInv
    <3>1. /\ dir \in [Branch -> Tree \cup {None}] /\ active \in Branch
          /\ snap \in [Push -> Tree] /\ ws \in Tree
      BY <2>2, <2>4, WorkspaceConstants DEF Init
    <3>2. saved \in [branches : SUBSET Branch, history : History] /\ mem \in Window
      BY <2>1, <2>3, <2>4, WorkspaceConstants DEF Init
    <3>3. /\ jobs = {} /\ alone = {} /\ crossed \in BOOLEAN
          /\ before \in [Push -> [branch : Branch, tree : Tree] \cup {None}]
      BY <2>4 DEF Init
    <3>4. QED
      BY <3>1, <3>2, <3>3 DEF TInv, WorkspaceTypeOK, RevertsAreListed
  <2>5. QED
    BY <2>4
<1>2. ASSUME TInv, [Next]_vars
      PROVE  TInv'
  <2>1. CASE UNCHANGED vars
    BY <1>2, <2>1
       DEF vars, disk, ghosts, TInv, WorkspaceTypeOK, RevertsAreListed
  <2>2. ASSUME NEW j \in jobs, Step(j)
        PROVE  TInv'
    <3>1. ASSUME NEW p \in Path,
                 ReadFile(j, p) \/ RevertFile(j, p) \/ SkipFile(j, p) \/ CopyAcross(j, p)
          PROVE  TInv'
      BY <1>2, <3>1, ReadFileType, RevertFileType, SkipFileType, CopyType
    <3>2. CASE Fail(j) \/ WriteFails(j) \/ HistoryFails(j) \/ CopyFile(j) \/ AddRecord(j)
               \/ BeginWrite(j) \/ Saved(j)
      BY <1>2, <3>2, FailType, WriteFailsType, HistoryFailsType, CopyFileType, AddRecordType,
         BeginWriteType, SavedType
    <3>3. QED
      BY <1>2, <2>2, <3>1, <3>2, BeginPushType, MarkRevertedType, SwitchType, CopyType,
         ImportType DEF Step
  <2>3. QED
    BY <1>2, <2>1, <2>2, UserType, AskPushType, BeginRevertType, SwitchType, CopyType,
       ImportType, RestartType DEF Next
<1>3. QED
  BY <1>1, <1>2, PTL DEF Spec

-----------------------------------------------------------------------------
(* Histories: in memory, on disk, and about to be written *)

Saving == {j \in jobs : j.kind = "save" /\ j.image # None}
Histories == {mem.history, saved.history} \cup {j.image : j \in Saving}

LEMMA HistoriesTyped ==
    ASSUME TInv, NEW h \in Histories
    PROVE  h \in History
<1>1. mem.history \in History /\ saved.history \in History
  BY DEF TInv, WorkspaceTypeOK, Window
<1>2. \A j \in Saving : j.image \in History
  BY Kinds DEF Saving, TInv, WorkspaceTypeOK, SaveJobs
<1>3. QED
  BY <1>1, <1>2 DEF Histories

LEMMA HistoriesKept ==
    ASSUME mem'.history = mem.history, saved'.history = saved.history,
           \A j \in jobs' : j.kind = "save" => j \in jobs \/ j.image = None
    PROVE  Histories' \subseteq Histories
<1>1. \A j \in Saving' : j \in Saving
  BY DEF Saving
<1>2. QED
  BY <1>1 DEF Histories

\* Steps that list nothing: none but the end of a push, and of a revert, does.
Lists(j) == AddRecord(j) \/ MarkReverted(j)

LEMMA NothingListed ==
    ASSUME TInv, [Next]_vars, \A j \in jobs : ~Lists(j)
    PROVE  Histories' \subseteq Histories \cup {NoHistory}
<1> USE DEF TInv
<1>1. CASE UNCHANGED vars
  BY <1>1, HistoriesKept DEF vars, disk
<1>2. ASSUME NEW p \in Path, Edit(p) \/ AddNewFile(p) \/ AddToWorkspace(p) \/ Pull(p) \/ Stage(p)
      PROVE  Histories' \subseteq Histories
  <2>1. mem'.history = mem.history
    BY <1>2 DEF Edit, AddNewFile, Edited, AddToWorkspace, Pull, Stage, WorkspaceTypeOK, Window
  <2>2. QED
    BY <1>2, <2>1, HistoriesKept DEF Edit, AddNewFile, Edited, AddToWorkspace, Pull, Stage, disk
<1>3. ASSUME NEW job, job.kind # "save", Begin(job), UNCHANGED mem, saved'.history = saved.history
      PROVE  Histories' \subseteq Histories
  BY <1>3, HistoriesKept DEF Begin
<1>4. CASE AskPush
  <2>1. PICK job \in AskJobs : jobs' = jobs \cup {job}
    BY <1>4, AskPushType
  <2>2. job.kind # "save" /\ UNCHANGED <<mem, saved>>
    BY <1>4 DEF AskPush, AskJobs, disk
  <2>3. QED
    BY <2>1, <2>2, HistoriesKept
<1>5. ASSUME NEW x \in Push, BeginRevert(x)
      PROVE  Histories' \subseteq Histories
  <2>1. PICK paths, full : Begin(RevertJob(x, mem.dir, paths, full))
    BY <1>5 DEF BeginRevert
  <2> DEFINE job == RevertJob(x, mem.dir, paths, full)
  <2>2. job.kind # "save" /\ Begin(job) /\ UNCHANGED <<mem, saved>>
    BY <1>5, <2>1 DEF BeginRevert, RevertJob, disk
  <2> HIDE DEF job
  <2>3. QED
    BY <1>3, <2>2
<1>6. ASSUME NEW b \in Branch, SwitchBranch(b) \/ ImportBranch(b) \/ DeleteBranch(b)
      PROVE  Histories' \subseteq Histories
  BY <1>3, <1>6 DEF SwitchBranch, ImportBranch, DeleteBranch
<1>7. ASSUME NEW a, NEW b, NEW paths, NEW l, Begin(CopyJob(a, b, paths, l)),
             UNCHANGED <<mem, saved>>
      PROVE  Histories' \subseteq Histories
  <2> DEFINE job == CopyJob(a, b, paths, l)
  <2>1. job.kind # "save" /\ Begin(job)
    BY <1>7 DEF CopyJob
  <2> HIDE DEF job
  <2>2. QED
    BY <1>3, <1>7, <2>1
<1>8. ASSUME NEW b \in Branch, CreateBranch(b) \/ \E a \in Branch : MergeBranch(a, b)
      PROVE  Histories' \subseteq Histories
  BY <1>7, <1>8 DEF CreateBranch, MergeBranch, disk
<1>9. ASSUME NEW j \in jobs, NEW next, next.kind # "save", End(j) \/ Continue(j, next),
             mem'.history = mem.history, saved'.history = saved.history
      PROVE  Histories' \subseteq Histories
  BY <1>9, HistoriesKept DEF End, Continue
<1>10. ASSUME NEW j \in jobs, ShowBranch(j) \/ Copied(j) \/ Imported(j) \/ Deleted(j) \/ Fail(j)
       PROVE  Histories' \subseteq Histories
  <2>1. mem'.history = mem.history /\ End(j)
    BY <1>10 DEF ShowBranch, Copied, Imported, Deleted, Fail, WorkspaceTypeOK, Window
  <2>2. saved'.history = saved.history
    <3>1. UNCHANGED saved \/ \E ok \in BOOLEAN : SaveBranches(ok)
      BY <1>10 DEF ShowBranch, Copied, Imported, Deleted, Fail, disk
    <3>2. QED
      BY <3>1 DEF SaveBranches
  <2>3. QED
    BY <2>1, <2>2, HistoriesKept DEF End
<1>11. ASSUME NEW j \in jobs, NEW x \in Push, BeginPush(j, x)
       PROVE  Histories' \subseteq Histories
  <2>1. PICK job \in PushJobs : /\ job.kind = "push" /\ jobs' = (jobs \ {j}) \cup {job}
                                /\ UNCHANGED <<saved, mem>>
    BY <1>11, BeginPushFacts
  <2>2. QED
    BY <2>1, HistoriesKept
<1>12. ASSUME NEW j \in jobs, NEW p \in Path, ReadFile(j, p)
       PROVE  Histories' \subseteq Histories
  <2>1. PICK inBranch \in BOOLEAN, status \in {"added", "modified", "deleted"},
             c \in Current, next \in PushJobs : ReadStep(j, p, inBranch, status, c, next)
    BY <1>12, ReadFileFacts
  <2>2. Continue(j, next) /\ next.kind = "push" /\ UNCHANGED <<saved, mem>>
    BY <2>1 DEF ReadStep
  <2>3. QED
    BY <1>9, <2>2
<1>13. ASSUME NEW j \in jobs, CopyFile(j)
       PROVE  Histories' \subseteq Histories
  <2>1. PICK p \in Path, c \in Content \cup {None}, next \in PushJobs :
           Continue(j, next) /\ next.kind = "push" /\ UNCHANGED <<saved, mem>>
    BY <1>13, CopyFileFacts
  <2>2. QED
    BY <1>9, <2>1
<1>14. ASSUME NEW j \in jobs, NEW p \in Path,
              RevertFile(j, p) \/ SkipFile(j, p) \/ CopyAcross(j, p)
       PROVE  Histories' \subseteq Histories
  <2>1. j \in RevertJobs \/ j \in CopyJobs
    BY <1>14, Kinds DEF RevertFile, SkipFile, CopyAcross, WorkspaceTypeOK
  <2>2. [j EXCEPT !.todo = @ \ {p}].kind # "save"
    BY <2>1 DEF RevertJobs, CopyJobs
  <2>3. [j EXCEPT !.todo = @ \ {p}, !.missed = @ \cup {p}].kind # "save"
    BY <2>1 DEF RevertJobs, CopyJobs
  <2>4. \/ Continue(j, [j EXCEPT !.todo = @ \ {p}])
        \/ Continue(j, [j EXCEPT !.todo = @ \ {p}, !.missed = @ \cup {p}])
    BY <1>14 DEF RevertFile, SkipFile, CopyAcross
  <2>5. UNCHANGED <<mem, saved>>
    BY <1>14 DEF RevertFile, SkipFile, CopyAcross, disk
  <2>6. QED
    BY <1>9, <2>2, <2>3, <2>4, <2>5
<1>15. ASSUME NEW j \in jobs, BeginWrite(j)
       PROVE  Histories' \subseteq Histories
  <2> DEFINE next == [j EXCEPT !.image = mem.history]
  <2>1. j \in SaveJobs
    BY <1>15, Kinds DEF BeginWrite, WorkspaceTypeOK
  <2>2. next.image = mem.history /\ jobs' = (jobs \ {j}) \cup {next}
        /\ UNCHANGED <<mem, saved>>
    BY <1>15, <2>1 DEF BeginWrite, Continue, disk, SaveJobs
  <2> HIDE DEF next
  <2>3. \A k \in Saving' : k \in Saving \/ k.image = mem.history
    BY <2>2 DEF Saving
  <2>4. QED
    BY <2>2, <2>3 DEF Histories
<1>16. ASSUME NEW j \in jobs, Saved(j)
       PROVE  Histories' \subseteq Histories
  <2>1. j \in Saving
    BY <1>16 DEF Saving, Saved
  <2>2. mem'.history = mem.history /\ saved'.history = j.image /\ jobs' = jobs \ {j}
    BY <1>16 DEF Saved, End, WorkspaceTypeOK, Window
  <2>3. Saving' \subseteq Saving
    BY <2>2 DEF Saving
  <2>4. QED
    BY <2>1, <2>2, <2>3 DEF Histories
<1>17. ASSUME NEW j \in jobs, WriteFails(j)
       PROVE  Histories' \subseteq Histories
  <2>1. PICK p \in Path : jobs' = Spoiled(j, p)
    BY <1>17 DEF WriteFails
  <2>2. \A k \in jobs' : k.kind = "save" => k \in jobs
    BY <2>1, SpoiledJobs DEF RevertJobs
  <2>3. QED
    BY <1>17, <2>2, HistoriesKept DEF WriteFails
<1>18. ASSUME NEW j \in jobs, HistoryFails(j)
       PROVE  Histories' \subseteq Histories \cup {NoHistory}
  <2>1. mem' = mem /\ saved'.history = NoHistory /\ jobs' = jobs \ {j}
    BY <1>18 DEF HistoryFails, End, WorkspaceTypeOK
  <2>2. Saving' \subseteq Saving
    BY <2>1 DEF Saving
  <2>3. QED
    BY <2>1, <2>2 DEF Histories
<1>19. CASE Restart
  <2>1. Saving' = {} /\ mem'.history = saved.history /\ UNCHANGED saved
    BY <1>19, RestartType DEF Restart, Saving, disk
  <2>2. QED
    BY <2>1 DEF Histories
<1>20. ASSUME NEW j \in jobs, Step(j)
       PROVE  Histories' \subseteq Histories \cup {NoHistory}
  BY <1>10, <1>11, <1>12, <1>13, <1>14, <1>15, <1>16, <1>17, <1>18, <1>20 DEF Step, Lists
<1>21. QED
  BY <1>1, <1>2, <1>4, <1>5, <1>6, <1>8, <1>19, <1>20 DEF Next
-----------------------------------------------------------------------------
(* Records *)

\* Until two switches have crossed, the name a window shows is that of the directory it
\* shows, a switch in progress leads to the active branch, and a push goes on with the two
\* it has taken.
Named(h) == \A x \in Push : h[x] # None => h[x].branch = h[x].dir

Pairs ==
    ~crossed => /\ mem.name = mem.dir
                /\ \A j \in jobs : j.kind = "switch" => j.to = active
                /\ \A j \in jobs : j.kind = "push" => j.name = j.dir

LEMMA PairsKept ==
    ASSUME TInv, Pairs, mem'.name = mem.name, mem'.dir = mem.dir, UNCHANGED <<active, crossed>>,
           \A j \in jobs' : /\ j.kind = "switch" => j \in jobs
                            /\ j.kind = "push" =>
                                  \/ j \in jobs \/ j.name = j.dir
                                  \/ \E k \in jobs : /\ k.kind = "push"
                                                     /\ j.name = k.name /\ j.dir = k.dir
    PROVE  Pairs'
  BY DEF Pairs

LEMMA PairsStep == ASSUME TInv, Pairs, [Next]_vars PROVE Pairs' /\ (crossed => crossed')
<1> USE DEF TInv
<1>1. CASE UNCHANGED vars
  BY <1>1, PairsKept DEF vars, disk, ghosts
<1>2. ASSUME NEW p \in Path, Edit(p) \/ AddNewFile(p) \/ AddToWorkspace(p) \/ Pull(p) \/ Stage(p)
      PROVE  Pairs' /\ UNCHANGED crossed
  <2>1. mem'.name = mem.name /\ mem'.dir = mem.dir
    BY <1>2 DEF Edit, AddNewFile, Edited, AddToWorkspace, Pull, Stage, WorkspaceTypeOK, Window
  <2>2. QED
    BY <1>2, <2>1, PairsKept
       DEF Edit, AddNewFile, Edited, AddToWorkspace, Pull, Stage, disk, ghosts
<1>3. ASSUME NEW job, job.kind # "switch", job.kind # "push",
             Begin(job), UNCHANGED <<mem, active, crossed>>
      PROVE  Pairs'
  BY <1>3, PairsKept DEF Begin
<1>4. CASE AskPush
  <2>1. PICK job \in AskJobs : jobs' = jobs \cup {job}
    BY <1>4, AskPushType
  <2>2. job.kind = "ask" /\ UNCHANGED <<mem, active, crossed>>
    BY <1>4 DEF AskPush, AskJobs, disk, ghosts
  <2>3. QED
    BY <2>1, <2>2, PairsKept
<1>5. ASSUME NEW x \in Push, BeginRevert(x)
      PROVE  Pairs' /\ UNCHANGED crossed
  <2>1. PICK paths, full : Begin(RevertJob(x, mem.dir, paths, full))
    BY <1>5 DEF BeginRevert
  <2> DEFINE job == RevertJob(x, mem.dir, paths, full)
  <2>2. job.kind = "revert" /\ Begin(job) /\ UNCHANGED <<mem, active, crossed>>
    BY <1>5, <2>1 DEF BeginRevert, RevertJob, disk, ghosts
  <2> HIDE DEF job
  <2>3. QED
    BY <1>3, <2>2
<1>6. ASSUME NEW b \in Branch, ImportBranch(b) \/ DeleteBranch(b)
      PROVE  Pairs' /\ UNCHANGED crossed
  BY <1>3, <1>6 DEF ImportBranch, DeleteBranch, ghosts
<1>7. ASSUME NEW a, NEW b, NEW paths, NEW l, Begin(CopyJob(a, b, paths, l)),
             UNCHANGED <<mem, active, crossed>>
      PROVE  Pairs'
  <2> DEFINE job == CopyJob(a, b, paths, l)
  <2>1. job.kind = "copy" /\ Begin(job)
    BY <1>7 DEF CopyJob
  <2> HIDE DEF job
  <2>2. QED
    BY <1>3, <1>7, <2>1
<1>8. ASSUME NEW b \in Branch, CreateBranch(b) \/ \E a \in Branch : MergeBranch(a, b)
      PROVE  Pairs' /\ UNCHANGED crossed
  BY <1>7, <1>8 DEF CreateBranch, MergeBranch, disk, ghosts
<1>9. ASSUME NEW b \in Branch, SwitchBranch(b)
      PROVE  Pairs' /\ (crossed => crossed')
  <2> DEFINE job == [kind |-> "switch", to |-> b]
  <2>1. /\ job.kind = "switch" /\ job.to = b /\ jobs' = jobs \cup {job} /\ active' = b
        /\ UNCHANGED mem
        /\ crossed' = (crossed \/ \E j \in jobs : j.kind = "switch")
    BY <1>9 DEF SwitchBranch, Begin
  <2> HIDE DEF job
  <2>2. QED
    BY <2>1 DEF Pairs, WorkspaceTypeOK
<1>10. ASSUME NEW j \in jobs, ShowBranch(j)
       PROVE  Pairs' /\ (crossed => crossed')
  <2>1. PICK b : /\ mem' = [mem EXCEPT !.dir = b, !.name = j.to]
                 /\ crossed' = (crossed \/ b # active)
    BY <1>10 DEF ShowBranch
  <2>2. mem'.dir = b /\ mem'.name = j.to
    BY <2>1 DEF WorkspaceTypeOK, Window
  <2>3. ~crossed' => ~crossed /\ b = active /\ j.to = active
    BY <1>10, <2>1 DEF ShowBranch, Pairs, WorkspaceTypeOK
  <2>4. QED
    BY <1>10, <2>1, <2>2, <2>3 DEF ShowBranch, End, Pairs, disk
<1>11. ASSUME NEW j \in jobs, End(j), UNCHANGED <<active, crossed>>,
              mem'.name = mem.name, mem'.dir = mem.dir
       PROVE  Pairs'
  BY <1>11, PairsKept DEF End
<1>12. ASSUME NEW j \in jobs, NEW next, Continue(j, next), UNCHANGED <<active, crossed>>,
              mem'.name = mem.name, mem'.dir = mem.dir, next.kind # "switch",
              next.kind = "push" =>
                 j.kind = "push" /\ next.name = j.name /\ next.dir = j.dir
       PROVE  Pairs'
  BY <1>12, PairsKept DEF Continue
<1>13. ASSUME NEW j \in jobs, \/ Copied(j) \/ Imported(j) \/ Deleted(j) \/ Saved(j) \/ Fail(j)
                             \/ HistoryFails(j)
       PROVE  Pairs' /\ UNCHANGED crossed
  <2>1. mem'.name = mem.name /\ mem'.dir = mem.dir
    BY <1>13 DEF Copied, Imported, Deleted, Saved, Fail, HistoryFails, WorkspaceTypeOK, Window
  <2>2. End(j) /\ UNCHANGED <<active, crossed>>
    BY <1>13 DEF Copied, Imported, Deleted, Saved, Fail, HistoryFails, disk, ghosts
  <2>3. QED
    BY <1>11, <2>1, <2>2
<1>14. ASSUME NEW j \in jobs, NEW x \in Push, BeginPush(j, x)
       PROVE  Pairs' /\ UNCHANGED crossed
  <2>1. PICK job \in PushJobs :
           /\ jobs' = (jobs \ {j}) \cup {job} /\ job.kind = "push"
           /\ job.dir = mem.dir /\ job.name = mem.name
           /\ UNCHANGED <<active, mem, crossed>>
    BY <1>14, BeginPushFacts
  <2>2. QED
    BY <2>1 DEF Pairs
<1>15. ASSUME NEW j \in jobs, NEW p \in Path, ReadFile(j, p)
       PROVE  Pairs' /\ UNCHANGED crossed
  <2>1. PICK inBranch \in BOOLEAN, status \in {"added", "modified", "deleted"},
             c \in Current, next \in PushJobs : ReadStep(j, p, inBranch, status, c, next)
    BY <1>15, ReadFileFacts
  <2>2. /\ Continue(j, next) /\ next.kind = "push" /\ next.name = j.name /\ next.dir = j.dir
        /\ UNCHANGED <<active, mem, crossed>>
    BY <2>1 DEF ReadStep, ghosts
  <2>3. QED
    BY <1>12, <1>15, <2>2 DEF ReadFile
<1>16. ASSUME NEW j \in jobs, CopyFile(j)
       PROVE  Pairs' /\ UNCHANGED crossed
  <2>1. PICK p \in Path, c \in Content \cup {None}, next \in PushJobs :
           /\ Continue(j, next) /\ next.kind = "push" /\ next.name = j.name
           /\ next.dir = j.dir /\ UNCHANGED <<active, mem, crossed>>
    BY <1>16, CopyFileFacts
  <2>2. QED
    BY <1>12, <1>16, <2>1 DEF CopyFile
<1>17. ASSUME NEW j \in jobs, NEW p \in Path,
              RevertFile(j, p) \/ SkipFile(j, p) \/ CopyAcross(j, p)
       PROVE  Pairs' /\ UNCHANGED crossed
  <2>1. j \in RevertJobs \/ j \in CopyJobs
    BY <1>17, Kinds DEF RevertFile, SkipFile, CopyAcross, WorkspaceTypeOK
  <2>2. [j EXCEPT !.todo = @ \ {p}].kind \notin {"push", "switch"}
    BY <2>1 DEF RevertJobs, CopyJobs
  <2>3. [j EXCEPT !.todo = @ \ {p}, !.missed = @ \cup {p}].kind \notin {"push", "switch"}
    BY <2>1 DEF RevertJobs, CopyJobs
  <2>4. \/ Continue(j, [j EXCEPT !.todo = @ \ {p}])
        \/ Continue(j, [j EXCEPT !.todo = @ \ {p}, !.missed = @ \cup {p}])
    BY <1>17 DEF RevertFile, SkipFile, CopyAcross
  <2>5. UNCHANGED <<mem, active, crossed>>
    BY <1>17 DEF RevertFile, SkipFile, CopyAcross, disk, ghosts
  <2>6. QED
    BY <1>12, <2>2, <2>3, <2>4, <2>5
<1>18. ASSUME NEW j \in jobs, AddRecord(j) \/ MarkReverted(j) \/ BeginWrite(j)
       PROVE  Pairs' /\ UNCHANGED crossed
  <2>1. mem'.name = mem.name /\ mem'.dir = mem.dir /\ UNCHANGED <<active, crossed>>
    BY <1>18 DEF AddRecord, MarkReverted, BeginWrite, WorkspaceTypeOK, Window, disk, ghosts
  <2>2. CASE BeginWrite(j)
    <3>1. j \in SaveJobs
      BY <2>2, Kinds DEF BeginWrite, WorkspaceTypeOK
    <3>2. [j EXCEPT !.image = mem.history].kind = "save"
      BY <3>1 DEF SaveJobs
    <3>3. Continue(j, [j EXCEPT !.image = mem.history])
      BY <2>2 DEF BeginWrite
    <3>4. QED
      BY <1>12, <2>1, <3>2, <3>3
  <2>3. ASSUME NEW ends, Continue(j, SaveJob(j.id, ends))
        PROVE  Pairs'
    <3>1. SaveJob(j.id, ends).kind = "save"
      BY DEF SaveJob
    <3>2. QED
      BY <1>12, <2>1, <2>3, <3>1
  <2>4. QED
    BY <1>18, <2>1, <2>2, <2>3 DEF AddRecord, MarkReverted
<1>19. ASSUME NEW j \in jobs, WriteFails(j)
       PROVE  Pairs' /\ UNCHANGED crossed
  <2>1. PICK p \in Path : jobs' = Spoiled(j, p)
    BY <1>19 DEF WriteFails
  <2>2. \A k \in jobs' : k.kind \in {"switch", "push"} => k \in jobs
    BY <2>1, SpoiledJobs DEF RevertJobs
  <2>3. QED
    BY <1>19, <2>2, PairsKept DEF WriteFails
<1>20. CASE Restart
  <2>1. PICK b, name : /\ mem' = Loaded(saved.branches, saved.history, b, name)
                       /\ crossed' = (crossed \/ b # name)
    BY <1>20 DEF Restart
  <2>2. jobs' = {} /\ mem'.dir = b /\ mem'.name = name
    BY <1>20, <2>1 DEF Restart, Loaded
  <2>3. QED
    BY <2>1, <2>2 DEF Pairs, WorkspaceTypeOK
<1>21. ASSUME NEW j \in jobs, Step(j)
       PROVE  Pairs' /\ (crossed => crossed')
  BY <1>10, <1>13, <1>14, <1>15, <1>16, <1>17, <1>18, <1>19, <1>21 DEF Step
<1>22. QED
  BY <1>1, <1>2, <1>4, <1>5, <1>6, <1>8, <1>9, <1>20, <1>21 DEF Next, AskPush, ghosts, vars

\* What the end of a push lists, and where.
LEMMA AddRecordFacts ==
    ASSUME TInv, NEW j \in jobs, AddRecord(j)
    PROVE  /\ j \in PushJobs /\ j.id \in Push
           /\ mem'.history[j.id] = RecordOf(j)
           /\ \A x \in Push \ {j.id} : mem'.history[x] = mem.history[x]
           /\ Histories' \subseteq Histories \cup {mem'.history}
<1> DEFINE next == SaveJob(j.id, IF j.auto THEN "auto push" ELSE "push")
<1>1. j \in PushJobs /\ j.id \in Push
  BY Kinds DEF AddRecord, TInv, WorkspaceTypeOK, PushJobs
<1>2. mem'.history = [mem.history EXCEPT ![j.id] = RecordOf(j)]
  BY DEF AddRecord, TInv, WorkspaceTypeOK, Window
<1>3. next.image = None /\ jobs' = (jobs \ {j}) \cup {next}
  BY DEF SaveJob, AddRecord, Continue
<1> HIDE DEF next
<1>4. Saving' \subseteq Saving /\ UNCHANGED saved
  BY <1>3 DEF Saving, AddRecord, disk
<1>5. QED
  BY <1>1, <1>2, <1>4 DEF Histories, TInv, WorkspaceTypeOK, Window, History

LEMMA MarkRevertedFacts ==
    ASSUME TInv, NEW j \in jobs, MarkReverted(j)
    PROVE  /\ j.id \in Push
           /\ Histories' \subseteq Histories \cup {mem'.history}
<1> DEFINE next == SaveJob(j.id, "revert")
<1>1. j.id \in Push
  BY Kinds DEF MarkReverted, TInv, WorkspaceTypeOK, RevertJobs
<1>2. next.image = None /\ jobs' = (jobs \ {j}) \cup {next}
  BY DEF SaveJob, MarkReverted, Continue
<1> HIDE DEF next
<1>3. Saving' \subseteq Saving /\ UNCHANGED saved
  BY <1>2 DEF Saving, MarkReverted, disk
<1>4. QED
  BY <1>1, <1>3 DEF Histories

\* The branch a record names is the branch the push wrote to, in memory and on disk, as
\* long as no two switches have overlapped and the active branch could be read.
THEOREM RecordsAreNamed == Spec => []RecordsNameTheirBranch
<1> DEFINE Inv == Pairs /\ (~crossed => \A h \in Histories : Named(h))
<1>1. Init => Inv
  <2>1. Named(NoHistory)
    BY DEF Named, NoHistory
  <2>2. QED
    BY <2>1 DEF Init, Pairs, Loaded, Histories, Saving
<1>2. ASSUME TInv, Inv, [Next]_vars
      PROVE  Inv'
  <2>1. Pairs' /\ (crossed => crossed')
    BY <1>2, PairsStep
  <2>2. CASE crossed'
    BY <2>1, <2>2
  <2>3. CASE ~crossed'
    <3>1. ~crossed /\ \A h \in Histories : Named(h)
      BY <1>2, <2>1, <2>3
    <3>2. ASSUME NEW j \in jobs, AddRecord(j)
          PROVE  \A h \in Histories' : Named(h)
      <4>1. RecordOf(j).branch = RecordOf(j).dir
        BY <1>2, <3>1, <3>2 DEF RecordOf, Pairs, AddRecord
      <4>2. Named(mem'.history)
        BY <1>2, <3>1, <3>2, <4>1, AddRecordFacts DEF Named, Histories
      <4>3. QED
        BY <1>2, <3>1, <3>2, <4>2, AddRecordFacts
    <3>3. ASSUME NEW j \in jobs, MarkReverted(j)
          PROVE  \A h \in Histories' : Named(h)
      <4>1. ASSUME NEW x \in Push, mem'.history[x] # None
            PROVE  mem'.history[x].branch = mem'.history[x].dir
        <5>1. CASE x = j.id
          <6>1. mem.history[x] # None
            BY <1>2, <3>3, <5>1 DEF TInv, RevertsAreListed, MarkReverted
          <6>2. mem.history[x].branch = mem.history[x].dir
            BY <3>1, <6>1 DEF Named, Histories
          <6>3. QED
            BY <1>2, <3>3, <5>1, <6>2, MarkRevertedType
        <5>2. CASE x # j.id
          <6>1. mem'.history[x] = mem.history[x]
            BY <1>2, <3>3, <5>2, MarkRevertedType
          <6>2. QED
            BY <3>1, <4>1, <6>1 DEF Named, Histories
        <5>3. QED
          BY <5>1, <5>2
      <4>2. Named(mem'.history)
        BY <4>1 DEF Named
      <4>3. QED
        BY <1>2, <3>1, <3>3, <4>2, MarkRevertedFacts
    <3>4. ASSUME \A j \in jobs : ~Lists(j)
          PROVE  \A h \in Histories' : Named(h)
      <4>1. Named(NoHistory)
        BY DEF Named, NoHistory
      <4>2. QED
        BY <1>2, <3>1, <3>4, <4>1, NothingListed
    <3>5. \A h \in Histories' : Named(h)
      BY <3>2, <3>3, <3>4 DEF Lists
    <3>6. QED
      BY <2>1, <3>5
  <2>4. QED
    BY <2>2, <2>3
<1>3. Inv => RecordsNameTheirBranch
  BY DEF Named, Histories, RecordsNameTheirBranch
<1> HIDE DEF Inv
<1>4. QED
  BY <1>1, <1>2, <1>3, WorkspaceType, PTL DEF Spec
-----------------------------------------------------------------------------
(* Undoing *)

Unlisted(x) == \A h \in Histories : h[x] = None

\* What push j has read is put away as it found it, but for what it failed to read, and
\* the rest is still there.
PutAway(j) ==
    /\ before[j.id].branch = j.dir
    /\ \A p \in Path :
          IF j.files[p] = None
          THEN snap[j.id][p] = None /\ At(j.dir, p) = before[j.id].tree[p]
          ELSE p \notin j.misread =>
                  /\ snap[j.id][p] = Decoded(before[j.id].tree[p])
                  /\ j.files[p] = "added" => snap[j.id][p] = None

PushInv(j) ==
    /\ before[j.id] # None /\ Unlisted(j.id)
    /\ \A p \in j.todo : j.files[p] = None
    /\ j.cur # None => j.files[j.cur.path] # None
    /\ j.id \in alone => PutAway(j)

Undo ==
    /\ \A x \in alone : before[x] # None
    /\ \A x \in Push : before[x] = None => snap[x] = Nothing /\ Unlisted(x)
    /\ \A j \in jobs : j.kind = "push" => PushInv(j)
    /\ \A j, k \in jobs : j.kind = "push" /\ k.kind = "push" /\ j.id = k.id => j = k
    /\ \A h \in Histories : Undoable(h)

\* A step that lists nothing, puts nothing away, and writes to no branch that a push which
\* may still be undone is working on.
LEMMA UndoKept ==
    ASSUME TInv, Undo, Histories' \subseteq Histories \cup {NoHistory},
           UNCHANGED <<snap, before>>, alone' \subseteq alone,
           \A j \in jobs' : j.kind = "push" => j \in jobs,
           \A j \in jobs' : j.kind = "push" /\ j.id \in alone' =>
              \A p \in Path : At(j.dir, p)' = At(j.dir, p)
    PROVE  Undo'
<1>1. \A x \in Push : Unlisted(x) => Unlisted(x)'
  BY DEF Unlisted, NoHistory
<1>2. \A h \in Histories' : Undoable(h)'
  <2>1. ASSUME NEW h \in Histories
        PROVE  Undoable(h)'
    BY <2>1 DEF Undo, Undoable
  <2>2. Undoable(NoHistory)'
    BY DEF Undoable, NoHistory, TInv, WorkspaceTypeOK
  <2>3. QED
    BY <2>1, <2>2
<1>3. ASSUME NEW j \in jobs', j.kind = "push"
      PROVE  PushInv(j)'
  <2>1. j \in jobs /\ PushInv(j) /\ j.id \in Push
    BY <1>3, Kinds DEF Undo, TInv, WorkspaceTypeOK, PushJobs
  <2>2. ASSUME j.id \in alone'
        PROVE  PutAway(j)'
    <3>1. PutAway(j)
      BY <2>1, <2>2 DEF PushInv
    <3>2. \A p \in Path : At(j.dir, p)' = At(j.dir, p)
      BY <1>3, <2>1, <2>2
    <3>3. QED
      BY <3>1, <3>2 DEF PutAway
  <2>3. QED
    BY <1>1, <2>1, <2>2 DEF PushInv
<1>4. \A x \in alone' : before'[x] # None
  BY DEF Undo
<1>5. \A x \in Push : before'[x] = None => snap'[x] = Nothing /\ Unlisted(x)'
  BY <1>1 DEF Undo
<1>6. \A j, k \in jobs' : j.kind = "push" /\ k.kind = "push" /\ j.id = k.id => j = k
  BY DEF Undo
<1>7. QED
  BY <1>2, <1>3, <1>4, <1>5, <1>6 DEF Undo

\* Another's write to the branch of a push takes the push out of those that can be undone.
LEMMA Elsewhere ==
    ASSUME TInv, Undo, NEW b, NEW x, Disturbed(b, x), NEW j \in jobs, j.kind = "push",
           j.id \in alone', j.id # x
    PROVE  j.dir # b
<1>1. j.id \in alone /\ before[j.id].branch # b
  BY DEF Disturbed
<1>2. before[j.id].branch = j.dir
  BY <1>1 DEF Undo, PushInv, PutAway
<1>3. QED
  BY <1>1, <1>2
\* Steps that write to no branch.
LEMMA UndoQuiet ==
    ASSUME TInv, Undo, Histories' \subseteq Histories \cup {NoHistory},
           \/ UNCHANGED vars
           \/ \E p \in Path : Edit(p) \/ AddNewFile(p) \/ AddToWorkspace(p) \/ Pull(p) \/ Stage(p)
           \/ AskPush \/ \E x \in Push : BeginRevert(x)
           \/ \E b \in Branch : SwitchBranch(b)
           \/ \E a, b \in Branch : MergeBranch(a, b)
           \/ \E j \in jobs : \/ BeginWrite(j) \/ Saved(j) \/ ShowBranch(j) \/ Copied(j)
                             \/ Deleted(j) \/ Fail(j) \/ HistoryFails(j)
                             \/ \E p \in Path : SkipFile(j, p)
           \/ Restart
    PROVE  Undo'
<1> USE DEF TInv
<1>1. UNCHANGED <<snap, before, alone, dir>>
  BY DEF vars, disk, ghosts, Edit, AddNewFile, Edited, AddToWorkspace, Pull, Stage,
         AskPush, BeginRevert, SwitchBranch, MergeBranch, BeginWrite, Saved, ShowBranch, Copied,
         Deleted, Fail, HistoryFails, SkipFile, Restart
<1>2. \A j \in jobs' : j.kind = "push" => j \in jobs
  <2>1. CASE jobs' \subseteq jobs
    BY <2>1
  <2>2. ASSUME NEW x \in Push, BeginRevert(x)
        PROVE  \A j \in jobs' : j.kind = "push" => j \in jobs
    <3>1. PICK paths, full : jobs' = jobs \cup {RevertJob(x, mem.dir, paths, full)}
      BY <2>2 DEF BeginRevert, Begin
    <3>2. RevertJob(x, mem.dir, paths, full).kind = "revert"
      BY DEF RevertJob
    <3>3. QED
      BY <3>1, <3>2
  <2>3. ASSUME NEW b \in Branch, SwitchBranch(b)
        PROVE  \A j \in jobs' : j.kind = "push" => j \in jobs
    BY <2>3 DEF SwitchBranch, Begin
  <2>4. ASSUME NEW a \in Branch, NEW b \in Branch, MergeBranch(a, b)
        PROVE  \A j \in jobs' : j.kind = "push" => j \in jobs
    <3>1. PICK paths : jobs' = jobs \cup {CopyJob(a, b, paths, FALSE)}
      BY <2>4 DEF MergeBranch, Begin
    <3>2. CopyJob(a, b, paths, FALSE).kind = "copy"
      BY DEF CopyJob
    <3>3. QED
      BY <3>1, <3>2
  <2>5. ASSUME NEW j \in jobs, BeginWrite(j)
        PROVE  \A k \in jobs' : k.kind = "push" => k \in jobs
    <3>1. j \in SaveJobs
      BY <2>5, Kinds DEF BeginWrite, WorkspaceTypeOK
    <3>2. [j EXCEPT !.image = mem.history].kind = "save"
      BY <3>1 DEF SaveJobs
    <3>3. jobs' = (jobs \ {j}) \cup {[j EXCEPT !.image = mem.history]}
      BY <2>5 DEF BeginWrite, Continue
    <3>4. QED
      BY <3>2, <3>3
  <2>6. CASE AskPush
    BY <2>6, AskPushType DEF AskJobs
  <2>7. ASSUME NEW j \in jobs, NEW p \in Path, SkipFile(j, p)
        PROVE  \A k \in jobs' : k.kind = "push" => k \in jobs
    <3>1. j \in RevertJobs
      BY <2>7, Kinds DEF SkipFile, WorkspaceTypeOK
    <3>2. PICK next : /\ next = [j EXCEPT !.todo = @ \ {p}, !.missed = @ \cup {p}]
                      /\ jobs' = (jobs \ {j}) \cup {next}
      BY <2>7 DEF SkipFile, Continue
    <3>3. next.kind = "revert"
      BY <3>1, <3>2 DEF RevertJobs
    <3>4. QED
      BY <3>2, <3>3
  <2>8. \/ jobs' \subseteq jobs \/ AskPush
        \/ \E j \in jobs, p \in Path : SkipFile(j, p)
        \/ \E x \in Push : BeginRevert(x)
        \/ \E b \in Branch : SwitchBranch(b)
        \/ \E a, b \in Branch : MergeBranch(a, b)
        \/ \E j \in jobs : BeginWrite(j)
    BY DEF vars, Edit, AddNewFile, Edited, AddToWorkspace, Pull, Stage, Saved,
           ShowBranch, Copied, Deleted, Fail, HistoryFails, End, Restart
  <2>9. QED
    BY <2>1, <2>2, <2>3, <2>4, <2>5, <2>6, <2>7, <2>8
<1>3. \A b, p : At(b, p)' = At(b, p)
  BY <1>1 DEF At, TreeOf
<1>4. QED
  BY <1>1, <1>2, <1>3, UndoKept

\* Steps that write to a branch on behalf of another command.
LEMMA UndoWrites ==
    ASSUME TInv, Undo, Histories' \subseteq Histories \cup {NoHistory},
           \/ \E b \in Branch : CreateBranch(b) \/ ImportBranch(b) \/ DeleteBranch(b)
           \/ \E j \in jobs : \/ Imported(j) \/ WriteFails(j)
                             \/ \E p \in Path : CopyAcross(j, p) \/ RevertFile(j, p)
    PROVE  Undo'
<1> USE DEF TInv
<1>1. ASSUME NEW b \in Branch, CreateBranch(b) \/ ImportBranch(b)
      PROVE  Undo'
  <2>1. UNCHANGED <<snap, before>> /\ alone' \subseteq alone
    BY <1>1 DEF CreateBranch, ImportBranch, Disturbed, ghosts
  <2>2. \A j \in jobs' : j.kind = "push" => j \in jobs
    BY <1>1 DEF CreateBranch, ImportBranch, Begin, CopyJob
  <2>3. \A a \in Branch : \A p \in Path : At(a, p)' = At(a, p)
    BY <1>1, MakeDirectory DEF CreateBranch, ImportBranch
  <2>4. \A j \in jobs : j.kind = "push" => j.dir \in Branch
    BY Kinds DEF WorkspaceTypeOK, PushJobs
  <2>5. QED
    BY <2>1, <2>2, <2>3, <2>4, UndoKept
<1>2. ASSUME NEW b \in Branch, NEW x, Disturbed(b, x), UNCHANGED <<snap, before>>,
             \A j \in jobs' : j.kind = "push" => j \in jobs /\ j.id # x,
             \A a \in Branch \ {b} : \A p \in Path : At(a, p)' = At(a, p)
      PROVE  Undo'
  <2>1. alone' \subseteq alone
    BY <1>2 DEF Disturbed
  <2>2. \A j \in jobs : j.kind = "push" => j.dir \in Branch
    BY Kinds DEF WorkspaceTypeOK, PushJobs
  <2>3. \A j \in jobs' : j.kind = "push" /\ j.id \in alone' =>
           \A p \in Path : At(j.dir, p)' = At(j.dir, p)
    BY <1>2, <2>2, Elsewhere
  <2>4. QED
    BY <1>2, <2>1, <2>3, UndoKept
<1>3. \A j \in jobs : j.kind = "push" => j.id \in Push /\ j.id # None
  BY Kinds, WorkspaceConstants DEF WorkspaceTypeOK, PushJobs
<1>4. ASSUME NEW b \in Branch, NEW t, dir' = [dir EXCEPT ![b] = t]
      PROVE  \A a \in Branch \ {b} : \A p \in Path : At(a, p)' = At(a, p)
  BY <1>4 DEF At, TreeOf, WorkspaceTypeOK
<1>5. ASSUME NEW b \in Branch, DeleteBranch(b)
      PROVE  Undo'
  <2>1. /\ Disturbed(b, None) /\ UNCHANGED <<snap, before>> /\ dir' = [dir EXCEPT ![b] = None]
        /\ \A j \in jobs' : j.kind = "push" => j \in jobs
    BY <1>5 DEF DeleteBranch, Begin
  <2>2. QED
    BY <1>2, <1>3, <1>4, <2>1
<1>6. ASSUME NEW j \in jobs, Imported(j)
      PROVE  Undo'
  <2>1. j.branch \in Branch
    BY <1>6, Kinds DEF Imported, WorkspaceTypeOK, ImportJobs
  <2>2. PICK t : dir' = [dir EXCEPT ![j.branch] = t]
    BY <1>6 DEF Imported
  <2>3. /\ Disturbed(j.branch, None) /\ UNCHANGED <<snap, before>> /\ jobs' \subseteq jobs
    BY <1>6 DEF Imported, End
  <2>4. QED
    BY <1>2, <1>3, <1>4, <2>1, <2>2, <2>3
<1>7. ASSUME NEW j \in jobs, NEW p \in Path, CopyAcross(j, p)
      PROVE  Undo'
  <2>1. j \in CopyJobs
    BY <1>7, Kinds DEF CopyAcross, WorkspaceTypeOK
  <2> DEFINE next == [j EXCEPT !.todo = @ \ {p}]
  <2>2. /\ Put(j.to, p, At(j.from, p)) /\ Disturbed(j.to, None) /\ UNCHANGED <<snap, before>>
        /\ jobs' = (jobs \ {j}) \cup {next}
    BY <1>7 DEF CopyAcross, Continue
  <2>3. next.kind = "copy" /\ j.to \in Branch
    BY <2>1 DEF CopyJobs
  <2> HIDE DEF next
  <2>4. \A a \in Branch \ {j.to} : \A q \in Path : At(a, q)' = At(a, q)
    BY <1>4, <2>2, <2>3 DEF Put
  <2>5. QED
    BY <1>2, <1>3, <2>2, <2>3, <2>4
<1>8. ASSUME NEW j \in jobs, mem.history[j.id] # None
      PROVE  \A k \in jobs : k.kind = "push" => k.id # j.id
  BY <1>8 DEF Undo, PushInv, Unlisted, Histories
<1>9. ASSUME NEW j \in jobs, NEW p \in Path, RevertFile(j, p)
      PROVE  Undo'
  <2>1. j \in RevertJobs /\ mem.history[j.id] # None
    BY <1>9, Kinds DEF RevertFile, WorkspaceTypeOK, RevertsAreListed
  <2> DEFINE next == [j EXCEPT !.todo = @ \ {p}]
  <2>2. /\ Restore(j.id, j.dir, p) /\ Disturbed(j.dir, j.id) /\ UNCHANGED <<snap, before>>
        /\ jobs' = (jobs \ {j}) \cup {next}
    BY <1>9 DEF RevertFile, Continue
  <2>3. next.kind = "revert" /\ j.dir \in Branch
    BY <2>1 DEF RevertJobs
  <2> HIDE DEF next
  <2>4. \A a \in Branch \ {j.dir} : \A q \in Path : At(a, q)' = At(a, q)
    <3>1. UNCHANGED dir \/ \E t : dir' = [dir EXCEPT ![j.dir] = t]
      BY <2>2 DEF Restore, Put
    <3>2. QED
      BY <1>4, <2>3, <3>1 DEF At, TreeOf
  <2>5. \A k \in jobs' : k.kind = "push" => k \in jobs /\ k.id # j.id
    BY <1>8, <2>1, <2>2, <2>3
  <2>6. QED
    BY <1>2, <2>2, <2>3, <2>4, <2>5
<1>10. ASSUME NEW j \in jobs, WriteFails(j)
       PROVE  Undo'
  <2>1. PICK b \in Branch, p \in Path, c \in {Garbled, None}, x \in Push \cup {None} :
           /\ Put(b, p, c) /\ Disturbed(b, x) /\ jobs' = Spoiled(j, p)
           /\ j.kind \in {"push", "revert"} => x = j.id
           /\ j.kind \notin {"push", "revert"} => x = None
    BY <1>10, WriteFailsFacts
  <2>2. \A a \in Branch \ {b} : \A q \in Path : At(a, q)' = At(a, q)
    BY <1>4, <2>1 DEF Put
  <2>3. \A k \in jobs' : k.kind = "push" => k \in jobs \ {j}
    BY <2>1, SpoiledJobs DEF RevertJobs
  <2>4. \A k \in jobs \ {j} : k.kind = "push" => k.id # x
    <3>1. CASE j.kind = "push"
      BY <2>1, <3>1 DEF Undo
    <3>2. CASE j.kind = "revert"
      BY <1>8, <2>1, <3>2 DEF RevertsAreListed
    <3>3. QED
      BY <1>3, <2>1, <3>1, <3>2
  <2>5. UNCHANGED <<snap, before>>
    BY <1>10 DEF WriteFails
  <2>6. QED
    BY <1>2, <2>1, <2>2, <2>3, <2>4, <2>5
<1>11. QED
  BY <1>1, <1>5, <1>6, <1>7, <1>9, <1>10

LEMMA UndoBeginPush ==
    ASSUME TInv, Undo, NEW i \in jobs, NEW x \in Push, BeginPush(i, x),
           Histories' \subseteq Histories \cup {NoHistory}
    PROVE  Undo'
<1> USE DEF TInv
<1>1. PICK job \in PushJobs, found \in [branch : Branch, tree : Tree] :
         /\ before[x] = None /\ before' = [before EXCEPT ![x] = found]
         /\ found.branch = mem.dir /\ found.tree = TreeOf(mem.dir)
         /\ alone' = alone \cup {x} /\ jobs' = (jobs \ {i}) \cup {job}
         /\ job.kind = "push" /\ job.id = x /\ job.dir = mem.dir
         /\ job.cur = None /\ job.misread = {} /\ \A p \in Path : job.files[p] = None
         /\ i.kind = "ask" /\ UNCHANGED <<dir, snap, saved, mem>>
  BY BeginPushFacts
<1>3. found # None
  BY <1>1, NoneAssumption
<1>4. /\ job.kind = "push" /\ job.id = x /\ job.dir = mem.dir /\ job.cur = None
      /\ \A p \in Path : job.files[p] = None
  BY <1>1
<1>5. snap[x] = Nothing /\ Unlisted(x) /\ x \notin alone
  BY <1>1 DEF Undo
<1>6. \A j \in jobs : j.kind = "push" => j.id # x /\ j.id \in Push
  BY <1>1, Kinds DEF Undo, PushInv, WorkspaceTypeOK, PushJobs
<1>7. before'[x] = found /\ \A y \in Push \ {x} : before'[y] = before[y]
  BY <1>1 DEF WorkspaceTypeOK
<1>8. \A y \in Push : Unlisted(y) => Unlisted(y)'
  BY DEF Unlisted, NoHistory
<1>9. \A b, p : At(b, p)' = At(b, p)
  BY <1>1 DEF At, TreeOf
<1>10. PushInv(job)'
  <2>1. \A p \in Path : snap'[x][p] = None
    BY <1>1, <1>5 DEF Nothing
  <2>2. \A p \in Path : At(job.dir, p)' = found.tree[p]
    BY <1>1, <1>9 DEF At
  <2>3. before'[job.id].branch = job.dir /\ before'[job.id].tree = found.tree
    BY <1>1, <1>7
  <2>4. PutAway(job)'
    BY <1>4, <2>1, <2>2, <2>3 DEF PutAway
  <2>5. \A p \in job.todo : job.files[p] = None
    BY <1>1 DEF PushJobs
  <2>6. QED
    BY <1>3, <1>4, <1>5, <1>7, <1>8, <2>4, <2>5 DEF PushInv
<1>11. ASSUME NEW j \in jobs, j.kind = "push"
       PROVE  PushInv(j)'
  <2>1. PushInv(j) /\ j.id \in Push \ {x}
    BY <1>6, <1>11 DEF Undo
  <2>2. j.id \in alone' => PutAway(j)'
    BY <1>1, <1>7, <1>9, <2>1 DEF PushInv, PutAway
  <2>3. QED
    BY <1>7, <1>8, <2>1, <2>2 DEF PushInv
<1>12. \A h \in Histories' : Undoable(h)'
  <2>1. ASSUME NEW h \in Histories
        PROVE  Undoable(h)'
    <3>1. h[x] = None /\ Undoable(h)
      BY <1>5, <2>1 DEF Unlisted, Undo
    <3>2. alone \subseteq Push
      BY DEF WorkspaceTypeOK
    <3>3. QED
      BY <1>1, <1>7, <3>1, <3>2 DEF Undoable
  <2>2. Undoable(NoHistory)'
    BY <1>1 DEF Undoable, NoHistory, WorkspaceTypeOK
  <2>3. QED
    BY <2>1, <2>2
<1>13. \A y \in alone' : before'[y] # None
  BY <1>1, <1>3, <1>7 DEF Undo, WorkspaceTypeOK
<1>14. \A y \in Push : before'[y] = None => snap'[y] = Nothing /\ Unlisted(y)'
  BY <1>1, <1>3, <1>7, <1>8 DEF Undo
<1>15. \A j, k \in jobs' : j.kind = "push" /\ k.kind = "push" /\ j.id = k.id => j = k
  BY <1>1, <1>4, <1>6 DEF Undo
<1>16. QED
  BY <1>1, <1>10, <1>11, <1>12, <1>13, <1>14, <1>15 DEF Undo

\* The other pushes while push j takes a step that leads it to next.
LEMMA OtherPushes ==
    ASSUME TInv, Undo, NEW j \in jobs, j.kind = "push", NEW next, next.kind = "push",
           next.id = j.id, jobs' = (jobs \ {j}) \cup {next}, UNCHANGED before,
           alone' \subseteq alone, Histories' \subseteq Histories \cup {NoHistory},
           \A x \in Push \ {j.id} : snap'[x] = snap[x],
           \A k \in jobs \ {j} : k.kind = "push" /\ k.id \in alone' =>
              \A p \in Path : At(k.dir, p)' = At(k.dir, p),
           PushInv(j) => PushInv(next)'
    PROVE  Undo'
<1>1. j.id \in Push /\ before[j.id] # None /\ Unlisted(j.id) /\ PushInv(j)
  BY Kinds DEF TInv, WorkspaceTypeOK, PushJobs, Undo, PushInv
<1>2. \A x \in Push : Unlisted(x) => Unlisted(x)'
  BY DEF Unlisted, NoHistory
<1>3. ASSUME NEW k \in jobs \ {j}, k.kind = "push"
      PROVE  PushInv(k)'
  <2>1. PushInv(k) /\ k.id \in Push \ {j.id}
    BY <1>3, Kinds DEF TInv, WorkspaceTypeOK, PushJobs, Undo
  <2>2. ASSUME k.id \in alone'
        PROVE  PutAway(k)'
    <3>1. PutAway(k) /\ \A p \in Path : At(k.dir, p)' = At(k.dir, p)
      BY <1>3, <2>1, <2>2 DEF PushInv
    <3>2. QED
      BY <2>1, <3>1 DEF PutAway
  <2>3. QED
    BY <1>2, <2>1, <2>2 DEF PushInv
<1>4. \A h \in Histories' : Undoable(h)'
  <2>1. ASSUME NEW h \in Histories
        PROVE  Undoable(h)'
    <3>1. h[j.id] = None /\ Undoable(h)
      BY <1>1, <2>1 DEF Unlisted, Undo
    <3>2. alone' \subseteq Push
      BY DEF TInv, WorkspaceTypeOK
    <3>3. QED
      BY <3>1, <3>2 DEF Undoable
  <2>2. Undoable(NoHistory)'
    BY DEF Undoable, NoHistory, TInv, WorkspaceTypeOK
  <2>3. QED
    BY <2>1, <2>2
<1>5. \A x \in alone' : before'[x] # None
  BY DEF Undo
<1>6. \A x \in Push : before'[x] = None => snap'[x] = Nothing /\ Unlisted(x)'
  BY <1>1, <1>2 DEF Undo
<1>7. \A k, l \in jobs' : k.kind = "push" /\ l.kind = "push" /\ k.id = l.id => k = l
  BY DEF Undo
<1>8. QED
  BY <1>1, <1>3, <1>4, <1>5, <1>6, <1>7 DEF Undo

LEMMA UndoReadFile ==
    ASSUME TInv, Undo, NEW j \in jobs, NEW p \in Path, ReadFile(j, p),
           Histories' \subseteq Histories \cup {NoHistory}
    PROVE  Undo'
<1> USE DEF TInv
<1>1. PICK inBranch \in BOOLEAN, status \in {"added", "modified", "deleted"},
           c \in Current, next \in PushJobs : ReadStep(j, p, inBranch, status, c, next)
  BY ReadFileFacts
<1>2. /\ j \in PushJobs /\ j.id \in Push /\ j.kind = "push" /\ p \in j.todo
      /\ At(j.dir, p) \in Content \cup {None}
  BY ReadFileFacts, Trees DEF ReadFile, PushJobs
<1>3. /\ Snapshot(j, p, inBranch) /\ jobs' = (jobs \ {j}) \cup {next}
      /\ UNCHANGED <<dir, saved, mem, before, alone>>
  BY <1>1 DEF ReadStep, Continue, ghosts
<1>4. /\ next.kind = "push" /\ next.id = j.id /\ next.dir = j.dir
      /\ next.todo = j.todo \ {p} /\ next.files[p] = status /\ next.cur = c
      /\ \A q \in Path \ {p} : next.files[q] = j.files[q]
      /\ c.path = p /\ status # None /\ (status = "added" => ~inBranch)
      /\ inBranch => At(j.dir, p) # None
      /\ j.misread \subseteq next.misread
      /\ p \notin next.misread => At(j.dir, p) = None \/ inBranch
  BY <1>1 DEF ReadStep
<1>6. \A b, q : At(b, q)' = At(b, q)
  BY <1>3 DEF At, TreeOf
<1>7. /\ \A x \in Push \ {j.id} : snap'[x] = snap[x]
      /\ \A q \in Path \ {p} : snap'[j.id][q] = snap[j.id][q]
      /\ snap'[j.id][p] = IF inBranch THEN Decoded(At(j.dir, p)) ELSE snap[j.id][p]
  BY <1>2, <1>3 DEF Snapshot, WorkspaceTypeOK, Tree
<1>8. ASSUME PushInv(j)
      PROVE  PushInv(next)'
  <2>1. ASSUME j.id \in alone
        PROVE  PutAway(next)'
    <3>1. PutAway(j) /\ j.files[p] = None
      BY <1>2, <1>8, <2>1 DEF PushInv
    <3>2. At(j.dir, p) = before[j.id].tree[p] /\ snap[j.id][p] = None
      BY <3>1 DEF PutAway
    <3>3. p \notin next.misread => /\ snap'[j.id][p] = Decoded(before[j.id].tree[p])
                                   /\ status = "added" => snap'[j.id][p] = None
      BY <1>2, <1>4, <1>7, <3>2, DecodedFacts
    <3>4. QED
      BY <1>3, <1>4, <1>6, <1>7, <3>1, <3>3 DEF PutAway
  <2>2. Unlisted(j.id)'
    BY <1>2, <1>8 DEF PushInv, Unlisted, NoHistory
  <2>3. \A q \in next.todo : next.files[q] = None
    BY <1>2, <1>4, <1>8 DEF PushInv, PushJobs
  <2>4. QED
    BY <1>3, <1>4, <1>8, <2>1, <2>2, <2>3 DEF PushInv
<1>9. QED
  BY <1>2, <1>3, <1>4, <1>6, <1>7, <1>8, OtherPushes

LEMMA UndoCopyFile ==
    ASSUME TInv, Undo, NEW j \in jobs, CopyFile(j), Histories' \subseteq Histories \cup {NoHistory}
    PROVE  Undo'
<1> USE DEF TInv
<1>1. PICK p \in Path, c \in Content \cup {None}, next \in PushJobs :
         /\ j \in PushJobs /\ j.cur # None /\ j.cur.path = p
         /\ \/ Put(j.dir, p, c) /\ Disturbed(j.dir, j.id)
            \/ UNCHANGED <<dir, alone>>
         /\ Continue(j, next)
         /\ next.kind = "push" /\ next.id = j.id /\ next.dir = j.dir
         /\ next.todo = j.todo /\ next.cur = None
         /\ next.files = j.files /\ next.misread = j.misread
         /\ UNCHANGED <<active, saved, snap, ws, mem, before, crossed>>
  BY CopyFileFacts
<1>2. j.kind = "push" /\ j.id \in Push /\ j.dir \in Branch /\ jobs' = (jobs \ {j}) \cup {next}
  BY <1>1 DEF PushJobs, Continue
<1>3. alone' \subseteq alone
  BY <1>1 DEF Disturbed
<1>4. \A a \in Branch \ {j.dir} : \A q \in Path : At(a, q)' = At(a, q)
  <2>1. CASE UNCHANGED dir
    BY <2>1 DEF At, TreeOf
  <2>2. CASE Put(j.dir, p, c)
    BY <1>2, <2>2, PutFacts
  <2>3. QED
    BY <1>1, <2>1, <2>2
<1>5. ASSUME PushInv(j)
      PROVE  PushInv(next)'
  <2>1. ASSUME j.id \in alone
        PROVE  PutAway(next)'
    <3>1. PutAway(j) /\ j.files[p] # None
      BY <1>1, <1>5, <2>1 DEF PushInv
    <3>2. \A q \in Path : j.files[q] = None => At(j.dir, q)' = At(j.dir, q)
      <4>1. CASE UNCHANGED dir
        BY <4>1 DEF At, TreeOf
      <4>2. CASE Put(j.dir, p, c)
        BY <1>2, <3>1, <4>2, PutFacts
      <4>3. QED
        BY <1>1, <4>1, <4>2
    <3>3. QED
      BY <1>1, <3>1, <3>2 DEF PutAway
  <2>2. Unlisted(j.id)'
    BY <1>2, <1>5 DEF PushInv, Unlisted, NoHistory
  <2>3. QED
    BY <1>1, <1>3, <1>5, <2>1, <2>2 DEF PushInv
<1>6. ASSUME NEW k \in jobs \ {j}, k.kind = "push", k.id \in alone'
      PROVE  \A q \in Path : At(k.dir, q)' = At(k.dir, q)
  <2>1. CASE UNCHANGED dir
    BY <2>1 DEF At, TreeOf
  <2>2. CASE Disturbed(j.dir, j.id)
    <3>1. k.id # j.id /\ k.dir \in Branch
      BY <1>2, <1>6, Kinds DEF Undo, WorkspaceTypeOK, PushJobs
    <3>2. k.dir # j.dir
      BY <1>6, <2>2, <3>1, Elsewhere
    <3>3. QED
      BY <1>4, <3>1, <3>2
  <2>3. QED
    BY <1>1, <2>1, <2>2
<1>7. \A x \in Push \ {j.id} : snap'[x] = snap[x]
  BY <1>1
<1>8. QED
  BY <1>1, <1>2, <1>3, <1>5, <1>6, <1>7, OtherPushes

LEMMA UndoAddRecord ==
    ASSUME TInv, Undo, NEW j \in jobs, AddRecord(j)
    PROVE  Undo'
<1> USE DEF TInv
<1>1. /\ j \in PushJobs /\ j.id \in Push /\ j.kind = "push"
      /\ mem'.history[j.id] = RecordOf(j)
      /\ \A x \in Push \ {j.id} : mem'.history[x] = mem.history[x]
      /\ Histories' \subseteq Histories \cup {mem'.history}
  BY AddRecordFacts DEF AddRecord
<1>2. UNCHANGED <<dir, snap, before, alone>>
  BY DEF AddRecord, disk, ghosts
<1>3. PushInv(j)
  BY <1>1 DEF Undo
<1>4. \A k \in jobs' : k.kind = "push" => k \in jobs /\ k # j
  <2> DEFINE next == SaveJob(j.id, IF j.auto THEN "auto push" ELSE "push")
  <2>1. next.kind = "save"
    BY DEF SaveJob
  <2>2. jobs' = (jobs \ {j}) \cup {next}
    BY DEF AddRecord, Continue
  <2> HIDE DEF next
  <2>3. QED
    BY <2>1, <2>2
<1>5. \A x \in Push \ {j.id} : Unlisted(x) => Unlisted(x)'
  BY <1>1 DEF Unlisted, Histories
<1>6. Undoable(mem.history)'
  <2>1. ASSUME j.id \in alone, NEW p \in Path \ j.misread, j.files[p] # None
        PROVE  /\ snap[j.id][p] = Decoded(before[j.id].tree[p])
               /\ j.files[p] = "added" => snap[j.id][p] = None
    BY <1>3, <2>1 DEF PushInv, PutAway
  <2>2. RecordOf(j).files = j.files /\ RecordOf(j).misread = j.misread
    BY DEF RecordOf
  <2>3. Undoable(mem.history) /\ alone \subseteq Push
    BY DEF Undo, Histories, WorkspaceTypeOK
  <2>4. QED
    BY <1>1, <1>2, <2>1, <2>2, <2>3 DEF Undoable
<1>7. \A h \in Histories : Undoable(h)'
  BY <1>2 DEF Undo, Undoable
<1>8. ASSUME NEW k \in jobs', k.kind = "push"
      PROVE  PushInv(k)'
  <2>1. k \in jobs /\ k.id \in Push \ {j.id} /\ PushInv(k)
    BY <1>1, <1>4, <1>8, Kinds DEF Undo, WorkspaceTypeOK, PushJobs
  <2>2. PutAway(k) => PutAway(k)'
    BY <1>2 DEF PutAway, At, TreeOf
  <2>3. QED
    BY <1>2, <1>5, <2>1, <2>2 DEF PushInv
<1>9. \A x \in Push : before'[x] = None => snap'[x] = Nothing /\ Unlisted(x)'
  BY <1>2, <1>3, <1>5 DEF Undo, PushInv
<1>10. \A x \in alone' : before'[x] # None
  BY <1>2 DEF Undo
<1>11. \A k, l \in jobs' : k.kind = "push" /\ l.kind = "push" /\ k.id = l.id => k = l
  BY <1>4 DEF Undo
<1>12. \A h \in Histories' : Undoable(h)'
  BY <1>1, <1>6, <1>7
<1>13. QED
  BY <1>8, <1>9, <1>10, <1>11, <1>12 DEF Undo

LEMMA UndoMarkReverted ==
    ASSUME TInv, Undo, NEW j \in jobs, MarkReverted(j)
    PROVE  Undo'
<1> USE DEF TInv
<1>1. /\ j.id \in Push /\ mem.history[j.id] # None
      /\ mem'.history[j.id].files = mem.history[j.id].files
      /\ mem'.history[j.id].misread = mem.history[j.id].misread
      /\ \A x \in Push \ {j.id} : mem'.history[x] = mem.history[x]
      /\ Histories' \subseteq Histories \cup {mem'.history}
  BY MarkRevertedType, MarkRevertedFacts DEF RevertsAreListed, MarkReverted
<1>2. UNCHANGED <<dir, snap, before, alone>>
  BY DEF MarkReverted, disk, ghosts
<1>3. \A k \in jobs' : k.kind = "push" => k \in jobs
  BY DEF MarkReverted, Continue, SaveJob
<1>4. \A x \in Push : Unlisted(x) => Unlisted(x)'
  BY <1>1 DEF Unlisted, Histories
<1>5. Undoable(mem.history)'
  <2>1. Undoable(mem.history) /\ alone \subseteq Push
    BY DEF Undo, Histories, WorkspaceTypeOK
  <2>2. QED
    BY <1>1, <1>2, <2>1 DEF Undoable
<1>6. \A h \in Histories : Undoable(h)'
  BY <1>2 DEF Undo, Undoable
<1>7. ASSUME NEW k \in jobs', k.kind = "push"
      PROVE  PushInv(k)'
  <2>1. k.id \in Push /\ PushInv(k)
    BY <1>3, <1>7, Kinds DEF Undo, WorkspaceTypeOK, PushJobs
  <2>2. PutAway(k) => PutAway(k)'
    BY <1>2 DEF PutAway, At, TreeOf
  <2>3. QED
    BY <1>2, <1>4, <2>1, <2>2 DEF PushInv
<1>8. \A x \in Push : before'[x] = None => snap'[x] = Nothing /\ Unlisted(x)'
  BY <1>2, <1>4 DEF Undo
<1>9. \A x \in alone' : before'[x] # None
  BY <1>2 DEF Undo
<1>10. \A k, l \in jobs' : k.kind = "push" /\ l.kind = "push" /\ k.id = l.id => k = l
  BY <1>3 DEF Undo
<1>11. \A h \in Histories' : Undoable(h)'
  BY <1>1, <1>5, <1>6
<1>12. QED
  BY <1>7, <1>8, <1>9, <1>10, <1>11 DEF Undo

LEMMA UndoHolds == Spec => []Undo
<1>1. Init => Undo
  <2>1. \A x \in Push : NoHistory[x] = None
    BY DEF NoHistory
  <2>2. ASSUME Init
        PROVE  Histories = {NoHistory} /\ jobs = {} /\ alone = {}
    BY <2>2 DEF Init, Histories, Saving, Loaded
  <2>3. QED
    BY <2>1, <2>2 DEF Init, Undo, Unlisted, Undoable
<1>2. ASSUME TInv, Undo, [Next]_vars
      PROVE  Undo'
  <2>1. ASSUME NEW j \in jobs, Lists(j)
        PROVE  Undo'
    BY <1>2, <2>1, UndoAddRecord, UndoMarkReverted DEF Lists
  <2>2. ASSUME \A j \in jobs : ~Lists(j)
        PROVE  Undo'
    <3>1. Histories' \subseteq Histories \cup {NoHistory}
      BY <1>2, <2>2, NothingListed
    <3>2. ASSUME NEW j \in jobs, Step(j)
          PROVE  Undo'
      BY <1>2, <2>2, <3>1, <3>2, UndoQuiet, UndoWrites, UndoBeginPush, UndoReadFile,
         UndoCopyFile DEF Step, Lists
    <3>3. QED
      BY <1>2, <3>1, <3>2, UndoQuiet, UndoWrites DEF Next
  <2>3. QED
    BY <2>1, <2>2
<1>3. QED
  BY <1>1, <1>2, WorkspaceType, PTL DEF Spec

\* A push that some history lists can be undone, though other commands ran meanwhile, files
\* failed, and the window was closed at any point: what a push puts away is what it found.
THEOREM PushesAreUndoable == Spec => []ListedPushesUndoable
<1>1. Undo => ListedPushesUndoable
  BY DEF Undo, Histories, ListedPushesUndoable
<1>2. QED
  BY <1>1, UndoHolds, PTL
-----------------------------------------------------------------------------
(* Reverting *)

\* What the branch of push x holds
Now(x, p) == At(before[x].branch, p)

AsFound(x, p) == Now(x, p) = before[x].tree[p]

\* A file that a push has left as it was is spared by every revert of the push: it is not
\* in the record, or it was on neither side.
Spared(x, p, status) == status = None \/ (status # "added" /\ snap[x][p] = None)

Untouched(x) == \A p \in Path : Spared(x, p, mem.history[x].files[p]) => AsFound(x, p)

\* The window knows what is on disk and about to be written.
Agree ==
    \A h \in Histories : \A x \in Push : h[x] # None =>
       mem.history[x] # None /\ h[x].files = mem.history[x].files

Pushing(j) ==
    j.id \in alone =>
       /\ \A p \in Path : Spared(j.id, p, j.files[p]) => AsFound(j.id, p)
       /\ j.cur # None /\ (j.cur.copy \/ j.cur.drop) =>
             ~Spared(j.id, j.cur.path, j.files[j.cur.path])

\* A full revert has restored what it has done with, and none touches what was not pushed.
Reverting(j) ==
    /\ \A p \in j.todo : mem.history[j.id].files[p] # None
    /\ j.full /\ j.id \in alone /\ j.dir = before[j.id].branch =>
          \A p \in Kept(j) \ j.todo : Undone(j.id, p, Now(j.id, p))

Back ==
    /\ Agree
    /\ \A x \in alone : mem.history[x] # None => Untouched(x)
    /\ \A j \in jobs : j.kind = "push" => Pushing(j)
    /\ \A j \in jobs : j.kind = "revert" => Reverting(j)

\* Nothing has changed for push x.
Same(x) ==
    /\ x \in alone
    /\ before'[x] = before[x] /\ snap'[x] = snap[x]
    /\ \A p \in Path : Now(x, p)' = Now(x, p)

SameFiles(x) ==
    /\ mem'.history[x].files = mem.history[x].files
    /\ mem'.history[x].misread = mem.history[x].misread

\* The step of a command that disturbs no other push; its own job, and what it lists, are
\* left to show.
LEMMA BackKept ==
    ASSUME TInv, Back, Agree',
           \A x \in alone' : mem'.history[x] # None =>
              \/ Untouched(x)'
              \/ Same(x) /\ mem.history[x] # None
                 /\ mem'.history[x].files = mem.history[x].files,
           \A j \in jobs' : j.kind = "push" =>
              Pushing(j)' \/ (j \in jobs /\ (j.id \in alone' => Same(j.id))),
           \A j \in jobs' : j.kind = "revert" =>
              Reverting(j)' \/ (j \in jobs /\ SameFiles(j.id) /\ (j.id \in alone' => Same(j.id)))
    PROVE  Back'
<1>1. ASSUME NEW x \in alone', mem'.history[x] # None, Same(x), mem.history[x] # None,
             mem'.history[x].files = mem.history[x].files
      PROVE  Untouched(x)'
  <2>1. Untouched(x) /\ x \in alone
    BY <1>1 DEF Back, Same
  <2>2. ASSUME NEW p \in Path, Spared(x, p, mem.history[x].files[p])'
        PROVE  AsFound(x, p)'
    <3>1. Spared(x, p, mem.history[x].files[p])
      BY <1>1, <2>2 DEF Spared, Same
    <3>2. QED
      BY <1>1, <2>1, <3>1 DEF Untouched, AsFound, Same
  <2>3. QED
    BY <2>2 DEF Untouched
<1>2. ASSUME NEW j \in jobs, j.kind = "push", j.id \in alone' => Same(j.id)
      PROVE  Pushing(j)'
  <2>1. ASSUME j.id \in alone'
        PROVE  Pushing(j)'
    <3>1. Same(j.id) /\ Pushing(j)
      BY <1>2, <2>1 DEF Back
    <3>2. \A p, s : Spared(j.id, p, s)' <=> Spared(j.id, p, s)
      BY <3>1 DEF Spared, Same
    <3>3. \A p \in Path : AsFound(j.id, p)' <=> AsFound(j.id, p)
      BY <3>1 DEF AsFound, Same
    <3>4. QED
      BY <3>1, <3>2, <3>3 DEF Pushing, Same
  <2>2. QED
    BY <2>1 DEF Pushing
<1>3. ASSUME NEW j \in jobs, j.kind = "revert", SameFiles(j.id), j.id \in alone' => Same(j.id)
      PROVE  Reverting(j)'
  <2>1. Reverting(j)
    BY <1>3 DEF Back
  <2>2. Kept(j)' = Kept(j)
    BY <1>3 DEF Kept, SameFiles
  <2>3. ASSUME j.id \in alone', j.full, j.dir = before'[j.id].branch,
               NEW p \in Kept(j) \ j.todo
        PROVE  Undone(j.id, p, Now(j.id, p))'
    <3>1. Same(j.id) /\ p \in Path
      BY <1>3, <2>3 DEF Kept
    <3>2. Undone(j.id, p, Now(j.id, p))
      BY <2>1, <2>3, <3>1 DEF Reverting, Same
    <3>3. QED
      BY <1>3, <3>1, <3>2 DEF Undone, Same, SameFiles
  <2>4. QED
    BY <1>3, <2>1, <2>2, <2>3 DEF Reverting, SameFiles
<1>4. QED
  BY <1>1, <1>2, <1>3 DEF Back

\* A step that lists nothing.
LEMMA AgreeKept ==
    ASSUME TInv, Back, Histories' \subseteq Histories \cup {NoHistory},
           mem'.history = mem.history
    PROVE  Agree'
<1>1. ASSUME NEW h \in Histories', NEW x \in Push, h[x] # None
      PROVE  mem'.history[x] # None /\ h[x].files = mem'.history[x].files
  <2>1. h \in Histories
    BY <1>1 DEF NoHistory
  <2>2. QED
    BY <1>1, <2>1 DEF Back, Agree
<1>2. QED
  BY <1>1 DEF Agree

LEMMA FoundIn ==
    ASSUME TInv, Undo, NEW x \in alone
    PROVE  x \in Push /\ before[x].branch \in Branch /\ before[x].tree \in Tree
BY DEF TInv, WorkspaceTypeOK, Undo

\* A branch that is not written to is as it was.
LEMMA SameBranch ==
    ASSUME TInv, Undo, NEW x \in alone, snap'[x] = snap[x], before'[x] = before[x],
           \A p \in Path : \A b \in Branch : b = before[x].branch => At(b, p)' = At(b, p)
    PROVE  Same(x)
<1>1. PICK b \in Branch : b = before[x].branch
  BY FoundIn
<1>2. \A p \in Path : At(b, p)' = At(b, p)
  BY <1>1
<1>3. \A p \in Path : Now(x, p)' = Now(x, p)
  BY <1>1, <1>2 DEF Now, At, TreeOf
<1>4. QED
  BY <1>3 DEF Same

LEMMA SameBranches ==
    ASSUME TInv, Undo, UNCHANGED <<snap, before>>, alone' \subseteq alone,
           \A b \in Branch, p \in Path : At(b, p)' = At(b, p)
    PROVE  \A x \in alone' : Same(x)
  BY SameBranch

\* A write on behalf of push y, or of none, leaves the other pushes that count untouched.
LEMMA SameElsewhere ==
    ASSUME TInv, Undo, UNCHANGED <<snap, before>>, NEW b \in Branch, NEW y, Disturbed(b, y),
           \A a \in Branch \ {b}, p \in Path : At(a, p)' = At(a, p)
    PROVE  \A x \in alone' : x # y \/ before[y].branch # b => Same(x)
<1>1. ASSUME NEW x \in alone', x # y \/ before[y].branch # b
      PROVE  Same(x)
  <2>1. x \in alone /\ before[x].branch # b
    BY <1>1 DEF Disturbed
  <2>2. QED
    BY <2>1, SameBranch
<1>2. QED
  BY <1>1

\* A step that lists nothing, and leaves the pushes that count and their jobs as they are.
LEMMA BackStays ==
    ASSUME TInv, Back, Histories' \subseteq Histories \cup {NoHistory},
           mem'.history = mem.history, \A x \in alone' : Same(x),
           \A j \in jobs' : j.kind \in {"push", "revert"} => j \in jobs
    PROVE  Back'
<1>1. Agree'
  BY AgreeKept
<1>2. \A x : SameFiles(x)
  BY DEF SameFiles
<1>3. QED
  BY <1>1, <1>2, BackKept

LEMMA BackQuiet ==
    ASSUME TInv, Undo, Back, Histories' \subseteq Histories \cup {NoHistory},
           \/ UNCHANGED vars
           \/ \E p \in Path : Edit(p) \/ AddNewFile(p) \/ AddToWorkspace(p) \/ Pull(p) \/ Stage(p)
           \/ AskPush \/ \E b \in Branch : SwitchBranch(b)
           \/ \E a, b \in Branch : MergeBranch(a, b)
           \/ \E j \in jobs : \/ BeginWrite(j) \/ Saved(j) \/ ShowBranch(j) \/ Copied(j)
                             \/ Deleted(j) \/ Fail(j) \/ HistoryFails(j)
    PROVE  Back'
<1> USE DEF TInv
<1>1. UNCHANGED <<snap, before, alone, dir>>
  BY DEF vars, disk, ghosts, Edit, AddNewFile, Edited, AddToWorkspace, Pull, Stage, AskPush,
         SwitchBranch, MergeBranch, BeginWrite, Saved, ShowBranch, Copied, Deleted, Fail,
         HistoryFails
<1>2. \A j \in jobs' : j.kind \in {"push", "revert"} => j \in jobs
  <2>1. CASE jobs' \subseteq jobs
    BY <2>1
  <2>2. ASSUME NEW b \in Branch, SwitchBranch(b)
        PROVE  \A j \in jobs' : j.kind \in {"push", "revert"} => j \in jobs
    BY <2>2 DEF SwitchBranch, Begin
  <2>3. ASSUME NEW a \in Branch, NEW b \in Branch, MergeBranch(a, b)
        PROVE  \A j \in jobs' : j.kind \in {"push", "revert"} => j \in jobs
    <3>1. PICK paths : jobs' = jobs \cup {CopyJob(a, b, paths, FALSE)}
      BY <2>3 DEF MergeBranch, Begin
    <3>2. CopyJob(a, b, paths, FALSE).kind = "copy"
      BY DEF CopyJob
    <3>3. QED
      BY <3>1, <3>2
  <2>4. ASSUME NEW j \in jobs, BeginWrite(j)
        PROVE  \A k \in jobs' : k.kind \in {"push", "revert"} => k \in jobs
    <3>1. j \in SaveJobs
      BY <2>4, Kinds DEF BeginWrite, WorkspaceTypeOK
    <3>2. [j EXCEPT !.image = mem.history].kind = "save"
      BY <3>1 DEF SaveJobs
    <3>3. jobs' = (jobs \ {j}) \cup {[j EXCEPT !.image = mem.history]}
      BY <2>4 DEF BeginWrite, Continue
    <3>4. QED
      BY <3>2, <3>3
  <2>5. CASE AskPush
    BY <2>5, AskPushType DEF AskJobs
  <2>6. \/ jobs' \subseteq jobs \/ AskPush
        \/ \E b \in Branch : SwitchBranch(b)
        \/ \E a, b \in Branch : MergeBranch(a, b)
        \/ \E j \in jobs : BeginWrite(j)
    BY DEF vars, Edit, AddNewFile, Edited, AddToWorkspace, Pull, Stage, Saved,
           ShowBranch, Copied, Deleted, Fail, HistoryFails, End
  <2>7. QED
    BY <2>1, <2>2, <2>3, <2>4, <2>5, <2>6
<1>3. mem'.history = mem.history
  BY DEF vars, disk, Edit, AddNewFile, Edited, AddToWorkspace, Pull, Stage, AskPush,
         SwitchBranch, MergeBranch, BeginWrite, Saved, ShowBranch, Copied, Deleted, Fail,
         HistoryFails, WorkspaceTypeOK, Window
<1>4. \A x \in alone' : Same(x)
  BY <1>1, SameBranches DEF At, TreeOf
<1>5. QED
  BY <1>2, <1>3, <1>4, BackStays

\* The restarted window lists what is on disk.
LEMMA BackRestart ==
    ASSUME TInv, Undo, Back, Restart
    PROVE  Back'
<1>1. /\ mem'.history = saved.history /\ jobs' = {}
      /\ UNCHANGED <<dir, saved, snap, before, alone>>
  BY RestartType DEF Restart, disk
<1>2. Histories' = {saved.history}
  BY <1>1 DEF Histories, Saving
<1>3. \A x \in alone' : Same(x)
  BY <1>1, SameBranches DEF At, TreeOf
<1>4. \A x \in Push : mem'.history[x] # None =>
         mem.history[x] # None /\ mem'.history[x].files = mem.history[x].files
  BY <1>1 DEF Back, Agree, Histories
<1>5. QED
  BY <1>1, <1>2, <1>3, <1>4, BackKept DEF Agree, TInv, WorkspaceTypeOK

LEMMA BackWrites ==
    ASSUME TInv, Undo, Back, Histories' \subseteq Histories \cup {NoHistory},
           \/ \E b \in Branch : CreateBranch(b) \/ ImportBranch(b) \/ DeleteBranch(b)
           \/ \E j \in jobs : Imported(j) \/ \E p \in Path : CopyAcross(j, p)
    PROVE  Back'
<1> USE DEF TInv
<1>1. None \notin Push /\ alone \subseteq Push
  BY WorkspaceConstants DEF WorkspaceTypeOK
<1>2. ASSUME NEW b \in Branch, CreateBranch(b) \/ ImportBranch(b)
      PROVE  Back'
  <2>1. UNCHANGED <<snap, before, mem>> /\ alone' \subseteq alone
    BY <1>2 DEF CreateBranch, ImportBranch, Disturbed, ghosts
  <2>2. \A j \in jobs' : j.kind \in {"push", "revert"} => j \in jobs
    BY <1>2 DEF CreateBranch, ImportBranch, Begin, CopyJob
  <2>3. \A a \in Branch : \A p \in Path : At(a, p)' = At(a, p)
    BY <1>2, MakeDirectory DEF CreateBranch, ImportBranch
  <2>4. QED
    BY <2>1, <2>2, <2>3, SameBranches, BackStays
<1>3. ASSUME NEW b \in Branch, Disturbed(b, None), UNCHANGED <<snap, before>>,
             \A a \in Branch \ {b} : \A p \in Path : At(a, p)' = At(a, p)
      PROVE  \A x \in alone' : Same(x)
  <2>1. \A x \in alone' : x # None
    BY <1>1, <1>3 DEF Disturbed
  <2>2. QED
    BY <1>3, <2>1, SameElsewhere
<1>4. ASSUME NEW b \in Branch, NEW t, dir' = [dir EXCEPT ![b] = t]
      PROVE  \A a \in Branch \ {b} : \A p \in Path : At(a, p)' = At(a, p)
  BY <1>4 DEF At, TreeOf, WorkspaceTypeOK
<1>5. ASSUME NEW b \in Branch, DeleteBranch(b)
      PROVE  Back'
  <2>1. /\ Disturbed(b, None) /\ UNCHANGED <<snap, before, mem>>
        /\ dir' = [dir EXCEPT ![b] = None]
        /\ \A j \in jobs' : j.kind \in {"push", "revert"} => j \in jobs
    BY <1>5 DEF DeleteBranch, Begin
  <2>2. QED
    BY <1>3, <1>4, <2>1, BackStays
<1>6. ASSUME NEW j \in jobs, Imported(j)
      PROVE  Back'
  <2>1. j.branch \in Branch
    BY <1>6, Kinds DEF Imported, WorkspaceTypeOK, ImportJobs
  <2>2. PICK t : dir' = [dir EXCEPT ![j.branch] = t]
    BY <1>6 DEF Imported
  <2>3. /\ Disturbed(j.branch, None) /\ UNCHANGED <<snap, before>> /\ jobs' \subseteq jobs
        /\ mem'.history = mem.history
    BY <1>6 DEF Imported, End, WorkspaceTypeOK, Window
  <2>4. QED
    BY <1>3, <1>4, <2>1, <2>2, <2>3, BackStays
<1>7. ASSUME NEW j \in jobs, NEW p \in Path, CopyAcross(j, p)
      PROVE  Back'
  <2>1. j \in CopyJobs /\ j.to \in Branch
    BY <1>7, Kinds DEF CopyAcross, WorkspaceTypeOK, CopyJobs
  <2> DEFINE next == [j EXCEPT !.todo = @ \ {p}]
  <2>2. /\ Put(j.to, p, At(j.from, p)) /\ Disturbed(j.to, None)
        /\ UNCHANGED <<snap, before, mem>> /\ jobs' = (jobs \ {j}) \cup {next}
    BY <1>7 DEF CopyAcross, Continue
  <2>3. next.kind = "copy"
    BY <2>1 DEF CopyJobs
  <2> HIDE DEF next
  <2>4. \A a \in Branch \ {j.to} : \A q \in Path : At(a, q)' = At(a, q)
    BY <1>4, <2>1, <2>2 DEF Put
  <2>5. QED
    BY <1>3, <2>1, <2>2, <2>3, <2>4, BackStays
<1>8. QED
  BY <1>2, <1>5, <1>6, <1>7

LEMMA BackBeginPush ==
    ASSUME TInv, Undo, Back, NEW i \in jobs, NEW x \in Push, BeginPush(i, x),
           Histories' \subseteq Histories \cup {NoHistory}
    PROVE  Back'
<1> USE DEF TInv
<1>1. PICK job \in PushJobs, found \in [branch : Branch, tree : Tree] :
         /\ before[x] = None /\ before' = [before EXCEPT ![x] = found]
         /\ found.branch = mem.dir /\ found.tree = TreeOf(mem.dir)
         /\ alone' = alone \cup {x} /\ jobs' = (jobs \ {i}) \cup {job}
         /\ job.kind = "push" /\ job.id = x /\ job.cur = None
         /\ UNCHANGED <<dir, snap, mem>>
  BY BeginPushFacts
<1>2. mem.history[x] = None /\ x \notin alone
  BY <1>1 DEF Undo, Unlisted, Histories
<1>3. Pushing(job)'
  <2>1. before'[x].branch = mem.dir /\ before'[x].tree = TreeOf(mem.dir)
    BY <1>1 DEF WorkspaceTypeOK
  <2>2. \A p \in Path : AsFound(x, p)'
    BY <1>1, <2>1 DEF AsFound, Now, At, TreeOf
  <2>3. QED
    BY <1>1, <2>2 DEF Pushing
<1>4. \A y \in alone : Same(y)
  <2>1. ASSUME NEW y \in alone
        PROVE  before'[y] = before[y]
    BY <1>1, <1>2 DEF WorkspaceTypeOK
  <2>2. QED
    BY <1>1, <2>1 DEF Same, Now, At, TreeOf
<1>5. \A j \in jobs : j.kind = "push" => j.id # x
  BY <1>1 DEF Undo, PushInv
<1>6. \A j \in jobs : j.kind = "revert" => j.id # x
  BY <1>2 DEF RevertsAreListed
<1>7. Agree'
  BY <1>1, AgreeKept
<1>8. QED
  BY <1>1, <1>2, <1>3, <1>4, <1>5, <1>6, <1>7, BackKept DEF SameFiles

LEMMA BackReadFile ==
    ASSUME TInv, Undo, Back, NEW j \in jobs, NEW p \in Path, ReadFile(j, p),
           Histories' \subseteq Histories \cup {NoHistory}
    PROVE  Back'
<1> USE DEF TInv
<1>1. PICK inBranch \in BOOLEAN, status \in {"added", "modified", "deleted"},
           c \in Current, next \in PushJobs : ReadStep(j, p, inBranch, status, c, next)
  BY ReadFileFacts
<1>2. /\ j \in PushJobs /\ j.id \in Push /\ j.kind = "push" /\ p \in j.todo
      /\ At(j.dir, p) \in Content \cup {None}
  BY ReadFileFacts, Trees DEF ReadFile, PushJobs
<1>3. /\ Snapshot(j, p, inBranch) /\ jobs' = (jobs \ {j}) \cup {next}
      /\ UNCHANGED <<dir, saved, mem, before, alone>>
  BY <1>1 DEF ReadStep, Continue, ghosts
<1>4. /\ next.kind = "push" /\ next.id = j.id /\ next.files[p] = status /\ next.cur = c
      /\ \A q \in Path \ {p} : next.files[q] = j.files[q]
      /\ c.path = p /\ status # None
      /\ inBranch => At(j.dir, p) # None
      /\ c.copy \/ c.drop => status = "added" \/ inBranch
  BY <1>1 DEF ReadStep
<1>5. /\ \A x \in Push \ {j.id} : snap'[x] = snap[x]
      /\ \A q \in Path \ {p} : snap'[j.id][q] = snap[j.id][q]
      /\ snap'[j.id][p] = IF inBranch THEN Decoded(At(j.dir, p)) ELSE snap[j.id][p]
  BY <1>2, <1>3 DEF Snapshot, WorkspaceTypeOK, Tree
<1>6. \A x, q : AsFound(x, q)' <=> AsFound(x, q)
  BY <1>3 DEF AsFound, Now, At, TreeOf
<1>7. PushInv(j) /\ Pushing(j) /\ mem.history[j.id] = None
  BY <1>2 DEF Undo, Back, PushInv, Unlisted, Histories
<1>8. Pushing(next)'
  <2>1. ASSUME j.id \in alone
        PROVE  /\ \A q \in Path : Spared(j.id, q, next.files[q])' => AsFound(j.id, q)'
               /\ c.copy \/ c.drop => ~Spared(j.id, p, status)'
    <3>1. AsFound(j.id, p)
      BY <1>2, <1>7, <2>1 DEF PushInv, PutAway, AsFound, Now
    <3>2. \A q \in Path \ {p} : Spared(j.id, q, next.files[q])' => AsFound(j.id, q)'
      BY <1>4, <1>5, <1>6, <1>7, <2>1 DEF Pushing, Spared
    <3>3. c.copy \/ c.drop => ~Spared(j.id, p, status)'
      BY <1>2, <1>4, <1>5, DecodedFacts DEF Spared
    <3>4. QED
      BY <1>6, <3>1, <3>2, <3>3
  <2>2. QED
    BY <1>3, <1>4, <2>1 DEF Pushing
<1>9. \A x \in alone' : x # j.id => Same(x)
  BY <1>3, <1>5 DEF Same, Now, At, TreeOf, WorkspaceTypeOK
<1>10. \A k \in jobs : k.kind = "push" /\ k # j => k.id # j.id
  BY <1>2 DEF Undo
<1>11. \A k \in jobs : k.kind = "revert" => k.id # j.id
  BY <1>7 DEF RevertsAreListed
<1>12. Agree'
  BY <1>3, AgreeKept
<1>13. QED
  BY <1>3, <1>4, <1>7, <1>8, <1>9, <1>10, <1>11, <1>12, BackKept DEF SameFiles

LEMMA BackCopyFile ==
    ASSUME TInv, Undo, Back, NEW j \in jobs, CopyFile(j),
           Histories' \subseteq Histories \cup {NoHistory}
    PROVE  Back'
<1> USE DEF TInv
<1>1. PICK p \in Path, c \in Content \cup {None}, next \in PushJobs :
         /\ j \in PushJobs /\ j.cur # None /\ j.cur.path = p
         /\ \/ (j.cur.copy \/ j.cur.drop) /\ Put(j.dir, p, c) /\ Disturbed(j.dir, j.id)
            \/ UNCHANGED <<dir, alone>>
         /\ Continue(j, next)
         /\ next.kind = "push" /\ next.id = j.id /\ next.cur = None /\ next.files = j.files
         /\ UNCHANGED <<saved, snap, mem, before>>
  BY CopyFileFacts
<1>2. j.kind = "push" /\ j.id \in Push /\ j.dir \in Branch /\ jobs' = (jobs \ {j}) \cup {next}
  BY <1>1 DEF PushJobs, Continue
<1>3. PushInv(j) /\ Pushing(j) /\ mem.history[j.id] = None
  BY <1>2 DEF Undo, Back, PushInv, Unlisted, Histories
<1>4. \A k \in jobs : k.kind = "push" /\ k # j => k.id # j.id
  BY <1>2 DEF Undo
<1>5. \A k \in jobs : k.kind = "revert" => k.id # j.id
  BY <1>3 DEF RevertsAreListed
<1>6. Agree'
  BY <1>1, AgreeKept
<1>7. CASE UNCHANGED <<dir, alone>>
  <2>1. \A x \in alone' : Same(x)
    BY <1>1, <1>7, SameBranches DEF At, TreeOf
  <2>2. \A q : AsFound(j.id, q)' <=> AsFound(j.id, q)
    BY <1>1, <1>7 DEF AsFound, Now, At, TreeOf
  <2>3. Pushing(next)'
    BY <1>1, <1>3, <1>7, <2>2 DEF Pushing, Spared
  <2>4. QED
    BY <1>1, <1>2, <1>6, <2>1, <2>3, BackKept DEF SameFiles
<1>8. CASE (j.cur.copy \/ j.cur.drop) /\ Put(j.dir, p, c) /\ Disturbed(j.dir, j.id)
  <2>1. /\ \A q \in Path \ {p} : At(j.dir, q)' = At(j.dir, q)
        /\ \A a \in Branch \ {j.dir} : \A q \in Path : At(a, q)' = At(a, q)
    BY <1>1, <1>2, <1>8, PutFacts
  <2>2. \A x \in alone' : x # j.id => Same(x)
    BY <1>1, <1>2, <1>8, <2>1, SameElsewhere
  <2>3. Pushing(next)'
    <3>1. ASSUME j.id \in alone'
          PROVE  \A q \in Path : Spared(j.id, q, j.files[q])' => AsFound(j.id, q)'
      <4>1. j.id \in alone /\ before[j.id].branch = j.dir
        BY <1>3, <1>8, <3>1 DEF Disturbed, PushInv, PutAway
      <4>2. ASSUME NEW q \in Path, Spared(j.id, q, j.files[q])'
            PROVE  AsFound(j.id, q)'
        <5>1. Spared(j.id, q, j.files[q])
          BY <1>1, <4>2 DEF Spared
        <5>2. AsFound(j.id, q) /\ q # p
          BY <1>1, <1>3, <1>8, <4>1, <5>1 DEF Pushing
        <5>3. At(j.dir, q)' = At(j.dir, q)
          BY <2>1, <5>2
        <5>4. QED
          BY <1>1, <4>1, <5>2, <5>3 DEF AsFound, Now, At, TreeOf
      <4>3. QED
        BY <4>2
    <3>2. QED
      BY <1>1, <3>1 DEF Pushing
  <2>4. QED
    BY <1>1, <1>2, <1>3, <1>4, <1>5, <1>6, <2>2, <2>3, BackKept DEF SameFiles
<1>9. QED
  BY <1>1, <1>7, <1>8

LEMMA BackAddRecord ==
    ASSUME TInv, Undo, Back, NEW j \in jobs, AddRecord(j)
    PROVE  Back'
<1> USE DEF TInv
<1>1. /\ j \in PushJobs /\ j.id \in Push /\ j.kind = "push"
      /\ mem'.history[j.id] = RecordOf(j)
      /\ \A x \in Push \ {j.id} : mem'.history[x] = mem.history[x]
      /\ Histories' \subseteq Histories \cup {mem'.history}
  BY AddRecordFacts DEF AddRecord
<1>2. UNCHANGED <<dir, snap, before, alone>>
  BY DEF AddRecord, disk, ghosts
<1>3. PushInv(j) /\ Pushing(j)
  BY <1>1 DEF Undo, Back
<1>4. \A k \in jobs' : k.kind \in {"push", "revert"} => k \in jobs
  <2> DEFINE next == SaveJob(j.id, IF j.auto THEN "auto push" ELSE "push")
  <2>1. next.kind = "save"
    BY DEF SaveJob
  <2>2. jobs' = (jobs \ {j}) \cup {next}
    BY DEF AddRecord, Continue
  <2> HIDE DEF next
  <2>3. QED
    BY <2>1, <2>2
<1>5. \A x \in alone' : Same(x)
  BY <1>2, SameBranches DEF At, TreeOf
<1>6. \A x, q : AsFound(x, q)' <=> AsFound(x, q)
  BY <1>2 DEF AsFound, Now, At, TreeOf
<1>7. Untouched(j.id)' \/ j.id \notin alone'
  <2>1. ASSUME j.id \in alone, NEW q \in Path, Spared(j.id, q, j.files[q])
        PROVE  AsFound(j.id, q)'
    BY <1>3, <1>6, <2>1 DEF Pushing
  <2>2. mem'.history[j.id].files = j.files
    BY <1>1 DEF RecordOf
  <2>3. QED
    BY <1>2, <2>1, <2>2 DEF Untouched, Spared
<1>8. Agree'
  <2>1. ASSUME NEW h \in Histories, NEW x \in Push, h[x] # None
        PROVE  mem'.history[x] # None /\ h[x].files = mem'.history[x].files
    <3>1. x # j.id
      BY <1>3, <2>1 DEF PushInv, Unlisted
    <3>2. QED
      BY <1>1, <2>1, <3>1 DEF Back, Agree
  <2>2. QED
    BY <1>1, <2>1 DEF Agree
<1>9. \A k \in jobs' : k.kind = "revert" => SameFiles(k.id)
  <2>1. ASSUME NEW k \in jobs', k.kind = "revert"
        PROVE  k.id \in Push \ {j.id}
    <3>1. k \in jobs /\ mem.history[k.id] # None
      BY <1>4, <2>1 DEF RevertsAreListed
    <3>2. k.id \in Push
      BY <2>1, <3>1, Kinds DEF WorkspaceTypeOK, RevertJobs
    <3>3. QED
      BY <1>3, <3>1, <3>2 DEF PushInv, Unlisted, Histories
  <2>2. QED
    BY <1>1, <2>1 DEF SameFiles
<1>10. \A x \in alone' : x # j.id => mem'.history[x] = mem.history[x]
  BY <1>1, <1>2 DEF WorkspaceTypeOK
<1>11. QED
  BY <1>4, <1>5, <1>7, <1>8, <1>9, <1>10, BackKept

\* A revert that begins has everything that was pushed to do, if it is full.
LEMMA BackBeginRevert ==
    ASSUME TInv, Undo, Back, NEW x \in Push, BeginRevert(x),
           Histories' \subseteq Histories \cup {NoHistory}
    PROVE  Back'
<1> USE DEF TInv
<1>1. PICK paths \in SUBSET FilesPushed(x), full \in BOOLEAN :
         /\ jobs' = jobs \cup {RevertJob(x, mem.dir, paths, full)}
         /\ full => paths = FilesPushed(x)
  BY DEF BeginRevert, Begin
<1>2. PICK job : job = RevertJob(x, mem.dir, paths, full)
  OBVIOUS
<1>3. /\ job.kind = "revert" /\ job.id = x /\ job.todo = paths /\ job.full = full
      /\ jobs' = jobs \cup {job}
  BY <1>1, <1>2 DEF RevertJob
<1>4. mem.history[x] # None /\ UNCHANGED <<dir, snap, before, alone, mem>>
  BY DEF BeginRevert, disk, ghosts
<1>5. \A y, p : Now(y, p)' = Now(y, p)
  BY <1>4 DEF Now, At, TreeOf
<1>6. Reverting(job)'
  <2>1. \A p \in job.todo : mem.history[x].files[p] # None
    BY <1>1, <1>3 DEF FilesPushed
  <2>2. ASSUME job.full, x \in alone, NEW p \in Kept(job) \ job.todo
        PROVE  Undone(x, p, Now(x, p))
    <3>1. mem.history[x].files[p] = None
      BY <1>1, <1>3, <2>2 DEF FilesPushed, Kept
    <3>2. AsFound(x, p)
      BY <1>4, <2>2, <3>1 DEF Back, Untouched, Spared, Kept
    <3>3. QED
      BY <3>1, <3>2 DEF Undone, AsFound
  <2>3. Kept(job)' = Kept(job)
    BY <1>4 DEF Kept
  <2>4. QED
    BY <1>3, <1>4, <1>5, <2>1, <2>2, <2>3 DEF Reverting, Undone
<1>7. \A y \in alone' : Same(y)
  BY <1>4, SameBranches DEF At, TreeOf
<1>8. Agree' /\ \A y : SameFiles(y)
  BY <1>4, AgreeKept DEF SameFiles
<1>9. QED
  BY <1>3, <1>4, <1>6, <1>7, <1>8, BackKept

\* What a write to one file leaves there.
LEMMA PutThere ==
    ASSUME TInv, NEW b \in Branch, NEW p \in Path, NEW c \in Content \cup {None}, Put(b, p, c)
    PROVE  At(b, p)' = c
<1> DEFINE t == [TreeOf(b) EXCEPT ![p] = c]
<1>1. TreeOf(b) \in Tree
  BY Trees DEF TInv
<1>2. t \in Tree /\ t[p] = c
  BY <1>1 DEF Tree
<1>3. dir' = [dir EXCEPT ![b] = t]
  BY DEF Put
<1> HIDE DEF t
<1>4. dir'[b] = t /\ t # None
  BY <1>2, <1>3, NoneAssumption DEF TInv, WorkspaceTypeOK
<1>5. QED
  BY <1>2, <1>4 DEF At, TreeOf

\* What a revert writes to the branch of its push is what the push had found, as text.
LEMMA Restored ==
    ASSUME TInv, Undo, Back, NEW j \in jobs, j.kind = "revert", NEW p \in j.todo, p \in Path,
           Restore(j.id, j.dir, p), UNCHANGED <<snap, before, mem>>, j.id \in alone,
           j.dir = before[j.id].branch, p \notin mem.history[j.id].misread
    PROVE  Undone(j.id, p, Now(j.id, p))'
<1> DEFINE x == j.id
           files == mem.history[x].files
<1> USE DEF TInv
<1>1. j \in RevertJobs /\ x \in Push /\ j.dir \in Branch /\ mem.history[x] # None
  BY Kinds DEF WorkspaceTypeOK, RevertJobs, RevertsAreListed
<1>2. files[p] # None
  BY DEF Back, Reverting
<1>3. /\ snap[x][p] = Decoded(before[x].tree[p])
      /\ files[p] = "added" => snap[x][p] = None
  BY <1>1, <1>2 DEF Undo, Undoable, Histories
<1>4. snap[x][p] \in Content \cup {None} /\ before[x].tree[p] \in Content \cup {None}
  BY <1>1, FoundIn DEF WorkspaceTypeOK, Tree
<1>5. SUFFICES At(j.dir, p)' = Decoded(before[x].tree[p])
  BY <1>2, <1>5 DEF Undone, Now, At, TreeOf
<1>6. CASE Put(j.dir, p, None) /\ files[p] = "added"
  BY <1>1, <1>3, <1>6, PutThere
<1>7. CASE Put(j.dir, p, snap[x][p])
  BY <1>1, <1>3, <1>4, <1>7, PutThere
<1>8. CASE UNCHANGED dir /\ files[p] # "added" /\ snap[x][p] = None
  <2>1. AsFound(x, p)
    BY <1>1, <1>8 DEF Back, Untouched, Spared
  <2>2. before[x].tree[p] = None
    BY <1>3, <1>4, <1>8, DecodedFacts
  <2>3. At(j.dir, p) = Decoded(before[x].tree[p])
    BY <1>3, <1>8, <2>1, <2>2 DEF AsFound, Now
  <2>4. QED
    BY <1>8, <2>3 DEF At, TreeOf
<1>9. QED
  BY <1>6, <1>7, <1>8 DEF Restore

\* A revert writes to one file of the branch of its push: the others of which something is
\* said are as they were.
LEMMA OthersStay ==
    ASSUME TInv, Undo, Back, NEW j \in jobs, j.kind = "revert", NEW p \in j.todo,
           p \in Path, Disturbed(j.dir, j.id), UNCHANGED <<snap, before, mem>>,
           \A q \in Path \ {p} : At(j.dir, q)' = At(j.dir, q),
           \A a \in Branch \ {j.dir} : \A q \in Path : At(a, q)' = At(a, q),
           Spared(j.id, p, mem.history[j.id].files[p]) => UNCHANGED dir,
           Histories' \subseteq Histories \cup {NoHistory},
           \A k \in jobs' : k.kind = "push" => k \in jobs,
           \A k \in jobs' : k.kind = "revert" =>
              \E i \in jobs : /\ i.kind = "revert" /\ i.id = k.id /\ k.dir = i.dir
                              /\ k.full = i.full /\ k.todo \subseteq i.todo
                              /\ \/ k.todo = i.todo
                                 \/ k.dir = j.dir /\ i.todo \subseteq k.todo \cup {p}
                              /\ i.missed \subseteq k.missed
                              /\ k.id # j.id => k = i,
           ASSUME j.id \in alone', j.dir = before[j.id].branch,
                  NEW k \in jobs', k.kind = "revert", k.id = j.id, p \notin k.todo, p \in Kept(k)
           PROVE  Undone(j.id, p, Now(j.id, p))'
    PROVE  Back'
<1> DEFINE x == j.id
<1> USE DEF TInv
<1>1. j.dir \in Branch /\ x \in Push /\ mem.history[x] # None /\ alone' \subseteq alone
  BY Kinds DEF WorkspaceTypeOK, RevertJobs, RevertsAreListed, Disturbed
<1>2. \A y \in alone' : y # x \/ before[x].branch # j.dir => Same(y)
  BY <1>1, SameElsewhere
<1>3. Agree' /\ (\A y : SameFiles(y)) /\ \A k : Kept(k)' = Kept(k)
  BY AgreeKept DEF SameFiles, Kept
<1>4. \A q \in Path \ {p} : j.dir = before[x].branch => Now(x, q)' = Now(x, q)
  BY DEF Now, At, TreeOf
<1>5. ASSUME x \in alone', before[x].branch = j.dir
      PROVE  Untouched(x)'
  <2>1. Untouched(x) /\ x \in alone
    BY <1>1, <1>5 DEF Back
  <2>2. ASSUME NEW q \in Path, Spared(x, q, mem.history[x].files[q])
        PROVE  AsFound(x, q)'
    <3>1. AsFound(x, q)
      BY <2>1, <2>2 DEF Untouched
    <3>2. CASE q = p
      BY <2>2, <3>1, <3>2 DEF AsFound, Now, At, TreeOf
    <3>3. CASE q # p
      BY <1>4, <1>5, <3>1, <3>3 DEF AsFound
    <3>4. QED
      BY <3>2, <3>3
  <2>3. QED
    BY <2>2 DEF Untouched, Spared
<1>6. ASSUME NEW k \in jobs', k.kind = "revert", k.id = x
      PROVE  Reverting(k)'
  <2>1. PICK i \in jobs : /\ i.kind = "revert" /\ i.id = x /\ k.dir = i.dir
                          /\ k.full = i.full /\ k.todo \subseteq i.todo
                          /\ \/ k.todo = i.todo
                             \/ k.dir = j.dir /\ i.todo \subseteq k.todo \cup {p}
                          /\ i.missed \subseteq k.missed
    BY <1>6
  <2>2. Reverting(i)
    BY <2>1 DEF Back
  <2>3. ASSUME k.full, x \in alone', k.dir = before[x].branch, NEW q \in Kept(k) \ k.todo
        PROVE  Undone(x, q, Now(x, q))'
    <3>1. q \in Path /\ x \in alone /\ q \in Kept(i)
      BY <1>1, <1>6, <2>1, <2>3 DEF Kept
    <3>2. ASSUME q \notin i.todo, Now(x, q)' = Now(x, q)
          PROVE  Undone(x, q, Now(x, q))'
      <4>1. Undone(x, q, Now(x, q))
        BY <2>1, <2>2, <2>3, <3>1, <3>2 DEF Reverting
      <4>2. QED
        BY <3>2, <4>1 DEF Undone
    <3>3. CASE q = p /\ j.dir = before[x].branch
      BY <1>6, <2>3, <3>3
    <3>4. CASE q # p /\ j.dir = before[x].branch
      BY <1>4, <2>1, <2>3, <3>1, <3>2, <3>4
    <3>5. CASE j.dir # before[x].branch
      BY <1>2, <2>1, <2>3, <3>1, <3>2, <3>5 DEF Same
    <3>6. QED
      BY <3>3, <3>4, <3>5
  <2>4. ASSUME NEW q \in k.todo
        PROVE  mem.history[x].files[q] # None
    BY <2>1, <2>2, <2>4 DEF Reverting
  <2>5. QED
    BY <1>3, <1>6, <2>3, <2>4 DEF Reverting
<1>7. \A k \in jobs : k.kind = "push" => k.id # x
  BY <1>1 DEF Undo, PushInv, Unlisted, Histories
<1>8. \A k \in jobs' : k.kind = "revert" /\ k.id # x => k \in jobs
  OBVIOUS
<1>9. QED
  BY <1>1, <1>2, <1>3, <1>5, <1>6, <1>7, <1>8, BackKept

LEMMA BackRevertFile ==
    ASSUME TInv, Undo, Back, NEW j \in jobs, NEW p \in Path, RevertFile(j, p),
           Histories' \subseteq Histories \cup {NoHistory}
    PROVE  Back'
<1> USE DEF TInv
<1>1. /\ j \in RevertJobs /\ j.kind = "revert" /\ p \in j.todo /\ j.dir \in Branch
      /\ j.id \in Push /\ mem.history[j.id].files[p] # None
  BY Kinds DEF RevertFile, WorkspaceTypeOK, RevertJobs, Back, Reverting
<1>2. PICK next : next = [j EXCEPT !.todo = @ \ {p}]
  OBVIOUS
<1>3. /\ Restore(j.id, j.dir, p) /\ Disturbed(j.dir, j.id) /\ UNCHANGED <<snap, before, mem>>
      /\ jobs' = (jobs \ {j}) \cup {next}
  BY <1>2 DEF RevertFile, Continue
<1>4. /\ next.kind = "revert" /\ next.id = j.id /\ next.dir = j.dir /\ next.full = j.full
      /\ next.todo = j.todo \ {p} /\ next.missed = j.missed
  BY <1>1, <1>2 DEF RevertJobs
<1>5. /\ \A q \in Path \ {p} : At(j.dir, q)' = At(j.dir, q)
      /\ \A a \in Branch \ {j.dir} : \A q \in Path : At(a, q)' = At(a, q)
  <2>1. CASE UNCHANGED dir
    BY <2>1 DEF At, TreeOf
  <2>2. ASSUME NEW c \in Content \cup {None}, Put(j.dir, p, c)
        PROVE  <1>5!1 /\ <1>5!2
    BY <1>1, <2>2, PutFacts
  <2>3. snap[j.id][p] \in Content \cup {None}
    BY <1>1 DEF WorkspaceTypeOK, Tree
  <2>4. QED
    BY <1>3, <2>1, <2>2, <2>3 DEF Restore
<1>6. Spared(j.id, p, mem.history[j.id].files[p]) => UNCHANGED dir
  BY <1>1, <1>3 DEF Spared, Restore
<1>7. ASSUME j.id \in alone', j.dir = before[j.id].branch,
             NEW k \in jobs', k.kind = "revert", k.id = j.id, p \notin k.todo, p \in Kept(k)
      PROVE  Undone(j.id, p, Now(j.id, p))'
  <2>1. j.id \in alone /\ p \notin mem.history[j.id].misread
    BY <1>3, <1>7 DEF Disturbed, Kept
  <2>2. QED
    BY <1>1, <1>3, <1>7, <2>1, Restored
<1>8. \A k \in jobs' : k.kind = "push" => k \in jobs
  BY <1>3, <1>4
<1>9. ASSUME NEW k \in jobs', k.kind = "revert"
      PROVE  \E i \in jobs : /\ i.kind = "revert" /\ i.id = k.id /\ k.dir = i.dir
                             /\ k.full = i.full /\ k.todo \subseteq i.todo
                             /\ \/ k.todo = i.todo
                                \/ k.dir = j.dir /\ i.todo \subseteq k.todo \cup {p}
                             /\ i.missed \subseteq k.missed
                             /\ k.id # j.id => k = i
  <2>1. CASE k = next
    BY <1>1, <1>4, <2>1
  <2>2. CASE k \in jobs
    BY <1>9, <2>2
  <2>3. QED
    BY <1>3, <2>1, <2>2
<1>10. QED
  BY <1>1, <1>3, <1>5, <1>6, <1>7, <1>8, <1>9, OthersStay

\* Of a file that a revert skips, nothing is said.
LEMMA BackSkipFile ==
    ASSUME TInv, Undo, Back, NEW j \in jobs, NEW p \in Path, SkipFile(j, p),
           Histories' \subseteq Histories \cup {NoHistory}
    PROVE  Back'
<1> USE DEF TInv
<1>1. PICK next : next = [j EXCEPT !.todo = @ \ {p}, !.missed = @ \cup {p}]
  OBVIOUS
<1>2. /\ next.kind = "revert" /\ next.id = j.id /\ next.dir = j.dir /\ next.full = j.full
      /\ next.todo = j.todo \ {p} /\ next.missed = j.missed \cup {p}
      /\ jobs' = (jobs \ {j}) \cup {next} /\ j.kind = "revert"
  BY <1>1, Kinds DEF SkipFile, Continue, WorkspaceTypeOK, RevertJobs
<1>3. UNCHANGED <<dir, snap, mem, before, alone>>
  BY DEF SkipFile, disk, ghosts
<1>4. \A x, q : Now(x, q)' = Now(x, q)
  BY <1>3 DEF Now, At, TreeOf
<1>5. Kept(next) \ next.todo \subseteq Kept(j) \ j.todo
  BY <1>2 DEF Kept
<1>6. Reverting(next)'
  <2>1. Reverting(j) /\ Kept(next)' = Kept(next)
    BY <1>2, <1>3 DEF Back, Kept
  <2>2. ASSUME NEW q \in Path
        PROVE  Undone(j.id, q, Now(j.id, q))' <=> Undone(j.id, q, Now(j.id, q))
    BY <1>3, <1>4 DEF Undone
  <2>3. \A q \in Kept(next) : q \in Path
    BY DEF Kept
  <2>4. QED
    BY <1>2, <1>3, <1>5, <2>1, <2>2, <2>3 DEF Reverting
<1>7. \A x \in alone' : Same(x)
  BY <1>3, SameBranches DEF At, TreeOf
<1>8. Agree' /\ \A x : SameFiles(x)
  BY <1>3, AgreeKept DEF SameFiles
<1>9. QED
  BY <1>2, <1>3, <1>6, <1>7, <1>8, BackKept

\* A push whose file is spoiled is never listed, and a revert has not restored its file.
LEMMA BackWriteFails ==
    ASSUME TInv, Undo, Back, NEW j \in jobs, WriteFails(j),
           Histories' \subseteq Histories \cup {NoHistory}
    PROVE  Back'
<1> USE DEF TInv
<1>1. PICK b \in Branch, p \in Path, c \in {Garbled, None}, x \in Push \cup {None} :
         /\ Writes(j, b, p) /\ c \in Content \cup {None}
         /\ Put(b, p, c) /\ Disturbed(b, x) /\ jobs' = Spoiled(j, p)
         /\ j.kind \in {"push", "revert"} => x = j.id /\ j.dir = b
         /\ j.kind \notin {"push", "revert"} => x = None
  BY WriteFailsFacts
<1>2. UNCHANGED <<snap, mem, before>>
  BY DEF WriteFails
<1>3. /\ \A q \in Path \ {p} : At(b, q)' = At(b, q)
      /\ \A a \in Branch \ {b} : \A q \in Path : At(a, q)' = At(a, q)
  BY <1>1, PutFacts
<1>4. \A k \in jobs' :
         /\ \E i \in jobs \ {j} :
               \/ k = i
               \/ /\ j.kind = "revert" /\ i \in RevertJobs /\ k \in RevertJobs /\ i.id = j.id
                  /\ k.id = i.id /\ k.dir = i.dir /\ k.todo = i.todo /\ k.full = i.full
                  /\ k.missed = i.missed \cup {p}
         /\ j.kind = "revert" /\ k.kind = "revert" /\ k.id = j.id => p \in k.missed
  BY <1>1, SpoiledJobs
<1>5. CASE j.kind = "revert"
  <2>1. /\ p \in j.todo /\ p \in Path /\ x = j.id /\ j.dir = b
        /\ ~Spared(j.id, p, mem.history[j.id].files[p])
    <3>1. p \in j.todo /\ mem.history[j.id].files[p] # "added" /\ snap[j.id][p] # None
      BY <1>1, <1>5 DEF Writes
    <3>2. QED
      BY <1>1, <1>5, <3>1 DEF Spared, Back, Reverting
  <2>2. \A k \in RevertJobs : k.kind = "revert"
    BY DEF RevertJobs
  <2>3. \A k \in jobs' : k.kind = "push" => k \in jobs
    BY <1>4, <2>2
  <2>4. ASSUME NEW k \in jobs', k.kind = "revert"
        PROVE  \E i \in jobs : /\ i.kind = "revert" /\ i.id = k.id /\ k.dir = i.dir
                               /\ k.full = i.full /\ k.todo \subseteq i.todo
                               /\ \/ k.todo = i.todo
                                  \/ k.dir = j.dir /\ i.todo \subseteq k.todo \cup {p}
                               /\ i.missed \subseteq k.missed
                               /\ k.id # j.id => k = i
    BY <1>4, <2>2, <2>4
  <2>5. \A k \in jobs' : k.kind = "revert" /\ k.id = j.id => p \notin Kept(k)
    BY <1>4, <1>5 DEF Kept
  <2>6. /\ Disturbed(j.dir, j.id)
        /\ \A q \in Path \ {p} : At(j.dir, q)' = At(j.dir, q)
        /\ \A a \in Branch \ {j.dir} : \A q \in Path : At(a, q)' = At(a, q)
    BY <1>1, <1>3, <2>1
  <2> HIDE DEF TInv
  <2>7. QED
    BY <1>2, <1>5, <2>1, <2>3, <2>4, <2>5, <2>6, OthersStay
<1>6. CASE j.kind # "revert"
  <2>1. \A k \in jobs' : k \in jobs /\ k # j
    BY <1>4, <1>6
  <2>2. \A y \in alone' : y # x => Same(y)
    BY <1>1, <1>2, <1>3, SameElsewhere
  <2>3. x # None => mem.history[x] = None
    BY <1>1, <1>6 DEF Undo, PushInv, Unlisted, Histories
  <2>4. \A k \in jobs' : k.kind = "push" => k.id # x
    <3>1. CASE x = None
      BY <2>1, <3>1, Kinds, WorkspaceConstants DEF WorkspaceTypeOK, PushJobs
    <3>2. CASE x # None
      BY <1>1, <1>6, <2>1, <3>2 DEF Undo
    <3>3. QED
      BY <3>1, <3>2
  <2>5. \A k \in jobs' : k.kind = "revert" => k.id # x
    <3>1. CASE x = None
      BY <2>1, <3>1, Kinds, WorkspaceConstants DEF WorkspaceTypeOK, RevertJobs
    <3>2. CASE x # None
      BY <2>1, <2>3, <3>2 DEF RevertsAreListed
    <3>3. QED
      BY <3>1, <3>2
  <2>6. \A y \in alone' : mem.history[y] # None => Same(y)
    <3>1. \A y \in alone' : y # None
      BY <1>1, WorkspaceConstants DEF Disturbed, WorkspaceTypeOK
    <3>2. QED
      BY <2>2, <2>3, <3>1
  <2>7. Agree' /\ \A y : SameFiles(y)
    BY <1>2, AgreeKept DEF SameFiles
  <2>8. QED
    BY <1>2, <2>1, <2>2, <2>4, <2>5, <2>6, <2>7, BackKept
<1>7. QED
  BY <1>5, <1>6

LEMMA BackMarkReverted ==
    ASSUME TInv, Undo, Back, NEW j \in jobs, MarkReverted(j)
    PROVE  Back'
<1> USE DEF TInv
<1>1. /\ j.id \in Push /\ mem.history[j.id] # None /\ mem'.history[j.id] # None
      /\ mem'.history[j.id].files = mem.history[j.id].files
      /\ mem'.history[j.id].misread = mem.history[j.id].misread
      /\ \A x \in Push \ {j.id} : mem'.history[x] = mem.history[x]
      /\ Histories' \subseteq Histories \cup {mem'.history}
  BY MarkRevertedType, MarkRevertedFacts, NoneAssumption DEF RevertsAreListed, MarkReverted
<1>2. UNCHANGED <<dir, snap, before, alone>>
  BY DEF MarkReverted, disk, ghosts
<1>3. \A k \in jobs' : k.kind \in {"push", "revert"} => k \in jobs
  BY DEF MarkReverted, Continue, SaveJob
<1>4. \A x \in alone' : Same(x)
  BY <1>2, SameBranches DEF At, TreeOf
<1>5. \A x \in Push : /\ mem.history[x] # None <=> mem'.history[x] # None
                      /\ mem'.history[x].files = mem.history[x].files
                      /\ SameFiles(x)
  BY <1>1 DEF SameFiles
<1>6. Agree'
  <2>1. ASSUME NEW h \in Histories, NEW x \in Push, h[x] # None
        PROVE  mem'.history[x] # None /\ h[x].files = mem'.history[x].files
    BY <1>5, <2>1 DEF Back, Agree
  <2>2. QED
    BY <1>1, <2>1 DEF Agree
<1>7. \A k \in jobs' : k.kind = "revert" => k.id \in Push
  BY <1>3, Kinds DEF WorkspaceTypeOK, RevertJobs
<1>8. alone' \subseteq Push
  BY <1>2 DEF WorkspaceTypeOK
<1>9. QED
  BY <1>3, <1>4, <1>5, <1>6, <1>7, <1>8, BackKept

\* A full revert into the branch of its push leaves that branch as the push had found it,
\* through crashes, rejected writes and repeated and partial reverts: of every file that
\* the push has changed, its text is restored, unless the revert could not read its
\* snapshot or the push its original; the others nobody has touched (revertPush()).
THEOREM RevertsRestore == Spec => []RevertRestores
<1>1. Init => Back
  <2>1. ASSUME Init
        PROVE  jobs = {} /\ alone = {} /\ Histories = {NoHistory}
    BY <2>1 DEF Init, Histories, Saving, Loaded
  <2>2. QED
    BY <2>1 DEF Back, Agree, NoHistory
<1>2. ASSUME TInv, Undo, Back, [Next]_vars
      PROVE  Back'
  <2>1. ASSUME NEW j \in jobs, Lists(j)
        PROVE  Back'
    BY <1>2, <2>1, BackAddRecord, BackMarkReverted DEF Lists
  <2>2. ASSUME \A j \in jobs : ~Lists(j)
        PROVE  Back'
    <3>1. Histories' \subseteq Histories \cup {NoHistory}
      BY <1>2, <2>2, NothingListed
    <3>2. ASSUME NEW j \in jobs, Step(j)
          PROVE  Back'
      BY <1>2, <2>2, <3>1, <3>2, BackQuiet, BackWrites, BackBeginPush, BackReadFile,
         BackCopyFile, BackRevertFile, BackSkipFile, BackWriteFails DEF Step, Lists
    <3>3. QED
      BY <1>2, <3>1, <3>2, BackQuiet, BackRestart, BackWrites, BackBeginRevert DEF Next
  <2>3. QED
    BY <2>1, <2>2
<1>3. ASSUME TInv, Undo, Back
      PROVE  RevertRestores
  <2>1. ASSUME NEW j \in jobs, Finished(j), j.dir = before[j.id].branch, NEW p \in Kept(j)
        PROVE  Undone(j.id, p, At(j.dir, p))
    BY <1>3, <2>1 DEF Back, Reverting, Finished, Now
  <2>2. QED
    BY <2>1 DEF RevertRestores
<1>4. QED
  BY <1>1, <1>2, <1>3, WorkspaceType, UndoHolds, PTL DEF Spec
===============================================================================
