------------------------------ MODULE Workspace --------------------------------
(***************************************************************************)
(* One window's files: the branches under .versioncon/branches, the push     *)
(* history with its snapshots, the workspace, the staged files, and the      *)
(* commands that work on them (src/src/filesystem and the commands of        *)
(* src/src/extension.ts).  A command is a job: what it has read  *)
(* stays in the job over its awaits, and jobs interleave.  The window may    *)
(* be closed at any time; what is on disk stays.  Any file operation may be  *)
(* rejected: the step is then a read that finds nothing, a write that leaves *)
(* its file cut short, or the end of the command.                           *)
(*                                                                         *)
(* Files are copied byte by byte, but read and snapshotted as utf-8 text.    *)
(***************************************************************************)
EXTENDS Integers, FiniteSets

CONSTANTS
    Path,       \* files
    Content,    \* what a file may hold
    Text,       \* the contents that are utf-8
    Garbled,    \* what decoding makes of the others, or what is left of a file cut short
    Branch,     \* branch names
    Main,       \* 'main'
    Writable,   \* the branches this member has the rights to change
    Push,       \* ids of this window's pushes
    MaxEdits,   \* bound: edits of the user
    MaxJobs,    \* bound: commands in progress at once
    MaxBegun,   \* bound: commands begun
    MaxFaults,  \* bound: rejected file operations and closings of the window
    None

ASSUME WorkspaceConstants ==
    /\ Main \in Branch /\ Writable \subseteq Branch
    /\ Text \subseteq Content /\ Garbled \in Text
    /\ None \notin Push \cup Branch \cup Content
    /\ MaxEdits \in Nat /\ MaxJobs \in Nat /\ MaxBegun \in Nat /\ MaxFaults \in Nat

Tree == [Path -> Content \cup {None}]
Nothing == [p \in Path |-> None]

\* PushRecord; dir, the branch whose directory was written, and misread, the files whose
\* reading in the branch was rejected, are kept for the properties
Record ==
    [branch : Branch, dir : Branch, reverted : BOOLEAN,
     files : [Path -> {"added", "modified", "deleted", None}], misread : SUBSET Path]
History == [Push -> Record \cup {None}]

\* "No directory", "not listed" and "not begun" are told apart from what may be there
ASSUME NoneAssumption ==
    /\ None \notin {"added", "modified", "deleted"}
    /\ \A r \in Record : r # None
    /\ \A b \in Branch, t \in Tree : t # None /\ [branch |-> b, tree |-> t] # None

VARIABLES
    dir,       \* dir[b]: the directory of branch b, or None
    active,    \* the active-branch file
    saved,     \* push-history.json and the branch metadata file
    snap,      \* snap[x]: push-snapshots of push x
    ws,        \* the workspace
    mem,       \* the window: branches, history, the branch it shows, staged files
    jobs,      \* commands in progress
    edits, begun, faults,
    before,    \* before[x]: the branch as push x found it (history variable)
    alone,     \* pushes whose branch nobody else has written to since (history variable)
    crossed    \* two switches overlapped, or the active-branch file was not read (the same)

disk == <<dir, active, saved, snap>>
bounds == <<edits, begun, faults>>
ghosts == <<before, alone, crossed>>
vars == <<disk, ws, mem, jobs, bounds, ghosts>>

NoHistory == [x \in Push |-> None]
Loaded(branches, history, b, name) ==
    [branches |-> branches, history |-> history, dir |-> b, name |-> name, staged |-> {}]

\* readFile(..., 'utf-8')
Decoded(c) == IF c \in Text \cup {None} THEN c ELSE Garbled

Init ==
    /\ \E t \in Tree : dir = [b \in Branch |-> IF b = Main THEN t ELSE None]
    /\ active = Main
    /\ saved = [branches |-> {Main}, history |-> NoHistory]
    /\ snap = [x \in Push |-> Nothing]
    /\ ws = Nothing
    /\ mem = Loaded({Main}, NoHistory, Main, Main)
    /\ jobs = {}
    /\ edits = 0 /\ begun = 0 /\ faults = 0
    /\ before = [x \in Push |-> None]
    /\ alone = {}
    /\ crossed = FALSE

-----------------------------------------------------------------------------
(* Files *)

TreeOf(b) == IF dir[b] = None THEN Nothing ELSE dir[b]
At(b, p) == TreeOf(b)[p]
FilesOf(b) == {p \in Path : At(b, p) # None}

\* writeFile() and copyFile() make the directory if need be; None stands for unlink()
Put(b, p, c) == dir' = [dir EXCEPT ![b] = [TreeOf(b) EXCEPT ![p] = c]]

\* A write to branch b on behalf of push x (None: of no push) disturbs the other pushes to b
Disturbed(b, x) == alone' = {y \in alone : y = x \/ before[y].branch # b}

Begin(job) ==
    /\ Cardinality(jobs) < MaxJobs /\ begun < MaxBegun
    /\ begun' = begun + 1
    /\ jobs' = jobs \cup {job}

Continue(job, next) == jobs' = (jobs \ {job}) \cup {next}
End(job) == jobs' = jobs \ {job}

\* What a step does only if a file operation is rejected
Faulty == faults < MaxFaults /\ faults' = faults + 1
FaultyIf(rejected) == IF rejected THEN Faulty ELSE UNCHANGED faults

\* The user gives up, or an operation is rejected before it has changed anything and the
\* command reports the error.  Not after a switch has written its file, or a clone begun.
Fail(j) ==
    /\ j.kind \notin {"switch", "import"}
    /\ End(j)
    /\ UNCHANGED <<disk, ws, mem, bounds, ghosts>>

\* The file that a command may be writing
Writes(j, b, p) ==
    \/ j.kind = "push" /\ j.dir = b /\ j.cur # None /\ j.cur.copy /\ j.cur.path = p
    \/ j.kind = "copy" /\ j.to = b /\ p \in j.todo
    \/ /\ j.kind = "revert" /\ j.dir = b /\ p \in j.todo
       /\ mem.history[j.id].files[p] # "added" /\ snap[j.id][p] # None

\* A revert of the same push that runs at the same time does not get the file right either
Spoiled(j, p) ==
    {IF j.kind = "revert" /\ k.kind = "revert" /\ k.id = j.id
     THEN [k EXCEPT !.missed = @ \cup {p}] ELSE k : k \in jobs \ {j}}

\* copyFile() or writeFile() is rejected half-way: the file is cut short or missing
WriteFails(j) ==
    /\ \E b \in Branch, p \in Path :
          /\ Writes(j, b, p)
          /\ \E c \in {Garbled, None} : Put(b, p, c)
          /\ Disturbed(b, IF j.kind = "copy" THEN None ELSE j.id)
          /\ jobs' = Spoiled(j, p)
    /\ Faulty
    /\ UNCHANGED <<active, saved, snap, ws, mem, edits, begun, before, crossed>>

\* save() is rejected: memory is ahead of the file, or the file cut short, which load()
\* takes for no history
HistoryFails(j) ==
    /\ j.kind = "save" /\ j.image # None
    /\ saved' = [saved EXCEPT !.history = NoHistory]
    /\ End(j)
    /\ Faulty
    /\ UNCHANGED <<dir, active, snap, ws, mem, edits, begun, ghosts>>

\* saveMetadata() is written, or rejected: the file is the old one or cut short, which
\* loadMetadata() takes for no branches
SaveBranches(ok) ==
    /\ saved' \in [branches : IF ok THEN {mem'.branches} ELSE {saved.branches, {}},
                   history : {saved.history}]
    /\ FaultyIf(~ok)

\* WorkspaceDiffer.diff()
Differing == {p \in Path : ws[p] # At(mem.dir, p)}

-----------------------------------------------------------------------------
(* The user's own files *)

Edited(p, c) ==
    /\ edits < MaxEdits
    /\ edits' = edits + 1
    /\ ws' = [ws EXCEPT ![p] = c]
    /\ UNCHANGED <<disk, mem, jobs, begun, faults, ghosts>>

\* In the editor: a file that is there is changed or deleted
Edit(p) == ws[p] # None /\ \E c \in (Content \cup {None}) \ {ws[p]} : Edited(p, c)

\* versioncon.addNewFileToWorkspace, or the editor: never over a file that is there
AddNewFile(p) == ws[p] = None /\ \E c \in Content : Edited(p, c)

\* versioncon.addToWorkspace; addFolderToWorkspace does it file by file
AddToWorkspace(p) ==
    /\ At(mem.dir, p) # None
    /\ ws' = [ws EXCEPT ![p] = At(mem.dir, p)]
    /\ UNCHANGED <<disk, mem, jobs, bounds, ghosts>>

\* versioncon.pull, where the user takes the branch's side
Pull(p) ==
    /\ None \notin {ws[p], At(mem.dir, p)}
    /\ p \in Differing
    /\ AddToWorkspace(p)

\* versioncon.stageForPush and unstageFile; what may block them is in PushFeed
Stage(p) ==
    /\ mem' = [mem EXCEPT !.staged = IF p \in @ THEN @ \ {p} ELSE @ \cup {p}]
    /\ UNCHANGED <<disk, ws, jobs, bounds, ghosts>>

-----------------------------------------------------------------------------
(* versioncon.push: PushService.executePush() *)

\* Neither locked nor restricted for this member
MayPush(b) == b \in Writable

\* What is staged, or else what differs; the user is shown a summary and asked for a message
AskPush ==
    LET paths == IF mem.staged = {} THEN Differing ELSE mem.staged
    IN  /\ paths # {}
        /\ MayPush(mem.name)
        /\ Begin([kind |-> "ask", todo |-> paths, auto |-> mem.staged = {}])
        /\ UNCHANGED <<disk, ws, mem, edits, faults, ghosts>>

PushJob(x, b, name, asked) ==
    [kind |-> "push", id |-> x, dir |-> b, name |-> name, todo |-> asked.todo, cur |-> None,
     files |-> Nothing, misread |-> {}, auto |-> asked.auto]

\* executePush() takes directory and branch name at once: those shown by then
BeginPush(j, x) ==
    /\ j.kind = "ask" /\ before[x] = None
    /\ Continue(j, PushJob(x, mem.dir, mem.name, j))
    /\ before' = [before EXCEPT ![x] = [branch |-> mem.dir, tree |-> TreeOf(mem.dir)]]
    /\ alone' = alone \cup {x}
    /\ UNCHANGED <<disk, ws, mem, bounds, crossed>>

\* determineStatus()
StatusOf(inBranch, inWorkspace) ==
    IF ~inBranch /\ inWorkspace THEN "added"
    ELSE IF inBranch /\ ~inWorkspace THEN "deleted" ELSE "modified"

\* Slip: the snapshot is left out of files that the push deletes
SnapshotOfKept(j, p, inBranch) ==
    snap' = IF inBranch /\ ws[p] # None
            THEN [snap EXCEPT ![j.id][p] = Decoded(At(j.dir, p))] ELSE snap

\* saveSnapshot() of what was read in the branch: text
Snapshot(j, p, inBranch) ==
    snap' = IF inBranch THEN [snap EXCEPT ![j.id][p] = Decoded(At(j.dir, p))] ELSE snap

\* A file is there, but not if reading it is rejected, for whatever reason
MayRead(c) == IF c = None THEN {FALSE} ELSE BOOLEAN

\* Both sides of a file are read and the branch's side is put away
ReadFile(j, p) ==
    /\ j.kind = "push" /\ j.cur = None /\ p \in j.todo
    /\ \E inBranch \in MayRead(At(j.dir, p)), inWorkspace \in MayRead(ws[p]) :
          /\ Snapshot(j, p, inBranch)
          /\ Continue(j, [j EXCEPT !.todo = @ \ {p},
                                   !.files[p] = StatusOf(inBranch, inWorkspace),
                                   !.misread = IF At(j.dir, p) # None /\ ~inBranch
                                               THEN @ \cup {p} ELSE @,
                                   !.cur = [path |-> p, copy |-> inWorkspace,
                                            drop |-> inBranch /\ ~inWorkspace]])
          /\ FaultyIf(inBranch # (At(j.dir, p) # None) \/ inWorkspace # (ws[p] # None))
    /\ UNCHANGED <<dir, active, saved, ws, mem, edits, begun, ghosts>>

\* The workspace's side replaces it, or it is unlinked; what has gone by then makes the
\* push fail
CopyFile(j) ==
    LET p == j.cur.path
    IN  /\ j.kind = "push" /\ j.cur # None
        /\ j.cur.copy => ws[p] # None
        /\ j.cur.drop => At(j.dir, p) # None
        /\ IF j.cur.copy \/ j.cur.drop
           THEN Put(j.dir, p, IF j.cur.copy THEN ws[p] ELSE None) /\ Disturbed(j.dir, j.id)
           ELSE UNCHANGED <<dir, alone>>
        /\ Continue(j, [j EXCEPT !.cur = None])
        /\ UNCHANGED <<active, saved, snap, ws, mem, bounds, before, crossed>>

SaveJob(x, ends) == [kind |-> "save", id |-> x, image |-> None, ends |-> ends]

\* Slip: the branch name is read again when the record is made
RecordOfLate(j) ==
    [branch |-> mem.name, dir |-> j.dir, reverted |-> FALSE, files |-> j.files,
     misread |-> j.misread]

RecordOf(j) ==
    [branch |-> j.name, dir |-> j.dir, reverted |-> FALSE, files |-> j.files,
     misread |-> j.misread]

\* addRecord(): in memory; then the whole file is rewritten
AddRecord(j) ==
    /\ j.kind = "push" /\ j.cur = None /\ j.todo = {}
    /\ mem' = [mem EXCEPT !.history[j.id] = RecordOf(j)]
    /\ Continue(j, SaveJob(j.id, IF j.auto THEN "auto push" ELSE "push"))
    /\ UNCHANGED <<disk, ws, bounds, ghosts>>

\* save() has made its directory: the image is the history of that moment
BeginWrite(j) ==
    /\ j.kind = "save" /\ j.image = None
    /\ Continue(j, [j EXCEPT !.image = mem.history])
    /\ UNCHANGED <<disk, ws, mem, bounds, ghosts>>

\* clearStaged() follows the saved record: also what was staged meanwhile
Saved(j) ==
    /\ j.kind = "save" /\ j.image # None
    /\ saved' = [saved EXCEPT !.history = j.image]
    /\ End(j)
    /\ mem' = IF j.ends = "push" THEN [mem EXCEPT !.staged = {}] ELSE mem
    /\ UNCHANGED <<dir, active, snap, ws, bounds, ghosts>>

-----------------------------------------------------------------------------
(* versioncon.revertPush and revertPushFiles *)

\* The branch shown when the revert begins is the one it writes to
RevertJob(x, b, paths, full) ==
    [kind |-> "revert", id |-> x, dir |-> b, todo |-> paths, full |-> full, missed |-> {}]

FilesPushed(x) == {p \in Path : mem.history[x].files[p] # None}

\* A full revert is refused once the push is marked; a partial one is not
BeginRevert(x) ==
    /\ mem.history[x] # None
    /\ \/ /\ ~mem.history[x].reverted
          /\ Begin(RevertJob(x, mem.dir, FilesPushed(x), TRUE))
       \/ \E paths \in SUBSET FilesPushed(x) :
             paths # {} /\ Begin(RevertJob(x, mem.dir, paths, FALSE))
    /\ UNCHANGED <<disk, ws, mem, edits, faults, ghosts>>

\* Slip: only modified files are restored
RestoreModified(x, b, p) ==
    IF mem.history[x].files[p] = "added" THEN Put(b, p, None)
    ELSE IF mem.history[x].files[p] = "modified" THEN Put(b, p, snap[x][p])
    ELSE UNCHANGED dir

\* An added file is unlinked, another one restored from its snapshot if it has one
Restore(x, b, p) ==
    IF mem.history[x].files[p] = "added" THEN Put(b, p, None)
    ELSE IF snap[x][p] # None THEN Put(b, p, snap[x][p])
    ELSE UNCHANGED dir

RevertFile(j, p) ==
    /\ j.kind = "revert" /\ p \in j.todo
    /\ Restore(j.id, j.dir, p)
    /\ Disturbed(j.dir, j.id)
    /\ Continue(j, [j EXCEPT !.todo = @ \ {p}])
    /\ UNCHANGED <<active, saved, snap, ws, mem, bounds, before, crossed>>

\* unlink() or reading the snapshot is rejected, which is taken for "nothing to do"
SkipFile(j, p) ==
    /\ j.kind = "revert" /\ p \in j.todo
    /\ Continue(j, [j EXCEPT !.todo = @ \ {p}, !.missed = @ \cup {p}])
    /\ Faulty
    /\ UNCHANGED <<disk, ws, mem, edits, begun, ghosts>>

\* markReverted(), whether or not files were skipped
MarkReverted(j) ==
    /\ j.kind = "revert" /\ j.todo = {}
    /\ mem' = [mem EXCEPT !.history[j.id].reverted = TRUE]
    /\ Continue(j, SaveJob(j.id, "revert"))
    /\ UNCHANGED <<disk, ws, bounds, ghosts>>

-----------------------------------------------------------------------------
(* Branches: BranchManager and the commands that call it *)

\* getActiveBranch(): main, if the file cannot be read
ActiveRead == {active, Main}

\* versioncon.switchBranch: the active-branch file first; switches may overlap
SwitchBranch(b) ==
    /\ b \in mem.branches
    /\ Begin([kind |-> "switch", to |-> b])
    /\ active' = b
    /\ crossed' = (crossed \/ \E j \in jobs : j.kind = "switch")
    /\ UNCHANGED <<dir, saved, snap, ws, mem, edits, faults, before, alone>>

\* getActiveBranchDir() reads the file again; the name is the one that was picked
ShowBranch(j) ==
    /\ j.kind = "switch"
    /\ \E b \in ActiveRead :
          /\ mem' = [mem EXCEPT !.dir = b, !.name = j.to]
          /\ FaultyIf(b # active)
          /\ crossed' = (crossed \/ b # active)
    /\ End(j)
    /\ UNCHANGED <<disk, ws, edits, begun, before, alone>>

\* The files of one branch are copied over another one by one
CopyJob(from, to, paths, lists) ==
    [kind |-> "copy", from |-> from, to |-> to, todo |-> paths, lists |-> lists]

\* versioncon.createBranch, from the active branch
CreateBranch(b) ==
    /\ b \notin mem.branches
    /\ \E from \in ActiveRead :
          /\ dir[from] # None
          /\ Begin(CopyJob(from, b, FilesOf(from), TRUE))
          /\ FaultyIf(from # active)
    /\ dir' = [dir EXCEPT ![b] = TreeOf(b)]
    /\ Disturbed(b, None)
    /\ UNCHANGED <<active, saved, snap, ws, mem, edits, before, crossed>>

\* Only main is guarded; what the two others check besides does not matter here
MayMergeInto(b) == b = Main => b \in Writable

\* versioncon.mergeBranch takes every file, quickMergeFiles those picked, and
\* structuredMergeBranch those that differ
MergeBranch(from, to) ==
    /\ from # to
    /\ {from, to} \subseteq mem.branches
    /\ MayMergeInto(to)
    /\ \E paths \in SUBSET FilesOf(from) : Begin(CopyJob(from, to, paths, FALSE))
    /\ UNCHANGED <<disk, ws, mem, edits, faults, ghosts>>

\* A file that has gone by then makes the command fail
CopyAcross(j, p) ==
    /\ j.kind = "copy" /\ p \in j.todo /\ At(j.from, p) # None
    /\ Put(j.to, p, At(j.from, p))
    /\ Disturbed(j.to, None)
    /\ Continue(j, [j EXCEPT !.todo = @ \ {p}])
    /\ UNCHANGED <<active, saved, snap, ws, mem, bounds, before, crossed>>

\* A creation lists its branch
Copied(j) ==
    /\ j.kind = "copy" /\ j.todo = {}
    /\ IF j.lists
       THEN /\ mem' = [mem EXCEPT !.branches = @ \cup {j.to}]
            /\ \E ok \in BOOLEAN : SaveBranches(ok)
       ELSE UNCHANGED <<mem, saved, faults>>
    /\ End(j)
    /\ UNCHANGED <<dir, active, snap, ws, edits, begun, ghosts>>

\* versioncon.importFromGitRemote: git clones into a directory of its own; where one
\* exists, the import fails
ImportBranch(b) ==
    /\ b \notin mem.branches
    /\ Begin([kind |-> "import", branch |-> b, fails |-> dir[b] # None])
    /\ dir' = [dir EXCEPT ![b] = TreeOf(b)]
    /\ UNCHANGED <<active, saved, snap, ws, mem, edits, faults, ghosts>>

\* registerExternalBranch() lists the branch and saves; if that or anything before it
\* fails, the directory is removed, whoever made it
Imported(j) ==
    /\ j.kind = "import"
    /\ \/ /\ ~j.fails /\ j.branch \notin mem.branches
          /\ mem' = [mem EXCEPT !.branches = @ \cup {j.branch}]
          /\ \/ SaveBranches(TRUE) /\ \E t \in Tree : dir' = [dir EXCEPT ![j.branch] = t]
             \/ SaveBranches(FALSE) /\ dir' = [dir EXCEPT ![j.branch] = None]
       \/ /\ dir' = [dir EXCEPT ![j.branch] = None]
          /\ UNCHANGED <<mem, saved, faults>>
    /\ Disturbed(j.branch, None)
    /\ End(j)
    /\ UNCHANGED <<active, snap, ws, edits, begun, before, crossed>>

\* versioncon.deleteBranch: not main, nor the active branch unless that cannot be read;
\* its directory first
DeleteBranch(b) ==
    /\ b \in mem.branches \ {Main}
    /\ FaultyIf(b = active)
    /\ Begin([kind |-> "delete", branch |-> b])
    /\ dir' = [dir EXCEPT ![b] = None]
    /\ Disturbed(b, None)
    /\ UNCHANGED <<active, saved, snap, ws, mem, edits, before, crossed>>

Deleted(j) ==
    /\ j.kind = "delete"
    /\ mem' = [mem EXCEPT !.branches = @ \ {j.branch}]
    /\ \E ok \in BOOLEAN : SaveBranches(ok)
    /\ End(j)
    /\ UNCHANGED <<dir, active, snap, ws, edits, begun, ghosts>>

-----------------------------------------------------------------------------
\* The window is closed and opened again; a write that was under way has failed before
Restart ==
    /\ Faulty
    /\ \E b, name \in ActiveRead :
          /\ mem' = Loaded(saved.branches, saved.history, b, name)
          /\ crossed' = (crossed \/ b # name)
    /\ jobs' = {}
    /\ UNCHANGED <<disk, ws, edits, begun, before, alone>>

Step(j) ==
    \/ \E p \in Path :
          ReadFile(j, p) \/ RevertFile(j, p) \/ SkipFile(j, p) \/ CopyAcross(j, p)
    \/ \E x \in Push : BeginPush(j, x)
    \/ Fail(j) \/ WriteFails(j) \/ HistoryFails(j)
    \/ CopyFile(j) \/ AddRecord(j) \/ BeginWrite(j) \/ Saved(j) \/ MarkReverted(j)
    \/ ShowBranch(j) \/ Copied(j) \/ Imported(j) \/ Deleted(j)

Next ==
    \/ \E p \in Path : Edit(p) \/ AddNewFile(p) \/ AddToWorkspace(p) \/ Pull(p) \/ Stage(p)
    \/ AskPush \/ \E x \in Push : BeginRevert(x)
    \/ \E b \in Branch : SwitchBranch(b) \/ CreateBranch(b) \/ ImportBranch(b) \/ DeleteBranch(b)
    \/ \E a, b \in Branch : MergeBranch(a, b)
    \/ \E j \in jobs : Step(j)
    \/ Restart

Spec == Init /\ [][Next]_vars

-----------------------------------------------------------------------------
(* Properties *)

\* A push that some history lists, in memory or on disk, can be undone: its snapshots are
\* the text of what the branch held before it, whatever ran at the same time (but for
\* another writer of the branch), whatever failed half-way and wherever the window was
\* closed.  Not so a file whose reading was rejected: it counts as new.
Undoable(history) ==
    \A x \in alone : history[x] # None =>
       \A p \in Path \ history[x].misread : history[x].files[p] # None =>
          /\ snap[x][p] = Decoded(before[x].tree[p])
          /\ history[x].files[p] = "added" => snap[x][p] = None

ListedPushesUndoable == Undoable(mem.history) /\ Undoable(saved.history)

\* The branch a record names is the branch the push wrote to, though the user may
\* switch branches while it is asked for and while it runs, as long as no two switches
\* have overlapped (each of them reads back the active-branch file that either may have
\* written) and the file could be read.
RecordsNameTheirBranch ==
    ~crossed => \A x \in Push : \A h \in {mem.history, saved.history} :
                   h[x] # None => h[x].branch = h[x].dir

\* The file is as push x found it; of a file the push touched, only its text
Undone(x, p, c) ==
    c = IF mem.history[x].files[p] = None THEN before[x].tree[p]
        ELSE Decoded(before[x].tree[p])

Finished(j) == j.kind = "revert" /\ j.full /\ j.todo = {} /\ j.id \in alone

\* The files that a revert restores if it can
Kept(j) == Path \ (mem.history[j.id].misread \cup j.missed)

\* Reverting a push as a whole leaves the branch as the push found it, if nobody else
\* has written to it, through failed and repeated reverts and crashes, and if the branch
\* is still the one shown: the files it skips, those the push took for new ones, and the
\* bytes that are not utf-8 apart.
RevertRestores ==
    \A j \in jobs : Finished(j) /\ j.dir = before[j.id].branch =>
       \A p \in Kept(j) : Undone(j.id, p, At(j.dir, p))

-----------------------------------------------------------------------------
(* What the repository says and the code does not keep (README, section 6) *)

\* "Files will be restored to their pre-push state" (extension.ts, revertPush): also when
\* another branch is shown by then.
RevertRestoresItsBranch ==
    \A j \in jobs : Finished(j) =>
       \A p \in Kept(j) : Undone(j.id, p, At(before[j.id].branch, p))
===============================================================================
