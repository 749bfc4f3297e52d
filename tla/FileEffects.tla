----------------------------- MODULE FileEffects -----------------------------
(***************************************************************************)
(* The file-system side of one Application (mutation/application.rs): the  *)
(* staging of backups and texts, the commit of the planned operations      *)
(* system call by system call under persisted evidence                     *)
(* (commit-progress.json), the rollback by that evidence, and the clean-up *)
(* of the artifact directory.  A crash or a failing call may come at any   *)
(* step, and a stranger, an editor say, writes to the Workspace between    *)
(* any two.                                                                *)
(*                                                                         *)
(* WorkspaceTransaction has an operation as one step and says who may run  *)
(* it; this module says what becomes of the files.                         *)
(*                                                                         *)
(* The undo slot of operation i, undo-<i> in the artifact directory, is a  *)
(* path of its own.  A digest stands for the content it is taken of.       *)
(***************************************************************************)
EXTENDS FileTree

CONSTANTS
    Plans,          \* sequence of [disk, operations]: plans and the disk they are for
    UndoName,       \* sequence: the name of the undo slot of each operation
    NoDigest, NoManifest, NoMove,
    MaxWrites,      \* bound: writes of strangers
    MaxCrashes,     \* bound: crashes
    MaxFaults       \* bound: system calls that fail

VARIABLES
    plan,           \* which of the plans is under way
    tree,           \* the files
    backup,         \* the files as staging copied them
    progress,       \* commit-progress.json: the effects, with an after once proven
    expected,       \* in memory: the manifest the files are required to have
    at,             \* the step the process is at
    number,         \* the operation it is at
    handle,         \* the open file and the text on its way into it
    move,           \* the leg of a rollback rename
    writes, crashes, faults,
    raced,          \* history: a stranger wrote between a check and the call it was for
    interrupted     \* history: a rollback failed in its checks or was stopped in the middle

vars == <<plan, tree, backup, progress, expected, at, number, handle, move,
          writes, crashes, faults, raced, interrupted>>

disk == Plans[plan].disk
operations == Plans[plan].operations
Operation == operations[number]

Undo(i) == <<UndoName[i]>>

UndoPaths == {p \in Paths : \E i \in DOMAIN UndoName : Under(p, Undo(i))}

NoHandle == [id |-> NoId, text |-> <<>>]

-----------------------------------------------------------------------------
(* Manifests                                                               *)

MissingEntry == [kind |-> "missing", id |-> NoId, digest |-> NoDigest]

Members(children) == <<"members", children>>

Certified(entry) == entry.kind = "directory" /\ entry.digest # NoDigest

(* What the inspection of one path yields; the members of a directory are  *)
(* read only when its expected entry is certified.                         *)
Entry(t, path, certified) ==
    [kind |-> t[path].kind, id |-> t[path].id,
     digest |-> CASE t[path].kind = "file" -> t[path].text
                  [] t[path].kind = "missing" -> NoDigest
                  [] OTHER -> IF certified
                              THEN Members({<<Last(q), t[q].kind>> : q \in ChildrenOf(t, path)})
                              ELSE NoDigest]

(* A path below a regular file cannot be inspected: lstat fails with       *)
(* ENOTDIR, which validate_existing_ancestors does not take for missing.   *)
Inspectable(paths) ==
    \A p \in paths, q \in Paths : Below(p, q) => tree[q].kind # "file"

(* Mutant: files compared by identity only. *)
HoldsByIdentity(manifest) ==
    /\ Inspectable(DOMAIN manifest)
    /\ \A p \in DOMAIN manifest : tree[p].kind = manifest[p].kind /\ tree[p].id = manifest[p].id

(* require_manifest *)
Holds(manifest) ==
    /\ Inspectable(DOMAIN manifest)
    /\ \A p \in DOMAIN manifest : Entry(tree, p, Certified(manifest[p])) = manifest[p]

(* The tree after the first n operations of the plan. *)
StepTree(t, o) ==
    CASE o.kind = "text"   -> TextTree(t, o.path, o.after)
      [] o.kind = "create" -> CreateTree(t, o.path)
      [] o.kind = "rename" -> RenameTree(t, o.path, o.new)
      [] o.kind = "delete" -> DeleteTree(t, o.path)

OutcomeOf ==
    [k \in DOMAIN Plans |->
        LET after[n \in 0..Len(Plans[k].operations)] ==
                IF n = 0 THEN Plans[k].disk ELSE StepTree(after[n - 1], Plans[k].operations[n])
        IN  after]

Outcome(n) == OutcomeOf[plan][n]

(* The paths of the before-manifest: what an operation names, and the tree *)
(* that it moves, replaces or removes, at both ends.                       *)
TouchedBy(o, t) ==
    LET below(root) == {p \in Paths : Below(p, root) /\ Exists(t, p)}
    IN  CASE o.kind \in {"text", "create"} -> {o.path}
          [] o.kind = "delete" -> {o.path} \cup below(o.path)
          [] o.kind = "rename" ->
                {o.path, o.new} \cup below(o.path) \cup below(o.new)
                    \cup {Rebase(p, o.path, o.new) : p \in below(o.path)}

TouchedOf ==
    [k \in DOMAIN Plans |->
        UNION {TouchedBy(Plans[k].operations[i], OutcomeOf[k][i - 1]) : i \in DOMAIN Plans[k].operations}]

Touched == TouchedOf[plan]

(* Directories that an operation moves or removes are certified. *)
MovesTree(o, path) ==
    \/ o.kind = "rename" /\ Under(path, o.path)
    \/ o.kind = "rename" /\ o.overwrite /\ Under(path, o.new)
    \/ o.kind = "delete" /\ Under(path, o.path)

(* initial_progress_manifest *)
ManifestOf ==
    [k \in DOMAIN Plans |-> [p \in TouchedOf[k] |->
        Entry(Plans[k].disk, p, \E i \in DOMAIN Plans[k].operations : MovesTree(Plans[k].operations[i], p))]]

InitialManifest == ManifestOf[plan]

(* manifest_mismatches against the before-manifest: what it leaves open is *)
(* not compared.                                                           *)
BeforeHolds ==
    \A p \in Touched :
        LET before == InitialManifest[p]  now == Entry(tree, p, Certified(before))
        IN  /\ now.kind = before.kind
            /\ before.id # NoId => now.id = before.id
            /\ before.digest # NoDigest => now.digest = before.digest

(* add_undo_manifest: the slot of an operation that moves something aside. *)
AsideRoot(o) == IF o.kind = "rename" THEN o.new ELSE o.path

WithUndo(manifest, i) ==
    LET o == operations[i]
        slots == IF o.kind \in {"rename", "delete"}
                 THEN {Rebase(p, AsideRoot(o), Undo(i)) : p \in {q \in DOMAIN manifest : Under(q, AsideRoot(o))}}
                 ELSE {}
    IN  [p \in DOMAIN manifest \cup slots |-> IF p \in slots THEN MissingEntry ELSE manifest[p]]

(* transfer_manifest *)
CanTransfer(manifest, from) ==
    LET moved == {p \in DOMAIN manifest : Under(p, from) /\ manifest[p].kind # "missing"}
    IN  moved # {} /\ \A p \in moved : manifest[p].kind = "directory" => Certified(manifest[p])

Transfer(manifest, from, to) ==
    LET moved == {p \in DOMAIN manifest : Under(p, from) /\ manifest[p].kind # "missing"}
        targets == {Rebase(p, from, to) : p \in moved}
    IN  [p \in DOMAIN manifest \cup targets |->
            IF p \in targets THEN manifest[Rebase(p, to, from)]
            ELSE IF p \in moved THEN MissingEntry ELSE manifest[p]]

(* refresh_membership: certificates follow the entries. *)
Refreshed(manifest) ==
    [p \in DOMAIN manifest |->
        IF Certified(manifest[p])
        THEN [manifest[p] EXCEPT !.digest = Members({<<Last(q), manifest[q].kind>> :
                q \in {c \in DOMAIN manifest : c # <<>> /\ Parent(c) = p /\ manifest[c].kind # "missing"}})]
        ELSE manifest[p]]

(* operation_after: the manifest the operation must leave behind, given    *)
(* the one before it and the handle it wrote through.  A file it created   *)
(* is taken over from the observation.  An operation may ignore that its   *)
(* target is in the way, or is not there; then nothing is to change.       *)
CreatedEntry(path) == [kind |-> "file", id |-> handle.id, digest |-> <<>>]

Ignored(manifest, o) == IF o.ignore THEN manifest ELSE NoManifest

AfterCreate(manifest, o) ==
    IF manifest[o.path].kind = "missing"
    THEN IF tree[o.path].kind = "file" /\ handle.id # NoId /\ Entry(tree, o.path, FALSE) = CreatedEntry(o.path)
         THEN [manifest EXCEPT ![o.path] = CreatedEntry(o.path)] ELSE NoManifest
    ELSE IF ~o.overwrite THEN Ignored(manifest, o)
    ELSE IF manifest[o.path].id # handle.id THEN NoManifest
    ELSE [manifest EXCEPT ![o.path].digest = <<>>]

AfterText(manifest, o) ==
    IF manifest[o.path].digest = o.before /\ manifest[o.path].id = handle.id
    THEN [manifest EXCEPT ![o.path].digest = o.after] ELSE NoManifest

AfterMove(manifest, from, to) ==
    IF manifest = NoManifest THEN NoManifest
    ELSE IF CanTransfer(manifest, from) THEN Transfer(manifest, from, to) ELSE NoManifest

AfterRename(manifest, o, i) ==
    IF manifest[o.new].kind = "missing" THEN AfterMove(manifest, o.path, o.new)
    ELSE IF ~o.overwrite THEN Ignored(manifest, o)
    ELSE AfterMove(AfterMove(manifest, o.new, Undo(i)), o.path, o.new)

AfterDelete(manifest, o, i) ==
    IF manifest[o.path].kind = "missing" THEN Ignored(manifest, o)
    ELSE AfterMove(manifest, o.path, Undo(i))

OperationAfter(manifest, i) ==
    LET o == operations[i]
        after == CASE o.kind = "text"   -> AfterText(manifest, o)
                   [] o.kind = "create" -> AfterCreate(manifest, o)
                   [] o.kind = "rename" -> AfterRename(manifest, o, i)
                   [] o.kind = "delete" -> AfterDelete(manifest, o, i)
    IN  IF after = NoManifest THEN NoManifest ELSE Refreshed(after)

-----------------------------------------------------------------------------
(* System calls                                                            *)

(* rename(2): an existing file or empty directory at the new name is       *)
(* replaced without a word.                                                *)
RenameWorks(from, to) ==
    /\ Exists(tree, from)
    /\ IsDirectory(tree, Parent(to))
    /\ Exists(tree, to) => /\ tree[to].kind = tree[from].kind
                           /\ ChildrenOf(tree, to) = {}

(* A write goes to the open file, wherever its name is by now. *)
Overwritten(id, text) ==
    [p \in Paths |-> IF tree[p].kind = "file" /\ tree[p].id = id
                     THEN [tree[p] EXCEPT !.text = text] ELSE tree[p]]

(* The identity of the file that operation i creates. *)
CreatedId(i) == <<"created", UndoName[i]>>

GoTo(step) == at' = step

(* The steps of the process leave what strangers, crashes and faults count.*)
Keep == UNCHANGED <<plan, writes, crashes, faults, raced, interrupted>>

(* The commit fails and the same process rolls back what it did. *)
Abort == GoTo("undo") /\ handle' = NoHandle /\ UNCHANGED <<tree, progress, expected, number, move, backup>>

(* The files are not what the operation needs: it fails, unless it ignores *)
(* that, in which case it ends with the files as they are.                 *)
Unfit(o, ignored) ==
    IF o.ignore /\ ignored
    THEN GoTo("prove") /\ handle' = NoHandle /\ UNCHANGED <<tree, backup, progress, expected, number, move>>
    ELSE Abort

-----------------------------------------------------------------------------
(* Staging                                                                 *)

(* planned_backups: the topmost existing paths are copied whole. *)
BackupRoots ==
    LET present == {p \in Touched : Exists(disk, p)}
    IN  {p \in present : ~\E q \in present : Below(p, q)}

(* The text operations whose input still lies on the disk. *)
ReadsDisk(i, p) ==
    LET id == Outcome(i - 1)[operations[i].path].id IN
    /\ operations[i].kind = "text" /\ disk[p].id = id
    /\ ~\E k \in 1..i - 1 : /\ operations[k].kind \in {"text", "create"}
                            /\ Outcome(k - 1)[operations[k].path].id = id

Stage ==
    LET copied == \A p \in BackupRoots : Exists(tree, p)
        inputs == \A i \in DOMAIN operations, p \in Touched :
                      ReadsDisk(i, p) => tree[p].kind = "file" /\ tree[p].text = operations[i].before
    IN  /\ at = "stage" /\ Keep
        /\ IF copied /\ inputs
           THEN backup' = [p \in Touched |-> tree[p].text] /\ GoTo("check")
           ELSE GoTo("abandoned") /\ UNCHANGED backup
        /\ UNCHANGED <<tree, progress, expected, number, handle, move>>

-----------------------------------------------------------------------------
(* commit_operations                                                       *)

(* Mutant: an intent that is not written down. *)
IntendedInMemory(manifest) == progress

(* CommitProgress: an effect is recorded before it is tried, and again     *)
(* once it is proven.                                                      *)
Intended(manifest) == Append(progress, [before |-> manifest, after |-> NoManifest])

Proven(after) == [progress EXCEPT ![number].after = after]

(* The manifest is required and the intent made durable. *)
Check ==
    LET manifest == WithUndo(expected, number) IN
    /\ at = "check" /\ Keep
    /\ \/ /\ Holds(manifest)
          /\ expected' = manifest
          /\ progress' = Intended(manifest)
          /\ GoTo("retain") /\ UNCHANGED <<tree, backup, number, handle, move>>
       \/ ~Holds(manifest) /\ Abort

(* retain_effect_handles: what is about to be moved is opened and compared.*)
Retain ==
    LET o == Operation
        moved == CASE o.kind = "rename" -> {o.path, o.new}
                   [] o.kind = "delete" -> {o.path}
                   [] OTHER -> {}
        same == \A p \in moved : expected[p].kind # "missing" => tree[p].id = expected[p].id
    IN  /\ at = "retain" /\ Keep
        /\ IF same THEN GoTo("act") /\ UNCHANGED <<tree, backup, progress, expected, number, handle, move>>
           ELSE Abort

(* apply_text_operation up to the truncation *)
OpenText ==
    LET o == Operation  file == tree[o.path] IN
    /\ at = "act" /\ o.kind = "text" /\ Keep
    /\ IF file.kind = "file" /\ file.text = o.before /\ file.id = expected[o.path].id
       THEN /\ handle' = [id |-> file.id, text |-> o.after] /\ GoTo("truncate")
            /\ UNCHANGED <<tree, backup, progress, expected, number, move>>
       ELSE Abort

(* apply_create_operation: an existing target is opened to be truncated,   *)
(* ignored, or in the way; a missing one is created.                       *)
Create ==
    LET o == Operation  there == Exists(tree, o.path) IN
    /\ at = "act" /\ o.kind = "create" /\ Keep
    /\ \/ /\ there /\ o.overwrite
          /\ tree[o.path].kind = "file" /\ tree[o.path].id = expected[o.path].id
          /\ handle' = [id |-> tree[o.path].id, text |-> <<>>] /\ GoTo("truncate")
          /\ UNCHANGED <<tree, backup, progress, expected, number, move>>
       \/ /\ ~there /\ IsDirectory(tree, Parent(o.path))
          /\ tree' = [tree EXCEPT ![o.path] = [NewFile EXCEPT !.id = CreatedId(number)]]
          /\ handle' = [id |-> CreatedId(number), text |-> <<>>] /\ GoTo("prove")
          /\ UNCHANGED <<backup, progress, expected, number, move>>
       \/ /\ there
          /\ ~(o.overwrite /\ tree[o.path].kind = "file" /\ tree[o.path].id = expected[o.path].id)
          /\ Unfit(o, ~o.overwrite)
       \/ ~there /\ ~IsDirectory(tree, Parent(o.path)) /\ Abort

(* set_len(0), by the commit and by the rollback *)
Truncate ==
    /\ at \in {"truncate", "undo_truncate"} /\ Keep
    /\ tree' = Overwritten(handle.id, <<>>)
    /\ GoTo(IF at = "undo_truncate" THEN "undo_write" ELSE IF Operation.kind = "text" THEN "write" ELSE "prove")
    /\ UNCHANGED <<backup, progress, expected, number, handle, move>>

Write ==
    /\ at \in {"write", "undo_write"} /\ Keep
    /\ tree' = Overwritten(handle.id, handle.text)
    /\ GoTo(IF at = "write" THEN "prove" ELSE "undo_verify")
    /\ UNCHANGED <<backup, progress, expected, number, handle, move>>

(* apply_rename_operation: what is at the new name is moved to the undo    *)
(* slot, ignored, or in the way.                                           *)
MoveAside ==
    LET o == Operation IN
    /\ at = "act" /\ o.kind = "rename" /\ Keep
    /\ \/ /\ Exists(tree, o.new) /\ o.overwrite /\ RenameWorks(o.new, Undo(number))
          /\ tree' = RenameTree(tree, o.new, Undo(number)) /\ GoTo("rename")
          /\ UNCHANGED <<backup, progress, expected, number, handle, move>>
       \/ /\ ~Exists(tree, o.new) /\ GoTo("rename")
          /\ UNCHANGED <<tree, backup, progress, expected, number, handle, move>>
       \/ Exists(tree, o.new) /\ ~o.overwrite /\ Unfit(o, TRUE)

Rename ==
    LET o == Operation IN
    /\ at = "rename" /\ Keep
    /\ IF RenameWorks(o.path, o.new)
       THEN /\ tree' = RenameTree(tree, o.path, o.new) /\ GoTo("prove")
            /\ UNCHANGED <<backup, progress, expected, number, handle, move>>
       ELSE Abort

(* apply_delete_operation *)
Delete ==
    LET o == Operation
        goes == Exists(tree, o.path) /\ (o.recursive \/ ChildrenOf(tree, o.path) = {})
    IN  /\ at = "act" /\ o.kind = "delete" /\ Keep
        /\ IF goes
           THEN /\ tree' = RenameTree(tree, o.path, Undo(number)) /\ GoTo("prove")
                /\ UNCHANGED <<backup, progress, expected, number, handle, move>>
           ELSE Unfit(o, ~Exists(tree, o.path))

(* The result is observed, compared with what the operation must leave,    *)
(* and recorded as proven.                                                 *)
Prove ==
    LET after == OperationAfter(expected, number)
        seen == Inspectable(DOMAIN expected) /\ after # NoManifest /\ Holds(after)
        last == number = Len(operations)
    IN  /\ at = "prove" /\ Keep
        /\ \/ /\ seen
              /\ expected' = after
              /\ progress' = Proven(after)
              /\ number' = IF last THEN number ELSE number + 1
              /\ GoTo(IF last THEN "committed" ELSE "check")
              /\ handle' = NoHandle /\ UNCHANGED <<tree, backup, move>>
           \/ ~seen /\ Abort

-----------------------------------------------------------------------------
(* rollback_transaction                                                    *)

Pending == \E i \in DOMAIN progress : progress[i].after = NoManifest

(* rollback_text_bytes: content that proves an intermediate text: the      *)
(* backup of the same file with the same content, the empty text, or the   *)
(* staged output of some operation.                                        *)
TextKnown(entry) ==
    LET originals == {p \in Touched : /\ InitialManifest[p].kind = "file"
                                      /\ InitialManifest[p].id = entry.id
                                      /\ InitialManifest[p].digest = entry.digest}
    IN  IF originals # {} THEN \A p \in originals : backup[p] = entry.digest
        ELSE \/ entry.digest = <<>>
             \/ \E i \in DOMAIN operations : operations[i].kind = "text" /\ operations[i].after = entry.digest

(* The preflight walks the evidence back without touching a file. *)
UndoChain ==
    /\ \A i \in DOMAIN progress :
        LET o == operations[i]  before == progress[i].before
        IN  /\ o.kind \in {"text", "create"} /\ before[o.path].kind # "missing" => TextKnown(before[o.path])
            /\ i > 1 => Restrict(before, DOMAIN progress[i - 1].after) = progress[i - 1].after
    /\ \A p \in Touched : progress[1].before[p] = InitialManifest[p]

(* Files that are as they were need no rollback; otherwise every recorded  *)
(* effect must be proven and the last one still be there.                  *)
Preflight ==
    LET readable == Inspectable(Touched)
        ready == /\ readable /\ progress # <<>> /\ ~Pending
                 /\ Holds(progress[Len(progress)].after)
                 /\ UndoChain
    IN  /\ at = "undo" /\ Keep
        /\ \/ readable /\ BeforeHolds /\ GoTo("restored") /\ UNCHANGED number
           \/ ~(readable /\ BeforeHolds) /\ ready /\ GoTo("reverse") /\ number' = Len(progress)
           \/ ~(readable /\ BeforeHolds) /\ ~ready /\ GoTo("refused") /\ UNCHANGED number
        /\ UNCHANGED <<tree, backup, progress, expected, handle, move>>

Effect == progress[number]

(* The undo of one operation, once its after-manifest is found again.  The *)
(* planner emits no rename or delete that is ignored: each has an effect.  *)
ReverseText(o) ==
    LET before == Effect.before[o.path]  after == Effect.after[o.path]
    IN  \/ /\ before = after /\ GoTo("reverse") /\ number' = number - 1 /\ UNCHANGED <<handle, move>>
        \/ /\ before # after /\ before.kind # "missing" /\ TextKnown(before)
           /\ handle' = [id |-> after.id, text |-> before.digest] /\ GoTo("undo_truncate")
           /\ UNCHANGED <<number, move>>
        \/ before # after /\ before.kind = "missing" /\ GoTo("undo_remove") /\ UNCHANGED <<number, handle, move>>

ReverseMove(o) ==
    LET set_aside == Effect.after[Undo(number)].kind # "missing"
        start(from, to) == move' = [from |-> from, to |-> to] /\ GoTo("leg") /\ UNCHANGED <<number, handle>>
    IN  \/ o.kind = "rename" /\ Effect.before # Effect.after /\ start(o.new, o.path)
        \/ o.kind = "delete" /\ set_aside /\ start(Undo(number), o.path)

ReverseEffect ==
    /\ at = "reverse" /\ number > 0 /\ Keep
    /\ \/ Holds(Effect.after) /\ Operation.kind \in {"text", "create"} /\ ReverseText(Operation)
       \/ Holds(Effect.after) /\ Operation.kind \in {"rename", "delete"} /\ ReverseMove(Operation)
       \/ ~Holds(Effect.after) /\ GoTo("refused") /\ UNCHANGED <<number, handle, move>>
    /\ UNCHANGED <<tree, backup, progress, expected>>

(* remove_capability_resource: whatever has the name of the created file. *)
RemoveCreated ==
    /\ at = "undo_remove" /\ Keep
    /\ IF Exists(tree, Operation.path)
       THEN tree' = DeleteTree(tree, Operation.path) /\ GoTo("undo_verify")
       ELSE GoTo("refused") /\ UNCHANGED tree
    /\ UNCHANGED <<backup, progress, expected, number, handle, move>>

(* Mutant: each leg checked at its source only. *)
LegProofOfSource ==
    [p \in {q \in DOMAIN progress[number].after : Under(q, move.from)} |-> progress[number].after[p]]

(* rename_capability_resource: each leg has a check of its own. *)
LegProof ==
    [p \in {q \in DOMAIN Effect.after : Under(q, move.from)} \cup {move.to} |->
        IF p = move.to THEN MissingEntry ELSE Effect.after[p]]

CheckLeg ==
    /\ at = "leg" /\ Keep
    /\ GoTo(IF Holds(LegProof) THEN "leg_rename" ELSE "refused")
    /\ UNCHANGED <<tree, backup, progress, expected, number, handle, move>>

RenameLeg ==
    LET second == /\ Operation.kind = "rename" /\ move.to = Operation.path
                  /\ Effect.after[Undo(number)].kind # "missing"
    IN  /\ at = "leg_rename" /\ Keep
        /\ \/ /\ RenameWorks(move.from, move.to)
              /\ tree' = RenameTree(tree, move.from, move.to)
              /\ IF second
                 THEN move' = [from |-> Undo(number), to |-> Operation.new] /\ GoTo("leg")
                 ELSE move' = NoMove /\ GoTo("undo_verify")
           \/ ~RenameWorks(move.from, move.to) /\ GoTo("refused") /\ UNCHANGED <<tree, move>>
        /\ UNCHANGED <<backup, progress, expected, number, handle>>

Verify ==
    /\ at = "undo_verify" /\ Keep
    /\ IF Holds(Effect.before) THEN GoTo("reverse") /\ number' = number - 1
       ELSE GoTo("refused") /\ UNCHANGED number
    /\ handle' = NoHandle /\ UNCHANGED <<tree, backup, progress, expected, move>>

FinishUndo ==
    /\ at = "reverse" /\ number = 0 /\ Keep
    /\ GoTo(IF Inspectable(Touched) /\ BeforeHolds THEN "restored" ELSE "refused")
    /\ UNCHANGED <<tree, backup, progress, expected, number, handle, move>>

-----------------------------------------------------------------------------
(* Recovery, clean-up and what happens around the process                  *)

(* A later process, asked to roll back, reads the evidence again; asked to *)
(* accept the files as they are, it must be able to inspect them.          *)
Recover ==
    /\ at \in {"crashed", "refused"} /\ Keep
    /\ \/ GoTo("undo")
       \/ Inspectable(Touched) /\ GoTo("accepted")
    /\ handle' = NoHandle /\ move' = NoMove
    /\ UNCHANGED <<tree, backup, progress, expected, number>>

Cleanup ==
    /\ at \in {"committed", "restored", "accepted"} /\ Keep
    /\ tree' = [p \in Paths |-> IF p \in UndoPaths THEN MissingNode ELSE tree[p]]
    /\ GoTo(IF at = "accepted" THEN "accepted_clean" ELSE "clean")
    /\ UNCHANGED <<backup, progress, expected, number, handle, move>>

Committing == {"check", "retain", "act", "truncate", "write", "rename", "prove"}
Undoing == {"reverse", "undo_truncate", "undo_write", "undo_remove", "leg", "leg_rename", "undo_verify"}

Crash ==
    /\ crashes < MaxCrashes /\ at \in Committing \cup Undoing \cup {"undo"}
    /\ crashes' = crashes + 1 /\ GoTo("crashed")
    /\ interrupted' = (interrupted \/ at \in Undoing)
    /\ handle' = NoHandle /\ move' = NoMove
    /\ UNCHANGED <<plan, tree, backup, progress, expected, number, writes, faults, raced>>

(* A call fails without effect, or a record is written although the call   *)
(* reports that it was not.                                                *)
Fault ==
    /\ faults < MaxFaults /\ at \in Committing \cup Undoing \cup {"undo"}
    /\ faults' = faults + 1 /\ handle' = NoHandle
    /\ GoTo(IF at \in Committing THEN "undo" ELSE "refused")
    /\ interrupted' = (interrupted \/ at \notin Committing)
    /\ \/ UNCHANGED progress
       \/ /\ at = "check" /\ Holds(WithUndo(expected, number))
          /\ progress' = Intended(WithUndo(expected, number))
       \/ /\ at = "prove" /\ OperationAfter(expected, number) # NoManifest
          /\ Holds(OperationAfter(expected, number))
          /\ progress' = Proven(OperationAfter(expected, number))
    /\ UNCHANGED <<plan, tree, backup, expected, number, move, writes, crashes, raced>>

Foreign == <<"foreign">>

(* Between these steps and the check before them the content is not looked *)
(* at again; an overwriting create compares the identity only.             *)
Unchecked ==
    \/ at \in {"truncate", "write", "rename", "undo_truncate", "undo_write", "undo_remove", "leg_rename"}
    \/ at \in {"retain", "act"} /\ Operation.kind = "create"

(* A stranger saves a file in place, replaces it, creates one, or removes  *)
(* a file or an empty directory.                                           *)
Stranger ==
    /\ writes < MaxWrites /\ at \notin {"abandoned", "accepted", "clean", "accepted_clean"}
    /\ writes' = writes + 1 /\ raced' = (raced \/ Unchecked)
    /\ \E p \in Paths \ UndoPaths :
        \/ tree[p].kind = "file" /\ tree' = [tree EXCEPT ![p].text = Foreign]
        \/ tree[p].kind = "file" /\ tree' = [tree EXCEPT ![p] = [NewFile EXCEPT !.id = Foreign, !.text = Foreign]]
        \/ /\ ~Exists(tree, p) /\ IsDirectory(tree, Parent(p))
           /\ tree' = [tree EXCEPT ![p] = [NewFile EXCEPT !.id = Foreign, !.text = Foreign]]
        \/ Exists(tree, p) /\ ChildrenOf(tree, p) = {} /\ tree' = [tree EXCEPT ![p] = MissingNode]
    /\ UNCHANGED <<plan, backup, progress, expected, at, number, handle, move, crashes, faults, interrupted>>

Init ==
    /\ plan \in DOMAIN Plans
    /\ tree = disk /\ backup = <<>> /\ progress = <<>>
    /\ expected = InitialManifest
    /\ at = "stage" /\ number = 1 /\ handle = NoHandle /\ move = NoMove
    /\ writes = 0 /\ crashes = 0 /\ faults = 0 /\ raced = FALSE /\ interrupted = FALSE

Next ==
    \/ Stage \/ Check \/ Retain
    \/ OpenText \/ Create \/ Truncate \/ Write \/ MoveAside \/ Rename \/ Delete \/ Prove
    \/ Preflight \/ ReverseEffect \/ RemoveCreated \/ CheckLeg \/ RenameLeg \/ Verify \/ FinishUndo
    \/ Recover \/ Cleanup
    \/ Crash \/ Fault \/ Stranger

Spec == Init /\ [][Next]_vars

-----------------------------------------------------------------------------
(* Which plans these are: those the edit planner hands over, each legal on *)
(* the tree it meets and with every path inspected (EmitsOnlyLegal and     *)
(* PlanIsExact of EditPlanner), for a disk no transaction has touched yet. *)

Kinds == {"missing", "file", "directory"}

TextsOf(operationsOf) == {operationsOf[i].after : i \in {j \in DOMAIN operationsOf : operationsOf[j].kind = "text"}}

Texts ==
    {<<>>, Foreign} \cup {Plans[k].disk[p].text : k \in DOMAIN Plans, p \in Paths}
        \cup UNION {TextsOf(Plans[k].operations) : k \in DOMAIN Plans}

NewIds == {CreatedId(i) : i \in DOMAIN UndoName}

Identities == {NoId, Foreign} \cup NewIds \cup {Plans[k].disk[p].id : k \in DOMAIN Plans, p \in Paths}

Trees == [Paths -> [kind : Kinds, id : Identities, text : Texts]]

DiskFits(d) ==
    /\ d \in Trees /\ WellFormedTree(d)
    /\ \A p \in Paths :
        /\ Exists(d, p) => p \notin UndoPaths /\ d[p].id \notin {NoId, Foreign} \cup NewIds
        /\ d[p].kind = "missing" => d[p] = MissingNode
        /\ d[p].kind = "directory" => d[p].text = <<>>
        /\ d[p].text # Foreign
    /\ \A p, q \in Paths : Exists(d, p) /\ d[p].id = d[q].id => p = q

(* The universe of paths goes as deep below the one name as below the other.*)
SameBelow(a, b) ==
    \A p \in Paths : /\ Under(p, a) => Rebase(p, a, b) \in Paths
                     /\ Under(p, b) => Rebase(p, b, a) \in Paths

MovesWithin(t, from, to) == t[from].kind = "directory" => SameBelow(from, to)

OperationFits(o, i, t) ==
    /\ o.path \in Paths \ UndoPaths
    /\ \/ o.kind = "text" /\ t[o.path].kind = "file" /\ t[o.path].text = o.before /\ o.after # Foreign
       \/ o.kind = "create" /\ CreateRefusal(t, o.path, o.overwrite) = "none"
       \/ /\ o.kind = "rename" /\ o.new \in Paths \ UndoPaths
          /\ RenameRefusal(t, o.path, o.new, o.overwrite) = "none"
          /\ MovesWithin(t, o.path, o.new) /\ MovesWithin(t, o.new, Undo(i))
       \/ /\ o.kind = "delete" /\ DeleteRefusal(t, o.path, o.recursive) = "none"
          /\ MovesWithin(t, o.path, Undo(i))

\* Nor do the undo slots end before what they are to take.
HasSlots(o, i, paths) ==
    \A p \in paths : o.kind \in {"rename", "delete"} /\ Under(p, AsideRoot(o)) => Rebase(p, AsideRoot(o), Undo(i)) \in Paths

PlanFits(k) ==
    LET s == Plans[k] IN
    /\ DiskFits(s.disk)
    /\ s.operations \in Seq({s.operations[i] : i \in DOMAIN s.operations})
    /\ Len(s.operations) \in 1..Len(UndoName)
    /\ \A i \in DOMAIN s.operations : OperationFits(s.operations[i], i, OutcomeOf[k][i - 1])
    /\ \A p \in TouchedOf[k], q \in Paths : Below(p, q) => s.disk[q].kind # "file"
    /\ \A i \in DOMAIN s.operations : HasSlots(s.operations[i], i, TouchedOf[k])

ASSUME PlansAssumption == \A k \in DOMAIN Plans : PlanFits(k)

ASSUME UndoAssumption ==
    /\ UndoName \in Seq(Names)
    /\ \A i \in DOMAIN UndoName : Undo(i) \in Paths
    /\ \A i, j \in DOMAIN UndoName : UndoName[i] = UndoName[j] => i = j

ASSUME NullsAssumption ==
    /\ NoId \notin {Foreign} \cup NewIds /\ NoDigest \notin Texts
    /\ \A s \in SUBSET (Names \X (Kinds \ {"missing"})) : NoDigest # Members(s)

(* What an operation moves to its undo slot was on the disk from the       *)
(* start.  Otherwise a file the plan itself created, or one that a         *)
(* stranger put at a name the plan takes for free, can lie in the slot     *)
(* while every path of the before-manifest is as it was: the rollback then *)
(* reports the files as restored, without a look at the slots              *)
(* (application.rs, rollback_transaction, its first return).               *)
SetsAside(o) == o.kind = "delete" \/ (o.kind = "rename" /\ o.overwrite)

OriginalsAside ==
    \A i \in DOMAIN operations : SetsAside(operations[i]) => Outcome(i - 1)[AsideRoot(operations[i])].id # NoId

-----------------------------------------------------------------------------
(* Properties                                                              *)

Steps ==
    {"stage", "abandoned", "act", "retain", "undo", "restored", "refused", "crashed", "committed",
     "accepted", "clean", "accepted_clean"} \cup Committing \cup Undoing

(* Types, and the shape of the evidence: at most the last effect is        *)
(* uncertain, and the tree stays one.                                      *)
TypeOK ==
    /\ plan \in DOMAIN Plans /\ at \in Steps
    /\ WellFormedTree(tree)
    /\ number \in 0..Len(operations) /\ Len(progress) <= Len(operations)
    /\ \A i \in DOMAIN progress : progress[i].after = NoManifest => i = Len(progress)
    /\ raced \in BOOLEAN /\ interrupted \in BOOLEAN

(* The files two trees have at a path agree; the identity of a file the    *)
(* plan creates is not part of the plan.                                   *)
SameAt(t, reference, p) ==
    /\ t[p].kind = reference[p].kind /\ t[p].text = reference[p].text
    /\ reference[p].id # NoId => t[p].id = reference[p].id

(* A commit ends as done only with every touched path as performing the    *)
(* operations leaves it, identities included; a rollback ends as done only *)
(* with every touched path as it was before the plan, the same files with  *)
(* the same content, and nothing in the undo slots that the clean-up would *)
(* destroy.  Whatever strangers did before, the last proof has seen it     *)
(* (application.rs, commit_operations_with_writer, rollback_transaction).  *)
EndsAreExact ==
    [][/\ at' = "committed" /\ at # "committed" =>
           \A p \in Touched : SameAt(tree', Outcome(Len(operations)), p)
       /\ at' = "restored" /\ at # "restored" =>
           /\ \A p \in Touched : tree'[p] = disk[p]
           /\ OriginalsAside => \A p \in UndoPaths : tree'[p].kind = "missing"]_vars

(* What a stranger wrote is never lost to an Application or its rollback:  *)
(* it is still in the Workspace or in an undo slot, until somebody accepts *)
(* the files as they are.  A write between a check and the very call it    *)
(* was made for is excepted; no check can see it.                          *)
StrangerKept ==
    [][/\ \E p \in Paths : tree[p].text = Foreign
       /\ OriginalsAside /\ ~raced /\ writes' = writes /\ at # "accepted"
       => \E p \in Paths : tree'[p].text = Foreign]_vars

(* The same of every plan: "An unwritten external text change and an       *)
(* uncreated external file both survive failed Application and explicit    *)
(* Recovery attempts" (docs/plans/003-preserve-external-changes-during-    *)
(* rollback.md).  A plan that creates a file and deletes it again does not *)
(* have it, nor does a rename with overwrite onto a name that is free: a   *)
(* stranger's file at that name is moved to the slot, and the rollback of  *)
(* the interrupted operation ends at once, for every path is as it was.    *)
StrangerAlwaysKept ==
    [][/\ \E p \in Paths : tree[p].text = Foreign
       /\ ~raced /\ writes' = writes /\ at # "accepted"
       => \E p \in Paths : tree'[p].text = Foreign]_vars

(* The evidence is true and enough: before any rollback has begun, with no *)
(* stranger, the touched paths are as the proven operations leave them,    *)
(* unless it admits to an uncertain effect; and unless a call of the       *)
(* rollback failed, or a crash stopped it half-way, it is refused only for *)
(* such an effect.  Every intermediate text has content that proves it,    *)
(* and every chain of moves can be walked back (operation_after,           *)
(* rollback_text_bytes).                                                   *)
EvidenceIsTrue ==
    /\ TypeOK
    /\ writes = 0 /\ ~interrupted /\ ~Pending /\ at \in Committing \cup {"undo", "crashed", "refused"} =>
        \A p \in Touched : SameAt(tree, Outcome(Len(progress)), p)
    /\ at = "refused" /\ writes = 0 /\ ~interrupted => Pending

(* "either reaches the intended manifest, rolls back, or exposes Recovery  *)
(* with the exact observed state" (docs/adr/0004): when neither commit nor *)
(* rollback succeeds, the touched paths can at least be inspected, so that *)
(* Recovery has a state to show and to accept.                             *)
ObservableRecovery == at = "refused" /\ writes = 0 => Inspectable(Touched)
=============================================================================
