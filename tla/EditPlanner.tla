----------------------------- MODULE EditPlanner -----------------------------
(***************************************************************************)
(* The edit planner (mutation/planner.rs): how one WorkspaceEdit becomes   *)
(* an exact ordered plan with a before-manifest and an intended manifest,  *)
(* without touching the disk; and the replay of the plan's texts when an   *)
(* Application stages them or a Preview shows them                         *)
(* (visit_canonical_text_outputs of mutation/application.rs).              *)
(*                                                                         *)
(* The planner never builds the whole tree.  It loads what an operation    *)
(* names, keeps a VirtualWorkspace of what it loaded and changed, and      *)
(* answers later operations from it.  The variable tree is the reference:  *)
(* the disk with the same operations really performed on it.               *)
(*                                                                         *)
(* A digest stands for the content it is taken of: a text, or the children *)
(* of a directory.                                                         *)
(***************************************************************************)
EXTENDS FileTree, TextEdits

CONSTANTS
    Scenes,             \* scene -> the disk, the operations on offer, the encoding,
                        \* and the bound on the operations of one WorkspaceEdit
    MaxEntries,         \* mutation_limits.max_entries
    MaxDepth,           \* mutation_limits.max_recursion_depth
    MaxDocument,        \* preview_limits.max_document_text_bytes
    MaxText,            \* preview_limits.max_text_bytes
    MaxRollback,        \* mutation_limits.max_rollback_bytes
    MaxStaged,          \* mutation_limits.max_staged_text_bytes
    NoDigest, NoText, NoPath,
    NoVersion           \* a text operation whose Document version is null

ASSUME PathsAreFinite == IsFiniteSet(Paths)

VARIABLES
    scene,              \* which disk and which operations this behaviour is about
    tree,               \* reference: the disk after the operations planned so far
    workspace,          \* VirtualWorkspace
    newTextBytes,       \* total_new_text_bytes
    operations,         \* the canonical operations
    count,              \* operations of the WorkspaceEdit read so far
    problem,            \* the first problem and the operation it was found at
    plan                \* the manifests of the finished plan

vars == <<scene, tree, workspace, newTextBytes, operations, count, problem, plan>>

disk == Scenes[scene].disk
offers == Scenes[scene].offers
encoding == Scenes[scene].encoding
MaxOperations == Scenes[scene].length

NoProblem == [code |-> "none", operation |-> NoPath]

NoPlan == [before |-> NoPath, intended |-> NoPath, changed |-> 0]

-----------------------------------------------------------------------------
(* ResourceState, ManifestEntry and VirtualWorkspace                       *)

MissingResource ==
    [kind |-> "missing", id |-> NoId, digest |-> NoDigest, text |-> NoText, source |-> NoPath]

Manifest(state) == [kind |-> state.kind, id |-> state.id, digest |-> state.digest]

EmptyWorkspace ==
    [entries |-> <<>>, before |-> <<>>, affected |-> {}, rollback |-> 0, problem |-> "none"]

Failed(w) == w.problem # "none"

Fail(w, code) == [w EXCEPT !.problem = code]

Loaded(w, path) == path \in DOMAIN w.entries

(* Mutant: a missing entry counts like any loaded one. *)
PresentWhenLoaded(w, path) == Loaded(w, path)

Present(w, path) == Loaded(w, path) /\ w.entries[path].kind # "missing"

Set(function, key, value) ==
    [k \in DOMAIN function \cup {key} |-> IF k = key THEN value ELSE function[k]]

(* The entries of a loaded directory that exist. *)
VirtualChildren(w, path) ==
    {q \in DOMAIN w.entries : Parent(q) = path /\ w.entries[q].kind # "missing"}

Membership(w, path) == {<<Last(q), w.entries[q].kind>> : q \in VirtualChildren(w, path)}

-----------------------------------------------------------------------------
(* Inspecting the disk                                                     *)

FileLike == {"file", "hardlink"}

(* validate_existing_ancestors: walk from the root down to the path itself;*)
(* a link is refused, nothing below what does not exist is looked at, and  *)
(* below a regular file lstat fails otherwise than with NotFound.          *)
PathProblem(path) ==
    LET kind(n) == disk[SubSeq(path, 1, n)].kind
        links == {n \in 1..Len(path) : kind(n) = "link"}
        files == {n \in 1..Len(path) - 1 : kind(n) \in FileLike}
    IN  IF links # {} THEN "symlink_or_reparse_point"
        ELSE IF files # {} THEN "filesystem_capability_unavailable"
        ELSE "none"

(* inspect_resource: what the planner learns of one path.  The digest of a *)
(* directory is not taken here.                                            *)
ResourceProblem(path, loadText) ==
    LET node == disk[path] IN
    IF PathProblem(path) # "none" THEN PathProblem(path)
    ELSE IF node.kind = "hardlink" THEN "hard_link"
    ELSE IF loadText /\ node.kind = "directory" THEN "filesystem_capability_unavailable"
    ELSE IF loadText /\ node.kind = "file" /\ ByteLen(node.text) > MaxDocument
         THEN "resource_limit_exceeded"
    ELSE "none"

InspectedResource(path, loadText) ==
    LET node == disk[path] IN
    CASE node.kind = "missing"   -> MissingResource
      [] node.kind = "directory" -> [MissingResource EXCEPT !.kind = "directory", !.id = node.id]
      [] OTHER -> [kind |-> "file", id |-> node.id, digest |-> node.text,
                   text |-> IF loadText THEN node.text ELSE NoText, source |-> path]

RollbackBytes(state) == IF state.kind = "file" THEN ByteLen(state.digest) ELSE 0

(* The text of a loaded file that only its moved entry still names. *)
LoadText(w, path) ==
    LET source == w.entries[path].source IN
    IF PathProblem(source) # "none" THEN Fail(w, PathProblem(source))
    ELSE IF ByteLen(disk[source].text) > MaxDocument THEN Fail(w, "resource_limit_exceeded")
    ELSE [w EXCEPT !.entries[path].text = disk[source].text]

(* A path below one that is known to be missing is missing. *)
Hidden(w, path) ==
    \E q \in DOMAIN w.entries : Below(path, q) /\ w.entries[q].kind = "missing"

Enter(w, path, state) ==
    [w EXCEPT !.rollback = @ + RollbackBytes(state),
              !.before = Set(@, path, Manifest(state)),
              !.entries = Set(@, path, state)]

LoadExact(w, path, loadText) ==
    CASE Failed(w) -> w
      [] ~Failed(w) /\ Loaded(w, path) ->
            IF loadText /\ w.entries[path].kind = "file" /\ w.entries[path].text = NoText
            THEN LoadText(w, path) ELSE w
      [] ~Failed(w) /\ ~Loaded(w, path) ->
            IF Hidden(w, path) THEN Enter(w, path, MissingResource)
            ELSE IF ResourceProblem(path, loadText) # "none"
            THEN Fail(w, ResourceProblem(path, loadText))
            ELSE Enter(w, path, InspectedResource(path, loadText))

(* directory_children: the names and kinds the directory holds on disk. *)
DiskChildren(path) == {q \in Paths : Parent(q) = path /\ Exists(disk, q)}

DiskMembership(path) ==
    {<<Last(q), IF disk[q].kind = "directory" THEN "directory" ELSE "file">> : q \in DiskChildren(path)}

DirectoryProblem(path) ==
    IF PathProblem(path) # "none" THEN PathProblem(path)
    ELSE IF \E q \in DiskChildren(path) : disk[q].kind = "link" THEN "symlink_or_reparse_point"
    ELSE IF Cardinality(DiskChildren(path)) >= MaxEntries THEN "resource_limit_exceeded"
    ELSE "none"

(* One directory of a tree being loaded: its children are enumerated once, *)
(* when its digest is not known yet; what was loaded before is kept.       *)
Enumerate(w, path) ==
    IF Failed(w) \/ w.entries[path].digest # NoDigest THEN w
    ELSE IF DirectoryProblem(path) # "none" THEN Fail(w, DirectoryProblem(path))
    ELSE FoldSet(LAMBDA q, acc : LoadExact(acc, q, FALSE),
                 [w EXCEPT !.before[path].digest = DiskMembership(path),
                           !.entries[path].digest = DiskMembership(path)],
                 DiskChildren(path))

WithinEntries(w, path) ==
    IF ~Failed(w) /\ VirtualChildren(w, path) # {} /\ Cardinality(DOMAIN w.entries) > MaxEntries
    THEN Fail(w, "resource_limit_exceeded") ELSE w

LoadDirectory(path, w) == WithinEntries(Enumerate(w, path), path)

(* load_resource_tree: the resource and, level by level, everything below. *)
DirectoriesAt(w, path, depth) ==
    {q \in DOMAIN w.entries : /\ Under(q, path) /\ Len(q) = Len(path) + depth
                              /\ w.entries[q].kind = "directory"}

LoadLevel(w, path, depth) ==
    IF depth > MaxDepth /\ ~Failed(w) /\ DirectoriesAt(w, path, depth) # {}
    THEN Fail(w, "resource_limit_exceeded")
    ELSE FoldSet(LoadDirectory, w, DirectoriesAt(w, path, depth))

LoadTree(w, path) ==
    FoldLeft(LAMBDA acc, depth : LoadLevel(acc, path, depth),
             LoadExact(w, path, FALSE),
             [i \in 1..Max({Len(p) : p \in Paths}) - Len(path) + 1 |-> i - 1])

(* Mutant: the disk alone answers. *)
ParentMissingOnDisk(w, path) == ~IsDirectory(disk, Parent(path))

(* require_existing_parent: what is loaded answers before the disk does. *)
ParentMissing(w, path) ==
    LET parent == Parent(path) IN
    IF Loaded(w, parent) THEN w.entries[parent].kind # "directory"
    ELSE ~IsDirectory(disk, parent)

-----------------------------------------------------------------------------
(* One operation of the WorkspaceEdit                                      *)

MayPlan == problem = NoProblem /\ plan = NoPlan /\ count < MaxOperations

(* The planner goes on after a problem only to report more of them: the    *)
(* WorkspaceEdit is refused whatever follows.                              *)
Refuse(op, code) ==
    /\ problem' = [code |-> code, operation |-> op]
    /\ UNCHANGED <<tree, workspace, newTextBytes, operations>>

(* ignoreIfExists, ignoreIfNotExists, or an edit that changes nothing. *)
Ignore(w) ==
    /\ workspace' = w
    /\ UNCHANGED <<tree, operations, problem>>

Emit(op, w) ==
    /\ workspace' = w
    /\ operations' = Append(operations, op)
    /\ UNCHANGED problem

Read == count' = count + 1 /\ UNCHANGED <<scene, plan>>

(* An entry that is malformed, has unknown fields, refers to a change      *)
(* annotation that is not there, or names a version no Document proves.    *)
PlanMalformed(op) ==
    /\ MayPlan /\ op.form # "plain"
    /\ Read /\ Refuse(op, op.form)

(* plan_text_operation.  The version is bound to the content of the path   *)
(* before the whole WorkspaceEdit.                                         *)
TextProblem(w, op) ==
    LET entry == w.entries[op.path]
        expected == op.version
        alone == {i \in DOMAIN op.edits : EditProblem(entry.text, op.edits[i], encoding) # "none"}
    IN  IF expected # NoVersion
           /\ ~(/\ op.path \in DOMAIN w.before /\ w.before[op.path].kind = "file"
                /\ w.before[op.path].digest = expected)
        THEN "invalid_document_version"
        ELSE IF entry.kind # "file" THEN "unsupported_resource_kind"
        ELSE IF alone # {} THEN EditProblem(entry.text, op.edits[Min(alone)], encoding)
        ELSE IF Overlaps(SortedEdits(entry.text, op.edits, encoding)) THEN "overlapping_edits"
        ELSE "none"

TextCode(op, w) ==
    IF PathProblem(op.path) # "none" THEN PathProblem(op.path)
    ELSE IF Failed(w) THEN w.problem
    ELSE TextProblem(w, op)

(* Edits that leave the text as it is emit nothing. *)
ReplaceText(op, w, sorted, new) ==
    LET old == w.entries[op.path].text IN
    IF new = old THEN Ignore(w)
    ELSE /\ Emit([kind |-> "text", path |-> op.path, index |-> count, edits |-> sorted,
                  before |-> old, after |-> new],
                 [w EXCEPT !.entries[op.path].text = new,
                           !.entries[op.path].digest = new,
                           !.affected = @ \cup {op.path}])
         /\ tree' = TextTree(tree, op.path, EditedText(tree[op.path].text, op.edits, encoding))

AcceptText(op, w, sorted) ==
    /\ newTextBytes' = newTextBytes + FoldSet(LAMBDA e, sum : sum + ByteLen(e.new), 0, Range(sorted))
    /\ ReplaceText(op, w, sorted, Result(w.entries[op.path].text, sorted))

TextStep(op, w) ==
    IF TextCode(op, w) # "none" THEN Refuse(op, TextCode(op, w))
    ELSE AcceptText(op, w, SortedEdits(w.entries[op.path].text, op.edits, encoding))

PlanText(op) ==
    /\ MayPlan /\ op.form = "plain" /\ op.kind = "text"
    /\ Read /\ TextStep(op, LoadExact(workspace, op.path, TRUE))

(* What a resource operation is declined for is ignored when the server    *)
(* says so, and refused otherwise.                                         *)
Decline(op, w, code, ignorable) ==
    /\ UNCHANGED newTextBytes
    /\ IF code = ignorable /\ op.ignore THEN Ignore(w)
       ELSE problem' = [code |-> code, operation |-> op] /\ UNCHANGED <<tree, workspace, operations>>

(* plan_create_operation: an overwritten file keeps its identity. *)
CreateProblem(w, op) ==
    IF Present(w, op.path) /\ ~op.overwrite THEN "target_exists"
    ELSE IF Present(w, op.path) /\ w.entries[op.path].kind # "file" THEN "resource_kind_mismatch"
    ELSE IF ~Present(w, op.path) /\ ParentMissing(w, op.path) THEN "parent_missing"
    ELSE "none"

CreateCode(op, w) ==
    IF PathProblem(op.path) # "none" THEN PathProblem(op.path)
    ELSE IF Failed(w) THEN w.problem
    ELSE CreateProblem(w, op)

CreateStep(op, w) ==
    LET created == [kind |-> "file", id |-> w.entries[op.path].id, digest |-> <<>>,
                    text |-> <<>>, source |-> NoPath]
    IN  IF CreateCode(op, w) # "none" THEN Decline(op, w, CreateCode(op, w), "target_exists")
        ELSE /\ UNCHANGED newTextBytes
             /\ Emit([kind |-> "create", path |-> op.path, index |-> count, overwrite |-> op.overwrite],
                     [w EXCEPT !.entries[op.path] = created, !.affected = @ \cup {op.path}])
             /\ tree' = CreateTree(tree, op.path)

PlanCreate(op) ==
    /\ MayPlan /\ op.form = "plain" /\ op.kind = "create"
    /\ Read /\ CreateStep(op, LoadExact(workspace, op.path, FALSE))

(* plan_rename_operation: the source tree is loaded whole, the destination *)
(* only when it is a directory to be overwritten.                          *)
RenameProblem(w, op) ==
    IF ~Present(w, op.path) THEN "source_missing"
    ELSE IF Present(w, op.new) /\ ~op.overwrite THEN "target_exists"
    ELSE IF Present(w, op.new) /\ w.entries[op.new].kind # w.entries[op.path].kind
         THEN "resource_kind_mismatch"
    ELSE "none"

(* Mutant: what the destination held below its root is left in place. *)
MovedOverRoot(w, old, new) ==
    LET moved == {q \in DOMAIN w.entries : Under(q, old)}
        targets == {Rebase(q, old, new) : q \in moved}
        state(q) == IF q \in targets THEN w.entries[Rebase(q, new, old)]
                    ELSE IF q \in moved THEN MissingResource
                    ELSE w.entries[q]
    IN  [w EXCEPT !.entries = [q \in DOMAIN w.entries \cup targets |-> state(q)],
                  !.affected = @ \cup moved \cup targets]

(* Every entry below the destination becomes missing; every entry below    *)
(* the source becomes missing, and its state reappears at the new path.    *)
Moved(w, old, new) ==
    LET replaced == {q \in DOMAIN w.entries : Under(q, new)}
        moved == {q \in DOMAIN w.entries : Under(q, old)}
        targets == {Rebase(q, old, new) : q \in moved}
        state(q) == IF q \in targets THEN w.entries[Rebase(q, new, old)]
                    ELSE IF q \in moved \cup replaced THEN MissingResource
                    ELSE w.entries[q]
    IN  [w EXCEPT !.entries = [q \in DOMAIN w.entries \cup targets |-> state(q)],
                  !.affected = @ \cup replaced \cup moved \cup targets]

(* Bound: a rename takes no path out of the universe of paths. *)
StaysInBound(op) ==
    \A p \in Paths :
        Below(p, op.path) /\ (Exists(tree, p) \/ Exists(disk, p) \/ Loaded(workspace, p))
            => Rebase(p, op.path, op.new) \in Paths

(* What the two names alone rule out. *)
NamesProblem(op) ==
    IF PathProblem(op.path) # "none" THEN PathProblem(op.path)
    ELSE IF PathProblem(op.new) # "none" THEN PathProblem(op.new)
    ELSE IF op.path = op.new THEN "resource_alias"
    ELSE IF Under(op.path, op.new) \/ Under(op.new, op.path) THEN "ambiguous_path_sequence"
    ELSE "none"

WithDestination(w, op) ==
    IF w.entries[op.new].kind = "directory" THEN LoadTree(w, op.new) ELSE w

RenameCode(op, source, whole) ==
    IF NamesProblem(op) # "none" THEN NamesProblem(op)
    ELSE IF Failed(source) THEN source.problem
    ELSE IF RenameProblem(source, op) # "none" THEN RenameProblem(source, op)
    ELSE IF Failed(whole) THEN whole.problem
    ELSE IF ParentMissing(whole, op.new) THEN "parent_missing"
    ELSE "none"

RenameLoaded(op, source, whole) ==
    IF RenameCode(op, source, whole) # "none"
    THEN Decline(op, source, RenameCode(op, source, whole), "target_exists")
    ELSE /\ UNCHANGED newTextBytes
         /\ Emit([kind |-> "rename", path |-> op.path, new |-> op.new, index |-> count,
                  overwrite |-> op.overwrite],
                 Moved(whole, op.path, op.new))
         /\ tree' = RenameTree(tree, op.path, op.new)

RenameStep(op, source) == RenameLoaded(op, source, WithDestination(source, op))

PlanRename(op) ==
    /\ MayPlan /\ op.form = "plain" /\ op.kind = "rename"
    /\ StaysInBound(op)
    /\ Read /\ RenameStep(op, LoadExact(LoadTree(workspace, op.path), op.new, FALSE))

(* plan_delete_operation *)
DeleteProblem(w, op) ==
    IF ~Present(w, op.path) THEN "source_missing"
    ELSE IF /\ w.entries[op.path].kind = "directory" /\ ~op.recursive
            /\ \E q \in DOMAIN w.entries : Below(q, op.path) /\ Present(w, q)
    THEN "directory_not_empty"
    ELSE "none"

DeleteCode(op, w) ==
    IF PathProblem(op.path) # "none" THEN PathProblem(op.path)
    ELSE IF Failed(w) THEN w.problem
    ELSE DeleteProblem(w, op)

DeleteStep(op, w) ==
    LET subtree == {q \in DOMAIN w.entries : Under(q, op.path) /\ Present(w, q)} IN
    IF DeleteCode(op, w) # "none" THEN Decline(op, w, DeleteCode(op, w), "source_missing")
    ELSE /\ UNCHANGED newTextBytes
         /\ Emit([kind |-> "delete", path |-> op.path, index |-> count, recursive |-> op.recursive],
                 [w EXCEPT !.entries = [q \in DOMAIN @ |-> IF q \in subtree THEN MissingResource ELSE @[q]],
                           !.affected = @ \cup subtree])
         /\ tree' = DeleteTree(tree, op.path)

PlanDelete(op) ==
    /\ MayPlan /\ op.form = "plain" /\ op.kind = "delete"
    /\ Read /\ DeleteStep(op, LoadTree(workspace, op.path))

-----------------------------------------------------------------------------
(* The end of the WorkspaceEdit                                            *)

LimitsExceeded ==
    \/ Cardinality(workspace.affected) > MaxEntries
    \/ workspace.rollback > MaxRollback
    \/ newTextBytes > MaxText \/ newTextBytes > MaxStaged

(* An affected path that was never loaded is inspected now. *)
LateProblems == {p \in workspace.affected \ DOMAIN workspace.before : ResourceProblem(p, FALSE) # "none"}

BeforeManifest ==
    [p \in DOMAIN workspace.before \cup workspace.affected |->
        IF p \in DOMAIN workspace.before THEN workspace.before[p]
        ELSE Manifest(InspectedResource(p, FALSE))]

(* The digest of an affected directory is taken of the entries below it. *)
IntendedManifest ==
    [p \in workspace.affected |->
        LET state == IF Loaded(workspace, p) THEN workspace.entries[p] ELSE MissingResource
        IN  IF state.kind = "directory"
            THEN [Manifest(state) EXCEPT !.digest = Membership(workspace, p)]
            ELSE Manifest(state)]

ChangedPaths(before, intended) ==
    Cardinality({p \in DOMAIN intended : p \notin DOMAIN before \/ before[p] # intended[p]})

EndOfEdit ==
    /\ problem = NoProblem /\ plan = NoPlan
    /\ count > 0

FinishRefused ==
    /\ EndOfEdit /\ (LimitsExceeded \/ LateProblems # {})
    /\ problem' = [code |-> IF LimitsExceeded THEN "resource_limit_exceeded"
                            ELSE ResourceProblem(CHOOSE p \in LateProblems : TRUE, FALSE),
                   operation |-> NoPath]
    /\ UNCHANGED <<scene, tree, workspace, newTextBytes, operations, count, plan>>

Finish ==
    /\ EndOfEdit /\ ~LimitsExceeded /\ LateProblems = {}
    /\ plan' = [before |-> BeforeManifest, intended |-> IntendedManifest,
                changed |-> ChangedPaths(BeforeManifest, IntendedManifest)]
    /\ UNCHANGED <<scene, tree, workspace, newTextBytes, operations, count, problem>>

Init ==
    /\ scene \in DOMAIN Scenes
    /\ tree = Scenes[scene].disk
    /\ workspace = EmptyWorkspace
    /\ newTextBytes = 0 /\ operations = <<>> /\ count = 0
    /\ problem = NoProblem /\ plan = NoPlan

Next ==
    \/ \E op \in offers : PlanMalformed(op)
    \/ \E op \in offers : PlanText(op)
    \/ \E op \in offers : PlanCreate(op)
    \/ \E op \in offers : PlanRename(op)
    \/ \E op \in offers : PlanDelete(op)
    \/ Finish
    \/ FinishRefused

Spec == Init /\ [][Next]_vars

-----------------------------------------------------------------------------
(* Staging: visit_canonical_text_outputs evaluates the plan's operations   *)
(* again, from the disk, when an Application stages its texts and when a   *)
(* Preview is shown.  It keeps the texts it produced, the roots that no    *)
(* longer exist, and for every rename where the content lies on disk.      *)

(* resolve_physical_path: the aliases are tried from the last to the first,*)
(* each on what the one before it made of the path.                        *)
ResolvePhysical(path, aliases) ==
    FoldLeft(LAMBDA at, alias : IF Under(at, alias.virtual)
                                THEN Rebase(at, alias.virtual, alias.physical) ELSE at,
             path, Reverse(aliases))

VirtualText(stage, path) ==
    IF path \in DOMAIN stage.texts THEN stage.texts[path]
    ELSE IF \E root \in stage.unavailable : Under(path, root) THEN NoText
    ELSE LET physical == ResolvePhysical(path, stage.aliases)
         IN  IF physical \in Paths /\ disk[physical].kind \in FileLike
             THEN disk[physical].text ELSE NoText

(* A text operation: its input must have the digest the planner recorded,  *)
(* its edits must be valid for it, and the output must match as well.      *)
StageOutput(stage, op, after) ==
    IF after # op.after THEN [stage EXCEPT !.problem = "output"]
    ELSE IF stage.bytes + ByteLen(after) > MaxStaged THEN [stage EXCEPT !.problem = "limit"]
    ELSE [stage EXCEPT !.texts = Set(@, op.path, after), !.bytes = @ + ByteLen(after),
                       !.unavailable = @ \ {op.path}]

StageText(stage, op) ==
    IF VirtualText(stage, op.path) # op.before THEN [stage EXCEPT !.problem = "input"]
    ELSE IF ~CanonicalRangesValid(op.before, op.edits) THEN [stage EXCEPT !.problem = "output"]
    ELSE StageOutput(stage, op, Result(op.before, op.edits))

(* The texts that do not lie below a root. *)
TextsOutside(texts, roots) ==
    Restrict(texts, {p \in DOMAIN texts : \A r \in roots : ~Under(p, r)})

(* Mutant: what was unavailable below the new name stays so. *)
StageRenameOntoRemoved(stage, op) ==
    LET moved == {p \in DOMAIN stage.texts : Under(p, op.path)}
        kept == TextsOutside(stage.texts, {op.path, op.new})
        landed == {Rebase(p, op.path, op.new) : p \in moved}
    IN  [stage EXCEPT
            !.texts = [p \in DOMAIN kept \cup landed |->
                          IF p \in landed THEN stage.texts[Rebase(p, op.new, op.path)] ELSE kept[p]],
            !.unavailable = @ \cup {op.path},
            !.aliases = Append(@, [virtual  |-> op.new,
                                   physical |-> ResolvePhysical(op.path, stage.aliases)])]

StageRename(stage, op) ==
    LET moved == {p \in DOMAIN stage.texts : Under(p, op.path)}
        kept == TextsOutside(stage.texts, {op.path, op.new})
        landed == {Rebase(p, op.path, op.new) : p \in moved}
    IN  [stage EXCEPT
            !.texts = [p \in DOMAIN kept \cup landed |->
                          IF p \in landed THEN stage.texts[Rebase(p, op.new, op.path)] ELSE kept[p]],
            !.unavailable = {r \in @ : ~Under(r, op.new)} \cup {op.path},
            !.aliases = Append(@, [virtual  |-> op.new,
                                   physical |-> ResolvePhysical(op.path, stage.aliases)])]

StageOperation(stage, op) ==
    CASE stage.problem # "none" -> stage
      [] stage.problem = "none" /\ op.kind = "text"   -> StageText(stage, op)
      [] stage.problem = "none" /\ op.kind = "create" ->
            [stage EXCEPT !.texts = Set(TextsOutside(@, {op.path}), op.path, <<>>),
                          !.unavailable = @ \ {op.path}]
      [] stage.problem = "none" /\ op.kind = "rename" -> StageRename(stage, op)
      [] stage.problem = "none" /\ op.kind = "delete" ->
            [stage EXCEPT !.texts = TextsOutside(@, {op.path}), !.unavailable = @ \cup {op.path}]

Staged ==
    FoldLeft(StageOperation,
             [texts |-> <<>>, unavailable |-> {}, aliases |-> <<>>, bytes |-> 0, problem |-> "none"],
             operations)

-----------------------------------------------------------------------------
(* Properties                                                              *)

Planned == plan # NoPlan

(* What the planner's own inspection would report of a tree. *)
TreeManifest(t, path) ==
    [kind |-> t[path].kind, id |-> t[path].id,
     digest |-> CASE t[path].kind = "missing" -> NoDigest
                  [] t[path].kind = "directory" ->
                        {<<Last(q), t[q].kind>> : q \in ChildrenOf(t, path)}
                  [] OTHER -> t[path].text]

TypeOK ==
    /\ scene \in DOMAIN Scenes
    /\ DOMAIN workspace.entries \subseteq Paths /\ workspace.affected \subseteq Paths
    /\ DOMAIN workspace.before \subseteq Paths
    /\ WellFormedTree(tree)
    /\ count \in 0..MaxOperations /\ Len(operations) <= count
    /\ problem = NoProblem \/ plan = NoPlan

(* The intended manifest says exactly what performing the operations one   *)
(* after another would leave behind, content, identity and membership of   *)
(* every affected path, and a path that is not affected does not change:   *)
(* lazily loaded trees, virtual renames and recreated paths lose nothing   *)
(* (planner.rs, plan_workspace_edit_with_document_preconditions).          *)
IntendedIsOutcome ==
    Planned => \A p \in Paths :
        IF p \in workspace.affected THEN plan.intended[p] = TreeManifest(tree, p)
        ELSE tree[p] = disk[p]

(* The before-manifest, which staging and rollback compare the disk with,  *)
(* is the disk: of every affected path, and with the membership of every   *)
(* directory whose subtree the plan moves or removes, so that an entry a   *)
(* stranger adds to it later is noticed.                                   *)
BeforeIsDisk ==
    Planned =>
        /\ workspace.affected \subseteq DOMAIN plan.before
        /\ \A p \in DOMAIN plan.before :
            LET seen == TreeManifest(disk, p) IN
            \/ plan.before[p] = seen
            \/ /\ p \notin workspace.affected /\ seen.kind = "directory"
               /\ plan.before[p] = [seen EXCEPT !.digest = NoDigest]

(* The rollback budget counts every byte the plan can destroy: each file   *)
(* that an affected path holds on disk.                                    *)
RollbackCovered ==
    LET size(p) == IF disk[p].kind = "file" THEN ByteLen(disk[p].text) ELSE 0
    IN  Planned => SumFunction([p \in workspace.affected |-> size(p)]) <= MaxRollback

(* The plan is exact: both manifests say what they claim to say, and its   *)
(* rollback bytes cover what will have to be put back.                     *)
PlanIsExact == TypeOK /\ IntendedIsOutcome /\ BeforeIsDisk /\ RollbackCovered

(* What the protocol has against a resource operation on the reference     *)
(* tree, and against a list of byte ranges for one of its texts.           *)
ResourceRefusal(op) ==
    CASE op.kind = "create" -> CreateRefusal(tree, op.path, op.overwrite)
      [] op.kind = "rename" -> RenameRefusal(tree, op.path, op.new, op.overwrite)
      [] op.kind = "delete" -> DeleteRefusal(tree, op.path, op.recursive)

TextRefusal(path, ranges) ==
    IF tree[path].kind # "file" THEN "unsupported_resource_kind"
    ELSE IF \E e \in ranges : e.start = NoOffset \/ e.end < e.start THEN "invalid_range"
    ELSE IF RangesConflict(ranges) THEN "overlapping_edits"
    ELSE "none"

ProtocolRefusal(op) ==
    IF op.kind = "text"
    THEN TextRefusal(op.path, ParsedEdits(tree[op.path].text, op.edits, encoding))
    ELSE ResourceRefusal(op)

(* The paths an operation reads. *)
Touched(op) ==
    {p \in Paths : Under(p, op.path) \/ Under(op.path, p)}
        \cup (IF op.kind = "rename" THEN {p \in Paths : Under(p, op.new) \/ Under(op.new, p)} ELSE {})

(* A refusal names the protocol's own objection to the operation on the    *)
(* tree as the earlier operations leave it, or a reason the disk gives: a  *)
(* link or a second hard link, a path below what is a regular file on      *)
(* disk, a limit.  Nothing is refused because of what the planner merely   *)
(* forgot or confused.                                                     *)
RefusalJustified ==
    problem.operation # NoPath =>
        LET op == problem.operation
            touches(kinds) == \E p \in Touched(op) : disk[p].kind \in kinds
        IN  \/ problem.code \in {op.form} \cup {e.form : e \in Range(op.edits)}
            \/ problem.code = ProtocolRefusal(op)
            \/ problem.code \in {"symlink_or_reparse_point", "hard_link"} /\ touches({"link", "hardlink"})
            \/ problem.code = "filesystem_capability_unavailable" /\ touches({"file", "directory"})
            \/ problem.code \in {"resource_limit_exceeded"}
            \/ problem.code = "invalid_document_version" /\ op.version # disk[op.path].text

(* No operation the protocol forbids gets into a plan, whatever the        *)
(* planner believes its target to be.                                      *)
EmitsOnlyLegal ==
    [][operations' # operations =>
        LET op == Last(operations')
        IN  IF op.kind = "text" THEN TextRefusal(op.path, Range(op.edits)) = "none"
            ELSE ResourceRefusal(op) = "none"]_vars

(* The plan never uses again a name, or a name above or below one, that an *)
(* earlier rename vacated.                                                 *)
NoNameReused ==
    \A i, j \in DOMAIN operations :
        /\ i < j /\ operations[i].kind = "rename" /\ operations[j].kind = "rename"
        => /\ ~Under(operations[j].new, operations[i].path)
           /\ ~Under(operations[i].path, operations[j].new)

(* On the disk it was made for, a plan stages: each text operation finds   *)
(* the input the planner saw and gives the output the planner computed,    *)
(* although staging follows renames and removals with a bookkeeping of its *)
(* own.  Plans whose renames use a vacated name again are left to the      *)
(* property below.                                                         *)
StagedAsPlanned ==
    Planned /\ NoNameReused => Staged.problem \in {"none", "limit"}

(* The same of every plan.  "Evaluates canonical operations once, in       *)
(* order, for staging and non-mutating presentation.  Text visits borrow   *)
(* the immediately preceding virtual bytes" (application.rs:1876).         *)
AlwaysStagedAsPlanned ==
    Planned => Staged.problem \in {"none", "limit"}
=============================================================================
