------------------------------- MODULE FileTree -------------------------------
(***************************************************************************)
(* A small Workspace file system and what the operations of an LSP         *)
(* WorkspaceEdit do to it: the common ground of the edit planner, which    *)
(* must predict these effects, and of the Application, which must produce  *)
(* or undo them.                                                           *)
(*                                                                         *)
(* A path is a sequence of names below the Workspace root <<>>.  A tree    *)
(* maps every path of a universe to a node; a node carries an identity     *)
(* (inode and metadata), which a rename keeps.                             *)
(***************************************************************************)
EXTENDS Integers, Sequences, FiniteSets, SequencesExt, FiniteSetsExt

CONSTANTS
    Paths,          \* the paths below the Workspace root a run speaks of
    NoId            \* the identity of what does not exist yet

Names == UNION {{p[i] : i \in DOMAIN p} : p \in Paths}

ASSUME PathsAssumption ==
    /\ Paths \subseteq Seq(Names) /\ <<>> \notin Paths
    /\ \A p \in Paths : Len(p) = 1 \/ Front(p) \in Paths

Parent(path) == Front(path)

(* Path::starts_with: path is root itself or lies below it. *)
Under(path, root) == IsPrefix(root, path)

Below(path, root) == Under(path, root) /\ path # root

Rebase(path, from, to) == to \o SubSeq(path, Len(from) + 1, Len(path))

MissingNode == [kind |-> "missing", id |-> NoId, text |-> <<>>]

NewFile == [kind |-> "file", id |-> NoId, text |-> <<>>]

Exists(tree, path) == tree[path].kind # "missing"

IsDirectory(tree, path) == path # <<>> => tree[path].kind = "directory"

ChildrenOf(tree, path) ==
    {q \in Paths : Parent(q) = path /\ Exists(tree, q)}

(* Every existing node hangs below an existing directory. *)
WellFormedTree(tree) ==
    \A p \in Paths : Exists(tree, p) => IsDirectory(tree, Parent(p))

-----------------------------------------------------------------------------
(* What the operations do.                                                 *)

TextTree(tree, path, text) == [tree EXCEPT ![path].text = text]

CreateTree(tree, path) ==
    [tree EXCEPT ![path] = IF Exists(tree, path) THEN [@ EXCEPT !.text = <<>>] ELSE NewFile]

RenameTree(tree, old, new) ==
    [p \in Paths |->
        IF Under(p, new)
        THEN LET source == Rebase(p, new, old)
             IN  IF source \in Paths THEN tree[source] ELSE MissingNode
        ELSE IF Under(p, old) THEN MissingNode
        ELSE tree[p]]

DeleteTree(tree, path) ==
    [p \in Paths |-> IF Under(p, path) THEN MissingNode ELSE tree[p]]

-----------------------------------------------------------------------------
(* Which operations the protocol forbids on a tree, and which it ignores.  *)

CreateRefusal(tree, path, overwrite) ==
    IF Exists(tree, path) /\ ~overwrite THEN "target_exists"
    ELSE IF Exists(tree, path) /\ tree[path].kind # "file" THEN "resource_kind_mismatch"
    ELSE IF ~Exists(tree, path) /\ ~IsDirectory(tree, Parent(path)) THEN "parent_missing"
    ELSE "none"

RenameRefusal(tree, old, new, overwrite) ==
    IF old = new THEN "resource_alias"
    ELSE IF Under(old, new) \/ Under(new, old) THEN "ambiguous_path_sequence"
    ELSE IF ~Exists(tree, old) THEN "source_missing"
    ELSE IF Exists(tree, new) /\ ~overwrite THEN "target_exists"
    ELSE IF Exists(tree, new) /\ tree[new].kind # tree[old].kind THEN "resource_kind_mismatch"
    ELSE IF ~IsDirectory(tree, Parent(new)) THEN "parent_missing"
    ELSE "none"

DeleteRefusal(tree, path, recursive) ==
    IF ~Exists(tree, path) THEN "source_missing"
    ELSE IF ~recursive /\ ChildrenOf(tree, path) # {} THEN "directory_not_empty"
    ELSE "none"
=============================================================================
