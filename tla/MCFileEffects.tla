---------------------------- MODULE MCFileEffects ----------------------------
(* Instances of FileEffects: plans of up to three operations as the edit   *)
(* planner produces them, on small disks.                                  *)
EXTENDS FileEffects

A == <<"a">>
B == <<"b">>
C == <<"c">>
InA == <<"a", "x">>
InB == <<"b", "x">>
InC == <<"c", "x">>

MCUndoName == <<"u1", "u2", "u3">>

MCPaths == {A, B, C, InA, InB, InC} \cup {<<MCUndoName[i]>> : i \in 1..3}
               \cup {<<MCUndoName[i], "x">> : i \in 1..3}

File(path, text) == [kind |-> "file", id |-> path, text |-> text]
Dir(path) == [kind |-> "directory", id |-> path, text |-> <<>>]

DiskOf(nodes) == [p \in MCPaths |-> IF \E n \in nodes : n.id = p
                                    THEN CHOOSE n \in nodes : n.id = p ELSE MissingNode]

TreeAndFiles == DiskOf({Dir(A), File(InA, <<"x">>), File(B, <<"y">>), File(C, <<"z">>)})
TwoTrees == DiskOf({Dir(A), File(InA, <<"x">>), Dir(B), File(InB, <<"y">>)})

Op(kind, path) == [kind |-> kind, path |-> path, new |-> path, overwrite |-> FALSE,
                   recursive |-> FALSE, ignore |-> FALSE, before |-> NoDigest, after |-> NoDigest]
TextOp(path, before, after) == [Op("text", path) EXCEPT !.before = before, !.after = after]
CreateOp(path) == Op("create", path)
ReplaceOp(path) == [Op("create", path) EXCEPT !.overwrite = TRUE]
RenameOp(old, new) == [Op("rename", old) EXCEPT !.new = new]
OverwriteOp(old, new) == [Op("rename", old) EXCEPT !.new = new, !.overwrite = TRUE]
DeleteOp(path) == [Op("delete", path) EXCEPT !.recursive = TRUE]
Lenient(operation) == [operation EXCEPT !.ignore = TRUE]

(* A moved tree whose file is edited before and after the move. *)
EditMoveEdit == [disk |-> DiskOf({Dir(A), File(InA, <<"x">>), File(C, <<"z">>)}),
    operations |-> <<TextOp(InA, <<"x">>, <<"e">>), RenameOp(A, B), TextOp(InB, <<"e">>, <<"f">>)>>]

(* A file over a file, then edited under its new name. *)
OverwriteEdit == [disk |-> TreeAndFiles,
    operations |-> <<OverwriteOp(B, C), TextOp(C, <<"y">>, <<"e">>), OverwriteOp(C, InA)>>]

(* A file that is deleted and created anew under the same name. *)
DeleteCreate == [disk |-> TreeAndFiles,
    operations |-> <<Lenient(DeleteOp(B)), Lenient(CreateOp(B)), TextOp(B, <<>>, <<"e">>)>>]

(* A file is edited and emptied, twice. *)
EditEmptyEmpty == [disk |-> TreeAndFiles,
    operations |-> <<TextOp(B, <<"y">>, <<"e">>), ReplaceOp(B), ReplaceOp(B)>>]

(* Two trees change places. *)
SwapTrees == [disk |-> TwoTrees,
    operations |-> <<Lenient(RenameOp(A, C)), RenameOp(B, A), RenameOp(C, B)>>]

(* A tree over a tree, which is then removed. *)
TreeOverTree == [disk |-> TwoTrees,
    operations |-> <<OverwriteOp(A, B), TextOp(InB, <<"x">>, <<"e">>), DeleteOp(B)>>]

(* A file is created in a tree that then moves. *)
CreateMoveEdit == [disk |-> DiskOf({Dir(A), File(B, <<"y">>)}),
    operations |-> <<CreateOp(InA), RenameOp(A, C), TextOp(InC, <<>>, <<"e">>)>>]

(* Members first, then the directory they were in. *)
EmptyTree == [disk |-> TreeAndFiles,
    operations |-> <<DeleteOp(InA), [Op("delete", A) EXCEPT !.recursive = FALSE], CreateOp(A)>>]

(* A file in the place of a tree. *)
FileForTree == [disk |-> TreeAndFiles, operations |-> <<DeleteOp(A), CreateOp(A)>>]

(* A file that is created and deleted again, and a file over none: what    *)
(* goes to an undo slot was not on the disk.                               *)
CreateDelete == [disk |-> DiskOf({File(C, <<"z">>)}), operations |-> <<CreateOp(B), DeleteOp(B)>>]
OntoMissing == [disk |-> DiskOf({File(B, <<"y">>)}), operations |-> <<OverwriteOp(B, C)>>]

MCPlans == <<EditMoveEdit, OverwriteEdit, DeleteCreate, EditEmptyEmpty, SwapTrees, TreeOverTree,
             CreateMoveEdit, CreateDelete, OntoMissing>>
TreeToFilePlans == <<DeleteCreate, FileForTree, EmptyTree>>
=============================================================================
