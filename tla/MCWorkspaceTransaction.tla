---------------------- MODULE MCWorkspaceTransaction -----------------------
(***************************************************************************)
(* Instances of WorkspaceTransaction for TLC.                              *)
(***************************************************************************)
EXTENDS WorkspaceTransaction, TLC

CONSTANTS a1, a2, p1, p2, w1, w2

OnePreview  == {p1}
TwoPreviews == {p1, p2}
TwoProcs    == {a1, a2}
OneProc     == {a1}
OneWorkspace  == {w1}
TwoWorkspaces == {w1, w2}

\* Every Preview bound to the first Workspace, or the second one to another.
Together == [p \in Preview |-> w1]
Apart    == [p \in Preview |-> IF p = p2 THEN w2 ELSE w1]

NoPreviews == {}

\* Processes, and the Previews of one Workspace, are interchangeable where no
\* property tells them apart over time.
Interchangeable == Permutations(Proc) \cup Permutations(Preview)
=============================================================================
