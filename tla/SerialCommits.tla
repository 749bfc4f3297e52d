---------------------------- MODULE SerialCommits ----------------------------
(***************************************************************************)
(* What the Application and Recovery protocol promises of the files of a   *)
(* Workspace, without its records, locks and processes: Previews write     *)
(* them one at a time, each of them in one period only and never again,    *)
(* and within it operation by operation along the plan, forward or back.   *)
(* Everybody else may change the files at any moment.                      *)
(***************************************************************************)
EXTENDS Naturals

CONSTANTS Preview, Workspace, WorkspaceOf, NoPreview, Ops

VARIABLES
    writer,     \* the Preview that may write each Workspace, or NoPreview
    begun,      \* the Previews that have had their period
    files

vars == <<writer, begun, files>>

Original == [by |-> NoPreview, done |-> 0]
Others == {Original, [by |-> NoPreview, done |-> 1]}

(* What the first k operations of a plan make of the original files. *)
Written(p, k) == IF k = 0 THEN Original ELSE [by |-> p, done |-> k]

Init ==
    /\ writer = [w \in Workspace |-> NoPreview]
    /\ begun = {}
    /\ files = [w \in Workspace |-> Original]

Begin(p) ==
    /\ p \notin begun /\ begun' = begun \cup {p}
    /\ writer[WorkspaceOf[p]] = NoPreview
    /\ writer' = [writer EXCEPT ![WorkspaceOf[p]] = p]
    /\ UNCHANGED files

(* One operation more, or one less. *)
Write(p) ==
    /\ writer[WorkspaceOf[p]] = p
    /\ \E k \in 0..Ops - 1 :
        \E change \in {<<k, k + 1>>, <<k + 1, k>>} :
            /\ files[WorkspaceOf[p]] = Written(p, change[1])
            /\ files' = [files EXCEPT ![WorkspaceOf[p]] = Written(p, change[2])]
    /\ UNCHANGED <<writer, begun>>

End(p) ==
    /\ writer[WorkspaceOf[p]] = p
    /\ writer' = [writer EXCEPT ![WorkspaceOf[p]] = NoPreview]
    /\ UNCHANGED <<begun, files>>

Outside(w) ==
    /\ \E content \in Others : files' = [files EXCEPT ![w] = content]
    /\ UNCHANGED <<writer, begun>>

Next ==
    \/ \E p \in Preview : Begin(p) \/ Write(p) \/ End(p)
    \/ \E w \in Workspace : Outside(w)

Spec == Init /\ [][Next]_vars
=============================================================================
