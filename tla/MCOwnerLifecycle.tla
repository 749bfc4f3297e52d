------------------------- MODULE MCOwnerLifecycle -------------------------
(***************************************************************************)
(* Instances of OwnerLifecycle for TLC.                                    *)
(***************************************************************************)
EXTENDS OwnerLifecycle, TLC

CONSTANTS c1, c2, c3, w1, w2, d1, d2, d3

TwoClients   == {c1, c2}
ThreeClients == {c1, c2, c3}

OneWorkspace  == {w1}
TwoWorkspaces == {w1, w2}

\* The project controls the first Declaration of the first Workspace and may
\* be edited to the second, which only the user configures.
OneDeclaration    == {d1}
ThreeDeclarations == {d1, d2, d3}
ControlledOnes    == {d1, d3}
HomeOfOne   == d1 :> w1
HomeOfThree == d1 :> w1 @@ d2 :> w1 @@ d3 :> w2
FirstOfOne  == w1 :> d1
FirstOfTwo  == w1 :> d1 @@ w2 :> d3

In(w, command) == [command |-> command, place |-> w]
Mix(t1, t2, t3) == c1 :> t1 @@ c2 :> t2 @@ c3 :> t3

\* A query that may start an Owner, another command, and a third that meets them.
Meetings ==
    {Mix(In(w1, "query"), In(w1, k[1]), In(w1, k[2])) :
        k \in {<<"query", "status">>, <<"stop", "force">>, <<"restart", "query">>,
               <<"deny", "grant">>}}
        \cup {Mix(In(w1, "query"), In(w1, "deny"), In(w2, "revoke"))}

QueryAndRevoke == {c1 :> In(w1, "query") @@ c2 :> In(w1, "revoke")}
TwoQueries     == {c1 :> In(w1, "query") @@ c2 :> In(w1, "query")}

\* Behaviours in which the second command begins when the first one is over
\* and so is the Owner that it started.
OneAfterTheOther ==
    Init /\ [][/\ Next
               /\ pc[c2] = "idle" /\ pc'[c2] # "idle" => pc[c1] = "done" /\ owner[c1] = "gone"]_vars
=============================================================================
