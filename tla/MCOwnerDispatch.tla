-------------------------- MODULE MCOwnerDispatch --------------------------
(***************************************************************************)
(* Instances of OwnerDispatch for TLC.                                     *)
(***************************************************************************)
EXTENDS OwnerDispatch, TLC

CONSTANTS c1, c2, c3

FirstClient  == {c1}
TwoClients   == {c1, c2}
ThreeClients == {c1, c2, c3}

Mix(k1, k2, k3) == c1 :> k1 @@ c2 :> k2 @@ c3 :> k3

\* Two Queries with something else, and Stops that outdo each other.
Crowds ==
    {Mix("query", "query", k) : k \in {"local", "graceful", "force"}}
        \cup {Mix("query", "graceful", k) : k \in Control}

TwoQueries == {c1 :> "query" @@ c2 :> "query"}
=============================================================================
