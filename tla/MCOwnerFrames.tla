---------------------------- MODULE MCOwnerFrames ----------------------------
EXTENDS OwnerFrames, TLC

CONSTANTS a, b, c, d, e

MCUris == <<1, 2>>
MCBytes == [x |-> 2, y |-> 1]

Plot(queries, kinds, asks, cancellations) ==
    [queries |-> queries, kinds |-> kinds, asks |-> asks, cancels |-> cancellations]
Budget(versions, closings, publications, copies, reports) ==
    [versions |-> versions, closings |-> closings, publications |-> publications,
     copies |-> copies, reports |-> reports]

Quiet == Budget(0, 0, 0, 0, 0)

(* Two commands and their edits; more edits than a command may make;       *)
(* cancellations and a queue at its limit; and Diagnostics that are        *)
(* published, copied and pulled around a refresh.                          *)
MCScenes ==
    {<<Plot(<<TRUE, TRUE>>, {"edit"}, 2, 0), Quiet>>,
     <<Plot(<<TRUE>>, {"edit", "malformed_edit"}, 3, 0), Quiet>>,
     <<Plot(<<FALSE>>, {"call"}, 3, 1), Quiet>>,
     <<Plot(<<>>, {}, 0, 0), Budget(1, 1, 2, 1, 0)>>,
     <<Plot(<<>>, {}, 0, 0), Budget(1, 0, 1, 2, 1)>>,
     <<Plot(<<>>, {"refresh"}, 1, 0), Budget(1, 0, 0, 3, 2)>>}

MCPlots == {scene[1] : scene \in MCScenes}
MCBudgets == {scene[2] : scene \in MCScenes}
=============================================================================
