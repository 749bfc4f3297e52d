--------------------------- MODULE MCDocumentSync ---------------------------
(***************************************************************************)
(* Instances of DocumentSync for TLC.                                      *)
(***************************************************************************)
EXTENDS DocumentSync, TLC

CONSTANTS a, b, c, short, long

ThreeUris == <<a, b, c>>
Sizes == short :> 1 @@ long :> 2
\* One Document, or two that may not fit together.
Lists == {<<>>, <<a>>, <<a, b>>, <<b, c>>}
=============================================================================
