---------------------------- MODULE MCEditPlanner ----------------------------
(* Instances of EditPlanner: small trees with resource operations, and     *)
(* short texts with every pair of edits of a small menu.                   *)
EXTENDS EditPlanner

MCPaths == {<<"a">>, <<"b">>, <<"c">>, <<"a", "x">>, <<"a", "y">>, <<"b", "x">>, <<"b", "y">>,
            <<"c", "x">>, <<"c", "y">>}

\* x: one byte; e: e with acute; g: an emoji; n: line feed; r: carriage return
MCByteWidth == [x |-> 1, y |-> 1, e |-> 2, g |-> 4, n |-> 1, r |-> 1]
MCUnitWidth == [x |-> 1, y |-> 1, e |-> 1, g |-> 2, n |-> 1, r |-> 1]

File(path, text) == [kind |-> "file", id |-> path, text |-> text]
Dir(path) == [kind |-> "directory", id |-> path, text |-> <<>>]
Other(path, kind) == [kind |-> kind, id |-> path, text |-> <<"x">>]

(* A disk that holds the given nodes. *)
DiskOf(nodes) == [p \in Paths |-> IF \E n \in nodes : n.id = p
                                  THEN CHOOSE n \in nodes : n.id = p ELSE MissingNode]

FullDisk == DiskOf({Dir(<<"a">>), File(<<"a", "x">>, <<"g", "x">>), File(<<"b">>, <<"y">>),
                    File(<<"c">>, <<"g", "e", "x">>)})
TwoDirs == DiskOf({Dir(<<"a">>), File(<<"a", "x">>, <<"x">>), Dir(<<"b">>), File(<<"b", "y">>, <<"y">>)})
OddDisk == DiskOf({Dir(<<"a">>), Other(<<"a", "x">>, "link"), Dir(<<"b">>), Other(<<"b", "x">>, "hardlink"),
                   File(<<"c">>, <<"y", "n">>)})

Op(kind, path) == [kind |-> kind, path |-> path, new |-> path, form |-> "plain", overwrite |-> FALSE,
                   ignore |-> FALSE, recursive |-> FALSE, version |-> NoVersion, edits |-> <<>>]

At(line, character) == [line |-> line, character |-> character]
Edit(first, last, new) == [start |-> first, end |-> last, new |-> new, form |-> "plain"]
Insertion(new) == Edit(At(0, 0), At(0, 0), new)

Creates(paths) ==
    {[Op("create", p) EXCEPT !.overwrite = f[1], !.ignore = f[2]] :
        p \in paths, f \in {<<FALSE, FALSE>>, <<TRUE, FALSE>>, <<FALSE, TRUE>>}}
Renames(pairs) ==
    {[Op("rename", p[1]) EXCEPT !.new = p[2], !.overwrite = f[1], !.ignore = f[2]] :
        p \in pairs, f \in {<<FALSE, FALSE>>, <<TRUE, FALSE>>}}
Deletes(paths) ==
    {[Op("delete", p) EXCEPT !.recursive = f[1], !.ignore = f[2]] :
        p \in paths, f \in {<<FALSE, FALSE>>, <<TRUE, TRUE>>}}
Texts(paths) == {[Op("text", p) EXCEPT !.edits = <<Insertion(<<"e">>)>>] : p \in paths}

A == <<"a">>
B == <<"b">>
C == <<"c">>
InA == <<"a", "x">>
InB == <<"b", "x">>

TreeOffers ==
    Creates({B, InB}) \cup Deletes({A, B, InA}) \cup Texts({InA, InB, B})
        \cup Renames({<<A, B>>, <<B, A>>, <<InA, C>>, <<C, InA>>, <<InA, InB>>, <<B, InA>>})
        \cup {[Op("rename", A) EXCEPT !.new = InA], [Op("rename", A) EXCEPT !.new = C, !.ignore = TRUE],
              [Op("text", B) EXCEPT !.version = <<"y">>], [Op("text", InA) EXCEPT !.version = <<"y">>],
              [Op("text", B) EXCEPT !.form = "unknown_operation"]}

(* Text scenes: one file, two edits of a menu. *)
Positions == {At(0, 0), At(0, 1), At(0, 2), At(0, 3), At(1, 0), At(1, 1), At(2, 0)}
Before(p, q) == p.line < q.line \/ (p.line = q.line /\ p.character <= q.character)
MenuEdits ==
    {Edit(r[1], r[2], new) : r \in {q \in Positions \X Positions : Before(q[1], q[2])},
                             new \in {<<>>, <<"y", "e">>}}
        \cup {Edit(At(1, 0), At(0, 1), <<>>)}
TextOffers ==
    {[Op("text", C) EXCEPT !.edits = <<e1, e2>>] : e1 \in MenuEdits, e2 \in MenuEdits}
        \cup {[Op("text", C) EXCEPT !.edits = <<[Insertion(<<"x">>) EXCEPT !.form = "snippet_edit_unsupported"]>>]}

TextScene(text, encoded) ==
    [disk |-> DiskOf({File(C, text)}), offers |-> TextOffers, length |-> 1, encoding |-> encoded]

TreeScene(d) == [disk |-> d, offers |-> TreeOffers, length |-> 3, encoding |-> Utf16]

MCScenes ==
    <<TreeScene(FullDisk), TreeScene(TwoDirs), TreeScene(OddDisk),
      TextScene(<<"g", "e", "n", "x", "r", "n">>, Utf16),
      TextScene(<<"e", "x", "r", "n", "g">>, Utf8)>>

(* Three files and the names to exchange them. *)
SwapScenes ==
    <<[disk |-> DiskOf({File(A, <<"x">>), File(B, <<"y">>)}),
       offers |-> Renames({<<A, C>>, <<B, A>>, <<C, B>>}) \cup Texts({A, B}), length |-> 4, encoding |-> Utf8]>>
=============================================================================
