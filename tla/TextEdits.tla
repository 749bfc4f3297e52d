------------------------------ MODULE TextEdits ------------------------------
(***************************************************************************)
(* The text arithmetic of the edit planner (mutation/planner.rs): LSP      *)
(* positions to byte offsets, the checks on one list of text edits, and    *)
(* the text the list produces; and the replay of the canonical byte edits  *)
(* when they are staged (mutation/application.rs).                         *)
(*                                                                         *)
(* A text is a sequence of scalars.  Of a scalar only its widths matter:   *)
(* its bytes in UTF-8 and its code units in UTF-16.                        *)
(***************************************************************************)
EXTENDS Integers, Sequences, FiniteSets, SequencesExt, FiniteSetsExt

CONSTANTS
    ByteWidth,      \* scalar -> bytes of its UTF-8 form, 1..4
    UnitWidth,      \* scalar -> code units of its UTF-16 form, 1..2
    Newline, CarriageReturn

ASSUME WidthsAssumption ==
    /\ DOMAIN ByteWidth = DOMAIN UnitWidth
    /\ \A c \in DOMAIN ByteWidth : ByteWidth[c] \in 1..4 /\ UnitWidth[c] \in 1..2
    /\ {Newline, CarriageReturn} \subseteq DOMAIN ByteWidth

Utf8 == "utf-8"
Utf16 == "utf-16"

NoOffset == -1

(* The width of the first i scalars of a text under a width function. *)
Width(text, i, width) == FoldFunctionOnSet(+, 0, [j \in 1..i |-> width[text[j]]], 1..i)

Offset(text, i) == Width(text, i, ByteWidth)

ByteLen(text) == Offset(text, Len(text))

(* The scalars of the bytes from first up to and without last; both are    *)
(* scalar boundaries.                                                      *)
Slice(text, first, last) ==
    LET inside(i) == Offset(text, i - 1) >= first /\ Offset(text, i) <= last
        chosen == {i \in 1..Len(text) : inside(i)}
    IN  [j \in 1..Cardinality(chosen) |-> text[Min(chosen) + j - 1]]

IsBoundary(text, offset) == \E i \in 0..Len(text) : Offset(text, i) = offset

-----------------------------------------------------------------------------
(* Positions                                                               *)

Newlines(text) == {i \in 1..Len(text) : text[i] = Newline}

(* How many scalars precede line n: those up to its n-th line feed. *)
LineStart(text, n) ==
    IF n = 0 THEN 0
    ELSE CHOOSE i \in Newlines(text) : Cardinality({j \in Newlines(text) : j <= i}) = n

(* split_inclusive('\n') yields a segment for line n. *)
HasLine(text, n) ==
    /\ n <= Cardinality(Newlines(text))
    /\ LineStart(text, n) < Len(text)

(* Line n without its line feed, and without a carriage return at its end. *)
LineText(text, n) ==
    LET first == LineStart(text, n)
        feeds == {i \in Newlines(text) : i > first}
        last  == IF feeds = {} THEN Len(text) ELSE Min(feeds) - 1
        line  == SubSeq(text, first + 1, last)
    IN  IF line # <<>> /\ Last(line) = CarriageReturn THEN Front(line) ELSE line

(* The byte a character count stands for, when it falls between scalars. *)
OffsetInLine(line, character, encoding) ==
    LET width == IF encoding = Utf8 THEN ByteWidth ELSE UnitWidth
        hits  == {i \in 0..Len(line) : Width(line, i, width) = character}
    IN  IF hits = {} THEN NoOffset ELSE Offset(line, Min(hits))

(* A position past the last line counts only as the empty line after a     *)
(* final line feed, or as the start of an empty text.                      *)
PositionToOffset(text, position, encoding) ==
    IF HasLine(text, position.line)
    THEN LET inline == OffsetInLine(LineText(text, position.line), position.character, encoding)
         IN  IF inline = NoOffset THEN NoOffset
             ELSE Offset(text, LineStart(text, position.line)) + inline
    ELSE IF /\ position.character = 0
            /\ \/ text = <<>> /\ position.line = 0
               \/ /\ text # <<>> /\ Last(text) = Newline
                  /\ position.line = Cardinality(Newlines(text))
         THEN ByteLen(text) ELSE NoOffset

-----------------------------------------------------------------------------
(* One list of edits                                                       *)

(* A range as the server states it, and the bytes it selects. *)
Parsed(text, edit, encoding, ordinal) ==
    [start   |-> PositionToOffset(text, edit.start, encoding),
     end     |-> PositionToOffset(text, edit.end, encoding),
     new     |-> edit.new,
     ordinal |-> ordinal]

(* Which problem one edit of the list has by itself, "none" if it has none.*)
EditProblem(text, edit, encoding) ==
    LET parsed == Parsed(text, edit, encoding, 0)
    IN  IF edit.form # "plain" THEN edit.form
        ELSE IF parsed.start = NoOffset \/ parsed.end = NoOffset
                \/ parsed.end < parsed.start THEN "invalid_range"
        ELSE "none"

ParsedEdits(text, edits, encoding) == {Parsed(text, edits[i], encoding, i) : i \in DOMAIN edits}

(* Sorted by start, end and the order in which the server listed them. *)
SortedEdits(text, edits, encoding) ==
    LET before(x, y) ==
            \/ x.start < y.start
            \/ x.start = y.start /\ x.end < y.end
            \/ x.start = y.start /\ x.end = y.end /\ x.ordinal < y.ordinal
    IN  SetToSortSeq(ParsedEdits(text, edits, encoding), before)

(* Neighbours of the sorted list that overlap, or start together while one *)
(* of them replaces something.                                             *)
Overlaps(sorted) ==
    \E i \in 1..Len(sorted) - 1 :
        LET left == sorted[i]  right == sorted[i + 1]
        IN  \/ right.start < left.end
            \/ /\ right.start = left.start
               /\ right.end # right.start \/ left.end # left.start

(* What the sorted edits make of the text: copy up to the edit, insert its *)
(* text, continue behind what it replaces.                                 *)
Result(text, sorted) ==
    LET step(acc, edit) == [out    |-> acc.out \o Slice(text, acc.cursor, edit.start) \o edit.new,
                            cursor |-> edit.end]
        all == FoldLeft(step, [out |-> <<>>, cursor |-> 0], sorted)
    IN  all.out \o Slice(text, all.cursor, ByteLen(text))

(* The replay of canonical byte edits over a text when they are staged: a  *)
(* range that goes back, or that splits a scalar, is refused.              *)
CanonicalRangesValid(text, edits) ==
    \A i \in DOMAIN edits :
        /\ edits[i].start >= (IF i = 1 THEN 0 ELSE edits[i - 1].end)
        /\ edits[i].end >= edits[i].start
        /\ IsBoundary(text, edits[i].start) /\ IsBoundary(text, edits[i].end)

-----------------------------------------------------------------------------
(* The reference: what the Language Server Protocol says a list of edits   *)
(* means.  Every range refers to the text before the whole list.           *)

(* Two byte ranges of one list exclude each other, compared with no order  *)
(* in mind and not only between neighbours.                                *)
RangesConflict(ranges) ==
    \E left, right \in ranges :
        /\ left # right /\ left.start <= right.start
        /\ \/ right.start < left.end
           \/ left.start = right.start /\ (left.end # left.start \/ right.end # right.start)

(* Scalar by scalar: what is inserted before the scalar, in the order of   *)
(* the list, and then the scalar itself unless an edit replaces it.        *)
EditedText(text, edits, encoding) ==
    LET parsed == [i \in DOMAIN edits |-> Parsed(text, edits[i], encoding, i)]
        insertedAt(offset) ==
            FlattenSeq([i \in DOMAIN edits |->
                IF parsed[i].start = offset THEN parsed[i].new ELSE <<>>])
        replaced(k) == \E i \in DOMAIN edits :
            parsed[i].start <= Offset(text, k - 1) /\ Offset(text, k) <= parsed[i].end
        piece(k) == insertedAt(Offset(text, k - 1)) \o (IF replaced(k) THEN <<>> ELSE <<text[k]>>)
    IN  FlattenSeq([k \in 1..Len(text) |-> piece(k)]) \o insertedAt(ByteLen(text))
=============================================================================
