------------------------- MODULE DocumentSync_proofs -------------------------
(***************************************************************************)
(* Theorems about DocumentSync, for any Documents, texts, sizes and        *)
(* limits.                                                                 *)
(*                                                                         *)
(* A refresh is proved about as a whole (RefreshFact): the store it leaves *)
(* lists what it holds and is within its limits, the events it gives and   *)
(* those it leaves in the store bring the server there (Reaches), and a    *)
(* version it gives is a new one (Dated).  What a request has brought so   *)
(* far are the Documents used last (Latest), so that an eviction, which    *)
(* takes the oldest and no more than it must, never takes one of them.     *)
(***************************************************************************)
EXTENDS DocumentSync, FoldTheorems

\* The Documents that are open, with their snapshots.
OpenMap == [Doc -> Snapshot \cup {Closed}]

-----------------------------------------------------------------------------
(* Sums *)

\* A sum of numbers is a fold with addition.
LEMMA SumFolded ==
  ASSUME NEW q \in Seq(Nat)
  PROVE  \E F : /\ Folds(Nat, Nat, F, 0, q) /\ SumOf(q) = Folded(F, 0, q)
                /\ F = [p \in Nat \X Nat |-> p[1] + p[2]]
<1> DEFINE F == [p \in Nat \X Nat |-> p[1] + p[2]]
<1>1. Folds(Nat, Nat, F, 0, q) /\ \A m, n \in Nat : F[<<m, n>>] = m + n
  BY DEF Folds
<1>0. F = [p \in Nat \X Nat |-> p[1] + p[2]]
  OBVIOUS
<1> HIDE DEF F
<1> DEFINE Rec(it) == [s \in SUBSET (1..Len(q)) |-> IF s = {} THEN 0 ELSE it[s \ {Max(s)}] + q[Max(s)]]
           I == CHOOSE it : it = Rec(it)
<1>2. \E it : it = Rec(it)
  <2>1. PICK it : Recursion(Nat, Nat, F, 0, q, it)
    BY <1>1, FoldLeftExists
  <2>2. it = Rec(it)
    BY <1>1, <2>1 DEF Recursion
  <2> QED BY <2>2
<1>3. I = Rec(I)
  <2> HIDE DEF Rec
  <2> QED BY <1>2
<1>4. SumOf(q) = I[1..Len(q)]
  <2>1. DOMAIN q = 1..Len(q)
    OBVIOUS
  <2> QED BY <2>1, Zenon DEF SumOf, FoldLeft, MapThenFoldSet
<1> HIDE DEF I
<1>5. Iterates(Nat, Nat, F, 0, q, I)
  BY <1>1, <1>3 DEF Iterates
<1>6. SumOf(q) = Folded(F, 0, q)
  BY <1>1, <1>4, <1>5, FoldedIter
<1> QED BY <1>0, <1>1, <1>6

\* The sum of no numbers.
LEMMA SumEmpty == SumOf(<<>>) = 0
<1>1. <<>> \in Seq(Nat)
  OBVIOUS
<1> QED BY <1>1, SumFolded, FoldedEmpty

\* The sum of one number more.
LEMMA SumAppend ==
  ASSUME NEW q \in Seq(Nat), NEW n \in Nat
  PROVE  SumOf(q) \in Nat /\ SumOf(Append(q, n)) = SumOf(q) + n
<1> DEFINE F == [p \in Nat \X Nat |-> p[1] + p[2]]
<1>1. Append(q, n) \in Seq(Nat)
  OBVIOUS
<1>2. Folds(Nat, Nat, F, 0, q) /\ SumOf(q) = Folded(F, 0, q)
  BY SumFolded
<1>3. SumOf(Append(q, n)) = Folded(F, 0, Append(q, n))
  BY <1>1, SumFolded
<1>4. \A m \in Nat : F[<<m, n>>] = m + n
  OBVIOUS
<1> HIDE DEF F
<1>5. Folded(F, 0, Append(q, n)) = F[<<Folded(F, 0, q), n>>]
  BY <1>2, FoldedAppend
<1>6. Folded(F, 0, q) \in Nat
  BY <1>2, FoldedType
<1> QED BY <1>2, <1>3, <1>4, <1>5, <1>6

\* A sum can be taken in two parts.
LEMMA SumConcat ==
  ASSUME NEW p \in Seq(Nat)
  PROVE  \A q \in Seq(Nat) : SumOf(p) \in Nat /\ SumOf(q) \in Nat /\ SumOf(p \o q) = SumOf(p) + SumOf(q)
<1> DEFINE G == {q \in Seq(Nat) : SumOf(q) \in Nat /\ SumOf(p \o q) = SumOf(p) + SumOf(q)}
<1>0. SumOf(p) \in Nat
  BY SumAppend
<1>1. <<>> \in G
  <2>1. p \o <<>> = p /\ <<>> \in Seq(Nat)
    OBVIOUS
  <2> QED BY <1>0, <2>1, SumEmpty
<1>2. \A q \in Seq(Nat), n \in Nat : q \in G => Append(q, n) \in G
  <2> SUFFICES ASSUME NEW q \in Seq(Nat), NEW n \in Nat, q \in G PROVE Append(q, n) \in G
    OBVIOUS
  <2>1. p \o Append(q, n) = Append(p \o q, n) /\ p \o q \in Seq(Nat) /\ Append(q, n) \in Seq(Nat)
    OBVIOUS
  <2>2. SumOf(Append(p \o q, n)) = SumOf(p \o q) + n /\ SumOf(Append(q, n)) = SumOf(q) + n
    BY <2>1, SumAppend
  <2>3. SumOf(q) \in Nat /\ SumOf(p \o q) = SumOf(p) + SumOf(q)
    OBVIOUS
  <2>4. SumOf(Append(q, n)) \in Nat /\ SumOf(p \o Append(q, n)) = SumOf(p) + SumOf(Append(q, n))
    BY <1>0, <2>1, <2>2, <2>3
  <2> QED BY <2>1, <2>4
<1>3. Seq(Nat) \subseteq G
  <2> HIDE DEF G
  <2> QED BY <1>1, <1>2, SeqSet
<1> QED BY <1>0, <1>3

-----------------------------------------------------------------------------
(* The bytes of the Documents in a list *)

\* The size of a Document is a number.
LEMMA BytesType ==
  ASSUME NEW open \in OpenMap, NEW d \in Doc
  PROVE  Bytes(open[d]) \in Nat
BY ConstantAssumption DEF Bytes, OpenMap, Snapshot

BytesIn(open, q) == [i \in DOMAIN q |-> Bytes(open[q[i]])]

\* The sizes of a list of Documents are as many numbers.
LEMMA BytesInType ==
  ASSUME NEW open \in OpenMap, NEW q \in Seq(Doc)
  PROVE  BytesIn(open, q) \in Seq(Nat) /\ Len(BytesIn(open, q)) = Len(q)
<1>1. \A i \in 1..Len(q) : Bytes(open[q[i]]) \in Nat
  BY BytesType
<1>2. BytesIn(open, q) = [i \in 1..Len(q) |-> Bytes(open[q[i]])]
  BY DEF BytesIn
<1> QED BY <1>1, <1>2, IsASeq, LenProperties

\* TotalBytes adds them up.
LEMMA TotalIsSum ==
  ASSUME NEW open, NEW q
  PROVE  TotalBytes(open, q) = SumOf(BytesIn(open, q))
BY DEF TotalBytes, BytesIn

\* No Documents have no bytes.
LEMMA TotalEmpty == ASSUME NEW open PROVE TotalBytes(open, <<>>) = 0
<1>1. BytesIn(open, <<>>) = <<>>
  BY DEF BytesIn
<1> QED BY <1>1, SumEmpty, TotalIsSum

\* The bytes of two lists are those of the one and those of the other.
LEMMA TotalConcat ==
  ASSUME NEW open \in OpenMap, NEW p \in Seq(Doc), NEW q \in Seq(Doc)
  PROVE  /\ TotalBytes(open, p) \in Nat /\ TotalBytes(open, q) \in Nat
         /\ TotalBytes(open, p \o q) = TotalBytes(open, p) + TotalBytes(open, q)
<1>1. BytesIn(open, p) \in Seq(Nat) /\ Len(BytesIn(open, p)) = Len(p)
  BY BytesInType
<1>2. BytesIn(open, q) \in Seq(Nat) /\ Len(BytesIn(open, q)) = Len(q)
  BY BytesInType
<1>3. BytesIn(open, p \o q) = BytesIn(open, p) \o BytesIn(open, q)
  <2>1. \A i \in 1..Len(p) : (p \o q)[i] = p[i]
    OBVIOUS
  <2>2. \A i \in (Len(p) + 1)..(Len(p) + Len(q)) : (p \o q)[i] = q[i - Len(p)] /\ i - Len(p) \in 1..Len(q)
    OBVIOUS
  <2>3. p \o q \in Seq(Doc) /\ Len(p \o q) = Len(p) + Len(q)
    OBVIOUS
  <2> DEFINE b == BytesIn(open, p \o q)
             c == BytesIn(open, p) \o BytesIn(open, q)
  <2>4. b \in Seq(Nat) /\ c \in Seq(Nat) /\ Len(b) = Len(p) + Len(q) /\ Len(c) = Len(p) + Len(q)
    <3>1. b \in Seq(Nat) /\ Len(b) = Len(p \o q)
      BY <2>3, BytesInType
    <3>2. c \in Seq(Nat) /\ Len(c) = Len(BytesIn(open, p)) + Len(BytesIn(open, q))
      BY <1>1, <1>2, ConcatProperties
    <3> HIDE DEF b, c
    <3> QED BY <1>1, <1>2, <2>3, <3>1, <3>2
  <2>5. ASSUME NEW i \in 1..(Len(p) + Len(q)) PROVE b[i] = c[i]
    <3>1. b[i] = Bytes(open[(p \o q)[i]])
      BY <2>3 DEF BytesIn
    <3>2. CASE i \in 1..Len(p)
      <4>1. c[i] = BytesIn(open, p)[i]
        BY <1>1, <1>2, <3>2
      <4> QED BY <2>1, <3>1, <3>2, <4>1 DEF BytesIn
    <3>3. CASE i \in (Len(p) + 1)..(Len(p) + Len(q))
      <4>1. c[i] = BytesIn(open, q)[i - Len(p)]
        BY <1>1, <1>2, <3>3
      <4> QED BY <2>2, <3>1, <3>3, <4>1 DEF BytesIn
    <3> HIDE DEF b, c
    <3>4. Len(p) \in Nat /\ Len(q) \in Nat
      OBVIOUS
    <3> QED BY <3>2, <3>3, <3>4
  <2> HIDE DEF b, c
  <2>6. b = c
    BY <2>4, <2>5, SeqEqual
  <2> QED BY <2>6 DEF b, c
<1> QED BY <1>1, <1>2, <1>3, SumConcat, TotalIsSum

\* The bytes of one Document.
LEMMA TotalSingle ==
  ASSUME NEW open \in OpenMap, NEW d \in Doc
  PROVE  TotalBytes(open, <<d>>) = Bytes(open[d])
<1>1. BytesIn(open, <<d>>) = Append(<<>>, Bytes(open[d]))
  BY DEF BytesIn
<1>2. <<>> \in Seq(Nat) /\ Bytes(open[d]) \in Nat
  BY BytesType
<1>3. SumOf(Append(<<>>, Bytes(open[d]))) = SumOf(<<>>) + Bytes(open[d])
  BY <1>2, SumAppend
<1> QED BY <1>1, <1>2, <1>3, SumEmpty, TotalIsSum

\* Only the Documents in the list count.
LEMMA TotalSame ==
  ASSUME NEW open, NEW other, NEW q \in Seq(Doc), \A i \in 1..Len(q) : other[q[i]] = open[q[i]]
  PROVE  TotalBytes(other, q) = TotalBytes(open, q)
<1>1. BytesIn(other, q) = BytesIn(open, q)
  BY DEF BytesIn
<1> QED BY <1>1, TotalIsSum

-----------------------------------------------------------------------------
(* Lists of Documents without repetition *)

\* r is q without its member i.
IsWithout(q, r, i) ==
    /\ r \in Seq(Doc) /\ Len(r) = Len(q) - 1
    /\ \A j \in 1..Len(r) : r[j] = IF j < i THEN q[j] ELSE q[j + 1]

\* RemoveFirst leaves a list alone that does not hold what it looks for.
LEMMA RemoveAbsent ==
  ASSUME NEW q \in Seq(Doc), NEW d, d \notin Range(q)
  PROVE  RemoveFirst(q, d) = q
<1>1. ~ \E i \in 1..Len(q) : q[i] = d
  BY DEF Range
<1> QED BY <1>1 DEF RemoveFirst

\* From a list without repetition it removes the one place.
LEMMA RemovePresent ==
  ASSUME NEW q \in Seq(Doc), IsInjective(q), NEW i \in 1..Len(q)
  PROVE  RemoveFirst(q, q[i]) = SubSeq(q, 1, i - 1) \o SubSeq(q, i + 1, Len(q))
<1>1. {j \in 1..Len(q) : q[j] = q[i]} = {i}
  BY DEF IsInjective
<1>2. Min({i}) = i
  BY DEF Min
<1>3. SelectInSeq(q, LAMBDA v : v = q[i]) = i
  BY <1>1, <1>2 DEF SelectInSeq
<1>4. RemoveFirst(q, q[i]) = RemoveAt(q, SelectInSeq(q, LAMBDA v : v = q[i]))
  BY DEF RemoveFirst
<1> QED BY <1>3, <1>4 DEF RemoveAt

\* What it leaves, place by place.
LEMMA RemoveIsWithout ==
  ASSUME NEW q \in Seq(Doc), IsInjective(q), NEW i \in 1..Len(q)
  PROVE  IsWithout(q, RemoveFirst(q, q[i]), i)
<1> DEFINE h == SubSeq(q, 1, i - 1)
           t == SubSeq(q, i + 1, Len(q))
<1>1. h \in Seq(Doc) /\ Len(h) = i - 1 /\ \A j \in 1..(i - 1) : h[j] = q[j]
  OBVIOUS
<1>2. t \in Seq(Doc) /\ Len(t) = Len(q) - i /\ \A j \in 1..(Len(q) - i) : t[j] = q[i + j]
  OBVIOUS
<1>3. RemoveFirst(q, q[i]) = h \o t
  BY RemovePresent
<1> HIDE DEF h, t
<1>4. h \o t \in Seq(Doc) /\ Len(h \o t) = Len(q) - 1
  BY <1>1, <1>2
<1>5. ASSUME NEW j \in 1..(Len(q) - 1) PROVE (h \o t)[j] = IF j < i THEN q[j] ELSE q[j + 1]
  <2>1. CASE j < i
    BY <1>1, <1>2, <2>1
  <2>2. CASE ~ (j < i)
    <3>1. (h \o t)[j] = t[j - (i - 1)] /\ j - (i - 1) \in 1..(Len(q) - i)
      BY <1>1, <1>2, <2>2
    <3>2. i + (j - (i - 1)) = j + 1
      OBVIOUS
    <3> QED BY <1>2, <2>2, <3>1, <3>2
  <2> QED BY <2>1, <2>2
<1> QED BY <1>3, <1>4, <1>5 DEF IsWithout

\* What is left when a Document leaves a list.
LEMMA WithoutFact ==
  ASSUME NEW q \in Seq(Doc), IsInjective(q), NEW d \in Doc
  PROVE  LET r == RemoveFirst(q, d)
         IN  /\ r \in Seq(Doc) /\ IsInjective(r) /\ Range(r) = Range(q) \ {d}
             /\ Len(r) = IF d \in Range(q) THEN Len(q) - 1 ELSE Len(q)
<1> DEFINE r == RemoveFirst(q, d)
<1>1. CASE d \notin Range(q)
  BY <1>1, RemoveAbsent
<1>2. CASE d \in Range(q)
  <2>1. PICK i \in 1..Len(q) : q[i] = d
    BY <1>2 DEF Range
  <2>2. IsWithout(q, r, i)
    BY <2>1, RemoveIsWithout
  <2> HIDE DEF r
  <2>3. DOMAIN q = 1..Len(q) /\ DOMAIN r = 1..(Len(q) - 1) /\ Len(q) \in Nat
    BY <2>2 DEF IsWithout
  <2>4. \A j \in DOMAIN r : r[j] = q[IF j < i THEN j ELSE j + 1]
    BY <2>2, <2>3 DEF IsWithout
  <2>5. \A j \in DOMAIN r : (IF j < i THEN j ELSE j + 1) \in DOMAIN q \ {i}
    BY <2>3
  <2>6. IsInjective(r)
    <3> SUFFICES ASSUME NEW j \in DOMAIN r, NEW k \in DOMAIN r, r[j] = r[k] PROVE j = k
      BY DEF IsInjective
    <3>1. (IF j < i THEN j ELSE j + 1) = (IF k < i THEN k ELSE k + 1)
      BY <2>4, <2>5 DEF IsInjective
    <3> QED BY <2>3, <3>1
  <2>7. \A k \in DOMAIN q \ {i} : \E j \in DOMAIN r : q[k] = r[j]
    <3> SUFFICES ASSUME NEW k \in DOMAIN q \ {i} PROVE \E j \in DOMAIN r : q[k] = r[j]
      OBVIOUS
    <3>1. CASE k < i
      <4>1. k \in DOMAIN r
        BY <2>3, <3>1
      <4> QED BY <2>4, <3>1, <4>1
    <3>2. CASE k > i
      <4>1. k - 1 \in DOMAIN r /\ ~ (k - 1 < i) /\ (k - 1) + 1 = k
        BY <2>3, <3>2
      <4> QED BY <2>4, <4>1
    <3> QED BY <2>3, <3>1, <3>2
  <2>8. Range(r) = Range(q) \ {d}
    <3>1. \A j \in DOMAIN r : r[j] \in Range(q) /\ r[j] # d
      <4> SUFFICES ASSUME NEW j \in DOMAIN r PROVE r[j] \in Range(q) /\ r[j] # d
        OBVIOUS
      <4> DEFINE k == IF j < i THEN j ELSE j + 1
      <4>1. k \in DOMAIN q \ {i} /\ r[j] = q[k]
        BY <2>4, <2>5
      <4> HIDE DEF k
      <4> QED BY <2>1, <2>3, <4>1 DEF IsInjective, Range
    <3>2. \A x \in Range(q) \ {d} : x \in Range(r)
      BY <2>1, <2>7 DEF Range
    <3> QED BY <3>1, <3>2 DEF Range
  <2> QED BY <1>2, <2>2, <2>6, <2>8 DEF IsWithout, r
<1> QED BY <1>1, <1>2

\* What the others weigh.
LEMMA TotalWithout ==
  ASSUME NEW open \in OpenMap, NEW q \in Seq(Doc), IsInjective(q), NEW d \in Range(q)
  PROVE  /\ TotalBytes(open, q) \in Nat /\ TotalBytes(open, RemoveFirst(q, d)) \in Nat
         /\ TotalBytes(open, q) = TotalBytes(open, RemoveFirst(q, d)) + Bytes(open[d])
<1>1. PICK i \in 1..Len(q) : q[i] = d
  BY DEF Range
<1> DEFINE h == SubSeq(q, 1, i - 1)
           t == SubSeq(q, i + 1, Len(q))
<1>2. d \in Doc /\ h \in Seq(Doc) /\ t \in Seq(Doc) /\ <<d>> \in Seq(Doc) /\ h \o <<d>> \in Seq(Doc)
  BY <1>1
<1>3. q = (h \o <<d>>) \o t
  <2>1. SubSeq(q, 1, i) = h \o <<d>>
    BY <1>1, SubSeqRecursiveSecond
  <2>2. SubSeq(q, 1, i) \o t = SubSeq(q, 1, Len(q))
    BY ConcatAdjacentSubSeq
  <2> QED BY <2>1, <2>2, SubSeqFull
<1>4. RemoveFirst(q, d) = h \o t
  BY <1>1, RemovePresent
<1> HIDE DEF h, t
<1>5. TotalBytes(open, q) = TotalBytes(open, h \o <<d>>) + TotalBytes(open, t)
  BY <1>2, <1>3, TotalConcat
<1>6. TotalBytes(open, h \o <<d>>) = TotalBytes(open, h) + Bytes(open[d])
  BY <1>2, TotalConcat, TotalSingle
<1>7. TotalBytes(open, h \o t) = TotalBytes(open, h) + TotalBytes(open, t)
  BY <1>2, TotalConcat
<1>8. TotalBytes(open, h) \in Nat /\ TotalBytes(open, t) \in Nat /\ Bytes(open[d]) \in Nat
  BY <1>2, TotalConcat, BytesType
<1> QED BY <1>4, <1>5, <1>6, <1>7, <1>8

-----------------------------------------------------------------------------
(* Evictions *)

\* remove keeps the type of the store.
LEMMA RemovedType ==
  ASSUME NEW s \in Store, NEW d \in Doc
  PROVE  Removed(s, d) \in Store
<1>1. RemoveFirst(s.used, d) \in Seq(Doc)
  <2>1. CASE \E i \in 1..Len(s.used) : s.used[i] = d
    <3>1. {i \in 1..Len(s.used) : s.used[i] = d} # {}
      BY <2>1
    <3>2. SelectInSeq(s.used, LAMBDA v : v = d) \in 1..Len(s.used)
      <4> DEFINE I == {i \in 1..Len(s.used) : s.used[i] = d}
      <4>1. I \in SUBSET Nat /\ I # {}
        BY <3>1
      <4>2. \E x \in I : \A y \in I : x <= y
        <5> HIDE DEF I
        <5> QED BY <4>1, LeastNumber
      <4>3. Min(I) \in I
        <5> HIDE DEF I
        <5> QED BY <4>2 DEF Min
      <4> QED BY <3>1, <4>3 DEF SelectInSeq
    <3>3. \A i \in 1..Len(s.used) : RemoveAt(s.used, i) \in Seq(Doc)
      <4> SUFFICES ASSUME NEW i \in 1..Len(s.used) PROVE RemoveAt(s.used, i) \in Seq(Doc)
        OBVIOUS
      <4>1. s.used \in Seq(Doc)
        BY DEF Store
      <4>2. SubSeq(s.used, 1, i - 1) \in Seq(Doc) /\ SubSeq(s.used, i + 1, Len(s.used)) \in Seq(Doc)
        BY <4>1
      <4> QED BY <4>2 DEF RemoveAt
    <3> QED BY <2>1, <3>2, <3>3 DEF RemoveFirst
  <2>2. CASE ~ \E i \in 1..Len(s.used) : s.used[i] = d
    BY <2>2 DEF RemoveFirst, Store
  <2> QED BY <2>1, <2>2
<1>2. s.total \in Nat /\ (s.open[d] = Closed \/ s.open[d] \in Snapshot)
  BY DEF Store
<1>3. Minus(s.total, Bytes(s.open[d])) \in Nat
  BY <1>2, ConstantAssumption DEF Minus, Bytes, Snapshot
<1> QED BY <1>1, <1>3 DEF Removed, Store

\* Removing one Document after another is a fold over stores.
RemovedF == [p \in Store \X Doc |-> Removed(p[1], p[2])]

\* Removing several Documents is a fold.
LEMMA RemovedFolded ==
  ASSUME NEW s \in Store, NEW q \in Seq(Doc)
  PROVE  Folds(Store, Doc, RemovedF, s, q) /\ FoldLeft(Removed, s, q) = Folded(RemovedF, s, q)
<1> DEFINE F == RemovedF
<1>1. Folds(Store, Doc, F, s, q) /\ \A t \in Store, d \in Doc : F[<<t, d>>] = Removed(t, d)
  BY RemovedType DEF Folds, RemovedF
<1> HIDE DEF F
<1> DEFINE Rec(it) == [x \in SUBSET (1..Len(q)) |-> IF x = {} THEN s ELSE Removed(it[x \ {Max(x)}], q[Max(x)])]
           I == CHOOSE it : it = Rec(it)
<1>2. \E it : it = Rec(it)
  <2>1. PICK it : Recursion(Store, Doc, F, s, q, it)
    BY <1>1, FoldLeftExists
  <2>2. it = Rec(it)
    BY <1>1, <2>1 DEF Recursion
  <2> QED BY <2>2
<1>3. I = Rec(I)
  <2> HIDE DEF Rec
  <2> QED BY <1>2
<1>4. FoldLeft(Removed, s, q) = I[1..Len(q)]
  <2>1. DOMAIN q = 1..Len(q)
    OBVIOUS
  <2> QED BY <2>1, Zenon DEF FoldLeft, MapThenFoldSet
<1> HIDE DEF I
<1>5. Iterates(Store, Doc, F, s, q, I)
  BY <1>1, <1>3 DEF Iterates
<1> QED BY <1>1, <1>4, <1>5, FoldedIter DEF F

\* A store whose total is that of the Documents it lists, each of them once.
Exact(s) == s \in Store /\ IsInjective(s.used) /\ s.total = TotalBytes(s.open, s.used)

\* s without the k Documents that were not used for longest.
Rest(s, k) == SubSeq(s.used, k + 1, Len(s.used))
Evicted(s, k) ==
    [s EXCEPT !.open = [c \in Doc |-> IF \E i \in 1..k : s.used[i] = c THEN Closed ELSE s.open[c]],
              !.used = Rest(s, k), !.total = TotalBytes(s.open, Rest(s, k))]

\* What is left of the order of use when the oldest k are gone.
LEMMA RestFact ==
  ASSUME NEW s, s.used \in Seq(Doc), IsInjective(s.used), NEW k \in 0..Len(s.used)
  PROVE  /\ Rest(s, k) \in Seq(Doc) /\ Len(Rest(s, k)) = Len(s.used) - k /\ IsInjective(Rest(s, k))
         /\ \A j \in 1..(Len(s.used) - k) : Rest(s, k)[j] = s.used[k + j]
<1> DEFINE n == Len(s.used)
           r == Rest(s, k)
<1>1. r \in Seq(Doc) /\ Len(r) = n - k /\ \A j \in 1..(n - k) : r[j] = s.used[k + j]
  BY DEF Rest
<1>2. \A j \in 1..(n - k) : k + j \in DOMAIN s.used
  OBVIOUS
<1>3. DOMAIN r = 1..(n - k) /\ n \in Nat
  BY <1>1
<1> HIDE DEF n, r
<1>4. IsInjective(r)
  <2> SUFFICES ASSUME NEW i \in DOMAIN r, NEW j \in DOMAIN r, r[i] = r[j] PROVE i = j
    BY DEF IsInjective
  <2>1. k + i = k + j
    BY <1>1, <1>2, <1>3 DEF IsInjective
  <2> QED BY <1>3, <2>1
<1> QED BY <1>1, <1>4 DEF n, r

\* A store without its oldest k Documents is a store.
LEMMA EvictedType ==
  ASSUME NEW s, Exact(s), NEW k \in 0..Len(s.used)
  PROVE  Evicted(s, k) \in Store
<1>1. s.used \in Seq(Doc) /\ s.open \in OpenMap /\ s \in Store /\ IsInjective(s.used)
  BY DEF Exact, Store, OpenMap
<1>2. Rest(s, k) \in Seq(Doc)
  BY <1>1, RestFact
<1>3. TotalBytes(s.open, Rest(s, k)) \in Nat
  BY <1>1, <1>2, TotalConcat
<1>4. [c \in Doc |-> IF \E i \in 1..k : s.used[i] = c THEN Closed ELSE s.open[c]] \in OpenMap
  BY <1>1 DEF OpenMap
<1> QED BY <1>1, <1>2, <1>3, <1>4 DEF Evicted, Store, OpenMap

\* One more eviction.
LEMMA EvictOne ==
  ASSUME NEW s, Exact(s), NEW k \in 0..(Len(s.used) - 1)
  PROVE  Removed(Evicted(s, k), s.used[k + 1]) = Evicted(s, k + 1)
<1> DEFINE u == s.used
           n == Len(u)
           d == u[k + 1]
           r == Rest(s, k)
           e == Evicted(s, k)
<1>0. u \in Seq(Doc) /\ s.open \in OpenMap /\ s \in Store /\ IsInjective(u) /\ n \in Nat
  BY DEF Exact, Store, OpenMap
<1>1. k \in 0..n /\ k + 1 \in 0..n /\ k + 1 \in 1..n /\ d \in Doc
  BY <1>0
<1>2. r \in Seq(Doc) /\ Len(r) = n - k /\ IsInjective(r) /\ r[1] = d
  BY <1>0, <1>1, RestFact
<1>3. RemoveFirst(r, d) = Rest(s, k + 1)
  <2>1. 1 \in 1..Len(r)
    BY <1>0, <1>2
  <2>2. RemoveFirst(r, r[1]) = SubSeq(r, 1, 0) \o SubSeq(r, 2, Len(r))
    BY <1>2, <2>1, RemovePresent, 1 - 1 = 0, 1 + 1 = 2
  <2>3. SubSeq(r, 1, 0) = <<>>
    BY SubSeqEmpty
  <2>4. SubSeq(r, 2, Len(r)) = Rest(s, k + 1)
    <3>1. r # <<>>
      BY <1>2, <2>1
    <3>2. SubSeq(r, 2, Len(r)) = Tail(r)
      BY <1>2, <3>1, TailIsSubSeq
    <3>3. Tail(r) = SubSeq(u, (k + 1) + 1, n)
      BY <1>0, <1>1, HeadTailOfSubSeq DEF Rest
    <3> QED BY <3>2, <3>3 DEF Rest
  <2>5. SubSeq(r, 2, Len(r)) \in Seq(Doc)
    BY <1>2
  <2> QED BY <1>2, <2>2, <2>3, <2>5, <2>4
<1>4. /\ e.used = r /\ e.total = TotalBytes(s.open, r) /\ e.open[d] = s.open[d]
      /\ e.open = [c \in Doc |-> IF \E i \in 1..k : u[i] = c THEN Closed ELSE s.open[c]]
      /\ e = [s EXCEPT !.open = e.open, !.used = e.used, !.total = e.total]
  <2>1. ~ \E i \in 1..k : u[i] = d
    BY <1>0, <1>1 DEF IsInjective
  <2> QED BY <1>0, <1>1, <2>1 DEF Evicted, Store
<1>5. Minus(TotalBytes(s.open, r), Bytes(s.open[d])) = TotalBytes(s.open, Rest(s, k + 1))
  <2>1. d \in Range(r)
    BY <1>0, <1>1, <1>2 DEF Range
  <2>2. /\ TotalBytes(s.open, r) \in Nat /\ TotalBytes(s.open, Rest(s, k + 1)) \in Nat
        /\ TotalBytes(s.open, r) = TotalBytes(s.open, Rest(s, k + 1)) + Bytes(s.open[d])
    BY <1>0, <1>2, <1>3, <2>1, TotalWithout
  <2>3. Bytes(s.open[d]) \in Nat
    BY <1>0, <1>1, BytesType
  <2> QED BY <2>2, <2>3 DEF Minus
<1>6. [e.open EXCEPT ![d] = Closed]
         = [c \in Doc |-> IF \E i \in 1..(k + 1) : u[i] = c THEN Closed ELSE s.open[c]]
  <2>1. 1..(k + 1) = 1..k \cup {k + 1}
    BY <1>1
  <2> QED BY <1>4, <2>1
<1> HIDE DEF e, r, n, u, d
<1>7. Removed(e, d) = [e EXCEPT !.open = [e.open EXCEPT ![d] = Closed], !.used = RemoveFirst(r, d),
                                !.total = Minus(TotalBytes(s.open, r), Bytes(s.open[d]))]
  BY <1>4 DEF Removed
<1>8. Removed(e, d) = [s EXCEPT !.open = [e.open EXCEPT ![d] = Closed], !.used = RemoveFirst(r, d),
                                !.total = Minus(TotalBytes(s.open, r), Bytes(s.open[d]))]
  BY <1>0, <1>4, <1>7 DEF Store
<1> QED BY <1>3, <1>5, <1>6, <1>8 DEF Evicted, e, d, u

\* The evictions end in the store without the oldest Documents.
LEMMA EvictAll ==
  ASSUME NEW s, Exact(s), NEW k \in 0..Len(s.used)
  PROVE  FoldLeft(Removed, s, SubSeq(s.used, 1, k)) = Evicted(s, k)
<1> DEFINE u == s.used
           G == {m \in Nat : m <= Len(u) => Folded(RemovedF, s, SubSeq(u, 1, m)) = Evicted(s, m)}
<1>0. u \in Seq(Doc) /\ s.open \in OpenMap /\ s \in Store /\ Len(u) \in Nat
  BY DEF Exact, Store, OpenMap
<1>1. 0 \in G
  <2>1. SubSeq(u, 1, 0) = <<>> /\ Rest(s, 0) = u
    BY <1>0, SubSeqEmpty, SubSeqFull DEF Rest
  <2>2. Folded(RemovedF, s, <<>>) = s
    <3>1. <<>> \in Seq(Doc)
      OBVIOUS
    <3>2. Folds(Store, Doc, RemovedF, s, <<>>)
      BY <1>0, <3>1, RemovedFolded
    <3> QED BY <3>2, FoldedEmpty
  <2>3. [c \in Doc |-> IF \E i \in 1..0 : u[i] = c THEN Closed ELSE s.open[c]] = s.open
    BY <1>0 DEF OpenMap
  <2>4. Evicted(s, 0) = s
    BY <1>0, <2>1, <2>3 DEF Evicted, Exact, Store
  <2> QED BY <2>1, <2>2, <2>4
<1>2. \A m \in Nat : m \in G => m + 1 \in G
  <2> SUFFICES ASSUME NEW m \in Nat, m \in G, m + 1 <= Len(u)
               PROVE  Folded(RemovedF, s, SubSeq(u, 1, m + 1)) = Evicted(s, m + 1)
    OBVIOUS
  <2>1. m \in 0..(Len(u) - 1) /\ m \in 0..Len(u) /\ m + 1 \in 1..Len(u)
    BY <1>0
  <2>2. SubSeq(u, 1, m + 1) = Append(SubSeq(u, 1, m), u[m + 1]) /\ SubSeq(u, 1, m) \in Seq(Doc) /\ u[m + 1] \in Doc
    BY <1>0, <2>1
  <2>3. Folds(Store, Doc, RemovedF, s, SubSeq(u, 1, m))
    BY <1>0, <2>2, RemovedFolded
  <2>4. Folded(RemovedF, s, SubSeq(u, 1, m)) = Evicted(s, m)
    BY <1>0
  <2>5. Folded(RemovedF, s, SubSeq(u, 1, m + 1)) = RemovedF[<<Evicted(s, m), u[m + 1]>>]
    <3> DEFINE p == SubSeq(u, 1, m)
               d == u[m + 1]
    <3>1. Folded(RemovedF, s, Append(p, d)) = RemovedF[<<Folded(RemovedF, s, p), d>>]
      <4> HIDE DEF p, d
      <4> QED BY <2>2, <2>3, FoldedAppend DEF p, d
    <3> QED BY <2>2, <2>4, <3>1
  <2>6. Evicted(s, m) \in Store
    BY <2>1, EvictedType
  <2>7. RemovedF[<<Evicted(s, m), u[m + 1]>>] = Removed(Evicted(s, m), u[m + 1])
    BY <2>2, <2>6 DEF RemovedF
  <2> QED BY <2>1, <2>5, <2>7, EvictOne
<1>3. Nat \subseteq G
  <2> HIDE DEF G
  <2> QED BY <1>1, <1>2, NatSet
<1>4. SubSeq(u, 1, k) \in Seq(Doc)
  BY <1>0
<1>5. Folded(RemovedF, s, SubSeq(u, 1, k)) = Evicted(s, k)
  BY <1>0, <1>3
<1> QED BY <1>0, <1>4, <1>5, RemovedFolded

\* evict_to_limits stops as soon as the store is within its limits, and it can:
\* the Document in use, the last of the list, fits on its own.
Fits(s, k) == Len(s.used) - k <= MaxOpen /\ TotalBytes(s.open, Rest(s, k)) <= MaxTotal

\* evict_to_limits chooses the oldest k Documents for the least k after which the store
\* fits; the one in use, which was used last, is never among them.
LEMMA VictimsFact ==
  ASSUME NEW s, Exact(s), NEW d, Len(s.used) >= 1, s.used[Len(s.used)] = d, Bytes(s.open[d]) <= MaxTotal
  PROVE  \E k \in 0..(Len(s.used) - 1) :
            /\ Victims(s, d) = SubSeq(s.used, 1, k)
            /\ Fits(s, k) /\ \A j \in 0..(k - 1) : ~Fits(s, j)
<1> DEFINE u == s.used
           n == Len(u)
           others == RemoveFirst(u, d)
           Enough(k) == /\ n - k <= MaxOpen
                        /\ s.total - TotalBytes(s.open, SubSeq(others, 1, k)) <= MaxTotal
           K == CHOOSE k \in 0..Len(others) : Enough(k) /\ \A j \in 0..(k - 1) : ~Enough(j)
<1>0. u \in Seq(Doc) /\ s.open \in OpenMap /\ s \in Store /\ IsInjective(u) /\ n \in Nat /\ n >= 1
      /\ s.total = TotalBytes(s.open, u)
  BY DEF Exact, Store, OpenMap
<1>1. n \in 1..n /\ d \in Doc /\ d = u[n]
  BY <1>0
<1>2. others = SubSeq(u, 1, n - 1) /\ others \in Seq(Doc) /\ Len(others) = n - 1
  <2>1. others = SubSeq(u, 1, n - 1) \o SubSeq(u, n + 1, n)
    BY <1>0, <1>1, RemovePresent
  <2>2. SubSeq(u, n + 1, n) = <<>>
    BY <1>0, SubSeqEmpty
  <2>3. SubSeq(u, 1, n - 1) \in Seq(Doc) /\ Len(SubSeq(u, 1, n - 1)) = n - 1
    BY <1>0
  <2> HIDE DEF others
  <2> QED BY <2>1, <2>2, <2>3, ConcatEmptySeq
<1> HIDE DEF others
<1>3. ASSUME NEW k \in 0..(n - 1) PROVE SubSeq(others, 1, k) = SubSeq(u, 1, k)
  <2>1. SubSeq(others, 1, k) \in Seq(Doc) /\ Len(SubSeq(others, 1, k)) = k
        /\ \A i \in 1..k : SubSeq(others, 1, k)[i] = others[i]
    BY <1>0, <1>2
  <2>2. SubSeq(u, 1, k) \in Seq(Doc) /\ Len(SubSeq(u, 1, k)) = k
        /\ \A i \in 1..k : SubSeq(u, 1, k)[i] = u[i]
    BY <1>0
  <2>3. \A i \in 1..k : others[i] = u[i]
    BY <1>0, <1>2
  <2> QED BY <2>1, <2>2, <2>3, SeqEqual
<1>4. ASSUME NEW k \in 0..(n - 1) PROVE Enough(k) <=> Fits(s, k)
  <2>1. SubSeq(u, 1, k) \in Seq(Doc) /\ Rest(s, k) \in Seq(Doc)
    BY <1>0 DEF Rest
  <2>2. u = SubSeq(u, 1, k) \o Rest(s, k)
    <3>1. SubSeq(u, 1, k) \o SubSeq(u, k + 1, n) = SubSeq(u, 1, n)
      <4>1. 1 \in 1..(n + 1) /\ k \in (1 - 1)..n /\ n \in k..n
        BY <1>0
      <4> HIDE DEF u, n
      <4> QED BY <1>0, <4>1, ConcatAdjacentSubSeq DEF n
    <3> QED BY <1>0, <3>1, SubSeqFull DEF Rest
  <2>3. TotalBytes(s.open, SubSeq(u, 1, k) \o Rest(s, k))
           = TotalBytes(s.open, SubSeq(u, 1, k)) + TotalBytes(s.open, Rest(s, k))
        /\ TotalBytes(s.open, SubSeq(u, 1, k)) \in Nat /\ TotalBytes(s.open, Rest(s, k)) \in Nat
    BY <1>0, <2>1, TotalConcat
  <2>4. s.total - TotalBytes(s.open, SubSeq(others, 1, k)) = TotalBytes(s.open, Rest(s, k))
    <3> DEFINE m == TotalBytes(s.open, SubSeq(u, 1, k))
               t == TotalBytes(s.open, Rest(s, k))
    <3>1. s.total = m + t /\ m \in Nat /\ t \in Nat
      BY <1>0, <2>2, <2>3
    <3>2. TotalBytes(s.open, SubSeq(others, 1, k)) = m
      BY <1>3
    <3> HIDE DEF m, t
    <3> QED BY <3>1, <3>2 DEF t
  <2> QED BY <2>4 DEF Fits
<1>5. Fits(s, n - 1)
  <2>1. Rest(s, n - 1) = <<d>>
    <3>1. Rest(s, n - 1) = <<u[n]>> \o SubSeq(u, n + 1, n)
      BY <1>0, <1>1, SubSeqRecursiveFirst DEF Rest
    <3>2. SubSeq(u, n + 1, n) = <<>>
      BY <1>0, SubSeqEmpty
    <3> QED BY <1>1, <3>1, <3>2
  <2> QED BY <1>0, <1>1, <2>1, TotalSingle, ConstantAssumption DEF Fits
<1>6. \E k \in 0..Len(others) : Enough(k) /\ \A j \in 0..(k - 1) : ~Enough(j)
  <2> DEFINE T == {k \in 0..(n - 1) : Fits(s, k)}
  <2>1. T \in SUBSET Nat /\ T # {}
    BY <1>0, <1>5
  <2>2. PICK k \in T : \A j \in T : k <= j
    <3> HIDE DEF T
    <3> QED BY <2>1, LeastNumber
  <2>3. k \in 0..(n - 1) /\ Fits(s, k) /\ \A j \in 0..(k - 1) : j \in 0..(n - 1) /\ ~Fits(s, j)
    BY <1>0, <2>2
  <2> HIDE DEF Enough, T
  <2> QED BY <1>2, <1>4, <2>3
<1>7. K \in 0..(n - 1) /\ Enough(K) /\ \A j \in 0..(K - 1) : ~Enough(j)
  <2> HIDE DEF Enough
  <2> QED BY <1>2, <1>6
<1>8. Victims(s, d) = SubSeq(others, 1, K)
  BY DEF Victims, others
<1> HIDE DEF K, Enough
<1>9. \A j \in 0..(K - 1) : j \in 0..(n - 1)
  BY <1>0, <1>7
<1> QED BY <1>3, <1>4, <1>7, <1>8, <1>9

-----------------------------------------------------------------------------
(* A refresh *)

\* A store within its limits that lists what it holds.
GoodStore(s) ==
    /\ Exact(s)
    /\ Len(s.used) <= MaxOpen
    /\ s.total <= MaxTotal
    /\ Range(s.used) = {d \in Doc : s.open[d] # Closed}
StoreInv == GoodStore(store)

\* What Refresh computes on its way.
Same(d, lang) == store.open[d] # Closed /\ store.open[d].text = file[d] /\ store.open[d].lang = lang
New(d, lang) ==
    IF Same(d, lang) THEN store.open[d]
    ELSE [text |-> file[d], lang |-> lang, version |-> NextVersion(store, d)]
Entered(d, lang) ==
    [store EXCEPT !.open[d] = New(d, lang), !.used = Append(RemoveFirst(@, d), d),
                  !.versions[d] = IF Same(d, lang) THEN @ ELSE New(d, lang).version,
                  !.total = Minus(@, Bytes(store.open[d])) + Size[file[d]]]
Accepted(d) == Readable(d) /\ Size[file[d]] <= MaxTotal

\* Which Documents are open once the one that is refreshed has entered.
LEMMA EnteredOpen ==
  ASSUME StoreInv, NEW d, NEW lang
  PROVE  Entered(d, lang).open = [store.open EXCEPT ![d] = New(d, lang)]
BY DEF StoreInv, GoodStore, Exact, Store, Entered

\* What holds of the store e at that point, before anything is evicted, and of the snapshot
\* that has entered it.
HasEntered(d, lang, e, new) ==
  /\ file[d] \in Text /\ new \in Snapshot /\ new.text = file[d] /\ new.lang = lang
  /\ Exact(e) /\ Range(e.used) = {c \in Doc : e.open[c] # Closed}
  /\ e.open = [store.open EXCEPT ![d] = new]
  /\ e.used = Append(RemoveFirst(store.used, d), d)
  /\ e.pending = store.pending
  /\ e.versions = [store.versions EXCEPT ![d] = IF Same(d, lang) THEN @ ELSE @ + 1]
  /\ Len(e.used) >= 1 /\ e.used[Len(e.used)] = d /\ Bytes(e.open[d]) <= MaxTotal

LEMMA EnteredFact ==
  ASSUME StoreInv, file \in [Doc -> Text \cup {Unreadable}],
         NEW d \in Doc, NEW lang \in Language, Accepted(d)
  PROVE  HasEntered(d, lang, Entered(d, lang), New(d, lang))
<1> DEFINE e == Entered(d, lang)
           u == store.used
           r == RemoveFirst(u, d)
           new == New(d, lang)
<1>0. u \in Seq(Doc) /\ store.open \in OpenMap /\ store \in Store /\ IsInjective(u)
      /\ store.total = TotalBytes(store.open, u) /\ Range(u) = {c \in Doc : store.open[c] # Closed}
  BY DEF StoreInv, GoodStore, Exact, Store, OpenMap
<1>1. file[d] \in Text /\ Size[file[d]] \in Nat /\ Size[file[d]] <= MaxTotal
  BY ConstantAssumption DEF Accepted, Readable
<1>2. new \in Snapshot /\ new.text = file[d] /\ new.lang = lang
      /\ (~Same(d, lang) => new.version = store.versions[d] + 1)
  <2>1. store.versions[d] + 1 \in Nat
    BY <1>0 DEF Store
  <2>2. store.open[d] # Closed => store.open[d] \in Snapshot
    BY <1>0 DEF OpenMap
  <2> QED BY <1>1, <2>1, <2>2 DEF New, Same, NextVersion, Snapshot
<1>3. new # Closed /\ Bytes(new) = Size[file[d]]
  BY <1>2, ConstantAssumption DEF Snapshot, Bytes
<1> HIDE DEF new
<1>4. r \in Seq(Doc) /\ IsInjective(r) /\ Range(r) = Range(u) \ {d}
  BY <1>0, WithoutFact
<1>5. Append(r, d) \in Seq(Doc) /\ Len(Append(r, d)) = Len(r) + 1 /\ Append(r, d)[Len(r) + 1] = d
      /\ \A i \in 1..Len(r) : Append(r, d)[i] = r[i]
  BY <1>4
<1>6. IsInjective(Append(r, d)) /\ Range(Append(r, d)) = Range(u) \cup {d}
  <2>0. DOMAIN r = 1..Len(r) /\ DOMAIN Append(r, d) = 1..(Len(r) + 1) /\ Len(r) \in Nat
    BY <1>4, <1>5
  <2>1. \A i \in 1..Len(r) : r[i] # d /\ r[i] \in Range(u)
    BY <1>4, <2>0 DEF Range
  <2> HIDE DEF r
  <2>2. IsInjective(Append(r, d))
    BY <1>4, <1>5, <2>0, <2>1 DEF IsInjective
  <2>3. \A x \in Range(u) \ {d} : \E i \in 1..Len(r) : r[i] = x
    BY <1>4, <2>0 DEF Range
  <2>4. Range(Append(r, d)) \subseteq Range(u) \cup {d}
    BY <1>5, <2>0, <2>1 DEF Range
  <2>5. \A x \in Range(u) \cup {d} : \E i \in 1..(Len(r) + 1) : Append(r, d)[i] = x
    BY <1>5, <2>0, <2>3
  <2>6. Range(u) \cup {d} \subseteq Range(Append(r, d))
    BY <2>0, <2>5 DEF Range
  <2> QED BY <2>2, <2>4, <2>6
<1>7. Minus(store.total, Bytes(store.open[d])) = TotalBytes(store.open, r) /\ TotalBytes(store.open, r) \in Nat
  <2>1. CASE d \in Range(u)
    <3>1. /\ TotalBytes(store.open, u) \in Nat /\ TotalBytes(store.open, r) \in Nat
          /\ TotalBytes(store.open, u) = TotalBytes(store.open, r) + Bytes(store.open[d])
      BY <1>0, <2>1, TotalWithout
    <3>2. Bytes(store.open[d]) \in Nat
      BY <1>0, BytesType
    <3> QED BY <1>0, <3>1, <3>2 DEF Minus
  <2>2. CASE d \notin Range(u)
    <3>1. r = u /\ Bytes(store.open[d]) = 0
      BY <1>0, <2>2, RemoveAbsent DEF Bytes
    <3>2. TotalBytes(store.open, u) \in Nat
      BY <1>0, TotalConcat
    <3> QED BY <1>0, <3>1, <3>2 DEF Minus
  <2> QED BY <2>1, <2>2
<1> HIDE DEF r
<1>8. /\ e.open = [store.open EXCEPT ![d] = new] /\ e.used = Append(r, d)
      /\ e.pending = store.pending /\ e.total = TotalBytes(store.open, r) + Size[file[d]]
      /\ e.versions = [store.versions EXCEPT ![d] = IF Same(d, lang) THEN @ ELSE @ + 1]
      /\ e.open \in OpenMap
  <2>1. e.used = Append(r, d) /\ e.open = [store.open EXCEPT ![d] = new] /\ e.pending = store.pending
    BY <1>0 DEF Entered, Store, r, new
  <2>2. e.total = TotalBytes(store.open, r) + Size[file[d]]
    BY <1>0, <1>7 DEF Entered, Store
  <2>3. e.versions = [store.versions EXCEPT ![d] = IF Same(d, lang) THEN @ ELSE @ + 1]
    BY <1>0, <1>2 DEF Entered, Store, new
  <2>4. [store.open EXCEPT ![d] = new] \in OpenMap
    BY <1>0, <1>2 DEF OpenMap
  <2> QED BY <2>1, <2>2, <2>3, <2>4
<1>9. e \in Store
  <2>1. e.versions \in [Doc -> Nat]
    BY <1>0, <1>8 DEF Store
  <2>2. e.total \in Nat
    BY <1>1, <1>7, <1>8
  <2>3. e = [open |-> e.open, used |-> e.used, versions |-> e.versions, total |-> e.total, pending |-> e.pending]
    <3> DEFINE o == [store.open EXCEPT ![d] = New(d, lang)]
               x == Append(RemoveFirst(store.used, d), d)
               v == [store.versions EXCEPT ![d] = IF Same(d, lang) THEN @ ELSE New(d, lang).version]
               t == Minus(store.total, Bytes(store.open[d])) + Size[file[d]]
    <3>1. e = [store EXCEPT !.open = o, !.used = x, !.versions = v, !.total = t]
      BY DEF Entered
    <3> HIDE DEF o, x, v, t, e
    <3> QED BY <1>0, <3>1 DEF Store
  <2> HIDE DEF e
  <2> QED BY <1>0, <1>5, <1>8, <2>1, <2>2, <2>3 DEF Store, OpenMap
<1> HIDE DEF e
<1>10. e.total = TotalBytes(e.open, e.used)
  <2>1. r \in Seq(Doc) /\ <<d>> \in Seq(Doc) /\ Append(r, d) = r \o <<d>>
    BY <1>4
  <2>2. TotalBytes(e.open, Append(r, d)) = TotalBytes(e.open, r) + Bytes(e.open[d])
    <3> DEFINE o == e.open
               q == <<d>>
    <3>1. o \in OpenMap
      BY <1>8
    <3>2. TotalBytes(o, q) = Bytes(o[d])
      <4> HIDE DEF o
      <4> QED BY <3>1, TotalSingle
    <3>3. TotalBytes(o, r \o q) = TotalBytes(o, r) + TotalBytes(o, q)
      <4> HIDE DEF o, q
      <4> QED BY <2>1, <3>1, TotalConcat DEF q
    <3> QED BY <2>1, <3>2, <3>3
  <2>3. e.open[d] = new
    BY <1>0, <1>8 DEF OpenMap
  <2>4. \A i \in 1..Len(r) : e.open[r[i]] = store.open[r[i]]
    <3>1. \A i \in 1..Len(r) : r[i] # d /\ r[i] \in Doc
      BY <1>4 DEF Range
    <3> QED BY <1>0, <1>8, <3>1 DEF OpenMap
  <2>5. TotalBytes(e.open, r) = TotalBytes(store.open, r)
    BY <2>1, <2>4, TotalSame
  <2> QED BY <1>3, <1>8, <2>2, <2>3, <2>5
<1>11. Range(e.used) = {c \in Doc : e.open[c] # Closed}
  BY <1>0, <1>3, <1>6, <1>8 DEF OpenMap
<1>12. e.open[d] = new /\ Len(e.used) >= 1 /\ e.used[Len(e.used)] = d
  BY <1>0, <1>4, <1>5, <1>8 DEF OpenMap
<1>13. Exact(e)
  BY <1>6, <1>8, <1>9, <1>10 DEF Exact
<1>14. HasEntered(d, lang, e, new)
  BY <1>1, <1>2, <1>3, <1>8, <1>11, <1>12, <1>13 DEF HasEntered, r
<1> QED BY <1>14 DEF e, new

Closings(q) == [i \in 1..Len(q) |-> Closing(q[i])]
Replaced(d, lang) ==
    IF Same(d, lang) THEN <<>>
    ELSE (IF store.open[d] = Closed THEN <<>> ELSE <<Closing(d)>>) \o <<[uri |-> d, now |-> New(d, lang)]>>

\* A refresh of a Document that can be read and fits.
LEMMA RefreshAccepted ==
  ASSUME StoreInv, file \in [Doc -> Text \cup {Unreadable}],
         NEW d \in Doc, NEW lang \in Language, Accepted(d)
  PROVE  LET e == Entered(d, lang)
             r == Refresh(store, d, lang)
         IN  \E k \in 0..(Len(e.used) - 1) :
                /\ r.ok /\ r.store = Evicted(e, k)
                /\ r.events = Replaced(d, lang) \o Closings(SubSeq(e.used, 1, k))
                /\ Fits(e, k) /\ \A j \in 0..(k - 1) : ~Fits(e, j)
<1> DEFINE e == Entered(d, lang)
           r == Refresh(store, d, lang)
           victims == Victims(e, d)
<1>1. /\ Exact(e) /\ Len(e.used) >= 1 /\ e.used[Len(e.used)] = d /\ Bytes(e.open[d]) <= MaxTotal
  <2>1. HasEntered(d, lang, e, New(d, lang))
    BY EnteredFact
  <2> HIDE DEF e
  <2> QED BY <2>1 DEF HasEntered
<1>2. r = [ok |-> TRUE, store |-> FoldLeft(Removed, e, victims),
           events |-> Replaced(d, lang) \o [i \in 1..Len(victims) |-> Closing(victims[i])]]
  BY DEF Refresh, Accepted, Entered, Replaced, New, Same
<1> HIDE DEF e, r
<1>3. PICK k \in 0..(Len(e.used) - 1) :
         victims = SubSeq(e.used, 1, k) /\ Fits(e, k) /\ \A j \in 0..(k - 1) : ~Fits(e, j)
  BY <1>1, VictimsFact
<1>4. k \in 0..Len(e.used)
  BY <1>1, <1>3 DEF Exact, Store
<1>5. FoldLeft(Removed, e, victims) = Evicted(e, k)
  BY <1>1, <1>3, <1>4, EvictAll
<1> HIDE DEF victims
<1>6. r.ok /\ r.store = Evicted(e, k) /\ r.events = Replaced(d, lang) \o Closings(SubSeq(e.used, 1, k))
  BY <1>2, <1>3, <1>5 DEF Closings
<1> QED BY <1>3, <1>6 DEF e, r

\* A refresh of another.
LEMMA RefreshRejected ==
  ASSUME NEW d, NEW lang, ~Accepted(d)
  PROVE  LET r == Refresh(store, d, lang)
         IN  ~r.ok /\ r.store = CloseFailed(store, d) /\ r.events = <<>>
BY DEF Refresh, Accepted

\* Evictions leave a store that is within its limits.
LEMMA EvictedGood ==
  ASSUME NEW s, Exact(s), Range(s.used) = {c \in Doc : s.open[c] # Closed},
         NEW k \in 0..Len(s.used), Fits(s, k)
  PROVE  GoodStore(Evicted(s, k))
<1> DEFINE u == s.used
           n == Len(u)
           r == Rest(s, k)
           e == Evicted(s, k)
<1>0. u \in Seq(Doc) /\ s.open \in OpenMap /\ s \in Store /\ IsInjective(u) /\ n \in Nat /\ k \in 0..n
  BY DEF Exact, Store, OpenMap
<1>1. r \in Seq(Doc) /\ Len(r) = n - k /\ IsInjective(r) /\ \A j \in 1..(n - k) : r[j] = u[k + j]
  BY <1>0, RestFact
<1>2. /\ e \in Store /\ e.used = r /\ e.total = TotalBytes(s.open, r)
      /\ \A c \in Doc : e.open[c] = IF \E i \in 1..k : u[i] = c THEN Closed ELSE s.open[c]
  <2>1. e \in Store
    BY EvictedType
  <2> QED BY <1>0, <2>1 DEF Evicted, Store
<1> HIDE DEF e, r
<1>3. \A j \in 1..(n - k) : k + j \in 1..n /\ r[j] \in Doc /\ ~ \E i \in 1..k : u[i] = r[j]
  <2> SUFFICES ASSUME NEW j \in 1..(n - k)
               PROVE  k + j \in 1..n /\ r[j] \in Doc /\ ~ \E i \in 1..k : u[i] = r[j]
    OBVIOUS
  <2>1. k + j \in 1..n /\ k + j > k /\ r[j] = u[k + j] /\ DOMAIN u = 1..n
    BY <1>0, <1>1
  <2>2. ASSUME NEW i \in 1..k, u[i] = r[j] PROVE FALSE
    <3>1. i \in DOMAIN u /\ i # k + j
      BY <1>0, <2>1
    <3> QED BY <1>0, <2>1, <2>2, <3>1 DEF IsInjective
  <2>3. r[j] \in Doc
    BY <1>0, <2>1
  <2> QED BY <2>1, <2>2, <2>3
<1>4. \A j \in 1..Len(r) : e.open[r[j]] = s.open[r[j]]
  BY <1>1, <1>2, <1>3
<1>5. e.total = TotalBytes(e.open, e.used)
  BY <1>1, <1>2, <1>4, TotalSame
<1>6. Range(r) = {c \in Doc : e.open[c] # Closed}
  <2>0. DOMAIN r = 1..(n - k) /\ DOMAIN u = 1..n
    BY <1>0, <1>1
  <2>1. \A j \in 1..(n - k) : r[j] \in Doc /\ e.open[r[j]] # Closed
    <3>1. \A j \in 1..(n - k) : r[j] \in Range(u)
      BY <1>1, <1>3, <2>0 DEF Range
    <3> QED BY <1>1, <1>3, <1>4, <3>1
  <2>2. ASSUME NEW c \in Doc, e.open[c] # Closed PROVE \E j \in 1..(n - k) : r[j] = c
    <3>1. s.open[c] # Closed /\ ~ \E i \in 1..k : u[i] = c
      BY <1>2, <2>2
    <3>2. PICK i \in 1..n : u[i] = c
      BY <2>0, <3>1 DEF Range
    <3>3. i - k \in 1..(n - k) /\ k + (i - k) = i
      BY <1>0, <3>1, <3>2
    <3> QED BY <1>1, <3>2, <3>3
  <2> QED BY <2>0, <2>1, <2>2 DEF Range
<1>7. Len(r) <= MaxOpen /\ e.total <= MaxTotal
  BY <1>1, <1>2 DEF Fits, r
<1> QED BY <1>1, <1>2, <1>5, <1>6, <1>7 DEF GoodStore, Exact, e

\* So does the closing of a Document that cannot be read.
LEMMA CloseFailedGood ==
  ASSUME StoreInv, NEW d \in Doc
  PROVE  LET s == CloseFailed(store, d)
         IN  /\ GoodStore(s)
             /\ s.open = [store.open EXCEPT ![d] = Closed] /\ s.versions = store.versions
             /\ s.pending = IF store.open[d] = Closed THEN store.pending
                            ELSE Append(store.pending, Closing(d))
<1> DEFINE s == CloseFailed(store, d)
           u == store.used
           r == RemoveFirst(u, d)
<1>0. u \in Seq(Doc) /\ store.open \in OpenMap /\ store \in Store /\ IsInjective(u) /\ Len(u) \in Nat
      /\ store.total = TotalBytes(store.open, u) /\ Range(u) = {c \in Doc : store.open[c] # Closed}
      /\ Len(u) <= MaxOpen /\ store.total <= MaxTotal
  BY DEF StoreInv, GoodStore, Exact, Store, OpenMap
<1>1. CASE store.open[d] = Closed
  <2>1. s = store
    BY <1>1 DEF CloseFailed
  <2> QED BY <1>0, <1>1, <2>1 DEF StoreInv, OpenMap
<1>2. CASE store.open[d] # Closed
  <2>1. d \in Range(u)
    BY <1>0, <1>2
  <2>2. r \in Seq(Doc) /\ IsInjective(r) /\ Range(r) = Range(u) \ {d} /\ Len(r) = Len(u) - 1
    BY <1>0, <2>1, WithoutFact
  <2>3. /\ TotalBytes(store.open, u) \in Nat /\ TotalBytes(store.open, r) \in Nat
        /\ TotalBytes(store.open, u) = TotalBytes(store.open, r) + Bytes(store.open[d])
    BY <1>0, <2>1, TotalWithout
  <2>4. Bytes(store.open[d]) \in Nat
    BY <1>0, BytesType
  <2>5. Minus(store.total, Bytes(store.open[d])) = TotalBytes(store.open, r)
    BY <1>0, <2>3, <2>4 DEF Minus
  <2>6. Removed(store, d) \in Store
    BY <1>0, RemovedType
  <2>7. /\ s.open = [store.open EXCEPT ![d] = Closed] /\ s.versions = store.versions
        /\ s.used = r /\ s.total = TotalBytes(store.open, r) /\ s.pending = Append(store.pending, Closing(d))
        /\ s \in Store
    <3>1. s = [Removed(store, d) EXCEPT !.pending = Append(@, Closing(d))]
      BY <1>2 DEF CloseFailed
    <3>2. /\ Removed(store, d).open = [store.open EXCEPT ![d] = Closed]
          /\ Removed(store, d).versions = store.versions
          /\ Removed(store, d).used = r /\ Removed(store, d).total = TotalBytes(store.open, r)
          /\ Removed(store, d).pending = store.pending
      BY <1>0, <2>5 DEF Removed, Store
    <3>3. Append(store.pending, Closing(d)) \in Seq(Event)
      <4>1. Closing(d) \in Event /\ store.pending \in Seq(Event)
        BY <1>0 DEF Closing, Event, Store
      <4> QED BY <4>1
    <3> HIDE DEF s
    <3> QED BY <2>6, <3>1, <3>2, <3>3 DEF Store
  <2> HIDE DEF s, r
  <2>8. \A i \in 1..Len(r) : r[i] # d /\ r[i] \in Doc
    <3>1. DOMAIN r = 1..Len(r)
      BY <2>2
    <3>2. \A i \in 1..Len(r) : r[i] \in Range(r)
      BY <3>1 DEF Range
    <3> QED BY <2>2, <3>2
  <2>9. \A i \in 1..Len(r) : s.open[r[i]] = store.open[r[i]]
    BY <1>0, <2>7, <2>8 DEF OpenMap
  <2>10. s.total = TotalBytes(s.open, s.used)
    <3>1. TotalBytes(s.open, r) = TotalBytes(store.open, r)
      BY <2>2, <2>9, TotalSame
    <3> QED BY <2>7, <3>1
  <2>11. Range(s.used) = {c \in Doc : s.open[c] # Closed}
    BY <1>0, <2>2, <2>7 DEF OpenMap
  <2>12. Len(s.used) <= MaxOpen /\ s.total <= MaxTotal
    BY <1>0, <2>2, <2>3, <2>4, <2>7, ConstantAssumption
  <2>13. GoodStore(s)
    BY <2>2, <2>7, <2>10, <2>11, <2>12 DEF GoodStore, Exact
  <2> QED BY <1>2, <2>7, <2>13 DEF s
<1> QED BY <1>1, <1>2

-----------------------------------------------------------------------------
(* What the server makes of its notifications *)

CopyMap == [Doc -> Snapshot \cup {Closed, Confused}]

\* What a notification does to the server's Documents.
LEMMA TakenFact ==
  ASSUME NEW c \in CopyMap, NEW e \in Event
  PROVE  /\ Taken(c, e) \in CopyMap
         /\ \A d \in Doc : d # e.uri => Taken(c, e)[d] = c[d]
         /\ e.now = Closed /\ c[e.uri] # Closed => Taken(c, e)[e.uri] = Closed
         /\ e.now # Closed /\ c[e.uri] = Closed => Taken(c, e)[e.uri] = e.now
BY DEF Taken, CopyMap, Event

TakenF == [p \in CopyMap \X Event |-> Taken(p[1], p[2])]

\* Taking several is a fold.
LEMMA AfterFolded ==
  ASSUME NEW c \in CopyMap, NEW q \in Seq(Event)
  PROVE  Folds(CopyMap, Event, TakenF, c, q) /\ After(c, q) = Folded(TakenF, c, q)
<1> DEFINE F == TakenF
<1>1. Folds(CopyMap, Event, F, c, q) /\ \A t \in CopyMap, e \in Event : F[<<t, e>>] = Taken(t, e)
  BY TakenFact DEF Folds, TakenF
<1> HIDE DEF F
<1> DEFINE Rec(it) == [x \in SUBSET (1..Len(q)) |-> IF x = {} THEN c ELSE Taken(it[x \ {Max(x)}], q[Max(x)])]
           I == CHOOSE it : it = Rec(it)
<1>2. \E it : it = Rec(it)
  <2>1. PICK it : Recursion(CopyMap, Event, F, c, q, it)
    BY <1>1, FoldLeftExists
  <2>2. it = Rec(it)
    BY <1>1, <2>1 DEF Recursion
  <2> QED BY <2>2
<1>3. I = Rec(I)
  <2> HIDE DEF Rec
  <2> QED BY <1>2
<1>4. After(c, q) = I[1..Len(q)]
  <2>1. DOMAIN q = 1..Len(q)
    OBVIOUS
  <2> QED BY <2>1, Zenon DEF After, FoldLeft, MapThenFoldSet
<1> HIDE DEF I
<1>5. Iterates(CopyMap, Event, F, c, q, I)
  BY <1>1, <1>3 DEF Iterates
<1> QED BY <1>1, <1>4, <1>5, FoldedIter DEF F

\* The server's Documents keep their type.
LEMMA AfterType ==
  ASSUME NEW c \in CopyMap, NEW q \in Seq(Event)
  PROVE  After(c, q) \in CopyMap
BY AfterFolded, FoldedType

\* No notification changes nothing.
LEMMA AfterEmpty == ASSUME NEW c \in CopyMap PROVE After(c, <<>>) = c
<1>1. <<>> \in Seq(Event)
  OBVIOUS
<1>2. Folds(CopyMap, Event, TakenF, c, <<>>)
  BY <1>1, AfterFolded
<1> QED BY <1>1, <1>2, AfterFolded, FoldedEmpty

\* A list of notifications goes on from where an earlier one ended.
LEMMA AfterConcat ==
  ASSUME NEW c \in CopyMap, NEW p \in Seq(Event), NEW q \in Seq(Event)
  PROVE  After(c, p \o q) = After(After(c, p), q)
<1>1. p \o q \in Seq(Event)
  OBVIOUS
<1>2. After(c, p \o q) = Folded(TakenF, c, p \o q) /\ After(c, p) = Folded(TakenF, c, p)
      /\ Folds(CopyMap, Event, TakenF, c, p)
  BY <1>1, AfterFolded
<1>3. After(After(c, p), q) = Folded(TakenF, After(c, p), q)
  BY AfterType, AfterFolded
<1>4. Folded(TakenF, c, p \o q) = Folded(TakenF, Folded(TakenF, c, p), q)
  BY <1>2, FoldedConcat
<1> QED BY <1>2, <1>3, <1>4

\* One notification more.
LEMMA AfterAppend ==
  ASSUME NEW c \in CopyMap, NEW q \in Seq(Event), NEW e \in Event
  PROVE  After(c, Append(q, e)) = Taken(After(c, q), e)
<1>1. Append(q, e) \in Seq(Event)
  OBVIOUS
<1>2. After(c, Append(q, e)) = Folded(TakenF, c, Append(q, e)) /\ After(c, q) = Folded(TakenF, c, q)
      /\ Folds(CopyMap, Event, TakenF, c, q)
  BY <1>1, AfterFolded
<1>3. Folded(TakenF, c, Append(q, e)) = TakenF[<<Folded(TakenF, c, q), e>>]
  BY <1>2, FoldedAppend
<1>4. After(c, q) \in CopyMap
  BY AfterType
<1> QED BY <1>2, <1>3, <1>4 DEF TakenF

\* A single notification.
LEMMA AfterOne ==
  ASSUME NEW c \in CopyMap, NEW e \in Event
  PROVE  After(c, <<e>>) = Taken(c, e)
<1>1. <<>> \in Seq(Event) /\ <<e>> = Append(<<>>, e)
  OBVIOUS
<1> QED BY <1>1, AfterAppend, AfterEmpty

\* didClose notifications are notifications.
LEMMA ClosingsType ==
  ASSUME NEW q \in Seq(Doc)
  PROVE  Closings(q) \in Seq(Event) /\ Len(Closings(q)) = Len(q)
<1>1. \A i \in 1..Len(q) : Closing(q[i]) \in Event
  BY DEF Closing, Event
<1> QED BY <1>1, IsASeq, LenProperties DEF Closings

\* The Documents of q are open at the server, each named once.
AllOpen(c, q) == IsInjective(q) /\ \A i \in 1..Len(q) : c[q[i]] # Closed
Ended(c, q) == [d \in Doc |-> IF \E i \in 1..Len(q) : q[i] = d THEN Closed ELSE c[d]]
Ends(c, q) == AllOpen(c, q) => After(c, Closings(q)) = Ended(c, q)

\* One more Document is closed, and no other is touched.
LEMMA EndsMore ==
  ASSUME NEW c \in CopyMap, NEW q \in Seq(Doc), NEW d \in Doc, Ends(c, q)
  PROVE  Ends(c, Append(q, d))
<1> SUFFICES ASSUME AllOpen(c, Append(q, d))
             PROVE  After(c, Closings(Append(q, d))) = Ended(c, Append(q, d))
  BY DEF Ends
<1> DEFINE a == Append(q, d)
           n == Len(q)
<1>1. a \in Seq(Doc) /\ Len(a) = n + 1 /\ a[n + 1] = d /\ (\A i \in 1..n : a[i] = q[i]) /\ n \in Nat
      /\ DOMAIN a = 1..(n + 1) /\ DOMAIN q = 1..n
  OBVIOUS
<1>2. Closings(a) = Append(Closings(q), Closing(d))
  <2>1. Closings(q) \in Seq(Event) /\ Len(Closings(q)) = n /\ \A i \in 1..n : Closings(q)[i] = Closing(q[i])
    BY ClosingsType DEF Closings
  <2>2. Closings(a) \in Seq(Event) /\ Len(Closings(a)) = n + 1
        /\ \A i \in 1..(n + 1) : Closings(a)[i] = Closing(a[i])
    BY <1>1, ClosingsType DEF Closings
  <2>3. Closing(d) \in Event
    BY DEF Closing, Event
  <2> DEFINE z == Append(Closings(q), Closing(d))
  <2>4. z \in Seq(Event) /\ Len(z) = n + 1 /\ z[n + 1] = Closing(d) /\ \A i \in 1..n : z[i] = Closings(q)[i]
    BY <2>1, <2>3
  <2> HIDE DEF z, a
  <2>5. \A i \in 1..(n + 1) : Closings(a)[i] = z[i]
    <3> SUFFICES ASSUME NEW i \in 1..(n + 1) PROVE Closings(a)[i] = z[i]
      OBVIOUS
    <3>1. CASE i = n + 1
      BY <3>1, <1>1, <2>2, <2>4
    <3>2. CASE i \in 1..n
      BY <3>2, <1>1, <2>1, <2>2, <2>4
    <3> QED BY <3>1, <3>2, <1>1
  <2> QED BY <2>2, <2>4, <2>5, SeqEqual DEF z
<1> HIDE DEF a
<1>3. AllOpen(c, a)
  BY DEF a
<1>4. AllOpen(c, q)
  <2> HIDE DEF n
  <2>1. \A i \in 1..n : c[q[i]] # Closed
    BY <1>1, <1>3 DEF AllOpen
  <2>2. IsInjective(q)
    BY <1>1, <1>3 DEF AllOpen, IsInjective
  <2> QED BY <2>1, <2>2 DEF n, AllOpen
<1>5. After(c, Closings(q)) = Ended(c, q)
  BY <1>4 DEF Ends
<1>6. c[d] # Closed /\ \A i \in 1..n : q[i] # d
  BY <1>1, <1>3 DEF AllOpen, IsInjective
<1>7. After(c, Closings(a)) = Taken(Ended(c, q), Closing(d))
  <2>1. Closings(q) \in Seq(Event) /\ Closing(d) \in Event
    BY ClosingsType DEF Closing, Event
  <2> QED BY <1>2, <1>5, <2>1, AfterAppend
<1>8. Ended(c, q) \in CopyMap /\ Ended(c, q)[d] # Closed
  BY <1>6 DEF CopyMap, Ended
<1>9. Taken(Ended(c, q), Closing(d)) = [Ended(c, q) EXCEPT ![d] = Closed]
  BY <1>8 DEF Taken, Closing, CopyMap
<1>10. [Ended(c, q) EXCEPT ![d] = Closed] = Ended(c, a)
  <2>1. \A x \in Doc : (\E i \in 1..Len(a) : a[i] = x) <=> x = d \/ \E i \in 1..Len(q) : q[i] = x
    <3>1. \A i : i \in 1..(n + 1) <=> i \in 1..n \/ i = n + 1
      BY <1>1
    <3> HIDE DEF n
    <3> QED BY <1>1, <3>1 DEF n
  <2> QED BY <2>1 DEF Ended
<1> QED BY <1>7, <1>9, <1>10 DEF a

\* Documents that are open and told closed once each end closed, the others as
\* they were.
LEMMA AfterClosings ==
  ASSUME NEW c \in CopyMap, NEW q \in Seq(Doc), AllOpen(c, q)
  PROVE  After(c, Closings(q)) = Ended(c, q)
<1> DEFINE G == {p \in Seq(Doc) : Ends(c, p)}
<1>1. <<>> \in G
  <2>1. Closings(<<>>) = <<>> /\ <<>> \in Seq(Doc)
    BY DEF Closings
  <2>2. Ended(c, <<>>) = c
    BY DEF CopyMap, Ended
  <2> QED BY <2>1, <2>2, AfterEmpty DEF Ends
<1>2. \A p \in Seq(Doc), d \in Doc : p \in G => Append(p, d) \in G
  BY EndsMore
<1>3. Seq(Doc) \subseteq G
  <2> HIDE DEF G
  <2> QED BY <1>1, <1>2, SeqSet
<1> QED BY <1>3 DEF Ends

-----------------------------------------------------------------------------
(* The open Documents in order *)

OpenF(open) == [p \in Seq(Doc) \X Doc |-> IF open[p[2]] = Closed THEN p[1] ELSE Append(p[1], p[2])]
OpenAmong(open, list) == FoldLeft(LAMBDA q, d : IF open[d] = Closed THEN q ELSE Append(q, d), <<>>, list)

\* Listing the open Documents is a fold.
LEMMA OpenFolded ==
  ASSUME NEW open, NEW list \in Seq(Doc)
  PROVE  Folds(Seq(Doc), Doc, OpenF(open), <<>>, list) /\ OpenAmong(open, list) = Folded(OpenF(open), <<>>, list)
<1> DEFINE F == OpenF(open)
<1>1. Folds(Seq(Doc), Doc, F, <<>>, list)
      /\ \A q \in Seq(Doc), d \in Doc : F[<<q, d>>] = IF open[d] = Closed THEN q ELSE Append(q, d)
  <2>1. \A q \in Seq(Doc), d \in Doc : Append(q, d) \in Seq(Doc)
    OBVIOUS
  <2>2. <<>> \in Seq(Doc)
    OBVIOUS
  <2> QED BY <2>1, <2>2 DEF Folds, OpenF
<1> HIDE DEF F
<1> DEFINE Rec(it) == [x \in SUBSET (1..Len(list)) |->
                         IF x = {} THEN <<>>
                         ELSE IF open[list[Max(x)]] = Closed THEN it[x \ {Max(x)}]
                              ELSE Append(it[x \ {Max(x)}], list[Max(x)])]
           I == CHOOSE it : it = Rec(it)
<1>2. \E it : it = Rec(it)
  <2>1. PICK it : Recursion(Seq(Doc), Doc, F, <<>>, list, it)
    BY <1>1, FoldLeftExists
  <2>2. it = Rec(it)
    BY <1>1, <2>1 DEF Recursion
  <2> QED BY <2>2
<1>3. I = Rec(I)
  <2> HIDE DEF Rec
  <2> QED BY <1>2
<1>4. OpenAmong(open, list) = I[1..Len(list)]
  <2>1. DOMAIN list = 1..Len(list)
    OBVIOUS
  <2> QED BY <2>1, Zenon DEF OpenAmong, FoldLeft, MapThenFoldSet
<1> HIDE DEF I
<1>5. Iterates(Seq(Doc), Doc, F, <<>>, list, I)
  <2>1. \A s \in SUBSET (1..Len(list)) :
          I[s] = IF s = {} THEN <<>>
                 ELSE IF open[list[Max(s)]] = Closed THEN I[s \ {Max(s)}]
                      ELSE Append(I[s \ {Max(s)}], list[Max(s)])
    BY <1>3
  <2>2. I[{}] = <<>>
    BY <2>1
  <2>3. ASSUME NEW s \in SUBSET (1..Len(list)), s # {}, list[Max(s)] \in Doc, I[s \ {Max(s)}] \in Seq(Doc)
        PROVE  I[s] = F[<<I[s \ {Max(s)}], list[Max(s)]>>]
    <3>1. I[s] = IF open[list[Max(s)]] = Closed THEN I[s \ {Max(s)}]
                 ELSE Append(I[s \ {Max(s)}], list[Max(s)])
      BY <2>1, <2>3
    <3> QED BY <1>1, <2>3, <3>1
  <2> QED BY <2>2, <2>3 DEF Iterates
<1> QED BY <1>1, <1>4, <1>5, FoldedIter DEF F

\* q lists those Documents of list that are open.
ListsOpen(open, list, q) ==
  /\ q \in Seq(Doc)
  /\ \A i \in 1..Len(q) : open[q[i]] # Closed /\ \E j \in 1..Len(list) : list[j] = q[i]
  /\ \A j \in 1..Len(list) : open[list[j]] # Closed => \E i \in 1..Len(q) : q[i] = list[j]
  /\ IsInjective(list) => IsInjective(q)

\* A list of the open Documents is extended by an open one and left alone by another.
LEMMA ListsMore ==
  ASSUME NEW open, NEW list \in Seq(Doc), NEW d \in Doc, NEW q, ListsOpen(open, list, q)
  PROVE  ListsOpen(open, Append(list, d), IF open[d] = Closed THEN q ELSE Append(q, d))
<1> DEFINE a == Append(list, d)
           n == Len(list)
           m == Len(q)
<1>1. a \in Seq(Doc) /\ Len(a) = n + 1 /\ a[n + 1] = d /\ (\A i \in 1..n : a[i] = list[i]) /\ n \in Nat
      /\ DOMAIN list = 1..n /\ DOMAIN a = 1..(n + 1)
  OBVIOUS
<1>2. q \in Seq(Doc) /\ m \in Nat /\ DOMAIN q = 1..m
  BY DEF ListsOpen
<1> HIDE DEF a, n, m
<1>3. \A i : i \in 1..(n + 1) <=> i \in 1..n \/ i = n + 1
  BY <1>1
<1>4. /\ \A i \in 1..m : open[q[i]] # Closed /\ \E j \in 1..n : list[j] = q[i]
      /\ \A j \in 1..n : open[list[j]] # Closed => \E i \in 1..m : q[i] = list[j]
      /\ IsInjective(list) => IsInjective(q)
  BY DEF ListsOpen, n, m
<1>5. IsInjective(a) => IsInjective(list) /\ \A i \in 1..n : list[i] # d
  <2> SUFFICES ASSUME IsInjective(a) PROVE IsInjective(list) /\ \A i \in 1..n : list[i] # d
    OBVIOUS
  <2>1. \A i, j \in 1..(n + 1) : a[i] = a[j] => i = j
    BY <1>1 DEF IsInjective
  <2>2. \A i, j \in 1..n : list[i] = list[j] => i = j
    BY <2>1, <1>1, <1>3
  <2>3. \A i \in 1..n : i # n + 1
    BY <1>1
  <2>4. \A i \in 1..n : list[i] # d
    BY <2>1, <2>3, <1>1, <1>3
  <2> QED BY <2>2, <2>4, <1>1 DEF IsInjective
<1>6. CASE open[d] = Closed
  <2>1. \A i \in 1..m : open[q[i]] # Closed /\ \E j \in 1..(n + 1) : a[j] = q[i]
    BY <1>1, <1>3, <1>4
  <2>2. \A j \in 1..(n + 1) : open[a[j]] # Closed => \E i \in 1..m : q[i] = a[j]
    BY <1>1, <1>3, <1>4, <1>6
  <2>3. ListsOpen(open, a, q)
    BY <1>1, <1>2, <1>4, <1>5, <2>1, <2>2 DEF ListsOpen, m
  <2> QED BY <1>6, <2>3 DEF a
<1>7. CASE open[d] # Closed
  <2> DEFINE b == Append(q, d)
  <2>1. b \in Seq(Doc) /\ Len(b) = m + 1 /\ b[m + 1] = d /\ (\A i \in 1..m : b[i] = q[i])
        /\ DOMAIN b = 1..(m + 1)
    BY <1>2 DEF m
  <2> HIDE DEF b
  <2>2. \A i : i \in 1..(m + 1) <=> i \in 1..m \/ i = m + 1
    BY <1>2
  <2>3. ASSUME NEW i \in 1..(m + 1) PROVE open[b[i]] # Closed /\ \E j \in 1..(n + 1) : a[j] = b[i]
    <3>1. CASE i \in 1..m
      <4>1. open[q[i]] # Closed /\ b[i] = q[i]
        BY <1>4, <2>1, <3>1
      <4>2. PICK j \in 1..n : list[j] = q[i]
        BY <1>4, <3>1
      <4> QED BY <1>1, <1>3, <4>1, <4>2
    <3>2. CASE i = m + 1
      <4>1. n + 1 \in 1..(n + 1)
        BY <1>1
      <4> QED BY <1>1, <1>7, <2>1, <3>2, <4>1
    <3> QED BY <2>2, <3>1, <3>2
  <2>4. ASSUME NEW j \in 1..(n + 1), open[a[j]] # Closed PROVE \E i \in 1..(m + 1) : b[i] = a[j]
    <3>1. CASE j \in 1..n
      <4>1. PICK i \in 1..m : q[i] = list[j]
        BY <1>1, <1>4, <2>4, <3>1
      <4> QED BY <1>1, <2>1, <2>2, <3>1, <4>1
    <3>2. CASE j = n + 1
      <4>1. m + 1 \in 1..(m + 1)
        BY <1>2
      <4> QED BY <1>1, <2>1, <3>2, <4>1
    <3> QED BY <1>3, <3>1, <3>2
  <2>5. IsInjective(a) => IsInjective(b)
    <3> SUFFICES ASSUME IsInjective(a) PROVE IsInjective(b)
      OBVIOUS
    <3>1. \A i, j \in 1..m : q[i] = q[j] => i = j
      BY <1>2, <1>4, <1>5 DEF IsInjective
    <3>2. \A i \in 1..m : q[i] # d
      BY <1>4, <1>5
    <3>3. \A i, j \in 1..(m + 1) : b[i] = b[j] => i = j
      BY <2>1, <2>2, <3>1, <3>2
    <3> QED BY <2>1, <3>3 DEF IsInjective
  <2>6. ListsOpen(open, a, b)
    BY <1>1, <2>1, <2>3, <2>4, <2>5 DEF ListsOpen
  <2> QED BY <1>7, <2>6 DEF a, b
<1> QED BY <1>6, <1>7

\* So does the fold go on.
LEMMA OpenAmongMore ==
  ASSUME NEW open, NEW list \in Seq(Doc), NEW d \in Doc, OpenAmong(open, list) \in Seq(Doc)
  PROVE  OpenAmong(open, Append(list, d)) =
            IF open[d] = Closed THEN OpenAmong(open, list) ELSE Append(OpenAmong(open, list), d)
<1>1. Append(list, d) \in Seq(Doc)
  OBVIOUS
<1>2. Folds(Seq(Doc), Doc, OpenF(open), <<>>, list) /\ OpenAmong(open, list) = Folded(OpenF(open), <<>>, list)
  BY OpenFolded
<1>3. OpenAmong(open, Append(list, d)) = Folded(OpenF(open), <<>>, Append(list, d))
  BY <1>1, OpenFolded
<1>4. Folded(OpenF(open), <<>>, Append(list, d)) = OpenF(open)[<<Folded(OpenF(open), <<>>, list), d>>]
  BY <1>2, FoldedAppend
<1> QED BY <1>2, <1>3, <1>4 DEF OpenF

\* So the fold lists the open Documents, in their order.
LEMMA OpenAmongFact ==
  ASSUME NEW open, NEW list \in Seq(Doc)
  PROVE  ListsOpen(open, list, OpenAmong(open, list))
<1> DEFINE G == {l \in Seq(Doc) : ListsOpen(open, l, OpenAmong(open, l))}
<1>1. <<>> \in G
  <2>1. <<>> \in Seq(Doc)
    OBVIOUS
  <2>2. OpenAmong(open, <<>>) = <<>>
    BY <2>1, OpenFolded, FoldedEmpty
  <2>3. ListsOpen(open, <<>>, <<>>)
    BY DEF IsInjective, ListsOpen
  <2> QED BY <2>1, <2>2, <2>3
<1>2. \A l \in Seq(Doc), d \in Doc : l \in G => Append(l, d) \in G
  <2> SUFFICES ASSUME NEW l \in Seq(Doc), NEW d \in Doc, ListsOpen(open, l, OpenAmong(open, l))
               PROVE  ListsOpen(open, Append(l, d), OpenAmong(open, Append(l, d)))
    OBVIOUS
  <2>1. OpenAmong(open, l) \in Seq(Doc)
    BY DEF ListsOpen
  <2> DEFINE q == OpenAmong(open, l)
             b == OpenAmong(open, Append(l, d))
  <2>2. b = IF open[d] = Closed THEN q ELSE Append(q, d)
    BY <2>1, OpenAmongMore
  <2>3. ListsOpen(open, l, q)
    OBVIOUS
  <2> HIDE DEF q, b
  <2>4. ListsOpen(open, Append(l, d), IF open[d] = Closed THEN q ELSE Append(q, d))
    BY <2>3, ListsMore
  <2> QED BY <2>2, <2>4 DEF b
<1>3. Seq(Doc) \subseteq G
  <2> HIDE DEF G
  <2> QED BY <1>1, <1>2, SeqSet
<1> QED BY <1>3

\* OpenDocs lists the open Documents, each once.
LEMMA OpenDocsFact ==
  ASSUME NEW open
  PROVE  LET q == OpenDocs(open)
         IN  /\ q \in Seq(Doc) /\ IsInjective(q)
             /\ \A i \in 1..Len(q) : open[q[i]] # Closed
             /\ \A d \in Doc : open[d] # Closed => \E i \in 1..Len(q) : q[i] = d
<1>1. OpenDocs(open) = OpenAmong(open, Uris)
  BY DEF OpenDocs, OpenAmong
<1>2. Uris \in Seq(Doc) /\ IsInjective(Uris)
  BY ConstantAssumption DEF Doc
<1>3. \A d \in Doc : \E j \in 1..Len(Uris) : Uris[j] = d
  <2>1. DOMAIN Uris = 1..Len(Uris)
    BY <1>2
  <2> QED BY <2>1 DEF Doc, Range
<1>4. ListsOpen(open, Uris, OpenDocs(open))
  <2>1. ListsOpen(open, Uris, OpenAmong(open, Uris))
    BY <1>2, OpenAmongFact
  <2> QED BY <1>1, <2>1, Zenon
<1> DEFINE q == OpenDocs(open)
<1> HIDE DEF q
<1>5. ListsOpen(open, Uris, q)
  BY <1>4 DEF q
<1>6. q \in Seq(Doc) /\ IsInjective(q) /\ \A i \in 1..Len(q) : open[q[i]] # Closed
  BY <1>2, <1>5 DEF ListsOpen
<1>7. ASSUME NEW d \in Doc, open[d] # Closed PROVE \E i \in 1..Len(q) : q[i] = d
  <2>1. PICK j \in 1..Len(Uris) : Uris[j] = d
    BY <1>3
  <2> QED BY <1>5, <1>7, <2>1 DEF ListsOpen
<1> QED BY <1>6, <1>7 DEF q

-----------------------------------------------------------------------------
(* What the server will have *)

\* The Documents whose closing waits in a store.
Waiting(s) == [i \in 1..Len(s.pending) |-> s.pending[i].uri]

\* A server that has c ends with the Documents of s once it is sent what waits there.
Reaches(c, s) ==
    /\ s.pending = Closings(Waiting(s))
    /\ AllOpen(c, Waiting(s))
    /\ Ended(c, Waiting(s)) = s.open

\* The closing of d does not wait.
NotWaiting(s, d) == \A i \in 1..Len(Waiting(s)) : Waiting(s)[i] # d

\* What waits in a store are closings of Documents.
LEMMA WaitingType ==
  ASSUME NEW s \in Store
  PROVE  Waiting(s) \in Seq(Doc) /\ Len(Waiting(s)) = Len(s.pending)
<1>1. s.pending \in Seq(Event) /\ Len(s.pending) \in Nat
  BY DEF Store
<1>2. \A i \in 1..Len(s.pending) : s.pending[i].uri \in Doc
  <2>1. \A i \in 1..Len(s.pending) : s.pending[i] \in Event
    BY <1>1
  <2> QED BY <2>1 DEF Event
<1> QED BY <1>1, <1>2, IsASeq, LenProperties DEF Waiting

\* A server that is sent what waits has what the store has.
LEMMA ReachesAll ==
  ASSUME NEW s \in Store, NEW c \in CopyMap, Reaches(c, s)
  PROVE  After(c, s.pending) = s.open
<1>1. Waiting(s) \in Seq(Doc)
  BY WaitingType
<1> QED BY <1>1, AfterClosings DEF Reaches

\* Where nothing waits, the server has it already.
LEMMA ReachesNow ==
  ASSUME NEW s \in Store, NEW c \in CopyMap, s.pending = <<>>
  PROVE  /\ Reaches(c, s) <=> c = s.open
         /\ Waiting(s) = <<>> /\ \A d : NotWaiting(s, d)
<1>1. Waiting(s) = <<>>
  BY DEF Waiting
<1>2. Closings(<<>>) = <<>> /\ AllOpen(c, <<>>) /\ Ended(c, <<>>) = c
  BY DEF Closings, AllOpen, IsInjective, Ended, CopyMap
<1> QED BY <1>1, <1>2 DEF Reaches, NotWaiting

\* A Document is replaced by closing its old text, if it was open, and opening the new one.
LEMMA AfterReplaced ==
  ASSUME NEW c \in CopyMap, NEW d \in Doc, NEW lang, New(d, lang) \in Snapshot,
         c[d] = store.open[d]
  PROVE  /\ Replaced(d, lang) \in Seq(Event)
         /\ After(c, Replaced(d, lang)) = [c EXCEPT ![d] = New(d, lang)]
<1> DEFINE opened == [uri |-> d, now |-> New(d, lang)]
<1>1. Closing(d) \in Event /\ opened \in Event /\ New(d, lang) # Closed /\ <<>> \in Seq(Event)
  BY ConstantAssumption DEF Closing, Event, Snapshot
<1>2. CASE Same(d, lang)
  <2>1. Replaced(d, lang) = <<>> /\ New(d, lang) = c[d]
    BY <1>2 DEF Replaced, New
  <2>2. [c EXCEPT ![d] = c[d]] = c
    BY DEF CopyMap
  <2> QED BY <1>1, <2>1, <2>2, AfterEmpty
<1>3. CASE ~Same(d, lang) /\ store.open[d] = Closed
  <2>1. Replaced(d, lang) = <<opened>>
    BY <1>1, <1>3 DEF Replaced
  <2>2. After(c, <<opened>>) = Taken(c, opened)
    BY <1>1, AfterOne
  <2>3. Taken(c, opened) = [c EXCEPT ![d] = New(d, lang)]
    BY <1>1, <1>3 DEF Taken, CopyMap
  <2> QED BY <1>1, <2>1, <2>2, <2>3
<1>4. CASE ~Same(d, lang) /\ store.open[d] # Closed
  <2>1. Replaced(d, lang) = <<Closing(d)>> \o <<opened>>
    BY <1>4 DEF Replaced
  <2>2. After(c, <<Closing(d)>>) = Taken(c, Closing(d))
    BY <1>1, AfterOne
  <2> DEFINE b == Taken(c, Closing(d))
  <2>3. b \in CopyMap /\ b = [c EXCEPT ![d] = Closed]
    BY <1>1, <1>4 DEF Taken, CopyMap, Closing
  <2>4. <<Closing(d)>> \in Seq(Event) /\ <<opened>> \in Seq(Event) /\ <<Closing(d)>> \o <<opened>> \in Seq(Event)
    BY <1>1
  <2> HIDE DEF b, opened
  <2>5. After(c, <<Closing(d)>> \o <<opened>>) = After(b, <<opened>>)
    <3>1. After(c, <<Closing(d)>> \o <<opened>>) = After(After(c, <<Closing(d)>>), <<opened>>)
      BY <1>1, <2>4, AfterConcat
    <3> QED BY <2>2, <3>1 DEF b
  <2>6. After(b, <<opened>>) = Taken(b, opened)
    BY <1>1, <2>3, AfterOne
  <2>7. Taken(b, opened) = [c EXCEPT ![d] = New(d, lang)]
    BY <1>1, <2>3 DEF Taken, CopyMap, opened
  <2> QED BY <2>1, <2>4, <2>5, <2>6, <2>7
<1> QED BY <1>2, <1>3, <1>4

\* The store a refresh leaves, and that its events bring the server to it.
LEMMA SeenAccepted ==
  ASSUME StoreInv, file \in [Doc -> Text \cup {Unreadable}],
         NEW d \in Doc, NEW lang \in Language, Accepted(d),
         NEW c \in CopyMap, Reaches(c, store), NotWaiting(store, d),
         NEW k \in 0..(Len(Entered(d, lang).used) - 1)
  PROVE  LET e == Entered(d, lang)
             events == Replaced(d, lang) \o Closings(SubSeq(e.used, 1, k))
         IN  /\ events \in Seq(Event)
             /\ Reaches(After(c, events), Evicted(e, k))
             /\ Evicted(e, k).pending = store.pending
<1> DEFINE e == Entered(d, lang)
           u == e.used
           q == SubSeq(u, 1, k)
           w == Waiting(store)
           new == New(d, lang)
           r == Replaced(d, lang)
           b == After(c, r)
           z == After(c, r \o Closings(q))
<1>0. store \in Store /\ store.open \in OpenMap
  BY DEF StoreInv, GoodStore, Exact, Store, OpenMap
<1>1. /\ new \in Snapshot /\ new # Closed /\ Exact(e) /\ Range(u) = {x \in Doc : e.open[x] # Closed}
      /\ e.open = [store.open EXCEPT ![d] = new] /\ e.pending = store.pending
  <2>1. HasEntered(d, lang, e, new)
    BY EnteredFact
  <2> HIDE DEF e, new
  <2>2. new \in Snapshot /\ Exact(e) /\ e.pending = store.pending /\ e.open = [store.open EXCEPT ![d] = new]
    BY <2>1 DEF HasEntered
  <2>3. Range(u) = {x \in Doc : e.open[x] # Closed}
    BY <2>1 DEF HasEntered
  <2>4. new # Closed
    BY <2>2, ConstantAssumption DEF Snapshot
  <2> QED BY <2>2, <2>3, <2>4
<1>2. u \in Seq(Doc) /\ IsInjective(u) /\ Len(u) \in Nat /\ k \in 0..Len(u) /\ DOMAIN u = 1..Len(u)
  BY <1>1 DEF Exact, Store
<1>3. w \in Seq(Doc) /\ Len(w) \in Nat
  BY <1>0, WaitingType
<1>4. /\ \A x \in Doc : store.open[x] = IF \E i \in 1..Len(w) : w[i] = x THEN Closed ELSE c[x]
      /\ \A i \in 1..Len(w) : w[i] # d /\ c[w[i]] # Closed /\ w[i] \in Doc
      /\ IsInjective(w)
  <2>1. store.open = Ended(c, w) /\ AllOpen(c, w) /\ NotWaiting(store, d)
    BY DEF Reaches
  <2>2. \A i \in 1..Len(w) : w[i] \in Doc
    BY <1>3
  <2>3. \A i \in 1..Len(w) : w[i] # d
    BY <2>1 DEF NotWaiting
  <2> HIDE DEF w
  <2> QED BY <2>1, <2>2, <2>3 DEF AllOpen, Ended
<1> HIDE DEF e, new, w
<1>5. c[d] = store.open[d]
  BY <1>4
<1>6. r \in Seq(Event) /\ b = [c EXCEPT ![d] = new]
  BY <1>1, <1>5, AfterReplaced DEF new
<1>7. b \in CopyMap /\ \A x \in Doc : b[x] = IF x = d THEN new ELSE c[x]
  BY <1>1, <1>6 DEF CopyMap
<1>8. q \in Seq(Doc) /\ Len(q) = k /\ \A i \in 1..k : q[i] = u[i] /\ i \in 1..Len(u)
  BY <1>2
<1>9. \A x \in Doc : e.open[x] = IF x = d THEN new ELSE store.open[x]
  BY <1>0, <1>1 DEF OpenMap
<1> HIDE DEF q, b, r
<1>10. \A i \in 1..k : q[i] \in Doc /\ e.open[q[i]] # Closed /\ b[q[i]] # Closed
  <2> SUFFICES ASSUME NEW i \in 1..k PROVE q[i] \in Doc /\ e.open[q[i]] # Closed /\ b[q[i]] # Closed
    OBVIOUS
  <2>1. u[i] \in Range(u)
    BY <1>2, <1>8 DEF Range
  <2>2. q[i] \in Doc /\ e.open[q[i]] # Closed
    BY <1>1, <1>8, <2>1
  <2> QED BY <1>1, <1>4, <1>7, <1>9, <2>2
<1>11. AllOpen(b, q)
  <2>1. DOMAIN q = 1..k
    BY <1>8
  <2>2. IsInjective(q)
    BY <1>2, <1>8, <2>1 DEF IsInjective
  <2> QED BY <1>8, <1>10, <2>2 DEF AllOpen
<1>12. After(b, Closings(q)) = Ended(b, q) /\ Closings(q) \in Seq(Event)
  BY <1>7, <1>8, <1>11, AfterClosings, ClosingsType
<1>13. r \o Closings(q) \in Seq(Event) /\ z = Ended(b, q)
  <2>1. z = After(After(c, r), Closings(q))
    BY <1>6, <1>12, AfterConcat
  <2> QED BY <1>6, <1>12, <2>1 DEF b
<1>14. \A x \in Doc : z[x] = IF \E i \in 1..k : u[i] = x THEN Closed ELSE IF x = d THEN new ELSE c[x]
  <2>1. \A x \in Doc : z[x] = IF \E i \in 1..Len(q) : q[i] = x THEN Closed ELSE b[x]
    BY <1>13 DEF Ended
  <2> HIDE DEF z
  <2>2. \A x \in Doc : (\E i \in 1..Len(q) : q[i] = x) <=> (\E i \in 1..k : u[i] = x)
    BY <1>8
  <2> QED BY <1>7, <2>1, <2>2
<1> HIDE DEF z
<1>15. Evicted(e, k).pending = store.pending
       /\ Evicted(e, k).open = [x \in Doc |-> IF \E i \in 1..k : u[i] = x THEN Closed ELSE e.open[x]]
  BY <1>1 DEF Evicted, Exact, Store
<1>16. Waiting(Evicted(e, k)) = w
  BY <1>15 DEF Waiting, w
<1>17. \A i \in 1..Len(w) : e.open[w[i]] = Closed /\ ~ \E j \in 1..k : u[j] = w[i]
  BY <1>4, <1>8, <1>9, <1>10
<1>18. AllOpen(z, w)
  BY <1>4, <1>14, <1>17 DEF AllOpen
<1>19. Ended(z, w) = Evicted(e, k).open
  <2>1. \A x \in Doc : (IF \E i \in 1..Len(w) : w[i] = x THEN Closed ELSE z[x])
                         = IF \E i \in 1..k : u[i] = x THEN Closed ELSE e.open[x]
    <3> SUFFICES ASSUME NEW x \in Doc
                 PROVE  (IF \E i \in 1..Len(w) : w[i] = x THEN Closed ELSE z[x])
                         = IF \E i \in 1..k : u[i] = x THEN Closed ELSE e.open[x]
      OBVIOUS
    <3>1. CASE \E i \in 1..Len(w) : w[i] = x
      BY <3>1, <1>17
    <3>2. CASE ~ \E i \in 1..Len(w) : w[i] = x
      BY <3>2, <1>4, <1>9, <1>14
    <3> QED BY <3>1, <3>2
  <2> QED BY <1>15, <2>1 DEF Ended
<1>20. store.pending = Closings(w)
  BY DEF Reaches, w
<1>21. Reaches(z, Evicted(e, k))
  BY <1>15, <1>16, <1>18, <1>19, <1>20 DEF Reaches
<1> QED BY <1>13, <1>15, <1>21 DEF z, r, q, e

\* A refresh that fails closes the Document in the store and leaves its didClose waiting.
LEMMA SeenRejected ==
  ASSUME StoreInv, NEW d \in Doc, NEW c \in CopyMap, Reaches(c, store), NotWaiting(store, d)
  PROVE  LET s == CloseFailed(store, d)
         IN  /\ Reaches(c, s)
             /\ \A x \in Doc : x # d /\ NotWaiting(store, x) => NotWaiting(s, x)
<1> DEFINE s == CloseFailed(store, d)
           w == Waiting(store)
<1>0. store \in Store /\ store.open \in OpenMap
  BY DEF StoreInv, GoodStore, Exact, Store, OpenMap
<1>1. CASE store.open[d] = Closed
  <2>1. s = store
    BY <1>1 DEF CloseFailed
  <2> QED BY <2>1
<1>2. CASE store.open[d] # Closed
  <2>1. s.open = [store.open EXCEPT ![d] = Closed] /\ s.pending = Append(store.pending, Closing(d))
    BY <1>2, CloseFailedGood
  <2> HIDE DEF s
  <2>2. w \in Seq(Doc) /\ Len(w) \in Nat /\ Len(w) = Len(store.pending) /\ store.pending \in Seq(Event)
        /\ DOMAIN w = 1..Len(w)
    <3>1. w \in Seq(Doc) /\ Len(w) = Len(store.pending)
      BY <1>0, WaitingType
    <3>2. store.pending \in Seq(Event)
      BY <1>0 DEF Store
    <3> HIDE DEF w
    <3> QED BY <3>1, <3>2
  <2>3. /\ \A x \in Doc : store.open[x] = IF \E i \in 1..Len(w) : w[i] = x THEN Closed ELSE c[x]
        /\ \A i \in 1..Len(w) : w[i] # d /\ c[w[i]] # Closed /\ w[i] \in Doc
        /\ IsInjective(w) /\ store.pending = Closings(w)
    BY <2>2 DEF Reaches, AllOpen, Ended, NotWaiting
  <2> DEFINE n == Len(w)
             a == Append(w, d)
  <2>4. a \in Seq(Doc) /\ Len(a) = n + 1 /\ a[n + 1] = d /\ (\A i \in 1..n : a[i] = w[i])
        /\ DOMAIN a = 1..(n + 1)
    BY <2>2
  <2>5. \A i : i \in 1..(n + 1) <=> i \in 1..n \/ i = n + 1
    BY <2>2
  <2>6. Len(s.pending) = n + 1 /\ s.pending[n + 1] = Closing(d) /\ \A i \in 1..n : s.pending[i] = store.pending[i]
    <3>1. Closing(d) \in Event
      BY DEF Closing, Event
    <3> QED BY <2>1, <2>2, <3>1
  <2>7. Waiting(s) = a
    <3>1. \A i \in 1..n : store.pending[i].uri = w[i]
      BY <2>2 DEF Waiting
    <3>2. Closing(d).uri = d
      BY DEF Closing
    <3>3. \A i \in 1..(n + 1) : s.pending[i].uri = a[i]
      <4> HIDE DEF w, a
      <4> QED BY <2>4, <2>5, <2>6, <3>1, <3>2
    <3>4. Waiting(s) \in Seq(Doc) /\ Len(Waiting(s)) = n + 1 /\ \A i \in 1..(n + 1) : Waiting(s)[i] = a[i]
      <4>1. s \in Store
        BY CloseFailedGood DEF s, GoodStore, Exact
      <4>2. \A i \in 1..(n + 1) : Waiting(s)[i] = s.pending[i].uri
        BY <2>6 DEF Waiting
      <4> QED BY <2>6, <3>3, <4>1, <4>2, WaitingType
    <3> QED BY <2>4, <3>4, SeqEqual
  <2> HIDE DEF w, a
  <2>8. AllOpen(c, a)
    <3>1. c[d] # Closed
      BY <1>2, <2>3
    <3>2. IsInjective(a)
      BY <2>2, <2>3, <2>4, <2>5 DEF IsInjective
    <3>3. \A i \in 1..(n + 1) : c[a[i]] # Closed
      BY <2>3, <2>4, <2>5, <3>1
    <3> QED BY <2>4, <3>2, <3>3 DEF AllOpen
  <2>9. \A x : (\E i \in 1..(n + 1) : a[i] = x) <=> (\E i \in 1..n : w[i] = x) \/ x = d
    <3>1. n + 1 \in 1..(n + 1) /\ \A i \in 1..n : i \in 1..(n + 1)
      BY <2>2
    <3> QED BY <2>4, <2>5, <3>1
  <2>10. Ended(c, a) = s.open
    <3>1. \A x \in Doc : s.open[x] = IF x = d THEN Closed ELSE store.open[x]
      BY <1>0, <2>1 DEF OpenMap
    <3>2. \A x \in Doc : s.open[x] = IF \E i \in 1..(n + 1) : a[i] = x THEN Closed ELSE c[x]
      BY <2>3, <2>9, <3>1
    <3>3. s.open \in OpenMap
      BY <1>0, <2>1 DEF OpenMap
    <3> QED BY <2>4, <3>2, <3>3 DEF Ended, OpenMap
  <2>11. s.pending = Closings(a)
    <3>1. Closings(a) \in Seq(Event) /\ Len(Closings(a)) = n + 1 /\ \A i \in 1..(n + 1) : Closings(a)[i] = Closing(a[i])
      BY <2>4, ClosingsType DEF Closings
    <3>2. \A i \in 1..n : store.pending[i] = Closing(w[i])
      BY <2>3 DEF Closings
    <3>3. \A i \in 1..(n + 1) : s.pending[i] = Closings(a)[i]
      BY <2>4, <2>5, <2>6, <3>1, <3>2
    <3>4. s.pending \in Seq(Event)
      BY CloseFailedGood DEF s, GoodStore, Exact, Store
    <3> QED BY <2>6, <3>1, <3>3, <3>4, SeqEqual
  <2>12. Reaches(c, s)
    BY <2>7, <2>8, <2>10, <2>11 DEF Reaches
  <2>13. \A x \in Doc : x # d /\ NotWaiting(store, x) => NotWaiting(s, x)
    <3>1. \A x \in Doc : x # d /\ (\A i \in 1..n : w[i] # x) => \A i \in 1..(n + 1) : a[i] # x
      BY <2>9
    <3> QED BY <2>4, <2>7, <3>1 DEF NotWaiting, w
  <2> QED BY <2>12, <2>13 DEF s
<1> QED BY <1>1, <1>2

-----------------------------------------------------------------------------
(* What a refresh does *)

\* No version was given that is newer than the one the store remembers.
Dated(s, n) ==
    \A d \in Doc : /\ n[d] <= s.versions[d]
                   /\ s.open[d] # Closed => s.open[d].version <= s.versions[d]
\* A version a Document is opened at is newer than all it had.
Newer(s) == \A x \in Doc : s.open[x] \notin {store.open[x], Closed} => s.open[x].version > newest[x]

\* The newest versions are numbers.
LEMMA NewestType ==
  ASSUME newest \in [Doc -> Nat], NEW s \in Store
  PROVE  Newest(s) \in [Doc -> Nat]
<1>1. \A d \in Doc : s.open[d] # Closed => s.open[d].version \in Nat
  BY DEF Store, Snapshot
<1> QED BY <1>1 DEF Newest

\* A refresh that succeeds gives a version that was never given, whatever it evicts.
LEMMA DatedAccepted ==
  ASSUME StoreInv, file \in [Doc -> Text \cup {Unreadable}], newest \in [Doc -> Nat], Dated(store, newest),
         NEW d \in Doc, NEW lang \in Language, Accepted(d),
         NEW k \in 0..(Len(Entered(d, lang).used) - 1)
  PROVE  LET s == Evicted(Entered(d, lang), k)
         IN  Dated(s, Newest(s)) /\ Newer(s)
<1> DEFINE e == Entered(d, lang)
           s == Evicted(e, k)
           new == New(d, lang)
<1>0. store \in Store /\ store.open \in OpenMap /\ store.versions \in [Doc -> Nat]
  BY DEF StoreInv, GoodStore, Exact, Store, OpenMap
<1>1. /\ Exact(e) /\ new \in Snapshot
      /\ e.versions = [store.versions EXCEPT ![d] = IF Same(d, lang) THEN @ ELSE @ + 1]
  <2>1. HasEntered(d, lang, e, new)
    BY EnteredFact
  <2> HIDE DEF e, new
  <2> QED BY <2>1 DEF HasEntered
<1>2. e.versions = [store.versions EXCEPT ![d] = IF Same(d, lang) THEN @ ELSE @ + 1]
  BY <1>1
<1>3. e.open = [store.open EXCEPT ![d] = new]
  BY EnteredOpen
<1>4. new \in Snapshot /\ (Same(d, lang) => new = store.open[d])
      /\ (~Same(d, lang) => new.version = store.versions[d] + 1)
  <2>1. new \in Snapshot
    BY <1>1
  <2> QED BY <2>1 DEF New, NextVersion
<1>5. Len(e.used) \in Nat /\ k \in 0..Len(e.used)
  BY <1>1 DEF Exact, Store
<1>6. s \in Store
  BY <1>1, <1>5, EvictedType
<1>7. s.versions = e.versions /\ \A x \in Doc : s.open[x] = Closed \/ s.open[x] = e.open[x]
  BY <1>1 DEF Evicted, Exact, Store
<1> HIDE DEF s, e, new
<1>8. \A x \in Doc : e.open[x] = (IF x = d THEN new ELSE store.open[x])
                     /\ e.versions[x] = IF x = d /\ ~Same(d, lang) THEN store.versions[x] + 1 ELSE store.versions[x]
  BY <1>0, <1>2, <1>3 DEF OpenMap
<1>9. ASSUME NEW x \in Doc, s.open[x] # Closed
      PROVE  /\ s.open[x].version <= s.versions[x]
             /\ s.open[x] # store.open[x] => s.open[x].version > newest[x]
  <2>1. store.versions[x] \in Nat /\ newest[x] \in Nat /\ newest[x] <= store.versions[x]
    BY <1>0 DEF Dated
  <2>2. CASE x = d /\ ~Same(d, lang)
    BY <1>4, <1>7, <1>8, <1>9, <2>1, <2>2
  <2>3. CASE ~(x = d /\ ~Same(d, lang))
    <3>1. s.open[x] = store.open[x] /\ s.versions[x] = store.versions[x]
      BY <1>4, <1>7, <1>8, <1>9, <2>3
    <3> QED BY <1>9, <3>1 DEF Dated
  <2> QED BY <2>2, <2>3
<1>10. ASSUME NEW x \in Doc PROVE Newest(s)[x] <= s.versions[x]
  <2>1. store.versions[x] \in Nat /\ newest[x] \in Nat /\ newest[x] <= store.versions[x]
    BY <1>0 DEF Dated
  <2>2. store.versions[x] <= s.versions[x]
    BY <1>7, <1>8, <2>1
  <2>3. s.versions[x] \in Nat
    BY <1>6 DEF Store
  <2> QED BY <1>9, <2>1, <2>2, <2>3 DEF Newest
<1> QED BY <1>9, <1>10 DEF Dated, Newer, s, e

\* A refresh that fails gives none.
LEMMA DatedRejected ==
  ASSUME StoreInv, newest \in [Doc -> Nat], Dated(store, newest), NEW d \in Doc
  PROVE  LET s == CloseFailed(store, d)
         IN  Dated(s, Newest(s)) /\ Newer(s)
<1> DEFINE s == CloseFailed(store, d)
<1>0. store \in Store /\ store.open \in OpenMap /\ store.versions \in [Doc -> Nat]
  BY DEF StoreInv, GoodStore, Exact, Store, OpenMap
<1>1. s.open = [store.open EXCEPT ![d] = Closed] /\ s.versions = store.versions
  BY CloseFailedGood
<1> HIDE DEF s
<1>2. \A x \in Doc : s.open[x] = Closed \/ s.open[x] = store.open[x]
  BY <1>0, <1>1 DEF OpenMap
<1> QED BY <1>1, <1>2 DEF Dated, Newer, Newest, s

\* The result of a refresh of d when the server will have what the store has.
Refreshed(c, d, r) ==
    /\ r.ok \in BOOLEAN /\ r.events \in Seq(Event) /\ GoodStore(r.store)
    /\ Reaches(After(c, r.events), r.store)
    /\ \A x \in Doc : x # d /\ NotWaiting(store, x) => NotWaiting(r.store, x)
    /\ r.ok => r.store.pending = store.pending
    /\ ~r.ok => r.events = <<>>
    /\ Newest(r.store) \in [Doc -> Nat] /\ Dated(r.store, Newest(r.store)) /\ Newer(r.store)

\* Everything a refresh does, in one statement.
LEMMA RefreshFact ==
  ASSUME StoreInv, file \in [Doc -> Text \cup {Unreadable}], newest \in [Doc -> Nat], Dated(store, newest),
         NEW d \in Doc, NEW lang \in Language,
         NEW c \in CopyMap, Reaches(c, store), NotWaiting(store, d)
  PROVE  Refreshed(c, d, Refresh(store, d, lang))
<1> DEFINE r == Refresh(store, d, lang)
<1>1. CASE Accepted(d)
  <2> DEFINE e == Entered(d, lang)
  <2>1. PICK k \in 0..(Len(e.used) - 1) :
           /\ r.ok /\ r.store = Evicted(e, k)
           /\ r.events = Replaced(d, lang) \o Closings(SubSeq(e.used, 1, k))
           /\ Fits(e, k)
    BY <1>1, RefreshAccepted
  <2>2. r.ok = TRUE
    BY <1>1 DEF Refresh, Accepted
  <2>0. HasEntered(d, lang, e, New(d, lang))
    BY <1>1, EnteredFact
  <2>3. Exact(e)
    BY <2>0 DEF HasEntered
  <2>4. Range(e.used) = {x \in Doc : e.open[x] # Closed}
    <3> HIDE DEF e
    <3> QED BY <2>0 DEF HasEntered
  <2>5. k \in 0..Len(e.used)
    BY <2>1, <2>3 DEF Exact, Store
  <2> HIDE DEF r
  <2>6. GoodStore(r.store)
    <3> HIDE DEF e
    <3> QED BY <2>1, <2>3, <2>4, <2>5, EvictedGood
  <2>7. r.events \in Seq(Event) /\ Reaches(After(c, r.events), r.store) /\ r.store.pending = store.pending
    BY <1>1, <2>1, SeenAccepted
  <2>8. Dated(r.store, Newest(r.store)) /\ Newer(r.store)
    BY <1>1, <2>1, DatedAccepted
  <2>9. Newest(r.store) \in [Doc -> Nat]
    BY <2>6, NewestType DEF GoodStore, Exact
  <2>10. \A x \in Doc : NotWaiting(store, x) => NotWaiting(r.store, x)
    BY <2>7 DEF NotWaiting, Waiting
  <2> QED BY <2>2, <2>6, <2>7, <2>8, <2>9, <2>10 DEF Refreshed, r
<1>2. CASE ~Accepted(d)
  <2>1. r = [ok |-> FALSE, store |-> CloseFailed(store, d), events |-> <<>>]
    BY <1>2 DEF Refresh, Accepted
  <2> HIDE DEF r
  <2>2. r.ok = FALSE /\ r.store = CloseFailed(store, d) /\ r.events = <<>> /\ r.events \in Seq(Event)
    BY <2>1
  <2>3. GoodStore(r.store)
    BY <2>2, CloseFailedGood
  <2>4. After(c, r.events) = c
    BY <2>2, AfterEmpty
  <2>5. Reaches(c, r.store) /\ \A x \in Doc : x # d /\ NotWaiting(store, x) => NotWaiting(r.store, x)
    BY <2>2, SeenRejected
  <2>6. Dated(r.store, Newest(r.store)) /\ Newer(r.store)
    BY <2>2, DatedRejected
  <2>7. Newest(r.store) \in [Doc -> Nat]
    BY <2>3, NewestType DEF GoodStore, Exact
  <2> QED BY <2>2, <2>3, <2>4, <2>5, <2>6, <2>7 DEF Refreshed, r
<1> QED BY <1>1, <1>2

-----------------------------------------------------------------------------
(* The inputs of a refresh *)

\* Two inputs for one Document are the same.
Alike(inputs) == \A i, j \in 1..Len(inputs) : inputs[i].uri = inputs[j].uri => inputs[i] = inputs[j]
\* No Document is named twice.
Once(inputs) == \A i, j \in 1..Len(inputs) : inputs[i].uri = inputs[j].uri => i = j

\* The Document is open with the text and in the language of the input.
Matches(open, input) ==
    /\ open[input.uri] # Closed
    /\ open[input.uri].text = input.digest
    /\ open[input.uri].lang = input.lang

\* open_document_inputs names each open Document once, as it is.
LEMMA OpenInputsFact ==
  ASSUME store \in Store
  PROVE  /\ OpenInputs \in Seq(Input) /\ Once(OpenInputs)
         /\ \A i \in 1..Len(OpenInputs) : Matches(store.open, OpenInputs[i])
<1> DEFINE q == OpenDocs(store.open)
           in == OpenInputs
<1>1. q \in Seq(Doc) /\ IsInjective(q) /\ \A i \in 1..Len(q) : store.open[q[i]] # Closed
  BY OpenDocsFact
<1>2. in = [i \in 1..Len(q) |-> [uri |-> q[i], lang |-> store.open[q[i]].lang, digest |-> store.open[q[i]].text]]
  BY DEF OpenInputs
<1> HIDE DEF q, in
<1>3. Len(q) \in Nat /\ DOMAIN q = 1..Len(q) /\ \A i \in 1..Len(q) : q[i] \in Doc
  BY <1>1
<1>4. \A i \in 1..Len(q) : store.open[q[i]] \in Snapshot
  BY <1>1, <1>3 DEF Store
<1>5. \A i \in 1..Len(q) : [uri |-> q[i], lang |-> store.open[q[i]].lang, digest |-> store.open[q[i]].text] \in Input
  BY <1>3, <1>4 DEF Input, Snapshot
<1>6. in \in Seq(Input) /\ Len(in) = Len(q)
  BY <1>2, <1>3, <1>5, IsASeq, LenProperties
<1>7. Once(in)
  <2>1. \A i, j \in 1..Len(q) : q[i] = q[j] => i = j
    BY <1>1, <1>3 DEF IsInjective
  <2> QED BY <1>2, <1>6, <2>1 DEF Once
<1>8. \A i \in 1..Len(in) : Matches(store.open, in[i])
  BY <1>1, <1>2, <1>6 DEF Matches
<1> QED BY <1>6, <1>7, <1>8 DEF in

-----------------------------------------------------------------------------
(* The Documents a request has brought so far *)

SizesIn(inputs) == [i \in DOMAIN inputs |-> Size[inputs[i].digest]]
InputBytes(inputs) == SumOf(SizesIn(inputs))

\* The first k inputs are among the Documents of t, which are no more and no
\* larger than these inputs.
Recent(s, t, inputs, k) ==
    /\ \A i \in 1..k : Matches(s.open, inputs[i]) /\ inputs[i].uri \in Range(t)
    /\ Len(t) <= k
    /\ TotalBytes(s.open, t) <= InputBytes(SubSeq(inputs, 1, k))

\* They are the ones that were used last.
Latest(s, inputs, k) ==
    \E m \in 0..Len(s.used) : Recent(s, SubSeq(s.used, m + 1, Len(s.used)), inputs, k)

\* The sizes of a request's texts are as many numbers.
LEMMA SizesInType ==
  ASSUME NEW q \in Seq(Input)
  PROVE  /\ SizesIn(q) \in Seq(Nat) /\ Len(SizesIn(q)) = Len(q)
         /\ \A i \in 1..Len(q) : SizesIn(q)[i] = Size[q[i].digest] /\ Size[q[i].digest] \in Nat
         /\ InputBytes(q) \in Nat
<1>1. DOMAIN q = 1..Len(q) /\ Len(q) \in Nat /\ \A i \in 1..Len(q) : q[i] \in Input
  OBVIOUS
<1>2. \A i \in 1..Len(q) : Size[q[i].digest] \in Nat
  BY <1>1, ConstantAssumption DEF Input
<1>3. SizesIn(q) \in Seq(Nat) /\ Len(SizesIn(q)) = Len(q)
  BY <1>1, <1>2, IsASeq, LenProperties DEF SizesIn
<1>4. <<>> \in Seq(Nat)
  OBVIOUS
<1>5. InputBytes(q) \in Nat
  BY <1>3, <1>4, SumConcat DEF InputBytes
<1>6. \A i \in 1..Len(q) : SizesIn(q)[i] = Size[q[i].digest]
  BY <1>1 DEF SizesIn
<1> QED BY <1>2, <1>3, <1>5, <1>6

\* The bytes of two lists of inputs are those of the one and those of the other.
LEMMA InputBytesPart ==
  ASSUME NEW p \in Seq(Input), NEW q \in Seq(Input)
  PROVE  InputBytes(p \o q) = InputBytes(p) + InputBytes(q)
<1> DEFINE x == SizesIn(p)
           y == SizesIn(q)
           z == SizesIn(p \o q)
           a == p \o q
           n == Len(p)
           m == Len(q)
<1>1. a \in Seq(Input) /\ Len(a) = n + m /\ n \in Nat /\ m \in Nat
      /\ \A j \in 1..(n + m) : a[j] = IF j <= n THEN p[j] ELSE q[j - n]
  BY ConcatProperties
<1> HIDE DEF a
<1>2. x \in Seq(Nat) /\ Len(x) = n /\ \A i \in 1..n : x[i] = Size[p[i].digest]
  BY SizesInType
<1>3. y \in Seq(Nat) /\ Len(y) = m /\ \A i \in 1..m : y[i] = Size[q[i].digest]
  BY SizesInType
<1>4. z \in Seq(Nat) /\ Len(z) = n + m /\ \A i \in 1..(n + m) : z[i] = Size[a[i].digest]
  BY <1>1, SizesInType DEF a
<1> HIDE DEF x, y, z, n, m
<1> DEFINE b == x \o y
<1>5. b \in Seq(Nat) /\ Len(b) = n + m
      /\ \A j \in 1..(n + m) : b[j] = IF j <= n THEN x[j] ELSE y[j - n]
  <2>1. x \in Seq(Nat) /\ y \in Seq(Nat)
    BY <1>2, <1>3
  <2>2. /\ b \in Seq(Nat) /\ Len(b) = Len(x) + Len(y)
        /\ \A j \in 1..(Len(x) + Len(y)) : b[j] = IF j <= Len(x) THEN x[j] ELSE y[j - Len(x)]
    BY <2>1, ConcatProperties
  <2> HIDE DEF b
  <2> QED BY <1>2, <1>3, <2>2
<1>6. \A j \in 1..(n + m) : z[j] = b[j]
  <2> HIDE DEF b
  <2> SUFFICES ASSUME NEW j \in 1..(n + m) PROVE z[j] = b[j]
    OBVIOUS
  <2>1. CASE j <= n
    <3>1. j \in 1..n
      BY <1>1, <2>1
    <3>2. a[j] = p[j] /\ b[j] = x[j]
      BY <1>1, <1>5, <2>1
    <3> QED BY <1>2, <1>4, <3>1, <3>2
  <2>2. CASE ~(j <= n)
    <3>1. j - n \in 1..m
      BY <1>1, <2>2
    <3> QED BY <1>1, <1>3, <1>4, <1>5, <2>2, <3>1
  <2> QED BY <2>1, <2>2
<1>7. z = b
  <2> HIDE DEF b
  <2> QED BY <1>4, <1>5, <1>6, SeqEqual
<1>8. SumOf(b) = SumOf(x) + SumOf(y)
  BY <1>2, <1>3, SumConcat
<1> QED BY <1>7, <1>8 DEF InputBytes, x, y, z, a

\* The bytes of the first inputs, and of one more.
LEMMA InputBytesFact ==
  ASSUME NEW inputs \in Seq(Input), NEW k \in 0..Len(inputs)
  PROVE  /\ InputBytes(inputs) \in Nat /\ InputBytes(SubSeq(inputs, 1, k)) \in Nat
         /\ InputBytes(SubSeq(inputs, 1, k)) <= InputBytes(inputs)
         /\ k < Len(inputs) =>
               /\ Size[inputs[k + 1].digest] \in Nat
               /\ InputBytes(SubSeq(inputs, 1, k + 1)) =
                     InputBytes(SubSeq(inputs, 1, k)) + Size[inputs[k + 1].digest]
<1> DEFINE n == Len(inputs)
           h == SubSeq(inputs, 1, k)
           t == SubSeq(inputs, k + 1, n)
<1>1. n \in Nat /\ k \in 0..n /\ h \in Seq(Input) /\ t \in Seq(Input)
  OBVIOUS
<1>2. h \o t = inputs
  <2>1. SubSeq(inputs, 1, k) \o SubSeq(inputs, k + 1, n) = SubSeq(inputs, 1, n)
    <3>1. 1 \in 1..(n + 1) /\ k \in (1 - 1)..n /\ n \in k..n
      BY <1>1
    <3> HIDE DEF n
    <3> QED BY <1>1, <3>1, ConcatAdjacentSubSeq DEF n
  <2> QED BY <2>1, SubSeqFull
<1>3. InputBytes(h) \in Nat /\ InputBytes(t) \in Nat /\ InputBytes(inputs) \in Nat
  BY <1>1, SizesInType
<1>4. InputBytes(inputs) = InputBytes(h) + InputBytes(t)
  <2> HIDE DEF h, t
  <2> QED BY <1>1, <1>2, InputBytesPart
<1>5. ASSUME k < n
      PROVE  /\ Size[inputs[k + 1].digest] \in Nat
             /\ InputBytes(SubSeq(inputs, 1, k + 1)) = InputBytes(h) + Size[inputs[k + 1].digest]
  <2> DEFINE g == SubSeq(inputs, 1, k + 1)
             v == Size[inputs[k + 1].digest]
  <2>1. g \in Seq(Input) /\ g = Append(h, inputs[k + 1]) /\ Len(h) = k /\ Len(g) = k + 1
        /\ g[k + 1] = inputs[k + 1] /\ k + 1 \in 1..n /\ \A i \in 1..k : g[i] = h[i]
    BY <1>1, <1>5
  <2> HIDE DEF g, h
  <2>2. SizesIn(g) \in Seq(Nat) /\ Len(SizesIn(g)) = k + 1 /\ \A i \in 1..(k + 1) : SizesIn(g)[i] = Size[g[i].digest]
    BY <2>1, SizesInType
  <2>3. SizesIn(h) \in Seq(Nat) /\ Len(SizesIn(h)) = k /\ \A i \in 1..k : SizesIn(h)[i] = Size[h[i].digest]
    BY <1>1, <2>1, SizesInType
  <2>4. v \in Nat
    BY <2>1, SizesInType
  <2> DEFINE z == Append(SizesIn(h), v)
  <2>5. z \in Seq(Nat) /\ Len(z) = k + 1 /\ z[k + 1] = v /\ \A i \in 1..k : z[i] = SizesIn(h)[i]
    BY <2>3, <2>4
  <2>6. \A i \in 1..(k + 1) : SizesIn(g)[i] = z[i]
    <3>1. \A i \in 1..(k + 1) : i \in 1..k \/ i = k + 1
      BY <1>1
    <3> HIDE DEF z
    <3>2. ASSUME NEW i \in 1..k PROVE SizesIn(g)[i] = z[i]
      <4>1. i \in 1..(k + 1)
        BY <1>1
      <4>2. SizesIn(g)[i] = Size[g[i].digest] /\ g[i] = h[i]
        BY <2>1, <2>2, <4>1
      <4>3. z[i] = Size[h[i].digest]
        BY <2>3, <2>5
      <4> QED BY <4>2, <4>3
    <3>3. SizesIn(g)[k + 1] = z[k + 1]
      BY <2>1, <2>2, <2>5
    <3> QED BY <3>1, <3>2, <3>3
  <2>7. SizesIn(g) = z
    <3> HIDE DEF z
    <3> QED BY <2>2, <2>5, <2>6, SeqEqual
  <2>8. SumOf(z) = SumOf(SizesIn(h)) + v
    BY <2>3, <2>4, SumAppend
  <2> QED BY <2>4, <2>7, <2>8 DEF InputBytes, g
<1> QED BY <1>3, <1>4, <1>5

\* A Document is taken out of a part of the list and not of the other.
LEMMA RemoveConcat ==
  ASSUME NEW h \in Seq(Doc), NEW t \in Seq(Doc), IsInjective(h \o t), NEW d \in Doc
  PROVE  /\ RemoveFirst(h \o t, d) = RemoveFirst(h, d) \o RemoveFirst(t, d)
         /\ IsInjective(h) /\ IsInjective(t)
<1> DEFINE q == h \o t
           n == Len(h)
           m == Len(t)
<1>1. q \in Seq(Doc) /\ Len(q) = n + m /\ n \in Nat /\ m \in Nat
      /\ (\A i \in 1..n : q[i] = h[i]) /\ (\A i \in 1..m : q[n + i] = t[i])
  OBVIOUS
<1>2. DOMAIN q = 1..(n + m) /\ DOMAIN h = 1..n /\ DOMAIN t = 1..m
      /\ (\A i \in 1..n : i \in 1..(n + m)) /\ (\A i \in 1..m : n + i \in 1..(n + m))
  BY <1>1
<1>3. IsInjective(h) /\ IsInjective(t)
  <2> HIDE DEF q, n, m
  <2>0. IsInjective(q)
    BY DEF q
  <2>1. IsInjective(h)
    BY <1>1, <1>2, <2>0 DEF IsInjective
  <2>2. ASSUME NEW i \in 1..m, NEW j \in 1..m, t[i] = t[j] PROVE i = j
    <3>1. n + i = n + j
      BY <1>1, <1>2, <2>0, <2>2 DEF IsInjective
    <3> QED BY <1>1, <3>1
  <2> QED BY <1>2, <2>1, <2>2 DEF IsInjective
<1>4. CASE \E i \in 1..n : h[i] = d
  <2>1. PICK i \in 1..n : h[i] = d
    BY <1>4
  <2>2. q[i] = d /\ i \in 1..Len(q)
    BY <1>1, <1>2, <2>1
  <2>3. d \notin Range(t)
    <3>1. \A j \in 1..m : t[j] # d
      <4> SUFFICES ASSUME NEW j \in 1..m, t[j] = d PROVE FALSE
        OBVIOUS
      <4>1. i = n + j
        <5> HIDE DEF n, m
        <5> QED BY <1>1, <1>2, <2>1, <2>2 DEF IsInjective
      <4> QED BY <1>1, <4>1
    <3> QED BY <1>2, <3>1 DEF Range
  <2>4. RemoveFirst(t, d) = t
    BY <2>3, RemoveAbsent
  <2> DEFINE a == RemoveFirst(q, d)
             b == RemoveFirst(h, d)
  <2>5. IsWithout(q, a, i)
    <3> HIDE DEF q
    <3>1. IsInjective(q)
      BY DEF q
    <3> QED BY <1>1, <2>2, <3>1, RemoveIsWithout
  <2>6. IsWithout(h, b, i)
    BY <1>3, <2>1, RemoveIsWithout
  <2> HIDE DEF a, b, q
  <2>7. a \in Seq(Doc) /\ Len(a) = n + m - 1 /\ \A j \in 1..(n + m - 1) : a[j] = IF j < i THEN q[j] ELSE q[j + 1]
    BY <1>1, <2>5 DEF IsWithout
  <2>8. b \in Seq(Doc) /\ Len(b) = n - 1 /\ \A j \in 1..(n - 1) : b[j] = IF j < i THEN h[j] ELSE h[j + 1]
    BY <2>6 DEF IsWithout
  <2> DEFINE z == b \o t
  <2>9. z \in Seq(Doc) /\ Len(z) = n + m - 1
        /\ \A j \in 1..(n + m - 1) : z[j] = IF j <= n - 1 THEN b[j] ELSE t[j - (n - 1)]
    <3>1. z \in Seq(Doc) /\ Len(z) = Len(b) + m
          /\ \A j \in 1..(Len(b) + m) : z[j] = IF j <= Len(b) THEN b[j] ELSE t[j - Len(b)]
      BY <2>8, ConcatProperties
    <3>2. Len(b) + m = n + m - 1
      BY <1>1, <2>8
    <3> HIDE DEF z
    <3> QED BY <2>8, <3>1, <3>2
  <2> HIDE DEF z
  <2>10. \A j \in 1..(n + m - 1) : a[j] = z[j]
    <3> SUFFICES ASSUME NEW j \in 1..(n + m - 1) PROVE a[j] = z[j]
      OBVIOUS
    <3>1. CASE j <= n - 1
      <4>1. j \in 1..(n - 1) /\ j \in 1..n /\ j + 1 \in 1..n
        BY <1>1, <3>1
      <4> QED BY <1>1, <2>7, <2>8, <2>9, <3>1, <4>1
    <3>2. CASE j > n - 1
      <4>1. j - (n - 1) \in 1..m /\ n + (j - (n - 1)) = j + 1 /\ ~(j < i) /\ ~(j <= n - 1)
        BY <1>1, <2>1, <3>2
      <4> QED BY <1>1, <2>7, <2>9, <4>1
    <3> QED BY <1>1, <3>1, <3>2
  <2>11. a = z
    BY <2>7, <2>9, <2>10, SeqEqual
  <2> QED BY <1>3, <2>4, <2>11 DEF a, b, z, q
<1>5. CASE ~ \E i \in 1..n : h[i] = d
  <2>1. RemoveFirst(h, d) = h
    <3>1. d \notin Range(h)
      BY <1>2, <1>5 DEF Range
    <3> QED BY <3>1, RemoveAbsent
  <2>2. CASE \E i \in 1..m : t[i] = d
    <3>1. PICK i \in 1..m : t[i] = d
      BY <2>2
    <3>2. q[n + i] = d /\ n + i \in 1..Len(q)
      BY <1>1, <1>2, <3>1
    <3> DEFINE a == RemoveFirst(q, d)
               b == RemoveFirst(t, d)
    <3>3. IsWithout(q, a, n + i)
      <4> HIDE DEF q
      <4>1. IsInjective(q)
        BY DEF q
      <4> QED BY <1>1, <3>2, <4>1, RemoveIsWithout
    <3>4. IsWithout(t, b, i)
      BY <1>3, <3>1, RemoveIsWithout
    <3> HIDE DEF a, b, q
    <3>5. a \in Seq(Doc) /\ Len(a) = n + m - 1 /\ \A j \in 1..(n + m - 1) : a[j] = IF j < n + i THEN q[j] ELSE q[j + 1]
      BY <1>1, <3>3 DEF IsWithout
    <3>6. b \in Seq(Doc) /\ Len(b) = m - 1 /\ \A j \in 1..(m - 1) : b[j] = IF j < i THEN t[j] ELSE t[j + 1]
      BY <3>4 DEF IsWithout
    <3> DEFINE z == h \o b
    <3>7. z \in Seq(Doc) /\ Len(z) = n + m - 1
          /\ \A j \in 1..(n + m - 1) : z[j] = IF j <= n THEN h[j] ELSE b[j - n]
      <4>1. z \in Seq(Doc) /\ Len(z) = n + Len(b)
            /\ \A j \in 1..(n + Len(b)) : z[j] = IF j <= n THEN h[j] ELSE b[j - n]
        BY <3>6, ConcatProperties
      <4>2. n + Len(b) = n + m - 1
        BY <1>1, <3>6
      <4> HIDE DEF z
      <4> QED BY <4>1, <4>2
    <3> HIDE DEF z
    <3>8. \A j \in 1..(n + m - 1) : a[j] = z[j]
      <4> SUFFICES ASSUME NEW j \in 1..(n + m - 1) PROVE a[j] = z[j]
        OBVIOUS
      <4>1. CASE j <= n
        <5>1. j \in 1..n /\ j < n + i
          BY <1>1, <3>1, <4>1
        <5> QED BY <1>1, <3>5, <3>7, <4>1, <5>1
      <4>2. CASE j > n
        <5>1. j - n \in 1..(m - 1) /\ j - n \in 1..m /\ (j - n) + 1 \in 1..m /\ ~(j <= n)
              /\ n + (j - n) = j /\ n + ((j - n) + 1) = j + 1 /\ (j < n + i <=> j - n < i)
          BY <1>1, <3>1, <4>2
        <5>2. z[j] = IF j - n < i THEN t[j - n] ELSE t[(j - n) + 1]
          BY <3>6, <3>7, <5>1
        <5>3. t[j - n] = q[j] /\ t[(j - n) + 1] = q[j + 1]
          <6> HIDE DEF m, n
          <6>1. t[j - n] = q[n + (j - n)] /\ t[(j - n) + 1] = q[n + ((j - n) + 1)]
            BY <1>1, <5>1
          <6> QED BY <5>1, <6>1
        <5> QED BY <3>5, <5>1, <5>2, <5>3
      <4> QED BY <1>1, <4>1, <4>2
    <3>9. a = z
      BY <3>5, <3>7, <3>8, SeqEqual
    <3> QED BY <1>3, <2>1, <3>9 DEF a, b, z, q
  <2>3. CASE ~ \E i \in 1..m : t[i] = d
    <3>1. d \notin Range(t)
      BY <1>2, <2>3 DEF Range
    <3>2. d \notin Range(q)
      <4>1. \A i \in 1..(n + m) : i \in 1..n \/ (i - n \in 1..m /\ n + (i - n) = i)
        BY <1>1
      <4>2. \A i \in 1..(n + m) : q[i] # d
        BY <1>1, <1>5, <2>3, <4>1
      <4> QED BY <1>2, <4>2 DEF Range
    <3>3. RemoveFirst(q, d) = q /\ RemoveFirst(t, d) = t
      BY <1>1, <3>1, <3>2, RemoveAbsent
    <3> QED BY <1>3, <2>1, <3>3
  <2> QED BY <2>2, <2>3
<1> QED BY <1>4, <1>5

\* A part of a list without one Document is no longer and no larger.
LEMMA SmallerWithout ==
  ASSUME NEW open \in OpenMap, NEW t \in Seq(Doc), IsInjective(t), NEW d \in Doc
  PROVE  /\ RemoveFirst(t, d) \in Seq(Doc) /\ Len(RemoveFirst(t, d)) <= Len(t)
         /\ Range(RemoveFirst(t, d)) = Range(t) \ {d}
         /\ TotalBytes(open, RemoveFirst(t, d)) <= TotalBytes(open, t)
         /\ TotalBytes(open, RemoveFirst(t, d)) \in Nat /\ TotalBytes(open, t) \in Nat
<1>1. /\ RemoveFirst(t, d) \in Seq(Doc) /\ Range(RemoveFirst(t, d)) = Range(t) \ {d}
      /\ Len(RemoveFirst(t, d)) <= Len(t)
  <2>1. RemoveFirst(t, d) \in Seq(Doc) /\ Range(RemoveFirst(t, d)) = Range(t) \ {d}
    BY WithoutFact
  <2>2. Len(RemoveFirst(t, d)) = IF d \in Range(t) THEN Len(t) - 1 ELSE Len(t)
    BY WithoutFact
  <2>3. Len(t) \in Nat
    OBVIOUS
  <2> QED BY <2>1, <2>2, <2>3
<1>2. TotalBytes(open, t) \in Nat /\ TotalBytes(open, RemoveFirst(t, d)) \in Nat
  BY <1>1, TotalConcat
<1>3. TotalBytes(open, RemoveFirst(t, d)) <= TotalBytes(open, t)
  <2>1. CASE d \in Range(t)
    <3>1. TotalBytes(open, t) = TotalBytes(open, RemoveFirst(t, d)) + Bytes(open[d])
      BY <2>1, TotalWithout
    <3>2. Bytes(open[d]) \in Nat
      BY BytesType
    <3> QED BY <1>2, <3>1, <3>2
  <2>2. CASE d \notin Range(t)
    <3>1. RemoveFirst(t, d) = t
      BY <2>2, RemoveAbsent
    <3> QED BY <1>2, <3>1
  <2> QED BY <2>1, <2>2
<1> QED BY <1>1, <1>2, <1>3

\* What is appended to two lists is appended to the second.
LEMMA AppendedLast ==
  ASSUME NEW a \in Seq(Doc), NEW b \in Seq(Doc), NEW d \in Doc
  PROVE  Append(a \o b, d) = a \o Append(b, d)
<1> DEFINE one == <<d>>
<1>1. one \in Seq(Doc) /\ a \o b \in Seq(Doc)
  OBVIOUS
<1>2. Append(a \o b, d) = (a \o b) \o one /\ Append(b, d) = b \o one
  BY <1>1, AppendIsConcat
<1> HIDE DEF one
<1>3. (a \o b) \o one = a \o (b \o one)
  BY <1>1, ConcatAssociative
<1> QED BY <1>2, <1>3

\* The next input joins those that were used last, before anything is evicted.
LEMMA LatestEntered ==
  ASSUME StoreInv, file \in [Doc -> Text \cup {Unreadable}],
         NEW inputs \in Seq(Input), Alike(inputs), NEW k \in 0..(Len(inputs) - 1),
         Latest(store, inputs, k),
         LET input == inputs[k + 1]
         IN  Accepted(input.uri) /\ file[input.uri] = input.digest
  PROVE  LET e == Entered(inputs[k + 1].uri, inputs[k + 1].lang)
         IN  \E h, t \in Seq(Doc) : e.used = h \o t /\ Recent(e, t, inputs, k + 1)
<1> DEFINE input == inputs[k + 1]
           d == input.uri
           e == Entered(d, input.lang)
           u == store.used
           n == Len(u)
<1>0. input \in Input /\ d \in Doc /\ input.lang \in Language /\ Accepted(d) /\ file[d] = input.digest
  <2>1. k + 1 \in 1..Len(inputs)
    OBVIOUS
  <2>2. input \in Input
    BY <2>1
  <2> QED BY <2>2 DEF Input
<1>1. u \in Seq(Doc) /\ store.open \in OpenMap /\ IsInjective(u) /\ n \in Nat
  BY DEF StoreInv, GoodStore, Exact, Store, OpenMap
<1>2. PICK m \in 0..n : Recent(store, SubSeq(u, m + 1, n), inputs, k)
  BY DEF Latest
<1> DEFINE h == SubSeq(u, 1, m)
           t == SubSeq(u, m + 1, n)
<1>3. h \in Seq(Doc) /\ t \in Seq(Doc)
  BY <1>1
<1>4. u = h \o t
  <2>1. SubSeq(u, 1, m) \o SubSeq(u, m + 1, n) = SubSeq(u, 1, n)
    <3>1. 1 \in 1..(n + 1) /\ m \in (1 - 1)..n /\ n \in m..n
      BY <1>1
    <3> HIDE DEF u, n
    <3> QED BY <1>1, <3>1, ConcatAdjacentSubSeq DEF n
  <2> QED BY <1>1, <2>1, SubSeqFull
<1>5. Recent(store, t, inputs, k)
  BY <1>2
<1> HIDE DEF h, t, input, d
<1> DEFINE a == RemoveFirst(h, d)
           b == RemoveFirst(t, d)
           c == Append(b, d)
<1>6. RemoveFirst(u, d) = a \o b /\ IsInjective(h) /\ IsInjective(t)
  BY <1>0, <1>1, <1>3, <1>4, RemoveConcat
<1>7. /\ b \in Seq(Doc) /\ Len(b) <= Len(t) /\ Range(b) = Range(t) \ {d}
      /\ TotalBytes(store.open, b) <= TotalBytes(store.open, t)
      /\ TotalBytes(store.open, b) \in Nat /\ TotalBytes(store.open, t) \in Nat
  BY <1>0, <1>1, <1>3, <1>6, SmallerWithout
<1>8. a \in Seq(Doc)
  BY <1>0, <1>1, <1>3, <1>6, SmallerWithout
<1> HIDE DEF a, b
<1>9. /\ Exact(e) /\ e.used = Append(RemoveFirst(u, d), d)
      /\ New(d, input.lang) \in Snapshot /\ New(d, input.lang).text = file[d]
      /\ New(d, input.lang).lang = input.lang
  <2>1. HasEntered(d, input.lang, e, New(d, input.lang))
    BY <1>0, EnteredFact
  <2> HIDE DEF e
  <2> QED BY <2>1 DEF HasEntered
<1>10. e.open = [store.open EXCEPT ![d] = New(d, input.lang)]
  BY EnteredOpen
<1>11. e.open \in OpenMap
  BY <1>9 DEF Exact, Store, OpenMap
<1> HIDE DEF e
<1>12. e.used = a \o c /\ c \in Seq(Doc) /\ Len(c) = Len(b) + 1 /\ c = b \o <<d>> /\ <<d>> \in Seq(Doc)
  <2>1. Append(a \o b, d) = a \o Append(b, d)
    BY <1>0, <1>7, <1>8, AppendedLast
  <2> QED BY <1>0, <1>6, <1>7, <1>9, <2>1
<1>13. e.open[d] = New(d, input.lang) /\ \A x \in Doc : x # d => e.open[x] = store.open[x]
  BY <1>0, <1>1, <1>10 DEF OpenMap
<1>14. Range(c) = Range(t) \cup {d}
  <2>1. DOMAIN b = 1..Len(b) /\ DOMAIN c = 1..(Len(b) + 1) /\ Len(b) \in Nat
    BY <1>7, <1>12
  <2>2. c[Len(b) + 1] = d /\ \A i \in 1..Len(b) : c[i] = b[i]
    BY <1>0, <1>7
  <2>3. \A i : i \in 1..(Len(b) + 1) <=> i \in 1..Len(b) \/ i = Len(b) + 1
    BY <2>1
  <2>4. Range(c) = Range(b) \cup {d}
    <3> HIDE DEF c
    <3>1. Range(c) \subseteq Range(b) \cup {d}
      BY <2>1, <2>2, <2>3 DEF Range
    <3>2. \A x \in Range(b) : \E i \in 1..Len(b) : b[i] = x
      BY <2>1 DEF Range
    <3>3. \A x \in Range(b) \cup {d} : \E i \in 1..(Len(b) + 1) : c[i] = x
      BY <2>1, <2>2, <2>3, <3>2
    <3>4. Range(b) \cup {d} \subseteq Range(c)
      BY <2>1, <3>3 DEF Range
    <3> QED BY <3>1, <3>4
  <2> QED BY <1>7, <2>4
<1>15. Matches(e.open, input)
  <2>1. New(d, input.lang) # Closed
    BY <1>9, ConstantAssumption DEF Snapshot
  <2> QED BY <1>0, <1>9, <1>13, <2>1 DEF Matches, d
<1>16. ASSUME NEW i \in 1..(k + 1) PROVE Matches(e.open, inputs[i]) /\ inputs[i].uri \in Range(c)
  <2>1. i \in 1..Len(inputs) /\ k + 1 \in 1..Len(inputs) /\ inputs[i] \in Input
    OBVIOUS
  <2>2. CASE inputs[i].uri = d
    <3>1. inputs[i] = input
      BY <2>1, <2>2 DEF Alike, input, d
    <3> QED BY <1>14, <1>15, <2>2, <3>1
  <2>3. CASE inputs[i].uri # d
    <3>1. i \in 1..k
      <4>1. i # k + 1
        BY <2>3 DEF d, input
      <4> QED BY <4>1
    <3>2. Matches(store.open, inputs[i]) /\ inputs[i].uri \in Range(t) /\ inputs[i].uri \in Doc
      BY <1>5, <2>1, <3>1 DEF Recent, Input
    <3> QED BY <1>13, <1>14, <2>3, <3>2 DEF Matches
  <2> QED BY <2>2, <2>3
<1>17. Len(c) <= k + 1
  <2>1. Len(t) <= k /\ Len(t) \in Nat /\ Len(b) \in Nat /\ k \in Nat
    BY <1>3, <1>5, <1>7 DEF Recent
  <2> QED BY <1>7, <1>12, <2>1
<1>18. TotalBytes(e.open, c) <= InputBytes(SubSeq(inputs, 1, k + 1))
  <2>1. TotalBytes(e.open, c) = TotalBytes(e.open, b) + TotalBytes(e.open, <<d>>)
    <3> DEFINE o == e.open
               q == <<d>>
    <3>1. o \in OpenMap /\ b \in Seq(Doc) /\ q \in Seq(Doc) /\ c = b \o q
      BY <1>7, <1>11, <1>12
    <3> HIDE DEF c, o, q
    <3>2. TotalBytes(o, b \o q) = TotalBytes(o, b) + TotalBytes(o, q)
      BY <3>1, TotalConcat
    <3> QED BY <3>1, <3>2 DEF o, q
  <2>2. TotalBytes(e.open, <<d>>) = Bytes(e.open[d])
    BY <1>0, <1>11, TotalSingle
  <2>3. Bytes(e.open[d]) = Size[input.digest]
    <3>1. New(d, input.lang) # Closed
      BY <1>9, ConstantAssumption DEF Snapshot
    <3> QED BY <1>0, <1>9, <1>13, <3>1 DEF Bytes
  <2>4. TotalBytes(e.open, b) = TotalBytes(store.open, b)
    <3>1. \A i \in 1..Len(b) : b[i] \in Doc /\ b[i] # d
      <4>1. DOMAIN b = 1..Len(b) /\ \A i \in 1..Len(b) : b[i] \in Doc
        BY <1>7
      <4>2. \A i \in 1..Len(b) : b[i] \in Range(b)
        BY <4>1 DEF Range
      <4> QED BY <1>7, <4>1, <4>2
    <3> QED BY <1>7, <1>13, <3>1, TotalSame
  <2>5. k \in 0..Len(inputs) /\ k < Len(inputs)
    OBVIOUS
  <2>6. InputBytes(SubSeq(inputs, 1, k + 1)) = InputBytes(SubSeq(inputs, 1, k)) + Size[input.digest]
        /\ Size[input.digest] \in Nat /\ InputBytes(SubSeq(inputs, 1, k)) \in Nat
    BY <2>5, InputBytesFact DEF input
  <2>7. TotalBytes(store.open, t) <= InputBytes(SubSeq(inputs, 1, k))
    BY <1>5 DEF Recent
  <2> QED BY <1>7, <2>1, <2>2, <2>3, <2>4, <2>6, <2>7
<1>19. Recent(e, c, inputs, k + 1)
  BY <1>16, <1>17, <1>18 DEF Recent
<1> QED BY <1>8, <1>12, <1>19 DEF e, d, input

\* Documents that fit together are not evicted by one another.
LEMMA LatestEvicted ==
  ASSUME NEW e, Exact(e), NEW h \in Seq(Doc), NEW t \in Seq(Doc), e.used = h \o t,
         NEW inputs \in Seq(Input), NEW k \in 0..Len(inputs), Fit(inputs), Recent(e, t, inputs, k),
         NEW j \in 0..Len(e.used), \A i \in 0..(j - 1) : ~Fits(e, i)
  PROVE  Latest(Evicted(e, j), inputs, k)
<1> DEFINE u == e.used
           n == Len(u)
           m == Len(h)
           s == Evicted(e, j)
<1>0. u \in Seq(Doc) /\ e.open \in OpenMap /\ e \in Store /\ IsInjective(u) /\ n \in Nat /\ DOMAIN u = 1..n
  BY DEF Exact, Store, OpenMap
<1>1. n = m + Len(t) /\ m \in Nat /\ Len(t) \in Nat /\ DOMAIN t = 1..Len(t)
  OBVIOUS
<1>2. \A i \in 1..Len(t) : t[i] = u[m + i]
  OBVIOUS
<1>3. Rest(e, m) = t
  <2>1. Rest(e, m) \in Seq(Doc) /\ Len(Rest(e, m)) = n - m /\ \A i \in 1..(n - m) : Rest(e, m)[i] = u[m + i]
    <3>1. m \in 0..n
      BY <1>1
    <3> HIDE DEF m
    <3> QED BY <1>0, <3>1, RestFact
  <2> QED BY <1>1, <1>2, <2>1, SeqEqual
<1> HIDE DEF m
<1>4. Fits(e, m)
  <2>1. Len(t) <= k /\ TotalBytes(e.open, t) <= InputBytes(SubSeq(inputs, 1, k))
    BY DEF Recent
  <2>2. Len(inputs) <= MaxOpen /\ InputBytes(inputs) <= MaxTotal
    BY DEF Fit, InputBytes, SizesIn
  <2>3. InputBytes(SubSeq(inputs, 1, k)) <= InputBytes(inputs)
        /\ InputBytes(SubSeq(inputs, 1, k)) \in Nat /\ InputBytes(inputs) \in Nat
    BY InputBytesFact
  <2>4. TotalBytes(e.open, t) \in Nat
    BY <1>0, TotalConcat
  <2>5. TotalBytes(e.open, t) <= MaxTotal
    BY <2>1, <2>2, <2>3, <2>4, ConstantAssumption
  <2>6. n - m <= MaxOpen
    BY <1>1, <2>1, <2>2, ConstantAssumption
  <2> QED BY <1>3, <2>5, <2>6 DEF Fits
<1>5. j <= m
  <2>1. CASE j > m
    <3>1. m \in 0..(j - 1)
      BY <1>1, <2>1
    <3> QED BY <1>4, <3>1
  <2> QED BY <1>1, <2>1
<1>6. s.used = Rest(e, j) /\ \A x \in Doc : s.open[x] = IF \E i \in 1..j : u[i] = x THEN Closed ELSE e.open[x]
  BY <1>0 DEF Evicted, Store
<1>7. Rest(e, j) \in Seq(Doc) /\ Len(Rest(e, j)) = n - j /\ \A i \in 1..(n - j) : Rest(e, j)[i] = u[j + i]
  BY <1>0, RestFact
<1> HIDE DEF s
<1>8. SubSeq(s.used, (m - j) + 1, Len(s.used)) = t
  <2> DEFINE x == SubSeq(s.used, (m - j) + 1, Len(s.used))
             w == s.used
             p == m - j
  <2>1. w \in Seq(Doc) /\ Len(w) = n - j /\ (\A i \in 1..(n - j) : w[i] = u[j + i])
        /\ p \in Nat /\ p <= n - j /\ n - j \in Nat
    BY <1>1, <1>5, <1>6, <1>7
  <2> HIDE DEF w, p
  <2>2. SubSeq(w, p + 1, Len(w)) \in Seq(Doc) /\ Len(SubSeq(w, p + 1, Len(w))) = (n - j) - p
        /\ \A i \in 1..((n - j) - p) : SubSeq(w, p + 1, Len(w))[i] = w[p + i]
    <3> DEFINE l == Len(w)
    <3>1. l \in Nat /\ p \in 0..l /\ l = n - j
      BY <2>1
    <3>2. SubSeq(w, p + 1, l) \in Seq(Doc) /\ Len(SubSeq(w, p + 1, l)) = l - p
          /\ \A i \in 1..(l - p) : SubSeq(w, p + 1, l)[i] = w[p + i]
      BY <2>1, <3>1
    <3> HIDE DEF l
    <3> QED BY <3>1, <3>2 DEF l
  <2>3. x = SubSeq(w, p + 1, Len(w))
    BY DEF w, p
  <2> HIDE DEF x
  <2>4. Len(x) = Len(t) /\ (n - j) - p = Len(t)
    BY <1>0, <1>1, <1>5, <2>2, <2>3 DEF p
  <2>5. \A i \in 1..Len(t) : x[i] = t[i]
    <3> SUFFICES ASSUME NEW i \in 1..Len(t) PROVE x[i] = t[i]
      OBVIOUS
    <3>0. j \in Nat /\ p \in Nat /\ i \in Nat /\ i >= 1 /\ i <= Len(t) /\ p = m - j
      BY <1>1, <2>1 DEF p
    <3>1. p + i \in 1..(n - j) /\ j + (p + i) = m + i
      BY <1>0, <1>1, <1>5, <3>0
    <3>2. x[i] = w[p + i]
      BY <2>2, <2>3, <2>4
    <3> QED BY <1>2, <2>1, <3>1, <3>2
  <2> QED BY <2>2, <2>3, <2>4, <2>5, SeqEqual DEF x
<1>9. \A i \in 1..Len(t) : t[i] \in Doc /\ s.open[t[i]] = e.open[t[i]]
  <2> SUFFICES ASSUME NEW i \in 1..Len(t) PROVE t[i] \in Doc /\ s.open[t[i]] = e.open[t[i]]
    OBVIOUS
  <2>1. m + i \in 1..n /\ \A x \in 1..j : x \in 1..n /\ x # m + i
    BY <1>0, <1>1, <1>5
  <2>2. \A x \in 1..j : u[x] # u[m + i]
    BY <1>0, <2>1 DEF IsInjective
  <2>3. ~ \E x \in 1..j : u[x] = t[i]
    BY <1>2, <2>2
  <2>4. t[i] \in Doc
    OBVIOUS
  <2> QED BY <1>6, <2>3, <2>4
<1>10. \A x \in Range(t) : s.open[x] = e.open[x]
  BY <1>1, <1>9 DEF Range
<1>11. TotalBytes(s.open, t) = TotalBytes(e.open, t)
  BY <1>9, TotalSame
<1>12. Recent(s, t, inputs, k)
  BY <1>10, <1>11 DEF Recent, Matches
<1>13. m - j \in 0..Len(s.used)
  BY <1>1, <1>5, <1>6, <1>7
<1> QED BY <1>8, <1>12, <1>13 DEF Latest, s

\* A Document is not evicted by its own refresh.
LEMMA RefreshKeeps ==
  ASSUME StoreInv, file \in [Doc -> Text \cup {Unreadable}],
         NEW d \in Doc, NEW lang \in Language, Refresh(store, d, lang).ok
  PROVE  /\ Accepted(d)
         /\ Refresh(store, d, lang).store.open[d] = New(d, lang) /\ New(d, lang).text = file[d]
<1> DEFINE e == Entered(d, lang)
           r == Refresh(store, d, lang)
<1>1. Accepted(d)
  BY RefreshRejected
<1>2. PICK j \in 0..(Len(e.used) - 1) : r.store = Evicted(e, j)
  BY <1>1, RefreshAccepted
<1>3. HasEntered(d, lang, e, New(d, lang))
  BY <1>1, EnteredFact
<1>4. Exact(e) /\ e.used[Len(e.used)] = d /\ New(d, lang).text = file[d]
  <2> HIDE DEF e
  <2> QED BY <1>3 DEF HasEntered
<1>5. e.open = [store.open EXCEPT ![d] = New(d, lang)]
  BY EnteredOpen
<1>6. store.open \in OpenMap
  BY DEF StoreInv, GoodStore, Exact, Store, OpenMap
<1> HIDE DEF e, r
<1>7. e.used \in Seq(Doc) /\ IsInjective(e.used) /\ e \in Store
      /\ DOMAIN e.used = 1..Len(e.used) /\ Len(e.used) \in Nat
  BY <1>4 DEF Exact, Store
<1>8. \A i \in 1..j : i \in 1..Len(e.used) /\ Len(e.used) \in 1..Len(e.used) /\ i # Len(e.used)
  BY <1>2, <1>7
<1>9. \A i \in 1..j : e.used[i] # d
  BY <1>4, <1>7, <1>8 DEF IsInjective
<1>10. r.store.open[d] = e.open[d]
  BY <1>2, <1>7, <1>9 DEF Evicted, Store
<1>11. e.open[d] = New(d, lang)
  BY <1>5, <1>6 DEF OpenMap
<1> QED BY <1>1, <1>4, <1>10, <1>11 DEF r

\* A refresh puts its Document last and evicts the oldest: those brought before it, which
\* were last until now and fit together with it, stay.
LEMMA LatestRefreshed ==
  ASSUME StoreInv, file \in [Doc -> Text \cup {Unreadable}],
         NEW inputs \in Seq(Input), Alike(inputs), Fit(inputs), NEW k \in 0..(Len(inputs) - 1),
         Latest(store, inputs, k),
         LET r == Refresh(store, inputs[k + 1].uri, inputs[k + 1].lang)
         IN  r.ok /\ r.store.open[inputs[k + 1].uri].text = inputs[k + 1].digest
  PROVE  Latest(Refresh(store, inputs[k + 1].uri, inputs[k + 1].lang).store, inputs, k + 1)
<1> DEFINE d == inputs[k + 1].uri
           lang == inputs[k + 1].lang
           e == Entered(d, lang)
           r == Refresh(store, d, lang)
<1>1. d \in Doc /\ lang \in Language
  <2>1. k + 1 \in 1..Len(inputs)
    OBVIOUS
  <2>2. inputs[k + 1] \in Input
    BY <2>1
  <2> QED BY <2>2 DEF Input
<1>2. r.ok /\ r.store.open[d].text = inputs[k + 1].digest
  OBVIOUS
<1> HIDE DEF d, lang
<1>3. Accepted(d) /\ file[d] = inputs[k + 1].digest
  BY <1>1, <1>2, RefreshKeeps
<1>4. PICK j \in 0..(Len(e.used) - 1) :
         r.store = Evicted(e, j) /\ \A i \in 0..(j - 1) : ~Fits(e, i)
  BY <1>1, <1>3, RefreshAccepted
<1>5. Exact(e)
  <2>1. HasEntered(d, lang, e, New(d, lang))
    BY <1>1, <1>3, EnteredFact
  <2> HIDE DEF e
  <2> QED BY <2>1 DEF HasEntered
<1> HIDE DEF e, r
<1>9. e.used \in Seq(Doc) /\ j \in 0..Len(e.used)
  BY <1>4, <1>5 DEF Exact, Store
<1>11. PICK h, t \in Seq(Doc) : e.used = h \o t /\ Recent(e, t, inputs, k + 1)
  BY <1>3, LatestEntered DEF d, lang, e
<1>12. k + 1 \in 0..Len(inputs)
  OBVIOUS
<1>13. Latest(Evicted(e, j), inputs, k + 1)
  BY <1>4, <1>5, <1>9, <1>11, <1>12, LatestEvicted
<1> QED BY <1>4, <1>13 DEF d, lang, r

\* A Document that is open as its input says stays as it is, and so do the others.
LEMMA RefreshMatches ==
  ASSUME StoreInv, file \in [Doc -> Text \cup {Unreadable}],
         NEW input \in Input, Matches(store.open, input),
         LET r == Refresh(store, input.uri, input.lang)
         IN  r.ok /\ r.store.open[input.uri].text = input.digest
  PROVE  Refresh(store, input.uri, input.lang).store.open = store.open
<1> DEFINE d == input.uri
           lang == input.lang
           e == Entered(d, lang)
           r == Refresh(store, d, lang)
           u == store.used
<1>1. d \in Doc /\ lang \in Language
  BY DEF Input
<1>2. r.ok /\ r.store.open[d].text = input.digest
  OBVIOUS
<1> HIDE DEF d, lang
<1>3. Accepted(d) /\ file[d] = input.digest
  BY <1>1, <1>2, RefreshKeeps
<1>4. Same(d, lang)
  BY <1>3 DEF Same, Matches, d, lang
<1>5. PICK j \in 0..(Len(e.used) - 1) :
         r.store = Evicted(e, j) /\ \A i \in 0..(j - 1) : ~Fits(e, i)
  BY <1>1, <1>3, RefreshAccepted
<1>6. Exact(e) /\ e.used = Append(RemoveFirst(u, d), d)
  <2>1. HasEntered(d, lang, e, New(d, lang))
    BY <1>1, <1>3, EnteredFact
  <2> HIDE DEF e
  <2> QED BY <2>1 DEF HasEntered
<1>7. e.open = [store.open EXCEPT ![d] = store.open[d]]
  <2>1. New(d, lang) = store.open[d]
    BY <1>4 DEF New
  <2> QED BY <2>1, EnteredOpen
<1>8. /\ u \in Seq(Doc) /\ store.open \in OpenMap /\ IsInjective(u)
      /\ store.total = TotalBytes(store.open, u) /\ store.total <= MaxTotal /\ Len(u) <= MaxOpen
      /\ Range(u) = {x \in Doc : store.open[x] # Closed}
  BY DEF StoreInv, GoodStore, Exact, Store, OpenMap
<1>9. e.open = store.open
  BY <1>7, <1>8 DEF OpenMap
<1> HIDE DEF e, r
<1>10. d \in Range(u)
  BY <1>1, <1>4, <1>8 DEF Same
<1> DEFINE a == RemoveFirst(u, d)
<1>11. a \in Seq(Doc) /\ Len(a) = Len(u) - 1 /\ Len(u) \in Nat
  <2>1. a \in Seq(Doc)
    BY <1>1, <1>8, WithoutFact
  <2>2. Len(a) = Len(u) - 1
    BY <1>1, <1>8, <1>10, WithoutFact
  <2> QED BY <1>8, <2>1, <2>2
<1>12. TotalBytes(store.open, u) = TotalBytes(store.open, a) + Bytes(store.open[d])
  BY <1>8, <1>10, TotalWithout
<1> HIDE DEF a
<1>13. e.used = a \o <<d>> /\ <<d>> \in Seq(Doc) /\ e.used \in Seq(Doc) /\ Len(e.used) = Len(u)
  <2>1. Append(a, d) = a \o <<d>> /\ Len(Append(a, d)) = Len(a) + 1 /\ Append(a, d) \in Seq(Doc)
    BY <1>1, <1>11
  <2> QED BY <1>1, <1>6, <1>11, <2>1 DEF a
<1>14. TotalBytes(e.open, e.used) = store.total
  <2>1. TotalBytes(store.open, a \o <<d>>) = TotalBytes(store.open, a) + TotalBytes(store.open, <<d>>)
    BY <1>8, <1>11, <1>13, TotalConcat
  <2>2. TotalBytes(store.open, <<d>>) = Bytes(store.open[d])
    BY <1>1, <1>8, TotalSingle
  <2> QED BY <1>8, <1>9, <1>12, <1>13, <2>1, <2>2
<1>15. Rest(e, 0) = e.used
  BY <1>13, SubSeqFull DEF Rest
<1>16. Fits(e, 0)
  <2>1. Len(e.used) - 0 = Len(e.used) /\ Len(e.used) <= MaxOpen
    BY <1>8, <1>11, <1>13
  <2>2. TotalBytes(e.open, Rest(e, 0)) <= MaxTotal
    BY <1>8, <1>14, <1>15
  <2> QED BY <2>1, <2>2 DEF Fits
<1>17. j = 0
  <2>1. CASE j > 0
    <3>1. 0 \in 0..(j - 1)
      BY <1>5, <2>1
    <3> QED BY <1>5, <1>16, <3>1
  <2> QED BY <1>5, <2>1
<1>18. r.store.open = [x \in Doc |-> e.open[x]]
  <2>1. ~ \E i \in 1..0 : TRUE
    OBVIOUS
  <2>2. r.store.open = [x \in Doc |-> IF \E i \in 1..0 : e.used[i] = x THEN Closed ELSE e.open[x]]
    BY <1>5, <1>6, <1>17 DEF Evicted, Exact, Store
  <2> QED BY <2>1, <2>2
<1>19. r.store.open = store.open
  BY <1>8, <1>9, <1>18 DEF OpenMap
<1> QED BY <1>19 DEF r, d, lang

-----------------------------------------------------------------------------
(* The invariant *)

\* Where nothing waits to be sent, the server has what the store has; otherwise
\* it will have it, once the batch is sent and then what waits in the store.
SentInv ==
    /\ phase \notin {"batch", "commit", "down"} => outbox = <<>> /\ store.pending = <<>>
    /\ phase # "down" => Reaches(After(copy, outbox), store)

\* A batch refreshes each Document once, so none whose closing waits.
BatchInv ==
    phase \in {"batch", "commit"} =>
        Once(todo) /\ \A i \in 1..Len(todo) : NotWaiting(store, todo[i].uri)

VersionInv == Dated(store, newest)

RequestInv == Alike(request.inputs)

\* The Documents a request has brought so far are as it says, and there is room
\* for the others.
SyncInv ==
    phase = "sync" =>
        \E k \in 0..Len(request.inputs) :
            /\ todo = SubSeq(request.inputs, k + 1, Len(request.inputs))
            /\ Fit(request.inputs) => Latest(store, request.inputs, k)

\* The Documents of the query are open as they were when it was written.
Unchanged ==
    \A i \in 1..Len(validated) :
        Matches(store.open, validated[i]) /\ asked[validated[i].uri] = store.open[validated[i].uri]
Unasked == \A d \in Doc : asked[d] = Closed

AnswerInv ==
    /\ phase = "commit" => Unasked
    /\ phase = "validate" => \A j \in 1..Len(todo) : \E i \in 1..Len(validated) : todo[j] = validated[i]
    /\ phase \in {"active", "validate"} /\ ~request.raw /\ Fit(validated) => Unasked \/ Unchanged

IInv ==
    /\ TypeOK /\ StoreInv /\ SentInv /\ BatchInv /\ VersionInv /\ RequestInv /\ SyncInv /\ AnswerInv

-----------------------------------------------------------------------------
(* Steps that leave the Documents alone *)

\* No Document has been brought yet.
LEMMA LatestNone ==
  ASSUME NEW s \in Store, NEW inputs \in Seq(Input)
  PROVE  Latest(s, inputs, 0)
<1> DEFINE n == Len(s.used)
           t == SubSeq(s.used, n + 1, n)
<1>1. n \in Nat /\ s.open \in OpenMap
  BY DEF Store, OpenMap
<1>2. t = <<>> /\ SubSeq(inputs, 1, 0) = <<>>
  BY <1>1, SubSeqEmpty
<1>3. TotalBytes(s.open, <<>>) = 0
  BY TotalEmpty
<1>4. InputBytes(<<>>) \in Nat
  <2>1. <<>> \in Seq(Input)
    OBVIOUS
  <2> QED BY <2>1, SizesInType
<1>5. Recent(s, t, inputs, 0)
  <2>1. Len(t) <= 0 /\ TotalBytes(s.open, t) <= InputBytes(SubSeq(inputs, 1, 0))
    <3>1. Len(t) = 0 /\ TotalBytes(s.open, t) = 0 /\ InputBytes(SubSeq(inputs, 1, 0)) \in Nat
      <4> HIDE DEF t
      <4> QED BY <1>2, <1>3, <1>4
    <3> HIDE DEF t
    <3> QED BY <3>1
  <2> HIDE DEF t
  <2> QED BY <2>1 DEF Recent
<1>6. n \in 0..n
  BY <1>1
<1> QED BY <1>5, <1>6 DEF Latest

\* Nothing waits: the server has the store's Documents.
LEMMA InStep ==
  ASSUME TypeOK, SentInv, phase \notin {"batch", "commit", "down"}
  PROVE  /\ outbox = <<>> /\ store.pending = <<>> /\ copy = store.open
         /\ copy \in CopyMap /\ store \in Store /\ \A d : NotWaiting(store, d)
<1>1. outbox = <<>> /\ store.pending = <<>> /\ copy \in CopyMap /\ store \in Store
  BY DEF SentInv, TypeOK, CopyMap
<1>2. After(copy, outbox) = copy
  BY <1>1, AfterEmpty
<1>3. Reaches(copy, store)
  BY <1>2 DEF SentInv
<1> QED BY <1>1, <1>3, ReachesNow

\* Nothing is kept of an answered request.
LEMMA DoneFact ==
  ASSUME Done
  PROVE  /\ phase' = "idle" /\ request' \in Request /\ todo' \in Seq(Input) /\ validated' \in Seq(Input)
         /\ asked' \in CopyMap /\ RequestInv'
<1>1. NoRequest \in Request /\ NoRequest.inputs = <<>>
  BY DEF NoRequest, Request
<1>2. Alike(<<>>)
  BY DEF Alike
<1>3. <<>> \in Seq(Input)
  OBVIOUS
<1> QED BY <1>1, <1>2, <1>3 DEF Done, RequestInv, CopyMap

\* The parts of the invariant that are about the Documents alone.
LEMMA Kept ==
  ASSUME IInv, UNCHANGED <<store, copy, outbox, newest>>
  PROVE  /\ StoreInv' /\ VersionInv'
         /\ phase # "down" => Reaches(After(copy, outbox), store)'
BY DEF IInv, StoreInv, VersionInv, SentInv

\* A file changes: what the Owner and the server have does not.
LEMMA ChangeStep ==
  ASSUME IInv, NEW d \in Doc, Change(d)
  PROVE  IInv'
<1>1. UNCHANGED <<store, copy, phase, request, todo, outbox, failed, validated, asked, newest>>
      /\ UNCHANGED <<requests, callbacks>>
  BY DEF Change, loop, history
<1>2. TypeOK'
  <2>1. file' \in [Doc -> Text \cup {Unreadable}]
    BY DEF IInv, TypeOK, Change
  <2>2. changes' \in 0..MaxChanges
    BY ConstantAssumption DEF IInv, TypeOK, Change
  <2> QED BY <1>1, <2>1, <2>2 DEF IInv, TypeOK
<1>3. StoreInv' /\ SentInv' /\ BatchInv' /\ VersionInv' /\ RequestInv' /\ SyncInv'
  BY <1>1 DEF IInv, StoreInv, SentInv, BatchInv, VersionInv, RequestInv, SyncInv
<1>4. AnswerInv'
  BY <1>1 DEF IInv, AnswerInv, Unasked, Unchanged
<1> QED BY <1>2, <1>3, <1>4 DEF IInv

\* A request comes: its inputs were read together, so two for one Document are alike.
LEMMA SubmitStep ==
  ASSUME IInv, NEW kind \in {"refresh", "diagnostics", "dispatch"}, Submit(kind)
  PROVE  IInv'
<1>1. phase = "idle" /\ phase' = "queued" /\ UNCHANGED <<file, store, copy, todo, outbox, failed, validated>>
      /\ UNCHANGED <<asked, newest, changes, callbacks>> /\ requests < MaxRequests /\ requests' = requests + 1
  BY DEF Submit, history
<1>2. request' \in Request /\ Alike(request'.inputs)
  <2>1. PICK docs \in Inputs, lang \in Language, everything \in BOOLEAN, raw \in BOOLEAN :
          /\ \A d \in Range(docs) : Readable(d)
          /\ request' = [kind |-> kind, everything |-> everything, raw |-> raw,
                         inputs |-> [i \in 1..Len(docs) |->
                             [uri |-> docs[i], lang |-> lang, digest |-> file[docs[i]]]]]
    BY DEF Submit
  <2> DEFINE in == [i \in 1..Len(docs) |-> [uri |-> docs[i], lang |-> lang, digest |-> file[docs[i]]]]
  <2>2. docs \in Seq(Doc) /\ Len(docs) \in Nat /\ DOMAIN docs = 1..Len(docs)
    BY ConstantAssumption
  <2>3. \A i \in 1..Len(docs) : docs[i] \in Doc /\ file[docs[i]] \in Text
    <3>1. \A i \in 1..Len(docs) : docs[i] \in Doc /\ docs[i] \in Range(docs)
      BY <2>2 DEF Range
    <3>2. file \in [Doc -> Text \cup {Unreadable}]
      BY DEF IInv, TypeOK
    <3> QED BY <2>1, <3>1, <3>2 DEF Readable
  <2>4. \A i \in 1..Len(docs) : [uri |-> docs[i], lang |-> lang, digest |-> file[docs[i]]] \in Input
    BY <2>3 DEF Input
  <2>5. in \in Seq(Input) /\ Len(in) = Len(docs)
    BY <2>2, <2>4, IsASeq, LenProperties
  <2>6. Alike(in)
    BY <2>5 DEF Alike
  <2> HIDE DEF in
  <2>7. request' = [kind |-> kind, everything |-> everything, raw |-> raw, inputs |-> in]
    BY <2>1 DEF in
  <2> QED BY <2>5, <2>6, <2>7 DEF Request
<1>3. TypeOK'
  <2>1. requests' \in 0..MaxRequests
    BY <1>1, ConstantAssumption DEF IInv, TypeOK
  <2> QED BY <1>1, <1>2, <2>1 DEF IInv, TypeOK, Phase
<1>4. SentInv' /\ StoreInv' /\ VersionInv'
  BY <1>1, Kept DEF IInv, SentInv
<1>5. BatchInv' /\ RequestInv' /\ SyncInv' /\ AnswerInv'
  BY <1>1, <1>2 DEF BatchInv, RequestInv, SyncInv, AnswerInv
<1> QED BY <1>3, <1>4, <1>5 DEF IInv

\* A batch takes the open Documents, each once; a request's Documents are all to be brought.
LEMMA BeginStep ==
  ASSUME IInv, Begin
  PROVE  IInv'
<1>1. phase = "queued" /\ UNCHANGED <<file, store, copy, request, outbox, failed, validated>>
      /\ UNCHANGED <<asked, newest, requests, changes, callbacks>>
  BY DEF Begin, history, bounds
<1>2. TypeOK /\ SentInv /\ store \in Store /\ request.inputs \in Seq(Input)
  BY DEF IInv, TypeOK, Request
<1>3. outbox = <<>> /\ store.pending = <<>> /\ \A d : NotWaiting(store, d)
  BY <1>1, <1>2, InStep
<1>4. StoreInv' /\ VersionInv' /\ Reaches(After(copy, outbox), store)'
  BY <1>1, Kept
<1>5. RequestInv'
  BY <1>1 DEF IInv, RequestInv
<1>6. CASE request.everything
  <2>1. phase' = "batch" /\ todo' = OpenInputs
    BY <1>6 DEF Begin
  <2>2. OpenInputs \in Seq(Input) /\ Once(OpenInputs)
    BY <1>2, OpenInputsFact
  <2>3. TypeOK'
    BY <1>1, <1>2, <2>1, <2>2 DEF TypeOK, Phase
  <2>4. BatchInv'
    BY <1>1, <1>3, <2>1, <2>2 DEF BatchInv
  <2> QED BY <1>4, <1>5, <2>1, <2>3, <2>4 DEF IInv, SentInv, SyncInv, AnswerInv
<1>7. CASE ~request.everything
  <2>1. phase' = "sync" /\ todo' = request.inputs
    BY <1>7 DEF Begin
  <2>2. TypeOK'
    BY <1>1, <1>2, <2>1 DEF TypeOK, Phase
  <2>3. SyncInv'
    <3>1. Latest(store, request.inputs, 0)
      BY <1>2, LatestNone
    <3>2. 0 \in 0..Len(request.inputs) /\ SubSeq(request.inputs, 0 + 1, Len(request.inputs)) = request.inputs
      BY <1>2, SubSeqFull
    <3> QED BY <1>1, <2>1, <3>1, <3>2 DEF SyncInv
  <2> QED BY <1>1, <1>3, <1>4, <1>5, <2>1, <2>2, <2>3 DEF IInv, SentInv, BatchInv, AnswerInv
<1> QED BY <1>6, <1>7

\* A query is written: its Documents are as the server has them at this moment.
LEMMA SendStep ==
  ASSUME IInv, Send
  PROVE  IInv'
<1>1. phase = "sync" /\ todo = <<>> /\ phase' = "active" /\ asked' = copy
      /\ UNCHANGED <<file, store, copy, request, todo, outbox, failed, newest>>
      /\ UNCHANGED <<requests, changes, callbacks>>
      /\ validated' = IF request.everything THEN OpenInputs ELSE request.inputs
  BY DEF Send, bounds
<1>2. TypeOK /\ SentInv /\ store \in Store /\ request.inputs \in Seq(Input) /\ SyncInv
  BY DEF IInv, TypeOK, Request
<1>3. outbox = <<>> /\ store.pending = <<>> /\ copy = store.open
  BY <1>1, <1>2, InStep
<1>4. OpenInputs \in Seq(Input) /\ \A i \in 1..Len(OpenInputs) : Matches(store.open, OpenInputs[i])
  BY <1>2, OpenInputsFact
<1>5. TypeOK'
  BY <1>1, <1>2, <1>4 DEF TypeOK, Phase
<1>6. StoreInv' /\ VersionInv' /\ SentInv'
  BY <1>1, <1>3, Kept DEF SentInv
<1>7. RequestInv' /\ BatchInv' /\ SyncInv'
  BY <1>1 DEF IInv, RequestInv, BatchInv, SyncInv
<1>8. AnswerInv'
  <2> SUFFICES ASSUME Fit(validated') PROVE Unchanged'
    BY <1>1 DEF AnswerInv
  <2>1. \A i \in 1..Len(validated') : Matches(store.open, validated'[i])
    <3>1. CASE request.everything
      BY <1>1, <1>4, <3>1
    <3>2. CASE ~request.everything
      <4> DEFINE inputs == request.inputs
      <4>1. validated' = inputs
        BY <1>1, <3>2
      <4>2. PICK k \in 0..Len(inputs) : todo = SubSeq(inputs, k + 1, Len(inputs)) /\ Latest(store, inputs, k)
        BY <1>1, <1>2, <4>1 DEF SyncInv
      <4>3. k = Len(inputs)
        <5>1. Len(SubSeq(inputs, k + 1, Len(inputs))) = Len(inputs) - k /\ Len(inputs) \in Nat
          BY <1>2, <4>2
        <5>2. Len(inputs) - k = 0
          <6>1. Len(todo) = 0
            BY <1>1
          <6> QED BY <4>2, <5>1, <6>1
        <5> QED BY <5>1, <5>2
      <4>4. \A i \in 1..k : Matches(store.open, inputs[i])
        BY <4>2 DEF Latest, Recent
      <4> QED BY <4>1, <4>3, <4>4
    <3> QED BY <3>1, <3>2
  <2> QED BY <1>1, <1>3, <2>1 DEF Unchanged
<1> QED BY <1>5, <1>6, <1>7, <1>8 DEF IInv

\* A request is answered and the Documents stay as they are.
LEMMA AnsweredStep ==
  ASSUME IInv, Done, phase \notin {"batch", "commit", "down"},
         UNCHANGED <<file, store, copy, outbox, failed, newest, bounds>>
  PROVE  IInv'
<1>1. UNCHANGED <<requests, changes, callbacks>>
  BY DEF bounds
<1>2. TypeOK'
  BY <1>1, DoneFact DEF IInv, TypeOK, CopyMap, Phase
<1>3. StoreInv' /\ VersionInv' /\ SentInv'
  BY Kept, DoneFact DEF IInv, SentInv
<1>4. RequestInv' /\ BatchInv' /\ SyncInv' /\ AnswerInv'
  BY DoneFact DEF BatchInv, SyncInv, AnswerInv
<1> QED BY <1>2, <1>3, <1>4 DEF IInv

\* A response: the Documents of the query are validated, each from its list.
LEMMA RespondStep ==
  ASSUME IInv, Respond
  PROVE  IInv'
<1>1. phase = "active" /\ UNCHANGED <<file, store, copy, outbox, failed, newest, bounds>>
  BY DEF Respond
<1>2. CASE phase' = "validate" /\ todo' = validated /\ UNCHANGED <<request, validated, asked>>
  <2>1. TypeOK'
    BY <1>1, <1>2 DEF IInv, TypeOK, Phase, bounds
  <2>2. StoreInv' /\ VersionInv' /\ SentInv'
    BY <1>1, <1>2, Kept DEF IInv, SentInv
  <2>3. RequestInv' /\ BatchInv' /\ SyncInv'
    BY <1>2 DEF IInv, RequestInv, BatchInv, SyncInv
  <2>4. AnswerInv'
    BY <1>1, <1>2 DEF IInv, AnswerInv, Unasked, Unchanged
  <2> QED BY <2>1, <2>2, <2>3, <2>4 DEF IInv
<1>3. CASE Done
  BY <1>1, <1>3, AnsweredStep
<1> QED BY <1>2, <1>3 DEF Respond

\* An edit comes in the middle of a query: its Documents are asked about no longer.
LEMMA CommitStep ==
  ASSUME IInv, Commit
  PROVE  IInv'
<1>1. phase = "active" /\ phase' = "commit" /\ todo' = OpenInputs /\ asked' = [d \in Doc |-> Closed]
      /\ UNCHANGED <<file, store, copy, request, outbox, failed, validated, newest, requests, changes>>
      /\ callbacks < MaxCallbacks /\ callbacks' = callbacks + 1
  BY DEF Commit
<1>2. TypeOK /\ SentInv /\ store \in Store
  BY DEF IInv, TypeOK
<1>3. \A d : NotWaiting(store, d)
  BY <1>1, <1>2, InStep
<1>4. OpenInputs \in Seq(Input) /\ Once(OpenInputs)
  BY <1>2, OpenInputsFact
<1>5. TypeOK'
  <2>1. callbacks' \in 0..MaxCallbacks
    BY <1>1, <1>2, ConstantAssumption DEF TypeOK
  <2>2. asked' \in [Doc -> Snapshot \cup {Closed, Confused}]
    BY <1>1
  <2> QED BY <1>1, <1>2, <1>4, <2>1, <2>2 DEF TypeOK, Phase
<1>6. StoreInv' /\ VersionInv' /\ SentInv'
  BY <1>1, Kept DEF SentInv
<1>7. RequestInv' /\ SyncInv'
  BY <1>1 DEF IInv, RequestInv, SyncInv
<1>8. BatchInv'
  BY <1>1, <1>3, <1>4 DEF BatchInv
<1>9. AnswerInv'
  BY <1>1 DEF AnswerInv, Unasked
<1> QED BY <1>5, <1>6, <1>7, <1>8, <1>9 DEF IInv

\* The Session ends: nothing is promised of the server any more.
LEMMA EndStep ==
  ASSUME IInv, End
  PROVE  IInv'
<1>1. phase # "down" /\ phase' = "down" /\ UNCHANGED <<file, store, copy, request, todo, outbox, failed, validated>>
      /\ UNCHANGED <<asked, newest, requests, changes, callbacks>>
  BY DEF End, history, bounds
<1>2. TypeOK'
  BY <1>1 DEF IInv, TypeOK, Phase
<1>3. StoreInv' /\ VersionInv' /\ SentInv'
  BY <1>1, Kept DEF SentInv
<1>4. RequestInv' /\ BatchInv' /\ SyncInv' /\ AnswerInv'
  BY <1>1 DEF IInv, RequestInv, BatchInv, SyncInv, AnswerInv
<1> QED BY <1>2, <1>3, <1>4 DEF IInv

-----------------------------------------------------------------------------
(* Steps that refresh Documents *)

\* A store whose pending closings have been sent.
LEMMA FlushedFact ==
  ASSUME NEW s, GoodStore(s)
  PROVE  LET f == [s EXCEPT !.pending = <<>>]
         IN  GoodStore(f) /\ f.pending = <<>> /\ f.open = s.open /\ f.versions = s.versions
<1> DEFINE f == [s EXCEPT !.pending = <<>>]
<1>1. s \in Store
  BY DEF GoodStore, Exact
<1>2. <<>> \in Seq(Event)
  OBVIOUS
<1>3. f \in Store /\ f.pending = <<>> /\ f.open = s.open /\ f.versions = s.versions
      /\ f.used = s.used /\ f.total = s.total
  BY <1>1, <1>2 DEF Store
<1> HIDE DEF f
<1>4. GoodStore(f)
  BY <1>3 DEF GoodStore, Exact
<1> QED BY <1>3, <1>4 DEF f

\* The head and the tail of a list of inputs.
LEMMA TailOnce ==
  ASSUME NEW q \in Seq(Input), q # <<>>
  PROVE  /\ Head(q) \in Input /\ Tail(q) \in Seq(Input) /\ Len(Tail(q)) = Len(q) - 1
         /\ Len(q) \in Nat /\ Len(q) >= 1 /\ Head(q) = q[1]
         /\ \A i \in 1..Len(Tail(q)) : i + 1 \in 2..Len(q) /\ Tail(q)[i] = q[i + 1]
<1>1. Len(q) \in Nat /\ Len(q) >= 1 /\ Head(q) = q[1] /\ q[1] \in Input
  OBVIOUS
<1>2. Tail(q) \in Seq(Input) /\ Len(Tail(q)) = Len(q) - 1 /\ \A i \in 1..(Len(q) - 1) : Tail(q)[i] = q[i + 1]
  OBVIOUS
<1>3. \A i \in 1..(Len(q) - 1) : i + 1 \in 2..Len(q)
  BY <1>1
<1> QED BY <1>1, <1>2, <1>3

\* A refresh in a batch: its events wait behind those of the batch, its closing in the store.
LEMMA BatchStepStep ==
  ASSUME IInv, BatchStep
  PROVE  IInv' /\ Newer(store')
<1> DEFINE input == Head(todo)
           d == input.uri
           r == Refresh(store, d, input.lang)
           c == After(copy, outbox)
<1>1. /\ phase \in {"batch", "commit"} /\ todo # <<>> /\ todo' = Tail(todo)
      /\ store' = r.store /\ newest' = Newest(r.store)
      /\ outbox' = outbox \o r.events /\ failed' = (failed \/ ~r.ok)
      /\ UNCHANGED <<file, copy, phase, request, validated, asked, requests, changes, callbacks>>
  BY DEF BatchStep, bounds
<1>2. TypeOK /\ StoreInv /\ SentInv /\ BatchInv /\ VersionInv
  BY DEF IInv
<1>3. todo \in Seq(Input) /\ outbox \in Seq(Event) /\ copy \in CopyMap
      /\ file \in [Doc -> Text \cup {Unreadable}] /\ newest \in [Doc -> Nat]
  BY <1>2 DEF TypeOK, CopyMap
<1>4. input \in Input /\ Tail(todo) \in Seq(Input) /\ input = todo[1] /\ Len(Tail(todo)) = Len(todo) - 1
      /\ 1 \in 1..Len(todo) /\ \A i \in 1..Len(Tail(todo)) : i + 1 \in 2..Len(todo) /\ Tail(todo)[i] = todo[i + 1]
  <2>1. Len(todo) \in Nat /\ Len(todo) >= 1
    BY <1>1, <1>3, TailOnce
  <2> QED BY <1>1, <1>3, <2>1, TailOnce
<1>5. d \in Doc /\ input.lang \in Language
  BY <1>4 DEF Input
<1>6. c \in CopyMap
  BY <1>3, AfterType
<1>7. Reaches(c, store)
  BY <1>1, <1>2 DEF SentInv
<1>8. Once(todo) /\ \A i \in 1..Len(todo) : NotWaiting(store, todo[i].uri)
  BY <1>1, <1>2 DEF BatchInv
<1>9. NotWaiting(store, d)
  BY <1>4, <1>8
<1> HIDE DEF input, d
<1>10. Refreshed(c, d, r)
  BY <1>2, <1>3, <1>5, <1>6, <1>7, <1>9, RefreshFact DEF VersionInv
<1> HIDE DEF r
<1>11. r.ok \in BOOLEAN /\ r.events \in Seq(Event) /\ GoodStore(r.store) /\ r.store \in Store
       /\ Newest(r.store) \in [Doc -> Nat] /\ Dated(r.store, Newest(r.store)) /\ Newer(r.store)
  BY <1>10 DEF Refreshed, GoodStore, Exact
<1>12. After(copy, outbox') = After(c, r.events) /\ outbox' \in Seq(Event)
  BY <1>1, <1>3, <1>11, AfterConcat
<1>13. TypeOK'
  BY <1>1, <1>2, <1>4, <1>11, <1>12 DEF TypeOK
<1>14. StoreInv' /\ VersionInv'
  BY <1>1, <1>11 DEF StoreInv, VersionInv
<1>15. SentInv'
  BY <1>1, <1>10, <1>12 DEF SentInv, Refreshed
<1>16. BatchInv'
  <2> SUFFICES Once(Tail(todo)) /\ \A i \in 1..Len(Tail(todo)) : NotWaiting(r.store, Tail(todo)[i].uri)
    BY <1>1 DEF BatchInv
  <2>1. \A i \in 1..Len(Tail(todo)) : i + 1 \in 1..Len(todo) /\ i + 1 # 1 /\ i \in Nat
    BY <1>4
  <2>2. Once(Tail(todo))
    <3> SUFFICES ASSUME NEW i \in 1..Len(Tail(todo)), NEW j \in 1..Len(Tail(todo)),
                        Tail(todo)[i].uri = Tail(todo)[j].uri
                 PROVE  i = j
      BY DEF Once
    <3>1. i + 1 = j + 1
      BY <1>4, <1>8, <2>1 DEF Once
    <3> QED BY <2>1, <3>1
  <2>3. ASSUME NEW i \in 1..Len(Tail(todo)) PROVE NotWaiting(r.store, Tail(todo)[i].uri)
    <3>1. todo[i + 1].uri # d /\ NotWaiting(store, todo[i + 1].uri)
      BY <1>4, <1>8, <2>1 DEF Once, d, input
    <3>2. todo[i + 1].uri \in Doc
      <4>1. todo[i + 1] \in Input
        BY <1>3, <2>1
      <4> QED BY <4>1 DEF Input
    <3> QED BY <1>4, <1>10, <3>1, <3>2 DEF Refreshed
  <2> QED BY <2>2, <2>3
<1>17. RequestInv' /\ SyncInv'
  BY <1>1 DEF IInv, RequestInv, SyncInv
<1>18. AnswerInv'
  BY <1>1 DEF IInv, AnswerInv, Unasked
<1> QED BY <1>1, <1>11, <1>13, <1>14, <1>15, <1>16, <1>17, <1>18 DEF IInv

\* The batch is sent, then what waits in the store: the server has the store's Documents.
LEMMA BatchEndStep ==
  ASSUME IInv, BatchEnd
  PROVE  IInv' /\ store'.open = store.open
<1> DEFINE c == After(copy, outbox)
           f == [store EXCEPT !.pending = <<>>]
<1>1. /\ phase \in {"batch", "commit"} /\ todo = <<>> /\ copy' = After(copy, outbox \o store.pending)
      /\ outbox' = <<>> /\ failed' = FALSE /\ store' = f
      /\ UNCHANGED <<file, newest, requests, changes, callbacks>>
  BY DEF BatchEnd, bounds
<1>2. TypeOK /\ StoreInv /\ SentInv /\ VersionInv
  BY DEF IInv
<1>3. outbox \in Seq(Event) /\ copy \in CopyMap /\ store \in Store /\ store.pending \in Seq(Event)
      /\ validated \in Seq(Input) /\ request.inputs \in Seq(Input)
  BY <1>2 DEF TypeOK, CopyMap, Store, Request
<1>4. c \in CopyMap /\ Reaches(c, store)
  BY <1>1, <1>2, <1>3, AfterType DEF SentInv
<1>5. copy' = store.open
  <2>1. copy' = After(c, store.pending)
    BY <1>1, <1>3, AfterConcat
  <2> QED BY <1>3, <1>4, <2>1, ReachesAll
<1>6. GoodStore(f) /\ f.pending = <<>> /\ f.open = store.open /\ f.versions = store.versions
  BY <1>2, FlushedFact DEF StoreInv
<1> HIDE DEF f
<1>7. f \in Store /\ copy' \in CopyMap
  BY <1>3, <1>5, <1>6 DEF GoodStore, Exact, CopyMap, Store
<1>8. After(copy', <<>>) = copy' /\ Reaches(copy', f)
  BY <1>5, <1>6, <1>7, AfterEmpty, ReachesNow
<1>9. StoreInv' /\ VersionInv'
  BY <1>1, <1>2, <1>6 DEF StoreInv, VersionInv, Dated
<1>10. SentInv'
  BY <1>1, <1>6, <1>8 DEF SentInv
<1>11. <<>> \in Seq(Event)
  OBVIOUS
<1>12. CASE phase = "commit" /\ phase' = "active" /\ validated' = (IF failed THEN validated ELSE OpenInputs)
            /\ UNCHANGED <<request, todo, asked>>
  <2>1. validated' \in Seq(Input)
    BY <1>3, <1>12, OpenInputsFact
  <2>2. TypeOK'
    BY <1>1, <1>2, <1>7, <1>11, <1>12, <2>1 DEF TypeOK, Phase, CopyMap
  <2>3. RequestInv' /\ BatchInv' /\ SyncInv'
    BY <1>12 DEF IInv, RequestInv, BatchInv, SyncInv
  <2>4. AnswerInv'
    BY <1>12 DEF IInv, AnswerInv, Unasked
  <2> QED BY <1>1, <1>6, <1>9, <1>10, <2>2, <2>3, <2>4 DEF IInv
<1>13. CASE phase' = "sync" /\ todo' = request.inputs /\ UNCHANGED <<request, validated, asked>>
  <2>1. TypeOK'
    BY <1>1, <1>2, <1>3, <1>7, <1>11, <1>13 DEF TypeOK, Phase, CopyMap
  <2>2. SyncInv'
    <3>1. Latest(f, request.inputs, 0)
      BY <1>3, <1>7, LatestNone
    <3>2. 0 \in 0..Len(request.inputs) /\ SubSeq(request.inputs, 0 + 1, Len(request.inputs)) = request.inputs
      BY <1>3, SubSeqFull
    <3> QED BY <1>1, <1>13, <3>1, <3>2 DEF SyncInv
  <2>3. RequestInv' /\ BatchInv' /\ AnswerInv'
    BY <1>13 DEF IInv, RequestInv, BatchInv, AnswerInv
  <2> QED BY <1>1, <1>6, <1>9, <1>10, <2>1, <2>2, <2>3 DEF IInv
<1>14. CASE Done
  <2>1. TypeOK'
    BY <1>1, <1>2, <1>7, <1>11, <1>14, DoneFact DEF TypeOK, Phase, CopyMap
  <2>2. RequestInv' /\ BatchInv' /\ SyncInv' /\ AnswerInv'
    BY <1>14, DoneFact DEF BatchInv, SyncInv, AnswerInv
  <2> QED BY <1>1, <1>6, <1>9, <1>10, <2>1, <2>2 DEF IInv
<1> QED BY <1>12, <1>13, <1>14 DEF BatchEnd

\* What SyncStep delivers: the server has what the store has.
LEMMA DeliverFact ==
  ASSUME TypeOK, StoreInv, SentInv, VersionInv, phase \in {"sync", "validate"},
         NEW input \in Input, NEW r, r = Refresh(store, input.uri, input.lang), Deliver(r, input.digest)
  PROVE  /\ GoodStore(store') /\ store'.pending = <<>> /\ copy' = store'.open /\ copy' \in CopyMap
         /\ store'.open = r.store.open
         /\ r.ok => store' = r.store
         /\ Newest(r.store) \in [Doc -> Nat] /\ Dated(store', Newest(r.store)) /\ Newer(store')
<1>1. outbox = <<>> /\ store.pending = <<>> /\ copy \in CopyMap /\ NotWaiting(store, input.uri)
      /\ input.uri \in Doc /\ input.lang \in Language
  BY InStep DEF Input
<1>2. Reaches(copy, store)
  <2>1. After(copy, outbox) = copy
    BY <1>1, AfterEmpty
  <2> QED BY <2>1 DEF SentInv
<1>3. Refreshed(copy, input.uri, r)
  BY <1>1, <1>2, RefreshFact DEF TypeOK, VersionInv
<1>4. r.events \in Seq(Event) /\ GoodStore(r.store) /\ r.store \in Store /\ r.store.open \in OpenMap
      /\ Newest(r.store) \in [Doc -> Nat] /\ Dated(r.store, Newest(r.store)) /\ Newer(r.store)
      /\ Reaches(After(copy, r.events), r.store)
  BY <1>3 DEF Refreshed, GoodStore, Exact, Store, OpenMap
<1>5. CASE r.ok
  <2>1. store' = r.store /\ copy' = After(copy, r.events)
    BY <1>5 DEF Deliver
  <2>2. store'.pending = <<>>
    BY <1>1, <1>3, <1>5, <2>1 DEF Refreshed
  <2>3. copy' \in CopyMap
    BY <1>1, <1>4, <2>1, AfterType
  <2>4. copy' = store'.open
    BY <1>4, <2>1, <2>2, <2>3, ReachesNow
  <2> QED BY <1>4, <2>1, <2>2, <2>3, <2>4
<1>6. CASE ~r.ok
  <2>1. store' = [r.store EXCEPT !.pending = <<>>] /\ copy' = After(copy, r.store.pending)
    BY <1>6 DEF Deliver
  <2>2. r.events = <<>>
    BY <1>3, <1>6 DEF Refreshed
  <2>3. Reaches(copy, r.store)
    BY <1>1, <1>4, <2>2, AfterEmpty
  <2>4. copy' = r.store.open
    BY <1>1, <1>4, <2>1, <2>3, ReachesAll
  <2>5. GoodStore(store') /\ store'.pending = <<>> /\ store'.open = r.store.open /\ store'.versions = r.store.versions
    BY <1>4, <2>1, FlushedFact
  <2>6. copy' \in CopyMap
    BY <1>4, <2>4 DEF OpenMap, CopyMap
  <2>7. Dated(store', Newest(r.store)) /\ Newer(store')
    BY <1>4, <2>5 DEF Dated, Newer
  <2> QED BY <1>4, <1>6, <2>4, <2>5, <2>6, <2>7
<1> QED BY <1>5, <1>6

\* A refresh of a request's Document, sent at once.  While a request is prepared the Document
\* joins those brought before; while an answer is validated an acceptable one changed nothing.
LEMMA SyncStepStep ==
  ASSUME IInv, SyncStep
  PROVE  IInv' /\ Newer(store')
<1> DEFINE input == Head(todo)
           d == input.uri
           lang == input.lang
           r == Refresh(store, d, lang)
<1>1. /\ phase \in {"sync", "validate"} /\ todo # <<>>
      /\ Deliver(r, input.digest) /\ newest' = Newest(r.store)
      /\ UNCHANGED <<file, outbox, failed, requests, changes, callbacks>>
  BY DEF SyncStep, bounds
<1>2. \/ Acceptable(r, input) /\ todo' = Tail(todo) /\ UNCHANGED <<phase, request, validated, asked>>
      \/ Done
  BY DEF SyncStep
<1>3. TypeOK /\ StoreInv /\ SentInv /\ VersionInv /\ RequestInv /\ SyncInv /\ AnswerInv
  BY DEF IInv
<1>4. todo \in Seq(Input) /\ validated \in Seq(Input) /\ request.inputs \in Seq(Input) /\ outbox = <<>>
  BY <1>1, <1>3, InStep DEF TypeOK, Request
<1>5. input \in Input /\ Tail(todo) \in Seq(Input) /\ input = todo[1] /\ Len(Tail(todo)) = Len(todo) - 1
      /\ Len(todo) \in Nat /\ Len(todo) >= 1
      /\ \A i \in 1..Len(Tail(todo)) : i + 1 \in 2..Len(todo) /\ Tail(todo)[i] = todo[i + 1]
  BY <1>1, <1>4, TailOnce
<1> HIDE DEF input
<1>6. /\ GoodStore(store') /\ store'.pending = <<>> /\ copy' = store'.open /\ copy' \in CopyMap
      /\ store'.open = r.store.open
      /\ r.ok => store' = r.store
      /\ newest' \in [Doc -> Nat] /\ Dated(store', newest') /\ Newer(store')
  <2> HIDE DEF r
  <2> QED BY <1>1, <1>3, <1>5, DeliverFact DEF r
<1>7. StoreInv' /\ VersionInv' /\ store' \in Store
  BY <1>6 DEF StoreInv, VersionInv, GoodStore, Exact
<1>8. SentInv'
  <2>1. After(copy', <<>>) = copy' /\ Reaches(copy', store')
    BY <1>6, <1>7, AfterEmpty, ReachesNow
  <2> QED BY <1>1, <1>4, <1>6, <2>1 DEF SentInv
<1>9. CASE Done
  <2>1. TypeOK'
    BY <1>1, <1>3, <1>6, <1>7, <1>9, DoneFact DEF TypeOK, Phase, CopyMap
  <2>2. RequestInv' /\ BatchInv' /\ SyncInv' /\ AnswerInv'
    BY <1>9, DoneFact DEF BatchInv, SyncInv, AnswerInv
  <2> QED BY <1>6, <1>7, <1>8, <2>1, <2>2 DEF IInv
<1>10. CASE Acceptable(r, input) /\ todo' = Tail(todo) /\ UNCHANGED <<phase, request, validated, asked>>
  <2>1. TypeOK'
    BY <1>1, <1>3, <1>5, <1>6, <1>7, <1>10 DEF TypeOK, Phase, CopyMap
  <2>2. RequestInv' /\ BatchInv'
    BY <1>1, <1>3, <1>10 DEF RequestInv, BatchInv
  <2>3. r.ok /\ (r.store.open[d].text = input.digest \/ (phase = "validate" /\ request.raw))
    BY <1>10 DEF Acceptable
  <2>4. file \in [Doc -> Text \cup {Unreadable}]
    BY <1>3 DEF TypeOK
  <2>5. SyncInv'
    <3> DEFINE inputs == request.inputs
    <3> SUFFICES ASSUME phase = "sync"
                 PROVE  \E k \in 0..Len(inputs) :
                           /\ Tail(todo) = SubSeq(inputs, k + 1, Len(inputs))
                           /\ Fit(inputs) => Latest(store', inputs, k)
      BY <1>10 DEF SyncInv
    <3>1. PICK k \in 0..Len(inputs) :
             todo = SubSeq(inputs, k + 1, Len(inputs)) /\ (Fit(inputs) => Latest(store, inputs, k))
      BY <1>3 DEF SyncInv
    <3>2. k \in 0..(Len(inputs) - 1) /\ k + 1 \in 0..Len(inputs) /\ Len(inputs) \in Nat
      <4>1. Len(inputs) \in Nat
        BY <1>4
      <4>2. k # Len(inputs)
        <5> SUFFICES ASSUME k = Len(inputs) PROVE FALSE
          OBVIOUS
        <5>1. Len(inputs) + 1 \in Int /\ Len(inputs) < Len(inputs) + 1
          BY <4>1
        <5> HIDE DEF inputs
        <5>2. SubSeq(inputs, Len(inputs) + 1, Len(inputs)) = <<>>
          BY <4>1, <5>1, SubSeqEmpty
        <5> QED BY <1>1, <3>1, <5>2
      <4> QED BY <4>1, <4>2
    <3> HIDE DEF inputs
    <3>4. input = inputs[k + 1] /\ Tail(todo) = SubSeq(inputs, (k + 1) + 1, Len(inputs))
      <4>1. k + 1 \in Int /\ Len(inputs) \in Int /\ k + 1 <= Len(inputs)
        BY <3>2
      <4>2. \A i \in (k + 1)..Len(inputs) : inputs[i] \in Input
        BY <1>4, <3>2 DEF inputs
      <4> QED BY <3>1, <4>1, <4>2, HeadTailOfSubSeq DEF input
    <3>5. ASSUME Fit(inputs) PROVE Latest(store', inputs, k + 1)
      <4>1. r.store.open[d].text = input.digest
        BY <2>3
      <4>2. Alike(inputs) /\ inputs \in Seq(Input) /\ Latest(store, inputs, k)
        BY <1>3, <1>4, <3>1, <3>5 DEF RequestInv, inputs
      <4>3. LET z == Refresh(store, inputs[k + 1].uri, inputs[k + 1].lang)
            IN  z.ok /\ z.store.open[inputs[k + 1].uri].text = inputs[k + 1].digest
        BY <2>3, <3>4, <4>1
      <4>4. Latest(Refresh(store, inputs[k + 1].uri, inputs[k + 1].lang).store, inputs, k + 1)
        BY <1>3, <2>4, <3>2, <3>5, <4>2, <4>3, LatestRefreshed
      <4> QED BY <1>6, <2>3, <3>4, <4>4
    <3> QED BY <3>2, <3>4, <3>5
  <2>6. AnswerInv'
    <3>1. CASE phase = "sync"
      BY <1>10, <3>1 DEF AnswerInv
    <3>2. CASE phase = "validate"
      <4>1. \A j \in 1..Len(Tail(todo)) : \E i \in 1..Len(validated) : Tail(todo)[j] = validated[i]
        <5>1. \A j \in 1..Len(todo) : \E i \in 1..Len(validated) : todo[j] = validated[i]
          BY <1>3, <3>2 DEF AnswerInv
        <5>2. \A j \in 1..Len(Tail(todo)) : j + 1 \in 1..Len(todo)
          BY <1>5
        <5> QED BY <1>5, <5>1, <5>2
      <4>2. ASSUME ~request.raw, Fit(validated), ~Unasked PROVE Unchanged'
        <5>1. Unchanged
          BY <1>3, <3>2, <4>2 DEF AnswerInv
        <5>2. PICK i \in 1..Len(validated) : input = validated[i]
          <6>1. 1 \in 1..Len(todo)
            BY <1>5
          <6> QED BY <1>3, <1>5, <3>2, <6>1 DEF AnswerInv
        <5>3. Matches(store.open, input)
          BY <5>1, <5>2 DEF Unchanged
        <5>4. r.store.open = store.open
          BY <1>3, <1>5, <2>3, <2>4, <4>2, <5>3, RefreshMatches
        <5> QED BY <1>6, <1>10, <5>1, <5>4 DEF Unchanged
      <4>3. Unasked' <=> Unasked
        BY <1>10 DEF Unasked
      <4> HIDE DEF r, d, lang
      <4> QED BY <1>10, <3>2, <4>1, <4>2, <4>3 DEF AnswerInv
    <3> QED BY <1>1, <3>1, <3>2
  <2> QED BY <1>6, <1>7, <1>8, <2>1, <2>2, <2>5, <2>6 DEF IInv
<1> QED BY <1>2, <1>9, <1>10

-----------------------------------------------------------------------------
(* The Documents of a Session that ends in order *)

\* The Documents are closed one after the other, and the server is left with none.
LEMMA ShutdownStep ==
  ASSUME IInv, Shutdown
  PROVE  IInv' /\ \A d \in Doc : store'.open[d] = Closed
<1> DEFINE q == OpenDocs(store.open)
           none == [d \in Doc |-> Closed]
<1>1. /\ phase = "idle" /\ phase' = "closed" /\ UNCHANGED <<file, request, todo, outbox, failed, validated>>
      /\ UNCHANGED <<asked, newest, requests, changes, callbacks>>
      /\ copy' = After(copy, store.pending \o Closings(q))
      /\ store' = [store EXCEPT !.open = none, !.used = <<>>, !.total = 0, !.pending = <<>>]
  BY DEF Shutdown, Closings, history, bounds
<1>2. TypeOK /\ SentInv /\ VersionInv
  BY DEF IInv
<1>3. outbox = <<>> /\ store.pending = <<>> /\ copy = store.open /\ copy \in CopyMap /\ store \in Store
  BY <1>1, <1>2, InStep
<1>4. /\ q \in Seq(Doc) /\ IsInjective(q) /\ \A i \in 1..Len(q) : store.open[q[i]] # Closed
      /\ \A d \in Doc : store.open[d] # Closed => \E i \in 1..Len(q) : q[i] = d
  BY OpenDocsFact
<1> HIDE DEF q
<1>5. copy' = Ended(copy, q)
  <2>1. AllOpen(copy, q)
    BY <1>3, <1>4 DEF AllOpen
  <2>2. After(copy, Closings(q)) = Ended(copy, q)
    BY <1>3, <1>4, <2>1, AfterClosings
  <2>3. <<>> \o Closings(q) = Closings(q)
    BY <1>4, ClosingsType, ConcatEmptySeq
  <2> QED BY <1>1, <1>3, <2>2, <2>3
<1>6. Ended(copy, q) = none
  BY <1>3, <1>4 DEF Ended
<1>7. /\ store' \in Store /\ store'.open = none /\ store'.used = <<>> /\ store'.total = 0
      /\ store'.pending = <<>> /\ store'.versions = store.versions
  <2>1. <<>> \in Seq(Doc) /\ <<>> \in Seq(Event) /\ 0 \in Nat /\ none \in [Doc -> Snapshot \cup {Closed}]
    OBVIOUS
  <2> HIDE DEF none
  <2> QED BY <1>1, <1>3, <2>1 DEF Store
<1>8. none \in CopyMap /\ \A d \in Doc : none[d] = Closed
  BY DEF CopyMap
<1>9. StoreInv'
  <2>1. TotalBytes(none, <<>>) = 0
    BY TotalEmpty
  <2>2. IsInjective(<<>>) /\ Range(<<>>) = {} /\ Len(<<>>) = 0
    BY DEF IsInjective, Range
  <2> HIDE DEF none
  <2>3. GoodStore(store')
    BY <1>7, <1>8, <2>1, <2>2, ConstantAssumption DEF GoodStore, Exact
  <2> QED BY <2>3 DEF StoreInv
<1> HIDE DEF none
<1>10. TypeOK'
  BY <1>1, <1>2, <1>5, <1>6, <1>7, <1>8 DEF TypeOK, Phase, CopyMap
<1>11. VersionInv'
  BY <1>1, <1>2, <1>7, <1>8 DEF VersionInv, Dated
<1>12. SentInv'
  <2>1. After(copy', <<>>) = copy'
    BY <1>5, <1>6, <1>8, AfterEmpty
  <2>2. Reaches(copy', store')
    BY <1>5, <1>6, <1>7, <1>8, ReachesNow
  <2> QED BY <1>1, <1>3, <1>7, <2>1, <2>2 DEF SentInv
<1>13. RequestInv' /\ BatchInv' /\ SyncInv' /\ AnswerInv'
  BY <1>1 DEF IInv, RequestInv, BatchInv, SyncInv, AnswerInv
<1> QED BY <1>7, <1>8, <1>9, <1>10, <1>11, <1>12, <1>13 DEF IInv

-----------------------------------------------------------------------------
(* Theorems *)

\* The invariant holds when the Session starts.
LEMMA InitInv == Init => IInv
<1> SUFFICES ASSUME Init PROVE IInv
  OBVIOUS
<1> DEFINE none == [d \in Doc |-> Closed]
<1>1. none \in CopyMap /\ none \in OpenMap /\ \A d \in Doc : none[d] = Closed
  BY DEF CopyMap, OpenMap
<1>2. /\ store = [open |-> none, used |-> <<>>, versions |-> [d \in Doc |-> 0], total |-> 0, pending |-> <<>>]
      /\ copy = none /\ asked = none /\ newest = [d \in Doc |-> 0] /\ phase = "idle" /\ request = NoRequest
      /\ todo = <<>> /\ outbox = <<>> /\ failed = FALSE /\ validated = <<>>
      /\ requests = 0 /\ changes = 0 /\ callbacks = 0 /\ file \in [Doc -> Text]
  BY DEF Init
<1> HIDE DEF none
<1>3. <<>> \in Seq(Doc) /\ <<>> \in Seq(Event) /\ <<>> \in Seq(Input) /\ [d \in Doc |-> 0] \in [Doc -> Nat]
  OBVIOUS
<1>4. store \in Store
  BY <1>1, <1>2, <1>3 DEF Store, OpenMap
<1>5. NoRequest \in Request /\ Alike(NoRequest.inputs)
  BY <1>3 DEF NoRequest, Request, Alike
<1>6. TypeOK
  <2>1. 0 \in 0..MaxRequests /\ 0 \in 0..MaxChanges /\ 0 \in 0..MaxCallbacks
    BY ConstantAssumption
  <2>2. file \in [Doc -> Text \cup {Unreadable}]
    BY <1>2
  <2>3. copy \in CopyMap /\ asked \in CopyMap /\ newest \in [Doc -> Nat]
    BY <1>1, <1>2, <1>3
  <2> QED BY <1>2, <1>3, <1>4, <1>5, <2>1, <2>2, <2>3 DEF TypeOK, Phase, CopyMap
<1>7. StoreInv
  <2>1. TotalBytes(none, <<>>) = 0
    BY TotalEmpty
  <2>2. IsInjective(<<>>) /\ Range(<<>>) = {} /\ Len(<<>>) = 0
    BY DEF IsInjective, Range
  <2>3. store.open = none /\ store.used = <<>> /\ store.total = 0
    BY <1>2
  <2> QED BY <1>1, <1>4, <2>1, <2>2, <2>3, ConstantAssumption DEF StoreInv, GoodStore, Exact
<1>8. SentInv
  <2>1. After(copy, <<>>) = copy /\ store.pending = <<>> /\ store.open = copy
    BY <1>1, <1>2, AfterEmpty
  <2>2. Reaches(copy, store)
    BY <1>1, <1>2, <1>4, <2>1, ReachesNow
  <2> QED BY <1>2, <2>1, <2>2 DEF SentInv
<1>9. BatchInv /\ SyncInv /\ AnswerInv /\ RequestInv
  BY <1>2, <1>5 DEF BatchInv, SyncInv, AnswerInv, RequestInv
<1>10. VersionInv
  BY <1>1, <1>2 DEF VersionInv, Dated
<1> QED BY <1>6, <1>7, <1>8, <1>9, <1>10 DEF IInv

\* Every step keeps it.
LEMMA StepInv == IInv /\ [Next]_vars => IInv'
<1> SUFFICES ASSUME IInv, [Next]_vars PROVE IInv'
  OBVIOUS
<1>1. ASSUME NEW d \in Doc, Change(d) PROVE IInv'
  BY <1>1, ChangeStep
<1>2. ASSUME NEW kind \in {"refresh", "diagnostics", "dispatch"}, Submit(kind) PROVE IInv'
  BY <1>2, SubmitStep
<1>3. CASE Begin
  BY <1>3, BeginStep
<1>4. CASE BatchStep
  BY <1>4, BatchStepStep
<1>5. CASE BatchEnd
  BY <1>5, BatchEndStep
<1>6. CASE SyncStep
  BY <1>6, SyncStepStep
<1>7. CASE Send
  BY <1>7, SendStep
<1>8. CASE Answer
  BY <1>8, AnsweredStep DEF Answer
<1>9. CASE Commit
  BY <1>9, CommitStep
<1>10. CASE Respond
  BY <1>10, RespondStep
<1>11. CASE Succeed
  BY <1>11, AnsweredStep DEF Succeed
<1>12. CASE Shutdown
  BY <1>12, ShutdownStep
<1>13. CASE End
  BY <1>13, EndStep
<1>14. CASE UNCHANGED vars
  BY <1>14 DEF vars, loop, history, bounds, IInv, TypeOK, StoreInv, SentInv, BatchInv, VersionInv, RequestInv,
               SyncInv, AnswerInv, Unasked, Unchanged
<1> QED BY <1>1, <1>2, <1>3, <1>4, <1>5, <1>6, <1>7, <1>8, <1>9, <1>10, <1>11, <1>12, <1>13, <1>14 DEF Next

\* IInv holds in every state of a Session, for every list of Documents, every size of a
\* text and every limit.
THEOREM Invariance == Spec => []IInv
BY InitInv, StepInv, PTL DEF Spec

\* The Owner's state and the server's Documents keep their types.
THEOREM TypeCorrect == Spec => []TypeOK
<1>1. IInv => TypeOK
  BY DEF IInv
<1> QED BY <1>1, Invariance, PTL

\* evict_to_limits: whatever is refreshed, fails or is evicted, in whatever order,
\* the store holds no more Documents and no more text than it may, and the total
\* it keeps up to date is the size of what it holds.
THEOREM WithinLimitsHolds == Spec => []WithinLimits
<1>1. IInv => WithinLimits
  BY DEF IInv, StoreInv, GoodStore, Exact, WithinLimits
<1> QED BY <1>1, Invariance, PTL

\* What the server was told and what is still to be sent to it, in the order in
\* which refresh_open_documents and synchronize_documents send it, is what the
\* DocumentStore holds.
THEOREM ServerSeesStoreHolds == Spec => []ServerSeesStore
<1>1. IInv => ServerSeesStore
  <2> SUFFICES ASSUME IInv, phase # "down"
               PROVE  After(copy, outbox \o store.pending) = store.open
    BY DEF ServerSeesStore
  <2>1. copy \in CopyMap /\ outbox \in Seq(Event) /\ store \in Store /\ store.pending \in Seq(Event)
    BY DEF IInv, TypeOK, CopyMap, Store
  <2>2. After(copy, outbox) \in CopyMap /\ Reaches(After(copy, outbox), store)
    BY <2>1, AfterType DEF IInv, SentInv
  <2>3. After(copy, outbox \o store.pending) = After(After(copy, outbox), store.pending)
    BY <2>1, AfterConcat
  <2> QED BY <2>1, <2>2, <2>3, ReachesAll
<1> QED BY <1>1, Invariance, PTL

\* synchronize_documents: a Document the request brought is not evicted by the
\* others it brings, and the server has each of them as the caller read it.
THEOREM SentCurrentHolds == Spec => []SentCurrent
<1>1. IInv => SentCurrent
  <2> DEFINE inputs == request.inputs
  <2> SUFFICES ASSUME IInv, phase = "sync", todo = <<>>, Fit(inputs), NEW i \in 1..Len(inputs)
               PROVE  /\ copy[inputs[i].uri] \in Snapshot
                      /\ copy[inputs[i].uri].text = inputs[i].digest
                      /\ copy[inputs[i].uri].lang = inputs[i].lang
    BY DEF SentCurrent
  <2>1. inputs \in Seq(Input) /\ TypeOK /\ SentInv
    BY DEF IInv, TypeOK, Request
  <2>2. copy = store.open /\ store \in Store
    BY <2>1, InStep
  <2>3. PICK k \in 0..Len(inputs) : todo = SubSeq(inputs, k + 1, Len(inputs)) /\ Latest(store, inputs, k)
    BY DEF IInv, SyncInv
  <2>4. k = Len(inputs)
    <3>1. Len(SubSeq(inputs, k + 1, Len(inputs))) = Len(inputs) - k /\ Len(inputs) \in Nat
      BY <2>1, <2>3
    <3>2. Len(todo) = 0
      OBVIOUS
    <3>3. Len(inputs) - k = 0
      BY <2>3, <3>1, <3>2
    <3> QED BY <3>1, <3>3
  <2>5. Matches(store.open, inputs[i])
    BY <2>3, <2>4 DEF Latest, Recent
  <2>6. inputs[i].uri \in Doc
    <3>1. inputs[i] \in Input
      BY <2>1
    <3> QED BY <3>1 DEF Input
  <2> QED BY <2>2, <2>5, <2>6 DEF Matches, Store
<1> QED BY <1>1, Invariance, PTL

\* validate_documents_after_query: a named query is answered only if each Document
\* it came with is, at its version, the one the server had when it was written.
THEOREM StableAnswerHolds == Spec => []StableAnswer
<1>1. IInv => StableAnswer
  <2> SUFFICES ASSUME IInv, phase = "validate", ~request.raw, Fit(validated),
                      NEW i \in 1..Len(validated), asked[validated[i].uri] # Closed
               PROVE  copy[validated[i].uri] = asked[validated[i].uri]
    BY DEF StableAnswer
  <2>1. TypeOK /\ SentInv /\ (Unasked \/ Unchanged)
    BY DEF IInv, AnswerInv
  <2>2. copy = store.open
    BY <2>1, InStep
  <2>3. validated[i].uri \in Doc
    <3>1. validated[i] \in Input
      BY <2>1 DEF TypeOK
    <3> QED BY <3>1 DEF Input
  <2> QED BY <2>1, <2>2, <2>3 DEF Unasked, Unchanged
<1> QED BY <1>1, Invariance, PTL

\* next_version: a Document is opened at a version that is newer than all it had,
\* whether it was closed, evicted or unreadable in between.
THEOREM VersionsGrowHolds == Spec => VersionsGrow
<1> DEFINE A == \A d \in Doc :
                  store'.open[d] \notin {store.open[d], Closed} => store'.open[d].version > newest[d]
<1>1. IInv /\ [Next]_vars => [A]_vars
  <2> SUFFICES ASSUME IInv, Next PROVE A
    OBVIOUS
  <2>1. CASE BatchStep
    BY <2>1, BatchStepStep DEF Newer
  <2>2. CASE SyncStep
    BY <2>2, SyncStepStep DEF Newer
  <2>3. CASE BatchEnd
    BY <2>3, BatchEndStep
  <2>4. CASE Shutdown
    BY <2>4, ShutdownStep
  <2>5. CASE UNCHANGED store
    BY <2>5
  <2>6. ASSUME NEW d \in Doc, Change(d) PROVE UNCHANGED store
    BY <2>6 DEF Change
  <2>7. ASSUME NEW kind \in {"refresh", "diagnostics", "dispatch"}, Submit(kind) PROVE UNCHANGED store
    BY <2>7 DEF Submit
  <2>8. Begin \/ Send \/ Answer \/ Commit \/ Respond \/ Succeed \/ End => UNCHANGED store
    BY DEF Begin, Send, Answer, Commit, Respond, Succeed, End
  <2> HIDE DEF A
  <2> QED BY <2>1, <2>2, <2>3, <2>4, <2>5, <2>6, <2>7, <2>8 DEF Next
<1> HIDE DEF A
<1>2. IInv /\ [Next]_vars => [A]_vars
  BY <1>1
<1>3. Spec => [][A]_vars
  BY <1>2, Invariance, PTL DEF Spec
<1> QED BY <1>3 DEF A, VersionsGrow
=============================================================================
