---------------------------- MODULE FoldTheorems ----------------------------
(***************************************************************************)
(* Facts about left folds over finite sequences and sums over finite sets, *)
(* for the proofs about the modules that use FoldLeft and SumFunction.  A  *)
(* fold is compared with Folded, its definition as a sequence of partial   *)
(* results, so that what holds of a fold can be proved by induction on the *)
(* sequence it runs over.  A sum is shown not to depend on the order in    *)
(* which its numbers are taken.                                            *)
(***************************************************************************)
EXTENDS Integers, Sequences, FiniteSets, SequencesExt, WellFoundedInduction, SequenceTheorems, FiniteSetTheorems, TLAPS

Less == {ss \in Nat \X Nat : ss[1] < ss[2]}

\* The order of the naturals is well founded.
LEMMA LessIsWellFounded == IsWellFoundedOn(Less, Nat)
BY NatLessThanWellFounded DEF OpToRel, Less

\* Induction: a set that holds 0 and with each number the next holds every number.
LEMMA NatSet ==
  ASSUME NEW G, 0 \in G, \A n \in Nat : n \in G => n + 1 \in G
  PROVE  Nat \subseteq G
<1>1. SUFFICES ASSUME NEW z \in Nat, z \notin G PROVE FALSE
  OBVIOUS
<1> DEFINE T == Nat \ G
<1>2. T \subseteq Nat /\ T # {}
  BY <1>1
<1>3. PICK x \in T : \A y \in T : ~ (<<y, x>> \in Less)
  <2> HIDE DEF T
  <2> QED BY <1>2, LessIsWellFounded, WFMin
<1>4. x \in Nat /\ x # 0
  OBVIOUS
<1>5. x - 1 \in T
  BY <1>4, (x - 1) + 1 = x
<1>6. <<x - 1, x>> \in Less
  BY <1>4, <1>5 DEF Less
<1> QED BY <1>3, <1>5, <1>6

\* A set of numbers that is not empty has a least member.
LEMMA LeastNumber ==
  ASSUME NEW T \in SUBSET Nat, T # {}
  PROVE  \E x \in T : \A y \in T : x <= y
<1>1. PICK x \in T : \A y \in T : ~ (<<y, x>> \in Less)
  BY LessIsWellFounded, WFMin
<1>2. \A y \in T : ~ (y < x)
  BY <1>1 DEF Less
<1> QED BY <1>2

\* Induction over sequences: a set that holds <<>> and every extension of what
\* it holds holds every sequence.
LEMMA SeqSet ==
  ASSUME NEW E, NEW G, <<>> \in G,
         \A q \in Seq(E), e \in E : q \in G => Append(q, e) \in G
  PROVE  Seq(E) \subseteq G
<1> DEFINE H == {n \in Nat : \A q \in Seq(E) : Len(q) = n => q \in G}
<1>1. 0 \in H
  <2>1. \A q \in Seq(E) : Len(q) = 0 => q = <<>>
    BY EmptySeq
  <2> QED BY <2>1
<1>2. \A n \in Nat : n \in H => n + 1 \in H
  <2> SUFFICES ASSUME NEW n \in Nat, n \in H, NEW q \in Seq(E), Len(q) = n + 1
               PROVE  q \in G
    OBVIOUS
  <2> DEFINE p == [i \in 1..n |-> q[i]]
  <2>1. p \in Seq(E) /\ Len(p) = n
    OBVIOUS
  <2>2. q[n + 1] \in E
    OBVIOUS
  <2>3. q = Append(p, q[n + 1])
    OBVIOUS
  <2> HIDE DEF p
  <2>4. p \in G
    BY <2>1
  <2> QED BY <2>1, <2>2, <2>3, <2>4
<1>3. Nat \subseteq H
  <2> HIDE DEF H
  <2> QED BY <1>1, <1>2, NatSet
<1> QED BY <1>3

-----------------------------------------------------------------------------
(* The largest member of a set of positions *)

\* A set of positions that is not empty has a largest member.
LEMMA MaxExists ==
  ASSUME NEW N \in Nat
  PROVE  \A s \in SUBSET (1..N) : s # {} => \E x \in s : \A y \in s : x >= y
<1> DEFINE H == {n \in Nat : \A s \in SUBSET (1..n) : s # {} => \E x \in s : \A y \in s : x >= y}
<1>1. 0 \in H
  <2>1. 1..0 = {}
    OBVIOUS
  <2> QED BY <2>1
<1>2. \A n \in Nat : n \in H => n + 1 \in H
  <2> SUFFICES ASSUME NEW n \in Nat, n \in H, NEW s \in SUBSET (1..(n + 1)), s # {}
               PROVE  \E x \in s : \A y \in s : x >= y
    OBVIOUS
  <2>1. CASE n + 1 \in s
    BY <2>1
  <2>2. CASE n + 1 \notin s
    <3>1. s \in SUBSET (1..n)
      BY <2>2
    <3> QED BY <3>1
  <2> QED BY <2>1, <2>2
<1>3. Nat \subseteq H
  <2> HIDE DEF H
  <2> QED BY <1>1, <1>2, NatSet
<1> QED BY <1>3

\* The greatest member of a set of numbers that has one.
LEMMA MaxFact ==
  ASSUME NEW N \in Nat, NEW s \in SUBSET (1..N), s # {}
  PROVE  Max(s) \in s /\ \A y \in s : Max(s) >= y
<1>1. \E x \in s : \A y \in s : x >= y
  BY MaxExists
<1> QED BY <1>1 DEF Max

\* It is the one that no member exceeds.
LEMMA MaxIs ==
  ASSUME NEW N \in Nat, NEW s \in SUBSET (1..N), NEW m \in s, \A y \in s : m >= y
  PROVE  Max(s) = m
<1>1. Max(s) \in s /\ Max(s) >= m /\ m >= Max(s)
  BY MaxFact
<1>2. \A i \in 1..N : i \in Int
  OBVIOUS
<1>3. Max(s) \in Int /\ m \in Int
  BY <1>1, <1>2, MaxFact
<1> QED BY <1>1, <1>3

\* What a fold does with the positions 1..n.
LEMMA MaxOfInterval ==
  ASSUME NEW n \in Nat, n # 0
  PROVE  Max(1..n) = n /\ (1..n) # {} /\ (1..n) \ {n} = 1..(n - 1)
<1>1. n \in 1..n /\ \A y \in 1..n : n >= y
  OBVIOUS
<1>2. Max(1..n) = n
  BY <1>1, MaxIs
<1> QED BY <1>1, <1>2

\* F folds a sequence of elements of E, from c, into T.
Folds(T, E, F, c, q) == F \in [T \X E -> T] /\ c \in T /\ q \in Seq(E)

\* it is defined by recursion over the sets of positions of q.
Solves(F, c, q, it) ==
    \A s \in SUBSET (1..Len(q)) :
        it[s] = IF s = {} THEN c ELSE F[<<it[s \ {Max(s)}], q[Max(s)]>>]

\* The recursion over sets of positions that a fold is defined by has a solution.
LEMMA FoldSets ==
  ASSUME NEW T, NEW E, NEW F, NEW c, NEW q, Folds(T, E, F, c, q)
  PROVE  \E it \in [SUBSET (1..Len(q)) -> T] : Solves(F, c, q, it)
<1>0. F \in [T \X E -> T] /\ c \in T /\ q \in Seq(E)
  BY DEF Folds
<1> DEFINE G == {r \in Seq(E) : \E it \in [SUBSET (1..Len(r)) -> T] : Solves(F, c, r, it)}
<1>1. <<>> \in G
  <2> DEFINE it == [s \in SUBSET (1..0) |-> c]
  <2>1. it \in [SUBSET (1..Len(<<>>)) -> T] /\ Solves(F, c, <<>>, it)
    BY <1>0 DEF Solves
  <2> HIDE DEF it
  <2>2. \E x \in [SUBSET (1..Len(<<>>)) -> T] : Solves(F, c, <<>>, x)
    BY <2>1
  <2>3. <<>> \in Seq(E)
    OBVIOUS
  <2> QED BY <2>2, <2>3
<1>2. \A r \in Seq(E), e \in E : r \in G => Append(r, e) \in G
  <2> SUFFICES ASSUME NEW r \in Seq(E), NEW e \in E, r \in G PROVE Append(r, e) \in G
    OBVIOUS
  <2> DEFINE n == Len(r)
             a == Append(r, e)
  <2>1. n \in Nat /\ a \in Seq(E) /\ Len(a) = n + 1 /\ a[n + 1] = e /\ \A i \in 1..n : a[i] = r[i]
    OBVIOUS
  <2>2. PICK it \in [SUBSET (1..n) -> T] : Solves(F, c, r, it)
    OBVIOUS
  <2> DEFINE new == [s \in SUBSET (1..(n + 1)) |->
                       IF n + 1 \in s THEN F[<<it[s \ {n + 1}], e>>] ELSE it[s]]
  <2>0. \A i \in 1..(n + 1) : i # n + 1 => i \in 1..n
    BY <2>1
  <2>3. \A s \in SUBSET (1..(n + 1)) : s \ {n + 1} \in SUBSET (1..n)
    BY <2>0
  <2>4. \A s \in SUBSET (1..(n + 1)) : n + 1 \notin s => s \in SUBSET (1..n)
    BY <2>0
  <2>5. new \in [SUBSET (1..(n + 1)) -> T]
    BY <1>0, <2>2, <2>3, <2>4
  <2>6. ASSUME NEW s \in SUBSET (1..(n + 1)), n + 1 \in s
        PROVE  new[s] = F[<<new[s \ {Max(s)}], a[Max(s)]>>]
    <3>0. n + 1 \in Nat /\ \A y \in s : n + 1 >= y
      BY <2>1
    <3>1. Max(s) = n + 1
      BY <2>6, <3>0, MaxIs
    <3>2. s \ {n + 1} \in SUBSET (1..(n + 1)) /\ n + 1 \notin s \ {n + 1}
      OBVIOUS
    <3>3. new[s \ {n + 1}] = it[s \ {n + 1}]
      BY <3>2
    <3>4. new[s] = F[<<it[s \ {n + 1}], e>>]
      BY <2>6
    <3> QED BY <2>1, <3>1, <3>3, <3>4
  <2>7. ASSUME NEW s \in SUBSET (1..(n + 1)), n + 1 \notin s, s # {}
        PROVE  new[s] = F[<<new[s \ {Max(s)}], a[Max(s)]>>]
    <3>1. s \in SUBSET (1..n)
      BY <2>4, <2>7
    <3>2. Max(s) \in s /\ Max(s) \in 1..n
      BY <2>1, <2>7, <3>1, MaxFact
    <3>3. s \ {Max(s)} \in SUBSET (1..n) /\ n + 1 \notin s \ {Max(s)}
      BY <2>7, <3>1
    <3>4. new[s \ {Max(s)}] = it[s \ {Max(s)}] /\ new[s] = it[s]
      BY <2>1, <2>7, <3>1, <3>3
    <3>5. a[Max(s)] = r[Max(s)]
      BY <2>1, <3>2
    <3>6. it[s] = F[<<it[s \ {Max(s)}], r[Max(s)]>>]
      BY <2>2, <2>7, <3>1 DEF Solves
    <3> QED BY <3>4, <3>5, <3>6
  <2>8. new[{}] = c
    BY <2>1, <2>2 DEF Solves
  <2>9. Solves(F, c, a, new)
    <3> SUFFICES ASSUME NEW s \in SUBSET (1..(n + 1))
                 PROVE  new[s] = IF s = {} THEN c ELSE F[<<new[s \ {Max(s)}], a[Max(s)]>>]
      BY <2>1 DEF Solves
    <3> HIDE DEF new, a
    <3>1. CASE s = {}
      BY <2>8, <3>1
    <3>2. CASE s # {} /\ n + 1 \in s
      BY <2>6, <3>2
    <3>3. CASE s # {} /\ n + 1 \notin s
      BY <2>7, <3>3
    <3> QED BY <3>1, <3>2, <3>3
  <2> HIDE DEF new, a
  <2>10. new \in [SUBSET (1..Len(a)) -> T]
    BY <2>1, <2>5
  <2> QED BY <2>1, <2>9, <2>10 DEF a
<1>3. Seq(E) \subseteq G
  <2> HIDE DEF G
  <2> QED BY <1>1, <1>2, SeqSet
<1> QED BY <1>0, <1>3

-----------------------------------------------------------------------------
(* Folded: a fold as the last of its partial results.  F takes pairs of a     *)
(* result in T and an element of E to a result in T.                          *)

Partial(F, c, q) ==
    CHOOSE h : h = [n \in 0..Len(q) |-> IF n = 0 THEN c ELSE F[<<h[n - 1], q[n]>>]]
Folded(F, c, q) == Partial(F, c, q)[Len(q)]

\* The partial results are what the recursion says.
LEMMA PartialFact ==
  ASSUME NEW T, NEW E, NEW F, NEW c, NEW q, Folds(T, E, F, c, q)
  PROVE  /\ Partial(F, c, q)[0] = c
         /\ \A n \in 1..Len(q) : Partial(F, c, q)[n] = F[<<Partial(F, c, q)[n - 1], q[n]>>]
<1>0. F \in [T \X E -> T] /\ c \in T /\ q \in Seq(E)
  BY DEF Folds
<1>1. PICK it \in [SUBSET (1..Len(q)) -> T] : Solves(F, c, q, it)
  BY FoldSets
<1> DEFINE h == [n \in 0..Len(q) |-> it[1..n]]
<1>2. \A n \in 0..Len(q) : h[n] = IF n = 0 THEN c ELSE F[<<h[n - 1], q[n]>>]
  <2> SUFFICES ASSUME NEW n \in 0..Len(q)
               PROVE  h[n] = IF n = 0 THEN c ELSE F[<<h[n - 1], q[n]>>]
    OBVIOUS
  <2>1. CASE n = 0
    <3>1. 1..0 = {} /\ {} \in SUBSET (1..Len(q))
      OBVIOUS
    <3> QED BY <1>1, <2>1, <3>1 DEF Solves
  <2>2. CASE n # 0
    <3>1. n \in Nat /\ n - 1 \in 0..Len(q) /\ 1..n \in SUBSET (1..Len(q))
      BY <2>2
    <3>2. Max(1..n) = n /\ (1..n) # {} /\ (1..n) \ {n} = 1..(n - 1)
      BY <2>2, <3>1, MaxOfInterval
    <3>3. h[n] = it[1..n] /\ h[n - 1] = it[1..(n - 1)]
      BY <3>1
    <3> HIDE DEF h
    <3> QED BY <1>1, <2>2, <3>1, <3>2, <3>3 DEF Solves
  <2> QED BY <2>1, <2>2
<1>3. h = [n \in 0..Len(q) |-> IF n = 0 THEN c ELSE F[<<h[n - 1], q[n]>>]]
  BY <1>2
<1>4. Partial(F, c, q) = [n \in 0..Len(q) |->
         IF n = 0 THEN c ELSE F[<<Partial(F, c, q)[n - 1], q[n]>>]]
  <2> HIDE DEF h
  <2> QED BY <1>3 DEF Partial
<1> QED BY <1>4

\* Every partial result is one.
LEMMA PartialType ==
  ASSUME NEW T, NEW E, NEW F, NEW c, NEW q, Folds(T, E, F, c, q)
  PROVE  \A n \in 0..Len(q) : Partial(F, c, q)[n] \in T
<1>0. F \in [T \X E -> T] /\ c \in T /\ q \in Seq(E)
  BY DEF Folds
<1> DEFINE h == Partial(F, c, q)
           G == {n \in Nat : n \in 0..Len(q) => h[n] \in T}
<1>1. h[0] = c /\ \A n \in 1..Len(q) : h[n] = F[<<h[n - 1], q[n]>>]
  BY PartialFact
<1> HIDE DEF h
<1>2. 0 \in G
  BY <1>0, <1>1
<1>3. \A n \in Nat : n \in G => n + 1 \in G
  <2> SUFFICES ASSUME NEW n \in Nat, n \in G, n + 1 \in 0..Len(q) PROVE h[n + 1] \in T
    OBVIOUS
  <2>1. n \in 0..Len(q) /\ n + 1 \in 1..Len(q) /\ (n + 1) - 1 = n
    BY <1>0
  <2>2. h[n] \in T /\ q[n + 1] \in E
    BY <1>0, <2>1
  <2> QED BY <1>0, <1>1, <2>1, <2>2
<1>4. Nat \subseteq G
  <2> HIDE DEF G
  <2> QED BY <1>2, <1>3, NatSet
<1> QED BY <1>4 DEF h

\* g is the sequence of partial results as far as they are typed.
Obeys(T, F, c, q, g) ==
    g[0] = c /\ \A n \in 1..Len(q) : g[n - 1] \in T => g[n] = F[<<g[n - 1], q[n]>>]

\* Whatever obeys the recursion as long as its results are typed is the fold.
LEMMA PartialUnique ==
  ASSUME NEW T, NEW E, NEW F, NEW c, NEW q, Folds(T, E, F, c, q),
         NEW g, Obeys(T, F, c, q, g)
  PROVE  \A n \in 0..Len(q) : g[n] = Partial(F, c, q)[n]
<1>0. F \in [T \X E -> T] /\ c \in T /\ q \in Seq(E)
  BY DEF Folds
<1> DEFINE h == Partial(F, c, q)
           G == {n \in Nat : n \in 0..Len(q) => g[n] = h[n]}
<1>1. h[0] = c /\ \A n \in 1..Len(q) : h[n] = F[<<h[n - 1], q[n]>>]
  BY PartialFact
<1>2. \A n \in 0..Len(q) : h[n] \in T
  BY PartialType
<1> HIDE DEF h
<1>3. 0 \in G
  BY <1>1 DEF Obeys
<1>4. \A n \in Nat : n \in G => n + 1 \in G
  <2> SUFFICES ASSUME NEW n \in Nat, n \in G, n + 1 \in 0..Len(q) PROVE g[n + 1] = h[n + 1]
    OBVIOUS
  <2>1. n \in 0..Len(q) /\ n + 1 \in 1..Len(q) /\ (n + 1) - 1 = n
    BY <1>0
  <2>2. g[n] = h[n] /\ g[n] \in T
    BY <1>2, <2>1
  <2> QED BY <1>1, <2>1, <2>2 DEF Obeys
<1>5. Nat \subseteq G
  <2> HIDE DEF G
  <2> QED BY <1>3, <1>4, NatSet
<1> QED BY <1>5 DEF h

\* The result of a fold is of the type of its partial results.
LEMMA FoldedType ==
  ASSUME NEW T, NEW E, NEW F, NEW c, NEW q, Folds(T, E, F, c, q)
  PROVE  Folded(F, c, q) \in T
<1>1. Len(q) \in 0..Len(q)
  BY DEF Folds
<1> QED BY <1>1, PartialType DEF Folded

\* A fold over nothing is where it started.
LEMMA FoldedEmpty ==
  ASSUME NEW T, NEW E, NEW F, NEW c, Folds(T, E, F, c, <<>>)
  PROVE  Folded(F, c, <<>>) = c
<1>1. Partial(F, c, <<>>)[0] = c
  BY PartialFact
<1> QED BY <1>1 DEF Folded

\* A fold over one element more takes one step more.
LEMMA FoldedAppend ==
  ASSUME NEW T, NEW E, NEW F, NEW c, NEW q, Folds(T, E, F, c, q), NEW e \in E
  PROVE  Folded(F, c, Append(q, e)) = F[<<Folded(F, c, q), e>>]
<1>0. F \in [T \X E -> T] /\ c \in T /\ q \in Seq(E)
  BY DEF Folds
<1> DEFINE a == Append(q, e)
           g == Partial(F, c, a)
<1>1. a \in Seq(E) /\ Len(a) = Len(q) + 1 /\ a[Len(q) + 1] = e /\ \A i \in 1..Len(q) : a[i] = q[i]
  BY <1>0
<1>2. Folds(T, E, F, c, a)
  BY <1>0, <1>1 DEF Folds
<1> HIDE DEF a
<1>3. g[0] = c /\ \A n \in 1..Len(a) : g[n] = F[<<g[n - 1], a[n]>>]
  BY <1>2, PartialFact
<1> HIDE DEF g
<1>4. \A n \in 1..Len(q) : n \in 1..Len(a)
  BY <1>0, <1>1
<1>5. Obeys(T, F, c, q, g)
  BY <1>1, <1>3, <1>4 DEF Obeys
<1>6. \A n \in 0..Len(q) : g[n] = Partial(F, c, q)[n]
  BY <1>5, PartialUnique
<1>7. Len(q) \in 0..Len(q) /\ Len(q) + 1 \in 1..Len(a) /\ (Len(q) + 1) - 1 = Len(q)
  BY <1>0, <1>1
<1>8. g[Len(a)] = F[<<g[Len(q)], e>>]
  BY <1>1, <1>3, <1>7
<1> QED BY <1>6, <1>7, <1>8 DEF Folded, a, g

\* A fold goes on from where an earlier one ended.
LEMMA FoldedConcat ==
  ASSUME NEW T, NEW E, NEW F, NEW c, NEW p, Folds(T, E, F, c, p)
  PROVE  \A q \in Seq(E) : Folded(F, c, p \o q) = Folded(F, Folded(F, c, p), q)
<1> DEFINE G == {q \in Seq(E) : Folded(F, c, p \o q) = Folded(F, Folded(F, c, p), q)}
           d == Folded(F, c, p)
<1>0. F \in [T \X E -> T] /\ c \in T /\ p \in Seq(E) /\ d \in T
  BY FoldedType DEF Folds
<1> HIDE DEF d
<1>1. <<>> \in G
  <2>1. p \o <<>> = p /\ <<>> \in Seq(E)
    BY <1>0
  <2>2. Folds(T, E, F, d, <<>>)
    BY <1>0 DEF Folds
  <2>3. Folded(F, d, <<>>) = d
    BY <2>2, FoldedEmpty
  <2> QED BY <2>1, <2>3 DEF d
<1>2. \A q \in Seq(E), e \in E : q \in G => Append(q, e) \in G
  <2> SUFFICES ASSUME NEW q \in Seq(E), NEW e \in E, q \in G PROVE Append(q, e) \in G
    OBVIOUS
  <2>1. p \o Append(q, e) = Append(p \o q, e) /\ p \o q \in Seq(E) /\ Append(q, e) \in Seq(E)
    BY <1>0
  <2>2. Folds(T, E, F, c, p \o q) /\ Folds(T, E, F, d, q)
    BY <1>0, <2>1 DEF Folds
  <2>3. Folded(F, c, Append(p \o q, e)) = F[<<Folded(F, c, p \o q), e>>]
    BY <2>2, FoldedAppend
  <2>4. Folded(F, d, Append(q, e)) = F[<<Folded(F, d, q), e>>]
    BY <2>2, FoldedAppend
  <2>5. Folded(F, c, p \o q) = Folded(F, d, q)
    BY DEF d
  <2> QED BY <2>1, <2>3, <2>4, <2>5 DEF d
<1>3. Seq(E) \subseteq G
  <2> HIDE DEF G
  <2> QED BY <1>1, <1>2, SeqSet
<1> QED BY <1>3

-----------------------------------------------------------------------------
(* How FoldLeft(Op, c, q), a recursion over the sets of positions of q, is    *)
(* recognized as Folded(F, c, q) where F takes <<t, e>> to Op(t, e).          *)

\* it is a function of the sets of positions that obeys the recursion, with typed
\* arguments at each step.
Recursion(T, E, F, c, q, it) ==
    /\ it = [s \in SUBSET (1..Len(q)) |-> it[s]]
    /\ it[{}] = c
    /\ \A s \in SUBSET (1..Len(q)) : s # {} =>
          /\ it[s \ {Max(s)}] \in T
          /\ q[Max(s)] \in E
          /\ it[s] = F[<<it[s \ {Max(s)}], q[Max(s)]>>]

\* There is a function that computes a left fold by removing its last element.
LEMMA FoldLeftExists ==
  ASSUME NEW T, NEW E, NEW F, NEW c, NEW q, Folds(T, E, F, c, q)
  PROVE  \E it : Recursion(T, E, F, c, q, it)
<1>1. F \in [T \X E -> T] /\ c \in T /\ q \in Seq(E) /\ Len(q) \in Nat
  BY DEF Folds
<1>2. PICK it \in [SUBSET (1..Len(q)) -> T] : Solves(F, c, q, it)
  BY FoldSets
<1>3. ASSUME NEW s \in SUBSET (1..Len(q)), s # {}
      PROVE  /\ it[s \ {Max(s)}] \in T
             /\ q[Max(s)] \in E
             /\ it[s] = F[<<it[s \ {Max(s)}], q[Max(s)]>>]
  <2>1. Max(s) \in s
    BY <1>1, <1>3, MaxFact
  <2>2. Max(s) \in 1..Len(q) /\ s \ {Max(s)} \in SUBSET (1..Len(q))
    BY <2>1
  <2>3. q[Max(s)] \in E
    BY <1>1, <2>2
  <2> QED BY <1>2, <1>3, <2>2, <2>3 DEF Solves
<1>4. it[{}] = c
  BY <1>2 DEF Solves
<1>5. Recursion(T, E, F, c, q, it)
  BY <1>2, <1>3, <1>4 DEF Recursion
<1> QED BY <1>5

\* it is the recursion a FoldLeft is defined by, as far as its arguments are typed.
Iterates(T, E, F, c, q, it) ==
    /\ it[{}] = c
    /\ \A s \in SUBSET (1..Len(q)) : s # {} /\ q[Max(s)] \in E /\ it[s \ {Max(s)}] \in T =>
          it[s] = F[<<it[s \ {Max(s)}], q[Max(s)]>>]

\* Only the intervals 1..n matter: the recursion ends in the fold.
LEMMA FoldedIter ==
  ASSUME NEW T, NEW E, NEW F, NEW c, NEW q, Folds(T, E, F, c, q),
         NEW it, Iterates(T, E, F, c, q, it)
  PROVE  it[1..Len(q)] = Folded(F, c, q)
<1>1. F \in [T \X E -> T] /\ c \in T /\ q \in Seq(E) /\ Len(q) \in Nat
  BY DEF Folds
<1> DEFINE g == [n \in 0..Len(q) |-> it[1..n]]
<1>2. g[0] = c
  <2>1. 1..0 = {} /\ 0 \in 0..Len(q)
    BY <1>1
  <2> QED BY <2>1 DEF Iterates
<1>3. ASSUME NEW n \in 1..Len(q), g[n - 1] \in T
      PROVE  g[n] = F[<<g[n - 1], q[n]>>]
  <2>1. g[n] = it[1..n] /\ g[n - 1] = it[1..(n - 1)] /\ n \in Nat /\ n # 0
    BY <1>1
  <2>2. Max(1..n) = n /\ (1..n) # {} /\ (1..n) \ {n} = 1..(n - 1)
    BY <2>1, MaxOfInterval
  <2>3. 1..n \in SUBSET (1..Len(q)) /\ q[n] \in E
    BY <1>1
  <2> HIDE DEF g
  <2> QED BY <1>3, <2>1, <2>2, <2>3 DEF Iterates
<1>4. g[Len(q)] = it[1..Len(q)] /\ Len(q) \in 0..Len(q)
  BY <1>1
<1> HIDE DEF g
<1>5. Obeys(T, F, c, q, g)
  BY <1>2, <1>3 DEF Obeys
<1>6. \A n \in 0..Len(q) : g[n] = Partial(F, c, q)[n]
  BY <1>5, PartialUnique
<1> QED BY <1>4, <1>6 DEF Folded

-----------------------------------------------------------------------------
(* Sums over finite sets *)

\* The element that FoldFunctionOnSet takes first.
Pick(s) == CHOOSE x \in s : TRUE

\* it is the sum of f over every set of D.
Adds(D, f, it) ==
    \A s \in D : it[s] = IF s = {} THEN 0 ELSE f[Pick(s)] + it[s \ {Pick(s)}]

\* Two functions give what is in D the same value.
Agree(D, f, g) == \A x \in D : f[x] = g[x]

\* The recursion over subsets that a sum is defined by has a solution.
LEMMA SumExists ==
  ASSUME NEW S, IsFiniteSet(S), NEW f \in [S -> Nat]
  PROVE  \E it \in [SUBSET S -> Nat] : Adds(SUBSET S, f, it)
<1> DEFINE Small(n) == {s \in SUBSET S : Cardinality(s) <= n}
           G == {n \in Nat : \E it \in [Small(n) -> Nat] : Adds(Small(n), f, it)}
<1>1. \A s \in SUBSET S : IsFiniteSet(s) /\ Cardinality(s) \in Nat
  BY FS_Subset, FS_CardinalityType
<1>2. 0 \in G
  <2> DEFINE it == [s \in Small(0) |-> 0]
  <2>1. \A s \in Small(0) : s = {}
    BY <1>1, FS_EmptySet
  <2>2. it \in [Small(0) -> Nat] /\ Adds(Small(0), f, it)
    BY <2>1 DEF Adds
  <2> HIDE DEF it, Small
  <2> QED BY <2>2
<1>3. \A n \in Nat : n \in G => n + 1 \in G
  <2> SUFFICES ASSUME NEW n \in Nat, n \in G PROVE n + 1 \in G
    OBVIOUS
  <2>1. PICK it \in [Small(n) -> Nat] : Adds(Small(n), f, it)
    OBVIOUS
  <2> DEFINE new == [s \in Small(n + 1) |-> IF s = {} THEN 0 ELSE f[Pick(s)] + it[s \ {Pick(s)}]]
  <2>2. ASSUME NEW s \in Small(n + 1), s # {}
        PROVE  /\ Pick(s) \in s /\ s \ {Pick(s)} \in Small(n) /\ s \ {Pick(s)} \in Small(n + 1)
    <3>1. Pick(s) \in s
      BY <2>2 DEF Pick
    <3>2. Cardinality(s \ {Pick(s)}) = Cardinality(s) - 1
      BY <1>1, <3>1, FS_RemoveElement
    <3> QED BY <1>1, <3>1, <3>2
  <2>3. new \in [Small(n + 1) -> Nat]
    <3>1. ASSUME NEW s \in Small(n + 1), s # {} PROVE f[Pick(s)] + it[s \ {Pick(s)}] \in Nat
      <4>1. f[Pick(s)] \in Nat /\ it[s \ {Pick(s)}] \in Nat
        <5>1. Pick(s) \in S
          BY <2>2, <3>1
        <5> QED BY <2>2, <3>1, <5>1
      <4> QED BY <4>1
    <3> HIDE DEF Small
    <3> QED BY <3>1
  <2>4. \A s \in Small(n + 1) : s \in Small(n) => new[s] = it[s]
    BY <2>1 DEF Adds
  <2>5. Adds(Small(n + 1), f, new)
    <3> SUFFICES ASSUME NEW s \in Small(n + 1), s # {}
                 PROVE  new[s] = f[Pick(s)] + new[s \ {Pick(s)}]
      BY <2>3 DEF Adds
    <3>1. new[s] = f[Pick(s)] + it[s \ {Pick(s)}]
      OBVIOUS
    <3>2. new[s \ {Pick(s)}] = it[s \ {Pick(s)}]
      BY <2>2, <2>4
    <3> QED BY <3>1, <3>2
  <2> HIDE DEF new, Small
  <2> QED BY <2>3, <2>5
<1>4. Nat \subseteq G
  <2> HIDE DEF G
  <2> QED BY <1>2, <1>3, NatSet
<1>5. PICK it \in [Small(Cardinality(S)) -> Nat] : Adds(Small(Cardinality(S)), f, it)
  BY <1>1, <1>4
<1>6. Small(Cardinality(S)) = SUBSET S
  BY FS_Subset
<1> QED BY <1>5, <1>6

\* Two sums of the same numbers are the same.
LEMMA SumUnique ==
  ASSUME NEW S, IsFiniteSet(S), NEW T, S \subseteq T, NEW f, NEW g, Agree(S, f, g),
         NEW h, NEW k, Adds(SUBSET S, f, h), Adds(SUBSET T, g, k)
  PROVE  Agree(SUBSET S, h, k)
<1> DEFINE G == {n \in Nat : \A s \in SUBSET S : Cardinality(s) = n => h[s] = k[s]}
<1>1. \A s \in SUBSET S : IsFiniteSet(s) /\ Cardinality(s) \in Nat /\ s \in SUBSET T
  BY FS_Subset, FS_CardinalityType
<1>2. 0 \in G
  <2> SUFFICES ASSUME NEW s \in SUBSET S, Cardinality(s) = 0 PROVE h[s] = k[s]
    OBVIOUS
  <2>1. s = {}
    BY <1>1, FS_EmptySet
  <2> QED BY <1>1, <2>1 DEF Adds
<1>3. \A n \in Nat : n \in G => n + 1 \in G
  <2> SUFFICES ASSUME NEW n \in Nat, n \in G, NEW s \in SUBSET S, Cardinality(s) = n + 1
               PROVE  h[s] = k[s]
    OBVIOUS
  <2>1. s # {}
    <3>1. Cardinality({}) = 0 /\ n + 1 # 0
      BY FS_EmptySet
    <3> QED BY <3>1
  <2>2. Pick(s) \in s
    BY <2>1 DEF Pick
  <2>3. s \ {Pick(s)} \in SUBSET S /\ Cardinality(s \ {Pick(s)}) = n
    <3>1. s \ {Pick(s)} \in SUBSET S
      OBVIOUS
    <3>2. Cardinality(s \ {Pick(s)}) = Cardinality(s) - 1
      BY <1>1, <2>2, FS_RemoveElement
    <3>3. Cardinality(s \ {Pick(s)}) = n
      BY <3>2
    <3> QED BY <3>1, <3>3
  <2>4. h[s \ {Pick(s)}] = k[s \ {Pick(s)}] /\ f[Pick(s)] = g[Pick(s)]
    BY <2>2, <2>3 DEF Agree
  <2>5. h[s] = f[Pick(s)] + h[s \ {Pick(s)}] /\ k[s] = g[Pick(s)] + k[s \ {Pick(s)}]
    BY <1>1, <2>1 DEF Adds
  <2> QED BY <2>4, <2>5
<1>4. Nat \subseteq G
  <2> HIDE DEF G
  <2> QED BY <1>2, <1>3, NatSet
<1> QED BY <1>1, <1>4 DEF Agree

\* In whatever order the numbers are taken, one more adds what it is.
LEMMA SumMore ==
  ASSUME NEW S, IsFiniteSet(S), NEW f \in [S -> Nat], NEW it \in [SUBSET S -> Nat], Adds(SUBSET S, f, it)
  PROVE  \A s \in SUBSET S, e \in S : e \notin s => it[s \cup {e}] = it[s] + f[e]
<1> DEFINE Holds(n) == \A s \in SUBSET S : \A e \in S :
                         Cardinality(s) = n /\ e \notin s => it[s \cup {e}] = it[s] + f[e]
           G == {n \in Nat : Holds(n)}
<1>1. \A s \in SUBSET S : IsFiniteSet(s) /\ Cardinality(s) \in Nat /\ it[s] \in Nat
  BY FS_Subset, FS_CardinalityType
<1>0. \A x \in S : f[x] \in Nat
  OBVIOUS
<1>2. 0 \in G
  <2> SUFFICES ASSUME NEW s \in SUBSET S, NEW e \in S, Cardinality(s) = 0
               PROVE  it[s \cup {e}] = it[s] + f[e]
    OBVIOUS
  <2>1. s = {} /\ s \cup {e} = {e}
    BY <1>1, FS_EmptySet
  <2>2. Pick({e}) = e /\ {e} \ {e} = {}
    BY DEF Pick
  <2>3. it[{e}] = f[e] + it[{}] /\ it[{}] = 0
    BY <2>2 DEF Adds
  <2> QED BY <1>0, <2>1, <2>3
<1>3. \A n \in Nat : n \in G => n + 1 \in G
  <2> SUFFICES ASSUME NEW n \in Nat, Holds(n), NEW s \in SUBSET S, NEW e \in S,
                      Cardinality(s) = n + 1, e \notin s
               PROVE  it[s \cup {e}] = it[s] + f[e]
    <3>1. ASSUME NEW n \in Nat, n \in G PROVE Holds(n)
      BY <3>1
    <3>2. ASSUME NEW n \in Nat, Holds(n + 1) PROVE n + 1 \in G
      BY <3>2
    <3> HIDE DEF G
    <3> QED BY <3>1, <3>2
  <2> DEFINE x == Pick(s \cup {e})
             r == s \ {x}
  <2>1. x \in s \cup {e} /\ s \cup {e} \in SUBSET S /\ x \in S
    BY DEF Pick
  <2>2. it[s \cup {e}] = f[x] + it[(s \cup {e}) \ {x}]
    BY <2>1 DEF Adds
  <2>3. CASE x = e
    <3>1. (s \cup {e}) \ {x} = s
      BY <2>3
    <3>2. it[s \cup {e}] = f[e] + it[s]
      BY <2>2, <2>3, <3>1
    <3>3. f[e] \in Nat /\ it[s] \in Nat
      BY <1>0, <1>1
    <3> QED BY <3>2, <3>3
  <2>4. CASE x # e
    <3> HIDE DEF x
    <3>1. x \in s /\ r \in SUBSET S /\ (s \cup {e}) \ {x} = r \cup {e} /\ r \cup {x} = s /\ x \notin r /\ e \notin r
      BY <2>1, <2>4
    <3>2. Cardinality(r) = n
      <4>1. IsFiniteSet(s) /\ Cardinality(s) = n + 1
        BY <1>1
      <4>2. Cardinality(s \ {x}) = Cardinality(s) - 1
        BY <3>1, <4>1, FS_RemoveElement
      <4> QED BY <4>1, <4>2
    <3> HIDE DEF r
    <3>3. it[r \cup {e}] = it[r] + f[e]
      BY <3>1, <3>2
    <3>4. it[r \cup {x}] = it[r] + f[x]
      BY <2>1, <3>1, <3>2
    <3>5. f[x] \in Nat /\ f[e] \in Nat /\ it[r] \in Nat
      BY <1>0, <1>1, <2>1, <3>1
    <3>6. it[s] = it[r] + f[x] /\ it[s \cup {e}] = f[x] + (it[r] + f[e])
      BY <2>2, <3>1, <3>3, <3>4
    <3> QED BY <3>5, <3>6
  <2> QED BY <2>3, <2>4
<1>4. Nat \subseteq G
  <2> HIDE DEF G
  <2> QED BY <1>2, <1>3, NatSet
<1> QED BY <1>1, <1>4

\* SumFunction is that sum.
LEMMA SumFact ==
  ASSUME NEW S, IsFiniteSet(S), NEW f \in [S -> Nat]
  PROVE  \E it \in [SUBSET S -> Nat] : Adds(SUBSET S, f, it) /\ SumFunction(f) = it[S]
<1> DEFINE Rec(it) == [s \in SUBSET S |-> IF s = {} THEN 0
                                         ELSE f[CHOOSE x \in s : TRUE] + it[s \ {CHOOSE x \in s : TRUE}]]
           I == CHOOSE it : it = Rec(it)
<1>1. PICK it \in [SUBSET S -> Nat] : Adds(SUBSET S, f, it)
  BY SumExists
<1>2. it = Rec(it)
  BY <1>1 DEF Adds, Pick
<1>3. I = Rec(I)
  <2> HIDE DEF Rec
  <2> QED BY <1>2
<1>4. DOMAIN f = S
  OBVIOUS
<1>5. SumFunction(f) = I[S]
  BY <1>4, Zenon DEF SumFunction, SumFunctionOnSet, FoldFunctionOnSet, MapThenFoldSet
<1> HIDE DEF I
<1>6. Adds(SUBSET S, f, I)
  BY <1>3 DEF Adds, Pick
<1>7. Agree(SUBSET S, I, it)
  <2>1. Agree(S, f, f) /\ S \subseteq S
    BY DEF Agree
  <2> QED BY <1>1, <1>6, <2>1, SumUnique
<1>8. I[S] = it[S]
  BY <1>7 DEF Agree
<1> QED BY <1>1, <1>5, <1>8

\* The sum of no numbers.
LEMMA SumOfNone ==
  ASSUME NEW f \in [{} -> Nat]
  PROVE  SumFunction(f) = 0
<1>1. PICK it \in [SUBSET {} -> Nat] : Adds(SUBSET {}, f, it) /\ SumFunction(f) = it[{}]
  BY SumFact, FS_EmptySet
<1> QED BY <1>1 DEF Adds

\* The sum of all numbers and of all but one.
LEMMA SumTaken ==
  ASSUME NEW T, IsFiniteSet(T), NEW g \in [T -> Nat], NEW k \in [SUBSET T -> Nat], Adds(SUBSET T, g, k)
  PROVE  \A e \in T : k[T] = k[T \ {e}] + g[e]
<1>1. \A s \in SUBSET T, e \in T : e \notin s => k[s \cup {e}] = k[s] + g[e]
  BY SumMore
<1>2. \A e \in T : T \ {e} \in SUBSET T /\ e \notin T \ {e} /\ (T \ {e}) \cup {e} = T
  OBVIOUS
<1> QED BY <1>1, <1>2

\* The sum of some of the numbers.
LEMMA SumPart ==
  ASSUME NEW T, IsFiniteSet(T), NEW g, NEW k, Adds(SUBSET T, g, k),
         NEW S, S \subseteq T, NEW f, f \in [S -> Nat], Agree(S, f, g)
  PROVE  SumFunction(f) = k[S] /\ SumFunction(f) \in Nat
<1>1. IsFiniteSet(S)
  BY FS_Subset
<1>2. PICK h : h \in [SUBSET S -> Nat] /\ Adds(SUBSET S, f, h) /\ SumFunction(f) = h[S]
  BY <1>1, SumFact
<1>3. Agree(SUBSET S, h, k)
  BY <1>1, <1>2, SumUnique
<1>4. S \in SUBSET S
  OBVIOUS
<1> QED BY <1>2, <1>3, <1>4 DEF Agree

\* g gives the numbers of f, and one more for e.
Extends(S, f, e, g) ==
    /\ IsFiniteSet(S) /\ f \in [S -> Nat]
    /\ e \notin S /\ g \in [S \cup {e} -> Nat] /\ Agree(S, f, g)

\* The sum with one number more.
LEMMA SumAdded ==
  ASSUME NEW S, NEW f, NEW e, NEW g, Extends(S, f, e, g)
  PROVE  SumFunction(f) \in Nat /\ SumFunction(g) = SumFunction(f) + g[e]
<1> USE DEF Extends
<1>0. PICK T : T = S \cup {e}
  OBVIOUS
<1>1. IsFiniteSet(T) /\ S \in SUBSET T /\ e \in T /\ T \ {e} = S /\ g \in [T -> Nat]
  BY <1>0, FS_AddElement
<1>2. PICK k \in [SUBSET T -> Nat] : Adds(SUBSET T, g, k) /\ SumFunction(g) = k[T]
  BY <1>1, SumFact
<1>3. k[T] = k[S] + g[e]
  BY <1>1, <1>2, SumTaken
<1>4. SumFunction(f) = k[S] /\ SumFunction(f) \in Nat
  BY <1>1, <1>2, SumPart
<1> QED BY <1>2, <1>3, <1>4
=============================================================================
