---- MODULE FileEffects_proofs ----
(***************************************************************************)
(* What FileEffects promises, proved for any plans, disks and paths that   *)
(* its assumptions allow, any number of strangers' writes, and a crash or  *)
(* a fault at any step: the evidence is true and enough                    *)
(* (EvidenceIsTrue), a commit and a rollback end only with the files exact *)
(* (EndsAreExact), and a stranger's text is lost only in a race that no    *)
(* check can close (StrangerKept).                                         *)
(*                                                                         *)
(* The argument follows a second tree beside the plan's own: Now(n), the   *)
(* disk after n operations with what they set aside in its undo slots.     *)
(* Each manifest the code computes without looking at the disk tells of    *)
(* that tree (Tells), whatever strangers do; and while nobody interferes   *)
(* the files are that tree at every step, forwards and backwards           *)
(* (ExactTree).  The other two properties need what the slots may hold     *)
(* (SlotInv, OriginInv) and what a check still says when the call it was   *)
(* made for follows (SourceInv, RaceInv, DoneInv).                         *)
(***************************************************************************)
EXTENDS FileEffects, FoldTheorems

-----------------------------------------------------------------------------
(* Paths *)

\* Paths, and the root above them.
AnyPath == Seq(Names)

\* Paths are sequences of names that are not empty; the parent of one is a path,
\* or the root.
LEMMA PathFacts ==
  ASSUME NEW p \in Paths
  PROVE  /\ p \in AnyPath /\ Len(p) \in Nat /\ Len(p) >= 1
         /\ Parent(p) \in AnyPath /\ Len(Parent(p)) = Len(p) - 1
         /\ \A i \in 1..(Len(p) - 1) : Parent(p)[i] = p[i]
         /\ Parent(p) # <<>> => Parent(p) \in Paths
<1>1. p \in Seq(Names) /\ p # <<>> /\ Len(p) \in Nat
  BY PathsAssumption
<1>2. Len(p) >= 1
  BY <1>1, EmptySeq
<1>3. Parent(p) = [i \in 1..(Len(p) - 1) |-> p[i]]
  BY <1>1, <1>2 DEF Parent, Front
<1>4. Parent(p) \in Seq(Names) /\ Len(Parent(p)) = Len(p) - 1
  BY <1>1, <1>2, <1>3
<1>5. Len(p) = 1 => Parent(p) = <<>>
  BY <1>4, EmptySeq
<1>6. Len(p) = 1 \/ Parent(p) \in Paths
  BY PathsAssumption DEF Parent
<1> QED BY <1>1, <1>2, <1>3, <1>4, <1>5, <1>6 DEF AnyPath

\* Being a prefix, element by element.
LEMMA UnderIs ==
  ASSUME NEW p \in AnyPath, NEW r \in AnyPath
  PROVE  Under(p, r) <=> Len(r) <= Len(p) /\ \A i \in 1..Len(r) : p[i] = r[i]
<1>1. Len(p) \in Nat /\ Len(r) \in Nat
  BY DEF AnyPath
<1>2. SubSeq(r, 1, Len(r)) = [i \in 1..Len(r) |-> r[i]]
  BY <1>1 DEF AnyPath
<1>3. Len(r) <= Len(p) => SubSeq(p, 1, Len(r)) = [i \in 1..Len(r) |-> p[i]]
  BY <1>1 DEF AnyPath
<1> QED BY <1>1, <1>2, <1>3 DEF Under, IsPrefix

\* Under is a partial order, and a tree: what lies above one path is comparable.
LEMMA UnderOrder ==
  ASSUME NEW p \in AnyPath, NEW q \in AnyPath, NEW r \in AnyPath
  PROVE  /\ Under(p, p) /\ Under(p, <<>>)
         /\ Under(p, q) /\ Under(q, r) => Under(p, r)
         /\ Under(p, q) /\ Under(q, p) => p = q
         /\ Under(p, q) /\ Under(p, r) => Under(q, r) \/ Under(r, q)
<1>1. Len(p) \in Nat /\ Len(q) \in Nat /\ Len(r) \in Nat
  BY DEF AnyPath
<1>2. Under(p, p)
  BY <1>1, UnderIs
<1>3. Under(p, <<>>)
  <2>1. <<>> \in AnyPath /\ Len(<<>>) = 0
    BY DEF AnyPath
  <2> QED BY <1>1, <2>1, UnderIs
<1>4. Under(p, q) /\ Under(q, r) => Under(p, r)
  BY <1>1, UnderIs
<1>5. Under(p, q) /\ Under(q, p) => p = q
  <2> SUFFICES ASSUME Under(p, q), Under(q, p) PROVE p = q
    OBVIOUS
  <2>1. Len(p) = Len(q) /\ \A i \in 1..Len(p) : p[i] = q[i]
    BY <1>1, UnderIs
  <2> QED BY <2>1, SeqEqual DEF AnyPath
<1>6. Under(p, q) /\ Under(p, r) => Under(q, r) \/ Under(r, q)
  <2> SUFFICES ASSUME Under(p, q), Under(p, r) PROVE Under(q, r) \/ Under(r, q)
    OBVIOUS
  <2>1. CASE Len(q) <= Len(r)
    BY <1>1, <2>1, UnderIs
  <2>2. CASE Len(r) <= Len(q)
    BY <1>1, <2>2, UnderIs
  <2> QED BY <1>1, <2>1, <2>2
<1> QED BY <1>2, <1>3, <1>4, <1>5, <1>6

\* The parent of a path, and what lies between.
LEMMA ParentFacts ==
  ASSUME NEW p \in Paths, NEW a \in AnyPath
  PROVE  /\ Below(p, Parent(p)) /\ Parent(p) # p
         /\ Below(p, a) <=> Under(Parent(p), a)
<1>1. /\ p \in AnyPath /\ Parent(p) \in AnyPath /\ Len(p) \in Nat /\ Len(p) >= 1
      /\ Len(Parent(p)) = Len(p) - 1 /\ \A i \in 1..(Len(p) - 1) : Parent(p)[i] = p[i]
  BY PathFacts
<1>0. Len(a) \in Nat
  BY DEF AnyPath
<1>2. Parent(p) # p
  BY <1>1
<1>3. Under(p, Parent(p))
  BY <1>1, UnderIs
<1>4. ASSUME Below(p, a) PROVE Under(Parent(p), a)
  <2>1. Len(a) <= Len(p) /\ \A i \in 1..Len(a) : p[i] = a[i]
    BY <1>1, <1>4, UnderIs DEF Below
  <2>2. Len(a) # Len(p)
    <3> SUFFICES ASSUME Len(a) = Len(p) PROVE FALSE
      OBVIOUS
    <3>1. a = p
      BY <1>1, <2>1, SeqEqual DEF AnyPath
    <3> QED BY <1>4, <3>1 DEF Below
  <2> QED BY <1>0, <1>1, <2>1, <2>2, UnderIs
<1>5. ASSUME Under(Parent(p), a) PROVE Below(p, a)
  <2>1. Len(a) <= Len(p) - 1 /\ \A i \in 1..Len(a) : Parent(p)[i] = a[i]
    BY <1>1, <1>5, UnderIs
  <2>2. a # p
    BY <1>0, <1>1, <2>1
  <2> QED BY <1>0, <1>1, <2>1, <2>2, UnderIs DEF Below
<1> QED BY <1>2, <1>3, <1>4, <1>5 DEF Below

\* Moving a path from below a to below b, element by element.
LEMMA RebaseIs ==
  ASSUME NEW p \in AnyPath, NEW a \in AnyPath, NEW b \in AnyPath, Under(p, a)
  PROVE  /\ Rebase(p, a, b) \in AnyPath
         /\ Len(Rebase(p, a, b)) = Len(b) + Len(p) - Len(a)
         /\ \A i \in 1..Len(b) : Rebase(p, a, b)[i] = b[i]
         /\ \A i \in 1..(Len(p) - Len(a)) : Rebase(p, a, b)[Len(b) + i] = p[Len(a) + i]
<1>1. Len(p) \in Nat /\ Len(a) \in Nat /\ Len(b) \in Nat /\ Len(a) <= Len(p)
  BY UnderIs DEF AnyPath
<1> DEFINE s == SubSeq(p, Len(a) + 1, Len(p))
<1>2. s = [i \in 1..(Len(p) - Len(a)) |-> p[Len(a) + i]]
  <2>1. s = [i \in 1..((Len(p) - (Len(a) + 1)) + 1) |-> p[i + (Len(a) + 1) - 1]]
    BY <1>1 DEF AnyPath
  <2>2. (Len(p) - (Len(a) + 1)) + 1 = Len(p) - Len(a) /\ \A i \in Int : i + (Len(a) + 1) - 1 = Len(a) + i
    BY <1>1
  <2> QED BY <1>1, <2>1, <2>2
<1>3. s \in Seq(Names) /\ Len(s) = Len(p) - Len(a) /\ \A i \in 1..(Len(p) - Len(a)) : s[i] = p[Len(a) + i]
  <2>1. \A i \in 1..(Len(p) - Len(a)) : p[Len(a) + i] \in Names
    BY <1>1 DEF AnyPath
  <2> HIDE DEF s
  <2> QED BY <1>1, <1>2, <2>1
<1> HIDE DEF s
<1>4. Rebase(p, a, b) = b \o s
  BY DEF Rebase, s
<1> DEFINE r == b \o s
<1>5. b \in Seq(Names) /\ s \in Seq(Names)
  BY <1>3 DEF AnyPath
<1>6. r \in Seq(Names) /\ Len(r) = Len(b) + Len(s) /\ \A i \in 1..Len(b) : r[i] = b[i]
  BY <1>1, <1>5
<1>7. ASSUME NEW i \in 1..(Len(p) - Len(a)) PROVE r[Len(b) + i] = p[Len(a) + i]
  <2>1. i \in 1..Len(s) /\ s[i] = p[Len(a) + i]
    BY <1>3
  <2>2. r[Len(b) + i] = s[i]
    BY <1>1, <1>5, <2>1
  <2> QED BY <2>1, <2>2
<1>8. Len(r) = Len(b) + Len(p) - Len(a)
  BY <1>1, <1>3, <1>6
<1> HIDE DEF r
<1>9. Rebase(p, a, b) = r
  BY <1>4 DEF r
<1> QED BY <1>6, <1>7, <1>8, <1>9 DEF AnyPath

\* Moving there and back is the identity; the order below is kept.
LEMMA RebaseFacts ==
  ASSUME NEW p \in AnyPath, NEW a \in AnyPath, NEW b \in AnyPath, Under(p, a)
  PROVE  /\ Rebase(p, a, b) \in AnyPath /\ Under(Rebase(p, a, b), b)
         /\ Rebase(Rebase(p, a, b), b, a) = p
         /\ Rebase(p, a, b) = b <=> p = a
<1>1. Len(p) \in Nat /\ Len(a) \in Nat /\ Len(b) \in Nat /\ Len(a) <= Len(p) /\ \A i \in 1..Len(a) : p[i] = a[i]
  BY UnderIs DEF AnyPath
<1> DEFINE r == Rebase(p, a, b)
<1>2. /\ r \in AnyPath /\ Len(r) = Len(b) + Len(p) - Len(a) /\ \A i \in 1..Len(b) : r[i] = b[i]
      /\ \A i \in 1..(Len(p) - Len(a)) : r[Len(b) + i] = p[Len(a) + i]
  BY RebaseIs
<1> HIDE DEF r
<1>3. r \in AnyPath /\ Under(r, b)
  BY <1>1, <1>2, UnderIs
<1> DEFINE z == Rebase(r, b, a)
<1>0. /\ Rebase(r, b, a) \in AnyPath
      /\ Len(Rebase(r, b, a)) = Len(a) + Len(r) - Len(b)
      /\ \A i \in 1..Len(a) : Rebase(r, b, a)[i] = a[i]
      /\ \A i \in 1..(Len(r) - Len(b)) : Rebase(r, b, a)[Len(a) + i] = r[Len(b) + i]
  <2> HIDE DEF z
  <2>1. r \in AnyPath
    BY <1>3
  <2>2. Under(r, b)
    BY <1>3
  <2> QED BY <2>1, <2>2, RebaseIs, Zenon
<1>4. /\ z \in AnyPath /\ Len(z) = Len(a) + Len(r) - Len(b) /\ \A i \in 1..Len(a) : z[i] = a[i]
      /\ \A i \in 1..(Len(r) - Len(b)) : z[Len(a) + i] = r[Len(b) + i]
  BY <1>0
<1> HIDE DEF z
<1>5. z = p
  <2>1. Len(z) = Len(p)
    BY <1>1, <1>2, <1>4
  <2>2. ASSUME NEW i \in 1..Len(p) PROVE z[i] = p[i]
    <3>1. CASE i <= Len(a)
      BY <1>1, <1>4, <3>1
    <3>2. CASE i > Len(a)
      <4>1. i - Len(a) \in 1..(Len(p) - Len(a)) /\ Len(r) - Len(b) = Len(p) - Len(a) /\ Len(a) + (i - Len(a)) = i
        BY <1>1, <1>2, <3>2
      <4>2. z[Len(a) + (i - Len(a))] = r[Len(b) + (i - Len(a))]
        BY <1>4, <4>1
      <4>3. r[Len(b) + (i - Len(a))] = p[Len(a) + (i - Len(a))]
        BY <1>2, <4>1
      <4> QED BY <4>1, <4>2, <4>3
    <3> QED BY <1>1, <3>1, <3>2
  <2> QED BY <1>4, <2>1, <2>2, SeqEqual DEF AnyPath
<1>6. ASSUME r = b PROVE p = a
  <2>1. Len(p) = Len(a)
    BY <1>1, <1>2, <1>6
  <2> QED BY <1>1, <2>1, SeqEqual DEF AnyPath
<1>7. ASSUME p = a PROVE r = b
  <2>1. Len(r) = Len(b)
    BY <1>1, <1>2, <1>7
  <2> QED BY <1>2, <2>1, SeqEqual DEF AnyPath
<1> QED BY <1>2, <1>3, <1>5, <1>6, <1>7 DEF r, z

\* m is p, moved from below a to below b.
Moved(p, a, b, m) ==
    /\ m \in AnyPath /\ Len(m) = Len(b) + Len(p) - Len(a)
    /\ \A i \in 1..Len(b) : m[i] = b[i]
    /\ \A i \in 1..(Len(p) - Len(a)) : m[Len(b) + i] = p[Len(a) + i]

\* Rebasing a path under a gives its tail under b, element by element.
LEMMA MovedIs ==
  ASSUME NEW p \in AnyPath, NEW a \in AnyPath, NEW b \in AnyPath, Under(p, a)
  PROVE  Moved(p, a, b, Rebase(p, a, b))
BY RebaseIs, Zenon DEF Moved

\* Moving keeps who lies below whom, parents and last names.
LEMMA RebaseOrder ==
  ASSUME NEW p \in AnyPath, NEW q \in AnyPath, NEW a \in AnyPath, NEW b \in AnyPath,
         Under(p, a), Under(q, p)
  PROVE  Under(q, a) /\ Under(Rebase(q, a, b), Rebase(p, a, b))
<1>0. Under(q, a)
  BY UnderOrder
<1>1. /\ Len(p) \in Nat /\ Len(q) \in Nat /\ Len(a) \in Nat /\ Len(b) \in Nat
      /\ Len(a) <= Len(p) /\ Len(p) <= Len(q) /\ \A i \in 1..Len(p) : q[i] = p[i]
  BY UnderIs DEF AnyPath
<1>a. Moved(p, a, b, Rebase(p, a, b)) /\ Moved(q, a, b, Rebase(q, a, b))
  BY <1>0, MovedIs
<1> DEFINE x == Rebase(p, a, b)
           y == Rebase(q, a, b)
<1>2. /\ x \in AnyPath /\ Len(x) = Len(b) + Len(p) - Len(a) /\ \A i \in 1..Len(b) : x[i] = b[i]
      /\ \A i \in 1..(Len(p) - Len(a)) : x[Len(b) + i] = p[Len(a) + i]
  BY <1>a DEF Moved
<1>3. /\ y \in AnyPath /\ Len(y) = Len(b) + Len(q) - Len(a) /\ \A i \in 1..Len(b) : y[i] = b[i]
      /\ \A i \in 1..(Len(q) - Len(a)) : y[Len(b) + i] = q[Len(a) + i]
  BY <1>a DEF Moved
<1> HIDE DEF x, y
<1>4. ASSUME NEW i \in 1..Len(x) PROVE y[i] = x[i]
  <2>1. CASE i <= Len(b)
    BY <1>1, <1>2, <1>3, <2>1
  <2>2. CASE i > Len(b)
    <3> DEFINE j == i - Len(b)
    <3>1. j \in 1..(Len(p) - Len(a)) /\ j \in 1..(Len(q) - Len(a)) /\ Len(b) + j = i /\ Len(a) + j \in 1..Len(p)
      BY <1>1, <1>2, <2>2
    <3> HIDE DEF j
    <3>2. x[Len(b) + j] = p[Len(a) + j] /\ y[Len(b) + j] = q[Len(a) + j]
      BY <1>2, <1>3, <3>1
    <3>3. q[Len(a) + j] = p[Len(a) + j]
      BY <1>1, <3>1
    <3> QED BY <3>1, <3>2, <3>3
  <2> QED BY <1>1, <1>2, <2>1, <2>2
<1>5. Len(x) <= Len(y)
  BY <1>1, <1>2, <1>3
<1>6. Under(y, x)
  BY <1>2, <1>3, <1>4, <1>5, UnderIs
<1> QED BY <1>0, <1>6 DEF x, y

\* What lies strictly below the moved root moves with its parent and keeps its
\* last name.
LEMMA RebaseParent ==
  ASSUME NEW p \in Paths, NEW a \in AnyPath, NEW b \in AnyPath, Below(p, a), Rebase(p, a, b) \in Paths
  PROVE  /\ Under(Parent(p), a)
         /\ Parent(Rebase(p, a, b)) = Rebase(Parent(p), a, b)
         /\ Last(Rebase(p, a, b)) = Last(p)
<1>0. Under(p, a) /\ Under(Parent(p), a)
  BY ParentFacts DEF Below
<1>1. /\ p \in AnyPath /\ Parent(p) \in AnyPath /\ Len(p) \in Nat /\ Len(p) >= 1
      /\ Len(Parent(p)) = Len(p) - 1 /\ \A i \in 1..(Len(p) - 1) : Parent(p)[i] = p[i]
  BY PathFacts
<1>a. Moved(p, a, b, Rebase(p, a, b)) /\ Moved(Parent(p), a, b, Rebase(Parent(p), a, b))
  BY <1>0, <1>1, MovedIs
<1> DEFINE r == Rebase(p, a, b)
           s == Rebase(Parent(p), a, b)
<1>2. /\ r \in AnyPath /\ Len(r) = Len(b) + Len(p) - Len(a) /\ \A i \in 1..Len(b) : r[i] = b[i]
      /\ \A i \in 1..(Len(p) - Len(a)) : r[Len(b) + i] = p[Len(a) + i]
  BY <1>a DEF Moved
<1>3. /\ s \in AnyPath /\ Len(s) = Len(b) + Len(Parent(p)) - Len(a) /\ \A i \in 1..Len(b) : s[i] = b[i]
      /\ \A i \in 1..(Len(Parent(p)) - Len(a)) : s[Len(b) + i] = Parent(p)[Len(a) + i]
  BY <1>a DEF Moved
<1>4. /\ Parent(r) \in AnyPath /\ Len(r) >= 1
      /\ Len(Parent(r)) = Len(r) - 1 /\ \A i \in 1..(Len(r) - 1) : Parent(r)[i] = r[i]
  BY PathFacts
<1>5. Len(a) \in Nat /\ Len(b) \in Nat /\ Len(a) <= Len(p) - 1
  BY <1>0, <1>1, UnderIs DEF AnyPath
<1> HIDE DEF r, s
<1>6. Len(Parent(r)) = Len(s)
  BY <1>1, <1>2, <1>3, <1>4, <1>5
<1>7. ASSUME NEW i \in 1..Len(Parent(r)) PROVE Parent(r)[i] = s[i]
  <2>1. Parent(r)[i] = r[i]
    BY <1>4
  <2>2. CASE i <= Len(b)
    BY <1>2, <1>3, <1>5, <2>1, <2>2
  <2>3. CASE i > Len(b)
    <3> DEFINE j == i - Len(b)
    <3>1. /\ j \in 1..(Len(p) - Len(a)) /\ j \in 1..(Len(Parent(p)) - Len(a)) /\ Len(b) + j = i
          /\ Len(a) + j \in 1..(Len(p) - 1)
      BY <1>1, <1>2, <1>4, <1>5, <2>3
    <3> HIDE DEF j
    <3>2. r[Len(b) + j] = p[Len(a) + j] /\ s[Len(b) + j] = Parent(p)[Len(a) + j]
      BY <1>2, <1>3, <3>1
    <3>3. Parent(p)[Len(a) + j] = p[Len(a) + j]
      BY <1>1, <3>1
    <3> QED BY <2>1, <3>1, <3>2, <3>3
  <2> QED BY <1>4, <1>5, <2>2, <2>3
<1>8. Parent(r) = s
  BY <1>3, <1>4, <1>6, <1>7, SeqEqual DEF AnyPath
<1>9. r[Len(r)] = p[Len(p)]
  <2>1. Len(p) - Len(a) \in 1..(Len(p) - Len(a)) /\ Len(b) + (Len(p) - Len(a)) = Len(r) /\ Len(a) + (Len(p) - Len(a)) = Len(p)
    BY <1>1, <1>2, <1>5
  <2> QED BY <1>2, <2>1
<1> QED BY <1>0, <1>8, <1>9 DEF r, s, Last

\* Paths of which neither lies below the other have nothing below in common.
Apart(a, b) == ~Under(a, b) /\ ~Under(b, a)

\* Two paths of which neither is above the other: nothing lies under both.
LEMMA ApartFacts ==
  ASSUME NEW a \in AnyPath, NEW b \in AnyPath, Apart(a, b)
  PROVE  /\ Apart(b, a) /\ a # b
         /\ \A p \in AnyPath : Under(p, a) => ~Under(p, b) /\ Apart(p, b)
         /\ \A p \in Paths : Under(p, a) => ~Under(Parent(p), b)
<1>1. \A p \in AnyPath : Under(p, a) => ~Under(p, b) /\ Apart(p, b)
  <2> SUFFICES ASSUME NEW p \in AnyPath, Under(p, a) PROVE ~Under(p, b) /\ ~Under(b, p)
    BY DEF Apart
  <2>1. ~Under(p, b)
    BY UnderOrder DEF Apart
  <2>2. ~Under(b, p)
    BY UnderOrder DEF Apart
  <2> QED BY <2>1, <2>2
<1>2. \A p \in Paths : Under(p, a) => ~Under(Parent(p), b)
  BY <1>1, ParentFacts, PathFacts DEF Below
<1>3. a # b
  BY UnderOrder DEF Apart
<1> QED BY <1>1, <1>2, <1>3 DEF Apart

\* Nothing lies above a single name.
LEMMA OneName ==
  ASSUME NEW u \in Paths, Len(u) = 1, NEW p \in Paths, Under(u, p)
  PROVE  p = u
<1>1. u \in AnyPath /\ p \in AnyPath
  BY PathFacts
<1>2. Len(p) \in Nat /\ Len(p) >= 1
  BY PathFacts
<1>3. Len(p) <= 1 /\ \A j \in 1..Len(p) : u[j] = p[j]
  BY <1>1, UnderIs
<1>4. Len(p) = 1
  BY <1>2, <1>3
<1>5. Len(u) = Len(p) /\ \A j \in 1..Len(u) : u[j] = p[j]
  BY <1>3, <1>4
<1> QED BY <1>1, <1>5, SeqEqual DEF AnyPath

\* The undo slots are single names, apart from each other and from the Workspace.
LEMMA UndoFacts ==
  ASSUME NEW i \in DOMAIN UndoName
  PROVE  /\ Undo(i) \in Paths /\ Undo(i) \in AnyPath /\ Undo(i) \in UndoPaths /\ Parent(Undo(i)) = <<>>
         /\ \A p \in Paths \ UndoPaths : Apart(p, Undo(i))
         /\ \A p \in Paths : Under(p, Undo(i)) => p \in UndoPaths
         /\ \A j \in DOMAIN UndoName : i # j => Apart(Undo(i), Undo(j))
<1>1. Undo(i) \in Paths /\ Undo(i) \in AnyPath
  BY UndoAssumption, PathFacts
<1>2. Len(Undo(i)) = 1 /\ Undo(i)[1] = UndoName[i]
  BY DEF Undo
<1> HIDE DEF Undo
<1>u. PICK u \in Paths : u = Undo(i) /\ u \in AnyPath /\ Len(u) = 1
  BY <1>1, <1>2
<1>3. \A p \in Paths : Under(p, Undo(i)) => p \in UndoPaths
  BY DEF UndoPaths
<1>4. ASSUME NEW p \in Paths, Under(Undo(i), p) PROVE p = Undo(i)
  <2>1. Under(u, p)
    BY <1>u, <1>4
  <2> QED BY <1>u, <2>1, OneName
<1>5. Under(Undo(i), Undo(i))
  BY <1>1, UnderOrder
<1>6. Undo(i) \in UndoPaths
  BY <1>1, <1>3, <1>5
<1>7. \A p \in Paths \ UndoPaths : Apart(p, Undo(i))
  BY <1>3, <1>4, <1>6 DEF Apart
<1>8. ASSUME NEW j \in DOMAIN UndoName, i # j PROVE Apart(Undo(i), Undo(j))
  <2>1. Undo(j) \in Paths /\ Undo(j) \in AnyPath
    BY UndoAssumption, PathFacts
  <2>2. Len(Undo(j)) = 1 /\ Undo(j)[1] = UndoName[j]
    <3> USE DEF Undo
    <3> QED OBVIOUS
  <2>3. UndoName[i] # UndoName[j]
    BY <1>8, UndoAssumption
  <2>4. 1 \in 1..1
    OBVIOUS
  <2>5. ~Under(Undo(i), Undo(j))
    BY <1>1, <1>2, <2>1, <2>2, <2>3, <2>4, UnderIs
  <2>6. ~Under(Undo(j), Undo(i))
    BY <1>1, <1>2, <2>1, <2>2, <2>3, <2>4, UnderIs
  <2> QED BY <2>5, <2>6 DEF Apart
<1>9. Parent(Undo(i)) = <<>>
  <2>1. Parent(Undo(i)) \in AnyPath /\ Len(Parent(Undo(i))) = 0
    <3>1. Parent(u) \in AnyPath /\ Len(Parent(u)) = Len(u) - 1
      BY PathFacts
    <3> QED BY <1>u, <3>1
  <2> QED BY <2>1, EmptySeq DEF AnyPath
<1> QED BY <1>1, <1>3, <1>6, <1>7, <1>8, <1>9

-----------------------------------------------------------------------------
(* Trees *)

\* Nothing lies below a path and is the root.
LEMMA RootFacts ==
  ASSUME NEW p \in Paths
  PROVE  ~Under(<<>>, p) /\ Under(p, <<>>)
<1>1. p \in AnyPath /\ p # <<>> /\ <<>> \in AnyPath
  BY PathFacts, PathsAssumption DEF AnyPath
<1>2. Under(p, <<>>)
  BY <1>1, UnderOrder
<1> QED BY <1>1, <1>2, UnderOrder

\* In a well-formed tree everything above what exists is a directory.
LEMMA Above ==
  ASSUME NEW t, WellFormedTree(t), NEW p \in Paths, NEW q \in Paths, Below(q, p), Exists(t, q)
  PROVE  t[p].kind = "directory" /\ Exists(t, p)
<1> DEFINE G == {n \in Nat : \A r \in Paths : Len(r) <= n /\ Below(r, p) /\ Exists(t, r) => t[p].kind = "directory"}
<1>1. 0 \in G
  <2>1. \A r \in Paths : ~(Len(r) <= 0)
    BY PathFacts
  <2> QED BY <2>1
<1>2. \A n \in Nat : n \in G => n + 1 \in G
  <2> SUFFICES ASSUME NEW n \in Nat, n \in G, NEW r \in Paths, Len(r) <= n + 1, Below(r, p), Exists(t, r)
               PROVE  t[p].kind = "directory"
    OBVIOUS
  <2>1. p \in AnyPath
    BY PathFacts
  <2>2. Under(Parent(r), p)
    BY <2>1, ParentFacts
  <2>3. Parent(r) # <<>>
    BY <2>2, RootFacts
  <2>4. t[Parent(r)].kind = "directory" /\ Parent(r) \in Paths
    BY <2>3, PathFacts DEF WellFormedTree, IsDirectory
  <2>5. CASE Parent(r) = p
    BY <2>4, <2>5
  <2>6. CASE Parent(r) # p
    <3>1. Len(Parent(r)) = Len(r) - 1 /\ Len(r) \in Nat
      BY PathFacts
    <3>2. Len(Parent(r)) <= n
      BY <3>1
    <3>3. Below(Parent(r), p) /\ Exists(t, Parent(r))
      BY <2>2, <2>4, <2>6 DEF Below, Exists
    <3> QED BY <2>4, <3>2, <3>3
  <2> QED BY <2>5, <2>6
<1>3. Nat \subseteq G
  <2> HIDE DEF G
  <2> QED BY <1>1, <1>2, NatSet
<1>4. Len(q) \in Nat
  BY PathFacts
<1>5. Len(q) \in G /\ Len(q) <= Len(q)
  BY <1>3, <1>4
<1>6. t[p].kind = "directory"
  BY <1>5
<1> QED BY <1>6 DEF Exists

\* What a place in a tree may hold.
Node == [kind : Kinds, id : Identities, text : Texts]

\* What is missing has no content, a directory has no text, and an identity that
\* is neither new nor a stranger's is that of one node.
Sound(t) ==
    /\ t \in Trees /\ WellFormedTree(t)
    /\ \A p \in Paths : t[p].kind = "missing" => t[p] = MissingNode
    /\ \A p \in Paths : t[p].kind = "directory" => t[p].text = <<>>
    /\ \A p, q \in Paths : Exists(t, p) /\ t[p].id = t[q].id /\ t[p].id \notin {NoId, Foreign} => p = q

\* The fields of a node, and what the two constant nodes hold.
LEMMA NodeTypes ==
  /\ MissingNode \in Node /\ NewFile \in Node
  /\ MissingNode.kind = "missing" /\ MissingNode.id = NoId /\ MissingNode.text = <<>>
  /\ \A t \in Trees, p \in Paths : t[p] \in Node /\ t[p].kind \in Kinds /\ t[p].id \in Identities /\ t[p].text \in Texts
  /\ Trees = [Paths -> Node]
  /\ \A m, n \in Node : m.kind = n.kind /\ m.id = n.id /\ m.text = n.text => m = n
<1>1. <<>> \in Texts /\ NoId \in Identities /\ "missing" \in Kinds /\ "file" \in Kinds
  BY DEF Texts, Identities, Kinds
<1>2. Trees = [Paths -> Node]
  BY DEF Trees, Node
<1>3. \A n \in Node : n.kind \in Kinds /\ n.id \in Identities /\ n.text \in Texts
  BY DEF Node
<1>4. \A m, n \in Node : m.kind = n.kind /\ m.id = n.id /\ m.text = n.text => m = n
  BY DEF Node
<1> HIDE DEF Node
<1>5. \A t \in Trees, p \in Paths : t[p] \in Node
  BY <1>2
<1>6. MissingNode \in Node /\ NewFile \in Node
  BY <1>1 DEF MissingNode, NewFile, Node
<1> QED BY <1>2, <1>3, <1>4, <1>5, <1>6 DEF MissingNode

\* Where the nodes of a renamed tree come from.
LEMMA RenamedAt ==
  ASSUME NEW t, NEW a \in AnyPath, NEW b \in AnyPath, NEW p \in Paths
  PROVE  /\ Under(p, b) /\ Rebase(p, b, a) \in Paths => RenameTree(t, a, b)[p] = t[Rebase(p, b, a)]
         /\ Under(p, b) /\ Rebase(p, b, a) \notin Paths => RenameTree(t, a, b)[p] = MissingNode
         /\ ~Under(p, b) /\ Under(p, a) => RenameTree(t, a, b)[p] = MissingNode
         /\ ~Under(p, b) /\ ~Under(p, a) => RenameTree(t, a, b)[p] = t[p]
BY DEF RenameTree

\* A rename leaves nothing at the old place.
LEMMA RenamedAway ==
  ASSUME NEW t, NEW a \in AnyPath, NEW b \in AnyPath, NEW p \in Paths, Under(p, a), ~Under(p, b)
  PROVE  RenameTree(t, a, b)[p] = MissingNode
BY DEF RenameTree

\* A rename changes nothing beside its two ends.
LEMMA RenamedElse ==
  ASSUME NEW t, NEW a \in AnyPath, NEW b \in AnyPath, NEW p \in Paths, ~Under(p, a), ~Under(p, b)
  PROVE  RenameTree(t, a, b)[p] = t[p]
BY DEF RenameTree

\* A rename fills only the places its source has.
LEMMA RenamedNone ==
  ASSUME NEW t, NEW a \in AnyPath, NEW b \in AnyPath, NEW p \in Paths, Under(p, b), Rebase(p, b, a) \notin Paths
  PROVE  RenameTree(t, a, b)[p] = MissingNode
BY DEF RenameTree

\* What exists in it was moved from below a, or was not touched.
LEMMA RenamedFrom ==
  ASSUME NEW t, NEW a \in AnyPath, NEW b \in AnyPath, NEW p \in Paths, Exists(RenameTree(t, a, b), p)
  PROVE  \/ /\ Under(p, b) /\ Rebase(p, b, a) \in Paths /\ Under(Rebase(p, b, a), a)
            /\ Rebase(Rebase(p, b, a), a, b) = p
            /\ RenameTree(t, a, b)[p] = t[Rebase(p, b, a)]
         \/ ~Under(p, b) /\ ~Under(p, a) /\ RenameTree(t, a, b)[p] = t[p]
<1>1. RenameTree(t, a, b)[p] # MissingNode
  BY DEF Exists, MissingNode
<1>2. p \in AnyPath
  BY PathFacts
<1>3. CASE Under(p, b)
  <2>1. Rebase(p, b, a) \in Paths /\ RenameTree(t, a, b)[p] = t[Rebase(p, b, a)]
    BY <1>1, <1>3, RenamedAt
  <2>2. Under(Rebase(p, b, a), a) /\ Rebase(Rebase(p, b, a), a, b) = p
    BY <1>2, <1>3, RebaseFacts
  <2> QED BY <1>3, <2>1, <2>2
<1>4. CASE ~Under(p, b)
  BY <1>1, <1>4, RenamedAt
<1> QED BY <1>3, <1>4

\* A rename into an existing directory keeps the tree well formed and its
\* identities unique.
LEMMA RenameSound ==
  ASSUME NEW t, Sound(t), NEW a \in Paths, NEW b \in Paths, Apart(a, b), IsDirectory(t, Parent(b))
  PROVE  Sound(RenameTree(t, a, b))
<1> DEFINE r == RenameTree(t, a, b)
<1>0. a \in AnyPath /\ b \in AnyPath
  BY PathFacts
<1>1. r \in Trees
  <2>1. ASSUME NEW p \in Paths PROVE r[p] \in Node
    <3>1. r[p] = MissingNode \/ \E q \in Paths : r[p] = t[q]
      BY <1>0, RenamedAt
    <3> QED BY <3>1, NodeTypes DEF Sound
  <2>2. r = [p \in Paths |-> r[p]]
    BY DEF RenameTree
  <2> HIDE DEF r
  <2> QED BY <2>1, <2>2, NodeTypes
<1>2. ASSUME NEW p \in Paths, Exists(r, p) PROVE IsDirectory(r, Parent(p))
  <2>0. p \in AnyPath /\ (Parent(p) # <<>> => Parent(p) \in Paths) /\ Parent(p) \in AnyPath
    BY PathFacts
  <2> SUFFICES ASSUME Parent(p) # <<>> PROVE r[Parent(p)].kind = "directory"
    BY DEF IsDirectory
  <2>1. CASE p = b
    <3>1. ~Under(Parent(b), b)
      BY <1>0, ParentFacts DEF Below
    <3>2. ~Under(Parent(b), a)
      BY <1>0, <2>0, <2>1, ParentFacts DEF Below, Apart
    <3>3. r[Parent(p)] = t[Parent(p)]
      BY <1>0, <2>0, <2>1, <3>1, <3>2, RenamedAt
    <3> QED BY <2>1, <3>3 DEF IsDirectory
  <2>2. CASE Under(p, b) /\ p # b
    <3>1. /\ Rebase(p, b, a) \in Paths /\ Under(Rebase(p, b, a), a) /\ r[p] = t[Rebase(p, b, a)]
      BY <1>0, <1>2, <2>2, RenamedFrom
    <3>2. Below(p, b)
      BY <2>2 DEF Below
    <3>3. Under(Parent(p), b) /\ Parent(Rebase(p, b, a)) = Rebase(Parent(p), b, a)
      BY <1>0, <3>1, <3>2, RebaseParent
    <3>4. Exists(t, Rebase(p, b, a))
      BY <1>2, <3>1 DEF Exists
    <3>5. Rebase(p, b, a) # a
      BY <1>0, <2>0, <2>2, RebaseFacts
    <3>6. Under(Parent(Rebase(p, b, a)), a)
      BY <1>0, <3>1, <3>5, ParentFacts DEF Below
    <3>7. Parent(Rebase(p, b, a)) # <<>>
      BY <3>6, RootFacts
    <3>8. Parent(Rebase(p, b, a)) \in Paths /\ t[Parent(Rebase(p, b, a))].kind = "directory"
      BY <3>1, <3>4, <3>7, PathFacts DEF Sound, WellFormedTree, IsDirectory
    <3>9. r[Parent(p)] = t[Rebase(Parent(p), b, a)]
      BY <1>0, <2>0, <3>3, <3>8, RenamedAt
    <3> QED BY <3>3, <3>8, <3>9
  <2>3. CASE ~Under(p, b)
    <3>1. ~Under(p, a) /\ r[p] = t[p]
      BY <1>0, <1>2, <2>3, RenamedFrom
    <3>2. ~Under(Parent(p), a) /\ ~Under(Parent(p), b)
      BY <1>0, <2>3, <3>1, ParentFacts DEF Below
    <3>3. r[Parent(p)] = t[Parent(p)]
      BY <1>0, <2>0, <3>2, RenamedAt
    <3>4. Exists(t, p)
      BY <1>2, <3>1 DEF Exists
    <3> QED BY <3>3, <3>4 DEF Sound, WellFormedTree, IsDirectory
  <2> QED BY <2>1, <2>2, <2>3
<1>3. ASSUME NEW p \in Paths
      PROVE  /\ r[p].kind = "missing" => r[p] = MissingNode
             /\ r[p].kind = "directory" => r[p].text = <<>>
  <2>1. r[p] = MissingNode \/ \E q \in Paths : r[p] = t[q]
    BY <1>0, RenamedAt
  <2> QED BY <2>1, NodeTypes DEF Sound
<1>4. ASSUME NEW p \in Paths, NEW q \in Paths, Exists(r, p), r[p].id = r[q].id, r[p].id \notin {NoId, Foreign}
      PROVE  p = q
  <2>0. p \in AnyPath /\ q \in AnyPath
    BY PathFacts
  <2>1. Exists(r, q)
    BY <1>3, <1>4, NodeTypes DEF Exists
  <2>2. \/ /\ Under(p, b) /\ Rebase(p, b, a) \in Paths /\ Under(Rebase(p, b, a), a)
           /\ Rebase(Rebase(p, b, a), a, b) = p /\ r[p] = t[Rebase(p, b, a)]
        \/ ~Under(p, b) /\ ~Under(p, a) /\ r[p] = t[p]
    BY <1>0, <1>4, RenamedFrom
  <2>3. \/ /\ Under(q, b) /\ Rebase(q, b, a) \in Paths /\ Under(Rebase(q, b, a), a)
           /\ Rebase(Rebase(q, b, a), a, b) = q /\ r[q] = t[Rebase(q, b, a)]
        \/ ~Under(q, b) /\ ~Under(q, a) /\ r[q] = t[q]
    BY <1>0, <2>1, RenamedFrom
  <2> HIDE DEF r
  <2>4. \A x, y \in Paths : Exists(t, x) /\ t[x].id = t[y].id /\ t[x].id \notin {NoId, Foreign} => x = y
    BY DEF Sound
  <2>5. \A x \in Paths : r[p] = t[x] => Exists(t, x)
    BY <1>4 DEF Exists
  <2> QED BY <1>4, <2>2, <2>3, <2>4, <2>5
<1> HIDE DEF r
<1>5. Sound(r)
  BY <1>1, <1>2, <1>3, <1>4 DEF Sound, WellFormedTree
<1> QED BY <1>5 DEF r

\* What exists below a has a path below b to go to.
Closed(t, a, b) == \A p \in Paths : Under(p, a) /\ Exists(t, p) => Rebase(p, a, b) \in Paths

\* A move the code checked (MovesWithin) loses nothing of the subtree.
LEMMA ClosedBy ==
  ASSUME NEW t, WellFormedTree(t), NEW a \in Paths, NEW b \in Paths, MovesWithin(t, a, b)
  PROVE  Closed(t, a, b)
<1> SUFFICES ASSUME NEW p \in Paths, Under(p, a), Exists(t, p) PROVE Rebase(p, a, b) \in Paths
  BY DEF Closed
<1>1. CASE p = a
  <2>1. Rebase(p, a, b) = b
    <3>1. a \in AnyPath /\ b \in AnyPath
      BY PathFacts
    <3> QED BY <1>1, <3>1, RebaseFacts
  <2> QED BY <2>1
<1>2. CASE p # a
  <2>1. t[a].kind = "directory"
    BY <1>2, Above DEF Below
  <2> QED BY <2>1 DEF MovesWithin, SameBelow
<1> QED BY <1>1, <1>2

\* A tree that was moved to where nothing was, and back, is as it was.
LEMMA RenameBack ==
  ASSUME NEW t, Sound(t), NEW a \in Paths, NEW b \in Paths, Apart(a, b), Closed(t, a, b),
         \A p \in Paths : Under(p, b) => ~Exists(t, p)
  PROVE  RenameTree(RenameTree(t, a, b), b, a) = t
<1> DEFINE r == RenameTree(t, a, b)
           s == RenameTree(r, b, a)
<1>0. a \in AnyPath /\ b \in AnyPath
  BY PathFacts
<1>1. ASSUME NEW p \in Paths PROVE s[p] = t[p]
  <2>0. p \in AnyPath
    BY PathFacts
  <2>1. CASE Under(p, a)
    <3>1. Under(Rebase(p, a, b), b) /\ Rebase(Rebase(p, a, b), b, a) = p
      BY <1>0, <2>0, <2>1, RebaseFacts
    <3>2. CASE Rebase(p, a, b) \in Paths
      <4>1. s[p] = r[Rebase(p, a, b)]
        BY <1>0, <2>1, <3>2, RenamedAt
      <4>2. r[Rebase(p, a, b)] = t[p]
        BY <1>0, <3>1, <3>2, RenamedAt
      <4> QED BY <4>1, <4>2
    <3>3. CASE Rebase(p, a, b) \notin Paths
      <4>1. s[p] = MissingNode
        <5> HIDE DEF r
        <5> QED BY <1>0, <2>1, <3>3, RenamedAt
      <4>2. ~Exists(t, p)
        BY <2>1, <3>3 DEF Closed
      <4>3. t[p] = MissingNode
        BY <4>2 DEF Exists, Sound
      <4> QED BY <4>1, <4>3
    <3> QED BY <3>2, <3>3
  <2>2. CASE ~Under(p, a) /\ Under(p, b)
    <3>1. s[p] = MissingNode
      BY <1>0, <2>2, RenamedAt
    <3>2. t[p] = MissingNode
      BY <2>2 DEF Exists, Sound
    <3> QED BY <3>1, <3>2
  <2>3. CASE ~Under(p, a) /\ ~Under(p, b)
    <3>1. s[p] = r[p]
      BY <1>0, <2>3, RenamedAt
    <3>2. r[p] = t[p]
      BY <1>0, <2>3, RenamedAt
    <3> QED BY <3>1, <3>2
  <2> QED BY <2>1, <2>2, <2>3
<1>2. s = [p \in Paths |-> s[p]]
  BY DEF RenameTree
<1>3. t = [p \in Paths |-> t[p]]
  BY NodeTypes DEF Sound
<1> HIDE DEF r, s
<1>4. s = t
  BY <1>1, <1>2, <1>3
<1> QED BY <1>4 DEF r, s

\* A node of a tree is replaced or created.
LEMMA NodeSound ==
  ASSUME NEW t, Sound(t), NEW p \in Paths, NEW n \in Node, n.kind = "file",
         t[p].kind = "file" \/ (~Exists(t, p) /\ IsDirectory(t, Parent(p))),
         n.id \notin {NoId, Foreign} => \A q \in Paths : Exists(t, q) /\ t[q].id = n.id => q = p
  PROVE  Sound([t EXCEPT ![p] = n])
<1> DEFINE r == [t EXCEPT ![p] = n]
<1>1. r[p] = n /\ (\A q \in Paths : q # p => r[q] = t[q]) /\ r \in Trees
  BY NodeTypes DEF Sound
<1> HIDE DEF r
<1>2. ASSUME NEW q \in Paths, Exists(r, q) PROVE IsDirectory(r, Parent(q))
  <2>1. Parent(q) # <<>> => Parent(q) \in Paths
    BY PathFacts
  <2>2. IsDirectory(t, Parent(q))
    <3>1. CASE q = p
      BY <3>1 DEF Sound, WellFormedTree, Exists
    <3>2. CASE q # p
      BY <1>1, <1>2, <3>2 DEF Sound, WellFormedTree, Exists
    <3> QED BY <3>1, <3>2
  <2>3. Parent(q) # <<>> => t[Parent(q)].kind = "directory"
    BY <2>2 DEF IsDirectory
  <2>4. t[p].kind # "directory"
    BY DEF Exists
  <2>5. Parent(q) # <<>> => r[Parent(q)] = t[Parent(q)]
    BY <1>1, <2>1, <2>3, <2>4
  <2> QED BY <2>3, <2>5 DEF IsDirectory
<1>3. \A q \in Paths : r[q].kind = "missing" => r[q] = MissingNode
  BY <1>1 DEF Sound
<1>4. \A q \in Paths : r[q].kind = "directory" => r[q].text = <<>>
  BY <1>1 DEF Sound
<1>5. ASSUME NEW x \in Paths, NEW y \in Paths, Exists(r, x), r[x].id = r[y].id, r[x].id \notin {NoId, Foreign}
      PROVE  x = y
  <2>1. Exists(r, y)
    BY <1>3, <1>5, NodeTypes DEF Exists
  <2>2. CASE x = p
    <3>1. y # p => t[y].id = n.id /\ Exists(t, y)
      BY <1>1, <1>5, <2>1, <2>2 DEF Exists
    <3> QED BY <1>1, <1>5, <2>2, <3>1
  <2>3. CASE x # p
    <3>1. CASE y = p
      BY <1>1, <1>5, <2>3, <3>1 DEF Exists
    <3>2. CASE y # p
      BY <1>1, <1>5, <2>3, <3>2 DEF Exists, Sound
    <3> QED BY <3>1, <3>2
  <2> QED BY <2>2, <2>3
<1>6. Sound(r)
  BY <1>1, <1>2, <1>3, <1>4, <1>5 DEF Sound, WellFormedTree
<1> QED BY <1>6 DEF r

\* Part of a tree is removed.
LEMMA RemoveSound ==
  ASSUME NEW t, Sound(t), NEW r \in Trees,
         \A p \in Paths : r[p] = t[p] \/ r[p] = MissingNode,
         \A p \in Paths : Exists(r, p) /\ Parent(p) # <<>> => r[Parent(p)] = t[Parent(p)]
  PROVE  Sound(r)
<1>1. ASSUME NEW p \in Paths, Exists(r, p) PROVE IsDirectory(r, Parent(p))
  <2>1. r[p] = t[p]
    BY <1>1 DEF Exists, MissingNode
  <2>2. IsDirectory(t, Parent(p))
    BY <1>1, <2>1 DEF Exists, Sound, WellFormedTree
  <2> QED BY <1>1, <2>2 DEF IsDirectory
<1>2. \A p \in Paths : r[p].kind = "missing" => r[p] = MissingNode
  BY DEF Sound
<1>3. \A p \in Paths : r[p].kind = "directory" => r[p].text = <<>>
  BY NodeTypes DEF Sound
<1>4. ASSUME NEW x \in Paths, NEW y \in Paths, Exists(r, x), r[x].id = r[y].id, r[x].id \notin {NoId, Foreign}
      PROVE  x = y
  <2>1. r[x] = t[x] /\ r[y] = t[y]
    BY <1>4, NodeTypes DEF Exists, MissingNode
  <2> QED BY <1>4, <2>1 DEF Exists, Sound
<1> QED BY <1>1, <1>2, <1>3, <1>4 DEF Sound, WellFormedTree

\* So does a removal.
LEMMA DeleteSound ==
  ASSUME NEW t, Sound(t), NEW a \in Paths
  PROVE  Sound(DeleteTree(t, a))
<1> DEFINE r == DeleteTree(t, a)
<1>0. \A p \in Paths : r[p] = IF Under(p, a) THEN MissingNode ELSE t[p]
  BY DEF DeleteTree
<1>1. r \in Trees
  <2>1. \A p \in Paths : r[p] \in Node
    BY <1>0, NodeTypes DEF Sound
  <2>2. r = [p \in Paths |-> r[p]]
    BY DEF DeleteTree
  <2> HIDE DEF r
  <2> QED BY <2>1, <2>2, NodeTypes
<1> HIDE DEF r
<1>2. ASSUME NEW p \in Paths, Exists(r, p), Parent(p) # <<>> PROVE r[Parent(p)] = t[Parent(p)]
  <2>1. ~Under(p, a)
    BY <1>0, <1>2 DEF Exists, MissingNode
  <2>2. ~Under(Parent(p), a) /\ Parent(p) \in Paths
    BY <1>2, <2>1, ParentFacts, PathFacts DEF Below
  <2> QED BY <1>0, <2>2
<1>3. Sound(r)
  BY <1>0, <1>1, <1>2, RemoveSound
<1> QED BY <1>3 DEF r

-----------------------------------------------------------------------------
(* What the plans do *)

\* Recursion over a sequence has a solution.
LEMMA StepsExist ==
  ASSUME NEW T, NEW E, NEW F, NEW c, NEW q, Folds(T, E, F, c, q)
  PROVE  \E h : h = [n \in 0..Len(q) |-> IF n = 0 THEN c ELSE F[<<h[n - 1], q[n]>>]]
<1> DEFINE g == Partial(F, c, q)
           h == [n \in 0..Len(q) |-> g[n]]
<1>0. Len(q) \in Nat
  BY DEF Folds
<1>1. g[0] = c /\ \A n \in 1..Len(q) : g[n] = F[<<g[n - 1], q[n]>>]
  BY PartialFact
<1> HIDE DEF g
<1>2. \A n \in 0..Len(q) : h[n] = IF n = 0 THEN c ELSE F[<<h[n - 1], q[n]>>]
  <2> SUFFICES ASSUME NEW n \in 0..Len(q), n # 0 PROVE h[n] = F[<<h[n - 1], q[n]>>]
    BY <1>0, <1>1
  <2>1. n \in 1..Len(q) /\ n - 1 \in 0..Len(q)
    BY <1>0
  <2>2. h[n] = g[n] /\ h[n - 1] = g[n - 1]
    BY <2>1
  <2> HIDE DEF h
  <2> QED BY <1>1, <2>1, <2>2
<1>3. h = [n \in 0..Len(q) |-> IF n = 0 THEN c ELSE F[<<h[n - 1], q[n]>>]]
  BY <1>2
<1> QED BY <1>3

\* The operations of a plan, as EditPlanner emits them.
OpKinds == {"text", "create", "rename", "delete"}

OpTyped(o) == o.kind \in OpKinds /\ (o.kind = "text" => o.after \in Texts)

\* Every operation keeps trees within their type.
LEMMA NodeWrite ==
  ASSUME NEW t \in Trees, NEW p \in Paths, NEW x \in Texts
  PROVE  [t[p] EXCEPT !.text = x] \in Node /\ [t EXCEPT ![p].text = x] \in Trees
<1>1. t \in [Paths -> Node] /\ t[p] \in Node
  BY NodeTypes
<1>2. [t[p] EXCEPT !.text = x] \in Node
  <2>1. t[p] \in [kind : Kinds, id : Identities, text : Texts]
    BY <1>1 DEF Node
  <2> QED BY <2>1 DEF Node
<1>3. [t EXCEPT ![p].text = x] = [t EXCEPT ![p] = [t[p] EXCEPT !.text = x]]
  OBVIOUS
<1> QED BY <1>1, <1>2, <1>3, NodeTypes

\* The four tree operations give trees.
LEMMA TreeOps ==
  ASSUME NEW t \in Trees
  PROVE  /\ \A p \in Paths, x \in Texts : TextTree(t, p, x) \in Trees
         /\ \A p \in Paths : CreateTree(t, p) \in Trees
         /\ \A a, b : RenameTree(t, a, b) \in Trees
         /\ \A a : DeleteTree(t, a) \in Trees
<1>1. t \in [Paths -> Node] /\ \A p \in Paths : t[p] \in Node
  BY NodeTypes
<1>2. \A p \in Paths, x \in Texts : TextTree(t, p, x) \in Trees
  BY NodeWrite DEF TextTree
<1>3. \A p \in Paths : CreateTree(t, p) \in Trees
  <2>1. <<>> \in Texts
    BY DEF Texts
  <2>2. \A p \in Paths : [t[p] EXCEPT !.text = <<>>] \in Node
    BY <2>1, NodeWrite
  <2> QED BY <1>1, <2>2, NodeTypes DEF CreateTree
<1>4. \A a, b : RenameTree(t, a, b) \in Trees
  <2> SUFFICES ASSUME NEW a, NEW b PROVE RenameTree(t, a, b) \in [Paths -> Node]
    BY NodeTypes
  <2>1. MissingNode \in Node
    BY NodeTypes
  <2> QED BY <1>1, <2>1 DEF RenameTree
<1>5. \A a : DeleteTree(t, a) \in Trees
  <2> SUFFICES ASSUME NEW a PROVE DeleteTree(t, a) \in [Paths -> Node]
    BY NodeTypes
  <2>1. MissingNode \in Node
    BY NodeTypes
  <2> QED BY <1>1, <2>1 DEF DeleteTree
<1> QED BY <1>2, <1>3, <1>4, <1>5

\* What the operations of a plan are.
LEMMA PlanFacts ==
  ASSUME NEW k \in DOMAIN Plans
  PROVE  /\ Plans[k].disk \in Trees
         /\ Len(Plans[k].operations) \in Nat /\ DOMAIN Plans[k].operations = 1..Len(Plans[k].operations)
         /\ Plans[k].operations \in Seq({Plans[k].operations[i] : i \in DOMAIN Plans[k].operations})
         /\ Len(Plans[k].operations) >= 1
         /\ DOMAIN Plans[k].operations \subseteq DOMAIN UndoName
         /\ \A i \in DOMAIN Plans[k].operations :
               OpTyped(Plans[k].operations[i]) /\ Plans[k].operations[i].path \in Paths
<1> DEFINE ops == Plans[k].operations
<1>1. PlanFits(k)
  BY PlansAssumption
<1>2. Plans[k].disk \in Trees
  BY <1>1 DEF PlanFits, DiskFits
<1>3. ops \in Seq({ops[i] : i \in DOMAIN ops}) /\ Len(ops) \in 1..Len(UndoName)
  BY <1>1 DEF PlanFits
<1>4. Len(ops) \in Nat /\ DOMAIN ops = 1..Len(ops) /\ Len(ops) >= 1
  <2> HIDE DEF ops
  <2>1. Len(UndoName) \in Nat
    BY UndoAssumption
  <2> QED BY <1>3, <2>1
<1>5. DOMAIN ops \subseteq DOMAIN UndoName
  <2> HIDE DEF ops
  <2>1. DOMAIN UndoName = 1..Len(UndoName) /\ Len(UndoName) \in Nat
    BY UndoAssumption
  <2> QED BY <1>3, <1>4, <2>1
<1>6. ASSUME NEW i \in DOMAIN ops PROVE OpTyped(ops[i]) /\ ops[i].path \in Paths
  <2>1. OperationFits(ops[i], i, OutcomeOf[k][i - 1])
    BY <1>1 DEF PlanFits
  <2>2. ops[i].kind \in OpKinds /\ ops[i].path \in Paths
    <3> HIDE DEF ops
    <3> QED BY <2>1 DEF OperationFits, OpKinds
  <2>3. ops[i].kind = "text" => ops[i].after \in Texts
    BY DEF Texts, TextsOf
  <2> QED BY <2>2, <2>3 DEF OpTyped
<1> QED BY <1>2, <1>3, <1>4, <1>5, <1>6

\* The outcomes of a plan, operation by operation.
LEMMA OutcomeSteps ==
  ASSUME NEW k \in DOMAIN Plans
  PROVE  /\ OutcomeOf[k][0] = Plans[k].disk
         /\ \A n \in 1..Len(Plans[k].operations) :
               OutcomeOf[k][n] = StepTree(OutcomeOf[k][n - 1], Plans[k].operations[n])
<1> DEFINE ops == Plans[k].operations
           R(h) == [n \in 0..Len(ops) |-> IF n = 0 THEN Plans[k].disk ELSE StepTree(h[n - 1], ops[n])]
           E == {ops[i] : i \in DOMAIN ops}
           F == [x \in Trees \X E |-> StepTree(x[1], x[2])]
           Q(h) == [n \in 0..Len(ops) |-> IF n = 0 THEN Plans[k].disk ELSE F[<<h[n - 1], ops[n]>>]]
<1>0. /\ Plans[k].disk \in Trees /\ ops \in Seq(E) /\ Len(ops) \in Nat /\ DOMAIN ops = 1..Len(ops)
      /\ \A o \in E : OpTyped(o) /\ o.path \in Paths
  BY PlanFacts
<1> HIDE DEF ops
<1>1. ASSUME NEW t \in Trees, NEW o \in E PROVE StepTree(t, o) \in Trees
  BY <1>0, TreeOps DEF OpTyped, OpKinds, StepTree
<1>2. F \in [Trees \X E -> Trees]
  <2>1. \A x \in Trees \X E : StepTree(x[1], x[2]) \in Trees
    BY <1>1
  <2> QED BY <2>1
<1>3. Folds(Trees, E, F, Plans[k].disk, ops)
  <2> HIDE DEF F, E
  <2> QED BY <1>0, <1>2 DEF Folds
<1>4. \E h : h = Q(h)
  <2> HIDE DEF F, E
  <2> QED BY <1>3, StepsExist
<1>5. PICK h : h = Q(h)
  BY <1>4
<1>6. ASSUME NEW n \in Nat, n <= Len(ops) PROVE h[n] \in Trees
  <2> DEFINE G == {m \in Nat : m <= Len(ops) => h[m] \in Trees}
  <2>1. 0 \in G
    BY <1>0, <1>5
  <2>2. \A m \in Nat : m \in G => m + 1 \in G
    <3> SUFFICES ASSUME NEW m \in Nat, m \in G, m + 1 <= Len(ops) PROVE h[m + 1] \in Trees
      OBVIOUS
    <3>1. m + 1 \in 0..Len(ops) /\ m + 1 # 0 /\ (m + 1) - 1 = m /\ m + 1 \in DOMAIN ops /\ h[m] \in Trees
      BY <1>0
    <3>2. h[m + 1] = F[<<h[m], ops[m + 1]>>]
      <4> HIDE DEF F
      <4> QED BY <1>5, <3>1
    <3>3. <<h[m], ops[m + 1]>> \in Trees \X E
      BY <3>1
    <3> HIDE DEF F
    <3> QED BY <1>2, <3>2, <3>3
  <2>3. Nat \subseteq G
    <3> HIDE DEF G
    <3> QED BY <2>1, <2>2, NatSet
  <2> QED BY <1>6, <2>3
<1>7. Q(h) = R(h)
  <2>1. ASSUME NEW n \in 0..Len(ops), n # 0 PROVE F[<<h[n - 1], ops[n]>>] = StepTree(h[n - 1], ops[n])
    <3>1. n - 1 \in Nat /\ n - 1 <= Len(ops) /\ n \in DOMAIN ops
      BY <1>0, <2>1
    <3>2. h[n - 1] \in Trees
      BY <1>6, <3>1
    <3>3. <<h[n - 1], ops[n]>> \in Trees \X E
      BY <3>1, <3>2
    <3> QED BY <3>3
  <2> HIDE DEF F
  <2> QED BY <2>1
<1>8. \E g : g = R(g)
  <2> HIDE DEF Q, R
  <2> QED BY <1>5, <1>7
<1>9. OutcomeOf[k] = CHOOSE g : g = R(g)
  BY DEF OutcomeOf, ops
<1>10. OutcomeOf[k] = R(OutcomeOf[k])
  <2> HIDE DEF R
  <2> QED BY <1>8, <1>9
<1>11. 0 \in 0..Len(ops) /\ \A n \in 1..Len(ops) : n \in 0..Len(ops) /\ n # 0
  BY <1>0
<1>12. OutcomeOf[k][0] = Plans[k].disk
  BY <1>10, <1>11
<1>13. \A n \in 1..Len(ops) : OutcomeOf[k][n] = StepTree(OutcomeOf[k][n - 1], ops[n])
  BY <1>10, <1>11
<1> QED BY <1>12, <1>13 DEF ops

\* What the operations do to the files, undo slots and new identities included.
Aside(t, o, i) == IF Exists(t, o.new) THEN RenameTree(t, o.new, Undo(i)) ELSE t

\* The node a create makes.
Created(i) == [NewFile EXCEPT !.id = CreatedId(i)]

CreatedTree(t, path, i) ==
    [t EXCEPT ![path] = IF Exists(t, path) THEN [t[path] EXCEPT !.text = <<>>] ELSE Created(i)]

\* Operation i as it is done on the tree with the undo slots in it.
StepActual(t, o, i) ==
    CASE o.kind = "text"   -> TextTree(t, o.path, o.after)
      [] o.kind = "create" -> CreatedTree(t, o.path, i)
      [] o.kind = "rename" -> RenameTree(Aside(t, o, i), o.path, o.new)
      [] o.kind = "delete" -> RenameTree(t, o.path, Undo(i))

Numbered(s) == [i \in DOMAIN s |-> <<s[i], i>>]

\* The trees along plan k, with the slots: the sequence the proof compares the files with.
ActualOf(k) ==
    LET s == Plans[k].operations
        E == {Numbered(s)[i] : i \in DOMAIN s}
    IN  Partial([x \in Trees \X E |-> StepActual(x[1], x[2][1], x[2][2])], Plans[k].disk, Numbered(s))

\* The file an operation creates is empty and carries that operation's
\* identity.
LEMMA NewNodes ==
  ASSUME NEW i \in DOMAIN UndoName
  PROVE  Created(i) \in Node /\ Created(i).kind = "file" /\ Created(i).id = CreatedId(i) /\ Created(i).text = <<>>
<1>1. CreatedId(i) \in Identities
  BY DEF Identities, NewIds
<1>2. "file" \in Kinds /\ <<>> \in Texts
  BY DEF Kinds, Texts
<1> HIDE DEF CreatedId
<1> QED BY <1>1, <1>2 DEF Created, NewFile, Node

\* The trees along a plan, one operation at a time.
LEMMA ActualSteps ==
  ASSUME NEW k \in DOMAIN Plans
  PROVE  /\ ActualOf(k)[0] = Plans[k].disk
         /\ \A n \in 1..Len(Plans[k].operations) :
               ActualOf(k)[n] = StepActual(ActualOf(k)[n - 1], Plans[k].operations[n], n)
<1> DEFINE ops == Plans[k].operations
           q == Numbered(ops)
           E == {q[i] : i \in DOMAIN ops}
           F == [x \in Trees \X E |-> StepActual(x[1], x[2][1], x[2][2])]
<1>0. /\ Plans[k].disk \in Trees /\ Len(ops) \in Nat /\ DOMAIN ops = 1..Len(ops)
      /\ DOMAIN ops \subseteq DOMAIN UndoName
      /\ \A i \in DOMAIN ops : OpTyped(ops[i]) /\ ops[i].path \in Paths
  BY PlanFacts
<1>a. ActualOf(k) = Partial(F, Plans[k].disk, q)
  BY DEF ActualOf
<1> HIDE DEF ops
<1>1. q \in Seq(E) /\ Len(q) = Len(ops) /\ \A i \in 1..Len(ops) : q[i] = <<ops[i], i>>
  <2>1. q = [i \in 1..Len(ops) |-> <<ops[i], i>>]
    BY <1>0 DEF Numbered
  <2>2. \A i \in 1..Len(ops) : q[i] \in E
    BY <1>0
  <2> HIDE DEF q, E
  <2>3. q \in [1..Len(ops) -> E]
    BY <2>1, <2>2
  <2> QED BY <1>0, <2>1, <2>3
<1>2. ASSUME NEW t \in Trees, NEW i \in DOMAIN ops PROVE StepActual(t, ops[i], i) \in Trees
  <2>1. ops[i].path \in Paths /\ OpTyped(ops[i]) /\ i \in DOMAIN UndoName
    BY <1>0
  <2>2. CreatedTree(t, ops[i].path, i) \in Trees
    <3>1. <<>> \in Texts
      BY DEF Texts
    <3>2. [t[ops[i].path] EXCEPT !.text = <<>>] \in Node
      BY <2>1, <3>1, NodeWrite
    <3>3. Created(i) \in Node
      BY <2>1, NewNodes
    <3> QED BY <2>1, <3>2, <3>3, NodeTypes DEF CreatedTree
  <2>3. Aside(t, ops[i], i) \in Trees
    BY TreeOps DEF Aside
  <2> QED BY <2>1, <2>2, <2>3, TreeOps DEF OpTyped, OpKinds, StepActual
<1>3. F \in [Trees \X E -> Trees]
  <2>1. ASSUME NEW x \in Trees \X E PROVE StepActual(x[1], x[2][1], x[2][2]) \in Trees
    <3>1. x[1] \in Trees /\ x[2] \in E
      OBVIOUS
    <3>2. PICK i \in DOMAIN ops : x[2] = <<ops[i], i>>
      BY <1>0, <1>1, <3>1
    <3>3. x[2][1] = ops[i] /\ x[2][2] = i
      BY <3>2
    <3> QED BY <1>2, <3>1, <3>3
  <2> HIDE DEF E
  <2> QED BY <2>1
<1>4. Folds(Trees, E, F, Plans[k].disk, q)
  <2> HIDE DEF F, E, q
  <2> QED BY <1>0, <1>1, <1>3 DEF Folds
<1> DEFINE P == Partial(F, Plans[k].disk, q)
<1>5. P[0] = Plans[k].disk /\ \A n \in 1..Len(q) : P[n] = F[<<P[n - 1], q[n]>>]
  <2> HIDE DEF F, E, q
  <2> QED BY <1>4, PartialFact
<1>6. \A n \in 0..Len(q) : P[n] \in Trees
  <2> HIDE DEF F, E, q
  <2> QED BY <1>4, PartialType
<1> HIDE DEF P
<1>7. ASSUME NEW n \in 1..Len(ops) PROVE P[n] = StepActual(P[n - 1], ops[n], n)
  <2>1. n - 1 \in 0..Len(q) /\ n \in 1..Len(q) /\ n \in DOMAIN ops
    BY <1>0, <1>1
  <2>2. P[n - 1] \in Trees /\ q[n] \in E
    BY <1>6, <2>1
  <2> DEFINE x == <<P[n - 1], q[n]>>
  <2>3. x \in Trees \X E
    <3> HIDE DEF E, q
    <3> QED BY <2>2
  <2>4. F[x] = StepActual(x[1], x[2][1], x[2][2])
    <3> HIDE DEF x, E, q
    <3> QED BY <2>3
  <2>5. x[1] = P[n - 1] /\ x[2] = <<ops[n], n>>
    <3> HIDE DEF q
    <3> QED BY <1>1
  <2>6. P[n] = F[x]
    <3> HIDE DEF F, E, q
    <3> QED BY <1>5, <2>1
  <2>7. x[2][1] = ops[n] /\ x[2][2] = n
    <3> HIDE DEF x
    <3> QED BY <2>5
  <2> HIDE DEF F, x
  <2> QED BY <2>4, <2>5, <2>6, <2>7
<1>8. ActualOf(k) = P
  BY <1>a DEF P
<1> HIDE DEF q, E, F
<1> QED BY <1>5, <1>7, <1>8 DEF ops

\* The undo slots and the Workspace do not reach into each other.
LEMMA Outside ==
  ASSUME NEW p \in Paths, NEW q \in Paths, Under(q, p)
  PROVE  q \in UndoPaths <=> p \in UndoPaths
<1>0. p \in AnyPath /\ q \in AnyPath
  BY PathFacts
<1>1. ASSUME p \in UndoPaths PROVE q \in UndoPaths
  <2>1. PICK i \in DOMAIN UndoName : Under(p, Undo(i))
    BY <1>1 DEF UndoPaths
  <2>2. Undo(i) \in AnyPath
    BY UndoFacts
  <2>3. Under(q, Undo(i))
    BY <1>0, <2>1, <2>2, UnderOrder
  <2> QED BY <2>3, UndoFacts
<1>2. ASSUME q \in UndoPaths, p \notin UndoPaths PROVE FALSE
  <2>1. PICK i \in DOMAIN UndoName : Under(q, Undo(i))
    BY <1>2 DEF UndoPaths
  <2>2. Undo(i) \in AnyPath /\ Apart(p, Undo(i))
    BY <1>2, UndoFacts
  <2> QED BY <1>0, <2>1, <2>2, ApartFacts
<1> QED BY <1>1, <1>2

\* A path and its parent lie in the undo slots together.
LEMMA OutsideParent ==
  ASSUME NEW p \in Paths, Parent(p) # <<>>
  PROVE  Parent(p) \in Paths /\ Under(p, Parent(p)) /\ (Parent(p) \in UndoPaths <=> p \in UndoPaths)
<1>1. Parent(p) \in Paths
  BY PathFacts
<1>2. Under(p, Parent(p))
  BY ParentFacts, <1>1, PathFacts DEF Below
<1> QED BY <1>1, <1>2, Outside

\* What the i-th operation finds on the tree it is legal on.
LegalOn(t, o, i) ==
    /\ o.path \in Paths /\ o.path \notin UndoPaths
    /\ \/ o.kind = "text" /\ t[o.path].kind = "file" /\ t[o.path].text = o.before /\ o.after \in Texts \ {Foreign}
       \/ /\ o.kind = "create"
          /\ \/ t[o.path].kind = "file" /\ o.overwrite
             \/ ~Exists(t, o.path) /\ IsDirectory(t, Parent(o.path))
       \/ /\ o.kind = "rename" /\ o.new \in Paths /\ o.new \notin UndoPaths /\ Apart(o.path, o.new)
          /\ Exists(t, o.path) /\ IsDirectory(t, Parent(o.new))
          /\ Exists(t, o.new) => o.overwrite /\ t[o.new].kind = t[o.path].kind
          /\ MovesWithin(t, o.path, o.new) /\ MovesWithin(t, o.new, Undo(i))
       \/ /\ o.kind = "delete" /\ Exists(t, o.path)
          /\ (o.recursive \/ ChildrenOf(t, o.path) = {})
          /\ MovesWithin(t, o.path, Undo(i))

\* Two trees alike in the Workspace permit the same.
AlikeAt(t, s, p) == t[p].kind = s[p].kind /\ t[p].text = s[p].text

\* The legality of an operation depends on the kinds and the texts outside the
\* slots only.
LEMMA LegalBoth ==
  ASSUME NEW s, NEW t, \A p \in Paths \ UndoPaths : AlikeAt(t, s, p),
         NEW o, NEW i, OpTyped(o), OperationFits(o, i, s)
  PROVE  LegalOn(t, o, i)
<1>0. o.path \in Paths /\ o.path \notin UndoPaths /\ AlikeAt(t, s, o.path)
  BY DEF OperationFits
<1>1. ASSUME NEW p \in Paths \ UndoPaths, IsDirectory(s, Parent(p)) PROVE IsDirectory(t, Parent(p))
  BY <1>1, OutsideParent DEF IsDirectory, AlikeAt
<1>2. CASE o.kind = "text"
  BY <1>0, <1>2 DEF OperationFits, LegalOn, AlikeAt, OpTyped
<1>3. CASE o.kind = "create"
  <2>1. CreateRefusal(s, o.path, o.overwrite) = "none"
    BY <1>3 DEF OperationFits
  <2>2. \/ s[o.path].kind = "file" /\ o.overwrite
        \/ ~Exists(s, o.path) /\ IsDirectory(s, Parent(o.path))
    <3>1. CASE Exists(s, o.path)
      BY <2>1, <3>1 DEF CreateRefusal
    <3>2. CASE ~Exists(s, o.path)
      BY <2>1, <3>2 DEF CreateRefusal
    <3> QED BY <3>1, <3>2
  <2> QED BY <1>0, <1>1, <1>3, <2>2 DEF LegalOn, AlikeAt, Exists
<1>4. CASE o.kind = "rename"
  <2>1. /\ RenameRefusal(s, o.path, o.new, o.overwrite) = "none" /\ o.new \in Paths /\ o.new \notin UndoPaths
        /\ MovesWithin(s, o.path, o.new) /\ MovesWithin(s, o.new, Undo(i))
    BY <1>4 DEF OperationFits
  <2>2. /\ Apart(o.path, o.new) /\ Exists(s, o.path) /\ IsDirectory(s, Parent(o.new))
        /\ Exists(s, o.new) => o.overwrite /\ s[o.new].kind = s[o.path].kind
    BY <2>1 DEF RenameRefusal, Apart
  <2>3. AlikeAt(t, s, o.new)
    BY <2>1
  <2>4. IsDirectory(t, Parent(o.new))
    BY <1>1, <2>1, <2>2
  <2>5. MovesWithin(t, o.path, o.new) /\ MovesWithin(t, o.new, Undo(i))
    BY <1>0, <2>1, <2>3 DEF MovesWithin, AlikeAt
  <2> QED BY <1>0, <1>4, <2>1, <2>2, <2>3, <2>4, <2>5 DEF LegalOn, AlikeAt, Exists
<1>5. CASE o.kind = "delete"
  <2>1. DeleteRefusal(s, o.path, o.recursive) = "none" /\ MovesWithin(s, o.path, Undo(i))
    BY <1>5 DEF OperationFits
  <2>2. Exists(s, o.path) /\ (o.recursive \/ ChildrenOf(s, o.path) = {})
    BY <2>1 DEF DeleteRefusal
  <2>3. ChildrenOf(t, o.path) = ChildrenOf(s, o.path)
    <3>1. ASSUME NEW q \in Paths, Parent(q) = o.path PROVE Exists(t, q) <=> Exists(s, q)
      <4>1. Parent(q) # <<>>
        BY <1>0, <3>1, PathsAssumption
      <4>2. q \notin UndoPaths
        BY <1>0, <3>1, <4>1, OutsideParent
      <4> QED BY <4>2 DEF AlikeAt, Exists
    <3> QED BY <3>1 DEF ChildrenOf
  <2>4. MovesWithin(t, o.path, Undo(i))
    BY <1>0, <2>1 DEF MovesWithin, AlikeAt
  <2> QED BY <1>0, <1>5, <2>2, <2>3, <2>4 DEF LegalOn, AlikeAt, Exists
<1> QED BY <1>2, <1>3, <1>4, <1>5 DEF OpTyped, OpKinds

\* No directory, and nothing that is missing, has anything below it but ...
LEMMA NothingBelow ==
  ASSUME NEW t, WellFormedTree(t), NEW p \in Paths, t[p].kind # "directory", NEW q \in Paths, Under(q, p), q # p
  PROVE  ~Exists(t, q)
BY Above DEF Below

\* What is at the new name of a rename is set aside.
MakesWay(t, a, b, u, r) ==
    /\ Sound(t) /\ r = IF Exists(t, b) THEN RenameTree(t, b, u) ELSE t
    /\ Apart(a, b) /\ Apart(a, u) /\ Apart(b, u)
    /\ Parent(u) = <<>> /\ IsDirectory(t, Parent(b)) /\ ~Under(Parent(b), u)

\* r is t with the target b out of the way, in the slot u.
Way(t, a, b, u, r) ==
    /\ Sound(r)
    /\ \A p \in Paths : Under(p, b) => ~Exists(r, p)
    /\ \A p \in Paths : ~Under(p, b) /\ ~Under(p, u) => r[p] = t[p]
    /\ \A p \in Paths : Exists(r, p) => \E q \in Paths : r[p] = t[q]
    /\ \A p \in Paths : Under(p, a) => r[p] = t[p]
    /\ IsDirectory(r, Parent(b))

\* Moving the target aside first makes way for a rename.
LEMMA AsideMoves ==
  ASSUME NEW t, NEW a \in Paths, NEW b \in Paths, NEW u \in Paths, NEW r, MakesWay(t, a, b, u, r)
  PROVE  Way(t, a, b, u, r)
<1> USE DEF MakesWay
<1>1. a \in AnyPath /\ b \in AnyPath /\ u \in AnyPath /\ IsDirectory(t, Parent(u))
  BY PathFacts DEF IsDirectory
<1>2. Sound(r)
  <2>1. Exists(t, b) => Sound(RenameTree(t, b, u))
    BY <1>1, RenameSound
  <2> QED BY <2>1
<1>3. ASSUME NEW p \in Paths, Under(p, b) PROVE ~Exists(r, p)
  <2>0. p \in AnyPath
    BY PathFacts
  <2>1. CASE Exists(t, b)
    <3>1. ~Under(p, u)
      BY <1>1, <1>3, <2>0, ApartFacts
    <3>2. RenameTree(t, b, u)[p] = MissingNode
      BY <1>1, <1>3, <3>1, RenamedAway
    <3> QED BY <2>1, <3>2 DEF Exists, MissingNode
  <2>2. CASE ~Exists(t, b)
    <3>1. ~Exists(t, p)
      BY <1>3, <2>2, NothingBelow DEF Exists, Sound
    <3> QED BY <2>2, <3>1
  <2> QED BY <2>1, <2>2
<1>4. ASSUME NEW p \in Paths, ~Under(p, b), ~Under(p, u) PROVE r[p] = t[p]
  <2>1. RenameTree(t, b, u)[p] = t[p]
    BY <1>1, <1>4, RenamedAt
  <2> QED BY <2>1
<1>5. ASSUME NEW p \in Paths, Exists(r, p) PROVE \E q \in Paths : r[p] = t[q]
  <2>1. Exists(RenameTree(t, b, u), p) => \E q \in Paths : RenameTree(t, b, u)[p] = t[q]
    BY <1>1, RenamedFrom
  <2> QED BY <1>5, <2>1
<1>6. ASSUME NEW p \in Paths, Under(p, a) PROVE r[p] = t[p]
  <2>1. p \in AnyPath
    BY PathFacts
  <2>2. ~Under(p, b) /\ ~Under(p, u)
    BY <1>1, <1>6, <2>1, ApartFacts
  <2> QED BY <1>4, <2>2
<1>7. IsDirectory(r, Parent(b))
  <2> SUFFICES ASSUME Parent(b) # <<>> PROVE r[Parent(b)].kind = "directory"
    BY DEF IsDirectory
  <2>1. Parent(b) \in Paths
    BY OutsideParent
  <2>2. ~Under(Parent(b), b)
    BY <1>1, ParentFacts DEF Below
  <2> QED BY <1>4, <2>1, <2>2 DEF IsDirectory
<1> QED BY <1>2, <1>3, <1>4, <1>5, <1>6, <1>7 DEF Way

\* So it is for every legal rename of a plan, overwriting or not.
LEMMA AsideFacts ==
  ASSUME NEW t, Sound(t), NEW o, NEW i \in DOMAIN UndoName, o.kind = "rename", LegalOn(t, o, i)
  PROVE  Way(t, o.path, o.new, Undo(i), Aside(t, o, i))
<1> DEFINE r == Aside(t, o, i)
           u == Undo(i)
           a == o.path
           b == o.new
<1>0. a \in Paths /\ b \in Paths /\ b \notin UndoPaths /\ a \notin UndoPaths /\ Apart(a, b) /\ IsDirectory(t, Parent(b))
  BY DEF LegalOn
<1>1. u \in Paths /\ Parent(u) = <<>> /\ Apart(a, u) /\ Apart(b, u)
  BY <1>0, UndoFacts
<1>2. r = IF Exists(t, b) THEN RenameTree(t, b, u) ELSE t
  BY DEF Aside
<1> HIDE DEF r, u, a, b
<1>3. ~Under(Parent(b), u)
  <2>1. Parent(b) # <<>> => Parent(b) \in Paths /\ Parent(b) \notin UndoPaths
    BY <1>0, OutsideParent
  <2>2. Parent(b) = <<>> => ~Under(Parent(b), u)
    BY <1>1, RootFacts
  <2>3. Parent(b) # <<>> => ~Under(Parent(b), u)
    BY <2>1, UndoFacts DEF u
  <2> QED BY <2>2, <2>3
<1>4. MakesWay(t, a, b, u, r)
  BY <1>0, <1>1, <1>2, <1>3 DEF MakesWay
<1>5. Way(t, a, b, u, r)
  BY <1>0, <1>1, <1>4, AsideMoves
<1> QED BY <1>5 DEF r, a, b, u

\* The identities of created files are distinct from each other, from none and
\* from a stranger's.
LEMMA IdFacts ==
  /\ NoId # Foreign
  /\ \A i \in DOMAIN UndoName : CreatedId(i) \in Identities /\ CreatedId(i) # NoId /\ CreatedId(i) # Foreign
  /\ \A i, j \in DOMAIN UndoName : CreatedId(i) = CreatedId(j) => i = j
<1>1. NoId # Foreign /\ \A i \in DOMAIN UndoName : CreatedId(i) \in Identities /\ CreatedId(i) # NoId
  BY NullsAssumption DEF NewIds, Identities
<1>2. \A i \in DOMAIN UndoName : CreatedId(i) # Foreign
  BY DEF CreatedId, Foreign
<1>3. ASSUME NEW i \in DOMAIN UndoName, NEW j \in DOMAIN UndoName, CreatedId(i) = CreatedId(j) PROVE i = j
  <2>1. UndoName[i] = UndoName[j]
    BY <1>3 DEF CreatedId
  <2> QED BY <2>1, UndoAssumption
<1> QED BY <1>1, <1>2, <1>3

\* What a node may be once n operations are done by nobody but the process.
OwnNode(node, n) ==
    /\ node.id # NoId /\ node.id # Foreign /\ node.text # Foreign
    /\ \A j \in DOMAIN UndoName : j > n => node.id # CreatedId(j)

\* t is the tree the first n operations leave, s the outcome the plan has for them.
Good(t, s, n) ==
    /\ Sound(s) /\ Sound(t)
    /\ \A p \in UndoPaths : ~Exists(s, p)
    /\ \A p \in Paths \ UndoPaths : SameAt(t, s, p)
    /\ \A p \in Paths : Exists(t, p) => OwnNode(t[p], n)
    /\ \A j \in DOMAIN UndoName, p \in Paths : j > n /\ Under(p, Undo(j)) => ~Exists(t, p)

\* A node of the first operations is a node of the later ones.
LEMMA OwnLater ==
  ASSUME NEW i \in Int, NEW node, OwnNode(node, i - 1)
  PROVE  OwnNode(node, i)
<1>1. \A j \in DOMAIN UndoName : j \in Int
  BY UndoAssumption
<1> QED BY <1>1 DEF OwnNode

\* Two writes to the same file keep the trees alike.
LEMMA GoodWrite ==
  ASSUME NEW t, NEW s, NEW i \in DOMAIN UndoName, Good(t, s, i - 1),
         NEW a \in Paths, a \notin UndoPaths, t[a].kind = "file", NEW x \in Texts, x # Foreign
  PROVE  Good(TextTree(t, a, x), TextTree(s, a, x), i)
<1> DEFINE m == [t[a] EXCEPT !.text = x]
           n == [s[a] EXCEPT !.text = x]
           u == TextTree(t, a, x)
           v == TextTree(s, a, x)
<1>0. i \in Int /\ \A j \in DOMAIN UndoName : j \in Int
  BY UndoAssumption
<1>1. Sound(t) /\ Sound(s) /\ t \in Trees /\ s \in Trees /\ SameAt(t, s, a)
  BY DEF Good, Sound
<1>2. s[a].kind = "file" /\ t[a] \in Node /\ s[a] \in Node
  BY <1>1, NodeTypes DEF SameAt
<1>3. /\ m \in Node /\ m.kind = t[a].kind /\ m.id = t[a].id /\ m.text = x
      /\ n \in Node /\ n.kind = s[a].kind /\ n.id = s[a].id /\ n.text = x
  <2>1. m \in Node /\ n \in Node
    BY <1>1, NodeWrite
  <2> QED BY <1>2, <2>1 DEF Node
<1>4. u = [t EXCEPT ![a] = m] /\ v = [s EXCEPT ![a] = n]
  BY <1>1 DEF TextTree
<1> HIDE DEF m, n
<1>5. u[a] = m /\ v[a] = n /\ \A p \in Paths : p # a => u[p] = t[p] /\ v[p] = s[p]
  BY <1>1, <1>4, NodeTypes
<1>6. Sound([t EXCEPT ![a] = m])
  <2>1. m.id \notin {NoId, Foreign} => \A q \in Paths : Exists(t, q) /\ t[q].id = m.id => q = a
    BY <1>1, <1>3 DEF Sound
  <2> QED BY <1>1, <1>3, <2>1, NodeSound
<1>7. Sound([s EXCEPT ![a] = n])
  <2>1. n.id \notin {NoId, Foreign} => \A q \in Paths : Exists(s, q) /\ s[q].id = n.id => q = a
    BY <1>1, <1>3 DEF Sound
  <2> QED BY <1>1, <1>2, <1>3, <2>1, NodeSound
<1>8. Sound(u) /\ Sound(v)
  BY <1>4, <1>6, <1>7
<1> HIDE DEF u, v
<1>9. \A p \in UndoPaths : ~Exists(v, p)
  <2>1. \A p \in UndoPaths : p \in Paths /\ p # a
    BY DEF UndoPaths
  <2> QED BY <1>5, <2>1 DEF Good, Exists
<1>10. ASSUME NEW p \in Paths \ UndoPaths PROVE SameAt(u, v, p)
  <2>1. SameAt(t, s, p)
    BY DEF Good
  <2> QED BY <1>3, <1>5, <2>1 DEF SameAt
<1>11. ASSUME NEW p \in Paths, Exists(u, p) PROVE OwnNode(u[p], i)
  <2>1. Exists(t, p)
    BY <1>3, <1>5, <1>11 DEF Exists
  <2>2. OwnNode(t[p], i)
    BY <1>0, <2>1, OwnLater DEF Good
  <2> QED BY <1>3, <1>5, <2>2 DEF OwnNode
<1>12. ASSUME NEW j \in DOMAIN UndoName, NEW p \in Paths, j > i, Under(p, Undo(j)) PROVE ~Exists(u, p)
  <2>1. j > i - 1
    BY <1>0, <1>12
  <2>2. p # a
    BY <1>12, UndoFacts
  <2>3. ~Exists(t, p)
    BY <1>12, <2>1 DEF Good
  <2> QED BY <1>5, <2>2, <2>3 DEF Exists
<1>13. Good(u, v, i)
  BY <1>8, <1>9, <1>10, <1>11, <1>12 DEF Good
<1> QED BY <1>13 DEF u, v

\* A file is created, under its new identity and under none.
LEMMA GoodNew ==
  ASSUME NEW t, NEW s, NEW i \in DOMAIN UndoName, Good(t, s, i - 1),
         NEW a \in Paths, a \notin UndoPaths, ~Exists(t, a), IsDirectory(t, Parent(a))
  PROVE  Good([t EXCEPT ![a] = Created(i)], [s EXCEPT ![a] = NewFile], i)
<1> DEFINE u == [t EXCEPT ![a] = Created(i)]
           v == [s EXCEPT ![a] = NewFile]
<1>0. i \in Int /\ \A j \in DOMAIN UndoName : j \in Int
  BY UndoAssumption
<1>1. Sound(t) /\ Sound(s) /\ t \in Trees /\ s \in Trees /\ SameAt(t, s, a)
  BY DEF Good, Sound
<1>2. ~Exists(s, a)
  BY <1>1 DEF SameAt, Exists
<1>3. IsDirectory(s, Parent(a))
  <2>1. Parent(a) # <<>> => Parent(a) \in Paths \ UndoPaths
    BY OutsideParent
  <2>2. Parent(a) # <<>> => SameAt(t, s, Parent(a))
    BY <2>1 DEF Good
  <2> QED BY <2>2 DEF SameAt, IsDirectory
<1>4. u[a] = Created(i) /\ v[a] = NewFile /\ \A p \in Paths : p # a => u[p] = t[p] /\ v[p] = s[p]
  BY <1>1, NodeTypes
<1>5. Created(i) \in Node /\ Created(i).kind = "file" /\ Created(i).id = CreatedId(i) /\ Created(i).text = <<>>
  BY NewNodes
<1>6. NewFile \in Node /\ NewFile.kind = "file" /\ NewFile.id = NoId /\ NewFile.text = <<>>
  BY NodeTypes DEF NewFile
<1>7. Sound(u)
  <2>1. \A q \in Paths : Exists(t, q) => t[q].id # CreatedId(i)
    <3>1. i > i - 1
      BY <1>0
    <3> QED BY <3>1 DEF Good, OwnNode
  <2> QED BY <1>1, <1>5, <2>1, NodeSound
<1>8. Sound(v)
  BY <1>1, <1>2, <1>3, <1>6, NodeSound
<1> HIDE DEF u, v
<1>9. \A p \in UndoPaths : ~Exists(v, p)
  <2>1. \A p \in UndoPaths : p \in Paths /\ p # a
    BY DEF UndoPaths
  <2> QED BY <1>4, <2>1 DEF Good, Exists
<1>10. ASSUME NEW p \in Paths \ UndoPaths PROVE SameAt(u, v, p)
  <2>1. SameAt(t, s, p)
    BY DEF Good
  <2> QED BY <1>4, <1>5, <1>6, <2>1 DEF SameAt
<1>11. ASSUME NEW p \in Paths, Exists(u, p) PROVE OwnNode(u[p], i)
  <2>1. CASE p = a
    <3>1. \A j \in DOMAIN UndoName : j > i => CreatedId(i) # CreatedId(j)
      BY <1>0, IdFacts
    <3>2. <<>> # Foreign
      BY DEF Foreign
    <3> QED BY <1>4, <1>5, <2>1, <3>1, <3>2, IdFacts DEF OwnNode
  <2>2. CASE p # a
    <3>1. Exists(t, p)
      BY <1>4, <1>11, <2>2 DEF Exists
    <3>2. OwnNode(t[p], i)
      BY <1>0, <3>1, OwnLater DEF Good
    <3> QED BY <1>4, <2>2, <3>2
  <2> QED BY <2>1, <2>2
<1>12. ASSUME NEW j \in DOMAIN UndoName, NEW p \in Paths, j > i, Under(p, Undo(j)) PROVE ~Exists(u, p)
  <2>1. j > i - 1
    BY <1>0, <1>12
  <2>2. p # a
    BY <1>12, UndoFacts
  <2>3. ~Exists(t, p)
    BY <1>12, <2>1 DEF Good
  <2> QED BY <1>4, <2>2, <2>3 DEF Exists
<1>13. Good(u, v, i)
  BY <1>7, <1>8, <1>9, <1>10, <1>11, <1>12 DEF Good
<1> QED BY <1>13 DEF u, v

\* a and b are Workspace paths, u the undo slot of operation i.
Ends(a, b, u, i) ==
    /\ a \in Paths /\ b \in Paths /\ u = Undo(i) /\ i \in DOMAIN UndoName
    /\ a \notin UndoPaths /\ b \notin UndoPaths /\ Apart(a, b)

\* The ends of a move and its slot are apart, and the slots of other operations
\* are elsewhere.
LEMMA EndsApart ==
  ASSUME NEW a, NEW b, NEW u, NEW i, Ends(a, b, u, i)
  PROVE  /\ a \in AnyPath /\ b \in AnyPath /\ u \in AnyPath /\ u \in Paths /\ u \in UndoPaths
         /\ Apart(a, u) /\ Apart(b, u) /\ Parent(u) = <<>> /\ i \in Int
         /\ \A p \in Paths : Under(p, a) \/ Under(p, b) => p \notin UndoPaths
         /\ \A p \in UndoPaths : p \in Paths /\ ~Under(p, a) /\ ~Under(p, b)
         /\ \A p \in Paths : Under(p, u) => p \in UndoPaths
         /\ \A j \in DOMAIN UndoName, p \in Paths : j # i /\ Under(p, Undo(j)) => p \in UndoPaths /\ ~Under(p, u)
<1>1. a \in AnyPath /\ b \in AnyPath
  BY PathFacts DEF Ends
<1>2. /\ u \in AnyPath /\ u \in Paths /\ u \in UndoPaths /\ Apart(a, u) /\ Apart(b, u) /\ Parent(u) = <<>>
      /\ \A p \in Paths : Under(p, u) => p \in UndoPaths
  BY UndoFacts DEF Ends
<1>3. i \in Int
  BY UndoAssumption DEF Ends
<1>4. \A p \in Paths : Under(p, a) \/ Under(p, b) => p \notin UndoPaths
  BY Outside DEF Ends
<1>5. \A p \in UndoPaths : p \in Paths
  BY DEF UndoPaths
<1>6. ASSUME NEW j \in DOMAIN UndoName, NEW p \in Paths, j # i, Under(p, Undo(j)) PROVE p \in UndoPaths /\ ~Under(p, u)
  <2>1. Apart(Undo(j), u) /\ Undo(j) \in AnyPath /\ p \in UndoPaths
    BY <1>6, UndoFacts DEF Ends
  <2>2. p \in AnyPath
    BY PathFacts
  <2> QED BY <1>2, <1>6, <2>1, <2>2, ApartFacts
<1> QED BY <1>1, <1>2, <1>3, <1>4, <1>5, <1>6

\* A rename takes the pair of trees (with slots, and as the plan sees it) to
\* such a pair.
LEMMA GoodRename ==
  ASSUME NEW t, NEW s, NEW a, NEW b, NEW u, NEW i, NEW r, Good(t, s, i - 1), Ends(a, b, u, i),
         Way(t, a, b, u, r), IsDirectory(s, Parent(b))
  PROVE  Good(RenameTree(r, a, b), RenameTree(s, a, b), i)
<1> DEFINE x == RenameTree(r, a, b)
           y == RenameTree(s, a, b)
<1>0. /\ a \in AnyPath /\ b \in AnyPath /\ u \in AnyPath /\ u \in Paths /\ a \in Paths /\ b \in Paths
      /\ Apart(a, b) /\ Apart(a, u) /\ Apart(b, u) /\ i \in Int
      /\ \A p \in Paths : Under(p, a) \/ Under(p, b) => p \notin UndoPaths
      /\ \A p \in UndoPaths : p \in Paths /\ ~Under(p, a) /\ ~Under(p, b)
      /\ \A p \in Paths : Under(p, u) => p \in UndoPaths
  BY EndsApart DEF Ends
<1>1. Sound(s) /\ Sound(t) /\ Sound(r) /\ IsDirectory(r, Parent(b))
  BY DEF Good, Way
<1>2. Sound(x) /\ Sound(y)
  BY <1>0, <1>1, RenameSound
<1>3. ASSUME NEW p \in UndoPaths PROVE ~Exists(y, p)
  <2>1. p \in Paths /\ ~Under(p, a) /\ ~Under(p, b)
    BY <1>0
  <2>2. y[p] = s[p]
    BY <1>0, <2>1, RenamedElse
  <2> QED BY <2>2 DEF Good, Exists
<1>4. ASSUME NEW p \in Paths \ UndoPaths PROVE SameAt(x, y, p)
  <2>0. p \in AnyPath
    BY PathFacts
  <2>1. CASE Under(p, b)
    <3>1. CASE Rebase(p, b, a) \in Paths
      <4>1. Under(Rebase(p, b, a), a)
        BY <1>0, <2>0, <2>1, RebaseFacts
      <4>2. x[p] = r[Rebase(p, b, a)] /\ y[p] = s[Rebase(p, b, a)]
        BY <1>0, <2>1, <3>1, RenamedAt
      <4>3. r[Rebase(p, b, a)] = t[Rebase(p, b, a)]
        BY <3>1, <4>1 DEF Way
      <4>4. Rebase(p, b, a) \notin UndoPaths
        BY <1>0, <3>1, <4>1
      <4>5. SameAt(t, s, Rebase(p, b, a))
        BY <3>1, <4>4 DEF Good
      <4> QED BY <4>2, <4>3, <4>5 DEF SameAt
    <3>2. CASE Rebase(p, b, a) \notin Paths
      <4>1. x[p] = MissingNode /\ y[p] = MissingNode
        BY <1>0, <2>1, <3>2, RenamedNone
      <4> QED BY <4>1, NodeTypes DEF SameAt
    <3> QED BY <3>1, <3>2
  <2>2. CASE ~Under(p, b) /\ Under(p, a)
    <3>1. x[p] = MissingNode /\ y[p] = MissingNode
      BY <1>0, <2>2, RenamedAway
    <3> QED BY <3>1, NodeTypes DEF SameAt
  <2>3. CASE ~Under(p, b) /\ ~Under(p, a)
    <3>1. x[p] = r[p] /\ y[p] = s[p]
      BY <1>0, <2>3, RenamedElse
    <3>2. ~Under(p, u)
      BY <1>0
    <3>3. r[p] = t[p]
      BY <2>3, <3>2 DEF Way
    <3>4. SameAt(t, s, p)
      BY DEF Good
    <3> QED BY <3>1, <3>3, <3>4 DEF SameAt
  <2> QED BY <2>1, <2>2, <2>3
<1>5. ASSUME NEW p \in Paths, Exists(x, p) PROVE OwnNode(x[p], i)
  <2>1. \E q \in Paths : x[p] = r[q]
    BY <1>0, <1>5, RenamedFrom
  <2>2. PICK q \in Paths : x[p] = r[q]
    BY <2>1
  <2>3. PICK z \in Paths : r[q] = t[z]
    BY <1>5, <2>2 DEF Way, Exists
  <2>4. Exists(t, z)
    BY <1>5, <2>2, <2>3 DEF Exists
  <2> QED BY <1>0, <2>2, <2>3, <2>4, OwnLater DEF Good
<1>6. ASSUME NEW j \in DOMAIN UndoName, NEW p \in Paths, j > i, Under(p, Undo(j)) PROVE ~Exists(x, p)
  <2>0. j \in Int /\ j # i /\ j > i - 1
    BY <1>0, <1>6, UndoAssumption
  <2>1. p \in UndoPaths /\ ~Under(p, u)
    BY <1>6, <2>0, EndsApart
  <2>2. ~Under(p, a) /\ ~Under(p, b)
    BY <1>0, <2>1
  <2>3. x[p] = r[p]
    BY <1>0, <2>2, RenamedAt
  <2>4. r[p] = t[p]
    BY <2>1, <2>2 DEF Way
  <2>5. ~Exists(t, p)
    BY <1>6, <2>0 DEF Good
  <2> QED BY <2>3, <2>4, <2>5 DEF Exists
<1> HIDE DEF x, y
<1>7. Good(x, y, i)
  BY <1>2, <1>3, <1>4, <1>5, <1>6 DEF Good
<1> QED BY <1>7 DEF x, y

\* A delete, which moves to the slot, does too.
LEMMA GoodDelete ==
  ASSUME NEW t, NEW s, NEW a, NEW u, NEW i \in DOMAIN UndoName, Good(t, s, i - 1),
         a \in Paths, a \notin UndoPaths, u = Undo(i)
  PROVE  Good(RenameTree(t, a, u), DeleteTree(s, a), i)
<1> DEFINE x == RenameTree(t, a, u)
           y == DeleteTree(s, a)
<1>0. /\ a \in AnyPath /\ u \in AnyPath /\ u \in Paths /\ a \in Paths /\ Apart(a, u) /\ i \in Int
      /\ \A p \in Paths : Under(p, a) => p \notin UndoPaths
      /\ \A p \in UndoPaths : p \in Paths /\ ~Under(p, a)
      /\ \A p \in Paths : Under(p, u) => p \in UndoPaths
      /\ Parent(u) = <<>>
  <2>1. a \in AnyPath /\ u \in AnyPath /\ u \in Paths /\ Apart(a, u) /\ Parent(u) = <<>> /\ i \in Int
    <3>1. a \in AnyPath
      BY PathFacts
    <3>2. u \in AnyPath /\ u \in Paths /\ Apart(a, u) /\ Parent(u) = <<>>
      BY UndoFacts
    <3> QED BY <3>1, <3>2, UndoAssumption
  <2>2. \A p \in Paths : Under(p, u) => p \in UndoPaths
    BY UndoFacts
  <2>3. \A p \in Paths : Under(p, a) => p \notin UndoPaths
    BY Outside
  <2>4. \A p \in UndoPaths : p \in Paths
    BY DEF UndoPaths
  <2> QED BY <2>1, <2>2, <2>3, <2>4
<1>1. Sound(s) /\ Sound(t)
  BY DEF Good
<1>2. Sound(x) /\ Sound(y)
  <2>1. IsDirectory(t, Parent(u))
    BY <1>0 DEF IsDirectory
  <2> QED BY <1>0, <1>1, <2>1, RenameSound, DeleteSound
<1>y. \A p \in Paths : y[p] = IF Under(p, a) THEN MissingNode ELSE s[p]
  BY DEF DeleteTree
<1>3. ASSUME NEW p \in UndoPaths PROVE ~Exists(y, p)
  <2>1. y[p] = s[p]
    BY <1>0, <1>y
  <2> QED BY <2>1 DEF Good, Exists
<1>4. ASSUME NEW p \in Paths \ UndoPaths PROVE SameAt(x, y, p)
  <2>0. ~Under(p, u)
    BY <1>0
  <2>1. CASE Under(p, a)
    <3>1. x[p] = MissingNode /\ y[p] = MissingNode
      BY <1>0, <1>y, <2>0, <2>1, RenamedAway
    <3> QED BY <3>1, NodeTypes DEF SameAt
  <2>2. CASE ~Under(p, a)
    <3>1. x[p] = t[p]
      BY <1>0, <2>0, <2>2, RenamedElse
    <3>2. y[p] = s[p]
      BY <1>y, <2>2
    <3>3. SameAt(t, s, p)
      BY DEF Good
    <3> QED BY <3>1, <3>2, <3>3 DEF SameAt
  <2> QED BY <2>1, <2>2
<1>5. ASSUME NEW p \in Paths, Exists(x, p) PROVE OwnNode(x[p], i)
  <2>1. PICK q \in Paths : x[p] = t[q]
    BY <1>0, <1>5, RenamedFrom
  <2>2. Exists(t, q)
    BY <1>5, <2>1 DEF Exists
  <2> QED BY <1>0, <2>1, <2>2, OwnLater DEF Good
<1>6. ASSUME NEW j \in DOMAIN UndoName, NEW p \in Paths, j > i, Under(p, Undo(j)) PROVE ~Exists(x, p)
  <2>0. j \in Int /\ j # i /\ j > i - 1
    BY <1>0, <1>6, UndoAssumption
  <2>1. p \in UndoPaths
    BY <1>6, UndoFacts
  <2>2. ~Under(p, u)
    <3>1. Apart(Undo(j), u) /\ Undo(j) \in AnyPath
      BY <2>0, UndoFacts
    <3>2. p \in AnyPath
      BY PathFacts
    <3> QED BY <1>0, <1>6, <3>1, <3>2, ApartFacts
  <2>3. ~Under(p, a)
    BY <1>0, <2>1
  <2>4. x[p] = t[p]
    BY <1>0, <2>2, <2>3, RenamedElse
  <2>5. ~Exists(t, p)
    BY <1>6, <2>0 DEF Good
  <2> QED BY <2>4, <2>5 DEF Exists
<1> HIDE DEF x, y
<1>7. Good(x, y, i)
  BY <1>2, <1>3, <1>4, <1>5, <1>6 DEF Good
<1> QED BY <1>7 DEF x, y

\* One more operation of a plan.
LEMMA GoodStep ==
  ASSUME NEW t, NEW s, NEW i \in DOMAIN UndoName, Good(t, s, i - 1), NEW o, OpTyped(o), OperationFits(o, i, s)
  PROVE  LegalOn(t, o, i) /\ Good(StepActual(t, o, i), StepTree(s, o), i)
<1>1. LegalOn(t, o, i)
  <2>1. \A p \in Paths \ UndoPaths : AlikeAt(t, s, p)
    BY DEF Good, SameAt, AlikeAt
  <2> QED BY <2>1, LegalBoth
<1>2. LegalOn(s, o, i)
  <2>1. \A p \in Paths \ UndoPaths : AlikeAt(s, s, p)
    BY DEF AlikeAt
  <2> QED BY <2>1, LegalBoth
<1>3. o.path \in Paths /\ o.path \notin UndoPaths
  BY <1>1 DEF LegalOn
<1>4. CASE o.kind = "text"
  <2>1. t[o.path].kind = "file" /\ o.after \in Texts /\ o.after # Foreign
    BY <1>1, <1>4 DEF LegalOn
  <2>2. Good(TextTree(t, o.path, o.after), TextTree(s, o.path, o.after), i)
    BY <1>3, <2>1, GoodWrite
  <2>3. StepActual(t, o, i) = TextTree(t, o.path, o.after) /\ StepTree(s, o) = TextTree(s, o.path, o.after)
    BY <1>4 DEF StepActual, StepTree
  <2> QED BY <1>1, <2>2, <2>3
<1>5. CASE o.kind = "create"
  <2>0. SameAt(t, s, o.path)
    BY <1>3 DEF Good
  <2>1. CASE t[o.path].kind = "file"
    <3>1. Exists(t, o.path) /\ Exists(s, o.path)
      BY <2>0, <2>1 DEF Exists, SameAt
    <3>2. <<>> \in Texts /\ <<>> # Foreign
      BY DEF Texts, Foreign
    <3>3. Good(TextTree(t, o.path, <<>>), TextTree(s, o.path, <<>>), i)
      BY <1>3, <2>1, <3>2, GoodWrite
    <3>4. StepActual(t, o, i) = TextTree(t, o.path, <<>>) /\ StepTree(s, o) = TextTree(s, o.path, <<>>)
      <4>1. StepActual(t, o, i) = CreatedTree(t, o.path, i) /\ StepTree(s, o) = CreateTree(s, o.path)
        BY <1>5 DEF StepActual, StepTree
      <4> QED BY <3>1, <4>1 DEF CreatedTree, CreateTree, TextTree
    <3> QED BY <1>1, <3>3, <3>4
  <2>2. CASE t[o.path].kind # "file"
    <3>1. ~Exists(t, o.path) /\ IsDirectory(t, Parent(o.path))
      BY <1>1, <1>5, <2>2 DEF LegalOn
    <3>2. ~Exists(s, o.path)
      BY <2>0, <3>1 DEF Exists, SameAt
    <3>3. Good([t EXCEPT ![o.path] = Created(i)], [s EXCEPT ![o.path] = NewFile], i)
      BY <1>3, <3>1, GoodNew
    <3>4. StepActual(t, o, i) = [t EXCEPT ![o.path] = Created(i)] /\ StepTree(s, o) = [s EXCEPT ![o.path] = NewFile]
      <4>1. StepActual(t, o, i) = CreatedTree(t, o.path, i) /\ StepTree(s, o) = CreateTree(s, o.path)
        BY <1>5 DEF StepActual, StepTree
      <4> QED BY <3>1, <3>2, <4>1 DEF CreatedTree, CreateTree
    <3> QED BY <1>1, <3>3, <3>4
  <2> QED BY <2>1, <2>2
<1>6. CASE o.kind = "rename"
  <2>1. Ends(o.path, o.new, Undo(i), i)
    BY <1>1, <1>6 DEF LegalOn, Ends
  <2>2. Way(t, o.path, o.new, Undo(i), Aside(t, o, i))
    BY <1>1, <1>6, AsideFacts DEF Good
  <2>3. IsDirectory(s, Parent(o.new))
    BY <1>2, <1>6 DEF LegalOn
  <2>4. Good(RenameTree(Aside(t, o, i), o.path, o.new), RenameTree(s, o.path, o.new), i)
    BY <2>1, <2>2, <2>3, GoodRename
  <2>5. StepActual(t, o, i) = RenameTree(Aside(t, o, i), o.path, o.new) /\ StepTree(s, o) = RenameTree(s, o.path, o.new)
    BY <1>6 DEF StepActual, StepTree
  <2> QED BY <1>1, <2>4, <2>5
<1>7. CASE o.kind = "delete"
  <2>1. Good(RenameTree(t, o.path, Undo(i)), DeleteTree(s, o.path), i)
    BY <1>3, GoodDelete
  <2>2. StepActual(t, o, i) = RenameTree(t, o.path, Undo(i)) /\ StepTree(s, o) = DeleteTree(s, o.path)
    BY <1>7 DEF StepActual, StepTree
  <2> QED BY <1>1, <2>1, <2>2
<1> QED BY <1>4, <1>5, <1>6, <1>7 DEF OpTyped, OpKinds

\* The disk a plan starts from is such a pair with itself.
LEMMA DiskGood ==
  ASSUME NEW k \in DOMAIN Plans
  PROVE  Good(Plans[k].disk, Plans[k].disk, 0)
<1> DEFINE d == Plans[k].disk
<1>1. DiskFits(d)
  BY PlansAssumption DEF PlanFits
<1> HIDE DEF d
<1>2. d \in Trees /\ WellFormedTree(d)
  BY <1>1 DEF DiskFits
<1>3. ASSUME NEW p \in Paths
      PROVE  /\ Exists(d, p) => p \notin UndoPaths /\ d[p].id \notin {NoId, Foreign} \cup NewIds
             /\ d[p].kind = "missing" => d[p] = MissingNode
             /\ d[p].kind = "directory" => d[p].text = <<>>
             /\ d[p].text # Foreign
  BY <1>1 DEF DiskFits
<1>4. Sound(d)
  <2>1. \A p, q \in Paths : Exists(d, p) /\ d[p].id = d[q].id => p = q
    BY <1>1 DEF DiskFits
  <2> QED BY <1>2, <1>3, <2>1 DEF Sound
<1>5. \A p \in UndoPaths : ~Exists(d, p)
  BY <1>3 DEF UndoPaths
<1>6. \A p \in Paths : SameAt(d, d, p)
  BY DEF SameAt
<1>7. ASSUME NEW p \in Paths, Exists(d, p) PROVE OwnNode(d[p], 0)
  BY <1>3, <1>7 DEF OwnNode, NewIds
<1>8. \A j \in DOMAIN UndoName, p \in Paths : Under(p, Undo(j)) => ~Exists(d, p)
  BY <1>5, UndoFacts
<1>9. Good(d, d, 0)
  BY <1>4, <1>5, <1>6, <1>7, <1>8 DEF Good
<1> QED BY <1>9 DEF d

\* After every number of operations the files are as the outcome says, and the next
\* operation is legal on them.
LEMMA PlanGood ==
  ASSUME NEW k \in DOMAIN Plans
  PROVE  /\ \A n \in 0..Len(Plans[k].operations) : Good(ActualOf(k)[n], OutcomeOf[k][n], n)
         /\ \A i \in DOMAIN Plans[k].operations :
               /\ i \in 1..Len(Plans[k].operations) /\ i - 1 \in 0..Len(Plans[k].operations) /\ i \in DOMAIN UndoName
               /\ LegalOn(ActualOf(k)[i - 1], Plans[k].operations[i], i)
               /\ LegalOn(OutcomeOf[k][i - 1], Plans[k].operations[i], i)
               /\ ActualOf(k)[i] = StepActual(ActualOf(k)[i - 1], Plans[k].operations[i], i)
               /\ OutcomeOf[k][i] = StepTree(OutcomeOf[k][i - 1], Plans[k].operations[i])
<1> DEFINE ops == Plans[k].operations
           A == ActualOf(k)
           O == OutcomeOf[k]
           G == {n \in Nat : n <= Len(ops) => Good(A[n], O[n], n)}
<1>0. /\ Len(ops) \in Nat /\ DOMAIN ops = 1..Len(ops) /\ DOMAIN ops \subseteq DOMAIN UndoName
      /\ \A i \in DOMAIN ops : OpTyped(ops[i])
  BY PlanFacts
<1>1. A[0] = Plans[k].disk /\ \A n \in 1..Len(ops) : A[n] = StepActual(A[n - 1], ops[n], n)
  BY ActualSteps
<1>2. O[0] = Plans[k].disk /\ \A n \in 1..Len(ops) : O[n] = StepTree(O[n - 1], ops[n])
  BY OutcomeSteps
<1>3. \A i \in DOMAIN ops : OperationFits(ops[i], i, O[i - 1])
  BY PlansAssumption DEF PlanFits
<1> HIDE DEF A, O, ops
<1>4. 0 \in G
  BY <1>1, <1>2, DiskGood
<1>5. \A n \in Nat : n \in G => n + 1 \in G
  <2> SUFFICES ASSUME NEW n \in Nat, n \in G, n + 1 <= Len(ops) PROVE Good(A[n + 1], O[n + 1], n + 1)
    OBVIOUS
  <2> DEFINE i == n + 1
  <2>1. i \in 1..Len(ops) /\ i \in DOMAIN ops /\ i \in DOMAIN UndoName /\ i - 1 = n /\ n <= Len(ops)
    BY <1>0
  <2>2. Good(A[i - 1], O[i - 1], i - 1)
    BY <2>1
  <2> HIDE DEF i, G
  <2>3. Good(StepActual(A[i - 1], ops[i], i), StepTree(O[i - 1], ops[i]), i)
    BY <1>0, <1>3, <2>1, <2>2, GoodStep
  <2>4. Good(A[i], O[i], i)
    BY <1>1, <1>2, <2>1, <2>3
  <2> QED BY <2>4 DEF i
<1>6. Nat \subseteq G
  <2> HIDE DEF G
  <2> QED BY <1>4, <1>5, NatSet
<1>7. \A n \in 0..Len(ops) : Good(A[n], O[n], n)
  BY <1>0, <1>6
<1>8. ASSUME NEW i \in DOMAIN ops
      PROVE  /\ i \in 1..Len(ops) /\ i - 1 \in 0..Len(ops) /\ i \in DOMAIN UndoName
             /\ LegalOn(A[i - 1], ops[i], i) /\ LegalOn(O[i - 1], ops[i], i)
             /\ A[i] = StepActual(A[i - 1], ops[i], i) /\ O[i] = StepTree(O[i - 1], ops[i])
  <2>1. i \in 1..Len(ops) /\ i - 1 \in 0..Len(ops) /\ i \in DOMAIN UndoName
    BY <1>0
  <2>2. Good(A[i - 1], O[i - 1], i - 1) /\ OpTyped(ops[i]) /\ OperationFits(ops[i], i, O[i - 1])
    BY <1>0, <1>3, <1>7, <2>1
  <2>3. LegalOn(A[i - 1], ops[i], i)
    BY <2>1, <2>2, GoodStep
  <2>4. \A p \in Paths \ UndoPaths : AlikeAt(O[i - 1], O[i - 1], p)
    BY DEF AlikeAt
  <2>5. LegalOn(O[i - 1], ops[i], i)
    BY <2>2, <2>4, LegalBoth
  <2> QED BY <1>1, <1>2, <2>1, <2>3, <2>5
<1> QED BY <1>7, <1>8 DEF A, O, ops

\* The paths a plan touches are Workspace paths.
LEMMA TouchedFacts ==
  ASSUME NEW k \in DOMAIN Plans
  PROVE  /\ TouchedOf[k] \subseteq Paths \ UndoPaths
         /\ \A i \in DOMAIN Plans[k].operations :
               /\ TouchedBy(Plans[k].operations[i], OutcomeOf[k][i - 1]) \subseteq TouchedOf[k]
               /\ Plans[k].operations[i].path \in TouchedOf[k]
               /\ Plans[k].operations[i].kind = "rename" => Plans[k].operations[i].new \in TouchedOf[k]
<1> DEFINE ops == Plans[k].operations
           O == OutcomeOf[k]
<1>0. TouchedOf[k] = UNION {TouchedBy(ops[i], O[i - 1]) : i \in DOMAIN ops}
  BY DEF TouchedOf
<1>1. ASSUME NEW i \in DOMAIN ops
      PROVE  i \in DOMAIN UndoName /\ LegalOn(O[i - 1], ops[i], i) /\ Good(ActualOf(k)[i - 1], O[i - 1], i - 1) /\ OpTyped(ops[i])
  BY PlanGood, PlanFacts
<1> HIDE DEF O, ops
<1>2. ASSUME NEW i \in DOMAIN ops
      PROVE  /\ TouchedBy(ops[i], O[i - 1]) \subseteq Paths \ UndoPaths /\ ops[i].path \in TouchedBy(ops[i], O[i - 1])
             /\ ops[i].kind = "rename" => ops[i].new \in TouchedBy(ops[i], O[i - 1])
  <2> DEFINE o == ops[i]
             s == O[i - 1]
             below(root) == {p \in Paths : Below(p, root) /\ Exists(s, p)}
  <2>1. LegalOn(s, o, i) /\ OpTyped(o) /\ Sound(s) /\ \A p \in UndoPaths : ~Exists(s, p)
    BY <1>1 DEF Good
  <2>2. TouchedBy(o, s) = CASE o.kind \in {"text", "create"} -> {o.path}
          [] o.kind = "delete" -> {o.path} \cup below(o.path)
          [] o.kind = "rename" ->
                {o.path, o.new} \cup below(o.path) \cup below(o.new)
                    \cup {Rebase(p, o.path, o.new) : p \in below(o.path)}
    BY DEF TouchedBy
  <2> HIDE DEF o, s
  <2>3. o.path \in Paths /\ o.path \notin UndoPaths
    BY <2>1 DEF LegalOn
  <2>4. \A root : below(root) \subseteq Paths \ UndoPaths
    BY <2>1
  <2>5. CASE o.kind \in {"text", "create"}
    BY <2>2, <2>3, <2>5 DEF o, s
  <2>6. CASE o.kind = "delete"
    <3>1. TouchedBy(o, s) = {o.path} \cup below(o.path)
      BY <2>2, <2>6
    <3> HIDE DEF below
    <3> QED BY <2>3, <2>4, <2>6, <3>1 DEF o, s
  <2>7. CASE o.kind = "rename"
    <3>1. TouchedBy(o, s) = {o.path, o.new} \cup below(o.path) \cup below(o.new)
                    \cup {Rebase(p, o.path, o.new) : p \in below(o.path)}
      BY <2>2, <2>7
    <3>2. o.new \in Paths /\ o.new \notin UndoPaths /\ MovesWithin(s, o.path, o.new)
      BY <2>1, <2>7 DEF LegalOn
    <3>3. Closed(s, o.path, o.new)
      BY <2>1, <2>3, <3>2, ClosedBy DEF Sound
    <3>4. ASSUME NEW p \in below(o.path) PROVE Rebase(p, o.path, o.new) \in Paths \ UndoPaths
      <4>1. p \in Paths /\ Under(p, o.path) /\ Exists(s, p)
        BY DEF Below
      <4>2. Rebase(p, o.path, o.new) \in Paths
        BY <3>3, <4>1 DEF Closed
      <4>3. p \in AnyPath /\ o.path \in AnyPath /\ o.new \in AnyPath
        BY <2>3, <3>2, <4>1, PathFacts
      <4>4. Under(Rebase(p, o.path, o.new), o.new)
        BY <4>1, <4>3, RebaseFacts
      <4> QED BY <3>2, <4>2, <4>4, Outside
    <3> HIDE DEF below
    <3>5. TouchedBy(o, s) \subseteq Paths \ UndoPaths
      BY <2>3, <2>4, <3>1, <3>2, <3>4
    <3> QED BY <3>1, <3>5 DEF o, s
  <2> QED BY <2>1, <2>5, <2>6, <2>7 DEF OpTyped, OpKinds
<1>3. ASSUME NEW i \in DOMAIN ops PROVE TouchedBy(ops[i], O[i - 1]) \subseteq TouchedOf[k]
  BY <1>0
<1>4. TouchedOf[k] \subseteq Paths \ UndoPaths
  BY <1>0, <1>2
<1> QED BY <1>2, <1>3, <1>4 DEF O, ops

\* Where the files of a tree come from: the disk, or a text that is staged.
Written(k) == {<<>>} \cup TextsOf(Plans[k].operations)

\* Every text in the tree is of the plan or of the disk.
From(k, t) ==
    \A p \in Paths : t[p].kind = "file" =>
        t[p].text \in Written(k) \/ \E q \in TouchedOf[k] \cup {p} : t[p] = Plans[k].disk[q]

\* A file that was moved from a touched path.
LEMMA FromMoved ==
  ASSUME NEW k \in DOMAIN Plans, NEW t, NEW r, From(k, t),
         \A p \in Paths : Exists(r, p) => r[p] = t[p] \/ \E q \in TouchedOf[k] \cap Paths : r[p] = t[q]
  PROVE  From(k, r)
<1> SUFFICES ASSUME NEW p \in Paths, r[p].kind = "file", r[p].text \notin Written(k)
             PROVE  \E q \in TouchedOf[k] \cup {p} : r[p] = Plans[k].disk[q]
  BY DEF From
<1>1. Exists(r, p)
  BY DEF Exists
<1>2. CASE r[p] = t[p]
  BY <1>2 DEF From
<1>3. CASE \E q \in TouchedOf[k] \cap Paths : r[p] = t[q]
  <2>1. PICK q \in TouchedOf[k] \cap Paths : r[p] = t[q]
    BY <1>3
  <2>2. PICK z \in TouchedOf[k] \cup {q} : t[q] = Plans[k].disk[z]
    BY <2>1 DEF From
  <2> QED BY <2>1, <2>2
<1> QED BY <1>1, <1>2, <1>3

\* One more write or new file.
LEMMA FromWritten ==
  ASSUME NEW k \in DOMAIN Plans, NEW t \in Trees, From(k, t), NEW a \in Paths, NEW n, n.text \in Written(k)
  PROVE  From(k, [t EXCEPT ![a] = n])
<1>1. \A p \in Paths : [t EXCEPT ![a] = n][p] = IF p = a THEN n ELSE t[p]
  BY NodeTypes
<1> QED BY <1>1 DEF From

\* An operation brings no text that neither the disk nor the plan holds ...
LEMMA FromStep ==
  ASSUME NEW k \in DOMAIN Plans, NEW i \in DOMAIN Plans[k].operations, From(k, ActualOf(k)[i - 1])
  PROVE  From(k, ActualOf(k)[i])
<1> DEFINE o == Plans[k].operations[i]
           t == ActualOf(k)[i - 1]
           s == OutcomeOf[k][i - 1]
           u == Undo(i)
<1>0. i \in DOMAIN UndoName /\ LegalOn(t, o, i) /\ Good(t, s, i - 1) /\ OpTyped(o) /\ ActualOf(k)[i] = StepActual(t, o, i)
  BY PlanGood, PlanFacts
<1>1. o.kind = "text" => o.after \in Written(k)
  BY DEF Written, TextsOf
<1>2. TouchedBy(o, s) \subseteq TouchedOf[k] /\ TouchedOf[k] \subseteq Paths
  BY TouchedFacts
<1>3. From(k, t)
  OBVIOUS
<1> HIDE DEF o, t, s, u
<1>4. t \in Trees /\ o.path \in Paths /\ o.path \notin UndoPaths /\ Sound(t)
  BY <1>0 DEF Good, Sound, LegalOn
<1>5. CASE o.kind = "text"
  <2>1. [t[o.path] EXCEPT !.text = o.after] \in Node /\ o.after \in Texts
    BY <1>0, <1>4, <1>5, NodeWrite DEF OpTyped
  <2>2. [t[o.path] EXCEPT !.text = o.after].text = o.after
    <3>1. t[o.path] \in [kind : Kinds, id : Identities, text : Texts]
      BY <1>4, NodeTypes DEF Node
    <3> QED BY <3>1
  <2>3. ActualOf(k)[i] = [t EXCEPT ![o.path] = [t[o.path] EXCEPT !.text = o.after]]
    BY <1>0, <1>4, <1>5 DEF StepActual, TextTree
  <2> DEFINE n == [t[o.path] EXCEPT !.text = o.after]
  <2>4. n.text \in Written(k)
    BY <1>1, <1>5, <2>2
  <2>5. ActualOf(k)[i] = [t EXCEPT ![o.path] = n]
    BY <2>3
  <2> HIDE DEF n
  <2> QED BY <1>3, <1>4, <2>4, <2>5, FromWritten
<1>6. CASE o.kind = "create"
  <2>1. [t[o.path] EXCEPT !.text = <<>>].text = <<>>
    <3>1. t[o.path] \in [kind : Kinds, id : Identities, text : Texts]
      BY <1>4, NodeTypes DEF Node
    <3> QED BY <3>1
  <2>2. <<>> \in Written(k) /\ Created(i).text = <<>>
    BY <1>0, NewNodes DEF Written
  <2>3. ActualOf(k)[i] = CreatedTree(t, o.path, i)
    BY <1>0, <1>6 DEF StepActual
  <2>4. PICK n : n.text \in Written(k) /\ CreatedTree(t, o.path, i) = [t EXCEPT ![o.path] = n]
    BY <2>1, <2>2 DEF CreatedTree
  <2> QED BY <1>3, <1>4, <2>3, <2>4, FromWritten
<1>7. CASE o.kind = "delete"
  <2>1. \A p \in Paths : Under(p, o.path) /\ Exists(t, p) => p \in TouchedOf[k]
    <3> SUFFICES ASSUME NEW p \in Paths, Under(p, o.path), Exists(t, p) PROVE p \in TouchedOf[k]
      OBVIOUS
    <3>1. p \notin UndoPaths
      BY <1>4, Outside
    <3>2. Exists(s, p)
      BY <1>0, <3>1 DEF Good, SameAt, Exists
    <3>3. p \in TouchedBy(o, s)
      BY <1>7, <3>2 DEF TouchedBy, Below
    <3> QED BY <1>2, <3>3
  <2>2. ActualOf(k)[i] = RenameTree(t, o.path, u) /\ o.path \in AnyPath /\ u \in AnyPath
    BY <1>0, <1>4, <1>7, PathFacts, UndoFacts DEF StepActual, u
  <2>3. ASSUME NEW p \in Paths, Exists(RenameTree(t, o.path, u), p)
        PROVE  RenameTree(t, o.path, u)[p] = t[p] \/ \E q \in TouchedOf[k] \cap Paths : RenameTree(t, o.path, u)[p] = t[q]
    <3>1. \/ /\ Rebase(p, u, o.path) \in Paths /\ Under(Rebase(p, u, o.path), o.path)
             /\ RenameTree(t, o.path, u)[p] = t[Rebase(p, u, o.path)]
          \/ RenameTree(t, o.path, u)[p] = t[p]
      BY <2>2, <2>3, RenamedFrom
    <3>2. CASE /\ Rebase(p, u, o.path) \in Paths /\ Under(Rebase(p, u, o.path), o.path)
               /\ RenameTree(t, o.path, u)[p] = t[Rebase(p, u, o.path)]
      <4>1. Exists(t, Rebase(p, u, o.path))
        BY <2>3, <3>2 DEF Exists
      <4>2. Rebase(p, u, o.path) \in TouchedOf[k]
        BY <2>1, <3>2, <4>1
      <4> QED BY <3>2, <4>2
    <3> QED BY <3>1, <3>2
  <2> QED BY <1>3, <2>2, <2>3, FromMoved
<1>8. CASE o.kind = "rename"
  <2> DEFINE b == o.new
             r == Aside(t, o, i)
  <2>0. b \in Paths /\ b \notin UndoPaths /\ o.path \in AnyPath /\ b \in AnyPath /\ u \in AnyPath
    BY <1>0, <1>4, <1>8, PathFacts, UndoFacts DEF LegalOn, u
  <2>1. \A p \in Paths : (Under(p, o.path) \/ Under(p, b)) /\ Exists(t, p) => p \in TouchedOf[k]
    <3> SUFFICES ASSUME NEW p \in Paths, Under(p, o.path) \/ Under(p, b), Exists(t, p) PROVE p \in TouchedOf[k]
      OBVIOUS
    <3>1. p \notin UndoPaths
      BY <1>4, <2>0, Outside
    <3>2. Exists(s, p)
      BY <1>0, <3>1 DEF Good, SameAt, Exists
    <3>3. p \in TouchedBy(o, s)
      BY <1>8, <3>2 DEF TouchedBy, Below
    <3> QED BY <1>2, <3>3
  <2>2. Way(t, o.path, b, u, r)
    BY <1>0, <1>4, <1>8, AsideFacts DEF u
  <2>3. ActualOf(k)[i] = RenameTree(r, o.path, b)
    BY <1>0, <1>8 DEF StepActual
  <2>4. ASSUME NEW p \in Paths, Exists(r, p) PROVE r[p] = t[p] \/ \E q \in TouchedOf[k] \cap Paths : r[p] = t[q]
    <3>1. CASE ~Exists(t, b)
      BY <3>1 DEF Aside
    <3>2. CASE Exists(t, b)
      <4>1. r = RenameTree(t, b, u)
        BY <3>2 DEF Aside, u
      <4> HIDE DEF b, r
      <4>2. \/ /\ Rebase(p, u, b) \in Paths /\ Under(Rebase(p, u, b), b) /\ r[p] = t[Rebase(p, u, b)]
            \/ r[p] = t[p]
        BY <2>0, <2>4, <4>1, RenamedFrom
      <4>3. CASE Rebase(p, u, b) \in Paths /\ Under(Rebase(p, u, b), b) /\ r[p] = t[Rebase(p, u, b)]
        <5>1. Exists(t, Rebase(p, u, b))
          BY <2>4, <4>3 DEF Exists
        <5>2. Rebase(p, u, b) \in TouchedOf[k]
          BY <2>1, <4>3, <5>1
        <5> QED BY <4>3, <5>2
      <4> QED BY <4>2, <4>3
    <3> QED BY <3>1, <3>2
  <2> HIDE DEF b, r
  <2>5. From(k, r)
    BY <1>3, <2>4, FromMoved
  <2>6. ASSUME NEW p \in Paths, Exists(RenameTree(r, o.path, b), p)
        PROVE  RenameTree(r, o.path, b)[p] = r[p] \/ \E q \in TouchedOf[k] \cap Paths : RenameTree(r, o.path, b)[p] = r[q]
    <3>1. \/ /\ Rebase(p, b, o.path) \in Paths /\ Under(Rebase(p, b, o.path), o.path)
             /\ RenameTree(r, o.path, b)[p] = r[Rebase(p, b, o.path)]
          \/ RenameTree(r, o.path, b)[p] = r[p]
      BY <2>0, <2>6, RenamedFrom
    <3>2. CASE /\ Rebase(p, b, o.path) \in Paths /\ Under(Rebase(p, b, o.path), o.path)
               /\ RenameTree(r, o.path, b)[p] = r[Rebase(p, b, o.path)]
      <4>1. Exists(r, Rebase(p, b, o.path))
        BY <2>6, <3>2 DEF Exists
      <4>2. r[Rebase(p, b, o.path)] = t[Rebase(p, b, o.path)]
        BY <2>2, <3>2 DEF Way
      <4>3. Rebase(p, b, o.path) \in TouchedOf[k]
        BY <2>1, <3>2, <4>1, <4>2 DEF Exists
      <4> QED BY <3>2, <4>3
    <3> QED BY <3>1, <3>2
  <2> QED BY <2>3, <2>5, <2>6, FromMoved
<1> QED BY <1>0, <1>5, <1>6, <1>7, <1>8 DEF OpTyped, OpKinds

\* ... so none of the trees along the plan has one.
LEMMA FromDisk ==
  ASSUME NEW k \in DOMAIN Plans
  PROVE  \A n \in 0..Len(Plans[k].operations) : From(k, ActualOf(k)[n])
<1> DEFINE ops == Plans[k].operations
           G == {n \in Nat : n <= Len(ops) => From(k, ActualOf(k)[n])}
<1>0. Len(ops) \in Nat /\ DOMAIN ops = 1..Len(ops)
  BY PlanFacts
<1>1. 0 \in G
  <2>1. ActualOf(k)[0] = Plans[k].disk
    BY ActualSteps
  <2> QED BY <2>1 DEF From
<1>2. \A n \in Nat : n \in G => n + 1 \in G
  <2> SUFFICES ASSUME NEW n \in Nat, n \in G, n + 1 <= Len(ops) PROVE From(k, ActualOf(k)[n + 1])
    OBVIOUS
  <2>1. n + 1 \in DOMAIN ops /\ (n + 1) - 1 = n /\ From(k, ActualOf(k)[n])
    BY <1>0
  <2> DEFINE i == n + 1
  <2>2. i \in DOMAIN ops /\ From(k, ActualOf(k)[i - 1])
    BY <2>1
  <2> HIDE DEF i
  <2>3. From(k, ActualOf(k)[i])
    BY <2>2, FromStep
  <2> QED BY <2>3 DEF i
<1>3. Nat \subseteq G
  <2> HIDE DEF G
  <2> QED BY <1>1, <1>2, NatSet
<1> QED BY <1>0, <1>3

-----------------------------------------------------------------------------
(* Manifests *)

\* What a directory's digest can be taken of.
Memberships == {Members(s) : s \in SUBSET (Names \X (Kinds \ {"missing"}))}

\* The entry e describes the node.
Fits(e, node) ==
    /\ e = [kind |-> e.kind, id |-> e.id, digest |-> e.digest]
    /\ e.kind = node.kind /\ e.id = node.id
    /\ node.kind = "file" => e.digest = node.text
    /\ node.kind = "missing" => e.digest = NoDigest
    /\ node.kind = "directory" => e.digest = NoDigest \/ e.digest \in Memberships

\* No membership and no text is the value for a digest not taken.
LEMMA MembershipFacts ==
  /\ NoDigest \notin Memberships
  /\ NoDigest \notin Texts
  /\ \A p \in Paths : Last(p) \in Names
<1>1. NoDigest \notin Memberships /\ NoDigest \notin Texts
  BY NullsAssumption DEF Memberships
<1>2. ASSUME NEW p \in Paths PROVE Last(p) \in Names
  <2>1. p \in Seq(Names) /\ Len(p) \in 1..Len(p)
    BY PathFacts DEF AnyPath
  <2> QED BY <2>1 DEF Last
<1> QED BY <1>1, <1>2

Listing(t, p) == Members({<<Last(q), t[q].kind>> : q \in ChildrenOf(t, p)})

Observed(t, p, c, e) ==
    /\ e = [kind |-> e.kind, id |-> e.id, digest |-> e.digest]
    /\ e.kind = t[p].kind /\ e.id = t[p].id
    /\ t[p].kind = "file" => e.digest = t[p].text
    /\ t[p].kind = "missing" => e.digest = NoDigest
    /\ t[p].kind \notin {"file", "missing"} => e.digest = IF c THEN Listing(t, p) ELSE NoDigest

\* What observe_path records of a path.
LEMMA EntryShape ==
  ASSUME NEW t, NEW p, NEW c
  PROVE  Observed(t, p, c, Entry(t, p, c))
<1>1. Entry(t, p, c) =
        [kind |-> t[p].kind, id |-> t[p].id,
         digest |-> CASE t[p].kind = "file" -> t[p].text
                      [] t[p].kind = "missing" -> NoDigest
                      [] OTHER -> IF c THEN Listing(t, p) ELSE NoDigest]
  BY DEF Entry, Listing
<1> QED BY <1>1 DEF Observed

\* An entry taken from a tree fits it, and taking it again gives the same.
LEMMA EntryFits ==
  ASSUME NEW t \in Trees, NEW p \in Paths, NEW c
  PROVE  Fits(Entry(t, p, c), t[p]) /\ Entry(t, p, Certified(Entry(t, p, c))) = Entry(t, p, c)
<1> DEFINE e == Entry(t, p, c)
           M == Listing(t, p)
<1>1. /\ e = [kind |-> e.kind, id |-> e.id, digest |-> e.digest]
      /\ e.kind = t[p].kind /\ e.id = t[p].id
      /\ t[p].kind = "file" => e.digest = t[p].text
      /\ t[p].kind = "missing" => e.digest = NoDigest
      /\ t[p].kind \notin {"file", "missing"} => e.digest = IF c THEN M ELSE NoDigest
  BY EntryShape DEF Observed
<1>2. M \in Memberships
  <2> DEFINE S == {<<Last(q), t[q].kind>> : q \in ChildrenOf(t, p)}
  <2>1. ASSUME NEW q \in ChildrenOf(t, p) PROVE <<Last(q), t[q].kind>> \in Names \X (Kinds \ {"missing"})
    <3>1. q \in Paths /\ t[q].kind # "missing"
      BY DEF ChildrenOf, Exists
    <3>2. Last(q) \in Names /\ t[q].kind \in Kinds
      BY <3>1, MembershipFacts, NodeTypes
    <3> QED BY <3>1, <3>2
  <2>2. S \in SUBSET (Names \X (Kinds \ {"missing"}))
    BY <2>1
  <2> HIDE DEF S
  <2>3. Members(S) \in Memberships
    BY <2>2 DEF Memberships
  <2> QED BY <2>3 DEF S, Listing
<1> HIDE DEF M
<1>3. t[p].kind \in Kinds
  BY NodeTypes
<1>4. Fits(e, t[p])
  <2> HIDE DEF e
  <2> QED BY <1>1, <1>2 DEF Fits
<1> DEFINE f == Entry(t, p, Certified(e))
<1>5. /\ f = [kind |-> f.kind, id |-> f.id, digest |-> f.digest]
      /\ f.kind = t[p].kind /\ f.id = t[p].id
      /\ t[p].kind = "file" => f.digest = t[p].text
      /\ t[p].kind = "missing" => f.digest = NoDigest
      /\ t[p].kind \notin {"file", "missing"} => f.digest = IF Certified(e) THEN M ELSE NoDigest
  <2> HIDE DEF e
  <2> QED BY EntryShape DEF Observed, M, f
<1>6. f.digest = e.digest
  <2> HIDE DEF e, f
  <2>1. CASE t[p].kind \in {"file", "missing"}
    BY <1>1, <1>5, <2>1
  <2>2. CASE t[p].kind = "directory"
    <3>1. e.digest = IF c THEN M ELSE NoDigest
      BY <1>1, <2>2
    <3>2. M # NoDigest
      BY <1>2, MembershipFacts
    <3>3. f.digest = IF Certified(e) THEN M ELSE NoDigest
      BY <1>5, <2>2
    <3>4. Certified(e) <=> c
      BY <1>1, <2>2, <3>1, <3>2 DEF Certified
    <3> QED BY <3>1, <3>3, <3>4
  <2> QED BY <1>3, <2>1, <2>2 DEF Kinds
<1>7. f = e
  <2> HIDE DEF e, f
  <2> QED BY <1>1, <1>5, <1>6
<1> QED BY <1>4, <1>7

\* What an entry says of a node it is found for.
LEMMA Held ==
  ASSUME NEW t, NEW p, NEW c, NEW e, NEW node, Entry(t, p, c) = e, Fits(e, node)
  PROVE  t[p].kind = node.kind /\ t[p].id = node.id /\ (node.kind = "file" => t[p].text = node.text)
<1>1. e.kind = t[p].kind /\ e.id = t[p].id /\ (t[p].kind = "file" => e.digest = t[p].text)
  BY EntryShape DEF Observed
<1> QED BY <1>1 DEF Fits

\* The entry of a path tells its node: two trees that fit one entry agree
\* there.
LEMMA HeldNode ==
  ASSUME NEW t, NEW s, Sound(t), Sound(s), NEW p \in Paths, NEW c, NEW e, Entry(t, p, c) = e, Fits(e, s[p])
  PROVE  t[p] = s[p]
<1>1. t[p].kind = s[p].kind /\ t[p].id = s[p].id /\ (s[p].kind = "file" => t[p].text = s[p].text)
  BY Held
<1>2. t[p] \in Node /\ s[p] \in Node /\ s[p].kind \in Kinds
  BY NodeTypes DEF Sound
<1>3. t[p].text = s[p].text
  BY <1>1, <1>2 DEF Kinds, Sound
<1> QED BY <1>1, <1>2, <1>3, NodeTypes

\* The operations that move a subtree.
Moving(o) == o.kind \in {"rename", "delete"}

\* The manifest m describes the tree t.
Fitting(m, t) ==
    /\ DOMAIN m \subseteq Paths /\ m = [p \in DOMAIN m |-> m[p]]
    /\ \A p \in DOMAIN m : Fits(m[p], t[p])

\* The manifest m tells what the files are after n operations.
Tells(k, m, n) ==
    /\ Fitting(m, ActualOf(k)[n]) /\ TouchedOf[k] \subseteq DOMAIN m /\ DOMAIN m \ UndoPaths \subseteq TouchedOf[k]
    /\ \A p \in DOMAIN m \cap UndoPaths : m[p].kind = "directory" => Certified(m[p])

\* and has the slots of the first n operations.
Slots(k, m, n) == \A i \in DOMAIN Plans[k].operations : i <= n /\ Moving(Plans[k].operations[i]) => Undo(i) \in DOMAIN m

\* The first manifest of a plan tells of the disk.
LEMMA InitialTells ==
  ASSUME NEW k \in DOMAIN Plans
  PROVE  /\ Tells(k, ManifestOf[k], 0) /\ Slots(k, ManifestOf[k], 0)
         /\ DOMAIN ManifestOf[k] = TouchedOf[k]
         /\ \A p \in TouchedOf[k] : /\ Entry(Plans[k].disk, p, Certified(ManifestOf[k][p])) = ManifestOf[k][p]
                                    /\ Fits(ManifestOf[k][p], Plans[k].disk[p])
<1> DEFINE d == Plans[k].disk
           m == ManifestOf[k]
<1>1. m = [p \in TouchedOf[k] |-> Entry(d, p, \E i \in DOMAIN Plans[k].operations : MovesTree(Plans[k].operations[i], p))]
  BY DEF ManifestOf
<1>2. d \in Trees
  BY PlanFacts
<1>3. TouchedOf[k] \subseteq Paths \ UndoPaths
  BY TouchedFacts
<1>4. ASSUME NEW p \in TouchedOf[k]
      PROVE  Entry(d, p, Certified(m[p])) = m[p] /\ Fits(m[p], d[p])
  <2>1. PICK c : m[p] = Entry(d, p, c)
    BY <1>1
  <2>2. p \in Paths
    BY <1>3
  <2> HIDE DEF m, d
  <2> QED BY <1>2, <2>1, <2>2, EntryFits
<1>5. ActualOf(k)[0] = d
  BY ActualSteps
<1>6. DOMAIN m = TouchedOf[k] /\ m = [p \in DOMAIN m |-> m[p]]
  BY <1>1
<1>7. Tells(k, m, 0)
  <2> HIDE DEF m, d
  <2> QED BY <1>3, <1>4, <1>5, <1>6 DEF Tells, Fitting
<1>8. Slots(k, m, 0)
  <2>1. DOMAIN Plans[k].operations = 1..Len(Plans[k].operations) /\ Len(Plans[k].operations) \in Nat
    BY PlanFacts
  <2> QED BY <2>1 DEF Slots
<1> QED BY <1>4, <1>6, <1>7, <1>8

\* The certificates of m name what m has below them.
Sealed(m) ==
    \A p \in DOMAIN m : Certified(m[p]) =>
        m[p].digest = Members({<<Last(q), m[q].kind>> :
                         q \in {c \in DOMAIN m : c # <<>> /\ Parent(c) = p /\ m[c].kind # "missing"}})

\* Refreshing the memberships of a manifest loses nothing it tells.
LEMMA RefreshTells ==
  ASSUME NEW k \in DOMAIN Plans, NEW n \in 0..Len(Plans[k].operations), NEW m, Tells(k, m, n), Slots(k, m, n)
  PROVE  /\ Tells(k, Refreshed(m), n) /\ Slots(k, Refreshed(m), n) /\ Sealed(Refreshed(m))
         /\ DOMAIN Refreshed(m) = DOMAIN m
<1> DEFINE r == Refreshed(m)
           S(p) == {<<Last(q), m[q].kind>> : q \in {c \in DOMAIN m : c # <<>> /\ Parent(c) = p /\ m[c].kind # "missing"}}
           A == ActualOf(k)[n]
<1>1. r = [p \in DOMAIN m |-> IF Certified(m[p]) THEN [m[p] EXCEPT !.digest = Members(S(p))] ELSE m[p]]
  BY DEF Refreshed
<1>2. DOMAIN r = DOMAIN m /\ r = [p \in DOMAIN r |-> r[p]]
  BY <1>1
<1>a. DOMAIN m \subseteq Paths /\ \A p \in DOMAIN m : Fits(m[p], A[p])
  BY DEF Tells, Fitting
<1>b. \A p \in DOMAIN m : m[p].kind \in Kinds
  <2>1. A \in Trees
    BY PlanGood DEF Good, Sound
  <2> HIDE DEF A
  <2> QED BY <1>a, <2>1, NodeTypes DEF Fits
<1>3. ASSUME NEW p \in DOMAIN m PROVE Members(S(p)) \in Memberships
  <2>1. ASSUME NEW q \in DOMAIN m, m[q].kind # "missing" PROVE <<Last(q), m[q].kind>> \in Names \X (Kinds \ {"missing"})
    <3>1. Last(q) \in Names /\ m[q].kind \in Kinds
      BY <1>a, <1>b, MembershipFacts
    <3> QED BY <2>1, <3>1
  <2>2. S(p) \in SUBSET (Names \X (Kinds \ {"missing"}))
    BY <2>1
  <2> HIDE DEF S
  <2> QED BY <2>2 DEF Memberships
<1> HIDE DEF S
<1>4. ASSUME NEW p \in DOMAIN m, Certified(m[p])
      PROVE  /\ r[p] = [kind |-> "directory", id |-> m[p].id, digest |-> Members(S(p))]
             /\ Certified(r[p]) /\ Members(S(p)) # NoDigest
  <2>1. r[p] = [m[p] EXCEPT !.digest = Members(S(p))]
    BY <1>1, <1>4
  <2>2. m[p] = [kind |-> m[p].kind, id |-> m[p].id, digest |-> m[p].digest] /\ m[p].kind = "directory"
    BY <1>a, <1>4 DEF Fits, Certified
  <2> DEFINE y == m[p]
  <2>3. [y EXCEPT !.digest = Members(S(p))] = [kind |-> y.kind, id |-> y.id, digest |-> Members(S(p))]
    <3> HIDE DEF y
    <3>1. y = [kind |-> y.kind, id |-> y.id, digest |-> y.digest]
      BY <2>2 DEF y
    <3> QED BY <3>1
  <2>4. r[p] = [kind |-> "directory", id |-> m[p].id, digest |-> Members(S(p))]
    BY <2>1, <2>2, <2>3
  <2>5. Members(S(p)) # NoDigest
    BY <1>3, MembershipFacts
  <2> HIDE DEF r
  <2> QED BY <2>4, <2>5 DEF Certified
<1>5. \A p \in DOMAIN m : ~Certified(m[p]) => r[p] = m[p]
  BY <1>1
<1> HIDE DEF r
<1>6. \A p \in DOMAIN m : r[p].kind = m[p].kind /\ (Certified(r[p]) <=> Certified(m[p]))
  BY <1>4, <1>5 DEF Certified
<1>7. ASSUME NEW p \in DOMAIN r PROVE Fits(r[p], A[p])
  <2>1. Fits(m[p], A[p]) /\ p \in DOMAIN m
    BY <1>2, <1>a
  <2>2. CASE Certified(m[p])
    <3>1. A[p].kind = "directory" /\ A[p].id = m[p].id
      BY <2>1, <2>2 DEF Fits, Certified
    <3>2. Members(S(p)) \in Memberships
      BY <1>3, <2>1
    <3> DEFINE M == Members(S(p))  e == r[p]  node == A[p]
    <3>3. e = [kind |-> "directory", id |-> m[p].id, digest |-> M]
      BY <1>4, <2>1, <2>2
    <3>4. node.kind = "directory" /\ node.id = m[p].id /\ M \in Memberships
      BY <3>1, <3>2
    <3> HIDE DEF M, e, node
    <3>5. e.kind = "directory" /\ e.id = m[p].id /\ e.digest = M
      BY <3>3
    <3>6. Fits(e, node)
      BY <3>3, <3>4, <3>5 DEF Fits
    <3> QED BY <3>6 DEF e, node
  <2>3. CASE ~Certified(m[p])
    BY <1>5, <2>1, <2>3
  <2> QED BY <2>2, <2>3
<1>8. Tells(k, r, n)
  BY <1>2, <1>6, <1>7 DEF Tells, Fitting, A
<1>9. Slots(k, r, n)
  BY <1>2 DEF Slots
<1>10. Sealed(r)
  <2> SUFFICES ASSUME NEW p \in DOMAIN r, Certified(r[p])
               PROVE  r[p].digest = Members({<<Last(q), r[q].kind>> :
                         q \in {c \in DOMAIN r : c # <<>> /\ Parent(c) = p /\ r[c].kind # "missing"}})
    BY DEF Sealed
  <2>1. r[p].digest = Members(S(p))
    BY <1>2, <1>4, <1>6
  <2>2. {c \in DOMAIN r : c # <<>> /\ Parent(c) = p /\ r[c].kind # "missing"}
          = {c \in DOMAIN m : c # <<>> /\ Parent(c) = p /\ m[c].kind # "missing"}
    BY <1>2, <1>6
  <2>3. S(p) = {<<Last(q), r[q].kind>> : q \in {c \in DOMAIN r : c # <<>> /\ Parent(c) = p /\ r[c].kind # "missing"}}
    BY <1>6, <2>2 DEF S
  <2> QED BY <2>1, <2>3
<1> QED BY <1>2, <1>8, <1>9, <1>10 DEF r

\* Only the entry of a missing path fits a missing node.
LEMMA MissingFits ==
  ASSUME NEW e
  PROVE  Fits(e, MissingNode) <=> e = MissingEntry
<1>1. MissingNode.kind = "missing" /\ MissingNode.id = NoId
  BY NodeTypes
<1>2. ASSUME Fits(e, MissingNode) PROVE e = MissingEntry
  <2>1. e = [kind |-> e.kind, id |-> e.id, digest |-> e.digest] /\ e.kind = "missing" /\ e.id = NoId /\ e.digest = NoDigest
    BY <1>1, <1>2 DEF Fits
  <2> QED BY <2>1 DEF MissingEntry
<1>3. Fits(MissingEntry, MissingNode)
  <2>1. MissingEntry = [kind |-> "missing", id |-> NoId, digest |-> NoDigest]
    BY DEF MissingEntry
  <2>2. MissingEntry.kind = "missing" /\ MissingEntry.id = NoId /\ MissingEntry.digest = NoDigest
    BY <2>1
  <2>3. MissingEntry = [kind |-> MissingEntry.kind, id |-> MissingEntry.id, digest |-> MissingEntry.digest]
    BY <2>1, <2>2
  <2> QED BY <1>1, <2>2, <2>3 DEF Fits
<1> QED BY <1>2, <1>3

\* What lies at the root a is known to the manifest m and fits at b, where nothing is.
Carries(m, t, a, b) ==
    /\ a \in Paths /\ b \in Paths /\ Apart(a, b) /\ Fitting(m, t)
    /\ \A p \in Paths : t[p].kind = "missing" => t[p] = MissingNode
    /\ \A p \in Paths : Under(p, a) /\ Exists(t, p) => p \in DOMAIN m
    /\ Closed(t, a, b)
    /\ \A p \in Paths : Under(p, b) => ~Exists(t, p)

\* The manifest r is m with what lies at a entered at b.
Carried(r, m, a, b) ==
    /\ DOMAIN m \subseteq DOMAIN r
    /\ \A p \in DOMAIN r : \/ p \in DOMAIN m /\ r[p] = m[p]
                           \/ p \in DOMAIN m /\ Under(p, a) /\ r[p] = MissingEntry
                           \/ Under(p, b) /\ \E q \in DOMAIN m : Under(q, a) /\ m[q].kind # "missing" /\ r[p] = m[q] /\ p = Rebase(q, a, b)

\* Transferring the entries of a subtree follows the rename of the subtree.
LEMMA TransferFits ==
  ASSUME NEW m, NEW t, NEW a, NEW b, Carries(m, t, a, b)
  PROVE  Fitting(Transfer(m, a, b), RenameTree(t, a, b)) /\ Carried(Transfer(m, a, b), m, a, b)
<1> DEFINE moved == {p \in DOMAIN m : Under(p, a) /\ m[p].kind # "missing"}
           targets == {Rebase(p, a, b) : p \in moved}
           r == Transfer(m, a, b)
           z == RenameTree(t, a, b)
<1>1. r = [p \in DOMAIN m \cup targets |->
             IF p \in targets THEN m[Rebase(p, b, a)] ELSE IF p \in moved THEN MissingEntry ELSE m[p]]
  BY DEF Transfer
<1>2. /\ a \in Paths /\ b \in Paths /\ Apart(a, b)
      /\ DOMAIN m \subseteq Paths /\ \A p \in DOMAIN m : Fits(m[p], t[p])
      /\ \A p \in Paths : t[p].kind = "missing" => t[p] = MissingNode
      /\ \A p \in Paths : Under(p, a) /\ Exists(t, p) => p \in DOMAIN m
      /\ \A p \in Paths : Under(p, a) /\ Exists(t, p) => Rebase(p, a, b) \in Paths
      /\ \A p \in Paths : Under(p, b) => ~Exists(t, p)
  BY DEF Carries, Fitting, Closed
<1>3. a \in AnyPath /\ b \in AnyPath /\ \A p \in Paths : p \in AnyPath
  <2>1. \A p \in Paths : p \in AnyPath
    BY PathFacts
  <2> QED BY <1>2, <2>1
<1>4. \A p \in DOMAIN m : m[p].kind = t[p].kind
  BY <1>2 DEF Fits
<1>5. ASSUME NEW q \in moved
      PROVE  /\ Rebase(q, a, b) \in Paths /\ Under(Rebase(q, a, b), b) /\ Rebase(Rebase(q, a, b), b, a) = q
             /\ q \in DOMAIN m /\ Under(q, a) /\ q \in Paths
  <2>1. q \in Paths /\ Under(q, a) /\ Exists(t, q)
    BY <1>2, <1>4 DEF Exists
  <2> QED BY <1>2, <1>3, <2>1, RebaseFacts
<1>6. ASSUME NEW p \in targets
      PROVE  /\ p \in Paths /\ Under(p, b) /\ Rebase(p, b, a) \in moved
             /\ Rebase(p, b, a) \in DOMAIN m /\ Under(Rebase(p, b, a), a) /\ Rebase(p, b, a) \in Paths
             /\ r[p] = m[Rebase(p, b, a)] /\ z[p] = t[Rebase(p, b, a)] /\ p = Rebase(Rebase(p, b, a), a, b)
  <2>1. PICK q \in moved : p = Rebase(q, a, b)
    OBVIOUS
  <2>2. p \in Paths /\ Under(p, b) /\ Rebase(p, b, a) = q /\ q \in Paths /\ q \in DOMAIN m /\ Under(q, a)
    BY <1>5, <2>1
  <2>3. r[p] = m[Rebase(p, b, a)]
    BY <1>1
  <2>4. z[p] = t[Rebase(p, b, a)]
    BY <1>3, <2>2, RenamedAt
  <2> QED BY <2>1, <2>2, <2>3, <2>4
<1>7. ASSUME NEW p \in moved, p \notin targets
      PROVE  r[p] = MissingEntry /\ z[p] = MissingNode /\ Under(p, a) /\ p \in Paths
  <2>1. r[p] = MissingEntry
    BY <1>1, <1>7
  <2>2. p \in Paths /\ Under(p, a) /\ ~Under(p, b)
    BY <1>2, <1>3, ApartFacts
  <2>3. z[p] = MissingNode
    BY <1>3, <2>2, RenamedAway
  <2> QED BY <2>1, <2>2, <2>3
<1>8. ASSUME NEW p \in DOMAIN m, p \notin moved, p \notin targets
      PROVE  r[p] = m[p] /\ z[p] = t[p]
  <2>1. r[p] = m[p] /\ p \in Paths
    BY <1>1, <1>2, <1>8
  <2>2. CASE Under(p, a)
    <3>1. t[p] = MissingNode
      BY <1>2, <1>4, <1>8, <2>1, <2>2
    <3>2. ~Under(p, b)
      BY <1>2, <1>3, <2>1, <2>2, ApartFacts
    <3>3. z[p] = MissingNode
      BY <1>3, <2>1, <2>2, <3>2, RenamedAway
    <3> QED BY <2>1, <3>1, <3>3
  <2>3. CASE Under(p, b)
    <3>1. t[p] = MissingNode
      BY <1>2, <2>1, <2>3 DEF Exists
    <3>2. CASE Rebase(p, b, a) \notin Paths
      <4>1. z[p] = MissingNode
        BY <1>3, <2>1, <2>3, <3>2, RenamedNone
      <4> QED BY <2>1, <3>1, <4>1
    <3>3. CASE Rebase(p, b, a) \in Paths
      <4> DEFINE q == Rebase(p, b, a)
      <4>1. z[p] = t[q]
        BY <1>3, <2>1, <2>3, <3>3, RenamedAt
      <4>2. Under(q, a) /\ Rebase(q, a, b) = p
        BY <1>3, <2>1, <2>3, RebaseFacts
      <4>3. ~Exists(t, q)
        <5> SUFFICES ASSUME Exists(t, q) PROVE FALSE
          OBVIOUS
        <5>1. q \in DOMAIN m
          BY <1>2, <3>3, <4>2
        <5>2. q \in moved
          BY <1>4, <4>2, <5>1 DEF Exists
        <5> QED BY <1>8, <4>2, <5>2
      <4>4. t[q] = MissingNode
        BY <1>2, <3>3, <4>3 DEF Exists
      <4> QED BY <2>1, <3>1, <4>1, <4>4
    <3> QED BY <3>2, <3>3
  <2>4. CASE ~Under(p, a) /\ ~Under(p, b)
    <3>1. z[p] = t[p]
      BY <1>3, <2>1, <2>4, RenamedElse
    <3> QED BY <2>1, <3>1
  <2> QED BY <2>2, <2>3, <2>4
<1>9. DOMAIN r = DOMAIN m \cup targets /\ r = [p \in DOMAIN r |-> r[p]]
  BY <1>1
<1> HIDE DEF r, z
<1>10. ASSUME NEW p \in DOMAIN r PROVE Fits(r[p], z[p])
  <2>1. CASE p \in targets
    BY <1>2, <1>6, <2>1
  <2>2. CASE p \in moved /\ p \notin targets
    BY <1>7, <2>2, MissingFits
  <2>3. CASE p \in DOMAIN m /\ p \notin moved /\ p \notin targets
    BY <1>2, <1>8, <2>3
  <2> QED BY <1>9, <2>1, <2>2, <2>3
<1>11. ASSUME NEW p \in DOMAIN r
       PROVE  \/ p \in DOMAIN m /\ r[p] = m[p]
              \/ p \in DOMAIN m /\ Under(p, a) /\ r[p] = MissingEntry
              \/ Under(p, b) /\ \E q \in DOMAIN m : Under(q, a) /\ m[q].kind # "missing" /\ r[p] = m[q] /\ p = Rebase(q, a, b)
  <2>1. CASE p \in targets
    BY <1>5, <1>6, <2>1
  <2>2. CASE p \in moved /\ p \notin targets
    BY <1>7, <2>2
  <2>3. CASE p \in DOMAIN m /\ p \notin moved /\ p \notin targets
    BY <1>8, <2>3
  <2> QED BY <1>9, <2>1, <2>2, <2>3
<1>12. Fitting(r, z)
  <2>1. targets \subseteq Paths
    BY <1>6
  <2> QED BY <1>2, <1>9, <1>10, <2>1 DEF Fitting
<1>13. Carried(r, m, a, b)
  BY <1>9, <1>11 DEF Carried
<1> QED BY <1>12, <1>13 DEF r, z

\* The trees an operation moves were inspected.
LEMMA CoveredMoves ==
  ASSUME NEW k \in DOMAIN Plans, NEW i \in DOMAIN Plans[k].operations, NEW o, o = Plans[k].operations[i]
  PROVE  /\ Moving(o) => \A p \in Paths : Under(p, o.path) /\ Exists(ActualOf(k)[i - 1], p) => p \in TouchedOf[k]
         /\ o.kind = "rename" => \A p \in Paths : Under(p, o.new) /\ Exists(ActualOf(k)[i - 1], p) => p \in TouchedOf[k]
         /\ o.kind = "rename" => \A p \in Paths : Under(p, o.path) /\ Exists(ActualOf(k)[i - 1], p) =>
                                    Rebase(p, o.path, o.new) \in TouchedOf[k]
<1> DEFINE t == ActualOf(k)[i - 1]
           s == OutcomeOf[k][i - 1]
<1>1. Good(t, s, i - 1) /\ LegalOn(t, o, i)
  BY PlanGood
<1>2. TouchedBy(o, s) \subseteq TouchedOf[k]
  BY TouchedFacts
<1> HIDE DEF t, s
<1>3. o.path \in Paths /\ o.path \notin UndoPaths /\ (o.kind = "rename" => o.new \in Paths /\ o.new \notin UndoPaths)
  BY <1>1 DEF LegalOn
<1>4. ASSUME NEW p \in Paths, Exists(t, p), p \notin UndoPaths PROVE Exists(s, p)
  BY <1>1, <1>4 DEF Good, SameAt, Exists
<1>5. ASSUME Moving(o), NEW p \in Paths, Under(p, o.path), Exists(t, p) PROVE p \in TouchedOf[k]
  <2>1. p \notin UndoPaths
    BY <1>3, <1>5, Outside
  <2>2. Exists(s, p)
    BY <1>4, <1>5, <2>1
  <2>3. p \in TouchedBy(o, s)
    BY <1>5, <2>2 DEF TouchedBy, Below, Moving
  <2> QED BY <1>2, <2>3
<1>6. ASSUME o.kind = "rename", NEW p \in Paths, Under(p, o.new), Exists(t, p) PROVE p \in TouchedOf[k]
  <2>1. p \notin UndoPaths
    BY <1>3, <1>6, Outside
  <2>2. Exists(s, p)
    BY <1>4, <1>6, <2>1
  <2>3. p \in TouchedBy(o, s)
    BY <1>6, <2>2 DEF TouchedBy, Below
  <2> QED BY <1>2, <2>3
<1>7. ASSUME o.kind = "rename", NEW p \in Paths, Under(p, o.path), Exists(t, p)
      PROVE  Rebase(p, o.path, o.new) \in TouchedOf[k]
  <2>1. p \notin UndoPaths
    BY <1>3, <1>7, Outside
  <2>2. Exists(s, p)
    BY <1>4, <1>7, <2>1
  <2>3. CASE p = o.path
    <3>1. o.path \in AnyPath /\ o.new \in AnyPath
      BY <1>3, <1>7, PathFacts
    <3>2. Under(o.path, o.path)
      BY <1>7, <2>3
    <3>3. Rebase(o.path, o.path, o.new) = o.new
      BY <3>1, <3>2, RebaseFacts
    <3>4. o.new \in TouchedOf[k]
      BY <1>7, TouchedFacts
    <3> QED BY <2>3, <3>3, <3>4
  <2>4. CASE p # o.path
    <3>1. Rebase(p, o.path, o.new) \in TouchedBy(o, s)
      BY <1>7, <2>2, <2>4 DEF TouchedBy, Below
    <3> QED BY <1>2, <3>1
  <2> QED BY <2>3, <2>4
<1> QED BY <1>5, <1>6, <1>7 DEF t

\* Every touched path below what is moved aside has its place below the slot.
LEMMA SlotPaths ==
  ASSUME NEW k \in DOMAIN Plans, NEW i \in DOMAIN Plans[k].operations, NEW o, o = Plans[k].operations[i], Moving(o)
  PROVE  \A p \in TouchedOf[k] : Under(p, AsideRoot(o)) => Rebase(p, AsideRoot(o), Undo(i)) \in Paths
BY PlansAssumption DEF PlanFits, HasSlots, Moving

\* The manifest w is m with the slot of operation i entered as missing.
Slotted(k, w, m, i) ==
    /\ Tells(k, w, i - 1) /\ Slots(k, w, i)
    /\ DOMAIN m \subseteq DOMAIN w /\ \A p \in DOMAIN m : w[p] = m[p]
    /\ \A p \in DOMAIN w : p \in DOMAIN m \/ w[p] = MissingEntry

\* Adding the slot of an operation to a manifest keeps what it tells.
LEMMA WithUndoTells ==
  ASSUME plan \in DOMAIN Plans, NEW i \in DOMAIN operations, NEW m, Tells(plan, m, i - 1), Slots(plan, m, i - 1)
  PROVE  Slotted(plan, WithUndo(m, i), m, i)
<1> DEFINE o == operations[i]
           root == AsideRoot(o)
           u == Undo(i)
           slots == IF Moving(o) THEN {Rebase(p, root, u) : p \in {q \in DOMAIN m : Under(q, root)}} ELSE {}
           w == WithUndo(m, i)
           t == ActualOf(plan)[i - 1]
           ops == Plans[plan].operations
<1>1. w = [p \in DOMAIN m \cup slots |-> IF p \in slots THEN MissingEntry ELSE m[p]]
  BY DEF WithUndo, Moving
<1>2. /\ Fitting(m, t) /\ TouchedOf[plan] \subseteq DOMAIN m /\ DOMAIN m \ UndoPaths \subseteq TouchedOf[plan]
      /\ \A p \in DOMAIN m \cap UndoPaths : m[p].kind = "directory" => Certified(m[p])
  BY DEF Tells
<1>3. Good(t, OutcomeOf[plan][i - 1], i - 1) /\ LegalOn(t, o, i) /\ i \in DOMAIN UndoName /\ i \in 1..Len(ops)
      /\ Len(ops) \in Nat
  BY PlanGood, PlanFacts DEF operations
<1>a. DOMAIN ops = 1..Len(ops) /\ i \in DOMAIN ops /\ i > i - 1
  BY <1>3, PlanFacts DEF operations
<1>4. ASSUME Moving(o)
      PROVE  /\ root \in Paths /\ root \notin UndoPaths /\ root \in TouchedOf[plan]
             /\ root \in AnyPath /\ u \in AnyPath
             /\ \A p \in TouchedOf[plan] : Under(p, root) => Rebase(p, root, u) \in Paths
  <2>1. o = ops[i]
    BY DEF operations
  <2>2. root \in TouchedOf[plan]
    BY <1>4, <1>a, <2>1, TouchedFacts DEF AsideRoot, Moving
  <2>3. root \in Paths /\ root \notin UndoPaths
    BY <1>a, <2>2, TouchedFacts
  <2>4. root \in AnyPath /\ u \in AnyPath
    BY <1>3, <2>3, PathFacts, UndoFacts
  <2>5. \A p \in TouchedOf[plan] : Under(p, root) => Rebase(p, root, u) \in Paths
    BY <1>4, <1>a, <2>1, SlotPaths
  <2> QED BY <2>2, <2>3, <2>4, <2>5
<1>5. ASSUME NEW p \in slots
      PROVE  p \in Paths /\ Under(p, u) /\ p \in UndoPaths /\ t[p] = MissingNode
  <2>1. Moving(o) /\ \E q \in DOMAIN m : Under(q, root) /\ p = Rebase(q, root, u)
    BY <1>5
  <2>2. PICK q \in DOMAIN m : Under(q, root) /\ p = Rebase(q, root, u)
    BY <2>1
  <2>3. q \in Paths
    BY <1>2 DEF Fitting
  <2>4. q \notin UndoPaths
    BY <1>4, <2>1, <2>2, <2>3, Outside
  <2>5. p \in Paths
    BY <1>2, <1>4, <2>1, <2>2, <2>4
  <2>6. q \in AnyPath
    BY <2>3, PathFacts
  <2>7. Under(p, u)
    BY <1>4, <2>1, <2>2, <2>6, RebaseFacts
  <2>8. p \in UndoPaths
    BY <1>3, <2>5, <2>7 DEF UndoPaths
  <2>9. ~Exists(t, p)
    BY <1>3, <1>a, <2>5, <2>7 DEF Good
  <2>10. t[p] = MissingNode
    BY <1>3, <2>5, <2>9 DEF Good, Sound, Exists
  <2> QED BY <2>5, <2>7, <2>8, <2>10
<1>6. DOMAIN w = DOMAIN m \cup slots /\ w = [p \in DOMAIN w |-> w[p]]
  BY <1>1
<1>7. \A p \in slots : w[p] = MissingEntry
  BY <1>1
<1>8. ASSUME NEW p \in DOMAIN m PROVE w[p] = m[p]
  <2>1. CASE p \in slots
    <3>1. Fits(m[p], MissingNode)
      BY <1>2, <1>5, <2>1 DEF Fitting
    <3> QED BY <1>7, <2>1, <3>1, MissingFits
  <2>2. CASE p \notin slots
    BY <1>1, <2>2
  <2> QED BY <2>1, <2>2
<1>b. MissingEntry.kind = "missing"
  BY DEF MissingEntry
<1> HIDE DEF w, t
<1>9. ASSUME NEW p \in DOMAIN w PROVE Fits(w[p], t[p])
  <2>1. CASE p \in DOMAIN m
    BY <1>2, <1>8, <2>1 DEF Fitting
  <2>2. CASE p \in slots
    BY <1>5, <1>7, <2>2, MissingFits
  <2> QED BY <1>6, <2>1, <2>2
<1>10. Fitting(w, t)
  <2>1. DOMAIN w \subseteq Paths
    BY <1>2, <1>5, <1>6 DEF Fitting
  <2> QED BY <1>6, <1>9, <2>1 DEF Fitting
<1>11. TouchedOf[plan] \subseteq DOMAIN w /\ DOMAIN w \ UndoPaths \subseteq TouchedOf[plan]
  BY <1>2, <1>5, <1>6
<1>12. \A p \in DOMAIN w \cap UndoPaths : w[p].kind = "directory" => Certified(w[p])
  BY <1>2, <1>6, <1>7, <1>8, <1>b
<1>13. Tells(plan, w, i - 1)
  BY <1>10, <1>11, <1>12 DEF Tells, t
<1>14. ASSUME NEW j \in DOMAIN ops, j <= i, Moving(ops[j]) PROVE Undo(j) \in DOMAIN w
  <2>1. CASE j <= i - 1
    BY <1>6, <1>14, <2>1 DEF Slots
  <2>2. CASE j = i
    <3>1. Moving(o)
      BY <1>14, <2>2 DEF operations
    <3>2. root \in DOMAIN m /\ root \in AnyPath /\ u \in AnyPath
      BY <1>2, <1>4, <3>1
    <3>3. Under(root, root)
      BY <3>2, UnderOrder
    <3>4. Rebase(root, root, u) = u
      BY <3>2, <3>3, RebaseFacts
    <3>5. u \in slots
      BY <3>1, <3>2, <3>3, <3>4
    <3> QED BY <1>6, <2>2, <3>5
  <2>3. j <= i - 1 \/ j = i
    BY <1>3, <1>a, <1>14
  <2> QED BY <2>1, <2>2, <2>3
<1>15. Slots(plan, w, i)
  BY <1>14 DEF Slots
<1> QED BY <1>6, <1>7, <1>8, <1>13, <1>15 DEF Slotted, w

\* The manifest r follows e over operation i.
Follows(k, r, e, i) == Tells(k, r, i) /\ Slots(k, r, i) /\ DOMAIN e \subseteq DOMAIN r

\* The proof of a text edit, computed from the intent, tells of the tree after
\* it.
LEMMA AfterTextTells ==
  ASSUME plan \in DOMAIN Plans, NEW i \in DOMAIN operations, NEW e, Tells(plan, e, i - 1), Slots(plan, e, i),
         operations[i].kind = "text", AfterText(e, operations[i]) # NoManifest
  PROVE  Follows(plan, AfterText(e, operations[i]), e, i)
<1> DEFINE o == operations[i]
           a == o.path
           t == ActualOf(plan)[i - 1]
           z == ActualOf(plan)[i]
           r == AfterText(e, o)
<1>1. r = [e EXCEPT ![a].digest = o.after]
  BY DEF AfterText
<1>2. Fitting(e, t) /\ TouchedOf[plan] \subseteq DOMAIN e /\ DOMAIN e \ UndoPaths \subseteq TouchedOf[plan]
      /\ \A p \in DOMAIN e \cap UndoPaths : e[p].kind = "directory" => Certified(e[p])
  BY DEF Tells
<1>3. LegalOn(t, o, i) /\ z = StepActual(t, o, i) /\ a \in TouchedOf[plan] /\ t \in Trees
  BY PlanGood, TouchedFacts DEF operations, Good, Sound
<1>4. a \in Paths /\ a \notin UndoPaths /\ t[a].kind = "file" /\ a \in DOMAIN e
  BY <1>2, <1>3 DEF LegalOn
<1>5. z = [t EXCEPT ![a] = [t[a] EXCEPT !.text = o.after]]
  BY <1>3 DEF StepActual, TextTree
<1> HIDE DEF r, z, t, a, o
<1>6. DOMAIN r = DOMAIN e /\ r = [p \in DOMAIN r |-> r[p]] /\ \A p \in DOMAIN e : p # a => r[p] = e[p]
  BY <1>1
<1>7. r[a] = [e[a] EXCEPT !.digest = o.after]
  BY <1>1, <1>4
<1>8. \A p \in Paths : p # a => z[p] = t[p]
  <2>1. DOMAIN t = Paths
    BY <1>3 DEF Trees
  <2> QED BY <1>5, <2>1
<1>9. z[a] = [t[a] EXCEPT !.text = o.after]
  <2>1. DOMAIN t = Paths
    BY <1>3 DEF Trees
  <2> QED BY <1>4, <1>5, <2>1
<1>10. Fits(r[a], z[a])
  <2> DEFINE x == e[a]  n == t[a]
  <2>1. Fits(x, n) /\ n.kind = "file"
    BY <1>2, <1>4 DEF Fitting
  <2>2. n \in Node
    BY <1>3, <1>4, NodeTypes
  <2> HIDE DEF x, n
  <2>3. x = [kind |-> x.kind, id |-> x.id, digest |-> x.digest] /\ x.kind = n.kind /\ x.id = n.id
    BY <2>1 DEF Fits
  <2> DEFINE y == [x EXCEPT !.digest = o.after]  m == [n EXCEPT !.text = o.after]
  <2>4. y = [kind |-> x.kind, id |-> x.id, digest |-> o.after]
    BY <2>3
  <2>5. m.kind = "file" /\ m.id = n.id /\ m.text = o.after
    BY <2>1, <2>2 DEF Node
  <2>6. Fits(y, m)
    <3> HIDE DEF y, m
    <3>1. y.kind = x.kind /\ y.id = x.id /\ y.digest = o.after
      BY <2>4
    <3> QED BY <2>1, <2>3, <2>4, <2>5, <3>1 DEF Fits
  <2> QED BY <1>7, <1>9, <2>6 DEF x, n
<1>11. Fitting(r, z)
  <2>1. DOMAIN e \subseteq Paths /\ \A p \in DOMAIN e : Fits(e[p], t[p])
    BY <1>2 DEF Fitting
  <2>2. ASSUME NEW p \in DOMAIN r PROVE Fits(r[p], z[p])
    <3>1. p \in DOMAIN e /\ p \in Paths
      BY <1>6, <2>1
    <3> QED BY <1>6, <1>8, <1>10, <2>1, <3>1
  <2> QED BY <1>6, <2>1, <2>2 DEF Fitting
<1>12. Tells(plan, r, i)
  BY <1>2, <1>4, <1>6, <1>11 DEF Tells, z
<1>13. Slots(plan, r, i)
  BY <1>6 DEF Slots
<1> QED BY <1>6, <1>12, <1>13 DEF Follows, r, o

\* The same for a create, whose identity is the one of the handle.
LEMMA AfterCreateTells ==
  ASSUME plan \in DOMAIN Plans, NEW i \in DOMAIN operations, NEW e, Tells(plan, e, i - 1), Slots(plan, e, i),
         operations[i].kind = "create", AfterCreate(e, operations[i]) # NoManifest,
         e[operations[i].path].kind = "missing" => handle.id \in {NoId, CreatedId(i)}
  PROVE  Follows(plan, AfterCreate(e, operations[i]), e, i)
<1> DEFINE o == operations[i]
           a == o.path
           t == ActualOf(plan)[i - 1]
           z == ActualOf(plan)[i]
           r == AfterCreate(e, o)
           y == IF e[a].kind = "missing" THEN CreatedEntry(a) ELSE [e[a] EXCEPT !.digest = <<>>]
           n == IF Exists(t, a) THEN [t[a] EXCEPT !.text = <<>>] ELSE Created(i)
<1>2. Fitting(e, t) /\ TouchedOf[plan] \subseteq DOMAIN e /\ DOMAIN e \ UndoPaths \subseteq TouchedOf[plan]
      /\ \A p \in DOMAIN e \cap UndoPaths : e[p].kind = "directory" => Certified(e[p])
  BY DEF Tells
<1>3. LegalOn(t, o, i) /\ z = StepActual(t, o, i) /\ a \in TouchedOf[plan] /\ t \in Trees /\ i \in DOMAIN UndoName
  BY PlanGood, TouchedFacts DEF operations, Good, Sound
<1>4. a \in Paths /\ a \notin UndoPaths /\ (Exists(t, a) => t[a].kind = "file") /\ a \in DOMAIN e
  BY <1>2, <1>3 DEF LegalOn
<1>5. z = [t EXCEPT ![a] = n]
  BY <1>3 DEF StepActual, CreatedTree
<1>c. e[a].kind # "missing" => o.overwrite
  BY <1>2, <1>3, <1>4 DEF LegalOn, Fitting, Fits, Exists
<1>1. r = [e EXCEPT ![a] = y]
  BY <1>4, <1>c DEF AfterCreate
<1>b. e[a].kind = "missing" => handle.id = CreatedId(i)
  BY DEF AfterCreate
<1>10. Fits(y, n)
  <2> DEFINE x == e[a]  v == t[a]
  <2>1. Fits(x, v) /\ (v.kind = "file" \/ v.kind = "missing")
    BY <1>2, <1>4 DEF Fitting, Exists
  <2>2. v \in Node
    BY <1>3, <1>4, NodeTypes
  <2>3. y = (IF x.kind = "missing" THEN CreatedEntry(a) ELSE [x EXCEPT !.digest = <<>>])
        /\ n = (IF v.kind # "missing" THEN [v EXCEPT !.text = <<>>] ELSE Created(i))
    BY DEF Exists
  <2>4. x.kind = "missing" => handle.id = CreatedId(i)
    BY <1>b
  <2> HIDE DEF x, v, y, n
  <2>5. x = [kind |-> x.kind, id |-> x.id, digest |-> x.digest] /\ x.kind = v.kind /\ x.id = v.id
    BY <2>1 DEF Fits
  <2>6. CASE x.kind = "missing"
    <3>1. y = [kind |-> "file", id |-> CreatedId(i), digest |-> <<>>]
      BY <2>3, <2>4, <2>6 DEF CreatedEntry
    <3>2. n.kind = "file" /\ n.id = CreatedId(i) /\ n.text = <<>>
      BY <1>3, <2>3, <2>5, <2>6, NewNodes
    <3>3. y.kind = "file" /\ y.id = CreatedId(i) /\ y.digest = <<>>
      BY <3>1
    <3> QED BY <3>1, <3>2, <3>3 DEF Fits
  <2>7. CASE x.kind # "missing"
    <3>1. y = [x EXCEPT !.digest = <<>>] /\ n = [v EXCEPT !.text = <<>>] /\ v.kind = "file"
      BY <2>1, <2>3, <2>5, <2>7
    <3>2. y = [kind |-> "file", id |-> x.id, digest |-> <<>>]
      BY <2>5, <3>1
    <3>3. n.kind = "file" /\ n.id = x.id /\ n.text = <<>>
      BY <2>2, <2>5, <3>1 DEF Node
    <3>4. y.kind = "file" /\ y.id = x.id /\ y.digest = <<>>
      BY <3>2
    <3> QED BY <3>2, <3>3, <3>4 DEF Fits
  <2> QED BY <2>6, <2>7
<1> HIDE DEF r, z, t, a, o, y, n
<1>6. DOMAIN r = DOMAIN e /\ r = [p \in DOMAIN r |-> r[p]] /\ \A p \in DOMAIN e : p # a => r[p] = e[p]
  BY <1>1
<1>7. r[a] = y
  BY <1>1, <1>4
<1>8. z[a] = n /\ \A p \in Paths : p # a => z[p] = t[p]
  <2>1. DOMAIN t = Paths
    BY <1>3 DEF Trees
  <2> QED BY <1>4, <1>5, <2>1
<1>11. Fitting(r, z)
  <2>1. DOMAIN e \subseteq Paths /\ \A p \in DOMAIN e : Fits(e[p], t[p])
    BY <1>2 DEF Fitting
  <2>2. ASSUME NEW p \in DOMAIN r PROVE Fits(r[p], z[p])
    <3>1. p \in DOMAIN e /\ p \in Paths
      BY <1>6, <2>1
    <3> QED BY <1>6, <1>7, <1>8, <1>10, <2>1, <3>1
  <2> QED BY <1>6, <2>1, <2>2 DEF Fitting
<1>12. Tells(plan, r, i)
  BY <1>2, <1>4, <1>6, <1>11 DEF Tells, z
<1>13. Slots(plan, r, i)
  BY <1>6 DEF Slots
<1> QED BY <1>6, <1>12, <1>13 DEF Follows, r, o

\* What a manifest of the plan is, for whatever tree.
Manifest(k, m, t) ==
    /\ Fitting(m, t) /\ TouchedOf[k] \subseteq DOMAIN m /\ DOMAIN m \ UndoPaths \subseteq TouchedOf[k]
    /\ \A p \in DOMAIN m \cap UndoPaths : m[p].kind = "directory" => Certified(m[p])

\* A manifest tells of step n when it is one of the tree at step n.
LEMMA TellsIs ==
  ASSUME NEW k, NEW m, NEW n
  PROVE  Tells(k, m, n) <=> Manifest(k, m, ActualOf(k)[n])
BY DEF Tells, Manifest

\* Transferring entries in a manifest of a tree gives a manifest of the moved
\* tree.
LEMMA MoveTells ==
  ASSUME NEW k, NEW m, NEW t, NEW a, NEW b, Manifest(k, m, t), Carries(m, t, a, b), CanTransfer(m, a),
         \/ \A p \in Paths : Under(p, b) => p \in UndoPaths
         \/ \A p \in Paths : Under(p, a) /\ Exists(t, p) => Rebase(p, a, b) \in TouchedOf[k]
  PROVE  Manifest(k, Transfer(m, a, b), RenameTree(t, a, b)) /\ DOMAIN m \subseteq DOMAIN Transfer(m, a, b)
<1> DEFINE r == Transfer(m, a, b)
           z == RenameTree(t, a, b)
<1>1. Fitting(r, z) /\ Carried(r, m, a, b)
  BY TransferFits
<1>2. /\ Fitting(m, t) /\ TouchedOf[k] \subseteq DOMAIN m /\ DOMAIN m \ UndoPaths \subseteq TouchedOf[k]
      /\ \A p \in DOMAIN m \cap UndoPaths : m[p].kind = "directory" => Certified(m[p])
  BY DEF Manifest
<1>3. \A q \in DOMAIN m : Under(q, a) /\ m[q].kind # "missing" =>
         /\ m[q].kind = "directory" => Certified(m[q])
         /\ q \in Paths /\ Exists(t, q)
  BY <1>2 DEF CanTransfer, Fitting, Fits, Exists
<1>4. DOMAIN r \subseteq Paths /\ \A p \in DOMAIN m : p \in Paths
  BY <1>1, <1>2 DEF Fitting
<1>b. MissingEntry.kind = "missing"
  BY DEF MissingEntry
<1> HIDE DEF r, z
<1>5. /\ DOMAIN m \subseteq DOMAIN r
      /\ \A p \in DOMAIN r :
           \/ p \in DOMAIN m /\ r[p] = m[p]
           \/ p \in DOMAIN m /\ Under(p, a) /\ r[p] = MissingEntry
           \/ Under(p, b) /\ \E q \in DOMAIN m : Under(q, a) /\ m[q].kind # "missing" /\ r[p] = m[q] /\ p = Rebase(q, a, b)
  BY <1>1 DEF Carried
<1>6. ASSUME NEW p \in DOMAIN r, p \notin UndoPaths PROVE p \in TouchedOf[k]
  <2>1. CASE p \in DOMAIN m
    BY <1>2, <1>6, <2>1
  <2>2. CASE p \notin DOMAIN m
    <3>1. PICK q \in DOMAIN m : Under(q, a) /\ m[q].kind # "missing" /\ p = Rebase(q, a, b)
      BY <1>5, <2>2
    <3>2. Under(p, b) /\ p \in Paths /\ q \in Paths /\ Exists(t, q)
      BY <1>3, <1>4, <1>5, <2>2, <3>1
    <3> QED BY <1>6, <3>1, <3>2
  <2> QED BY <2>1, <2>2
<1>7. ASSUME NEW p \in DOMAIN r, p \in UndoPaths, r[p].kind = "directory" PROVE Certified(r[p])
  BY <1>2, <1>3, <1>5, <1>7, <1>b
<1>8. Manifest(k, r, z)
  BY <1>1, <1>2, <1>5, <1>6, <1>7 DEF Manifest
<1> QED BY <1>5, <1>8 DEF r, z

\* The proof of a delete tells of the tree after it.
LEMMA AfterDeleteTells ==
  ASSUME plan \in DOMAIN Plans, NEW i \in DOMAIN operations, NEW e, Tells(plan, e, i - 1), Slots(plan, e, i),
         operations[i].kind = "delete", AfterDelete(e, operations[i], i) # NoManifest
  PROVE  Follows(plan, AfterDelete(e, operations[i], i), e, i)
<1> DEFINE o == operations[i]
           a == o.path
           u == Undo(i)
           t == ActualOf(plan)[i - 1]
           z == ActualOf(plan)[i]
           r == AfterDelete(e, o, i)
<1>2. /\ LegalOn(t, o, i) /\ z = StepActual(t, o, i) /\ Good(t, OutcomeOf[plan][i - 1], i - 1) /\ i \in DOMAIN UndoName
      /\ i \in 1..Len(operations)
  BY PlanGood DEF operations
<1>3. /\ a \in Paths /\ a \notin UndoPaths /\ u \in Paths /\ Apart(a, u) /\ \A p \in Paths : Under(p, u) => p \in UndoPaths
      /\ MovesWithin(t, a, u) /\ z = RenameTree(t, a, u)
  BY <1>2, UndoFacts DEF LegalOn, StepActual
<1>4. \A p \in Paths : Under(p, a) /\ Exists(t, p) => p \in TouchedOf[plan]
  BY CoveredMoves DEF operations, Moving
<1>5. Manifest(plan, e, t)
  BY TellsIs
<1>d. e[a].kind # "missing"
  <2>1. a \in TouchedOf[plan] /\ Exists(t, a)
    BY <1>2, TouchedFacts DEF operations, LegalOn
  <2> QED BY <1>5, <2>1 DEF Manifest, Fitting, Fits, Exists
<1>1. r = Transfer(e, a, u) /\ CanTransfer(e, a)
  BY <1>d DEF AfterDelete, AfterMove
<1> HIDE DEF r, t, z
<1>6. Sound(t) /\ \A p \in Paths : Under(p, u) => ~Exists(t, p)
  <2>1. i > i - 1
    BY <1>2
  <2> QED BY <1>2, <2>1 DEF Good
<1>7. Closed(t, a, u)
  BY <1>3, <1>6, ClosedBy DEF Sound
<1>8. Carries(e, t, a, u)
  BY <1>3, <1>4, <1>5, <1>6, <1>7 DEF Carries, Manifest, Sound
<1>9. Manifest(plan, r, z) /\ DOMAIN e \subseteq DOMAIN r
  BY <1>1, <1>3, <1>5, <1>8, MoveTells
<1>10. Tells(plan, r, i)
  BY <1>9, TellsIs DEF z
<1>11. Slots(plan, r, i)
  BY <1>9 DEF Slots
<1> QED BY <1>9, <1>10, <1>11 DEF Follows, r

\* The proof of a rename, both legs, tells of the tree after it.
LEMMA AfterRenameTells ==
  ASSUME plan \in DOMAIN Plans, NEW i \in DOMAIN operations, NEW e, Tells(plan, e, i - 1), Slots(plan, e, i),
         operations[i].kind = "rename", AfterRename(e, operations[i], i) # NoManifest
  PROVE  Follows(plan, AfterRename(e, operations[i], i), e, i)
<1> DEFINE o == operations[i]
           a == o.path
           b == o.new
           u == Undo(i)
           t == ActualOf(plan)[i - 1]
           z == ActualOf(plan)[i]
           s == Aside(t, o, i)
           m == IF e[b].kind = "missing" THEN e ELSE Transfer(e, b, u)
           r == AfterRename(e, o, i)
<1>2. /\ LegalOn(t, o, i) /\ z = StepActual(t, o, i) /\ Good(t, OutcomeOf[plan][i - 1], i - 1) /\ i \in DOMAIN UndoName
      /\ i \in 1..Len(operations)
  BY PlanGood DEF operations
<1>3. /\ a \in Paths /\ a \notin UndoPaths /\ b \in Paths /\ b \notin UndoPaths /\ u \in Paths
      /\ Apart(a, b) /\ Apart(b, u) /\ \A p \in Paths : Under(p, u) => p \in UndoPaths
      /\ MovesWithin(t, a, b) /\ MovesWithin(t, b, u) /\ z = RenameTree(s, a, b)
  BY <1>2, UndoFacts DEF LegalOn, StepActual
<1>4. /\ \A p \in Paths : Under(p, a) /\ Exists(t, p) => p \in TouchedOf[plan]
      /\ \A p \in Paths : Under(p, b) /\ Exists(t, p) => p \in TouchedOf[plan]
      /\ \A p \in Paths : Under(p, a) /\ Exists(t, p) => Rebase(p, a, b) \in TouchedOf[plan]
  BY CoveredMoves DEF operations, Moving
<1>5. Manifest(plan, e, t)
  BY TellsIs
<1>d. b \in DOMAIN e /\ Fits(e[b], t[b])
  <2>1. b \in TouchedOf[plan]
    BY TouchedFacts DEF operations
  <2> QED BY <1>5, <2>1 DEF Manifest, Fitting
<1>o. e[b].kind # "missing" => o.overwrite
  BY <1>2, <1>d DEF LegalOn, Fits, Exists
<1>1. r = Transfer(m, a, b) /\ CanTransfer(m, a) /\ (e[b].kind # "missing" => CanTransfer(e, b))
  BY <1>o DEF AfterMove, AfterRename
<1>e. s = (IF e[b].kind = "missing" THEN t ELSE RenameTree(t, b, u))
  BY <1>d DEF Fits, Exists, Aside
<1>f. Sound(t)
  BY <1>2 DEF Good
<1>w. Way(t, a, b, u, s)
  BY <1>2, <1>f, AsideFacts
<1> HIDE DEF r, t, z, s
<1>6. \A p \in Paths : Under(p, u) => ~Exists(t, p)
  <2>1. i > i - 1
    BY <1>2
  <2> QED BY <1>2, <2>1 DEF Good
<1>7. Manifest(plan, m, s) /\ DOMAIN e \subseteq DOMAIN m
  <2>1. CASE e[b].kind = "missing"
    BY <1>5, <1>e, <2>1
  <2>2. CASE e[b].kind # "missing"
    <3>1. Closed(t, b, u)
      BY <1>3, <1>f, ClosedBy DEF Sound
    <3>2. Carries(e, t, b, u)
      BY <1>3, <1>4, <1>5, <1>6, <1>f, <3>1 DEF Carries, Manifest, Sound
    <3>3. CanTransfer(e, b)
      BY <1>1, <2>2
    <3>4. Manifest(plan, Transfer(e, b, u), RenameTree(t, b, u)) /\ DOMAIN e \subseteq DOMAIN Transfer(e, b, u)
      BY <1>3, <1>5, <3>2, <3>3, MoveTells
    <3> QED BY <1>e, <2>2, <3>4
  <2> QED BY <2>1, <2>2
<1> HIDE DEF m
<1>8. /\ Sound(s) /\ \A p \in Paths : Under(p, b) => ~Exists(s, p)
      /\ \A p \in Paths : Under(p, a) => s[p] = t[p]
  BY <1>w DEF Way
<1>9. Carries(m, s, a, b)
  <2>1. Closed(t, a, b)
    BY <1>3, <1>f, ClosedBy DEF Sound
  <2>2. Closed(s, a, b)
    BY <1>8, <2>1 DEF Closed, Exists
  <2>3. \A p \in Paths : Under(p, a) /\ Exists(s, p) => p \in DOMAIN m
    BY <1>4, <1>7, <1>8 DEF Exists, Manifest
  <2> QED BY <1>3, <1>7, <1>8, <2>2, <2>3 DEF Carries, Manifest, Sound
<1>10. \A p \in Paths : Under(p, a) /\ Exists(s, p) => Rebase(p, a, b) \in TouchedOf[plan]
  BY <1>4, <1>8 DEF Exists
<1>11. \A p \in Paths : Under(p, b) => p \notin UndoPaths
  BY <1>3, Outside
<1>12. Manifest(plan, r, z) /\ DOMAIN m \subseteq DOMAIN r
  BY <1>1, <1>3, <1>7, <1>9, <1>10, <1>11, MoveTells
<1>13. Tells(plan, r, i)
  BY <1>12, TellsIs DEF z
<1>14. Slots(plan, r, i)
  BY <1>7, <1>12 DEF Slots
<1> QED BY <1>7, <1>12, <1>13, <1>14 DEF Follows, r

\* The proof that record_effect computes, for every kind of operation.
LEMMA AfterTells ==
  ASSUME plan \in DOMAIN Plans, NEW i \in DOMAIN operations, NEW e, Tells(plan, e, i - 1), Slots(plan, e, i),
         OperationAfter(e, i) # NoManifest,
         operations[i].kind = "create" /\ e[operations[i].path].kind = "missing" => handle.id \in {NoId, CreatedId(i)}
  PROVE  Follows(plan, OperationAfter(e, i), e, i) /\ Sealed(OperationAfter(e, i))
<1> DEFINE o == operations[i]
<1>0. o.kind \in {"text", "create", "rename", "delete"} /\ i \in 0..Len(Plans[plan].operations)
  <2>1. OpTyped(o)
    BY PlanFacts DEF operations
  <2>2. i \in 1..Len(Plans[plan].operations)
    BY PlanGood DEF operations
  <2> QED BY <2>1, <2>2 DEF OpTyped, OpKinds
<1>1. PICK r : r # NoManifest /\ Follows(plan, r, e, i) /\ OperationAfter(e, i) = Refreshed(r)
  <2>1. CASE o.kind = "text"
    <3>1. AfterText(e, o) # NoManifest /\ OperationAfter(e, i) = Refreshed(AfterText(e, o))
      BY <2>1 DEF OperationAfter
    <3> QED BY <2>1, <3>1, AfterTextTells
  <2>2. CASE o.kind = "create"
    <3>1. AfterCreate(e, o) # NoManifest /\ OperationAfter(e, i) = Refreshed(AfterCreate(e, o))
      BY <2>2 DEF OperationAfter
    <3> QED BY <2>2, <3>1, AfterCreateTells
  <2>3. CASE o.kind = "rename"
    <3>1. AfterRename(e, o, i) # NoManifest /\ OperationAfter(e, i) = Refreshed(AfterRename(e, o, i))
      BY <2>3 DEF OperationAfter
    <3> QED BY <2>3, <3>1, AfterRenameTells
  <2>4. CASE o.kind = "delete"
    <3>1. AfterDelete(e, o, i) # NoManifest /\ OperationAfter(e, i) = Refreshed(AfterDelete(e, o, i))
      BY <2>4 DEF OperationAfter
    <3> QED BY <2>4, <3>1, AfterDeleteTells
  <2> QED BY <1>0, <2>1, <2>2, <2>3, <2>4
<1>2. Tells(plan, r, i) /\ Slots(plan, r, i) /\ DOMAIN e \subseteq DOMAIN r
  BY <1>1 DEF Follows
<1>3. Tells(plan, Refreshed(r), i) /\ Slots(plan, Refreshed(r), i) /\ Sealed(Refreshed(r)) /\ DOMAIN Refreshed(r) = DOMAIN r
  BY <1>0, <1>2, RefreshTells
<1> QED BY <1>1, <1>2, <1>3 DEF Follows

-----------------------------------------------------------------------------
(* The invariant *)

\* The tree of the plan after its first n operations.
Now(n) == ActualOf(plan)[n]

N == Len(operations)

\* Effect i has its proof.
Proved(i) == progress[i].after # NoManifest

\* The steps between the intent of an operation and its proof.
Working == {"retain", "act", "truncate", "write", "rename", "prove"}

\* The tree is one, and every file has an identity.
Real(t) == Sound(t) /\ \A p \in Paths : Exists(t, p) => t[p].id # NoId

TreeInv == Real(tree)

\* Types, as far as the proofs need them.
TypeInv ==
    /\ plan \in DOMAIN Plans /\ at \in Steps /\ number \in 0..N
    /\ raced \in BOOLEAN /\ interrupted \in BOOLEAN /\ writes \in Nat
    /\ handle.text \in Texts

\* The evidence is a sequence of effects, all but the last of them proven.
EffectsInv ==
    /\ progress \in Seq({progress[i] : i \in DOMAIN progress}) /\ Len(progress) <= N
    /\ \A i \in DOMAIN progress : progress[i] = [before |-> progress[i].before, after |-> progress[i].after]
    /\ \A i \in DOMAIN progress : i < Len(progress) => Proved(i)

\* How far the evidence goes at each step.
PlaceInv ==
    /\ at \in {"stage", "abandoned"} => number = 1 /\ progress = <<>> /\ expected = InitialManifest
    /\ at = "check" => Len(progress) = number - 1 /\ ~Pending
    /\ at \in Working => number >= 1 /\ Len(progress) = number /\ ~Proved(number) /\ progress[number].before = expected
    /\ at = "committed" => number = N /\ Len(progress) = N /\ ~Pending
    /\ at \in Undoing => number <= Len(progress) /\ ~Pending
    /\ at \in Undoing \ {"reverse"} => number >= 1

\* The manifest the next effect starts from.
Latest(i) == IF i = 1 THEN InitialManifest ELSE progress[i - 1].after

\* Every entry of m is in w.
Keeps(w, m) == DOMAIN m \subseteq DOMAIN w /\ \A p \in DOMAIN m : w[p] = m[p]

\* Every recorded manifest tells what the files are, whatever strangers do.
RecordInv ==
    /\ \A i \in DOMAIN progress :
          /\ Tells(plan, progress[i].before, i - 1) /\ Slots(plan, progress[i].before, i)
          /\ Keeps(progress[i].before, Latest(i))
          /\ Proved(i) => /\ Tells(plan, progress[i].after, i) /\ Slots(plan, progress[i].after, i)
                          /\ Sealed(progress[i].after)
    /\ at = "check" => expected = Latest(number)

\* The leg of a rename that the rollback is at.
FirstLeg == Operation.kind = "rename" /\ move = [from |-> Operation.new, to |-> Operation.path]
SecondLeg == Operation.kind = "rename" /\ move = [from |-> Undo(number), to |-> Operation.new]
DeleteLeg == Operation.kind = "delete" /\ move = [from |-> Undo(number), to |-> Operation.path]

\* What each step has in hand.
StepInv ==
    /\ at = "truncate" => Operation.kind \in {"text", "create"}
    /\ at = "write" => Operation.kind = "text"
    /\ at = "rename" => Operation.kind = "rename"
    /\ at \in {"truncate", "prove"} /\ Operation.kind = "create" /\ expected[Operation.path].kind = "missing" =>
          handle.id \in {NoId, CreatedId(number)}
    /\ at \in {"undo_truncate", "undo_write", "undo_remove"} => Operation.kind \in {"text", "create"}
    /\ at \in {"leg", "leg_rename"} => FirstLeg \/ SecondLeg \/ DeleteLeg

\* No file has an identity that is still to be given.
Ahead(j) ==
    \/ at \in {"stage", "check", "retain", "act"} /\ j >= number
    \/ at \in {"truncate", "write", "rename", "prove"} /\ j > number

FreshInv == \A j \in DOMAIN UndoName, p \in Paths : Ahead(j) => tree[p].id # CreatedId(j)

\* verify_manifest succeeds on the tree t.
HoldsIn(t, m) ==
    /\ \A p \in DOMAIN m, q \in Paths : Below(p, q) => t[q].kind # "file"
    /\ \A p \in DOMAIN m : Entry(t, p, Certified(m[p])) = m[p]

\* No stranger wrote and no rollback failed or was stopped half-way.
Calm == writes = 0 /\ ~interrupted

\* An operation that writes: the file it has open.
Open(n, text) ==
    /\ Now(n)[Operation.path].kind = "file" /\ Now(n)[Operation.path].id = handle.id
    /\ handle.text = text

Emptied(n) == TextTree(Now(n), Operation.path, <<>>)

\* The files themselves, with no stranger and no rollback stopped half-way.
ExactTree ==
    /\ at \in {"stage", "check", "retain", "act"} => tree = Now(number - 1)
    /\ at = "truncate" =>
          tree = Now(number - 1) /\ Open(number - 1, IF Operation.kind = "text" THEN Operation.after ELSE <<>>)
    /\ at = "write" => tree = Emptied(number - 1) /\ Open(number - 1, Operation.after)
    /\ at = "rename" => tree = Aside(Now(number - 1), Operation, number)
    /\ at = "prove" => tree = Now(number)
    /\ at \in {"undo", "crashed", "refused"} /\ ~Pending => tree = Now(Len(progress))
    /\ at = "refused" => Pending
    /\ at = "reverse" => tree = Now(number)
    /\ at = "undo_truncate" => tree = Now(number) /\ Open(number, Now(number - 1)[Operation.path].text)
    /\ at = "undo_write" => tree = Emptied(number) /\ Open(number, Now(number - 1)[Operation.path].text)
    /\ at = "undo_remove" => tree = Now(number)
    /\ at \in {"undo_truncate", "undo_write"} => Now(number - 1)[Operation.path].kind = "file"
    /\ at = "undo_remove" => ~Exists(Now(number - 1), Operation.path)
    /\ at \in {"leg", "leg_rename"} =>
          \/ FirstLeg /\ tree = Now(number)
          \/ SecondLeg /\ Exists(Now(number - 1), Operation.new) /\ tree = Aside(Now(number - 1), Operation, number)
          \/ DeleteLeg /\ tree = Now(number)
    /\ at = "undo_verify" => tree = Now(number - 1)

\* The backup has the texts of the disk.
BackupExact == at \notin {"stage", "abandoned"} => backup = [p \in Touched |-> disk[p].text]

\* Each recorded manifest holds of the plan's own tree at its place.
RecordsExact ==
    \A i \in DOMAIN progress :
        /\ HoldsIn(Now(i - 1), progress[i].before)
        /\ Proved(i) => HoldsIn(Now(i), progress[i].after)

Exact == BackupExact /\ RecordsExact /\ ExactTree

ExactInv == Calm => Exact

\* The inductive invariant.
Inv == TypeInv /\ TreeInv /\ EffectsInv /\ PlaceInv /\ RecordInv /\ StepInv /\ FreshInv /\ ExactInv

\* A sequence is one over its own elements.
LEMMA OwnSeq ==
  ASSUME NEW S, NEW s \in Seq(S)
  PROVE  /\ s \in Seq({s[i] : i \in DOMAIN s}) /\ Len(s) \in Nat /\ DOMAIN s = 1..Len(s)
<1>1. Len(s) \in Nat /\ DOMAIN s = 1..Len(s) /\ s = [i \in 1..Len(s) |-> s[i]]
  OBVIOUS
<1>2. \A i \in 1..Len(s) : s[i] \in {s[j] : j \in DOMAIN s}
  BY <1>1
<1>3. s \in [1..Len(s) -> {s[i] : i \in DOMAIN s}]
  BY <1>1, <1>2
<1> QED BY <1>1, <1>3

\* What appending does, and ...
LEMMA Grows ==
  ASSUME NEW S, NEW s \in Seq(S), NEW e, NEW r, r = Append(s, e)
  PROVE  /\ r \in Seq({r[i] : i \in DOMAIN r}) /\ Len(r) = Len(s) + 1 /\ DOMAIN r = 1..Len(s) + 1
         /\ \A i \in 1..Len(s) : r[i] = s[i]
         /\ r[Len(s) + 1] = e
<1>1. s \in Seq(S \cup {e})
  <2>1. S \subseteq S \cup {e}
    OBVIOUS
  <2> QED BY <2>1
<1>2. /\ r \in Seq(S \cup {e}) /\ Len(r) = Len(s) + 1 /\ \A i \in 1..Len(s) : r[i] = s[i]
      /\ r[Len(s) + 1] = e
  <2>1. e \in S \cup {e}
    OBVIOUS
  <2> QED BY <1>1, <2>1, AppendProperties
<1> QED BY <1>2, OwnSeq

Put(s, n, e) == [s EXCEPT ![n] = e]

\* ... what replacing an element does.
LEMMA Changes ==
  ASSUME NEW S, NEW s \in Seq(S), NEW n \in 1..Len(s), NEW e, NEW r, r = Put(s, n, e)
  PROVE  /\ r \in Seq({r[i] : i \in DOMAIN r}) /\ Len(r) = Len(s) /\ DOMAIN r = 1..Len(s)
         /\ \A i \in 1..Len(s) : i # n => r[i] = s[i]
         /\ r[n] = e
<1>1. s \in Seq(S \cup {e})
  <2>1. S \subseteq S \cup {e}
    OBVIOUS
  <2> QED BY <2>1
<1>2. /\ r \in Seq(S \cup {e}) /\ Len(r) = Len(s) /\ \A j \in 1..Len(s) : r[j] = IF j = n THEN e ELSE s[j]
  <2>1. e \in S \cup {e}
    OBVIOUS
  <2> QED BY <1>1, <2>1, ExceptSeq DEF Put
<1>3. \A i \in 1..Len(s) : i # n => r[i] = s[i]
  BY <1>2
<1>4. r[n] = e /\ Len(r) = Len(s)
  BY <1>2
<1>5. r \in Seq({r[i] : i \in DOMAIN r}) /\ DOMAIN r = 1..Len(r)
  <2> DEFINE T == S \cup {e}
  <2>1. r \in Seq(T)
    BY <1>2
  <2> HIDE DEF T
  <2> QED BY ONLY <2>1, OwnSeq
<1> QED BY <1>3, <1>4, <1>5

\* Within a run the plan stays and all that is read off it.
LEMMA SamePlan ==
  ASSUME plan' = plan
  PROVE  /\ operations' = operations /\ N' = N /\ disk' = disk /\ Touched' = Touched /\ InitialManifest' = InitialManifest
         /\ \A n : Now(n)' = Now(n) /\ Outcome(n)' = Outcome(n)
BY DEF operations, N, disk, Touched, InitialManifest, Now, Outcome

\* The records are the same when nothing was recorded.
LEMMA SameEvidence ==
  ASSUME plan' = plan, progress' = progress
  PROVE  /\ Pending' <=> Pending
         /\ \A i : (Proved(i)' <=> Proved(i)) /\ Latest(i)' = Latest(i)
<1>1. InitialManifest' = InitialManifest
  BY SamePlan
<1> QED BY <1>1 DEF Pending, Proved, Latest

\* The operation at work is the same when the place in the plan is.
LEMMA SameOperation ==
  ASSUME plan' = plan, number' = number
  PROVE  Operation' = Operation
BY SamePlan DEF Operation

\* The plan and its operations.
LEMMA PlanSize ==
  ASSUME plan \in DOMAIN Plans
  PROVE  /\ N \in Nat /\ N >= 1 /\ DOMAIN operations = 1..N
         /\ \A i \in 1..N : /\ operations[i].kind \in OpKinds /\ (operations[i].kind = "text" => operations[i].after \in Texts)
                            /\ operations[i].path \in Paths /\ i \in DOMAIN UndoName
<1>1. /\ Len(operations) \in Nat /\ DOMAIN operations = 1..Len(operations) /\ Len(operations) >= 1
      /\ DOMAIN operations \subseteq DOMAIN UndoName
      /\ \A i \in DOMAIN operations : OpTyped(operations[i]) /\ operations[i].path \in Paths
  BY PlanFacts DEF operations
<1> QED BY <1>1 DEF N, OpTyped

\* Records are pending when the last has no proof; all the earlier ones have
\* theirs.
LEMMA PendingIs ==
  ASSUME EffectsInv
  PROVE  /\ Pending <=> Len(progress) >= 1 /\ ~Proved(Len(progress))
         /\ Len(progress) \in Nat /\ DOMAIN progress = 1..Len(progress)
         /\ ~Pending => \A i \in DOMAIN progress : Proved(i)
<1>1. Len(progress) \in Nat /\ DOMAIN progress = 1..Len(progress)
  BY OwnSeq DEF EffectsInv
<1>2. \A i \in DOMAIN progress : i < Len(progress) => Proved(i)
  BY DEF EffectsInv
<1> QED BY <1>1, <1>2 DEF Pending, Proved

\* The intent of operation i = Len(progress) + 1 is written down.
LEMMA IntentFacts ==
  ASSUME EffectsInv, plan' = plan, NEW m, progress' = Intended(m), ~Pending, NEW n, n = Len(progress) + 1, n <= N
  PROVE  /\ EffectsInv' /\ Len(progress') = n /\ DOMAIN progress' = 1..n
         /\ \A i \in DOMAIN progress : progress'[i] = progress[i]
         /\ progress'[n] = [before |-> m, after |-> NoManifest]
         /\ \A i \in DOMAIN progress' : i # n => i \in DOMAIN progress
         /\ ~Proved(n)' /\ Pending'
         /\ \A i \in DOMAIN progress : Proved(i)' <=> Proved(i)
<1> DEFINE r == progress'
           e == [before |-> m, after |-> NoManifest]
<1>1. r = Append(progress, e)
  BY DEF Intended
<1>2. Len(progress) \in Nat /\ DOMAIN progress = 1..Len(progress) /\ \A i \in DOMAIN progress : Proved(i)
  BY PendingIs
<1>3. progress \in Seq({progress[i] : i \in DOMAIN progress})
  BY DEF EffectsInv
<1>4. N' = N
  BY SamePlan
<1>5. e = [before |-> e.before, after |-> e.after] /\ e.after = NoManifest
  OBVIOUS
<1> HIDE DEF e
<1>6. /\ r \in Seq({r[i] : i \in DOMAIN r}) /\ Len(r) = n /\ DOMAIN r = 1..n
      /\ \A i \in 1..Len(progress) : r[i] = progress[i]
      /\ r[n] = e
  BY <1>1, <1>3, Grows
<1>7. \A i \in DOMAIN r : i = n \/ (i \in DOMAIN progress /\ r[i] = progress[i])
  BY <1>2, <1>6
<1>8. \A i \in DOMAIN progress : Proved(i)' <=> Proved(i)
  BY <1>2, <1>6 DEF Proved
<1>9. ~Proved(n)'
  BY <1>2, <1>5, <1>6 DEF Proved
<1>10. n \in DOMAIN r /\ n \in Nat
  BY <1>2, <1>6
<1>11. Pending'
  BY <1>9, <1>10 DEF Pending, Proved
<1>12. EffectsInv'
  <2>1. \A i \in DOMAIN r : r[i] = [before |-> r[i].before, after |-> r[i].after]
    BY <1>5, <1>6, <1>7 DEF EffectsInv
  <2>2. \A i \in DOMAIN r : i < Len(r) => Proved(i)'
    BY <1>2, <1>6, <1>7, <1>8
  <2>3. Len(r) <= N'
    BY <1>2, <1>4, <1>6, PlanSize DEF N
  <2> QED BY <1>6, <2>1, <2>2, <2>3 DEF EffectsInv
<1> QED BY <1>2, <1>6, <1>7, <1>8, <1>9, <1>11, <1>12 DEF e

\* The last effect is proven.
LEMMA ProofFacts ==
  ASSUME EffectsInv, plan' = plan, NEW m, progress' = Proven(m), m # NoManifest,
         NEW n, n = number, n >= 1, Len(progress) = n
  PROVE  /\ EffectsInv' /\ Len(progress') = Len(progress) /\ DOMAIN progress' = DOMAIN progress
         /\ \A i \in DOMAIN progress : i # n => progress'[i] = progress[i]
         /\ progress'[n] = [before |-> progress[n].before, after |-> m]
         /\ \A i \in DOMAIN progress : progress'[i].before = progress[i].before
         /\ ~Pending' /\ \A i \in DOMAIN progress : Proved(i)'
<1> DEFINE r == progress'
           e == [progress[n] EXCEPT !.after = m]
<1>1. Len(progress) \in Nat /\ DOMAIN progress = 1..Len(progress) /\ n \in 1..Len(progress)
  BY PendingIs
<1>2. r = Put(progress, n, e)
  BY DEF Proven, Put
<1>3. progress[n] = [before |-> progress[n].before, after |-> progress[n].after]
  BY <1>1 DEF EffectsInv
<1>4. e = [before |-> progress[n].before, after |-> m]
  BY <1>3
<1>5. e = [before |-> e.before, after |-> e.after] /\ e.after = m /\ e.before = progress[n].before
  BY <1>4
<1> HIDE DEF e
<1>6. progress \in Seq({progress[i] : i \in DOMAIN progress})
  BY DEF EffectsInv
<1> HIDE DEF r
<1>7. /\ r \in Seq({r[i] : i \in DOMAIN r}) /\ Len(r) = Len(progress) /\ DOMAIN r = 1..Len(progress)
      /\ \A i \in 1..Len(progress) : i # n => r[i] = progress[i]
      /\ r[n] = e
  <2> DEFINE S == {progress[i] : i \in DOMAIN progress}
  <2>1. progress \in Seq(S)
    BY <1>6
  <2> HIDE DEF S
  <2> QED BY ONLY <1>1, <1>2, <2>1, Changes
<1> USE DEF r
<1>8. \A i \in DOMAIN progress : Proved(i)'
  <2>1. \A i \in DOMAIN progress : i # n => Proved(i)
    BY <1>1 DEF EffectsInv
  <2> QED BY <1>1, <1>5, <1>7, <2>1 DEF Proved
<1>9. ~Pending'
  BY <1>1, <1>7, <1>8 DEF Pending, Proved
<1>10. EffectsInv'
  <2>1. \A i \in DOMAIN r : r[i] = [before |-> r[i].before, after |-> r[i].after]
    BY <1>1, <1>5, <1>7 DEF EffectsInv
  <2>2. Len(r) <= N'
    BY <1>7, SamePlan DEF EffectsInv
  <2> QED BY <1>1, <1>7, <1>8, <2>1, <2>2 DEF EffectsInv
<1> QED BY <1>1, <1>4, <1>5, <1>7, <1>8, <1>9, <1>10

-----------------------------------------------------------------------------
(* The records *)

\* What the evidence says before step i is true of the plan's tree there.
LEMMA LatestTells ==
  ASSUME plan \in DOMAIN Plans, EffectsInv, RecordInv, NEW i \in 1..Len(progress) + 1, i > 1 => Proved(i - 1)
  PROVE  Tells(plan, Latest(i), i - 1) /\ Slots(plan, Latest(i), i - 1)
<1>0. Len(progress) \in Nat /\ DOMAIN progress = 1..Len(progress)
  BY PendingIs
<1>1. CASE i = 1
  <2>1. Tells(plan, InitialManifest, 0) /\ Slots(plan, InitialManifest, 0)
    BY InitialTells DEF InitialManifest
  <2> QED BY <1>1, <2>1 DEF Latest
<1>2. CASE i > 1
  <2>1. i - 1 \in DOMAIN progress /\ Proved(i - 1) /\ Latest(i) = progress[i - 1].after
    BY <1>0, <1>2 DEF Latest
  <2> QED BY <2>1 DEF RecordInv
<1> QED BY <1>0, <1>1, <1>2

\* A step that records nothing keeps RecordInv.
LEMMA RecordStays ==
  ASSUME RecordInv, plan' = plan, progress' = progress,
         at' # "check" \/ (at' = at /\ number' = number /\ expected' = expected)
  PROVE  RecordInv'
<1>1. /\ \A i \in DOMAIN progress :
            /\ Tells(plan', progress'[i].before, i - 1) /\ Slots(plan', progress'[i].before, i)
            /\ Keeps(progress'[i].before, Latest(i)')
            /\ Proved(i)' => /\ Tells(plan', progress'[i].after, i) /\ Slots(plan', progress'[i].after, i)
                             /\ Sealed(progress'[i].after)
  BY SameEvidence DEF RecordInv
<1>2. at' = "check" => expected' = Latest(number)'
  <2> SUFFICES ASSUME at' = "check" PROVE expected' = Latest(number)'
    OBVIOUS
  <2>1. expected' = Latest(number) /\ number' = number
    BY DEF RecordInv
  <2>2. Latest(number)' = (IF number' = 1 THEN InitialManifest' ELSE progress'[number' - 1].after)
    BY DEF Latest
  <2>3. Latest(number)' = Latest(number)
    BY <2>1, <2>2, SamePlan DEF Latest
  <2> QED BY <2>1, <2>3
<1> QED BY <1>1, <1>2 DEF RecordInv

\* Recording an intent (retain_effect) keeps it.
LEMMA RecordIntent ==
  ASSUME plan \in DOMAIN Plans, EffectsInv, PlaceInv, RecordInv, at = "check", plan' = plan,
         NEW n \in 1..N, n = number, progress' = Intended(WithUndo(expected, n)), at' # "check"
  PROVE  RecordInv' /\ Slotted(plan, WithUndo(expected, n), expected, n)
<1> DEFINE w == WithUndo(expected, n)
<1>1. Len(progress) = n - 1 /\ ~Pending /\ expected = Latest(n)
  BY DEF PlaceInv, RecordInv
<1>2. Len(progress) \in Nat /\ DOMAIN progress = 1..Len(progress) /\ \A i \in DOMAIN progress : Proved(i)
  BY <1>1, PendingIs
<1>3. n \in DOMAIN operations /\ n \in Nat /\ N \in Nat
  BY PlanSize
<1>4. Tells(plan, expected, n - 1) /\ Slots(plan, expected, n - 1)
  <2>1. n \in 1..Len(progress) + 1 /\ (n > 1 => n - 1 \in DOMAIN progress)
    BY <1>1, <1>2
  <2>2. n > 1 => Proved(n - 1)
    BY <1>2, <2>1
  <2> QED BY <1>1, <2>1, <2>2, LatestTells
<1>5. Slotted(plan, w, expected, n)
  BY <1>3, <1>4, WithUndoTells
<1> HIDE DEF w
<1>6. /\ DOMAIN progress' = 1..n
      /\ \A i \in DOMAIN progress : progress'[i] = progress[i]
      /\ progress'[n] = [before |-> w, after |-> NoManifest]
      /\ \A i \in DOMAIN progress' : i # n => i \in DOMAIN progress
      /\ ~Proved(n)'
      /\ \A i \in DOMAIN progress : Proved(i)' <=> Proved(i)
  <2>1. n = Len(progress) + 1 /\ n <= N
    BY <1>1, <1>2, <1>3
  <2>2. progress' = Intended(w)
    BY DEF w
  <2> QED BY <1>1, <2>1, <2>2, IntentFacts
<1>7. \A i \in DOMAIN progress' : Latest(i)' = Latest(i)
  <2>1. InitialManifest' = InitialManifest
    BY SamePlan
  <2>2. \A i \in DOMAIN progress' : i = 1 \/ i - 1 \in DOMAIN progress
    BY <1>1, <1>2, <1>6
  <2> QED BY <1>6, <2>1, <2>2 DEF Latest
<1>8. Tells(plan, w, n - 1) /\ Slots(plan, w, n) /\ Keeps(w, Latest(n))
  BY <1>1, <1>5 DEF Slotted, Keeps
<1>9. ASSUME NEW i \in DOMAIN progress'
      PROVE  /\ Tells(plan', progress'[i].before, i - 1) /\ Slots(plan', progress'[i].before, i)
             /\ Keeps(progress'[i].before, Latest(i)')
             /\ Proved(i)' => /\ Tells(plan', progress'[i].after, i) /\ Slots(plan', progress'[i].after, i)
                              /\ Sealed(progress'[i].after)
  <2>1. CASE i = n
    <3>1. progress'[i].before = w
      BY <1>6, <2>1
    <3> QED BY <1>6, <1>7, <1>8, <2>1, <3>1
  <2>2. CASE i # n
    <3>1. i \in DOMAIN progress /\ progress'[i] = progress[i] /\ Latest(i)' = Latest(i) /\ (Proved(i)' <=> Proved(i))
      BY <1>6, <1>7, <2>2
    <3> QED BY <3>1 DEF RecordInv
  <2> QED BY <2>1, <2>2
<1> QED BY <1>5, <1>9 DEF RecordInv, w

\* Recording a proof (record_effect) keeps it.
LEMMA RecordProof ==
  ASSUME plan \in DOMAIN Plans, EffectsInv, PlaceInv, RecordInv, StepInv, at = "prove", plan' = plan,
         NEW n \in 1..N, n = number,
         OperationAfter(expected, n) # NoManifest, progress' = Proven(OperationAfter(expected, n)),
         at' = "check" => expected' = OperationAfter(expected, n) /\ number' = n + 1
  PROVE  /\ RecordInv'
         /\ Follows(plan, OperationAfter(expected, n), expected, n) /\ Sealed(OperationAfter(expected, n))
<1> DEFINE r == OperationAfter(expected, n)
<1>1. Len(progress) = n /\ progress[n].before = expected
  BY DEF PlaceInv, Working
<1>2. Len(progress) \in Nat /\ DOMAIN progress = 1..Len(progress) /\ n \in DOMAIN progress
  BY <1>1, PendingIs
<1>3. n \in DOMAIN operations /\ n \in Nat /\ N \in Nat
  BY PlanSize
<1>4. Tells(plan, expected, n - 1) /\ Slots(plan, expected, n)
  BY <1>1, <1>2 DEF RecordInv
<1>5. operations[n].kind = "create" /\ expected[operations[n].path].kind = "missing" => handle.id \in {NoId, CreatedId(n)}
  BY DEF StepInv, Operation
<1>6. Follows(plan, r, expected, n) /\ Sealed(r)
  BY <1>3, <1>4, <1>5, AfterTells
<1>7. progress' = Proven(r) /\ r # NoManifest
  OBVIOUS
<1>h. at' = "check" => expected' = r /\ number' = n + 1
  OBVIOUS
<1> HIDE DEF r
<1>8. /\ DOMAIN progress' = DOMAIN progress
      /\ \A i \in DOMAIN progress : i # n => progress'[i] = progress[i]
      /\ progress'[n] = [before |-> progress[n].before, after |-> r]
      /\ \A i \in DOMAIN progress : progress'[i].before = progress[i].before
      /\ \A i \in DOMAIN progress : Proved(i)'
  BY <1>1, <1>7, ProofFacts
<1>9. \A i \in DOMAIN progress : Latest(i)' = Latest(i)
  <2>1. InitialManifest' = InitialManifest
    BY SamePlan
  <2>2. \A i \in DOMAIN progress : i = 1 \/ (i - 1 \in DOMAIN progress /\ i - 1 # n)
    BY <1>1, <1>2
  <2> QED BY <1>8, <2>1, <2>2 DEF Latest
<1>10. progress'[n].after = r
  BY <1>8
<1>11. \A i \in DOMAIN progress : i # n => Proved(i)
  BY <1>1, <1>2 DEF EffectsInv
<1>12. ASSUME NEW i \in DOMAIN progress'
      PROVE  /\ Tells(plan', progress'[i].before, i - 1) /\ Slots(plan', progress'[i].before, i)
             /\ Keeps(progress'[i].before, Latest(i)')
             /\ Proved(i)' => /\ Tells(plan', progress'[i].after, i) /\ Slots(plan', progress'[i].after, i)
                              /\ Sealed(progress'[i].after)
  <2>1. i \in DOMAIN progress
    BY <1>8
  <2>2. Tells(plan', progress'[i].before, i - 1) /\ Slots(plan', progress'[i].before, i) /\ Keeps(progress'[i].before, Latest(i)')
    BY <1>8, <1>9, <2>1 DEF RecordInv
  <2>3. CASE i = n
    BY <1>6, <1>10, <2>2, <2>3 DEF Follows
  <2>4. CASE i # n
    BY <1>8, <1>11, <2>1, <2>2, <2>4 DEF RecordInv
  <2> QED BY <2>3, <2>4
<1>13. at' = "check" => expected' = Latest(number)'
  <2> SUFFICES ASSUME at' = "check" PROVE expected' = Latest(number)'
    OBVIOUS
  <2>1. expected' = r /\ number' = n + 1
    BY <1>h
  <2> QED BY <1>3, <1>10, <2>1 DEF Latest
<1> QED BY <1>6, <1>12, <1>13 DEF RecordInv, r

-----------------------------------------------------------------------------
(* The control of the process *)

\* The part of the invariant that no tree of files enters.
Control == TypeInv /\ EffectsInv /\ PlaceInv /\ RecordInv /\ StepInv

\* Where no operation and no reversal is half done.
Resting == {"undo", "refused", "crashed", "restored", "accepted", "clean", "accepted_clean"}

\* A step that records nothing keeps EffectsInv.
LEMMA EffectsStay ==
  ASSUME EffectsInv, plan' = plan, progress' = progress
  PROVE  EffectsInv'
BY SamePlan, SameEvidence DEF EffectsInv

\* Control, for the steps that end in a resting place, ...
LEMMA ToRest ==
  ASSUME Control, TypeInv', plan' = plan, progress' = progress, at' \in Resting
  PROVE  Control'
<1>1. EffectsInv' /\ RecordInv'
  BY EffectsStay, RecordStays DEF Control, Resting
<1>2. PlaceInv'
  BY DEF PlaceInv, Resting, Working, Undoing
<1>3. StepInv'
  BY DEF StepInv, Resting
<1> QED BY <1>1, <1>2, <1>3 DEF Control

\* ... for those that go on within one operation, ...
LEMMA ToWorking ==
  ASSUME Control, TypeInv', StepInv', plan' = plan, progress' = progress, at \in Working, at' \in Working,
         number' = number, expected' = expected
  PROVE  Control'
<1>1. EffectsInv' /\ RecordInv'
  BY EffectsStay, RecordStays DEF Control, Working
<1>2. PlaceInv'
  <2>1. number >= 1 /\ Len(progress) = number /\ ~Proved(number) /\ progress[number].before = expected
    BY DEF Control, PlaceInv
  <2>2. ~Proved(number)'
    BY <2>1 DEF Proved
  <2> QED BY <2>1, <2>2 DEF PlaceInv, Working, Undoing
<1> QED BY <1>1, <1>2 DEF Control

\* ... and for those of a rollback.
LEMMA ToUndoing ==
  ASSUME Control, TypeInv', StepInv', plan' = plan, progress' = progress, at' \in Undoing, ~Pending,
         number' <= Len(progress), at' # "reverse" => number' >= 1
  PROVE  Control'
<1>1. EffectsInv' /\ RecordInv'
  BY EffectsStay, RecordStays DEF Control, Undoing
<1>2. PlaceInv'
  <2>1. ~Pending'
    BY SameEvidence
  <2> QED BY <2>1 DEF PlaceInv, Working, Undoing
<1> QED BY <1>1, <1>2 DEF Control

\* What an effect that is under way has to do with the plan.
LEMMA AtWork ==
  ASSUME Control
  PROVE  /\ plan \in DOMAIN Plans /\ N \in Nat /\ number \in 0..N /\ NoHandle.text \in Texts
         /\ at \in Working \cup {"check", "stage"} => number \in 1..N /\ number \in DOMAIN operations
         /\ at \in Undoing \ {"reverse"} => number \in 1..N /\ number \in DOMAIN operations /\ number \in DOMAIN progress
         /\ at = "reverse" /\ number > 0 => number \in 1..N /\ number \in DOMAIN operations /\ number \in DOMAIN progress
         /\ at \in Working => Pending
         /\ at \in Undoing => ~Pending
<1>1. plan \in DOMAIN Plans /\ number \in 0..N /\ EffectsInv /\ PlaceInv
  BY DEF Control, TypeInv
<1>2. N \in Nat /\ DOMAIN operations = 1..N
  BY <1>1, PlanSize
<1>3. Len(progress) \in Nat /\ DOMAIN progress = 1..Len(progress)
  BY <1>1, PendingIs
<1>4. NoHandle.text \in Texts
  BY DEF NoHandle, Texts
<1>5. at \in Working => number >= 1 /\ number \in DOMAIN progress /\ ~Proved(number)
  BY <1>1, <1>2, <1>3 DEF PlaceInv
<1>6. at \in Working => Pending
  BY <1>5 DEF Pending, Proved
<1>7. at \in {"check", "stage"} => number >= 1
  <2>1. at = "check" => Len(progress) = number - 1
    BY <1>1 DEF PlaceInv
  <2>2. at = "stage" => number = 1
    BY <1>1 DEF PlaceInv
  <2> QED BY <1>1, <1>2, <1>3, <2>1, <2>2
<1>8. at \in Undoing => number <= Len(progress) /\ ~Pending
  BY <1>1 DEF PlaceInv
<1>9. at \in Undoing \ {"reverse"} => number >= 1
  BY <1>1 DEF PlaceInv
<1>10. "reverse" \in Undoing
  BY DEF Undoing
<1> QED BY <1>1, <1>2, <1>3, <1>4, <1>5, <1>6, <1>7, <1>8, <1>9, <1>10

\* The failure of an operation.
LEMMA ControlAbort ==
  ASSUME Control, Keep, Abort
  PROVE  Control'
<1>1. TypeInv'
  BY AtWork, SamePlan DEF Control, TypeInv, Keep, Abort, GoTo, Steps
<1> QED BY <1>1, ToRest DEF Keep, Abort, GoTo, Resting

\* Control, at the start and for each action.
LEMMA ControlInit ==
  ASSUME Init
  PROVE  Control
<1>1. plan \in DOMAIN Plans /\ number = 1 /\ progress = <<>> /\ at = "stage" /\ expected = InitialManifest /\ handle = NoHandle
  BY DEF Init
<1>2. N \in Nat /\ N >= 1
  BY <1>1, PlanSize
<1>3. TypeInv
  <2>1. handle.text \in Texts
    BY <1>1 DEF NoHandle, Texts
  <2>2. number \in 0..N /\ writes = 0 /\ raced = FALSE /\ interrupted = FALSE
    BY <1>1, <1>2 DEF Init
  <2> QED BY <1>1, <2>1, <2>2 DEF TypeInv, Steps
<1>4. DOMAIN progress = {} /\ Len(progress) = 0 /\ progress \in Seq({progress[i] : i \in DOMAIN progress})
  BY <1>1
<1>5. EffectsInv
  BY <1>2, <1>4 DEF EffectsInv
<1>6. PlaceInv
  BY <1>1 DEF PlaceInv, Working, Undoing
<1>7. RecordInv
  BY <1>1, <1>4 DEF RecordInv
<1>8. StepInv
  BY <1>1 DEF StepInv
<1> QED BY <1>3, <1>5, <1>6, <1>7, <1>8 DEF Control

\* Stage keeps the control.
LEMMA ControlStage ==
  ASSUME Control, Stage
  PROVE  Control'
<1>1. /\ at = "stage" /\ Keep /\ at' \in {"check", "abandoned"}
      /\ progress' = progress /\ expected' = expected /\ number' = number /\ handle' = handle
  BY DEF Stage, GoTo
<1>2. plan' = plan /\ number = 1 /\ progress = <<>> /\ expected = InitialManifest
  BY <1>1 DEF Keep, Control, PlaceInv
<1>3. TypeInv'
  BY <1>1, SamePlan DEF Control, TypeInv, Keep, Steps, Committing
<1>4. EffectsInv'
  BY <1>1, <1>2, EffectsStay DEF Control
<1>5. PlaceInv'
  <2>1. ~Pending'
    BY <1>1, <1>2 DEF Pending
  <2>2. InitialManifest' = InitialManifest
    BY <1>2, SamePlan
  <2> QED BY <1>1, <1>2, <2>1, <2>2 DEF PlaceInv, Working, Undoing
<1>6. RecordInv'
  <2>1. DOMAIN progress' = {}
    BY <1>1, <1>2
  <2>2. expected' = Latest(number)'
    BY <1>1, <1>2, SamePlan DEF Latest
  <2> QED BY <2>1, <2>2 DEF RecordInv
<1>7. StepInv'
  BY <1>1 DEF StepInv
<1> QED BY <1>3, <1>4, <1>5, <1>6, <1>7 DEF Control

\* Check keeps the control.
LEMMA ControlCheck ==
  ASSUME Control, Check
  PROVE  Control'
<1>1. at = "check" /\ Keep
  BY DEF Check
<1>2. CASE Abort
  BY <1>1, <1>2, ControlAbort
<1>3. CASE ~Abort
  <2>1. /\ expected' = WithUndo(expected, number) /\ progress' = Intended(WithUndo(expected, number))
        /\ at' = "retain" /\ number' = number /\ handle' = handle
    BY <1>3 DEF Check, GoTo
  <2>2. plan' = plan /\ number \in 1..N /\ Len(progress) = number - 1 /\ ~Pending
    BY <1>1, AtWork DEF Keep, Control, PlaceInv
  <2>3. TypeInv'
    BY <1>1, <2>1, SamePlan DEF Control, TypeInv, Keep, Steps, Committing
  <2> DEFINE w == WithUndo(expected, number)
  <2>4. PICK n \in 1..N : n = number
    BY <2>2
  <2>5. RecordInv'
    BY <1>1, <2>1, <2>2, <2>4, RecordIntent DEF Control, TypeInv
  <2>6. /\ EffectsInv' /\ Len(progress') = n /\ progress'[n] = [before |-> w, after |-> NoManifest] /\ ~Proved(n)'
    <3> HIDE DEF w
    <3>1. progress' = Intended(w) /\ n = Len(progress) + 1 /\ n <= N
      <4>1. N \in Nat
        BY AtWork
      <4>2. Len(progress) \in Nat
        BY PendingIs DEF Control
      <4> QED BY <2>1, <2>2, <2>4, <4>1, <4>2 DEF w
    <3> QED BY <2>2, <3>1, IntentFacts DEF Control
  <2>7. PlaceInv'
    <3>1. number' = n /\ n >= 1 /\ progress'[n].before = expected' /\ ~Proved(number)'
      <4>1. ~Proved(number)'
        BY <2>1, <2>4, <2>6 DEF Proved
      <4> QED BY <2>1, <2>4, <2>6, <4>1
    <3> QED BY <2>1, <2>6, <3>1 DEF PlaceInv, Working, Undoing
  <2>8. StepInv'
    BY <2>1 DEF StepInv
  <2> QED BY <2>3, <2>5, <2>6, <2>7, <2>8 DEF Control
<1> QED BY <1>2, <1>3

\* Retain keeps the control.
LEMMA ControlRetain ==
  ASSUME Control, Retain
  PROVE  Control'
<1>1. at = "retain" /\ Keep
  BY DEF Retain
<1>2. CASE Abort
  BY <1>1, <1>2, ControlAbort
<1>3. CASE ~Abort
  <2>1. at' = "act" /\ progress' = progress /\ expected' = expected /\ number' = number /\ handle' = handle
    BY <1>3 DEF Retain, GoTo
  <2>2. TypeInv'
    BY <1>1, <2>1, SamePlan DEF Control, TypeInv, Keep, Steps
  <2>3. StepInv'
    BY <2>1 DEF StepInv
  <2> QED BY <1>1, <2>1, <2>2, <2>3, ToWorking DEF Keep, Working
<1> QED BY <1>2, <1>3

\* OpenText keeps the control.
LEMMA ControlOpenText ==
  ASSUME Control, OpenText
  PROVE  Control'
<1>1. at = "act" /\ Keep /\ Operation.kind = "text"
  BY DEF OpenText
<1>2. CASE Abort
  BY <1>1, <1>2, ControlAbort
<1>3. CASE ~Abort
  <2>1. at' = "truncate" /\ progress' = progress /\ expected' = expected /\ number' = number /\ plan' = plan
        /\ handle'.text = Operation.after
    BY <1>1, <1>3 DEF OpenText, GoTo, Keep
  <2>2. Operation.after \in Texts
    BY <1>1, AtWork, PlanSize DEF Operation, Working
  <2>3. TypeInv'
    BY <1>1, <2>1, <2>2, SamePlan DEF Control, TypeInv, Keep, Steps, Committing
  <2>4. StepInv'
    BY <1>1, <2>1, SameOperation DEF StepInv
  <2> QED BY <1>1, <2>1, <2>3, <2>4, ToWorking DEF Working
<1> QED BY <1>2, <1>3

\* A file that is there is not the one that the manifest has as missing.
LEMMA OpenedFile ==
  ASSUME Control, TreeInv, at \in Working, Operation.kind = "create", Exists(tree, Operation.path),
         tree[Operation.path].id = expected[Operation.path].id
  PROVE  expected[Operation.path].kind # "missing"
<1>1. plan \in DOMAIN Plans /\ number \in DOMAIN operations /\ number \in 1..N
  BY AtWork
<1>2. number \in DOMAIN progress /\ progress[number].before = expected
  <2>1. Len(progress) = number
    BY DEF Control, PlaceInv
  <2> QED BY <1>1, <2>1, PendingIs DEF Control, PlaceInv
<1>3. Tells(plan, expected, number - 1)
  BY <1>2 DEF Control, RecordInv
<1>4. Operation.path \in TouchedOf[plan] /\ Operation.path \in Paths
  BY <1>1, TouchedFacts DEF Operation, operations
<1>5. Fits(expected[Operation.path], ActualOf(plan)[number - 1][Operation.path])
  BY <1>3, <1>4 DEF Tells, Fitting
<1>6. ActualOf(plan)[number - 1][Operation.path].kind = "missing" => ActualOf(plan)[number - 1][Operation.path].id = NoId
  <2>1. Sound(ActualOf(plan)[number - 1])
    BY <1>1, PlanGood DEF Good, operations
  <2> QED BY <1>4, <2>1 DEF Sound, MissingNode
<1>7. tree[Operation.path].id # NoId
  BY <1>4 DEF TreeInv, Real
<1> QED BY <1>5, <1>6, <1>7 DEF Fits

\* Create keeps the control.
LEMMA ControlCreate ==
  ASSUME Control, TreeInv, Create
  PROVE  Control'
<1>1. at = "act" /\ Keep /\ Operation.kind = "create"
  BY DEF Create
<1>2. CASE Abort
  BY <1>1, <1>2, ControlAbort
<1>3. CASE ~Abort
  <2>1. progress' = progress /\ expected' = expected /\ number' = number /\ plan' = plan /\ handle'.text = <<>>
    BY <1>1, <1>3 DEF Create, GoTo, Keep, NoHandle, Unfit
  <2>2. \/ at' = "truncate" /\ Exists(tree, Operation.path) /\ tree[Operation.path].id = expected[Operation.path].id
        \/ at' = "prove" /\ handle'.id \in {NoId, CreatedId(number)}
    BY <1>3 DEF Create, GoTo, NoHandle, Unfit
  <2>3. TypeInv'
    BY <1>1, <2>1, <2>2, SamePlan DEF Control, TypeInv, Keep, Steps, Committing, Texts
  <2>4. expected[Operation.path].kind = "missing" => at' = "prove" /\ handle'.id \in {NoId, CreatedId(number)}
    BY <1>1, <2>2, OpenedFile DEF Working
  <2>5. StepInv'
    BY <1>1, <2>1, <2>2, <2>4, SameOperation DEF StepInv
  <2> QED BY <1>1, <2>1, <2>2, <2>3, <2>5, ToWorking DEF Working
<1> QED BY <1>2, <1>3

\* Truncate keeps the control.
LEMMA ControlTruncate ==
  ASSUME Control, Truncate
  PROVE  Control'
<1>1. /\ at \in {"truncate", "undo_truncate"} /\ Keep /\ plan' = plan
      /\ progress' = progress /\ expected' = expected /\ number' = number /\ handle' = handle
      /\ at' = (IF at = "undo_truncate" THEN "undo_write" ELSE IF Operation.kind = "text" THEN "write" ELSE "prove")
  BY DEF Truncate, GoTo, Keep
<1>2. TypeInv'
  BY <1>1, SamePlan DEF Control, TypeInv, Keep, Steps, Committing, Undoing
<1>3. CASE at = "truncate"
  <2>1. StepInv'
    BY <1>1, <1>3, SameOperation DEF Control, StepInv
  <2> QED BY <1>1, <1>2, <1>3, <2>1, ToWorking DEF Working
<1>4. CASE at = "undo_truncate"
  <2>1. StepInv'
    BY <1>1, <1>4, SameOperation DEF Control, StepInv
  <2>2. number <= Len(progress) /\ ~Pending /\ number >= 1
    BY <1>4 DEF Control, PlaceInv, Undoing
  <2> QED BY <1>1, <1>2, <1>4, <2>1, <2>2, ToUndoing DEF Undoing
<1> QED BY <1>1, <1>3, <1>4

\* Write keeps the control.
LEMMA ControlWrite ==
  ASSUME Control, Write
  PROVE  Control'
<1>1. /\ at \in {"write", "undo_write"} /\ Keep /\ plan' = plan
      /\ progress' = progress /\ expected' = expected /\ number' = number /\ handle' = handle
      /\ at' = (IF at = "write" THEN "prove" ELSE "undo_verify")
  BY DEF Write, GoTo, Keep
<1>2. TypeInv'
  BY <1>1, SamePlan DEF Control, TypeInv, Keep, Steps, Committing, Undoing
<1>3. CASE at = "write"
  <2>1. StepInv'
    BY <1>1, <1>3, SameOperation DEF Control, StepInv
  <2> QED BY <1>1, <1>2, <1>3, <2>1, ToWorking DEF Working
<1>4. CASE at = "undo_write"
  <2>1. StepInv'
    BY <1>1, <1>4 DEF StepInv
  <2>2. number <= Len(progress) /\ ~Pending /\ number >= 1
    BY <1>4 DEF Control, PlaceInv, Undoing
  <2> QED BY <1>1, <1>2, <1>4, <2>1, <2>2, ToUndoing DEF Undoing
<1> QED BY <1>1, <1>3, <1>4

\* MoveAside keeps the control.
LEMMA ControlMoveAside ==
  ASSUME Control, MoveAside
  PROVE  Control'
<1>1. at = "act" /\ Keep /\ Operation.kind = "rename"
  BY DEF MoveAside
<1>2. CASE Abort
  BY <1>1, <1>2, ControlAbort
<1>3. CASE ~Abort
  <2>1. /\ at' \in {"rename", "prove"} /\ progress' = progress /\ expected' = expected /\ number' = number
        /\ plan' = plan /\ handle'.text \in {handle.text, <<>>}
    BY <1>1, <1>3 DEF MoveAside, GoTo, Keep, NoHandle, Unfit
  <2>2. TypeInv'
    BY <1>1, <2>1, SamePlan DEF Control, TypeInv, Keep, Steps, Committing, Texts
  <2>3. StepInv'
    BY <1>1, <2>1, SameOperation DEF StepInv
  <2> QED BY <1>1, <2>1, <2>2, <2>3, ToWorking DEF Working
<1> QED BY <1>2, <1>3

\* Rename keeps the control.
LEMMA ControlRename ==
  ASSUME Control, Rename
  PROVE  Control'
<1>1. at = "rename" /\ Keep
  BY DEF Rename
<1>2. CASE Abort
  BY <1>1, <1>2, ControlAbort
<1>3. CASE ~Abort
  <2>1. /\ at' = "prove" /\ progress' = progress /\ expected' = expected /\ number' = number /\ handle' = handle
        /\ plan' = plan /\ Operation.kind = "rename"
    BY <1>1, <1>3 DEF Rename, GoTo, Keep, Control, StepInv
  <2>2. TypeInv'
    BY <1>1, <2>1, SamePlan DEF Control, TypeInv, Keep, Steps, Committing
  <2>3. StepInv'
    BY <1>1, <2>1, SameOperation DEF StepInv
  <2> QED BY <1>1, <2>1, <2>2, <2>3, ToWorking DEF Working
<1> QED BY <1>2, <1>3

\* Delete keeps the control.
LEMMA ControlDelete ==
  ASSUME Control, Delete
  PROVE  Control'
<1>1. at = "act" /\ Keep /\ Operation.kind = "delete"
  BY DEF Delete
<1>2. CASE Abort
  BY <1>1, <1>2, ControlAbort
<1>3. CASE ~Abort
  <2>1. /\ at' = "prove" /\ progress' = progress /\ expected' = expected /\ number' = number
        /\ plan' = plan /\ handle'.text \in {handle.text, <<>>}
    BY <1>1, <1>3 DEF Delete, GoTo, Keep, NoHandle, Unfit
  <2>2. TypeInv'
    BY <1>1, <2>1, SamePlan DEF Control, TypeInv, Keep, Steps, Committing, Texts
  <2>3. StepInv'
    BY <1>1, <2>1, SameOperation DEF StepInv
  <2> QED BY <1>1, <2>1, <2>2, <2>3, ToWorking DEF Working
<1> QED BY <1>2, <1>3

\* Prove keeps the control.
LEMMA ControlProve ==
  ASSUME Control, Prove
  PROVE  Control'
<1>1. at = "prove" /\ Keep
  BY DEF Prove
<1>2. CASE Abort
  BY <1>1, <1>2, ControlAbort
<1>3. CASE ~Abort
  <2> DEFINE after == OperationAfter(expected, number)
             last == number = Len(operations)
  <2>1. /\ after # NoManifest /\ expected' = after /\ progress' = Proven(after)
        /\ number' = (IF last THEN number ELSE number + 1)
        /\ at' = (IF last THEN "committed" ELSE "check") /\ handle' = NoHandle
    BY <1>3 DEF Prove, GoTo
  <2>2. plan' = plan /\ number \in 1..N /\ Len(progress) = number /\ N \in Nat /\ N' = N /\ NoHandle.text \in Texts
    BY <1>1, AtWork, SamePlan DEF Keep, Control, PlaceInv, Working
  <2>3. PICK n \in 1..N : n = number
    BY <2>2
  <2>4. RecordInv'
    <3>1. OperationAfter(expected, n) = after
      BY <2>3
    <3>2. at' = "check" => expected' = OperationAfter(expected, n) /\ number' = n + 1
      BY <2>1, <2>3
    <3> HIDE DEF after
    <3> QED BY <1>1, <2>1, <2>2, <2>3, <3>1, <3>2, RecordProof DEF Control, TypeInv
  <2>5. /\ EffectsInv' /\ Len(progress') = n /\ ~Pending'
    <3>1. n = number /\ n >= 1 /\ Len(progress) = n /\ progress' = Proven(after) /\ after # NoManifest
      BY <2>1, <2>2, <2>3
    <3> HIDE DEF after
    <3> QED BY <2>2, <3>1, ProofFacts DEF Control
  <2>6. number' \in 1..N /\ (last => number' = n /\ n = N) /\ (~last => number' = n + 1)
    BY <2>1, <2>2, <2>3 DEF N
  <2>7. TypeInv'
    BY <1>1, <2>1, <2>2, <2>6 DEF Control, TypeInv, Keep, Steps, Committing
  <2>8. PlaceInv'
    BY <2>1, <2>2, <2>5, <2>6 DEF PlaceInv, Working, Undoing
  <2>9. StepInv'
    BY <2>1 DEF StepInv
  <2> QED BY <2>4, <2>5, <2>7, <2>8, <2>9 DEF Control
<1> QED BY <1>2, <1>3

\* Preflight keeps the control.
LEMMA ControlPreflight ==
  ASSUME Control, Preflight
  PROVE  Control'
<1>1. /\ at = "undo" /\ Keep /\ plan' = plan
      /\ progress' = progress /\ expected' = expected /\ handle' = handle
  BY DEF Preflight, Keep
<1>2. \/ at' \in {"restored", "refused"} /\ number' = number
      \/ at' = "reverse" /\ number' = Len(progress) /\ ~Pending
  BY DEF Preflight, GoTo
<1>3. Len(progress) \in Nat /\ Len(progress) <= N /\ N' = N
  BY <1>1, PendingIs, SamePlan DEF Control, EffectsInv
<1>4. TypeInv'
  <2>1. number' \in 0..N'
    <3>1. N \in Nat /\ number \in 0..N
      BY AtWork
    <3> QED BY <1>2, <1>3, <3>1
  <2> QED BY <1>1, <1>2, <2>1 DEF Control, TypeInv, Keep, Steps, Undoing
<1>5. CASE at' = "reverse"
  <2>1. StepInv'
    BY <1>5 DEF StepInv
  <2> QED BY <1>1, <1>2, <1>3, <1>4, <1>5, <2>1, ToUndoing DEF Undoing
<1>6. CASE at' # "reverse"
  BY <1>1, <1>2, <1>4, <1>6, ToRest DEF Resting
<1> QED BY <1>5, <1>6

\* The content that a text operation or a create puts back.
LEMMA BeforeText ==
  ASSUME Control, at \in Undoing, number \in 1..N, Operation.kind \in {"text", "create"}
  PROVE  /\ Effect.before[Operation.path].kind # "missing" =>
              /\ Effect.before[Operation.path].digest \in Texts
              /\ Now(number - 1)[Operation.path].kind = "file"
              /\ Effect.before[Operation.path].digest = Now(number - 1)[Operation.path].text
         /\ Effect.before[Operation.path].kind = "missing" => ~Exists(Now(number - 1), Operation.path)
         /\ Effect.after[Operation.path].id = Now(number)[Operation.path].id
<1>1. plan \in DOMAIN Plans /\ number \in DOMAIN operations /\ number \in DOMAIN progress
  <2>1. number <= Len(progress)
    BY DEF Control, PlaceInv
  <2>2. DOMAIN progress = 1..Len(progress) /\ Len(progress) \in Nat
    BY PendingIs DEF Control
  <2> QED BY <2>1, <2>2, AtWork, PlanSize
<1>2. Tells(plan, Effect.before, number - 1) /\ Tells(plan, Effect.after, number)
  <2>1. Proved(number)
    BY <1>1, PendingIs, AtWork DEF Control
  <2> QED BY <1>1, <2>1 DEF Control, RecordInv, Effect
<1>3. Operation.path \in TouchedOf[plan] /\ Operation.path \in Paths
  BY <1>1, TouchedFacts DEF Operation, operations
<1>4. /\ Fits(Effect.before[Operation.path], Now(number - 1)[Operation.path])
      /\ Fits(Effect.after[Operation.path], Now(number)[Operation.path])
  BY <1>2, <1>3 DEF Tells, Fitting, Now
<1>5. LegalOn(Now(number - 1), Operation, number) /\ Now(number - 1) \in Trees
  BY <1>1, PlanGood DEF operations, Operation, Now, Good, Sound
<1>6. Now(number - 1)[Operation.path].kind \in {"missing", "file"}
  BY <1>5 DEF LegalOn, Exists
<1>7. Now(number - 1)[Operation.path].text \in Texts
  BY <1>3, <1>5, NodeTypes
<1> QED BY <1>4, <1>6, <1>7 DEF Fits, Exists

\* ReverseEffect keeps the control.
LEMMA ControlReverse ==
  ASSUME Control, ReverseEffect
  PROVE  Control'
<1>1. /\ at = "reverse" /\ number > 0 /\ Keep /\ plan' = plan
      /\ progress' = progress /\ expected' = expected
  BY DEF ReverseEffect, Keep
<1>2. number \in 1..N /\ N \in Nat /\ ~Pending /\ number <= Len(progress) /\ Len(progress) \in Nat
  BY <1>1, AtWork, PendingIs DEF Control, PlaceInv, Undoing
<1>3. CASE Operation.kind \in {"text", "create"} /\ ReverseText(Operation)
  <2>1. \/ at' = "reverse" /\ number' = number - 1 /\ handle' = handle
        \/ /\ at' = "undo_truncate" /\ number' = number
           /\ Effect.before[Operation.path].kind # "missing" /\ handle'.text = Effect.before[Operation.path].digest
        \/ at' = "undo_remove" /\ number' = number /\ handle' = handle
    BY <1>3 DEF ReverseText, GoTo
  <2>2. handle'.text \in Texts
    BY <1>1, <1>2, <1>3, <2>1, BeforeText DEF Control, TypeInv, Undoing
  <2>3. number' \in 0..N
    BY <1>2, <2>1
  <2>4. TypeInv'
    BY <1>1, <2>1, <2>2, <2>3, SamePlan DEF Control, TypeInv, Keep, Steps, Undoing
  <2>5. StepInv'
    BY <1>1, <1>3, <2>1, SameOperation DEF StepInv
  <2>6. number' <= Len(progress) /\ (at' # "reverse" => number' >= 1) /\ at' \in Undoing
    BY <1>2, <2>1 DEF Undoing
  <2> QED BY <1>1, <1>2, <2>4, <2>5, <2>6, ToUndoing
<1>4. CASE Operation.kind \in {"rename", "delete"} /\ ReverseMove(Operation)
  <2>1. at' = "leg" /\ number' = number /\ handle' = handle
    BY <1>4 DEF ReverseMove, GoTo
  <2>2. \/ Operation.kind = "rename" /\ move' = [from |-> Operation.new, to |-> Operation.path]
        \/ Operation.kind = "delete" /\ move' = [from |-> Undo(number), to |-> Operation.path]
    BY <1>4 DEF ReverseMove
  <2>3. TypeInv'
    BY <1>1, <2>1, SamePlan DEF Control, TypeInv, Keep, Steps, Undoing
  <2>4. StepInv'
    <3>1. Operation' = Operation /\ Undo(number)' = Undo(number)
      BY <1>1, <2>1, SameOperation DEF Undo
    <3>2. FirstLeg' \/ SecondLeg' \/ DeleteLeg'
      BY <2>2, <3>1 DEF FirstLeg, DeleteLeg
    <3> QED BY <2>1, <3>2 DEF StepInv
  <2> QED BY <1>1, <1>2, <2>1, <2>3, <2>4, ToUndoing DEF Undoing
<1>5. CASE at' = "refused" /\ number' = number /\ handle' = handle
  <2>1. TypeInv'
    BY <1>1, <1>5, SamePlan DEF Control, TypeInv, Keep, Steps
  <2> QED BY <1>1, <1>5, <2>1, ToRest DEF Resting
<1> QED BY <1>3, <1>4, <1>5 DEF ReverseEffect, GoTo

\* RemoveCreated keeps the control.
LEMMA ControlRemove ==
  ASSUME Control, RemoveCreated
  PROVE  Control'
<1>1. /\ at = "undo_remove" /\ Keep /\ plan' = plan
      /\ progress' = progress /\ expected' = expected /\ number' = number /\ handle' = handle
      /\ at' \in {"undo_verify", "refused"}
  BY DEF RemoveCreated, GoTo, Keep
<1>2. TypeInv'
  BY <1>1, SamePlan DEF Control, TypeInv, Keep, Steps, Undoing
<1>3. number <= Len(progress) /\ ~Pending /\ number >= 1
  BY <1>1 DEF Control, PlaceInv, Undoing
<1>4. StepInv'
  BY <1>1 DEF StepInv
<1> QED BY <1>1, <1>2, <1>3, <1>4, ToUndoing, ToRest DEF Undoing, Resting

\* CheckLeg keeps the control.
LEMMA ControlCheckLeg ==
  ASSUME Control, CheckLeg
  PROVE  Control'
<1>1. /\ at = "leg" /\ Keep /\ plan' = plan
      /\ progress' = progress /\ expected' = expected /\ number' = number /\ handle' = handle /\ move' = move
      /\ at' \in {"leg_rename", "refused"}
  BY DEF CheckLeg, GoTo, Keep
<1>2. TypeInv'
  BY <1>1, SamePlan DEF Control, TypeInv, Keep, Steps, Undoing
<1>3. number <= Len(progress) /\ ~Pending /\ number >= 1
  BY <1>1 DEF Control, PlaceInv, Undoing
<1>4. StepInv'
  <2>1. FirstLeg \/ SecondLeg \/ DeleteLeg
    BY <1>1 DEF Control, StepInv
  <2>2. Operation' = Operation /\ Undo(number)' = Undo(number)
    BY <1>1, SameOperation DEF Undo
  <2>3. FirstLeg' \/ SecondLeg' \/ DeleteLeg'
    BY <1>1, <2>1, <2>2 DEF FirstLeg, SecondLeg, DeleteLeg
  <2> QED BY <1>1, <2>3 DEF StepInv
<1> QED BY <1>1, <1>2, <1>3, <1>4, ToUndoing, ToRest DEF Undoing, Resting

\* RenameLeg keeps the control.
LEMMA ControlRenameLeg ==
  ASSUME Control, RenameLeg
  PROVE  Control'
<1>1. /\ at = "leg_rename" /\ Keep /\ plan' = plan
      /\ progress' = progress /\ expected' = expected /\ number' = number /\ handle' = handle
  BY DEF RenameLeg, Keep
<1>2. \/ at' = "leg" /\ Operation.kind = "rename" /\ move' = [from |-> Undo(number), to |-> Operation.new]
      \/ at' \in {"undo_verify", "refused"}
  BY DEF RenameLeg, GoTo
<1>3. TypeInv'
  BY <1>1, <1>2, SamePlan DEF Control, TypeInv, Keep, Steps, Undoing
<1>4. number <= Len(progress) /\ ~Pending /\ number >= 1
  BY <1>1 DEF Control, PlaceInv, Undoing
<1>5. StepInv'
  <2>1. Operation' = Operation /\ Undo(number)' = Undo(number)
    BY <1>1, SameOperation DEF Undo
  <2>2. at' = "leg" => SecondLeg'
    BY <1>2, <2>1 DEF SecondLeg
  <2> QED BY <1>2, <2>2 DEF StepInv
<1> QED BY <1>1, <1>2, <1>3, <1>4, <1>5, ToUndoing, ToRest DEF Undoing, Resting

\* Verify keeps the control.
LEMMA ControlVerify ==
  ASSUME Control, Verify
  PROVE  Control'
<1>1. /\ at = "undo_verify" /\ Keep /\ plan' = plan
      /\ progress' = progress /\ expected' = expected /\ handle' = NoHandle
      /\ \/ at' = "reverse" /\ number' = number - 1
         \/ at' = "refused" /\ number' = number
  BY DEF Verify, GoTo, Keep
<1>2. number \in 1..N /\ N \in Nat /\ ~Pending /\ number <= Len(progress) /\ Len(progress) \in Nat /\ NoHandle.text \in Texts
  BY <1>1, AtWork, PendingIs DEF Control, PlaceInv, Undoing
<1>3. number' \in 0..N /\ number' <= Len(progress)
  BY <1>1, <1>2
<1>4. TypeInv'
  BY <1>1, <1>2, <1>3, SamePlan DEF Control, TypeInv, Keep, Steps, Undoing
<1>5. StepInv'
  BY <1>1 DEF StepInv
<1> QED BY <1>1, <1>2, <1>3, <1>4, <1>5, ToUndoing, ToRest DEF Undoing, Resting

\* The actions that end in a resting place keep the control.
LEMMA ControlRests ==
  ASSUME Control, FinishUndo \/ Recover \/ Cleanup \/ Crash
  PROVE  Control'
<1>1. /\ plan' = plan /\ progress' = progress /\ number' = number /\ handle' \in {handle, NoHandle} /\ at' \in Resting
      /\ raced' = raced /\ interrupted' \in BOOLEAN /\ writes' = writes
  BY DEF FinishUndo, Recover, Cleanup, Crash, GoTo, Keep, Resting, Control, TypeInv
<1>2. TypeInv'
  <2>1. handle'.text \in Texts
    BY <1>1, AtWork DEF Control, TypeInv
  <2>2. Resting \subseteq Steps
    BY DEF Resting, Steps
  <2> QED BY <1>1, <2>1, <2>2, SamePlan DEF Control, TypeInv
<1> QED BY <1>1, <1>2, ToRest

\* A stranger's write keeps the control.
LEMMA ControlStays ==
  ASSUME Control, Stranger \/ UNCHANGED vars
  PROVE  Control'
<1>1. /\ plan' = plan /\ progress' = progress /\ expected' = expected /\ at' = at /\ number' = number
      /\ handle' = handle /\ move' = move
      /\ raced' \in BOOLEAN /\ interrupted' = interrupted /\ writes' \in Nat
  <2>1. raced \in BOOLEAN /\ writes \in Nat
    BY DEF Control, TypeInv
  <2>2. CASE UNCHANGED vars
    BY <2>1, <2>2 DEF vars
  <2>3. CASE Stranger
    <3>1. raced' \in BOOLEAN
      <4>1. CASE Unchecked
        BY <2>3, <4>1 DEF Stranger
      <4>2. CASE ~Unchecked
        BY <2>1, <2>3, <4>2 DEF Stranger
      <4> QED BY <4>1, <4>2
    <3>2. writes' = writes + 1
      BY <2>3 DEF Stranger
    <3> QED BY <2>1, <2>3, <3>1, <3>2 DEF Stranger
  <2> QED BY <2>2, <2>3
<1>2. TypeInv'
  BY <1>1, SamePlan DEF Control, TypeInv
<1>3. EffectsInv' /\ RecordInv'
  BY <1>1, EffectsStay, RecordStays DEF Control
<1>4. PlaceInv'
  <2>1. (Pending' <=> Pending) /\ InitialManifest' = InitialManifest /\ N' = N
    BY <1>1, SameEvidence, SamePlan
  <2>2. Proved(number)' <=> Proved(number)
    BY <1>1 DEF Proved
  <2> QED BY <1>1, <2>1, <2>2 DEF Control, PlaceInv
<1>5. StepInv'
  <2>1. Operation' = Operation /\ Undo(number)' = Undo(number) /\ CreatedId(number)' = CreatedId(number)
    BY <1>1, SameOperation DEF Undo, CreatedId
  <2>2. (FirstLeg' <=> FirstLeg) /\ (SecondLeg' <=> SecondLeg) /\ (DeleteLeg' <=> DeleteLeg)
    BY <1>1, <2>1 DEF FirstLeg, SecondLeg, DeleteLeg
  <2> QED BY <1>1, <2>1, <2>2 DEF Control, StepInv
<1> QED BY <1>2, <1>3, <1>4, <1>5 DEF Control

\* Fault keeps the control.
LEMMA ControlFault ==
  ASSUME Control, Fault
  PROVE  Control'
<1>1. /\ plan' = plan /\ number' = number /\ handle' = NoHandle /\ at' \in {"undo", "refused"} /\ at \in Committing \cup Undoing \cup {"undo"}
      /\ raced' = raced /\ interrupted' \in BOOLEAN /\ writes' = writes
  BY DEF Fault, GoTo, Control, TypeInv
<1>2. TypeInv'
  BY <1>1, SamePlan, AtWork DEF Control, TypeInv, Steps
<1>3. CASE progress' = progress
  BY <1>1, <1>2, <1>3, ToRest DEF Resting
<1>4. ASSUME EffectsInv', RecordInv' PROVE Control'
  <2>1. PlaceInv'
    BY <1>1 DEF PlaceInv, Working, Undoing
  <2>2. StepInv'
    BY <1>1 DEF StepInv
  <2> QED BY <1>2, <1>4, <2>1, <2>2 DEF Control
<1>5. CASE at = "check" /\ progress' = Intended(WithUndo(expected, number))
  <2>1. number \in 1..N /\ Len(progress) = number - 1 /\ ~Pending
    BY <1>5, AtWork DEF Control, PlaceInv
  <2>2. PICK n \in 1..N : n = number
    BY <2>1
  <2>3. RecordInv'
    BY <1>1, <1>5, <2>2, RecordIntent DEF Control, TypeInv
  <2>4. EffectsInv'
    <3> DEFINE w == WithUndo(expected, number)
    <3>1. progress' = Intended(w)
      BY <1>5
    <3>2. n = Len(progress) + 1 /\ n <= N
      <4>1. N \in Nat
        BY AtWork
      <4>2. Len(progress) \in Nat
        BY PendingIs DEF Control
      <4> QED BY <2>1, <2>2, <4>1, <4>2
    <3> HIDE DEF w
    <3> QED BY <1>1, <2>1, <3>1, <3>2, IntentFacts DEF Control
  <2> QED BY <1>4, <2>3, <2>4
<1>6. CASE /\ at = "prove" /\ OperationAfter(expected, number) # NoManifest
           /\ progress' = Proven(OperationAfter(expected, number))
  <2>1. number \in 1..N /\ Len(progress) = number
    BY <1>6, AtWork DEF Control, PlaceInv, Working
  <2>2. PICK n \in 1..N : n = number
    BY <2>1
  <2>3. RecordInv'
    BY <1>1, <1>6, <2>2, RecordProof DEF Control, TypeInv
  <2>4. EffectsInv'
    <3> DEFINE r == OperationAfter(expected, number)
    <3>1. progress' = Proven(r) /\ r # NoManifest
      BY <1>6
    <3>2. n = number /\ n >= 1 /\ Len(progress) = n
      BY <2>1, <2>2
    <3> HIDE DEF r
    <3> QED BY <1>1, <3>1, <3>2, ProofFacts DEF Control
  <2> QED BY <1>4, <2>3, <2>4
<1> QED BY <1>3, <1>5, <1>6 DEF Fault

\* Every step keeps the control.
LEMMA ControlNext ==
  ASSUME Control, TreeInv, [Next]_vars
  PROVE  Control'
<1>1. CASE UNCHANGED vars
  BY <1>1, ControlStays
<1>2. CASE Next
  BY <1>2, ControlStage, ControlCheck, ControlRetain, ControlOpenText, ControlCreate, ControlTruncate, ControlWrite,
     ControlMoveAside, ControlRename, ControlDelete, ControlProve, ControlPreflight, ControlReverse, ControlRemove,
     ControlCheckLeg, ControlRenameLeg, ControlVerify, ControlRests, ControlFault, ControlStays DEF Next
<1> QED BY <1>1, <1>2

-----------------------------------------------------------------------------
(* The tree *)

\* The files of r are those of t, written to or not, and a stranger's.
Stems(r, t) == \A p \in Paths : r[p].id \in {NoId, Foreign} \/ \E q \in Paths : r[p].id = t[q].id

\* Renames between existing places keep the tree real and make no identity.
LEMMA RealRename ==
  ASSUME NEW t, Real(t), NEW a \in Paths, NEW b \in Paths, Apart(a, b), IsDirectory(t, Parent(b))
  PROVE  Real(RenameTree(t, a, b)) /\ Stems(RenameTree(t, a, b), t)
<1> DEFINE r == RenameTree(t, a, b)
<1>1. Sound(t) /\ Sound(r)
  BY RenameSound DEF Real
<1>2. a \in AnyPath /\ b \in AnyPath
  BY PathFacts
<1>3. ASSUME NEW p \in Paths, Exists(r, p) PROVE \E q \in Paths : r[p] = t[q]
  BY <1>2, <1>3, RenamedFrom
<1> HIDE DEF r
<1>4. \A p \in Paths : ~Exists(r, p) => r[p].id = NoId
  BY <1>1, NodeTypes DEF Sound, Exists
<1>5. Stems(r, t)
  BY <1>3, <1>4 DEF Stems
<1>6. \A p \in Paths : Exists(r, p) => r[p].id # NoId
  BY <1>3 DEF Real, Exists
<1> QED BY <1>1, <1>5, <1>6 DEF Real, r

\* Putting a file where there is one, or into an existing directory, does too.
LEMMA RealNode ==
  ASSUME NEW t, Real(t), NEW p \in Paths, NEW n \in Node, n.kind = "file",
         t[p].kind = "file" \/ (~Exists(t, p) /\ IsDirectory(t, Parent(p))),
         n.id # NoId,
         n.id # Foreign => \A q \in Paths : Exists(t, q) /\ t[q].id = n.id => q = p
  PROVE  Real(Put(t, p, n))
<1> DEFINE r == Put(t, p, n)
<1>1. Sound(t) /\ Sound(r)
  BY NodeSound DEF Real, Put
<1>2. r[p] = n /\ \A q \in Paths : q # p => r[q] = t[q]
  BY <1>1 DEF Sound, Trees, Put
<1> HIDE DEF r
<1>3. \A q \in Paths : Exists(r, q) => r[q].id # NoId
  BY <1>2 DEF Real, Exists
<1> QED BY <1>1, <1>3 DEF Real, r

\* Removing whole subtrees does too.
LEMMA RealRemove ==
  ASSUME NEW t, Real(t), NEW r \in Trees,
         \A p \in Paths : r[p] = t[p] \/ r[p] = MissingNode,
         \A p \in Paths : Exists(r, p) /\ Parent(p) # <<>> => r[Parent(p)] = t[Parent(p)]
  PROVE  Real(r) /\ Stems(r, t)
<1>1. Sound(r)
  BY RemoveSound DEF Real
<1>2. \A p \in Paths : Exists(r, p) => r[p].id # NoId
  BY NodeTypes DEF Real, Exists
<1>3. Stems(r, t)
  BY NodeTypes DEF Stems
<1> QED BY <1>1, <1>2, <1>3 DEF Real

\* A removal of a subtree, in particular.
LEMMA RealDelete ==
  ASSUME NEW t, Real(t), NEW a \in Paths
  PROVE  Real(DeleteTree(t, a)) /\ Stems(DeleteTree(t, a), t)
<1> DEFINE r == DeleteTree(t, a)
<1>1. Sound(r)
  BY DeleteSound DEF Real
<1>2. \A p \in Paths : r[p] = t[p] \/ r[p] = MissingNode
  BY DEF DeleteTree
<1> HIDE DEF r
<1>3. \A p \in Paths : Exists(r, p) => r[p].id # NoId
  BY <1>2, NodeTypes DEF Real, Exists
<1>4. Stems(r, t)
  BY <1>2, NodeTypes DEF Stems
<1> QED BY <1>1, <1>3, <1>4 DEF Real, r

\* Writing to an open file.
LEMMA RealOverwritten ==
  ASSUME Real(tree), NEW id, NEW x \in Texts
  PROVE  /\ Real(Overwritten(id, x)) /\ Stems(Overwritten(id, x), tree)
         /\ \A p \in Paths : Overwritten(id, x)[p].kind = tree[p].kind /\ Overwritten(id, x)[p].id = tree[p].id
<1> DEFINE r == Overwritten(id, x)
           t == tree
<1>1. Sound(t) /\ t \in Trees
  BY DEF Real, Sound
<1>2. r = [p \in Paths |-> IF t[p].kind = "file" /\ t[p].id = id THEN [t[p] EXCEPT !.text = x] ELSE t[p]]
  BY DEF Overwritten
<1>3. ASSUME NEW p \in Paths
      PROVE  /\ r[p] \in Node /\ r[p].kind = t[p].kind /\ r[p].id = t[p].id
             /\ t[p].kind # "file" => r[p] = t[p]
  <2>1. t[p] \in Node
    BY <1>1, NodeTypes
  <2> DEFINE n == t[p]
  <2>2. r[p] = n \/ (n.kind = "file" /\ r[p] = [n EXCEPT !.text = x])
    BY <1>2
  <2>3. n.kind # "file" => r[p] = n
    BY <1>2
  <2> HIDE DEF n, r
  <2>4. n \in Node
    BY <2>1 DEF n
  <2>5. [n EXCEPT !.text = x] \in Node /\ [n EXCEPT !.text = x].kind = n.kind /\ [n EXCEPT !.text = x].id = n.id
    BY <2>4 DEF Node
  <2> QED BY <2>2, <2>3, <2>4, <2>5 DEF n
<1>4. r \in [Paths -> Node]
  <2>1. DOMAIN r = Paths /\ r = [p \in Paths |-> r[p]]
    BY <1>2
  <2> HIDE DEF r
  <2> QED BY <1>3, <2>1
<1> HIDE DEF r
<1>5. r \in Trees
  BY <1>4, NodeTypes
<1>6. \A p \in Paths : Exists(r, p) <=> Exists(t, p)
  BY <1>3 DEF Exists
<1>7. WellFormedTree(r)
  <2> SUFFICES ASSUME NEW p \in Paths, Exists(r, p) PROVE IsDirectory(r, Parent(p))
    BY DEF WellFormedTree
  <2>1. IsDirectory(t, Parent(p))
    BY <1>1, <1>6 DEF Sound, WellFormedTree
  <2>2. Parent(p) # <<>> => Parent(p) \in Paths
    BY PathFacts
  <2> QED BY <1>3, <2>1, <2>2 DEF IsDirectory
<1>8. Sound(r)
  <2>1. \A p \in Paths : r[p].kind = "missing" => r[p] = MissingNode
    BY <1>1, <1>3 DEF Sound
  <2>2. \A p \in Paths : r[p].kind = "directory" => r[p].text = <<>>
    BY <1>1, <1>3 DEF Sound
  <2>3. \A p, q \in Paths : Exists(r, p) /\ r[p].id = r[q].id /\ r[p].id \notin {NoId, Foreign} => p = q
    BY <1>1, <1>3, <1>6 DEF Sound
  <2> QED BY <1>5, <1>7, <2>1, <2>2, <2>3 DEF Sound
<1>9. Real(r)
  BY <1>3, <1>6, <1>8 DEF Real
<1>10. Stems(r, t)
  BY <1>3 DEF Stems
<1> QED BY <1>3, <1>9, <1>10 DEF r

\* No action but a create makes an identity of an operation still ahead.
LEMMA FreshKeeps ==
  ASSUME FreshInv, Stems(tree', tree), \A j \in DOMAIN UndoName : Ahead(j)' => Ahead(j)
  PROVE  FreshInv'
<1> SUFFICES ASSUME NEW j \in DOMAIN UndoName, NEW p \in Paths, Ahead(j)' PROVE tree'[p].id # CreatedId(j)
  BY DEF FreshInv, CreatedId
<1>1. CreatedId(j) # NoId /\ CreatedId(j) # Foreign
  BY IdFacts
<1>2. \A q \in Paths : tree[q].id # CreatedId(j)
  BY DEF FreshInv
<1> QED BY <1>1, <1>2 DEF Stems

\* Every tree has the identities it has.
LEMMA StemsItself == ASSUME NEW t PROVE Stems(t, t)
BY DEF Stems

\* A file of another text, field by field.
LEMMA TextGiven == ASSUME NEW a, NEW b, NEW c, NEW y, NEW r, r = [kind |-> a, id |-> b, text |-> c]
  PROVE [r EXCEPT !.text = y] = [kind |-> a, id |-> b, text |-> y]
OBVIOUS
\* A file of another identity, field by field.
LEMMA IdGiven == ASSUME NEW a, NEW b, NEW c, NEW y, NEW r, r = [kind |-> a, id |-> b, text |-> c]
  PROVE [r EXCEPT !.id = y] = [kind |-> a, id |-> y, text |-> c]
OBVIOUS
\* A stranger's new file, field by field.
LEMMA ForeignFile == [NewFile EXCEPT !.id = Foreign, !.text = Foreign] = [kind |-> "file", id |-> Foreign, text |-> Foreign]
<1>1. NewFile = [kind |-> "file", id |-> NoId, text |-> <<>>]
  BY DEF NewFile
<1> DEFINE r == [NewFile EXCEPT !.id = Foreign]
<1>2. r = [kind |-> "file", id |-> Foreign, text |-> <<>>]
  BY <1>1, IdGiven
<1> HIDE DEF r
<1>3. [r EXCEPT !.text = Foreign] = [kind |-> "file", id |-> Foreign, text |-> Foreign]
  BY <1>2, TextGiven
<1>4. [NewFile EXCEPT !.id = Foreign, !.text = Foreign] = [r EXCEPT !.text = Foreign]
  BY Zenon DEF r
<1> QED BY <1>3, <1>4

Finishing == {"truncate", "write", "rename", "prove"}

\* No operation is ahead again once it was reached.
LEMMA AheadNext ==
  ASSUME Control, [Next]_vars, NEW j \in DOMAIN UndoName, Ahead(j)'
  PROVE  Ahead(j)
<1>1. /\ (at' \in {"stage", "check", "retain", "act"} /\ j >= number') \/ (at' \in Finishing /\ j > number')
      /\ j \in Int
  <2>1. j \in Int
    <3>1. DOMAIN UndoName = 1..Len(UndoName)
      BY UndoAssumption, OwnSeq
    <3> QED BY <3>1
  <2>2. (at' \in {"stage", "check", "retain", "act"} /\ j >= number') \/ (at' \in Finishing /\ j > number')
    BY Zenon DEF Ahead, Finishing
  <2> QED BY <2>1, <2>2
<1>2. SUFFICES \/ at' = at /\ number' = number
               \/ at \in {"stage", "check", "retain", "act"} /\ number' = number
               \/ at \in Finishing /\ at' \in Finishing /\ number' = number
               \/ at = "prove" /\ number' = number + 1
  <2>1. number \in Int
    BY AtWork
  <2> QED BY <1>1, <2>1 DEF Ahead, Finishing
<1>3. CASE UNCHANGED vars
  BY <1>3 DEF vars
<1>4. CASE Stage \/ Check \/ Retain
  BY <1>1, <1>4 DEF Stage, Check, Retain, Abort, GoTo, Finishing
<1>5. CASE OpenText \/ Create \/ MoveAside \/ Delete
  BY <1>1, <1>5 DEF OpenText, Create, MoveAside, Delete, Abort, Unfit, GoTo, Finishing
<1>6. CASE Truncate \/ Write \/ Rename
  BY <1>1, <1>6 DEF Truncate, Write, Rename, Abort, GoTo, Finishing
<1>7. CASE Prove
  BY <1>1, <1>7 DEF Prove, Abort, GoTo, Finishing
<1>8. CASE Preflight \/ RemoveCreated \/ CheckLeg
  BY <1>1, <1>8 DEF Preflight, RemoveCreated, CheckLeg, GoTo, Finishing
<1>9. CASE ReverseEffect
  BY <1>1, <1>9 DEF ReverseEffect, ReverseText, ReverseMove, GoTo, Finishing
<1>10. CASE RenameLeg \/ Verify \/ FinishUndo
  BY <1>1, <1>10 DEF RenameLeg, Verify, FinishUndo, GoTo, Finishing
<1>11. CASE Recover \/ Cleanup \/ Crash
  BY <1>1, <1>11 DEF Recover, Cleanup, Crash, GoTo, Finishing
<1>12. CASE Fault
  BY <1>1, <1>12 DEF Fault, GoTo, Finishing
<1>13. CASE Stranger
  BY <1>13 DEF Stranger
<1> QED BY <1>3, <1>4, <1>5, <1>6, <1>7, <1>8, <1>9, <1>10, <1>11, <1>12, <1>13 DEF Next

\* The operation under way is legal on the tree the plan has there.
LEMMA Legal ==
  ASSUME Control, number \in 1..N
  PROVE  /\ LegalOn(Now(number - 1), Operation, number) /\ number \in DOMAIN UndoName
         /\ Operation.path \in Paths /\ Operation.path \notin UndoPaths /\ Operation.path \in Touched
         /\ Undo(number) \in Paths /\ Parent(Undo(number)) = <<>> /\ Apart(Operation.path, Undo(number))
         /\ Operation.kind = "rename" =>
              /\ Operation.new \in Paths /\ Operation.new \notin UndoPaths /\ Operation.new \in Touched
              /\ Apart(Operation.path, Operation.new) /\ Apart(Operation.new, Operation.path)
              /\ Apart(Operation.new, Undo(number))
         /\ Operation.kind \in OpKinds
<1>1. plan \in DOMAIN Plans /\ number \in DOMAIN operations
  BY AtWork, PlanSize
<1>2. LegalOn(Now(number - 1), Operation, number) /\ number \in DOMAIN UndoName
  BY <1>1, PlanGood DEF Now, Operation, operations
<1>3. Operation.path \in Paths /\ Operation.path \notin UndoPaths
      /\ (Operation.kind = "rename" => Operation.new \in Paths /\ Operation.new \notin UndoPaths /\ Apart(Operation.path, Operation.new))
  BY <1>2 DEF LegalOn
<1>4. Operation.path \in Touched /\ (Operation.kind = "rename" => Operation.new \in Touched)
  BY <1>1, TouchedFacts DEF Operation, operations, Touched
<1>5. Undo(number) \in Paths /\ Parent(Undo(number)) = <<>> /\ \A p \in Paths \ UndoPaths : Apart(p, Undo(number))
  BY <1>2, UndoFacts
<1>6. Operation.kind \in OpKinds
  BY <1>1, PlanSize DEF Operation
<1> QED BY <1>2, <1>3, <1>4, <1>5, <1>6 DEF Apart

\* The two ends of a leg of a rollback are apart.
LEMMA LegsApart ==
  ASSUME Control, number \in 1..N, FirstLeg \/ SecondLeg \/ DeleteLeg
  PROVE  move.from \in Paths /\ move.to \in Paths /\ Apart(move.from, move.to)
<1>1. CASE FirstLeg
  BY <1>1, Legal DEF FirstLeg
<1>2. CASE SecondLeg
  BY <1>2, Legal DEF SecondLeg, Apart
<1>3. CASE DeleteLeg
  BY <1>3, Legal DEF DeleteLeg, Apart
<1> QED BY <1>1, <1>2, <1>3

\* What becomes of the tree in every step but the making of a file.
LEMMA TreeMoves ==
  ASSUME Control, TreeInv, NEW s, s = tree',
         Truncate \/ Write \/ MoveAside \/ Rename \/ Delete \/ RemoveCreated \/ RenameLeg \/ Cleanup
  PROVE  Real(s) /\ Stems(s, tree)
<1>0. CASE s = tree
  BY <1>0, StemsItself DEF TreeInv
<1>t. handle.text \in Texts /\ <<>> \in Texts
  BY DEF Control, TypeInv, Texts
<1>1. CASE Truncate \/ Write
  <2>1. s = Overwritten(handle.id, <<>>) \/ s = Overwritten(handle.id, handle.text)
    BY <1>1 DEF Truncate, Write
  <2> QED BY <1>t, <2>1, RealOverwritten DEF TreeInv
<1>2. CASE (MoveAside \/ Rename \/ Delete) /\ s # tree
  <2>1. number \in 1..N
    BY <1>2, AtWork DEF MoveAside, Rename, Delete, Working
  <2>2. PICK a \in Paths, b \in Paths : s = RenameTree(tree, a, b) /\ Apart(a, b) /\ IsDirectory(tree, Parent(b))
    <3>1. CASE MoveAside
      <4>1. Operation.kind = "rename" /\ RenameWorks(Operation.new, Undo(number)) /\ s = RenameTree(tree, Operation.new, Undo(number))
        BY <1>2, <3>1 DEF MoveAside, Abort, Unfit
      <4> QED BY <2>1, <4>1, Legal DEF RenameWorks
    <3>2. CASE Rename
      <4>1. Operation.kind = "rename" /\ RenameWorks(Operation.path, Operation.new) /\ s = RenameTree(tree, Operation.path, Operation.new)
        BY <1>2, <3>2 DEF Rename, Abort, Control, StepInv
      <4> QED BY <2>1, <4>1, Legal DEF RenameWorks
    <3>3. CASE Delete
      <4>1. s = RenameTree(tree, Operation.path, Undo(number))
        BY <1>2, <3>3 DEF Delete, Abort, Unfit
      <4> QED BY <2>1, <4>1, Legal DEF IsDirectory
    <3> QED BY <1>2, <3>1, <3>2, <3>3
  <2> QED BY <2>2, RealRename DEF TreeInv
<1>3. CASE RemoveCreated /\ s # tree
  <2>1. number \in 1..N /\ s = DeleteTree(tree, Operation.path)
    BY <1>3, AtWork DEF RemoveCreated, Undoing
  <2> QED BY <2>1, Legal, RealDelete DEF TreeInv
<1>4. CASE RenameLeg /\ s # tree
  <2>1. number \in 1..N /\ (FirstLeg \/ SecondLeg \/ DeleteLeg)
    BY <1>4, AtWork DEF RenameLeg, Undoing, Control, StepInv
  <2>2. s = RenameTree(tree, move.from, move.to) /\ RenameWorks(move.from, move.to)
    BY <1>4 DEF RenameLeg
  <2> QED BY <2>1, <2>2, LegsApart, RealRename DEF TreeInv, RenameWorks
<1>5. CASE Cleanup
  <2>1. s = [p \in Paths |-> IF p \in UndoPaths THEN MissingNode ELSE tree[p]]
    BY <1>5 DEF Cleanup
  <2>2. tree \in Trees
    BY DEF TreeInv, Real, Sound
  <2>3. \A p \in Paths : s[p] = IF p \in UndoPaths THEN MissingNode ELSE tree[p]
    BY <2>1
  <2>4. s \in Trees
    <3>1. \A p \in Paths : s[p] \in Node
      BY <2>2, <2>3, NodeTypes
    <3>2. s = [p \in Paths |-> s[p]]
      BY <2>1, <2>3
    <3> QED BY <3>1, <3>2, NodeTypes
  <2>5. ASSUME NEW p \in Paths, Exists(s, p), Parent(p) # <<>> PROVE s[Parent(p)] = tree[Parent(p)]
    <3>1. p \notin UndoPaths
      BY <2>3, <2>5 DEF Exists, MissingNode
    <3>2. Parent(p) \in Paths /\ Parent(p) \notin UndoPaths
      BY <2>5, <3>1, OutsideParent
    <3> QED BY <2>3, <3>2
  <2> QED BY <2>3, <2>4, <2>5, RealRemove DEF TreeInv
<1> QED BY <1>0, <1>1, <1>2, <1>3, <1>4, <1>5

\* A created file brings its own identity, which no other path has.
LEMMA TreeCreated ==
  ASSUME Control, TreeInv, FreshInv, at = "act", number \in 1..N, ~Exists(tree, Operation.path),
         IsDirectory(tree, Parent(Operation.path)), NEW s,
         s = [tree EXCEPT ![Operation.path] = [NewFile EXCEPT !.id = CreatedId(number)]]
  PROVE  /\ Real(s) /\ \A j \in DOMAIN UndoName, p \in Paths : j > number => s[p].id # CreatedId(j)
<1> DEFINE n == Created(number)
           a == Operation.path
<1>1. number \in DOMAIN UndoName /\ a \in Paths /\ number \in Int
  BY Legal
<1>2. n \in Node /\ n.kind = "file" /\ n.id = CreatedId(number)
  BY <1>1, NewNodes
<1>3. s = [tree EXCEPT ![a] = n] /\ s = Put(tree, a, n)
  BY DEF Created, Put
<1> HIDE DEF n, a
<1>4. \A q \in Paths : tree[q].id # n.id
  BY <1>1, <1>2 DEF FreshInv, Ahead
<1>5. n.id # NoId
  BY <1>1, <1>2, IdFacts
<1>6. Real(s)
  <2>1. ~Exists(tree, a) /\ IsDirectory(tree, Parent(a))
    BY DEF a
  <2>2. Real(tree)
    BY DEF TreeInv
  <2>3. Real(Put(tree, a, n))
    BY ONLY <1>1, <1>2, <1>4, <1>5, <2>1, <2>2, RealNode
  <2> QED BY ONLY <1>3, <2>3
<1>7. ASSUME NEW j \in DOMAIN UndoName, NEW p \in Paths, j > number PROVE s[p].id # CreatedId(j)
  <2>1. j # number /\ j >= number
    BY <1>1, <1>7, UndoAssumption
  <2>2. tree \in Trees
    BY DEF TreeInv, Real, Sound
  <2>3. s[a] = n /\ \A q \in Paths : q # a => s[q] = tree[q]
    BY <1>1, <1>3, <2>2 DEF Trees
  <2>4. tree[p].id # CreatedId(j)
    BY <2>1 DEF FreshInv, Ahead
  <2>5. n.id # CreatedId(j)
    BY <1>1, <1>2, <2>1, IdFacts
  <2> QED BY <2>3, <2>4, <2>5
<1> QED BY <1>6, <1>7

\* A stranger's write keeps the tree real and brings no identity but its own.
LEMMA TreeStranger ==
  ASSUME TreeInv, Stranger, NEW s, s = tree'
  PROVE  Real(s) /\ Stems(s, tree)
<1> DEFINE f == [NewFile EXCEPT !.id = Foreign, !.text = Foreign]
<1>1. Foreign \in Texts /\ Foreign \in Identities /\ Foreign # NoId /\ <<>> \in Texts
  BY IdFacts DEF Texts, Identities
<1>2. f \in Node /\ f.kind = "file" /\ f.id = Foreign
  <2>1. f = [kind |-> "file", id |-> Foreign, text |-> Foreign]
    BY ForeignFile
  <2> HIDE DEF f
  <2> QED BY <1>1, <2>1 DEF Node, Kinds
<1>3. Sound(tree) /\ tree \in Trees
  BY DEF TreeInv, Real, Sound
<1>4. PICK p \in Paths \ UndoPaths :
        \/ tree[p].kind = "file" /\ s = [tree EXCEPT ![p].text = Foreign]
        \/ tree[p].kind = "file" /\ s = [tree EXCEPT ![p] = f]
        \/ ~Exists(tree, p) /\ IsDirectory(tree, Parent(p)) /\ s = [tree EXCEPT ![p] = f]
        \/ Exists(tree, p) /\ ChildrenOf(tree, p) = {} /\ s = [tree EXCEPT ![p] = MissingNode]
  BY DEF Stranger
<1> HIDE DEF f
<1>5. \A n : [tree EXCEPT ![p] = n][p] = n /\ \A q \in Paths : q # p => [tree EXCEPT ![p] = n][q] = tree[q]
  BY <1>3 DEF Trees
<1>6. CASE tree[p].kind = "file" /\ s = [tree EXCEPT ![p].text = Foreign]
  <2> DEFINE m == tree[p]
             n == [m EXCEPT !.text = Foreign]
  <2>1. m \in Node
    BY <1>3, NodeTypes
  <2>2. n \in Node /\ n.kind = m.kind /\ n.id = m.id
    <3> HIDE DEF m
    <3> QED BY <1>1, <2>1 DEF Node
  <2>3. s = [tree EXCEPT ![p] = n] /\ s = Put(tree, p, n)
    BY <1>6 DEF Put
  <2> HIDE DEF n
  <2>4. n.id # NoId /\ n.kind = "file"
    BY <1>6, <2>2 DEF TreeInv, Real, Exists
  <2>5. n.id # Foreign => \A q \in Paths : Exists(tree, q) /\ tree[q].id = n.id => q = p
    BY <1>3, <2>2, <2>4 DEF Sound
  <2>6. Real(s)
    <3>1. Real(tree) /\ p \in Paths /\ n \in Node /\ n.kind = "file" /\ tree[p].kind = "file" /\ n.id # NoId
      BY <1>6, <2>2, <2>4 DEF TreeInv
    <3>2. Real(Put(tree, p, n))
      BY ONLY <2>5, <3>1, RealNode
    <3> QED BY ONLY <2>3, <3>2
  <2>7. Stems(s, tree)
    BY <1>5, <2>2, <2>3 DEF Stems
  <2> QED BY <2>6, <2>7
<1>7. CASE /\ tree[p].kind = "file" \/ (~Exists(tree, p) /\ IsDirectory(tree, Parent(p)))
           /\ s = [tree EXCEPT ![p] = f]
  <2>1. Real(s)
    <3>1. s = Put(tree, p, f) /\ f.id # NoId
      BY <1>1, <1>2, <1>7 DEF Put
    <3>2. Real(tree) /\ p \in Paths /\ f \in Node /\ f.kind = "file" /\ f.id = Foreign
          /\ (tree[p].kind = "file" \/ (~Exists(tree, p) /\ IsDirectory(tree, Parent(p))))
      BY <1>2, <1>7 DEF TreeInv
    <3>3. Real(Put(tree, p, f))
      BY ONLY <3>1, <3>2, RealNode
    <3> QED BY ONLY <3>1, <3>3
  <2>2. Stems(s, tree)
    BY <1>2, <1>5, <1>7 DEF Stems
  <2> QED BY <2>1, <2>2
<1>8. CASE Exists(tree, p) /\ ChildrenOf(tree, p) = {} /\ s = [tree EXCEPT ![p] = MissingNode]
  <2>1. \A q \in Paths : s[q] = tree[q] \/ s[q] = MissingNode
    BY <1>5, <1>8
  <2>2. s \in Trees
    BY <1>3, <1>8, NodeTypes
  <2>3. ASSUME NEW q \in Paths, Exists(s, q), Parent(q) # <<>> PROVE s[Parent(q)] = tree[Parent(q)]
    <3>1. Exists(tree, q) /\ q # p
      BY <1>5, <1>8, <2>3, NodeTypes DEF Exists
    <3>2. Parent(q) # p
      BY <1>8, <3>1 DEF ChildrenOf
    <3>3. Parent(q) \in Paths
      BY <2>3, PathFacts
    <3> QED BY <1>5, <1>8, <3>2, <3>3
  <2> QED BY <2>1, <2>2, <2>3, RealRemove DEF TreeInv
<1> QED BY <1>4, <1>6, <1>7, <1>8

\* Every step keeps the tree real and later identities unused.
LEMMA TreeNext ==
  ASSUME Control, TreeInv, FreshInv, [Next]_vars
  PROVE  TreeInv' /\ FreshInv'
<1>1. \A j \in DOMAIN UndoName : Ahead(j)' => Ahead(j)
  BY AheadNext
<1>2. ASSUME Real(tree'), Stems(tree', tree) PROVE TreeInv' /\ FreshInv'
  BY <1>1, <1>2, FreshKeeps DEF TreeInv
<1>3. CASE tree' = tree
  BY <1>2, <1>3, StemsItself DEF TreeInv
<1>4. CASE Truncate \/ Write \/ MoveAside \/ Rename \/ Delete \/ RemoveCreated \/ RenameLeg \/ Cleanup
  BY <1>2, <1>4, TreeMoves
<1>5. CASE Stranger
  BY <1>2, <1>5, TreeStranger
<1>6. CASE Create /\ tree' # tree
  <2>1. /\ at = "act" /\ ~Exists(tree, Operation.path) /\ IsDirectory(tree, Parent(Operation.path))
        /\ tree' = [tree EXCEPT ![Operation.path] = [NewFile EXCEPT !.id = CreatedId(number)]]
        /\ at' = "prove" /\ number' = number
    BY <1>6 DEF Create, Abort, Unfit, GoTo
  <2>2. number \in 1..N
    BY <2>1, AtWork DEF Working
  <2>3. Real(tree') /\ \A j \in DOMAIN UndoName, p \in Paths : j > number => tree'[p].id # CreatedId(j)
    BY <2>1, <2>2, TreeCreated
  <2>4. FreshInv'
    <3> SUFFICES ASSUME NEW j \in DOMAIN UndoName, NEW p \in Paths, Ahead(j)' PROVE tree'[p].id # CreatedId(j)
      BY DEF FreshInv, CreatedId
    <3>1. j > number
      BY <2>1 DEF Ahead
    <3> QED BY <2>3, <3>1
  <2> QED BY <2>3, <2>4 DEF TreeInv
<1>7. CASE UNCHANGED vars \/ Stage \/ Check \/ Retain \/ OpenText \/ Prove \/ Preflight \/ ReverseEffect \/ CheckLeg
           \/ Verify \/ FinishUndo \/ Recover \/ Crash \/ Fault
  <2>1. tree' = tree
    BY <1>7 DEF vars, Stage, Check, Retain, OpenText, Prove, Preflight, ReverseEffect, CheckLeg, Verify, FinishUndo,
       Recover, Crash, Fault, Abort
  <2> QED BY <1>3, <2>1
<1> QED BY <1>3, <1>4, <1>5, <1>6, <1>7 DEF Next

\* They hold at the start.
LEMMA TreeInit ==
  ASSUME Init
  PROVE  TreeInv /\ FreshInv
<1>1. plan \in DOMAIN Plans /\ tree = Plans[plan].disk
  BY DEF Init, disk
<1>2. Good(tree, tree, 0)
  BY <1>1, DiskGood
<1>3. TreeInv
  BY <1>2 DEF Good, TreeInv, Real, OwnNode
<1>4. FreshInv
  <2> SUFFICES ASSUME NEW j \in DOMAIN UndoName, NEW p \in Paths PROVE tree[p].id # CreatedId(j)
    BY DEF FreshInv
  <2>1. j > 0 /\ CreatedId(j) # NoId
    BY UndoAssumption, IdFacts
  <2>2. CASE Exists(tree, p)
    BY <1>2, <2>1, <2>2 DEF Good, OwnNode
  <2>3. CASE ~Exists(tree, p)
    <3>1. tree[p].id = NoId
      BY <1>2, <2>3, NodeTypes DEF Good, Sound, Exists
    <3> QED BY <2>1, <3>1
  <2> QED BY <2>2, <2>3
<1> QED BY <1>3, <1>4

-----------------------------------------------------------------------------
(* The files themselves *)

\* The tree of a plan before and after its operation i, and the slot of i empty
\* before it.
LEMMA NowFacts ==
  ASSUME plan \in DOMAIN Plans, NEW i \in 1..N
  PROVE  /\ Sound(Now(i - 1)) /\ Sound(Now(i)) /\ i \in DOMAIN UndoName
         /\ Now(i) = StepActual(Now(i - 1), operations[i], i)
         /\ LegalOn(Now(i - 1), operations[i], i)
         /\ \A p \in Paths : Exists(Now(i - 1), p) => Now(i - 1)[p].id \notin {NoId, Foreign}
         /\ \A p \in Paths : Exists(Now(i), p) => Now(i)[p].id \notin {NoId, Foreign}
         /\ \A p \in Paths : Under(p, Undo(i)) => ~Exists(Now(i - 1), p)
<1>1. /\ N = Len(Plans[plan].operations) /\ operations = Plans[plan].operations
      /\ DOMAIN operations = 1..N /\ N \in Nat
  BY PlanSize DEF N, operations
<1>2. i - 1 \in 0..N /\ i \in 0..N /\ i \in DOMAIN operations /\ i > i - 1
  BY <1>1
<1>3. i \in DOMAIN UndoName /\ LegalOn(Now(i - 1), operations[i], i) /\ Now(i) = StepActual(Now(i - 1), operations[i], i)
  BY <1>1, <1>2, PlanGood DEF Now
<1>4. Good(Now(i - 1), Outcome(i - 1), i - 1) /\ Good(Now(i), Outcome(i), i)
  BY <1>1, <1>2, PlanGood DEF Now, Outcome
<1>5. Sound(Now(i - 1)) /\ Sound(Now(i))
  BY <1>4 DEF Good
<1>6. \A p \in Paths : Exists(Now(i - 1), p) => Now(i - 1)[p].id \notin {NoId, Foreign}
  BY <1>4 DEF Good, OwnNode
<1>7. \A p \in Paths : Exists(Now(i), p) => Now(i)[p].id \notin {NoId, Foreign}
  BY <1>4 DEF Good, OwnNode
<1>8. \A p \in Paths : Under(p, Undo(i)) => ~Exists(Now(i - 1), p)
  BY <1>2, <1>3, <1>4 DEF Good
<1> QED BY <1>3, <1>5, <1>6, <1>7, <1>8

\* The first tree is the disk.
LEMMA NowFirst ==
  ASSUME plan \in DOMAIN Plans
  PROVE  Now(0) = disk /\ Sound(disk)
<1>1. Now(0) = disk
  BY ActualSteps DEF Now, disk
<1>2. Sound(disk)
  BY DiskGood DEF disk, Good
<1> QED BY <1>1, <1>2

\* The text of one file, once and again.
LEMMA TextAlgebra ==
  ASSUME NEW t \in Trees, NEW p \in Paths, NEW x
  PROVE  /\ TextTree(t, p, t[p].text) = t
         /\ TextTree(t, p, x)[p] = [t[p] EXCEPT !.text = x]
         /\ \A q \in Paths : q # p => TextTree(t, p, x)[q] = t[q]
         /\ DOMAIN TextTree(t, p, x) = Paths
<1>1. t \in [Paths -> Node] /\ t[p] \in Node
  BY NodeTypes
<1>2. t[p] = [kind |-> t[p].kind, id |-> t[p].id, text |-> t[p].text]
  BY <1>1 DEF Node
<1> DEFINE n == t[p]
<1>3. [n EXCEPT !.text = n.text] = n
  <2> HIDE DEF n
  <2>1. n = [kind |-> n.kind, id |-> n.id, text |-> n.text]
    BY <1>2 DEF n
  <2> QED BY <2>1, TextGiven
<1> DEFINE Wr(s, z) == [s EXCEPT ![p] = [s[p] EXCEPT !.text = z]]
<1>4. \A s, z : TextTree(s, p, z) = Wr(s, z)
  BY DEF TextTree
<1>5. \A z : /\ Wr(t, z)[p] = [n EXCEPT !.text = z]
             /\ \A q \in Paths : q # p => Wr(t, z)[q] = t[q]
             /\ DOMAIN Wr(t, z) = Paths
  BY <1>1
<1>7. Wr(t, n.text) = t
  <2> DEFINE e == [n EXCEPT !.text = n.text]
  <2>1. e = t[p]
    BY <1>3
  <2> HIDE DEF e
  <2>2. [t EXCEPT ![p] = e] = t
    BY <1>1, <2>1
  <2> QED BY <2>2 DEF e
<1> HIDE DEF Wr
<1> QED BY <1>4, <1>5, <1>7

\* Writing a text twice is writing it once; writing back the old text restores
\* the file.
LEMMA TextTwice ==
  ASSUME NEW t \in Trees, NEW p \in Paths, NEW x, NEW y, NEW s, s = TextTree(t, p, x)
  PROVE  /\ TextTree(s, p, y) = TextTree(t, p, y)
         /\ y = t[p].text => TextTree(s, p, y) = t
<1>1. TextTree(s, p, y) = TextTree(t, p, y)
  <2> DEFINE r == TextTree(s, p, y)
             q == TextTree(t, p, y)
  <2>1. t \in [Paths -> Node] /\ t[p] \in Node
    BY NodeTypes
  <2>2. s = [t EXCEPT ![p] = [t[p] EXCEPT !.text = x]] /\ q = [t EXCEPT ![p] = [t[p] EXCEPT !.text = y]]
        /\ r = [s EXCEPT ![p] = [s[p] EXCEPT !.text = y]]
    BY DEF TextTree
  <2>3. s[p] = [t[p] EXCEPT !.text = x]
    BY <2>1, <2>2
  <2>4. [s[p] EXCEPT !.text = y] = [t[p] EXCEPT !.text = y]
    <3> DEFINE n == t[p]
               m == s[p]
    <3>1. n = [kind |-> n.kind, id |-> n.id, text |-> n.text]
      BY <2>1 DEF Node
    <3>2. m = [n EXCEPT !.text = x]
      BY <2>3
    <3> HIDE DEF n, m
    <3>3. m = [kind |-> n.kind, id |-> n.id, text |-> x]
      BY <3>1, <3>2, TextGiven
    <3>4. [m EXCEPT !.text = y] = [n EXCEPT !.text = y]
      BY <3>1, <3>3, TextGiven
    <3> QED BY <3>4 DEF n, m
  <2> DEFINE e == [t[p] EXCEPT !.text = x]
             f == [t[p] EXCEPT !.text = y]
             g == [s[p] EXCEPT !.text = y]
  <2>5. s = [t EXCEPT ![p] = e] /\ q = [t EXCEPT ![p] = f] /\ r = [s EXCEPT ![p] = g] /\ f = g
    BY <2>2, <2>4
  <2> HIDE DEF e, f, g, r, q
  <2>6. r = q
    BY <2>1, <2>5
  <2> QED BY <2>6 DEF r, q
<1>2. TextTree(t, p, t[p].text) = t
  BY TextAlgebra
<1> QED BY <1>1, <1>2

\* A file's identity is its own, so a write through a handle is a write to the
\* file it was opened for.
LEMMA OverwrittenIs ==
  ASSUME NEW t, tree = t, t \in Trees, NEW p \in Paths, t[p].kind = "file", NEW id, t[p].id = id,
         \A q \in Paths : t[q].kind = "file" /\ t[q].id = id => q = p, NEW x
  PROVE  Overwritten(id, x) = TextTree(t, p, x)
<1> DEFINE r == TextTree(t, p, x)
<1>1. r[p] = [t[p] EXCEPT !.text = x] /\ (\A q \in Paths : q # p => r[q] = t[q]) /\ DOMAIN r = Paths
  BY TextAlgebra
<1>2. r = [q \in Paths |-> r[q]]
  <2>1. r = [t EXCEPT ![p] = [t[p] EXCEPT !.text = x]] /\ DOMAIN t = Paths /\ t = [q \in Paths |-> t[q]]
    BY NodeTypes DEF TextTree
  <2> QED BY <2>1
<1> HIDE DEF r
<1> DEFINE w(q) == IF t[q].kind = "file" /\ t[q].id = id THEN [t[q] EXCEPT !.text = x] ELSE t[q]
<1>3. Overwritten(id, x) = [q \in Paths |-> w(q)]
  BY DEF Overwritten
<1>4. \A q \in Paths : w(q) = r[q]
  <2> TAKE q \in Paths
  <2>1. CASE q = p
    BY <1>1, <2>1
  <2>2. CASE q # p
    BY <1>1, <2>2
  <2> QED BY <2>1, <2>2
<1> HIDE DEF w
<1> QED BY <1>2, <1>3, <1>4 DEF r

\* What verify_manifest checks.
LEMMA HoldsIs ==
  ASSUME NEW m
  PROVE  Holds(m) <=> HoldsIn(tree, m)
BY DEF Holds, HoldsIn, Inspectable

\* Calm goes back in time.
LEMMA CalmBefore ==
  ASSUME TypeInv, [Next]_vars, Calm'
  PROVE  /\ Calm /\ plan' = plan /\ ~Stranger
         /\ Crash => at \notin Undoing
         /\ Fault => at \in Committing
<1>0. ~Stranger
  BY DEF Stranger, Calm, TypeInv
<1>1. ~interrupted' /\ writes' = 0
  BY DEF Calm
<1>2. UNCHANGED vars => Calm /\ plan' = plan
  BY DEF vars, Calm
<1>3. ASSUME \/ Stage \/ Check \/ Retain \/ OpenText \/ Create \/ Truncate \/ Write \/ MoveAside \/ Rename \/ Delete \/ Prove
             \/ Preflight \/ ReverseEffect \/ RemoveCreated \/ CheckLeg \/ RenameLeg \/ Verify \/ FinishUndo \/ Recover \/ Cleanup
      PROVE  Calm /\ plan' = plan
  <2>1. plan' = plan /\ writes' = writes /\ interrupted' = interrupted
    BY <1>3 DEF Stage, Check, Retain, OpenText, Create, Truncate, Write, MoveAside, Rename, Delete, Prove, Preflight,
       ReverseEffect, RemoveCreated, CheckLeg, RenameLeg, Verify, FinishUndo, Recover, Cleanup, Keep
  <2> QED BY <2>1 DEF Calm
<1>4. Crash => plan' = plan /\ writes' = writes /\ interrupted' = (interrupted \/ at \in Undoing)
  BY DEF Crash
<1>5. Fault => plan' = plan /\ writes' = writes /\ interrupted' = (interrupted \/ at \notin Committing)
  BY DEF Fault
<1>6. (Crash => at \notin Undoing) /\ (Fault => at \in Committing)
  BY <1>1, <1>4, <1>5, Zenon
<1>7. Crash \/ Fault => Calm /\ plan' = plan
  BY <1>1, <1>4, <1>5, Zenon DEF Calm
<1>8. Calm /\ plan' = plan
  BY <1>0, <1>2, <1>3, <1>7 DEF Next, Calm, vars
<1> QED BY <1>0, <1>6, <1>8

\* A step that records nothing keeps the records exact.
LEMMA RecordsStay ==
  ASSUME RecordsExact, plan' = plan, progress' = progress
  PROVE  RecordsExact'
BY DEF RecordsExact, Now, Proved

\* The backup, once staged, is not touched.
LEMMA BackupStays ==
  ASSUME BackupExact, plan' = plan, backup' = backup, at \notin {"stage", "abandoned"}
  PROVE  BackupExact'
BY DEF BackupExact, Touched, disk

\* An intent recorded of an exact tree is exact.
LEMMA RecordsIntent ==
  ASSUME Control, RecordsExact, plan' = plan, at = "check", NEW m, progress' = Intended(m), NEW n, n = number,
         HoldsIn(Now(n - 1), m)
  PROVE  RecordsExact' /\ Len(progress') = n /\ Pending'
<1>1. n \in 1..N /\ n = Len(progress) + 1 /\ ~Pending
  <2>1. number \in 1..N /\ Len(progress) = number - 1 /\ ~Pending
    BY AtWork DEF Control, PlaceInv
  <2> QED BY <2>1
<1>2. /\ Len(progress') = n /\ Pending'
      /\ \A i \in DOMAIN progress : progress'[i] = progress[i]
      /\ progress'[n] = [before |-> m, after |-> NoManifest]
      /\ \A i \in DOMAIN progress' : i # n => i \in DOMAIN progress
      /\ ~Proved(n)'
      /\ \A i \in DOMAIN progress : Proved(i)' <=> Proved(i)
  BY <1>1, IntentFacts DEF Control
<1>3. RecordsExact'
  <2>1. \A i : Now(i)' = Now(i)
    BY SamePlan
  <2>2. progress'[n].before = m
    BY <1>2
  <2> SUFFICES ASSUME NEW i \in DOMAIN progress'
               PROVE  /\ HoldsIn(ActualOf(plan')[i - 1], progress'[i].before)
                      /\ progress'[i].after # NoManifest => HoldsIn(ActualOf(plan')[i], progress'[i].after)
    BY DEF RecordsExact, Now, Proved
  <2>3. CASE i = n
    BY <1>2, <2>2, <2>3 DEF Now, Proved
  <2>4. CASE i # n
    BY <1>2, <2>4 DEF Now, Proved, RecordsExact
  <2> QED BY <2>3, <2>4
<1> QED BY <1>2, <1>3

\* A proof recorded of an exact tree is exact.
LEMMA RecordsProof ==
  ASSUME Control, RecordsExact, plan' = plan, at = "prove", NEW m, progress' = Proven(m), m # NoManifest, NEW n, n = number,
         HoldsIn(Now(n), m)
  PROVE  RecordsExact' /\ Len(progress') = n /\ ~Pending'
<1>1. n \in 1..N /\ n >= 1 /\ Len(progress) = n
  <2>1. number \in 1..N /\ Len(progress) = number
    BY AtWork DEF Control, PlaceInv, Working
  <2> QED BY <2>1
<1>2. /\ Len(progress') = Len(progress) /\ DOMAIN progress' = DOMAIN progress
      /\ \A i \in DOMAIN progress : i # n => progress'[i] = progress[i]
      /\ progress'[n] = [before |-> progress[n].before, after |-> m]
      /\ ~Pending'
  BY <1>1, ProofFacts DEF Control
<1>3. RecordsExact'
  <2>1. progress'[n].before = progress[n].before /\ progress'[n].after = m
    BY <1>2
  <2> SUFFICES ASSUME NEW i \in DOMAIN progress'
               PROVE  /\ HoldsIn(ActualOf(plan')[i - 1], progress'[i].before)
                      /\ progress'[i].after # NoManifest => HoldsIn(ActualOf(plan')[i], progress'[i].after)
    BY DEF RecordsExact, Now, Proved
  <2>2. CASE i = n
    BY <1>2, <2>1, <2>2 DEF Now, RecordsExact
  <2>3. CASE i # n
    BY <1>2, <2>3 DEF Now, Proved, RecordsExact
  <2> QED BY <2>2, <2>3
<1> QED BY <1>1, <1>2, <1>3

\* A failed operation leaves the tree as it is, and a rollback to begin.
LEMMA AbortExact ==
  ASSUME Control, Exact, Keep, Abort, at \in Working \cup {"check"}
  PROVE  Exact'
<1>1. /\ plan' = plan /\ tree' = tree /\ progress' = progress /\ backup' = backup /\ at' = "undo"
  BY DEF Keep, Abort, GoTo
<1>2. BackupExact' /\ RecordsExact'
  BY <1>1, RecordsStay, BackupStays DEF Exact, Working
<1>3. Pending' <=> Pending
  BY <1>1, SameEvidence
<1>4. ~Pending => tree = Now(Len(progress))
  BY AtWork DEF Exact, ExactTree, Control, PlaceInv
<1>5. ExactTree'
  BY <1>1, <1>3, <1>4 DEF ExactTree, Now
<1> QED BY <1>2, <1>5 DEF Exact

\* Steps of the commit that change no record.
Onward ==
    /\ Control /\ at \in Working /\ Exact
    /\ plan' = plan /\ progress' = progress /\ backup' = backup /\ number' = number /\ expected' = expected

\* Exactness for the steps that only change the tree ...
LEMMA OnwardExact ==
  ASSUME Onward, ExactTree'
  PROVE  Exact'
BY RecordsStay, BackupStays DEF Exact, Onward, Working

\* ... and what such a step has in hand.
LEMMA WorkFacts ==
  ASSUME Onward
  PROVE  /\ plan \in DOMAIN Plans /\ number \in 1..N /\ Operation' = Operation /\ Operation = operations[number]
         /\ Pending' /\ Pending /\ \A n : Now(n)' = Now(n)
<1>1. plan \in DOMAIN Plans /\ number \in 1..N /\ Pending
  BY AtWork DEF Onward
<1>2. Pending'
  BY <1>1, SameEvidence DEF Onward
<1>3. Operation' = Operation /\ Operation = operations[number]
  BY SameOperation DEF Onward, Operation
<1>4. \A n : Now(n)' = Now(n)
  BY SamePlan DEF Onward
<1> QED BY <1>1, <1>2, <1>3, <1>4

\* Exactness, action by action.
LEMMA ExactStage ==
  ASSUME Control, Exact, Stage
  PROVE  Exact'
<1>1. /\ plan' = plan /\ progress' = progress /\ tree' = tree /\ number' = number /\ number = 1 /\ plan \in DOMAIN Plans
      /\ at = "stage"
      /\ \/ at' = "check" /\ backup' = [p \in Touched |-> tree[p].text]
         \/ at' = "abandoned"
  BY DEF Stage, Keep, GoTo, Control, PlaceInv, TypeInv
<1>2. tree = Now(0)
  BY <1>1 DEF Exact, ExactTree
<1>3. RecordsExact'
  BY <1>1, RecordsStay DEF Exact
<1>4. BackupExact'
  BY <1>1, <1>2, NowFirst, SamePlan DEF BackupExact
<1>5. ExactTree'
  BY <1>1, <1>2 DEF ExactTree, Now
<1> QED BY <1>3, <1>4, <1>5 DEF Exact

\* Check keeps the exact tree.
LEMMA ExactCheck ==
  ASSUME Control, Exact, Check
  PROVE  Exact'
<1>1. CASE Abort
  BY <1>1, AbortExact DEF Check
<1>2. CASE /\ Holds(WithUndo(expected, number)) /\ progress' = Intended(WithUndo(expected, number))
           /\ at' = "retain" /\ tree' = tree /\ backup' = backup /\ number' = number
  <2>1. at = "check" /\ plan' = plan
    BY DEF Check, Keep
  <2>2. tree = Now(number - 1)
    BY <2>1 DEF Exact, ExactTree
  <2>3. HoldsIn(Now(number - 1), WithUndo(expected, number))
    BY <1>2, <2>2, HoldsIs
  <2>4. RecordsExact'
    <3>1. PICK n : n = number
      OBVIOUS
    <3> QED BY <1>2, <2>1, <2>3, <3>1, RecordsIntent DEF Exact
  <2>5. BackupExact'
    BY <1>2, <2>1, BackupStays DEF Exact
  <2>6. ExactTree'
    BY <1>2, <2>1, <2>2 DEF ExactTree, Now
  <2> QED BY <2>4, <2>5, <2>6 DEF Exact
<1> QED BY <1>1, <1>2 DEF Check, GoTo

\* Retain keeps the exact tree.
LEMMA ExactRetain ==
  ASSUME Control, Exact, Retain
  PROVE  Exact'
<1>1. CASE Abort
  BY <1>1, AbortExact DEF Retain, Working
<1>2. CASE at' = "act" /\ UNCHANGED <<tree, backup, progress, expected, number, handle, move>>
  <2>1. at = "retain" /\ plan' = plan
    BY DEF Retain, Keep
  <2>2. ExactTree'
    BY <1>2, <2>1 DEF Exact, ExactTree, Now
  <2> QED BY <1>2, <2>1, <2>2, OnwardExact DEF Onward, Working
<1> QED BY <1>1, <1>2 DEF Retain, GoTo

\* OpenText keeps the exact tree.
LEMMA ExactOpenText ==
  ASSUME Control, Exact, OpenText
  PROVE  Exact'
<1>1. CASE Abort
  BY <1>1, AbortExact DEF OpenText, Working
<1>2. CASE /\ at' = "truncate" /\ UNCHANGED <<tree, backup, progress, expected, number, move>>
           /\ tree[Operation.path].kind = "file"
           /\ handle' = [id |-> tree[Operation.path].id, text |-> Operation.after]
  <2>1. at = "act" /\ plan' = plan /\ Operation.kind = "text"
    BY DEF OpenText, Keep
  <2>2. Onward
    BY <1>2, <2>1 DEF Onward, Working
  <2>3. tree = Now(number - 1)
    BY <2>1 DEF Exact, ExactTree
  <2>4. tree' = Now(number - 1) /\ Open(number - 1, Operation.after)'
    BY <1>2, <2>1, <2>3 DEF Open, Now, Operation, operations
  <2>5. ExactTree'
    BY <1>2, <2>1, <2>4 DEF ExactTree, Now, Operation, operations, Open
  <2> QED BY <2>2, <2>5, OnwardExact
<1> QED BY <1>1, <1>2 DEF OpenText, GoTo

\* On the plan's own tree no operation finds anything to ignore.
LEMMA NothingIgnored ==
  ASSUME Control, at = "act", tree = Now(number - 1)
  PROVE  /\ Operation.kind = "create" /\ Exists(tree, Operation.path) => Operation.overwrite
         /\ Operation.kind = "rename" /\ Exists(tree, Operation.new) => Operation.overwrite
         /\ Operation.kind = "delete" => Exists(tree, Operation.path)
BY AtWork, Legal DEF LegalOn, Working, Exists

\* The tree after creating a missing file ...
LEMMA CreatedFresh ==
  ASSUME NEW t, NEW p, NEW i, ~Exists(t, p)
  PROVE  CreatedTree(t, p, i) = [t EXCEPT ![p] = [NewFile EXCEPT !.id = CreatedId(i)]]
BY DEF CreatedTree, Created

\* ... and after overwriting one.
LEMMA CreatedOver ==
  ASSUME NEW t, NEW p, NEW i, Exists(t, p)
  PROVE  CreatedTree(t, p, i) = TextTree(t, p, <<>>)
BY DEF CreatedTree, TextTree

\* Create keeps the exact tree.
LEMMA ExactCreate ==
  ASSUME Control, Exact, Create
  PROVE  Exact'
<1>0. at = "act" /\ plan' = plan /\ Operation.kind = "create" /\ tree = Now(number - 1)
  BY DEF Create, Keep, Exact, ExactTree
<1>1. CASE Abort
  BY <1>0, <1>1, AbortExact DEF Create, Working
<1>2. CASE /\ tree[Operation.path].kind = "file"
           /\ handle' = [id |-> tree[Operation.path].id, text |-> <<>>] /\ at' = "truncate"
           /\ UNCHANGED <<tree, backup, progress, expected, number, move>>
  <2>1. Onward
    BY <1>0, <1>2 DEF Onward, Working
  <2>2. ExactTree'
    BY <1>0, <1>2 DEF ExactTree, Now, Operation, operations, Open
  <2> QED BY <2>1, <2>2, OnwardExact
<1>3. CASE /\ ~Exists(tree, Operation.path) /\ at' = "prove"
           /\ tree' = [tree EXCEPT ![Operation.path] = [NewFile EXCEPT !.id = CreatedId(number)]]
           /\ UNCHANGED <<backup, progress, expected, number, move>>
  <2>1. Onward
    BY <1>0, <1>3 DEF Onward, Working
  <2>2. number \in 1..N /\ Operation = operations[number] /\ plan \in DOMAIN Plans
    BY <2>1, WorkFacts
  <2>3. Now(number) = StepActual(tree, Operation, number)
    BY <1>0, <2>2, NowFacts
  <2>4. Now(number) = CreatedTree(tree, Operation.path, number)
    BY <1>0, <2>3 DEF StepActual
  <2>5. tree' = Now(number)
    BY <1>3, <2>4, CreatedFresh
  <2>6. ExactTree'
    BY <1>0, <1>3, <2>5 DEF ExactTree, Now
  <2> QED BY <2>1, <2>6, OnwardExact
<1> QED BY <1>0, <1>1, <1>2, <1>3, NothingIgnored DEF Create, GoTo, Unfit

\* What the handle is open for.
LEMMA HandleFacts ==
  ASSUME plan \in DOMAIN Plans, NEW i \in 0..N, N \in Nat, N >= 1, NEW a \in Paths, Now(i)[a].kind = "file", Now(i)[a].id = handle.id
  PROVE  /\ Now(i) \in Trees
         /\ \A q \in Paths : Now(i)[q].kind = "file" /\ Now(i)[q].id = handle.id => q = a
         /\ \A x \in Texts : TextTree(Now(i), a, x) \in Trees
<1>1. Sound(Now(i)) /\ \A p \in Paths : Exists(Now(i), p) => Now(i)[p].id \notin {NoId, Foreign}
  <2>1. CASE i = 0
    <3>1. 1 \in 1..N /\ 1 - 1 = 0
      OBVIOUS
    <3> QED BY <2>1, <3>1, NowFacts
  <2>2. CASE i \in 1..N
    BY <2>2, NowFacts
  <2> QED BY <2>1, <2>2
<1>2. Now(i) \in Trees
  BY <1>1 DEF Sound
<1>3. \A q \in Paths : Now(i)[q].kind = "file" /\ Now(i)[q].id = handle.id => q = a
  BY <1>1 DEF Sound, Exists
<1> QED BY <1>2, <1>3, TreeOps

\* A write through the handle to the file it was opened for.
LEMMA WritesHere ==
  ASSUME plan \in DOMAIN Plans, NEW i \in 0..N, N \in Nat, N >= 1, NEW a \in Paths, Now(i)[a].kind = "file",
         Now(i)[a].id = handle.id, NEW x \in Texts
  PROVE  /\ tree = Now(i) => Overwritten(handle.id, x) = TextTree(Now(i), a, x)
         /\ tree = TextTree(Now(i), a, <<>>) => Overwritten(handle.id, x) = TextTree(Now(i), a, x)
<1> DEFINE t == Now(i)
           s == TextTree(t, a, <<>>)
           id == handle.id
<1>1. t \in Trees /\ (\A q \in Paths : t[q].kind = "file" /\ t[q].id = id => q = a) /\ s \in Trees
  BY HandleFacts DEF Texts
<1>2. tree = t => Overwritten(id, x) = TextTree(t, a, x)
  <2> SUFFICES ASSUME tree = t PROVE Overwritten(id, x) = TextTree(t, a, x)
    OBVIOUS
  <2>1. t[a].kind = "file" /\ t[a].id = id
    OBVIOUS
  <2>2. tree \in Trees /\ tree[a].kind = "file" /\ tree[a].id = id /\ \A q \in Paths : tree[q].kind = "file" /\ tree[q].id = id => q = a
    BY <1>1, <2>1
  <2> HIDE DEF t, id
  <2> QED BY <2>2, OverwrittenIs
<1>3. tree = s => Overwritten(id, x) = TextTree(t, a, x)
  <2> SUFFICES ASSUME tree = s PROVE Overwritten(id, x) = TextTree(t, a, x)
    OBVIOUS
  <2>1. t[a] = [kind |-> t[a].kind, id |-> t[a].id, text |-> t[a].text]
    <3>1. t[a] \in Node
      BY <1>1, NodeTypes
    <3> QED BY <3>1 DEF Node
  <2>2. s[a] = [t[a] EXCEPT !.text = <<>>] /\ \A q \in Paths : q # a => s[q] = t[q]
    BY <1>1, TextAlgebra
  <2>3. TextTree(s, a, x) = TextTree(t, a, x)
    <3> HIDE DEF t
    <3> QED BY <1>1, TextTwice
  <2>4. s[a].kind = "file" /\ s[a].id = id
    <3>1. t[a].kind = "file" /\ t[a].id = id
      OBVIOUS
    <3> HIDE DEF t, s, id
    <3> QED BY <2>1, <2>2, <3>1
  <2>5. \A q \in Paths : s[q].kind = "file" /\ s[q].id = id => q = a
    <3> HIDE DEF t, s, id
    <3> QED BY <1>1, <2>2
  <2>6. tree \in Trees /\ tree[a].kind = "file" /\ tree[a].id = id /\ \A q \in Paths : tree[q].kind = "file" /\ tree[q].id = id => q = a
    BY <1>1, <2>4, <2>5
  <2> HIDE DEF t, s, id
  <2>7. Overwritten(id, x) = TextTree(tree, a, x)
    BY <2>6, OverwrittenIs
  <2> QED BY <2>3, <2>7
<1> QED BY <1>2, <1>3

\* Truncate keeps the exact tree.
LEMMA ExactTruncate ==
  ASSUME Control, Exact, Truncate
  PROVE  Exact'
<1>0. /\ plan' = plan /\ UNCHANGED <<backup, progress, expected, number, handle, move>>
      /\ tree' = Overwritten(handle.id, <<>>) /\ <<>> \in Texts
      /\ at' = (IF at = "undo_truncate" THEN "undo_write" ELSE IF Operation.kind = "text" THEN "write" ELSE "prove")
      /\ at \in {"truncate", "undo_truncate"}
  BY DEF Truncate, Keep, GoTo, Texts
<1>1. /\ plan \in DOMAIN Plans /\ number \in 1..N /\ number \in 0..N /\ number - 1 \in 0..N /\ N \in Nat /\ N >= 1
      /\ Operation = operations[number] /\ Operation.path \in Paths
  <2>1. plan \in DOMAIN Plans /\ number \in 1..N /\ N \in Nat
    BY <1>0, AtWork DEF Working, Undoing
  <2> QED BY <2>1, PlanSize DEF Operation
<1>2. RecordsExact' /\ BackupExact'
  BY <1>0, RecordsStay, BackupStays DEF Exact
<1>3. CASE at = "truncate"
  <2>1. tree = Now(number - 1) /\ Open(number - 1, IF Operation.kind = "text" THEN Operation.after ELSE <<>>)
    BY <1>3 DEF Exact, ExactTree
  <2>2. tree' = Emptied(number - 1)
    <3>1. Now(number - 1)[Operation.path].kind = "file" /\ Now(number - 1)[Operation.path].id = handle.id
      BY <2>1 DEF Open
    <3>2. PICK i \in 0..N : i = number - 1
      BY <1>1
    <3>3. Overwritten(handle.id, <<>>) = TextTree(Now(i), Operation.path, <<>>)
      BY <1>0, <1>1, <2>1, <3>1, <3>2, WritesHere
    <3> QED BY <1>0, <3>2, <3>3 DEF Emptied
  <2>3. CASE Operation.kind = "text"
    <3>1. at' = "write" /\ Open(number - 1, Operation.after)
      BY <1>0, <1>3, <2>1, <2>3
    <3>2. ExactTree'
      BY <1>0, <2>2, <3>1 DEF ExactTree, Now, Operation, operations, Open, Emptied
    <3> QED BY <1>2, <3>2 DEF Exact
  <2>4. CASE Operation.kind # "text"
    <3>1. at' = "prove" /\ Operation.kind = "create"
      BY <1>0, <1>3, <2>4 DEF Control, StepInv
    <3>2. Now(number) = CreatedTree(Now(number - 1), Operation.path, number)
      BY <1>1, <3>1, NowFacts DEF StepActual
    <3>3. Exists(Now(number - 1), Operation.path)
      BY <2>1 DEF Open, Exists
    <3>4. tree' = Now(number)
      BY <2>2, <3>2, <3>3, CreatedOver DEF Emptied
    <3>5. ExactTree'
      BY <1>0, <3>1, <3>4 DEF ExactTree, Now
    <3> QED BY <1>2, <3>5 DEF Exact
  <2> QED BY <2>3, <2>4
<1>4. CASE at = "undo_truncate"
  <2>1. tree = Now(number) /\ Open(number, Now(number - 1)[Operation.path].text) /\ Now(number - 1)[Operation.path].kind = "file"
    BY <1>4 DEF Exact, ExactTree
  <2>2. tree' = Emptied(number)
    <3>1. Now(number)[Operation.path].kind = "file" /\ Now(number)[Operation.path].id = handle.id
      BY <2>1 DEF Open
    <3>2. PICK i \in 0..N : i = number
      BY <1>1
    <3>3. Overwritten(handle.id, <<>>) = TextTree(Now(i), Operation.path, <<>>)
      BY <1>0, <1>1, <2>1, <3>1, <3>2, WritesHere
    <3> QED BY <1>0, <3>2, <3>3 DEF Emptied
  <2>3. at' = "undo_write"
    BY <1>0, <1>4
  <2>4. ExactTree'
    BY <1>0, <2>1, <2>2, <2>3 DEF ExactTree, Now, Operation, operations, Open, Emptied
  <2> QED BY <1>2, <2>4 DEF Exact
<1> QED BY <1>0, <1>3, <1>4

\* Write keeps the exact tree.
LEMMA ExactWrite ==
  ASSUME Control, Exact, Write
  PROVE  Exact'
<1>0. /\ plan' = plan /\ UNCHANGED <<backup, progress, expected, number, handle, move>>
      /\ tree' = Overwritten(handle.id, handle.text) /\ handle.text \in Texts
      /\ at' = (IF at = "write" THEN "prove" ELSE "undo_verify")
      /\ at \in {"write", "undo_write"}
  BY DEF Write, Keep, GoTo, Control, TypeInv
<1>1. /\ plan \in DOMAIN Plans /\ number \in 1..N /\ number \in 0..N /\ number - 1 \in 0..N /\ N \in Nat /\ N >= 1
      /\ Operation = operations[number] /\ Operation.path \in Paths
  <2>1. plan \in DOMAIN Plans /\ number \in 1..N /\ N \in Nat
    BY <1>0, AtWork DEF Working, Undoing
  <2> QED BY <2>1, PlanSize DEF Operation
<1>2. RecordsExact' /\ BackupExact'
  BY <1>0, RecordsStay, BackupStays DEF Exact
<1>3. CASE at = "write"
  <2>1. tree = Emptied(number - 1) /\ Open(number - 1, Operation.after) /\ Operation.kind = "text"
    BY <1>3 DEF Exact, ExactTree, Control, StepInv
  <2>2. tree' = TextTree(Now(number - 1), Operation.path, Operation.after)
    <3>1. Now(number - 1)[Operation.path].kind = "file" /\ Now(number - 1)[Operation.path].id = handle.id
          /\ handle.text = Operation.after
      BY <2>1 DEF Open
    <3>2. PICK i \in 0..N : i = number - 1
      BY <1>1
    <3>3. tree = TextTree(Now(i), Operation.path, <<>>)
      BY <2>1, <3>2 DEF Emptied
    <3>4. Overwritten(handle.id, handle.text) = TextTree(Now(i), Operation.path, handle.text)
      BY <1>0, <1>1, <3>1, <3>2, <3>3, WritesHere
    <3> QED BY <1>0, <3>1, <3>2, <3>4
  <2>3. Now(number) = TextTree(Now(number - 1), Operation.path, Operation.after)
    BY <1>1, <2>1, NowFacts DEF StepActual
  <2>4. ExactTree'
    BY <1>0, <1>3, <2>2, <2>3 DEF ExactTree, Now
  <2> QED BY <1>2, <2>4 DEF Exact
<1>4. CASE at = "undo_write"
  <2>1. /\ tree = Emptied(number) /\ Open(number, Now(number - 1)[Operation.path].text)
        /\ Now(number - 1)[Operation.path].kind = "file" /\ Operation.kind \in {"text", "create"}
    BY <1>4 DEF Exact, ExactTree, Control, StepInv
  <2>2. tree' = TextTree(Now(number), Operation.path, Now(number - 1)[Operation.path].text)
    <3>1. Now(number)[Operation.path].kind = "file" /\ Now(number)[Operation.path].id = handle.id
          /\ handle.text = Now(number - 1)[Operation.path].text
      BY <2>1 DEF Open
    <3>2. PICK i \in 0..N : i = number
      BY <1>1
    <3>3. tree = TextTree(Now(i), Operation.path, <<>>)
      BY <2>1, <3>2 DEF Emptied
    <3>4. Overwritten(handle.id, handle.text) = TextTree(Now(i), Operation.path, handle.text)
      BY <1>0, <1>1, <3>1, <3>2, <3>3, WritesHere
    <3> QED BY <1>0, <3>1, <3>2, <3>4
  <2>3. \E x : Now(number) = TextTree(Now(number - 1), Operation.path, x)
    <3>1. CASE Operation.kind = "text"
      BY <1>1, <3>1, NowFacts DEF StepActual
    <3>2. CASE Operation.kind = "create"
      <4>1. Now(number) = CreatedTree(Now(number - 1), Operation.path, number)
        BY <1>1, <3>2, NowFacts DEF StepActual
      <4> QED BY <2>1, <4>1, CreatedOver DEF Exists
    <3> QED BY <2>1, <3>1, <3>2
  <2>4. tree' = Now(number - 1)
    <3> DEFINE t == Now(number - 1)
               a == Operation.path
    <3>1. t \in Trees /\ a \in Paths
      BY <1>1, NowFacts DEF Sound
    <3>2. PICK x : Now(number) = TextTree(t, a, x)
      BY <2>3
    <3>3. tree' = TextTree(Now(number), a, t[a].text)
      BY <2>2
    <3> HIDE DEF t, a
    <3>4. tree' = t
      BY <3>1, <3>2, <3>3, TextTwice
    <3> QED BY <3>4 DEF t
  <2>5. ExactTree'
    BY <1>0, <1>4, <2>4 DEF ExactTree, Now
  <2> QED BY <1>2, <2>5 DEF Exact
<1> QED BY <1>0, <1>3, <1>4

\* MoveAside keeps the exact tree.
LEMMA ExactMoveAside ==
  ASSUME Control, Exact, MoveAside
  PROVE  Exact'
<1>0. at = "act" /\ plan' = plan /\ Operation.kind = "rename" /\ tree = Now(number - 1)
  BY DEF MoveAside, Keep, Exact, ExactTree
<1>1. CASE Abort
  BY <1>0, <1>1, AbortExact DEF MoveAside, Working
<1>2. CASE /\ at' = "rename" /\ UNCHANGED <<backup, progress, expected, number, handle, move>>
           /\ \/ Exists(tree, Operation.new) /\ tree' = RenameTree(tree, Operation.new, Undo(number))
              \/ ~Exists(tree, Operation.new) /\ tree' = tree
  <2>1. Onward
    BY <1>0, <1>2 DEF Onward, Working
  <2>2. tree' = Aside(Now(number - 1), Operation, number)
    BY <1>0, <1>2 DEF Aside
  <2>3. ExactTree'
    BY <1>0, <1>2, <2>2 DEF ExactTree, Now, Operation, operations
  <2> QED BY <2>1, <2>3, OnwardExact
<1> QED BY <1>0, <1>1, <1>2, NothingIgnored DEF MoveAside, GoTo, Unfit

\* Rename keeps the exact tree.
LEMMA ExactRename ==
  ASSUME Control, Exact, Rename
  PROVE  Exact'
<1>0. /\ at = "rename" /\ plan' = plan /\ Operation.kind = "rename"
      /\ tree = Aside(Now(number - 1), Operation, number)
  BY DEF Rename, Keep, Exact, ExactTree, Control, StepInv
<1>1. CASE Abort
  BY <1>0, <1>1, AbortExact DEF Rename, Working
<1>2. CASE /\ at' = "prove" /\ UNCHANGED <<backup, progress, expected, number, handle, move>>
           /\ tree' = RenameTree(tree, Operation.path, Operation.new)
  <2>1. Onward
    BY <1>0, <1>2 DEF Onward, Working
  <2>2. tree' = Now(number)
    BY <1>0, <1>2, <2>1, WorkFacts, NowFacts DEF StepActual
  <2>3. ExactTree'
    BY <1>0, <1>2, <2>2 DEF ExactTree, Now
  <2> QED BY <2>1, <2>3, OnwardExact
<1> QED BY <1>1, <1>2 DEF Rename, GoTo

\* Delete keeps the exact tree.
LEMMA ExactDelete ==
  ASSUME Control, Exact, Delete
  PROVE  Exact'
<1>0. at = "act" /\ plan' = plan /\ Operation.kind = "delete" /\ tree = Now(number - 1)
  BY DEF Delete, Keep, Exact, ExactTree
<1>1. CASE Abort
  BY <1>0, <1>1, AbortExact DEF Delete, Working
<1>2. CASE /\ at' = "prove" /\ UNCHANGED <<backup, progress, expected, number, handle, move>>
           /\ tree' = RenameTree(tree, Operation.path, Undo(number))
  <2>1. Onward
    BY <1>0, <1>2 DEF Onward, Working
  <2>2. tree' = Now(number)
    BY <1>0, <1>2, <2>1, WorkFacts, NowFacts DEF StepActual
  <2>3. ExactTree'
    BY <1>0, <1>2, <2>2 DEF ExactTree, Now
  <2> QED BY <2>1, <2>3, OnwardExact
<1> QED BY <1>0, <1>1, <1>2, NothingIgnored DEF Delete, GoTo, Unfit

\* Prove keeps the exact tree.
LEMMA ExactProve ==
  ASSUME Control, Exact, Prove
  PROVE  Exact'
<1> DEFINE after == OperationAfter(expected, number)
           last == number = Len(operations)
<1>0. at = "prove" /\ plan' = plan /\ tree = Now(number) /\ number \in 1..N
  <2>1. at = "prove" /\ plan' = plan
    BY DEF Prove, Keep
  <2> QED BY <2>1, AtWork DEF Exact, ExactTree, Working
<1>1. CASE Abort
  BY <1>0, <1>1, AbortExact DEF Prove, Working
<1>2. CASE /\ after # NoManifest /\ Holds(after) /\ progress' = Proven(after)
           /\ number' = (IF last THEN number ELSE number + 1)
           /\ at' = (IF last THEN "committed" ELSE "check") /\ tree' = tree /\ backup' = backup
  <2>1. HoldsIn(Now(number), after)
    BY <1>0, <1>2, HoldsIs
  <2>2. RecordsExact'
    <3> HIDE DEF after
    <3>1. PICK n : n = number
      OBVIOUS
    <3> QED BY <1>0, <1>2, <2>1, <3>1, RecordsProof DEF Exact
  <2>3. BackupExact'
    BY <1>0, <1>2, BackupStays DEF Exact
  <2>4. ExactTree'
    <3>1. CASE last
      BY <1>0, <1>2, <3>1 DEF ExactTree
    <3>2. CASE ~last
      <4>1. at' = "check" /\ number' - 1 = number
        BY <1>0, <1>2, <3>2
      <4> QED BY <1>0, <1>2, <4>1 DEF ExactTree, Now
    <3> QED BY <3>1, <3>2
  <2> QED BY <2>2, <2>3, <2>4 DEF Exact
<1> QED BY <1>1, <1>2 DEF Prove, GoTo

-----------------------------------------------------------------------------
(* Moves and the way back *)

\* What a move to a free place leaves, and that it can be undone.
LEMMA MovedAway ==
  ASSUME NEW t, Sound(t), NEW a \in Paths, NEW b \in Paths, Apart(a, b), Closed(t, a, b),
         \A p \in Paths : Under(p, b) => ~Exists(t, p), Exists(t, a), IsDirectory(t, Parent(b)),
         NEW r, r = RenameTree(t, a, b)
  PROVE  /\ Sound(r) /\ r[b] = t[a] /\ Exists(r, b) /\ ~Exists(r, a)
         /\ IsDirectory(r, Parent(a)) /\ IsDirectory(r, Parent(b))
         /\ RenameTree(r, b, a) = t
<1>1. a \in AnyPath /\ b \in AnyPath /\ Parent(a) \in AnyPath /\ Parent(b) \in AnyPath
  BY PathFacts
<1>2. Apart(b, a) /\ Under(a, a) /\ Under(b, b) /\ ~Under(Parent(a), b) /\ ~Under(Parent(b), a) /\ ~Under(a, b)
  BY <1>1, ApartFacts, UnderOrder DEF Apart
<1>3. \A p \in Paths : ~Under(Parent(p), p)
  <2> TAKE p \in Paths
  <2>1. Below(p, Parent(p)) /\ Parent(p) # p /\ p \in AnyPath /\ Parent(p) \in AnyPath
    BY ParentFacts, PathFacts
  <2> QED BY <2>1, UnderOrder DEF Below
<1>4. Sound(r)
  BY RenameSound
<1>5. RenameTree(r, b, a) = t
  BY RenameBack
<1>6. Rebase(b, b, a) = a
  BY <1>1, <1>2, RebaseFacts
<1>7. r[b] = t[a]
  BY <1>1, <1>2, <1>6, RenamedAt
<1>8. r[a] = MissingNode
  BY <1>1, <1>2, RenamedAway
<1>9. \A p \in Paths : ~Under(p, a) /\ ~Under(p, b) => r[p] = t[p]
  BY <1>1, RenamedElse
<1>10. IsDirectory(r, Parent(a))
  <2> SUFFICES ASSUME Parent(a) # <<>> PROVE r[Parent(a)].kind = "directory"
    BY DEF IsDirectory
  <2>1. Parent(a) \in Paths
    BY PathFacts
  <2>2. r[Parent(a)] = t[Parent(a)]
    BY <1>2, <1>3, <1>9, <2>1
  <2>3. IsDirectory(t, Parent(a))
    BY DEF Sound, WellFormedTree
  <2> QED BY <2>2, <2>3 DEF IsDirectory
<1>11. IsDirectory(r, Parent(b))
  <2> SUFFICES ASSUME Parent(b) # <<>> PROVE r[Parent(b)].kind = "directory"
    BY DEF IsDirectory
  <2>1. Parent(b) \in Paths
    BY PathFacts
  <2>2. r[Parent(b)] = t[Parent(b)]
    BY <1>2, <1>3, <1>9, <2>1
  <2> QED BY <2>2 DEF IsDirectory
<1>12. Exists(r, b) /\ ~Exists(r, a)
  BY <1>7, <1>8, NodeTypes DEF Exists
<1> QED BY <1>4, <1>5, <1>7, <1>10, <1>11, <1>12

\* A rename in two moves.
RenameMoves(t, w, z, a, b, u) ==
    /\ Sound(w) /\ Sound(z)
    /\ ~Exists(t, b) => w = t
    /\ Exists(t, b) => Exists(w, u) /\ ~Exists(w, b) /\ IsDirectory(w, Parent(b)) /\ RenameTree(w, u, b) = t
    /\ Exists(z, u) <=> Exists(t, b)
    /\ Exists(z, b) /\ ~Exists(z, a) /\ IsDirectory(z, Parent(a)) /\ RenameTree(z, b, a) = w
    /\ \A q \in Paths : Under(q, u) => w[q] = z[q]
    /\ IsDirectory(w, Parent(b)) /\ Exists(w, a) /\ ~Exists(w, b)

\* The two legs that undo a rename lead back through the tree with its target
\* aside.
LEMMA RenameLegs ==
  ASSUME plan \in DOMAIN Plans, NEW i \in 1..N, NEW o, o = operations[i], o.kind = "rename"
  PROVE  RenameMoves(Now(i - 1), Aside(Now(i - 1), o, i), Now(i), o.path, o.new, Undo(i))
<1> DEFINE t == Now(i - 1)
           w == Aside(t, o, i)
           z == Now(i)
           a == o.path
           b == o.new
           u == Undo(i)
<1>1. /\ Sound(t) /\ Sound(z) /\ i \in DOMAIN UndoName /\ z = StepActual(t, o, i) /\ LegalOn(t, o, i)
      /\ \A p \in Paths : Under(p, u) => ~Exists(t, p)
  BY NowFacts
<1>2. /\ a \in Paths /\ b \in Paths /\ a \notin UndoPaths /\ b \notin UndoPaths /\ Apart(a, b) /\ Exists(t, a)
      /\ IsDirectory(t, Parent(b)) /\ MovesWithin(t, a, b) /\ MovesWithin(t, b, u)
  BY <1>1 DEF LegalOn
<1>3. u \in Paths /\ Apart(a, u) /\ Apart(b, u) /\ Parent(u) = <<>>
  BY <1>1, <1>2, UndoFacts
<1>4. Way(t, a, b, u, w)
  BY <1>1, AsideFacts
<1>5. z = RenameTree(w, a, b)
  BY <1>1 DEF StepActual
<1>6. w = IF Exists(t, b) THEN RenameTree(t, b, u) ELSE t
  BY DEF Aside
<1>7. a \in AnyPath /\ b \in AnyPath /\ u \in AnyPath /\ Under(a, a)
  BY <1>2, <1>3, PathFacts, UnderOrder
<1> HIDE DEF t, w, z, a, b, u
<1>8. Closed(w, a, b)
  <2>1. Closed(t, a, b)
    BY <1>1, <1>2, ClosedBy DEF Sound
  <2> QED BY <1>4, <2>1 DEF Closed, Way, Exists
<1>9. /\ Sound(w) /\ (\A p \in Paths : Under(p, b) => ~Exists(w, p)) /\ IsDirectory(w, Parent(b)) /\ w[a] = t[a]
  BY <1>2, <1>4, <1>7 DEF Way
<1>10. Exists(w, a)
  BY <1>2, <1>9 DEF Exists
<1>11. Exists(z, b) /\ ~Exists(z, a) /\ IsDirectory(z, Parent(a)) /\ RenameTree(z, b, a) = w
  BY <1>2, <1>5, <1>8, <1>9, <1>10, MovedAway
<1>12. Exists(t, b) => Exists(w, u) /\ ~Exists(w, b) /\ IsDirectory(w, Parent(b)) /\ RenameTree(w, u, b) = t
  <2> SUFFICES ASSUME Exists(t, b) PROVE Exists(w, u) /\ ~Exists(w, b) /\ IsDirectory(w, Parent(b)) /\ RenameTree(w, u, b) = t
    OBVIOUS
  <2>1. w = RenameTree(t, b, u)
    BY <1>6
  <2>2. Closed(t, b, u) /\ IsDirectory(t, Parent(u))
    BY <1>1, <1>2, <1>3, ClosedBy DEF Sound, IsDirectory
  <2> QED BY <1>1, <1>2, <1>3, <2>1, <2>2, MovedAway
<1>13. \A q \in Paths : Under(q, u) => w[q] = z[q]
  <2> SUFFICES ASSUME NEW q \in Paths, Under(q, u) PROVE w[q] = z[q]
    OBVIOUS
  <2>1. ~Under(q, a) /\ ~Under(q, b)
    <3>1. q \in AnyPath /\ Apart(u, a) /\ Apart(u, b)
      BY <1>3, <1>7, PathFacts, ApartFacts
    <3> QED BY <1>7, <3>1, ApartFacts
  <2> QED BY <1>5, <1>7, <2>1, RenamedElse
<1>14. Exists(z, u) <=> Exists(t, b)
  <2>1. Under(u, u)
    BY <1>7, UnderOrder
  <2>2. z[u] = w[u]
    BY <1>3, <1>13, <2>1
  <2>3. ~Exists(t, b) => ~Exists(w, u)
    BY <1>1, <1>3, <1>6, <2>1
  <2> QED BY <1>12, <2>2, <2>3 DEF Exists
<1> QED BY <1>1, <1>6, <1>9, <1>10, <1>11, <1>12, <1>13, <1>14, <1>2, <1>7 DEF RenameMoves, t, w, z, a, b, u, Way

\* The leg that undoes a delete leads back to the tree before it.
LEMMA DeleteLegs ==
  ASSUME plan \in DOMAIN Plans, NEW i \in 1..N, NEW o, o = operations[i], o.kind = "delete"
  PROVE  /\ Sound(Now(i)) /\ Exists(Now(i), Undo(i)) /\ ~Exists(Now(i), o.path) /\ IsDirectory(Now(i), Parent(o.path))
         /\ RenameTree(Now(i), Undo(i), o.path) = Now(i - 1)
<1> DEFINE t == Now(i - 1)
           z == Now(i)
           a == o.path
           u == Undo(i)
<1>1. /\ Sound(t) /\ i \in DOMAIN UndoName /\ z = StepActual(t, o, i) /\ LegalOn(t, o, i)
      /\ \A p \in Paths : Under(p, u) => ~Exists(t, p)
  BY NowFacts
<1>2. a \in Paths /\ a \notin UndoPaths /\ Exists(t, a) /\ MovesWithin(t, a, u)
  BY <1>1 DEF LegalOn
<1>3. u \in Paths /\ Apart(a, u) /\ Parent(u) = <<>>
  BY <1>1, <1>2, UndoFacts
<1>4. z = RenameTree(t, a, u)
  BY <1>1 DEF StepActual
<1> HIDE DEF t, z, a, u
<1>5. Closed(t, a, u) /\ IsDirectory(t, Parent(u))
  BY <1>1, <1>2, <1>3, ClosedBy DEF Sound, IsDirectory
<1>6. Sound(z) /\ Exists(z, u) /\ ~Exists(z, a) /\ IsDirectory(z, Parent(a)) /\ RenameTree(z, u, a) = t
  BY <1>1, <1>2, <1>3, <1>4, <1>5, MovedAway
<1> QED BY <1>6 DEF t, z, a, u

\* The entry of a path is read off what lies below it.
LEMMA EntryAgrees ==
  ASSUME NEW t, NEW s, NEW p \in Paths, NEW c, \A q \in Paths : Under(q, p) => t[q] = s[q]
  PROVE  Entry(t, p, c) = Entry(s, p, c)
<1>1. p \in AnyPath /\ Under(p, p)
  BY PathFacts, UnderOrder
<1>2. t[p] = s[p]
  BY <1>1
<1>3. \A q \in Paths : Parent(q) = p => t[q] = s[q]
  <2> SUFFICES ASSUME NEW q \in Paths, Parent(q) = p PROVE t[q] = s[q]
    OBVIOUS
  <2>1. Below(q, Parent(q))
    BY <1>1, ParentFacts
  <2> QED BY <2>1 DEF Below
<1>4. ChildrenOf(t, p) = ChildrenOf(s, p)
  BY <1>3 DEF ChildrenOf, Exists
<1>5. \A q \in ChildrenOf(t, p) : t[q] = s[q]
  BY <1>3 DEF ChildrenOf
<1>6. {<<Last(q), t[q].kind>> : q \in ChildrenOf(t, p)} = {<<Last(q), s[q].kind>> : q \in ChildrenOf(s, p)}
  BY <1>4, <1>5
<1> QED BY <1>2, <1>6 DEF Entry

\* Everything above a path with a directory for its parent is a directory.
LEMMA AllAbove ==
  ASSUME NEW t, WellFormedTree(t), NEW p \in Paths, IsDirectory(t, Parent(p)), NEW q \in Paths, Below(p, q)
  PROVE  t[q].kind # "file"
<1>1. q \in AnyPath /\ p \in AnyPath /\ Under(Parent(p), q) /\ Parent(p) \in AnyPath
  <2>1. q \in AnyPath /\ p \in AnyPath /\ Parent(p) \in AnyPath
    BY PathFacts
  <2> QED BY <2>1, ParentFacts
<1>2. Parent(p) # <<>>
  BY <1>1, RootFacts
<1>3. Parent(p) \in Paths /\ t[Parent(p)].kind = "directory"
  BY <1>2, PathFacts DEF IsDirectory
<1>4. CASE Parent(p) = q
  BY <1>3, <1>4
<1>5. CASE Parent(p) # q
  BY <1>1, <1>3, <1>5, Above DEF Below, Exists
<1> QED BY <1>4, <1>5

\* The check before a leg of the way back.
LEMMA LegHolds ==
  ASSUME NEW t, tree = t, WellFormedTree(t), \A p \in Paths : t[p].kind = "missing" => t[p] = MissingNode,
         NEW m, Effect.after = m, DOMAIN m \subseteq Paths, move.from \in Paths, move.to \in Paths, Apart(move.from, move.to),
         \A p \in DOMAIN m : Under(p, move.from) => Entry(t, p, Certified(m[p])) = m[p],
         \A p \in DOMAIN m, q \in Paths : Under(p, move.from) /\ Below(p, q) => t[q].kind # "file",
         ~Exists(t, move.to), IsDirectory(t, Parent(move.to))
  PROVE  Holds(LegProof)
<1> DEFINE a == move.from
           b == move.to
           D == {q \in DOMAIN m : Under(q, a)} \cup {b}
           l == LegProof
<1>1. l = [p \in D |-> IF p = b THEN MissingEntry ELSE m[p]]
  BY DEF LegProof
<1>2. DOMAIN l = D /\ l[b] = MissingEntry /\ \A p \in D : p # b => l[p] = m[p]
  BY <1>1
<1>3. Entry(t, b, Certified(MissingEntry)) = MissingEntry
  <2>1. t[b] = MissingNode
    BY DEF Exists
  <2>2. ~Certified(MissingEntry)
    BY DEF Certified, MissingEntry
  <2> QED BY <2>1, <2>2, NodeTypes DEF Entry, MissingEntry
<1>4. \A p \in D, q \in Paths : Below(p, q) => t[q].kind # "file"
  BY AllAbove
<1>5. \A p \in D : Entry(t, p, Certified(l[p])) = l[p]
  BY <1>2, <1>3
<1> HIDE DEF D, l
<1> QED BY <1>2, <1>4, <1>5, HoldsIs DEF HoldsIn, l

-----------------------------------------------------------------------------
(* The rollback *)

\* The disk as it was satisfies the before-manifest.
LEMMA DiskHolds ==
  ASSUME plan \in DOMAIN Plans, tree = disk
  PROVE  Inspectable(Touched) /\ BeforeHolds
<1>1. Inspectable(Touched)
  BY PlansAssumption DEF PlanFits, Inspectable, Touched, disk
<1>2. \A p \in Touched : Entry(tree, p, Certified(InitialManifest[p])) = InitialManifest[p]
  BY InitialTells DEF Touched, InitialManifest, disk
<1>3. BeforeHolds
  BY <1>2 DEF BeforeHolds
<1> QED BY <1>1, <1>3

\* Every intermediate text has content that proves it.
LEMMA TextsKnown ==
  ASSUME Control, BackupExact, at = "undo", NEW i \in DOMAIN progress, operations[i].kind \in {"text", "create"},
         NEW e, e = progress[i].before[operations[i].path], e.kind # "missing"
  PROVE  TextKnown(e)
<1> DEFINE a == operations[i].path
           t == Now(i - 1)
<1>1. plan \in DOMAIN Plans /\ i \in 1..N /\ a \in Touched /\ a \in Paths
      /\ Tells(plan, progress[i].before, i - 1) /\ operations[i].kind \in OpKinds
  <2>1. plan \in DOMAIN Plans /\ DOMAIN progress = 1..Len(progress) /\ Len(progress) <= N /\ N \in Nat /\ Len(progress) \in Nat
    BY PendingIs, AtWork DEF Control, EffectsInv
  <2>2. i \in 1..N
    BY <2>1
  <2>3. a \in Touched /\ a \in Paths
    BY <2>1, <2>2, PlanSize, TouchedFacts DEF operations, Touched
  <2> QED BY <2>1, <2>2, <2>3 DEF Control, RecordInv, OpKinds
<1>2. Fits(e, t[a])
  BY <1>1 DEF Tells, Fitting, Now, Touched
<1>3. t[a].kind = "file"
  <2>1. LegalOn(t, operations[i], i)
    BY <1>1, NowFacts
  <2>2. t[a].kind = e.kind
    BY <1>2 DEF Fits
  <2> QED BY <2>1, <2>2 DEF LegalOn, Exists
<1>4. e.id = t[a].id /\ e.digest = t[a].text
  BY <1>2, <1>3 DEF Fits
<1>5. From(plan, t)
  <2>1. i - 1 \in 0..Len(Plans[plan].operations)
    BY <1>1, PlanSize DEF N, operations
  <2> QED BY <1>1, <2>1, FromDisk DEF Now
<1>6. t[a].text \in Written(plan) \/ \E q \in Touched : t[a] = disk[q]
  BY <1>1, <1>3, <1>5 DEF From, Touched, disk
<1>7. backup = [p \in Touched |-> disk[p].text]
  BY DEF BackupExact
<1>8. \A p \in Touched : Fits(InitialManifest[p], disk[p]) /\ p \in Paths
  BY <1>1, InitialTells, TouchedFacts DEF InitialManifest, Touched, disk
<1>9. \A p \in Touched : InitialManifest[p].kind = "file" => backup[p] = InitialManifest[p].digest
  BY <1>7, <1>8 DEF Fits
<1>10. \A q \in Touched : t[a] = disk[q] =>
          InitialManifest[q].kind = "file" /\ InitialManifest[q].id = e.id /\ InitialManifest[q].digest = e.digest
  BY <1>3, <1>4, <1>8 DEF Fits
<1>11. t[a].text \in Written(plan) => e.digest = <<>> \/ \E j \in DOMAIN operations : operations[j].kind = "text" /\ operations[j].after = e.digest
  BY <1>4 DEF Written, TextsOf, operations
<1> HIDE DEF t, a
<1> QED BY <1>6, <1>9, <1>10, <1>11 DEF TextKnown

\* A manifest that a larger one keeps is its restriction.
LEMMA Restricts ==
  ASSUME NEW w, NEW m, Keeps(w, m), m = [p \in DOMAIN m |-> m[p]]
  PROVE  Restrict(w, DOMAIN m) = m
BY DEF Keeps, Restrict

\* With every record proved, the chain that validate_undo demands is there.
LEMMA ChainHolds ==
  ASSUME Control, BackupExact, at = "undo", ~Pending, Len(progress) >= 1
  PROVE  UndoChain
<1>1. plan \in DOMAIN Plans /\ DOMAIN progress = 1..Len(progress) /\ Len(progress) \in Nat /\ \A i \in DOMAIN progress : Proved(i)
  BY PendingIs, AtWork DEF Control
<1>2. ASSUME NEW i \in DOMAIN progress, i > 1
      PROVE  Restrict(progress[i].before, DOMAIN progress[i - 1].after) = progress[i - 1].after
  <2>1. i - 1 \in DOMAIN progress /\ i # 1
    BY <1>1, <1>2
  <2>2. Keeps(progress[i].before, progress[i - 1].after)
    BY <2>1 DEF Control, RecordInv, Latest
  <2>3. Tells(plan, progress[i - 1].after, i - 1)
    BY <1>1, <2>1 DEF Control, RecordInv
  <2> QED BY <2>2, <2>3, Restricts DEF Tells, Fitting
<1>3. \A p \in Touched : progress[1].before[p] = InitialManifest[p]
  <2>1. Keeps(progress[1].before, InitialManifest)
    BY <1>1 DEF Control, RecordInv, Latest
  <2>2. DOMAIN InitialManifest = Touched
    BY <1>1, InitialTells DEF InitialManifest, Touched
  <2> QED BY <2>1, <2>2 DEF Keeps
<1>4. ASSUME NEW i \in DOMAIN progress, operations[i].kind \in {"text", "create"}, progress[i].before[operations[i].path].kind # "missing"
      PROVE  TextKnown(progress[i].before[operations[i].path])
  BY <1>4, TextsKnown
<1> QED BY <1>2, <1>3, <1>4 DEF UndoChain

\* In a resting place only the records and the backup matter.
LEMMA RestExact ==
  ASSUME BackupExact, RecordsExact, plan' = plan, progress' = progress, backup' = backup, at \notin {"stage", "abandoned"}, ExactTree'
  PROVE  Exact'
BY RecordsStay, BackupStays DEF Exact

\* Preflight keeps the exact tree.
LEMMA ExactPreflight ==
  ASSUME Control, Exact, Preflight
  PROVE  Exact'
<1>0. at = "undo" /\ plan' = plan /\ UNCHANGED <<tree, backup, progress, expected, handle, move>>
  BY DEF Preflight, Keep
<1>1. plan \in DOMAIN Plans /\ Len(progress) \in Nat /\ DOMAIN progress = 1..Len(progress)
  BY AtWork, PendingIs DEF Control
<1>2. ~Pending => tree = Now(Len(progress))
  BY <1>0 DEF Exact, ExactTree
<1>3. ~Pending => \/ Inspectable(Touched) /\ BeforeHolds
                  \/ Inspectable(Touched) /\ progress # <<>> /\ Holds(progress[Len(progress)].after) /\ UndoChain
  <2> SUFFICES ASSUME ~Pending
               PROVE  \/ Inspectable(Touched) /\ BeforeHolds
                      \/ Inspectable(Touched) /\ progress # <<>> /\ Holds(progress[Len(progress)].after) /\ UndoChain
    OBVIOUS
  <2>1. CASE Len(progress) = 0
    BY <1>1, <1>2, <2>1, NowFirst, DiskHolds
  <2>2. CASE Len(progress) >= 1
    <3> DEFINE n == Len(progress)
               m == progress[n].after
    <3>1. n \in DOMAIN progress /\ Proved(n)
      BY <1>1, <2>2, PendingIs DEF Control
    <3>2. HoldsIn(tree, m) /\ Touched \subseteq DOMAIN m
      BY <1>2, <3>1 DEF Exact, RecordsExact, Control, RecordInv, Tells, Touched
    <3>3. progress # <<>>
      BY <2>2
    <3> HIDE DEF m
    <3>4. Inspectable(Touched)
      BY <3>2 DEF HoldsIn, Inspectable
    <3>5. UndoChain
      BY <1>0, <2>2, ChainHolds DEF Exact
    <3> QED BY <3>2, <3>3, <3>4, <3>5, HoldsIs DEF m
  <2> QED BY <1>1, <2>1, <2>2
<1>4. /\ at' = "restored" \/ (at' = "reverse" /\ number' = Len(progress) /\ ~Pending) \/ at' = "refused"
      /\ at' = "refused" => Pending
  BY <1>3 DEF Preflight, GoTo
<1>5. Pending' <=> Pending
  BY <1>0, SameEvidence
<1>6. ExactTree'
  BY <1>0, <1>2, <1>4, <1>5 DEF ExactTree, Now
<1> QED BY <1>0, <1>6, RestExact DEF Exact

\* An effect under way back.
Backward ==
    /\ Control /\ Exact /\ at \in Undoing /\ number >= 1
    /\ plan' = plan /\ progress' = progress /\ backup' = backup

\* What a rollback has in hand at effect number.
LEMMA BackwardFacts ==
  ASSUME Backward
  PROVE  /\ plan \in DOMAIN Plans /\ number \in 1..N /\ number \in DOMAIN progress /\ Proved(number)
         /\ Operation = operations[number] /\ Operation.path \in Paths /\ Undo(number) \in Paths /\ ~Pending
         /\ Tells(plan, Effect.before, number - 1) /\ Tells(plan, Effect.after, number)
         /\ HoldsIn(Now(number - 1), Effect.before) /\ HoldsIn(Now(number), Effect.after)
<1>1. plan \in DOMAIN Plans /\ number \in 1..N /\ number \in DOMAIN progress /\ ~Pending
  BY AtWork DEF Backward, Undoing
<1>2. Proved(number)
  BY <1>1, PendingIs DEF Backward, Control
<1>3. Operation = operations[number]
  BY DEF Operation
<1>4. Operation.path \in Paths /\ Undo(number) \in Paths
  BY <1>1, Legal DEF Backward
<1> QED BY <1>1, <1>2, <1>3, <1>4 DEF Backward, Control, RecordInv, Exact, RecordsExact, Effect

\* Exactness for the steps of a rollback that only change the tree.
LEMMA BackwardExact ==
  ASSUME Backward, ExactTree'
  PROVE  Exact'
BY RestExact DEF Backward, Exact, Undoing

\* An operation whose entry is the same before and after changed nothing.
LEMMA Unchanged ==
  ASSUME Backward, Operation.kind \in {"text", "create"}, Effect.before[Operation.path] = Effect.after[Operation.path]
  PROVE  Now(number) = Now(number - 1)
<1> DEFINE t == Now(number - 1)
           z == Now(number)
           a == Operation.path
<1>1. /\ plan \in DOMAIN Plans /\ number \in 1..N /\ Operation = operations[number] /\ a \in Paths
      /\ Tells(plan, Effect.before, number - 1) /\ Tells(plan, Effect.after, number)
  BY BackwardFacts
<1>2. Sound(t) /\ Sound(z) /\ z = StepActual(t, Operation, number) /\ LegalOn(t, Operation, number) /\ number \in DOMAIN UndoName
  BY <1>1, NowFacts
<1>3. a \in Touched
  BY <1>1, Legal DEF Backward
<1>4. Fits(Effect.before[a], t[a]) /\ Fits(Effect.before[a], z[a])
  BY <1>1, <1>3 DEF Tells, Fitting, Touched, Now
<1>5. t \in Trees /\ z \in Trees
  BY <1>2 DEF Sound
<1>6. Operation.kind = "text" => z = TextTree(t, a, Operation.after) /\ t[a].kind = "file"
  BY <1>2 DEF StepActual, LegalOn
<1>7. Operation.kind = "create" => z = CreatedTree(t, a, number)
  BY <1>2 DEF StepActual
<1>8. t[a].kind = z[a].kind
  BY <1>4 DEF Fits
<1>9. t[a].kind = "file"
  <2>1. CASE Operation.kind = "text"
    BY <1>6, <2>1
  <2>2. CASE Operation.kind = "create" /\ Exists(t, a)
    BY <1>2, <2>2 DEF LegalOn
  <2>3. CASE Operation.kind = "create" /\ ~Exists(t, a)
    <3>1. z = [t EXCEPT ![a] = Created(number)]
      BY <1>7, <2>3 DEF CreatedTree
    <3>2. z[a] = Created(number)
      BY <1>1, <1>5, <3>1, NodeTypes
    <3>3. z[a].kind = "file"
      BY <1>2, <3>2, NewNodes
    <3> QED BY <1>8, <3>3
  <2> QED BY <2>1, <2>2, <2>3
<1>10. PICK x : z = TextTree(t, a, x)
  BY <1>6, <1>7, <1>9, CreatedOver DEF Exists
<1>11. t[a].text = z[a].text
  BY <1>4, <1>8, <1>9 DEF Fits
<1>12. x = t[a].text
  <2>a. a \in Paths
    BY <1>1
  <2> HIDE DEF t, z, a
  <2>b. TextTree(t, a, x)[a] = [t[a] EXCEPT !.text = x]
    BY ONLY <2>a, <1>5, TextAlgebra
  <2>c. t[a] \in Node
    BY ONLY <2>a, <1>5, NodeTypes
  <2>1. z[a] = [t[a] EXCEPT !.text = x] /\ t[a] \in Node
    BY ONLY <2>b, <2>c, <1>10
  <2>2. z[a].text = x
    BY <2>1 DEF Node
  <2> QED BY <1>11, <2>2
<1>13. z = t
  <2> HIDE DEF t, z, a
  <2> QED BY <1>1, <1>5, <1>10, <1>12, TextAlgebra
<1> QED BY <1>13

\* ReverseEffect keeps the exact tree.
LEMMA ExactReverse ==
  ASSUME Control, Exact, ReverseEffect
  PROVE  Exact'
<1>0. /\ at = "reverse" /\ plan' = plan /\ UNCHANGED <<tree, backup, progress, expected>> /\ number > 0
  BY DEF ReverseEffect, Keep
<1>1. Backward /\ tree = Now(number)
  <2>1. number >= 1 /\ tree = Now(number)
    BY <1>0, AtWork DEF Exact, ExactTree
  <2> QED BY <1>0, <2>1 DEF Backward, Undoing
<1>2. Holds(Effect.after)
  BY <1>1, BackwardFacts, HoldsIs
<1>3. CASE Operation.kind \in {"text", "create"} /\ ReverseText(Operation)
  <2>1. number \in 1..N
    BY <1>1, BackwardFacts
  <2>2. /\ Effect.before[Operation.path].kind # "missing" =>
              /\ Now(number - 1)[Operation.path].kind = "file"
              /\ Effect.before[Operation.path].digest = Now(number - 1)[Operation.path].text
        /\ Effect.before[Operation.path].kind = "missing" => ~Exists(Now(number - 1), Operation.path)
        /\ Effect.after[Operation.path].id = Now(number)[Operation.path].id
    BY <1>0, <2>1, <1>3, BeforeText DEF Undoing
  <2>3. CASE /\ Effect.before[Operation.path] = Effect.after[Operation.path]
             /\ at' = "reverse" /\ number' = number - 1
    <3>1. Now(number) = Now(number - 1)
      BY <1>1, <1>3, <2>3, Unchanged
    <3>2. ExactTree'
      BY <1>0, <1>1, <2>3, <3>1 DEF ExactTree, Now
    <3> QED BY <1>1, <3>2, BackwardExact
  <2>4. CASE /\ Effect.before[Operation.path].kind # "missing" /\ number' = number /\ at' = "undo_truncate"
             /\ handle' = [id |-> Effect.after[Operation.path].id, text |-> Effect.before[Operation.path].digest]
    <3>1. handle'.id = Now(number)[Operation.path].id /\ handle'.text = Now(number - 1)[Operation.path].text
      BY <2>2, <2>4
    <3>2. Now(number)[Operation.path].kind = "file"
      <4>1. plan \in DOMAIN Plans /\ Operation = operations[number]
        BY <1>1, BackwardFacts
      <4>2. Now(number) = StepActual(Now(number - 1), Operation, number) /\ Sound(Now(number - 1))
        BY <2>1, <4>1, NowFacts
      <4>3. \E x : Now(number) = TextTree(Now(number - 1), Operation.path, x)
        BY <1>3, <2>2, <2>4, <4>2, CreatedOver DEF StepActual, Exists
      <4> DEFINE t == Now(number - 1)
                 a == Operation.path
      <4>4. t \in Trees /\ t[a].kind = "file" /\ a \in Paths
        BY <1>1, <2>2, <2>4, <4>2, BackwardFacts DEF Sound
      <4>5. PICK x : Now(number) = TextTree(t, a, x)
        BY <4>3
      <4> HIDE DEF t, a
      <4>6. Now(number)[a] = [t[a] EXCEPT !.text = x] /\ t[a] \in Node
        BY <4>4, <4>5, TextAlgebra, NodeTypes
      <4>7. Now(number)[a].kind = "file"
        BY <4>4, <4>6 DEF Node
      <4> QED BY <4>7 DEF a
    <3>3. ExactTree'
      BY <1>0, <1>1, <2>2, <2>4, <3>1, <3>2 DEF ExactTree, Now, Operation, operations, Open
    <3> QED BY <1>1, <3>3, BackwardExact
  <2>5. CASE Effect.before[Operation.path].kind = "missing" /\ at' = "undo_remove" /\ number' = number
    <3>1. ExactTree'
      BY <1>0, <1>1, <2>2, <2>5 DEF ExactTree, Now, Operation, operations
    <3> QED BY <1>1, <3>1, BackwardExact
  <2> QED BY <1>3, <2>3, <2>4, <2>5 DEF ReverseText, GoTo
<1>4. CASE Operation.kind \in {"rename", "delete"} /\ ReverseMove(Operation)
  <2>1. /\ at' = "leg" /\ number' = number
        /\ \/ Operation.kind = "rename" /\ move' = [from |-> Operation.new, to |-> Operation.path]
           \/ Operation.kind = "delete" /\ move' = [from |-> Undo(number), to |-> Operation.path]
    BY <1>4 DEF ReverseMove, GoTo
  <2>2. ExactTree'
    BY <1>0, <1>1, <2>1 DEF ExactTree, Now, Operation, operations, FirstLeg, DeleteLeg
  <2> QED BY <1>1, <2>2, BackwardExact
<1> QED BY <1>2, <1>3, <1>4 DEF ReverseEffect

\* RemoveCreated keeps the exact tree.
LEMMA ExactRemove ==
  ASSUME Control, Exact, RemoveCreated
  PROVE  Exact'
<1>0. /\ at = "undo_remove" /\ plan' = plan /\ UNCHANGED <<backup, progress, expected, number, handle, move>>
  BY DEF RemoveCreated, Keep
<1>1. Backward /\ tree = Now(number) /\ ~Exists(Now(number - 1), Operation.path) /\ Operation.kind = "create"
  <2>1. number >= 1
    BY <1>0, AtWork DEF Undoing
  <2>2. tree = Now(number) /\ ~Exists(Now(number - 1), Operation.path)
    BY <1>0 DEF Exact, ExactTree
  <2>3. Backward
    BY <1>0, <2>1 DEF Backward, Undoing
  <2>4. Operation.kind = "create"
    <3>1. Operation.kind \in {"text", "create"}
      BY <1>0 DEF Control, StepInv
    <3>2. number \in 1..N /\ plan \in DOMAIN Plans /\ Operation = operations[number]
      BY <2>3, BackwardFacts
    <3>3. LegalOn(Now(number - 1), Operation, number)
      BY <3>2, NowFacts
    <3> QED BY <2>2, <3>1, <3>3 DEF LegalOn, Exists
  <2> QED BY <2>2, <2>3, <2>4
<1> DEFINE t == Now(number - 1)
           z == Now(number)
           a == Operation.path
<1>2. /\ plan \in DOMAIN Plans /\ number \in 1..N /\ Operation = operations[number] /\ a \in Paths
  BY <1>1, BackwardFacts
<1>3. Sound(t) /\ Sound(z) /\ z = StepActual(t, Operation, number) /\ number \in DOMAIN UndoName
  BY <1>2, NowFacts
<1>4. z = [t EXCEPT ![a] = Created(number)]
  BY <1>1, <1>3 DEF StepActual, CreatedTree
<1>5. t \in [Paths -> Node] /\ \A p \in Paths : ~Exists(t, p) => t[p] = MissingNode
  BY <1>3, NodeTypes DEF Sound, Exists
<1>6. z[a] = Created(number) /\ (\A p \in Paths : p # a => z[p] = t[p]) /\ Exists(z, a)
  <2>1. z[a] = Created(number) /\ (\A p \in Paths : p # a => z[p] = t[p])
    BY <1>2, <1>4, <1>5
  <2> QED BY <1>3, <2>1, NewNodes DEF Exists
<1>7. DeleteTree(z, a) = t
  <2>1. a \in AnyPath /\ Under(a, a)
    BY <1>2, PathFacts, UnderOrder
  <2>2. \A p \in Paths : Under(p, a) => t[p] = MissingNode
    <3> SUFFICES ASSUME NEW p \in Paths, Under(p, a) PROVE t[p] = MissingNode
      OBVIOUS
    <3>1. CASE p = a
      BY <1>1, <1>5, <3>1
    <3>2. CASE p # a
      <4>1. ~Exists(t, p)
        BY <1>1, <1>2, <1>3, <3>2, NothingBelow DEF Sound, Exists
      <4> QED BY <1>5, <4>1
    <3> QED BY <3>1, <3>2
  <2>3. \A p \in Paths : (IF Under(p, a) THEN MissingNode ELSE z[p]) = t[p]
    BY <1>6, <2>1, <2>2
  <2>4. t = [p \in Paths |-> t[p]]
    BY <1>5
  <2> HIDE DEF t, z, a
  <2> QED BY <2>3, <2>4 DEF DeleteTree
<1>8. tree' = t /\ at' = "undo_verify"
  BY <1>1, <1>6, <1>7 DEF RemoveCreated, GoTo
<1>9. ExactTree'
  BY <1>0, <1>8 DEF ExactTree, Now
<1> QED BY <1>1, <1>9, BackwardExact

\* What a leg needs to be checked and done.
LegReady(t, m) ==
    /\ WellFormedTree(t) /\ \A p \in Paths : t[p].kind = "missing" => t[p] = MissingNode
    /\ DOMAIN m \subseteq Paths /\ move.from \in Paths /\ move.to \in Paths /\ Apart(move.from, move.to)
    /\ \A p \in DOMAIN m : Under(p, move.from) => Entry(t, p, Certified(m[p])) = m[p]
    /\ \A p \in DOMAIN m, q \in Paths : Under(p, move.from) /\ Below(p, q) => t[q].kind # "file"
    /\ ~Exists(t, move.to) /\ IsDirectory(t, Parent(move.to)) /\ Exists(t, move.from)

\* A leg that is ready passes the check of the code.
LEMMA LegChecked ==
  ASSUME LegReady(tree, Effect.after)
  PROVE  Holds(LegProof) /\ RenameWorks(move.from, move.to)
<1>1. Holds(LegProof)
  BY LegHolds DEF LegReady
<1>2. RenameWorks(move.from, move.to)
  BY DEF LegReady, RenameWorks
<1> QED BY <1>1, <1>2

\* On the tree the whole after-manifest holds on.
LEMMA LegOnTree ==
  ASSUME Backward, NEW t, t = Now(number), Sound(t), move.from \in Paths, move.to \in Paths, Apart(move.from, move.to),
         ~Exists(t, move.to), IsDirectory(t, Parent(move.to)), Exists(t, move.from)
  PROVE  LegReady(t, Effect.after)
<1>1. HoldsIn(t, Effect.after) /\ DOMAIN Effect.after \subseteq Paths
  BY BackwardFacts DEF Tells, Fitting
<1> QED BY <1>1 DEF HoldsIn, LegReady, Sound

\* The legs of a rollback, the tree each finds and the tree each leaves.
LEMMA LegIs ==
  ASSUME Backward, at \in {"leg", "leg_rename"}
  PROVE  \/ /\ FirstLeg /\ move.from = Operation.new /\ move.to = Operation.path /\ Operation.kind = "rename"
            /\ tree = Now(number)
            /\ RenameTree(tree, move.from, move.to) = Aside(Now(number - 1), Operation, number)
            /\ Exists(Now(number), Undo(number)) <=> Exists(Now(number - 1), Operation.new)
            /\ ~Exists(Now(number - 1), Operation.new) => Aside(Now(number - 1), Operation, number) = Now(number - 1)
            /\ LegReady(tree, Effect.after)
         \/ /\ SecondLeg /\ move.to = Operation.new /\ move.to # Operation.path
            /\ RenameTree(tree, move.from, move.to) = Now(number - 1)
            /\ LegReady(tree, Effect.after)
         \/ /\ DeleteLeg /\ Operation.kind = "delete"
            /\ RenameTree(tree, move.from, move.to) = Now(number - 1)
            /\ LegReady(tree, Effect.after)
<1>1. \/ FirstLeg /\ tree = Now(number)
      \/ SecondLeg /\ Exists(Now(number - 1), Operation.new) /\ tree = Aside(Now(number - 1), Operation, number)
      \/ DeleteLeg /\ tree = Now(number)
  BY DEF Backward, Exact, ExactTree
<1>2. /\ plan \in DOMAIN Plans /\ number \in 1..N /\ Operation = operations[number]
      /\ HoldsIn(Now(number), Effect.after) /\ DOMAIN Effect.after \subseteq Paths
  BY BackwardFacts DEF Tells, Fitting
<1>3. FirstLeg \/ SecondLeg \/ DeleteLeg => move.from \in Paths /\ move.to \in Paths /\ Apart(move.from, move.to)
  BY <1>2, LegsApart DEF Backward
<1>4. Control /\ Undo(number) \in Paths /\ Parent(Undo(number)) = <<>>
  BY <1>2, Legal DEF Backward
<1>5. CASE FirstLeg /\ tree = Now(number)
  <2>1. move.from = Operation.new /\ move.to = Operation.path /\ Operation.kind = "rename"
    BY <1>5 DEF FirstLeg
  <2>2. RenameMoves(Now(number - 1), Aside(Now(number - 1), Operation, number), Now(number), Operation.path, Operation.new, Undo(number))
    BY <1>2, <2>1, RenameLegs
  <2>3. LegReady(tree, Effect.after)
    <3>1. /\ Sound(tree) /\ ~Exists(tree, move.to) /\ IsDirectory(tree, Parent(move.to)) /\ Exists(tree, move.from)
      BY <1>5, <2>1, <2>2 DEF RenameMoves
    <3> QED BY <1>3, <1>5, <3>1, LegOnTree
  <2>4. /\ RenameTree(tree, move.from, move.to) = Aside(Now(number - 1), Operation, number)
        /\ Exists(Now(number), Undo(number)) <=> Exists(Now(number - 1), Operation.new)
        /\ ~Exists(Now(number - 1), Operation.new) => Aside(Now(number - 1), Operation, number) = Now(number - 1)
    BY <1>5, <2>1, <2>2 DEF RenameMoves
  <2> QED BY <1>5, <2>1, <2>3, <2>4
<1>6. CASE SecondLeg /\ Exists(Now(number - 1), Operation.new) /\ tree = Aside(Now(number - 1), Operation, number)
  <2>1. move.from = Undo(number) /\ move.to = Operation.new /\ Operation.kind = "rename"
    BY <1>6 DEF SecondLeg
  <2>2. RenameMoves(Now(number - 1), Aside(Now(number - 1), Operation, number), Now(number), Operation.path, Operation.new, Undo(number))
    BY <1>2, <2>1, RenameLegs
  <2>3. /\ Sound(tree) /\ Exists(tree, Undo(number)) /\ ~Exists(tree, Operation.new) /\ IsDirectory(tree, Parent(Operation.new))
        /\ RenameTree(tree, Undo(number), Operation.new) = Now(number - 1)
        /\ \A q \in Paths : Under(q, Undo(number)) => tree[q] = Now(number)[q]
    BY <1>6, <2>2 DEF RenameMoves
  <2>4. Operation.new # Operation.path
    <3>1. Operation.path \in AnyPath /\ Operation.new \in AnyPath /\ Apart(Operation.path, Operation.new)
      BY <1>2, <1>4, <2>1, Legal, PathFacts
    <3> QED BY <3>1, ApartFacts
  <2>5. LegReady(tree, Effect.after)
    <3> DEFINE m == Effect.after
               u == Undo(number)
               z == Now(number)
    <3>1. u \in AnyPath /\ Len(u) = 1
      <4>1. u \in AnyPath /\ Len(Parent(u)) = Len(u) - 1 /\ Len(u) \in Nat /\ Len(<<>>) = 0
        BY <1>4, PathFacts
      <4> QED BY <1>4, <4>1
    <3>2. ASSUME NEW p \in DOMAIN m, Under(p, u) PROVE Entry(tree, p, Certified(m[p])) = m[p]
      <4>1. p \in Paths /\ p \in AnyPath
        BY <1>2, PathFacts
      <4>2. \A q \in Paths : Under(q, p) => tree[q] = z[q]
        <5> SUFFICES ASSUME NEW q \in Paths, Under(q, p) PROVE tree[q] = z[q]
          OBVIOUS
        <5>1. q \in AnyPath
          BY PathFacts
        <5>2. Under(q, u)
          BY <3>1, <3>2, <4>1, <5>1, UnderOrder
        <5> QED BY <2>3, <5>2
      <4>3. Entry(z, p, Certified(m[p])) = m[p]
        BY <1>2 DEF HoldsIn
      <4>4. Entry(tree, p, Certified(m[p])) = Entry(z, p, Certified(m[p]))
        BY <4>1, <4>2, EntryAgrees
      <4> QED BY <4>3, <4>4
    <3>3. ASSUME NEW p \in DOMAIN m, NEW q \in Paths, Under(p, u), Below(p, q) PROVE tree[q].kind # "file"
      <4>1. p \in AnyPath /\ q \in AnyPath
        BY <1>2, PathFacts
      <4>2. Under(q, u) \/ Under(u, q)
        BY <3>1, <3>3, <4>1, UnderOrder DEF Below
      <4>3. Under(q, u)
        BY <1>4, <3>1, <4>1, <4>2, OneName, UnderOrder
      <4>4. z[q].kind # "file"
        BY <1>2, <3>3 DEF HoldsIn
      <4> QED BY <2>3, <4>3, <4>4
    <3> QED BY <1>2, <1>3, <1>6, <2>1, <2>3, <3>2, <3>3 DEF LegReady, Sound
  <2> QED BY <1>6, <2>1, <2>3, <2>4, <2>5
<1>7. CASE DeleteLeg /\ tree = Now(number)
  <2>1. move.from = Undo(number) /\ move.to = Operation.path /\ Operation.kind = "delete"
    BY <1>7 DEF DeleteLeg
  <2>2. /\ Sound(tree) /\ Exists(tree, move.from) /\ ~Exists(tree, move.to) /\ IsDirectory(tree, Parent(move.to))
        /\ RenameTree(tree, move.from, move.to) = Now(number - 1)
    BY <1>2, <1>7, <2>1, DeleteLegs
  <2>3. LegReady(tree, Effect.after)
    BY <1>3, <1>7, <2>2, LegOnTree
  <2> QED BY <1>7, <2>1, <2>2, <2>3
<1> QED BY <1>1, <1>5, <1>6, <1>7

\* Each of them is ready.
LEMMA LegIsReady ==
  ASSUME Backward, at \in {"leg", "leg_rename"}
  PROVE  LegReady(tree, Effect.after)
BY LegIs

\* CheckLeg keeps the exact tree.
LEMMA ExactCheckLeg ==
  ASSUME Control, Exact, CheckLeg
  PROVE  Exact'
<1>0. /\ at = "leg" /\ plan' = plan /\ UNCHANGED <<tree, backup, progress, expected, number, handle, move>>
  BY DEF CheckLeg, Keep
<1>1. Backward
  <2>1. number >= 1
    BY <1>0, AtWork DEF Undoing
  <2> QED BY <1>0, <2>1 DEF Backward, Undoing
<1>2. at' = "leg_rename"
  <2>1. Holds(LegProof)
    BY <1>0, <1>1, LegIsReady, LegChecked
  <2> QED BY <2>1 DEF CheckLeg, GoTo
<1>3. ExactTree'
  <2>1. \/ FirstLeg /\ tree = Now(number)
        \/ SecondLeg /\ Exists(Now(number - 1), Operation.new) /\ tree = Aside(Now(number - 1), Operation, number)
        \/ DeleteLeg /\ tree = Now(number)
    BY <1>0 DEF Exact, ExactTree
  <2> QED BY <1>0, <1>2, <2>1 DEF ExactTree, Now, Operation, operations, FirstLeg, SecondLeg, DeleteLeg, Undo
<1> QED BY <1>1, <1>3, BackwardExact

\* RenameLeg keeps the exact tree.
LEMMA ExactRenameLeg ==
  ASSUME Control, Exact, RenameLeg
  PROVE  Exact'
<1> DEFINE second == /\ Operation.kind = "rename" /\ move.to = Operation.path
                     /\ Effect.after[Undo(number)].kind # "missing"
<1>0. /\ at = "leg_rename" /\ plan' = plan /\ UNCHANGED <<backup, progress, expected, number, handle>>
  BY DEF RenameLeg, Keep
<1>1. Backward
  <2>1. number >= 1
    BY <1>0, AtWork DEF Undoing
  <2> QED BY <1>0, <2>1 DEF Backward, Undoing
<1>2. RenameWorks(move.from, move.to)
  BY <1>0, <1>1, LegIsReady, LegChecked
<1>3. /\ tree' = RenameTree(tree, move.from, move.to)
      /\ second => move' = [from |-> Undo(number), to |-> Operation.new] /\ at' = "leg"
      /\ ~second => at' = "undo_verify"
  BY <1>2 DEF RenameLeg, GoTo
<1>4. FirstLeg => (second <=> Exists(Now(number), Undo(number)))
  <2> SUFFICES ASSUME FirstLeg PROVE second <=> Exists(Now(number), Undo(number))
    OBVIOUS
  <2>1. Operation.kind = "rename" /\ move.to = Operation.path
    BY DEF FirstLeg
  <2>2. Undo(number) \in DOMAIN Effect.after
    <3>1. /\ plan \in DOMAIN Plans /\ number \in 1..N /\ number \in DOMAIN progress /\ Proved(number)
          /\ Operation = operations[number]
      BY <1>1, BackwardFacts
    <3>2. Slots(plan, Effect.after, number) /\ number \in DOMAIN operations
      BY <1>1, <3>1, PlanSize DEF Backward, Control, RecordInv, Effect
    <3> QED BY <2>1, <3>1, <3>2 DEF Slots, Moving, operations
  <2>3. Effect.after[Undo(number)].kind = Now(number)[Undo(number)].kind
    BY <1>1, <2>2, BackwardFacts DEF Tells, Fitting, Fits, Now
  <2> QED BY <2>1, <2>3 DEF Exists
<1> HIDE DEF second
<1>5. ExactTree'
  <2>1. CASE FirstLeg
    <3>1. /\ tree' = Aside(Now(number - 1), Operation, number) /\ Operation.kind = "rename"
          /\ Exists(Now(number), Undo(number)) <=> Exists(Now(number - 1), Operation.new)
          /\ ~Exists(Now(number - 1), Operation.new) => Aside(Now(number - 1), Operation, number) = Now(number - 1)
      <4>1. Operation.kind = "rename" /\ ~DeleteLeg
        BY <2>1 DEF FirstLeg, DeleteLeg
      <4>2. move.to = Operation.path
        BY <2>1 DEF FirstLeg
      <4> QED BY <1>0, <1>1, <1>3, <4>1, <4>2, LegIs
    <3>2. CASE second
      BY <1>0, <1>3, <1>4, <2>1, <3>1, <3>2 DEF ExactTree, Now, Operation, operations, SecondLeg, Undo
    <3>3. CASE ~second
      BY <1>0, <1>3, <1>4, <2>1, <3>1, <3>3 DEF ExactTree, Now
    <3> QED BY <3>2, <3>3
  <2>2. CASE ~FirstLeg
    <3>1. tree' = Now(number - 1) /\ ~second
      BY <1>0, <1>1, <1>3, <2>2, LegIs DEF second
    <3> QED BY <1>0, <1>3, <3>1 DEF ExactTree, Now
  <2> QED BY <2>1, <2>2
<1> QED BY <1>1, <1>5, BackwardExact

\* Verify keeps the exact tree.
LEMMA ExactVerify ==
  ASSUME Control, Exact, Verify
  PROVE  Exact'
<1>0. /\ at = "undo_verify" /\ plan' = plan /\ UNCHANGED <<tree, backup, progress, expected, move>>
  BY DEF Verify, Keep
<1>1. Backward /\ tree = Now(number - 1)
  <2>1. number >= 1 /\ tree = Now(number - 1)
    BY <1>0, AtWork DEF Undoing, Exact, ExactTree
  <2> QED BY <1>0, <2>1 DEF Backward, Undoing
<1>2. Holds(Effect.before)
  BY <1>1, BackwardFacts, HoldsIs
<1>3. at' = "reverse" /\ number' = number - 1
  BY <1>2 DEF Verify, GoTo
<1>4. ExactTree'
  BY <1>0, <1>1, <1>3 DEF ExactTree, Now
<1> QED BY <1>1, <1>4, BackwardExact

\* FinishUndo keeps the exact tree.
LEMMA ExactFinish ==
  ASSUME Control, Exact, FinishUndo
  PROVE  Exact'
<1>0. /\ at = "reverse" /\ number = 0 /\ plan' = plan /\ UNCHANGED <<tree, backup, progress, expected, move>>
  BY DEF FinishUndo, Keep
<1>1. plan \in DOMAIN Plans /\ tree = Now(0)
  BY <1>0, AtWork DEF Exact, ExactTree
<1>2. at' = "restored"
  BY <1>1, NowFirst, DiskHolds DEF FinishUndo, GoTo
<1>3. ExactTree'
  BY <1>2 DEF ExactTree
<1> QED BY <1>0, <1>3, RestExact DEF Exact

\* Recover keeps the exact tree.
LEMMA ExactRecover ==
  ASSUME Control, Exact, Recover
  PROVE  Exact'
<1>0. /\ at \in {"crashed", "refused"} /\ plan' = plan /\ UNCHANGED <<tree, backup, progress, expected, number>>
      /\ at' \in {"undo", "accepted"}
  BY DEF Recover, Keep, GoTo
<1>1. ~Pending => tree = Now(Len(progress))
  BY <1>0 DEF Exact, ExactTree
<1>2. Pending' <=> Pending
  BY <1>0, SameEvidence
<1>3. ExactTree'
  BY <1>0, <1>1, <1>2 DEF ExactTree, Now
<1> QED BY <1>0, <1>3, RestExact DEF Exact

\* Cleanup keeps the exact tree.
LEMMA ExactCleanup ==
  ASSUME Control, Exact, Cleanup
  PROVE  Exact'
<1>0. /\ at \in {"committed", "restored", "accepted"} /\ plan' = plan /\ UNCHANGED <<backup, progress>>
      /\ at' \in {"clean", "accepted_clean"}
  BY DEF Cleanup, Keep, GoTo
<1>1. ExactTree'
  BY <1>0 DEF ExactTree
<1> QED BY <1>0, <1>1, RestExact DEF Exact

\* Between two operations the tree is the plan's tree at the last proved
\* record.
LEMMA WhereItIs ==
  ASSUME Control, Exact, at \in Committing \cup {"undo"}, ~Pending
  PROVE  tree = Now(Len(progress))
<1>1. at \notin Working
  BY AtWork
<1>2. at = "check" => Len(progress) = number - 1
  BY DEF Control, PlaceInv
<1> QED BY <1>1, <1>2 DEF Exact, ExactTree, Committing, Working

\* Crash keeps the exact tree.
LEMMA ExactCrash ==
  ASSUME Control, Exact, Crash, at \notin Undoing
  PROVE  Exact'
<1>0. /\ at \in Committing \cup {"undo"} /\ plan' = plan /\ UNCHANGED <<tree, backup, progress>> /\ at' = "crashed"
  BY DEF Crash, GoTo
<1>1. ~Pending => tree = Now(Len(progress))
  BY <1>0, WhereItIs
<1>2. Pending' <=> Pending
  BY <1>0, SameEvidence
<1>3. ExactTree'
  BY <1>0, <1>1, <1>2 DEF ExactTree, Now
<1> QED BY <1>0, <1>3, RestExact DEF Exact, Committing

\* Fault keeps the exact tree.
LEMMA ExactFault ==
  ASSUME Control, Exact, Fault, at \in Committing
  PROVE  Exact'
<1>0. at \in Committing /\ plan' = plan /\ UNCHANGED <<tree, backup, number>> /\ at' = "undo"
  BY DEF Fault, GoTo
<1>b. BackupExact'
  BY <1>0, BackupStays DEF Exact, Committing
<1>1. CASE UNCHANGED progress
  <2>1. ~Pending => tree = Now(Len(progress))
    BY <1>0, WhereItIs
  <2>2. Pending' <=> Pending
    BY <1>0, <1>1, SameEvidence
  <2>3. ExactTree'
    BY <1>0, <1>1, <2>1, <2>2 DEF ExactTree, Now
  <2> QED BY <1>0, <1>1, <2>3, RestExact DEF Exact, Committing
<1>2. CASE /\ at = "check" /\ Holds(WithUndo(expected, number))
           /\ progress' = Intended(WithUndo(expected, number))
  <2>1. HoldsIn(Now(number - 1), WithUndo(expected, number))
    BY <1>2, HoldsIs DEF Exact, ExactTree
  <2>2. RecordsExact' /\ Pending'
    <3>1. PICK n : n = number
      OBVIOUS
    <3> QED BY <1>0, <1>2, <2>1, <3>1, RecordsIntent DEF Exact
  <2>3. ExactTree'
    BY <1>0, <2>2 DEF ExactTree
  <2> QED BY <1>b, <2>2, <2>3 DEF Exact
<1>3. CASE /\ at = "prove" /\ OperationAfter(expected, number) # NoManifest
           /\ Holds(OperationAfter(expected, number))
           /\ progress' = Proven(OperationAfter(expected, number))
  <2>1. tree = Now(number) /\ HoldsIn(Now(number), OperationAfter(expected, number))
    BY <1>3, HoldsIs DEF Exact, ExactTree
  <2>2. RecordsExact' /\ Len(progress') = number
    <3>1. PICK n : n = number
      OBVIOUS
    <3> QED BY <1>0, <1>3, <2>1, <3>1, RecordsProof DEF Exact
  <2>3. ExactTree'
    BY <1>0, <2>1, <2>2 DEF ExactTree, Now
  <2> QED BY <1>b, <2>2, <2>3 DEF Exact
<1> QED BY <1>0, <1>1, <1>2, <1>3 DEF Fault

\* Nothing changes.
LEMMA ExactStill ==
  ASSUME Control, Exact, UNCHANGED vars
  PROVE  Exact'
<1>1. Pending' <=> Pending
  BY SameEvidence DEF vars
<1>2. ExactTree'
  <2>0. plan' = plan /\ at' = at /\ tree' = tree /\ number' = number /\ handle' = handle /\ move' = move /\ progress' = progress
    BY DEF vars
  <2>1. CASE at \in {"stage", "check", "retain", "act", "prove", "undo", "crashed", "refused", "reverse"}
    BY <1>1, <2>0, <2>1 DEF Exact, ExactTree, Now
  <2>2. CASE at \in {"truncate", "write", "rename"}
    BY <2>0, <2>2 DEF Exact, ExactTree, Now, Operation, operations, Open, Emptied
  <2>3. CASE at \in {"undo_truncate", "undo_write", "undo_remove"}
    BY <2>0, <2>3 DEF Exact, ExactTree, Now, Operation, operations, Open, Emptied
  <2>4. CASE at \in {"leg", "leg_rename", "undo_verify"}
    BY <2>0, <2>4 DEF Exact, ExactTree, Now, Operation, operations, FirstLeg, SecondLeg, DeleteLeg, Undo
  <2>5. CASE at \in {"abandoned", "committed", "restored", "accepted", "clean", "accepted_clean"}
    BY <2>0, <2>5 DEF ExactTree
  <2>6. at \in Steps
    BY DEF Control, TypeInv
  <2> QED BY <2>1, <2>2, <2>3, <2>4, <2>5, <2>6 DEF Steps, Committing, Undoing
<1>3. BackupExact'
  BY DEF Exact, BackupExact, vars, Touched, disk
<1>4. RecordsExact'
  BY RecordsStay DEF Exact, vars
<1> QED BY <1>2, <1>3, <1>4 DEF Exact

\* Every step keeps the tree and the records exact while nobody else
\* interferes.
LEMMA ExactNext ==
  ASSUME Control, ExactInv, [Next]_vars
  PROVE  ExactInv'
<1> SUFFICES ASSUME Calm' PROVE Exact'
  BY DEF ExactInv
<1>1. Calm /\ ~Stranger /\ (Crash => at \notin Undoing) /\ (Fault => at \in Committing)
  BY CalmBefore DEF Control
<1>2. Exact
  BY <1>1 DEF ExactInv
<1>3. CASE UNCHANGED vars
  BY <1>2, <1>3, ExactStill
<1>4. CASE Next /\ ~UNCHANGED vars
  BY <1>1, <1>2, <1>4, ExactStage, ExactCheck, ExactRetain, ExactOpenText, ExactCreate, ExactTruncate, ExactWrite,
     ExactMoveAside, ExactRename, ExactDelete, ExactProve, ExactPreflight, ExactReverse, ExactRemove, ExactCheckLeg,
     ExactRenameLeg, ExactVerify, ExactFinish, ExactRecover, ExactCleanup, ExactCrash, ExactFault DEF Next
<1> QED BY <1>3, <1>4

\* They are at the start.
LEMMA ExactInit ==
  ASSUME Init
  PROVE  ExactInv
<1>1. plan \in DOMAIN Plans /\ tree = disk /\ at = "stage" /\ number = 1 /\ progress = <<>>
  BY DEF Init
<1>2. tree = Now(number - 1)
  BY <1>1, NowFirst
<1>3. BackupExact /\ RecordsExact
  BY <1>1 DEF BackupExact, RecordsExact
<1>4. ExactTree
  BY <1>1, <1>2 DEF ExactTree
<1> QED BY <1>3, <1>4 DEF ExactInv, Exact

\* The invariant: what the evidence says, where the process is in it, and, as
\* long as no stranger wrote and no rollback was stopped half-way, the very tree
\* of files at every step of the commit and of the rollback.
THEOREM InvHolds == Spec => []Inv
<1>1. Init => Inv
  BY ControlInit, TreeInit, ExactInit DEF Inv, Control
<1>2. Inv /\ [Next]_vars => Inv'
  BY ControlNext, TreeNext, ExactNext DEF Inv, Control
<1> QED BY <1>1, <1>2, PTL DEF Spec

\* The invariant gives the type invariant the runs check.
LEMMA InvTypes ==
  ASSUME Inv
  PROVE  TypeOK
<1>1. Control
  BY DEF Inv, Control
<1>2. WellFormedTree(tree)
  BY DEF Inv, TreeInv, Real, Sound
<1>3. /\ plan \in DOMAIN Plans /\ number \in 0..Len(operations) /\ Len(progress) <= Len(operations)
      /\ at \in Steps /\ raced \in BOOLEAN /\ interrupted \in BOOLEAN
  BY <1>1 DEF Control, TypeInv, EffectsInv, N
<1>4. \A i \in DOMAIN progress : progress[i].after = NoManifest => i = Len(progress)
  <2>1. DOMAIN progress = 1..Len(progress) /\ Len(progress) \in Nat
    BY <1>1, PendingIs DEF Control
  <2> QED BY <1>1, <2>1 DEF Control, EffectsInv, Proved
<1> QED BY <1>2, <1>3, <1>4 DEF TypeOK

\* The tree of files and the outcome the plan has for it agree wherever the plan
\* touches.
LEMMA InvAgrees ==
  ASSUME Inv, NEW n \in 0..N, tree = Now(n)
  PROVE  \A p \in Touched : SameAt(tree, Outcome(n), p)
<1>1. plan \in DOMAIN Plans
  BY DEF Inv, TypeInv
<1>2. Good(tree, Outcome(n), n)
  BY <1>1, PlanGood DEF N, operations, Now, Outcome
<1>3. Touched \subseteq Paths \ UndoPaths
  BY <1>1, TouchedFacts DEF Touched
<1> QED BY <1>2, <1>3 DEF Good

\* The evidence is true and enough (commit_operations_with_writer,
\* rollback_transaction).
THEOREM EvidenceIsTrueHolds == Spec => []EvidenceIsTrue
<1>1. Inv => EvidenceIsTrue
  <2> SUFFICES ASSUME Inv PROVE EvidenceIsTrue
    OBVIOUS
  <2>1. Control
    BY DEF Inv, Control
  <2>2. Calm => Exact
    BY DEF Inv, ExactInv
  <2>3. Len(progress) \in 0..N
    BY <2>1, PendingIs, AtWork DEF Control, EffectsInv
  <2>4. ASSUME writes = 0, ~interrupted, ~Pending, at \in Committing \cup {"undo", "crashed", "refused"}
        PROVE  \A p \in Touched : SameAt(tree, Outcome(Len(progress)), p)
    <3>1. Exact
      BY <2>2, <2>4 DEF Calm
    <3>2. tree = Now(Len(progress))
      BY <2>1, <2>4, <3>1, WhereItIs DEF Exact, ExactTree
    <3> QED BY <2>3, <3>2, InvAgrees
  <2>5. ASSUME at = "refused", writes = 0, ~interrupted PROVE Pending
    BY <2>2, <2>5 DEF Calm, Exact, ExactTree
  <2> QED BY <2>4, <2>5, InvTypes DEF EvidenceIsTrue
<1> QED BY <1>1, InvHolds, PTL

-----------------------------------------------------------------------------
(* What becomes of strangers' writes and of what was set aside *)

\* What operation j sets aside, if the plan has it from the disk.
Original(j) == Outcome(j - 1)[AsideRoot(operations[j])].id

\* Only what the plan sets aside gets into an undo slot, and none is used twice.
SlotInv ==
    \A j \in DOMAIN UndoName :
        /\ Exists(tree, Undo(j)) => j \in DOMAIN operations /\ SetsAside(operations[j])
        /\ Ahead(j) => ~Exists(tree, Undo(j))

\* What was on the disk and is in a slot is nowhere else.
OriginInv ==
    OriginalsAside =>
        /\ \A j \in DOMAIN UndoName, q \in Paths :
              Exists(tree, Undo(j)) /\ tree[q].id = Original(j) => q = Undo(j)
        /\ at = "act" /\ SetsAside(Operation) =>
              \A q \in Paths : tree[q].id = Original(number) => q = AsideRoot(Operation)

\* Nobody makes a directory of what the plan has as a file.
Grown(p) == tree[p].kind = "directory" => Now(number - 1)[p].kind = "directory"

\* What was checked to be a file, or missing, is no directory when it is moved.
SourceInv ==
    /\ at \in {"retain", "act", "rename"} /\ Moving(Operation) => Grown(Operation.path)
    /\ at \in {"retain", "act"} /\ Operation.kind = "rename" => Grown(Operation.new)

\* What is open under this identity is no stranger's text.
OwnHandle(t, id) == \A p \in Paths : t[p].kind = "file" /\ t[p].id = id => t[p].text # Foreign

\* What was checked, while nobody writes behind the back of the check.
RaceInv ==
    ~raced =>
        /\ at \in {"retain", "act"} /\ Operation.kind = "create" => tree[Operation.path].text # Foreign
        /\ at \in {"truncate", "write", "undo_truncate", "undo_write"} =>
              OwnHandle(tree, handle.id)
        /\ at = "rename" => ~Exists(tree, Operation.new)
        /\ at = "undo_remove" => tree[Operation.path].kind = "file" /\ tree[Operation.path].text # Foreign
        /\ at = "leg_rename" => HoldsIn(tree, LegProof)

\* What the clean-up destroys.
DoneInv ==
    /\ at = "committed" => \A p \in UndoPaths : tree[p].text # Foreign
    /\ at = "restored" /\ OriginalsAside => \A p \in UndoPaths : ~Exists(tree, p)

\* Everything that has an identity in an outcome was on the disk, at a path that
\* the plan touches or where it is now.
Comes(k, s) ==
    \A p \in Paths : Exists(s, p) /\ s[p].id # NoId =>
        \E q \in TouchedOf[k] \cup {p} : Exists(Plans[k].disk, q) /\ Plans[k].disk[q].id = s[p].id

\* A step that only moves files keeps where they come from.
LEMMA ComesMoved ==
  ASSUME NEW k \in DOMAIN Plans, NEW s, NEW r, Comes(k, s),
         \A p \in Paths : Exists(r, p) /\ r[p].id # NoId =>
             \/ Exists(s, p) /\ r[p].id = s[p].id
             \/ \E q \in TouchedOf[k] \cap Paths : Exists(s, q) /\ r[p].id = s[q].id
  PROVE  Comes(k, r)
<1> SUFFICES ASSUME NEW p \in Paths, Exists(r, p), r[p].id # NoId
             PROVE  \E q \in TouchedOf[k] \cup {p} : Exists(Plans[k].disk, q) /\ Plans[k].disk[q].id = r[p].id
  BY DEF Comes
<1>1. CASE Exists(s, p) /\ r[p].id = s[p].id
  BY <1>1 DEF Comes
<1>2. CASE \E q \in TouchedOf[k] \cap Paths : Exists(s, q) /\ r[p].id = s[q].id
  <2>1. PICK q \in TouchedOf[k] \cap Paths : Exists(s, q) /\ r[p].id = s[q].id
    BY <1>2
  <2>2. PICK z \in TouchedOf[k] \cup {q} : Exists(Plans[k].disk, z) /\ Plans[k].disk[z].id = s[q].id
    BY <2>1 DEF Comes
  <2> QED BY <2>1, <2>2
<1> QED BY <1>1, <1>2

\* One more operation moves what it finds, or gives it new content.
LEMMA ComesStep ==
  ASSUME NEW k \in DOMAIN Plans, NEW i \in DOMAIN Plans[k].operations, Comes(k, OutcomeOf[k][i - 1])
  PROVE  Comes(k, OutcomeOf[k][i])
<1> DEFINE o == Plans[k].operations[i]
           s == OutcomeOf[k][i - 1]
           r == OutcomeOf[k][i]
<1>0. LegalOn(s, o, i) /\ Sound(s) /\ r = StepTree(s, o) /\ OpTyped(o)
  <2>1. i - 1 \in 0..Len(Plans[k].operations)
    BY PlanGood
  <2> QED BY <2>1, PlanGood, PlanFacts DEF Good
<1>1. TouchedBy(o, s) \subseteq TouchedOf[k] /\ TouchedOf[k] \subseteq Paths
  BY TouchedFacts
<1>2. Comes(k, s)
  OBVIOUS
<1> SUFFICES Comes(k, r)
  OBVIOUS
<1> HIDE DEF o, s, r
<1>3. s \in Trees /\ o.path \in Paths /\ o.path \in AnyPath
  BY <1>0, PathFacts DEF Sound, LegalOn
<1>4. CASE o.kind = "text"
  <2>1. r = TextTree(s, o.path, o.after) /\ o.after \in Texts
    BY <1>0, <1>4 DEF StepTree, OpTyped
  <2>2. \A p \in Paths : r[p].id = s[p].id /\ r[p].kind = s[p].kind
    <3>1. s[o.path] \in [kind : Kinds, id : Identities, text : Texts]
      BY <1>3, NodeTypes DEF Node
    <3>2. [s[o.path] EXCEPT !.text = o.after].id = s[o.path].id /\ [s[o.path] EXCEPT !.text = o.after].kind = s[o.path].kind
      BY <3>1
    <3>3. r[o.path] = [s[o.path] EXCEPT !.text = o.after] /\ \A q \in Paths : q # o.path => r[q] = s[q]
      BY <1>3, <2>1, TextAlgebra
    <3> QED BY <3>2, <3>3
  <2> QED BY <1>2, <2>2, ComesMoved DEF Exists
<1>5. CASE o.kind = "create"
  <2>1. r = CreateTree(s, o.path)
    BY <1>0, <1>5 DEF StepTree
  <2>2. \A p \in Paths : p # o.path => r[p] = s[p]
    BY <1>3, <2>1, NodeTypes DEF CreateTree
  <2>3. r[o.path].id = NoId \/ (Exists(s, o.path) /\ r[o.path].id = s[o.path].id)
    <3>1. s[o.path] \in [kind : Kinds, id : Identities, text : Texts]
      BY <1>3, NodeTypes DEF Node
    <3>2. [s[o.path] EXCEPT !.text = <<>>].id = s[o.path].id
      BY <3>1
    <3>3. r[o.path] = IF Exists(s, o.path) THEN [s[o.path] EXCEPT !.text = <<>>] ELSE NewFile
      BY <1>3, <2>1, NodeTypes DEF CreateTree
    <3> QED BY <3>2, <3>3 DEF NewFile
  <2>4. \A p \in Paths : Exists(r, p) /\ r[p].id # NoId => Exists(s, p) /\ r[p].id = s[p].id
    BY <2>2, <2>3 DEF Exists
  <2> QED BY <1>2, <2>4, ComesMoved
<1>6. CASE o.kind = "delete"
  <2>1. r = DeleteTree(s, o.path)
    BY <1>0, <1>6 DEF StepTree
  <2>2. \A p \in Paths : Exists(r, p) => Exists(s, p) /\ r[p].id = s[p].id
    BY <2>1 DEF DeleteTree, Exists, MissingNode
  <2> QED BY <1>2, <2>2, ComesMoved
<1>7. CASE o.kind = "rename"
  <2>1. r = RenameTree(s, o.path, o.new) /\ o.new \in Paths /\ o.new \in AnyPath
    BY <1>0, <1>7, PathFacts DEF StepTree, LegalOn
  <2>2. ASSUME NEW p \in Paths, Exists(r, p)
        PROVE  (Exists(s, p) /\ r[p].id = s[p].id) \/ \E q \in TouchedOf[k] \cap Paths : Exists(s, q) /\ r[p].id = s[q].id
    <3>1. \/ /\ Rebase(p, o.new, o.path) \in Paths /\ Under(Rebase(p, o.new, o.path), o.path)
             /\ r[p] = s[Rebase(p, o.new, o.path)]
          \/ r[p] = s[p]
      BY <1>3, <2>1, <2>2, RenamedFrom
    <3>2. CASE r[p] = s[p]
      BY <2>2, <3>2 DEF Exists
    <3>3. CASE /\ Rebase(p, o.new, o.path) \in Paths /\ Under(Rebase(p, o.new, o.path), o.path)
               /\ r[p] = s[Rebase(p, o.new, o.path)]
      <4>1. PICK q \in Paths : q = Rebase(p, o.new, o.path) /\ Under(q, o.path) /\ r[p] = s[q]
        BY <3>3
      <4>2. Exists(s, q)
        BY <2>2, <4>1 DEF Exists
      <4>3. q \in TouchedBy(o, s)
        BY <1>7, <4>1, <4>2 DEF TouchedBy, Below
      <4> QED BY <1>1, <4>1, <4>2, <4>3
    <3> QED BY <3>1, <3>2, <3>3
  <2> QED BY <1>2, <2>2, ComesMoved
<1> QED BY <1>0, <1>4, <1>5, <1>6, <1>7 DEF OpTyped, OpKinds

\* Every file of a plan's trees comes from the disk or was created by the plan.
LEMMA ComesFromDisk ==
  ASSUME NEW k \in DOMAIN Plans
  PROVE  \A n \in 0..Len(Plans[k].operations) : Comes(k, OutcomeOf[k][n])
<1> DEFINE ops == Plans[k].operations
           G == {n \in Nat : n <= Len(ops) => Comes(k, OutcomeOf[k][n])}
<1>0. Len(ops) \in Nat /\ DOMAIN ops = 1..Len(ops)
  BY PlanFacts
<1>1. 0 \in G
  <2>1. OutcomeOf[k][0] = Plans[k].disk
    BY OutcomeSteps
  <2> QED BY <2>1 DEF Comes
<1>2. \A n \in Nat : n \in G => n + 1 \in G
  <2> SUFFICES ASSUME NEW n \in Nat, n \in G, n + 1 <= Len(ops) PROVE Comes(k, OutcomeOf[k][n + 1])
    OBVIOUS
  <2>1. n + 1 \in DOMAIN ops /\ (n + 1) - 1 = n /\ Comes(k, OutcomeOf[k][n])
    BY <1>0
  <2> DEFINE i == n + 1
  <2>2. i \in DOMAIN ops /\ Comes(k, OutcomeOf[k][i - 1])
    BY <2>1
  <2> HIDE DEF i
  <2>3. Comes(k, OutcomeOf[k][i])
    BY <2>2, ComesStep
  <2> QED BY <2>3 DEF i
<1>3. Nat \subseteq G
  <2> HIDE DEF G
  <2> QED BY <1>1, <1>2, NatSet
<1> QED BY <1>0, <1>3

\* The original of a slot is nobody's new file, and lay on the disk at a path the
\* plan touches.
LEMMA OriginalFacts ==
  ASSUME plan \in DOMAIN Plans, OriginalsAside, NEW j \in DOMAIN operations, SetsAside(operations[j])
  PROVE  /\ Original(j) \notin {NoId, Foreign} \cup NewIds
         /\ \E q \in Touched : disk[q].id = Original(j)
         /\ AsideRoot(operations[j]) \in Touched /\ AsideRoot(operations[j]) \in Paths
         /\ AsideRoot(operations[j]) \notin UndoPaths
         /\ Exists(Now(j - 1), AsideRoot(operations[j])) /\ Now(j - 1)[AsideRoot(operations[j])].id = Original(j)
<1> DEFINE o == operations[j]
           p == AsideRoot(o)
           s == OutcomeOf[plan][j - 1]
<1>1. j - 1 \in 0..Len(Plans[plan].operations) /\ Good(ActualOf(plan)[j - 1], s, j - 1)
  BY PlanGood DEF operations
<1>2. p \in TouchedOf[plan] /\ p \in Paths /\ p \notin UndoPaths
  BY TouchedFacts DEF operations, AsideRoot, SetsAside
<1>3. s[p].id # NoId /\ Original(j) = s[p].id
  BY DEF OriginalsAside, Original, Outcome
<1> HIDE DEF o, p, s
<1>4. Exists(s, p)
  BY <1>1, <1>2, <1>3, NodeTypes DEF Good, Sound, Exists
<1>5. PICK q \in TouchedOf[plan] \cup {p} : Exists(Plans[plan].disk, q) /\ Plans[plan].disk[q].id = s[p].id
  <2>1. Comes(plan, s)
    BY <1>1, ComesFromDisk DEF s
  <2> QED BY <1>2, <1>3, <1>4, <2>1 DEF Comes
<1>6. q \in TouchedOf[plan] /\ q \in Paths
  BY <1>2, <1>5, TouchedFacts
<1>7. Plans[plan].disk[q].id \notin {NoId, Foreign} \cup NewIds
  BY <1>5, <1>6, PlansAssumption DEF PlanFits, DiskFits
<1>8. SameAt(ActualOf(plan)[j - 1], s, p)
  BY <1>1, <1>2 DEF Good
<1>9. Exists(Now(j - 1), p) /\ Now(j - 1)[p].id = Original(j)
  BY <1>3, <1>4, <1>8 DEF SameAt, Exists, Now
<1> QED BY <1>2, <1>3, <1>5, <1>6, <1>7, <1>9 DEF p, o, Touched, disk

\* What a step makes of the tree: files are moved, or keep their places and get
\* at most the identity of a new file.
Stays(t, r) == \A p \in Paths : r[p].id = t[p].id \/ r[p].id \in {NoId, Foreign} \cup NewIds

Moves(t, r) == \E a, b \in Paths : Apart(a, b) /\ r = RenameTree(t, a, b)

\* A stranger's file.
Strange(node, id) == node = MissingNode \/ (node.kind = "file" /\ node.id \in {id, Foreign} /\ node.text = Foreign)

\* What a stranger does to the tree.
StrangerAt(a, n) ==
    /\ a \in Paths /\ a \notin UndoPaths /\ Strange(n, tree[a].id)
    /\ \A p \in Paths : tree'[p] = IF p = a THEN n ELSE tree[p]

\* What a stranger may do: one node, at one path.
LEMMA StrangerDoes ==
  ASSUME TreeInv, Stranger
  PROVE  \E a, n : StrangerAt(a, n)
<1>1. PICK a \in Paths \ UndoPaths :
         \/ tree[a].kind = "file" /\ tree' = [tree EXCEPT ![a].text = Foreign]
         \/ tree' = [tree EXCEPT ![a] = [NewFile EXCEPT !.id = Foreign, !.text = Foreign]]
         \/ tree' = [tree EXCEPT ![a] = MissingNode]
  BY DEF Stranger
<1>2. tree \in Trees /\ a \in Paths /\ a \notin UndoPaths
  BY DEF TreeInv, Real, Sound
<1>3. CASE tree[a].kind = "file" /\ tree' = [tree EXCEPT ![a].text = Foreign]
  <2> DEFINE n == [tree[a] EXCEPT !.text = Foreign]
  <2>1. tree' = TextTree(tree, a, Foreign)
    BY <1>3 DEF TextTree
  <2>2. tree[a] \in [kind : Kinds, id : Identities, text : Texts]
    BY <1>2, NodeTypes DEF Node
  <2>3. n.id = tree[a].id /\ n.kind = tree[a].kind /\ n.text = Foreign
    BY <2>2
  <2>4. tree'[a] = n /\ \A q \in Paths : q # a => tree'[q] = tree[q]
    BY <1>2, <2>1, TextAlgebra
  <2> HIDE DEF n
  <2>5. StrangerAt(a, n)
    BY <1>2, <1>3, <2>3, <2>4 DEF StrangerAt, Strange
  <2> QED BY <2>5
<1>4. CASE tree' = [tree EXCEPT ![a] = [NewFile EXCEPT !.id = Foreign, !.text = Foreign]]
  <2> DEFINE n == [NewFile EXCEPT !.id = Foreign, !.text = Foreign]
  <2>1. n.id = Foreign /\ n.kind = "file" /\ n.text = Foreign
    BY ForeignFile
  <2>2. tree' = [tree EXCEPT ![a] = n]
    BY <1>4
  <2> HIDE DEF n
  <2>3. \A p \in Paths : tree'[p] = IF p = a THEN n ELSE tree[p]
    BY <1>2, <2>2, NodeTypes
  <2>4. StrangerAt(a, n)
    BY <1>2, <2>1, <2>3 DEF StrangerAt, Strange
  <2> QED BY <2>4
<1>5. CASE tree' = [tree EXCEPT ![a] = MissingNode]
  <2>1. \A p \in Paths : tree'[p] = IF p = a THEN MissingNode ELSE tree[p]
    BY <1>2, <1>5, NodeTypes
  <2>2. StrangerAt(a, MissingNode)
    BY <1>2, <2>1 DEF StrangerAt, Strange
  <2> QED BY <2>2
<1> QED BY <1>1, <1>3, <1>4, <1>5

\* A stranger neither makes directories nor reaches into the slots.
LEMMA StrangerStays ==
  ASSUME TreeInv, Stranger
  PROVE  /\ Stays(tree, tree')
         /\ \A p \in Paths : tree'[p].id = tree[p].id \/ tree'[p].id \in {NoId, Foreign}
         /\ \A p \in Paths : tree'[p].kind = "directory" => tree[p].kind = "directory"
         /\ \A p \in UndoPaths : tree'[p] = tree[p]
<1>1. PICK a, n : StrangerAt(a, n)
  BY StrangerDoes
<1>2. n.id \in {tree[a].id, NoId, Foreign} /\ n.kind # "directory"
  BY <1>1, NodeTypes DEF StrangerAt, Strange
<1>3. \A p \in Paths : tree'[p] = IF p = a THEN n ELSE tree[p]
  BY <1>1 DEF StrangerAt
<1>4. a \notin UndoPaths /\ UndoPaths \subseteq Paths
  BY <1>1 DEF StrangerAt, UndoPaths
<1> QED BY <1>2, <1>3, <1>4 DEF Stays

\* Every step either leaves each identity where it is or removes it, or moves
\* one subtree.
LEMMA TreeStep ==
  ASSUME Control, TreeInv, [Next]_vars
  PROVE  Stays(tree, tree') \/ Moves(tree, tree')
<1>0. CASE tree' = tree
  BY <1>0 DEF Stays
<1>1. CASE Truncate \/ Write
  <2>1. PICK x \in Texts : tree' = Overwritten(handle.id, x)
    BY <1>1 DEF Truncate, Write, Control, TypeInv, Texts
  <2> QED BY <2>1, RealOverwritten DEF TreeInv, Stays
<1>2. CASE (MoveAside \/ Rename \/ Delete) /\ tree' # tree
  <2>1. number \in 1..N
    BY <1>2, AtWork DEF MoveAside, Rename, Delete, Working
  <2>2. CASE MoveAside
    <3>1. Operation.kind = "rename" /\ tree' = RenameTree(tree, Operation.new, Undo(number))
      BY <1>2, <2>2 DEF MoveAside, Abort, Unfit
    <3> QED BY <2>1, <3>1, Legal DEF Moves
  <2>3. CASE Rename
    <3>1. Operation.kind = "rename" /\ tree' = RenameTree(tree, Operation.path, Operation.new)
      BY <1>2, <2>3 DEF Rename, Abort, Control, StepInv
    <3> QED BY <2>1, <3>1, Legal DEF Moves
  <2>4. CASE Delete
    <3>1. tree' = RenameTree(tree, Operation.path, Undo(number))
      BY <1>2, <2>4 DEF Delete, Abort, Unfit
    <3> QED BY <2>1, <3>1, Legal DEF Moves
  <2> QED BY <1>2, <2>2, <2>3, <2>4
<1>3. CASE RenameLeg /\ tree' # tree
  <2>1. number \in 1..N /\ (FirstLeg \/ SecondLeg \/ DeleteLeg)
    BY <1>3, AtWork DEF RenameLeg, Undoing, Control, StepInv
  <2>2. tree' = RenameTree(tree, move.from, move.to)
    BY <1>3 DEF RenameLeg
  <2> QED BY <2>1, <2>2, LegsApart DEF Moves
<1>4. CASE RemoveCreated \/ Cleanup
  <2>1. \A p \in Paths : tree'[p] = tree[p] \/ tree'[p] = MissingNode
    BY <1>0, <1>4 DEF RemoveCreated, Cleanup, DeleteTree
  <2> QED BY <2>1, NodeTypes DEF Stays
<1>5. CASE Create /\ tree' # tree
  <2>1. /\ at = "act" /\ tree' = [tree EXCEPT ![Operation.path] = [NewFile EXCEPT !.id = CreatedId(number)]]
    BY <1>5 DEF Create, Abort, Unfit
  <2>2. number \in DOMAIN UndoName /\ Operation.path \in Paths
    BY <2>1, AtWork, Legal DEF Working
  <2>3. tree' = [tree EXCEPT ![Operation.path] = Created(number)] /\ Created(number).id = CreatedId(number)
    BY <2>1, <2>2, NewNodes DEF Created
  <2>4. tree \in Trees
    BY DEF TreeInv, Real, Sound
  <2>5. \A p \in Paths : tree'[p] = IF p = Operation.path THEN Created(number) ELSE tree[p]
    BY <2>3, <2>4, NodeTypes
  <2> QED BY <2>2, <2>3, <2>5 DEF Stays, NewIds
<1>6. CASE Stranger
  BY <1>6, StrangerStays
<1>7. CASE UNCHANGED vars \/ Stage \/ Check \/ Retain \/ OpenText \/ Prove \/ Preflight \/ ReverseEffect \/ CheckLeg
           \/ Verify \/ FinishUndo \/ Recover \/ Crash \/ Fault
  <2>1. tree' = tree
    BY <1>7 DEF vars, Stage, Check, Retain, OpenText, Prove, Preflight, ReverseEffect, CheckLeg, Verify, FinishUndo,
       Recover, Crash, Fault, Abort
  <2> QED BY <1>0, <2>1
<1> QED BY <1>0, <1>1, <1>2, <1>3, <1>4, <1>5, <1>6, <1>7 DEF Next

\* What is in slot j stays the only file of its identity.
LEMMA StaysOnly ==
  ASSUME NEW t, Sound(t), NEW r, Sound(r), Stays(t, r) \/ Moves(t, r), NEW j \in DOMAIN UndoName,
         Exists(t, Undo(j)), Exists(r, Undo(j)), NEW x, x \notin {NoId, Foreign} \cup NewIds,
         \A q \in Paths : t[q].id = x => q = Undo(j)
  PROVE  \A q \in Paths : r[q].id = x => q = Undo(j)
<1> SUFFICES ASSUME NEW q \in Paths, r[q].id = x PROVE q = Undo(j)
  OBVIOUS
<1>u. Undo(j) \in Paths /\ Undo(j) \in AnyPath /\ Len(Undo(j)) = 1
  BY UndoFacts DEF Undo
<1>1. CASE Stays(t, r)
  BY <1>1 DEF Stays
<1>2. CASE Moves(t, r)
  <2>1. PICK a \in Paths, b \in Paths : Apart(a, b) /\ r = RenameTree(t, a, b)
    BY <1>2 DEF Moves
  <2>2. a \in AnyPath /\ b \in AnyPath
    BY PathFacts
  <2>3. Exists(r, q)
    BY NodeTypes DEF Sound, Exists
  <2>4. \/ /\ Rebase(q, b, a) \in Paths /\ Under(Rebase(q, b, a), a) /\ r[q] = t[Rebase(q, b, a)]
        \/ r[q] = t[q]
    BY <2>1, <2>2, <2>3, RenamedFrom
  <2>5. CASE r[q] = t[q]
    BY <2>5
  <2>6. CASE Rebase(q, b, a) \in Paths /\ Under(Rebase(q, b, a), a) /\ r[q] = t[Rebase(q, b, a)]
    <3>1. Under(Undo(j), a)
      BY <2>6
    <3>2. ~Under(Undo(j), b)
      BY <1>u, <2>1, <2>2, <3>1, ApartFacts
    <3>3. r[Undo(j)] = MissingNode
      BY <1>u, <2>1, <2>2, <3>1, <3>2, RenamedAway
    <3> QED BY <3>3, NodeTypes DEF Exists
  <2> QED BY <2>4, <2>5, <2>6
<1> QED BY <1>1, <1>2

\* Only a delete and an overwriting rename fill a slot, that of their operation.
Fills(j) ==
    /\ j = number /\ at = "act" /\ Operation.kind \in {"rename", "delete"} /\ SetsAside(Operation)
    /\ number \in 1..N /\ number' = number /\ at' \in {"rename", "prove"}
    /\ tree' = RenameTree(tree, AsideRoot(Operation), Undo(number))

\* A slot is filled by its own operation only.
LEMMA SlotsGrow ==
  ASSUME Control, TreeInv, TreeInv', [Next]_vars, NEW j \in DOMAIN UndoName, Exists(tree', Undo(j)), ~Exists(tree, Undo(j))
  PROVE  Fills(j)
<1> DEFINE u == Undo(j)
<1>u. u \in Paths /\ u \in AnyPath /\ u \in UndoPaths
  BY UndoFacts
<1>t. tree \in Trees
  BY DEF TreeInv, Real, Sound
<1>0. tree'[u] # tree[u] /\ tree'[u] # MissingNode
  BY NodeTypes DEF Exists
<1>x. Exists(tree', u) /\ ~Exists(tree, u)
  OBVIOUS
<1>1. ~(Truncate \/ Write)
  <2> SUFFICES ASSUME Truncate \/ Write PROVE FALSE
    OBVIOUS
  <2>1. PICK x \in Texts : tree' = Overwritten(handle.id, x)
    BY DEF Truncate, Write, Control, TypeInv, Texts
  <2> QED BY <1>u, <1>x, <2>1, RealOverwritten DEF TreeInv, Exists
<1>2. CASE MoveAside \/ Delete
  <2>1. number \in 1..N
    BY <1>2, AtWork DEF MoveAside, Delete, Working
  <2>2. /\ at = "act" /\ Operation.kind \in {"rename", "delete"} /\ SetsAside(Operation)
        /\ number' = number /\ at' \in {"rename", "prove"}
        /\ tree' = RenameTree(tree, AsideRoot(Operation), Undo(number))
    <3>1. CASE MoveAside
      BY <1>0, <3>1 DEF MoveAside, Abort, Unfit, SetsAside, AsideRoot, GoTo
    <3>2. CASE Delete
      BY <1>0, <3>2 DEF Delete, Abort, Unfit, SetsAside, AsideRoot, GoTo
    <3> QED BY <1>2, <3>1, <3>2
  <2>3. AsideRoot(Operation) \in Paths /\ AsideRoot(Operation) \in AnyPath /\ Apart(AsideRoot(Operation), u)
        /\ Undo(number) \in AnyPath /\ number \in DOMAIN UndoName
    <3>1. AsideRoot(Operation) \in Paths /\ AsideRoot(Operation) \notin UndoPaths /\ number \in DOMAIN UndoName
      BY <2>1, <2>2, Legal DEF AsideRoot
    <3> QED BY <3>1, UndoFacts, PathFacts
  <2>4. j = number
    <3> SUFFICES ASSUME j # number PROVE FALSE
      OBVIOUS
    <3>1. ~Under(u, Undo(number)) /\ ~Under(u, AsideRoot(Operation))
      BY <2>3, UndoFacts DEF Apart
    <3>2. tree'[u] = tree[u]
      BY <1>u, <2>2, <2>3, <3>1, RenamedElse
    <3> QED BY <1>0, <3>2
  <2> QED BY <2>1, <2>2, <2>4 DEF Fills
<1>3. ~Rename
  <2> SUFFICES ASSUME Rename PROVE FALSE
    OBVIOUS
  <2>1. number \in 1..N
    BY AtWork DEF Rename, Working
  <2>2. Operation.kind = "rename" /\ tree' = RenameTree(tree, Operation.path, Operation.new)
    BY <1>0 DEF Rename, Abort, Control, StepInv
  <2>3. /\ Operation.path \in AnyPath /\ Operation.new \in AnyPath
        /\ ~Under(u, Operation.path) /\ ~Under(u, Operation.new)
    <3>1. Operation.path \in Paths \ UndoPaths /\ Operation.new \in Paths \ UndoPaths
      BY <2>1, <2>2, Legal
    <3> QED BY <3>1, UndoFacts, PathFacts DEF Apart
  <2> QED BY <1>0, <1>u, <2>2, <2>3, RenamedElse
<1>4. ~RenameLeg
  <2> SUFFICES ASSUME RenameLeg PROVE FALSE
    OBVIOUS
  <2>1. number \in 1..N /\ (FirstLeg \/ SecondLeg \/ DeleteLeg)
    BY AtWork DEF RenameLeg, Undoing, Control, StepInv
  <2>2. tree' = RenameTree(tree, move.from, move.to)
    BY <1>0 DEF RenameLeg
  <2>3. move.from \in AnyPath /\ move.to \in AnyPath /\ move.to \in Paths \ UndoPaths
    <3>1. move.to \in Paths \ UndoPaths /\ move.from \in Paths
      BY <2>1, Legal, LegsApart DEF FirstLeg, SecondLeg, DeleteLeg
    <3> QED BY <3>1, PathFacts
  <2>4. ~Under(u, move.to)
    BY <2>3, UndoFacts DEF Apart
  <2> QED BY <1>0, <1>u, <2>2, <2>3, <2>4, RenamedAway, RenamedElse
<1>5. ~(RemoveCreated \/ Cleanup)
  <2> SUFFICES ASSUME RemoveCreated \/ Cleanup PROVE FALSE
    OBVIOUS
  <2>1. tree'[u] = tree[u] \/ tree'[u] = MissingNode
    BY <1>u DEF RemoveCreated, Cleanup, DeleteTree
  <2> QED BY <1>0, <2>1
<1>6. ~Create
  <2> SUFFICES ASSUME Create PROVE FALSE
    OBVIOUS
  <2>1. at = "act" /\ tree' = [tree EXCEPT ![Operation.path] = [NewFile EXCEPT !.id = CreatedId(number)]]
    BY <1>0 DEF Create, Abort, Unfit
  <2>2. Operation.path \in Paths \ UndoPaths
    BY <2>1, AtWork, Legal DEF Working
  <2>3. tree'[u] = tree[u]
    BY <1>u, <1>t, <2>1, <2>2, NodeTypes
  <2> QED BY <1>0, <2>3
<1>7. ~Stranger
  <2> SUFFICES ASSUME Stranger PROVE FALSE
    OBVIOUS
  <2>1. PICK a \in Paths \ UndoPaths : \E n : \/ tree' = [tree EXCEPT ![a] = n]
                                             \/ tree' = [tree EXCEPT ![a].text = Foreign]
    BY DEF Stranger
  <2>2. tree'[u] = tree[u]
    BY <1>u, <1>t, <2>1, NodeTypes
  <2> QED BY <1>0, <2>2
<1>8. ~(UNCHANGED vars \/ Stage \/ Check \/ Retain \/ OpenText \/ Prove \/ Preflight \/ ReverseEffect \/ CheckLeg
           \/ Verify \/ FinishUndo \/ Recover \/ Crash \/ Fault)
  BY <1>0 DEF vars, Stage, Check, Retain, OpenText, Prove, Preflight, ReverseEffect, CheckLeg, Verify, FinishUndo,
       Recover, Crash, Fault, Abort
<1> QED BY <1>1, <1>2, <1>3, <1>4, <1>5, <1>6, <1>7, <1>8 DEF Next

\* Which steps come to a place.
LEMMA Arrives ==
  ASSUME [Next]_vars
  PROVE  /\ at' = "retain" => Check \/ Stranger \/ UNCHANGED vars
         /\ at' = "act" => Retain \/ Stranger \/ UNCHANGED vars
         /\ at' = "truncate" => OpenText \/ Create \/ Stranger \/ UNCHANGED vars
         /\ at' \in {"write", "undo_write"} => Truncate \/ Stranger \/ UNCHANGED vars
         /\ at' = "rename" => MoveAside \/ Stranger \/ UNCHANGED vars
         /\ at' \in {"undo_truncate", "undo_remove"} => ReverseEffect \/ Stranger \/ UNCHANGED vars
         /\ at' = "leg_rename" => CheckLeg \/ Stranger \/ UNCHANGED vars
         /\ at' = "committed" => Prove \/ Stranger \/ UNCHANGED vars
         /\ at' = "restored" => Preflight \/ FinishUndo \/ Stranger \/ UNCHANGED vars
<1>1. /\ Stage => at' \in {"check", "abandoned"}
      /\ Check => at' \in {"retain", "undo"}
      /\ Retain => at' \in {"act", "undo"}
  BY DEF Stage, Check, Retain, GoTo, Abort
<1>2. /\ OpenText => at' \in {"truncate", "undo"}
      /\ Create => at' \in {"truncate", "prove", "undo"}
      /\ Truncate => at' \in {"undo_write", "write", "prove"}
      /\ Write => at' \in {"prove", "undo_verify"}
  BY DEF OpenText, Create, Truncate, Write, GoTo, Abort, Unfit
<1>3. /\ MoveAside => at' \in {"rename", "prove", "undo"}
      /\ Rename => at' \in {"prove", "undo"}
      /\ Delete => at' \in {"prove", "undo"}
      /\ Prove => at' \in {"committed", "check", "undo"}
  BY DEF MoveAside, Rename, Delete, Prove, GoTo, Abort, Unfit
<1>4. /\ Preflight => at' \in {"restored", "reverse", "refused"}
      /\ ReverseEffect => at' \in {"reverse", "undo_truncate", "undo_remove", "leg", "refused"}
      /\ RemoveCreated => at' \in {"undo_verify", "refused"}
      /\ CheckLeg => at' \in {"leg_rename", "refused"}
  BY DEF Preflight, ReverseEffect, ReverseText, ReverseMove, RemoveCreated, CheckLeg, GoTo
<1>5. /\ RenameLeg => at' \in {"leg", "undo_verify", "refused"}
      /\ Verify => at' \in {"reverse", "refused"}
      /\ FinishUndo => at' \in {"restored", "refused"}
      /\ Recover => at' \in {"undo", "accepted"}
      /\ Cleanup => at' \in {"accepted_clean", "clean"}
      /\ Crash => at' = "crashed"
      /\ Fault => at' \in {"undo", "refused"}
  BY DEF RenameLeg, Verify, FinishUndo, Recover, Cleanup, Crash, Fault, GoTo
<1> QED BY ONLY <1>1, <1>2, <1>3, <1>4, <1>5, [Next]_vars DEF Next

\* Every step keeps SlotInv.
LEMMA SlotNext ==
  ASSUME Control, TreeInv, TreeInv', SlotInv, [Next]_vars, plan' = plan
  PROVE  SlotInv'
<1> SUFFICES ASSUME NEW j \in DOMAIN UndoName
             PROVE  /\ Exists(tree', Undo(j)) => j \in DOMAIN operations /\ SetsAside(operations[j])
                    /\ Ahead(j)' => ~Exists(tree', Undo(j))
  BY SamePlan DEF SlotInv, Undo
<1>1. CASE Exists(tree, Undo(j)) \/ ~Exists(tree', Undo(j))
  BY <1>1, AheadNext DEF SlotInv
<1>2. CASE Exists(tree', Undo(j)) /\ ~Exists(tree, Undo(j))
  <2>1. Fills(j)
    BY <1>2, SlotsGrow
  <2>2. j \in DOMAIN operations /\ SetsAside(operations[j])
    BY <2>1, PlanSize DEF Fills, Operation, Control, TypeInv
  <2>3. ~Ahead(j)'
    <3>1. number \in Int
      BY <2>1, AtWork DEF Fills
    <3> QED BY <2>1, <3>1 DEF Fills, Ahead
  <2> QED BY <2>2, <2>3
<1> QED BY <1>1, <1>2

\* Before the plan starts the slots are free.
LEMMA SlotInit ==
  ASSUME Init
  PROVE  SlotInv
<1> SUFFICES ASSUME NEW j \in DOMAIN UndoName PROVE ~Exists(tree, Undo(j))
  BY DEF SlotInv
<1>1. plan \in DOMAIN Plans /\ tree = Plans[plan].disk
  BY DEF Init, disk
<1> QED BY <1>1, UndoFacts, PlansAssumption DEF PlanFits, DiskFits

\* The check of retain_effect_handles finds the original at its name.
LEMMA RetainsOriginal ==
  ASSUME Control, TreeInv, Retain, at' = "act", OriginalsAside, SetsAside(Operation), NEW q \in Paths,
         tree[q].id = Original(number)
  PROVE  q = AsideRoot(Operation)
<1> DEFINE o == Operation
           p == AsideRoot(o)
<1>1. number \in 1..N /\ number \in DOMAIN operations /\ plan \in DOMAIN Plans /\ at = "retain" /\ number \in DOMAIN progress
      /\ progress[number].before = expected
  BY AtWork, PendingIs DEF Retain, Working, Control, PlaceInv
<1>2. /\ Original(number) \notin {NoId, Foreign} \cup NewIds /\ p \in Touched /\ p \in Paths
      /\ Exists(Now(number - 1), p) /\ Now(number - 1)[p].id = Original(number)
  BY <1>1, OriginalFacts DEF Operation
<1>3. Tells(plan, expected, number - 1)
  BY <1>1 DEF Control, RecordInv
<1>4. Fits(expected[p], Now(number - 1)[p])
  BY <1>2, <1>3 DEF Tells, Fitting, Now, Touched
<1>5. expected[p].kind # "missing" /\ expected[p].id = Original(number)
  BY <1>2, <1>4 DEF Fits, Exists
<1>6. expected[p].kind # "missing" => tree[p].id = expected[p].id
  BY DEF Retain, Abort, GoTo, SetsAside, AsideRoot
<1>7. tree[p].id = Original(number)
  BY <1>5, <1>6
<1> HIDE DEF p
<1>8. Exists(tree, q)
  BY <1>2, NodeTypes DEF TreeInv, Real, Sound, Exists
<1>9. q = p
  BY <1>2, <1>7, <1>8 DEF TreeInv, Real, Sound
<1> QED BY <1>9 DEF p

\* Every step keeps OriginInv.
LEMMA OriginNext ==
  ASSUME Control, TreeInv, TreeInv', OriginInv, [Next]_vars, plan' = plan, SlotInv
  PROVE  OriginInv'
<1>p. plan \in DOMAIN Plans /\ Sound(tree) /\ Sound(tree')
  BY DEF Control, TypeInv, TreeInv, Real
<1>s. /\ OriginalsAside' <=> OriginalsAside
      /\ \A j : Original(j)' = Original(j) /\ operations[j]' = operations[j]
  BY DEF OriginalsAside, Original, Outcome, operations
<1> SUFFICES ASSUME OriginalsAside PROVE OriginInv'
  BY <1>s DEF OriginInv
<1>1. ASSUME NEW j \in DOMAIN UndoName, NEW q \in Paths, Exists(tree', Undo(j)), tree'[q].id = Original(j)
      PROVE  q = Undo(j)
  <2>1. CASE Exists(tree, Undo(j))
    <3>1. j \in DOMAIN operations /\ SetsAside(operations[j])
      BY <2>1 DEF SlotInv
    <3>2. Original(j) \notin {NoId, Foreign} \cup NewIds
      BY <1>p, <3>1, OriginalFacts
    <3>3. \A z \in Paths : tree[z].id = Original(j) => z = Undo(j)
      BY <2>1 DEF OriginInv
    <3>4. Stays(tree, tree') \/ Moves(tree, tree')
      BY TreeStep
    <3> QED BY <1>p, <1>1, <2>1, <3>2, <3>3, <3>4, StaysOnly
  <2>2. CASE ~Exists(tree, Undo(j))
    <3>1. Fills(j)
      BY <1>1, <2>2, SlotsGrow
    <3> DEFINE a == AsideRoot(Operation)
               u == Undo(j)
    <3>2. a \in Paths /\ a \in AnyPath /\ a \notin UndoPaths
      BY <3>1, Legal, PathFacts DEF Fills, AsideRoot
    <3>3. tree' = RenameTree(tree, a, u) /\ u \in AnyPath /\ u \in Paths
      BY <3>1, UndoFacts DEF Fills
    <3>4. \A z \in Paths : tree[z].id = Original(j) => z = a
      BY <3>1 DEF Fills, OriginInv
    <3>5. Original(j) # NoId
      <4>1. j \in DOMAIN operations /\ SetsAside(operations[j])
        BY <1>p, <3>1, PlanSize DEF Fills, Operation
      <4> QED BY <1>p, <4>1, OriginalFacts
    <3>6. Exists(tree', q)
      BY <1>p, <1>1, <3>5, NodeTypes DEF Sound, Exists
    <3> HIDE DEF a, u
    <3>7. \/ /\ Rebase(q, u, a) \in Paths /\ Rebase(Rebase(q, u, a), a, u) = q /\ Under(Rebase(q, u, a), a)
             /\ tree'[q] = tree[Rebase(q, u, a)]
          \/ ~Under(q, a) /\ tree'[q] = tree[q]
      BY <3>2, <3>3, <3>6, RenamedFrom
    <3>8. CASE ~Under(q, a) /\ tree'[q] = tree[q]
      <4>1. Under(a, a)
        BY <3>2, UnderOrder
      <4> QED BY <1>1, <3>4, <3>8, <4>1
    <3>9. CASE /\ Rebase(q, u, a) \in Paths /\ Rebase(Rebase(q, u, a), a, u) = q /\ Under(Rebase(q, u, a), a)
               /\ tree'[q] = tree[Rebase(q, u, a)]
      <4>1. Rebase(q, u, a) = a
        BY <1>1, <3>4, <3>9
      <4>2. Rebase(a, a, u) = q
        BY <3>9, <4>1
      <4>3. Rebase(a, a, u) = u
        BY <3>2, <3>3, <3>9, <4>1, RebaseFacts
      <4> QED BY <4>2, <4>3 DEF u
    <3> QED BY <3>7, <3>8, <3>9
  <2> QED BY <2>1, <2>2
<1>2. ASSUME at' = "act", SetsAside(Operation'), NEW q \in Paths, tree'[q].id = Original(number')
      PROVE  q = AsideRoot(Operation')
  <2>1. CASE Retain
    <3>1. tree' = tree /\ number' = number /\ Operation' = Operation
      BY <1>2, <2>1, SameOperation DEF Retain, Abort, GoTo
    <3> QED BY <1>2, <2>1, <3>1, RetainsOriginal
  <2>2. CASE Stranger \/ UNCHANGED vars
    <3>1. at = "act" /\ number' = number /\ Operation' = Operation
      BY <1>2, <2>2, SameOperation DEF Stranger, vars
    <3>2. \A z \in Paths : tree[z].id = Original(number) => z = AsideRoot(Operation)
      BY <1>2, <3>1 DEF OriginInv
    <3>3. Original(number) \notin {NoId, Foreign}
      <4>1. number \in DOMAIN operations /\ SetsAside(operations[number])
        BY <1>2, <3>1, AtWork DEF Working, Operation
      <4> QED BY <1>p, <4>1, OriginalFacts
    <3>4. \A p \in Paths : tree'[p].id = tree[p].id \/ tree'[p].id \in {NoId, Foreign}
      BY <2>2, StrangerStays DEF vars
    <3> QED BY <1>2, <3>1, <3>2, <3>3, <3>4
  <2>3. Retain \/ Stranger \/ UNCHANGED vars
    BY <1>2, Arrives
  <2> QED BY <2>1, <2>2, <2>3
<1> QED BY <1>1, <1>2, <1>s DEF OriginInv, Undo

\* It holds at the start.
LEMMA OriginInit ==
  ASSUME Init
  PROVE  OriginInv
<1>1. SlotInv /\ at = "stage" /\ \A j \in DOMAIN UndoName : Ahead(j)
  <2>1. \A j \in DOMAIN UndoName : j >= 1
    BY UndoAssumption
  <2> QED BY <2>1, SlotInit DEF Init, Ahead
<1> QED BY <1>1 DEF OriginInv, SlotInv

\* What a manifest that holds says of the tree.
LEMMA Found ==
  ASSUME plan \in DOMAIN Plans, TreeInv, NEW n \in 0..N, NEW m, Tells(plan, m, n), Holds(m)
  PROVE  /\ \A p \in DOMAIN m : tree[p] = Now(n)[p]
         /\ Touched \subseteq DOMAIN m /\ DOMAIN m \subseteq Paths /\ Sound(Now(n)) /\ Good(Now(n), Outcome(n), n)
<1>1. Good(Now(n), Outcome(n), n) /\ Sound(Now(n)) /\ Sound(tree)
  BY PlanGood DEF TreeInv, Real, Good, Now, Outcome, N, operations
<1>2. DOMAIN m \subseteq Paths /\ Touched \subseteq DOMAIN m /\ \A p \in DOMAIN m : Fits(m[p], Now(n)[p])
  BY DEF Tells, Fitting, Now, Touched
<1>3. \A p \in DOMAIN m : Entry(tree, p, Certified(m[p])) = m[p]
  BY HoldsIs DEF HoldsIn
<1>4. ASSUME NEW p \in DOMAIN m PROVE tree[p] = Now(n)[p]
  <2>1. p \in Paths /\ Fits(m[p], Now(n)[p]) /\ Entry(tree, p, Certified(m[p])) = m[p]
    BY <1>2, <1>3
  <2> QED BY <1>1, <2>1, HeldNode
<1> QED BY <1>1, <1>2, <1>4

\* The tree that the before-manifest is found on is the disk, where it touches.
LEMMA FoundBefore ==
  ASSUME plan \in DOMAIN Plans, TreeInv, BeforeHolds
  PROVE  \A p \in Touched : tree[p] = disk[p]
<1> SUFFICES ASSUME NEW p \in Touched PROVE tree[p] = disk[p]
  OBVIOUS
<1>1. p \in Paths
  BY TouchedFacts DEF Touched
<1> DEFINE before == InitialManifest[p]
           now == Entry(tree, p, Certified(before))
<1>2. /\ now.kind = before.kind
      /\ before.id # NoId => now.id = before.id
      /\ before.digest # NoDigest => now.digest = before.digest
  BY DEF BeforeHolds
<1>3. Fits(before, disk[p])
  BY InitialTells DEF InitialManifest, disk, Touched
<1>4. Observed(tree, p, Certified(before), now)
  BY EntryShape
<1> HIDE DEF before, now
<1>5. Sound(tree) /\ Sound(disk) /\ disk = Plans[plan].disk
  BY NowFirst DEF TreeInv, Real, disk
<1>6. tree[p] \in Node /\ disk[p] \in Node /\ tree[p].kind \in Kinds
  BY <1>1, <1>5, NodeTypes DEF Sound
<1>7. tree[p].kind = disk[p].kind
  BY <1>2, <1>3, <1>4 DEF Fits, Observed
<1>8. CASE disk[p].kind = "missing"
  BY <1>1, <1>5, <1>7, <1>8 DEF Sound
<1>9. CASE disk[p].kind # "missing"
  <2>1. disk[p].id # NoId
    BY <1>1, <1>5, <1>9, PlansAssumption DEF PlanFits, DiskFits, Exists
  <2>2. tree[p].id = disk[p].id
    BY <1>2, <1>3, <1>4, <2>1 DEF Fits, Observed
  <2>3. tree[p].text = disk[p].text
    <3>1. CASE disk[p].kind = "directory"
      BY <1>1, <1>5, <1>7, <3>1 DEF Sound
    <3>2. CASE disk[p].kind = "file"
      <4>1. before.digest = disk[p].text /\ disk[p].text # NoDigest
        BY <1>3, <1>6, <3>2, NullsAssumption DEF Fits, Node
      <4> QED BY <1>2, <1>4, <1>7, <3>2, <4>1 DEF Observed
    <3> QED BY <1>6, <1>7, <1>9, <3>1, <3>2 DEF Kinds
  <2> QED BY <1>6, <1>7, <2>2, <2>3, NodeTypes
<1> QED BY <1>8, <1>9

\* When all is as it was, nothing is in the slots: what would be there was on the
\* disk, and lies where it was.
LEMMA FoundEmpty ==
  ASSUME plan \in DOMAIN Plans, TreeInv, BeforeHolds, SlotInv, OriginInv, OriginalsAside, NEW p \in UndoPaths
  PROVE  ~Exists(tree, p)
<1> SUFFICES ASSUME Exists(tree, p) PROVE FALSE
  OBVIOUS
<1>1. PICK j \in DOMAIN UndoName : Under(p, Undo(j))
  BY DEF UndoPaths
<1>2. p \in Paths /\ Undo(j) \in Paths /\ Undo(j) \in UndoPaths /\ Sound(tree)
  BY UndoFacts DEF UndoPaths, TreeInv, Real
<1>3. Exists(tree, Undo(j))
  <2>1. CASE p = Undo(j)
    BY <2>1
  <2>2. CASE Below(p, Undo(j))
    BY <1>2, <2>2, Above DEF Sound
  <2> QED BY <1>1, <2>1, <2>2 DEF Below
<1>4. j \in DOMAIN operations /\ SetsAside(operations[j])
  BY <1>3 DEF SlotInv
<1>5. PICK q \in Touched : disk[q].id = Original(j)
  BY <1>4, OriginalFacts
<1>6. tree[q].id = Original(j) /\ q \in Paths /\ q \notin UndoPaths
  BY <1>5, FoundBefore, TouchedFacts DEF Touched
<1>7. q = Undo(j)
  BY <1>3, <1>6 DEF OriginInv
<1> QED BY <1>2, <1>6, <1>7

\* What the last proof of a commit has seen.
LEMMA FoundAfter ==
  ASSUME Control, TreeInv, Prove, at' = "committed"
  PROVE  /\ number = N /\ tree' = tree /\ plan' = plan
         /\ Tells(plan, OperationAfter(expected, N), N) /\ Slots(plan, OperationAfter(expected, N), N)
         /\ Sealed(OperationAfter(expected, N)) /\ Holds(OperationAfter(expected, N))
<1>1. /\ number = N /\ at = "prove" /\ OperationAfter(expected, number) # NoManifest /\ Holds(OperationAfter(expected, number))
      /\ progress' = Proven(OperationAfter(expected, number)) /\ tree' = tree /\ plan' = plan
  BY DEF Prove, Abort, GoTo, N, Keep
<1>2. number \in 1..N /\ plan \in DOMAIN Plans
  BY <1>1, AtWork DEF Working
<1>3. Follows(plan, OperationAfter(expected, N), expected, N) /\ Sealed(OperationAfter(expected, N))
  <2>1. PICK n \in 1..N : n = number
    BY <1>2
  <2>2. at' = "check" => expected' = OperationAfter(expected, n) /\ number' = n + 1
    OBVIOUS
  <2> QED BY <1>1, <1>2, <2>1, <2>2, RecordProof DEF Control
<1> QED BY <1>1, <1>3 DEF Follows

\* The two ends of an Application, as one step reaches them.
LEMMA EndsExact ==
  ASSUME Inv, SlotInv, OriginInv, [Next]_vars
  PROVE  /\ at' = "committed" /\ at # "committed" => \A p \in Touched : SameAt(tree', Outcome(Len(operations)), p)
         /\ at' = "restored" /\ at # "restored" =>
              /\ \A p \in Touched : tree'[p] = disk[p]
              /\ OriginalsAside => \A p \in UndoPaths : tree'[p].kind = "missing"
<1>c. Control /\ TreeInv /\ plan \in DOMAIN Plans /\ N \in 0..N
  BY PlanSize DEF Inv, Control, TypeInv
<1>1. ASSUME at' = "committed", at # "committed", NEW p \in Touched PROVE SameAt(tree', Outcome(Len(operations)), p)
  <2>1. Prove
    BY <1>1, Arrives DEF Stranger, vars
  <2>2. /\ tree' = tree /\ Tells(plan, OperationAfter(expected, N), N) /\ Holds(OperationAfter(expected, N))
    BY <1>c, <1>1, <2>1, FoundAfter
  <2>3. tree[p] = Now(N)[p] /\ Good(Now(N), Outcome(N), N)
    BY <1>c, <2>2, Found
  <2>4. p \in Paths \ UndoPaths
    BY <1>c, TouchedFacts DEF Touched
  <2> QED BY <2>2, <2>3, <2>4 DEF Good, SameAt, N
<1>2. ASSUME at' = "restored", at # "restored"
      PROVE  /\ \A p \in Touched : tree'[p] = disk[p]
             /\ OriginalsAside => \A p \in UndoPaths : tree'[p].kind = "missing"
  <2>1. Preflight \/ FinishUndo
    BY <1>2, Arrives DEF Stranger, vars
  <2>2. BeforeHolds /\ tree' = tree
    BY <1>2, <2>1 DEF Preflight, FinishUndo, GoTo
  <2> QED BY <1>c, <2>2, FoundBefore, FoundEmpty DEF Exists
<1> QED BY <1>1, <1>2

\* No step changes the plan.
LEMMA SamePlanNext ==
  ASSUME [Next]_vars
  PROVE  plan' = plan
<1>1. Stage \/ Check \/ Retain \/ OpenText \/ Create \/ Truncate \/ Write \/ MoveAside \/ Rename \/ Delete \/ Prove => Keep
  BY DEF Stage, Check, Retain, OpenText, Create, Truncate, Write, MoveAside, Rename, Delete, Prove
<1>2. Preflight \/ ReverseEffect \/ RemoveCreated \/ CheckLeg \/ RenameLeg \/ Verify \/ FinishUndo \/ Recover \/ Cleanup => Keep
  BY DEF Preflight, ReverseEffect, RemoveCreated, CheckLeg, RenameLeg, Verify, FinishUndo, Recover, Cleanup
<1>3. Keep \/ Crash \/ Fault \/ Stranger \/ UNCHANGED vars => plan' = plan
  BY DEF Keep, Crash, Fault, Stranger, vars
<1> QED BY ONLY <1>1, <1>2, <1>3, [Next]_vars DEF Next

\* The invariant of the slots.
THEOREM SlotsHold == Spec => [](SlotInv /\ OriginInv)
<1>1. Init => SlotInv /\ OriginInv
  BY SlotInit, OriginInit
<1>2. Inv /\ Inv' /\ SlotInv /\ OriginInv /\ [Next]_vars => SlotInv' /\ OriginInv'
  <2>1. [Next]_vars => plan' = plan
    BY SamePlanNext
  <2> QED BY <2>1, SlotNext, OriginNext DEF Inv, Control
<1> QED BY <1>1, <1>2, InvHolds, PTL DEF Spec

\* A commit ends as done only with every touched path as performing the
\* operations leaves it; a rollback ends as done only with every touched path as
\* it was, and nothing in the undo slots that the clean-up would destroy
\* (commit_operations_with_writer, rollback_transaction).
THEOREM EndsAreExactHolds == Spec => EndsAreExact
<1>1. Inv /\ SlotInv /\ OriginInv /\ [Next]_vars =>
        [/\ at' = "committed" /\ at # "committed" =>
               \A p \in Touched : SameAt(tree', Outcome(Len(operations)), p)
         /\ at' = "restored" /\ at # "restored" =>
               /\ \A p \in Touched : tree'[p] = disk[p]
               /\ OriginalsAside => \A p \in UndoPaths : tree'[p].kind = "missing"]_vars
  BY EndsExact
<1> QED BY <1>1, InvHolds, SlotsHold, PTL DEF Spec, EndsAreExact

\* The check of operation number finds the files as the plan has them there.
LEMMA CheckFinds ==
  ASSUME Control, TreeInv, Check, at' = "retain"
  PROVE  /\ number \in 1..N /\ plan' = plan /\ number' = number /\ tree' = tree /\ Operation' = Operation
         /\ \A p \in Touched : tree[p] = Now(number - 1)[p]
         /\ Good(Now(number - 1), Outcome(number - 1), number - 1)
<1>1. /\ at = "check" /\ Holds(WithUndo(expected, number)) /\ progress' = Intended(WithUndo(expected, number))
      /\ plan' = plan /\ number' = number /\ tree' = tree
  BY DEF Check, Abort, GoTo, Keep
<1>2. number \in 1..N /\ plan \in DOMAIN Plans
  BY <1>1, AtWork
<1>3. PICK n \in 1..N : n = number
  BY <1>2
<1>4. Slotted(plan, WithUndo(expected, n), expected, n)
  BY <1>1, <1>2, <1>3, RecordIntent DEF Control
<1>5. Tells(plan, WithUndo(expected, n), n - 1) /\ Holds(WithUndo(expected, n))
  BY <1>1, <1>3, <1>4 DEF Slotted
<1>6. n - 1 \in 0..N
  BY <1>2, PlanSize
<1>7. /\ \A p \in DOMAIN WithUndo(expected, n) : tree[p] = Now(n - 1)[p]
      /\ Touched \subseteq DOMAIN WithUndo(expected, n) /\ Good(Now(n - 1), Outcome(n - 1), n - 1)
  BY <1>2, <1>5, <1>6, Found
<1> QED BY <1>1, <1>2, <1>3, <1>7, SameOperation

\* Grown, for a step that makes no directory, ...
LEMMA GrownKeeps ==
  ASSUME plan' = plan, number' = number, NEW p, tree'[p].kind = "directory" => tree[p].kind = "directory", Grown(p)
  PROVE  Grown(p)'
BY DEF Grown, Now

\* ... and for one whose directories are those of the plan.
LEMMA GrownMeans ==
  ASSUME plan' = plan, number' = number, NEW p, tree'[p].kind = "directory" => Now(number - 1)[p].kind = "directory"
  PROVE  Grown(p)'
BY DEF Grown, Now

\* Every step keeps SourceInv.
LEMMA SourceNext ==
  ASSUME Control, TreeInv, TreeInv', SourceInv, [Next]_vars
  PROVE  SourceInv'
<1>1. CASE at' \in {"retain", "act", "rename"} /\ (Stranger \/ UNCHANGED vars)
  <2>1. plan' = plan /\ number' = number /\ at' = at /\ Operation' = Operation
    BY <1>1, SameOperation DEF Stranger, vars
  <2>2. \A p \in Paths : tree'[p].kind = "directory" => tree[p].kind = "directory"
    BY <1>1, StrangerStays DEF vars
  <2>3. number \in 1..N
    BY <1>1, <2>1, AtWork DEF Working
  <2>4. PICK o : o = Operation
    OBVIOUS
  <2>5. ASSUME NEW p \in Paths, Grown(p) PROVE Grown(p)'
    BY <2>1, <2>2, <2>5, GrownKeeps
  <2>6. o.path \in Paths /\ (o.kind = "rename" => o.new \in Paths)
    BY <2>3, <2>4, Legal
  <2>7. Operation' = o
    BY <2>1, <2>4
  <2>8. Moving(o) /\ at \in {"retain", "act", "rename"} => Grown(o.path)'
    BY <2>4, <2>5, <2>6 DEF SourceInv
  <2>9. o.kind = "rename" /\ at \in {"retain", "act"} => Grown(o.new)'
    BY <2>4, <2>5, <2>6 DEF SourceInv
  <2> QED BY <2>1, <2>7, <2>8, <2>9 DEF SourceInv, Grown
<1>2. CASE at' = "retain" /\ Check
  <2>1. /\ number \in 1..N /\ plan' = plan /\ number' = number /\ tree' = tree /\ Operation' = Operation
        /\ \A p \in Touched : tree[p] = Now(number - 1)[p]
    BY <1>2, CheckFinds
  <2>2. ASSUME NEW p \in Touched PROVE Grown(p)'
    BY <2>1, <2>2, GrownMeans
  <2>3. PICK o : o = Operation
    OBVIOUS
  <2>4. o.path \in Touched /\ (o.kind = "rename" => o.new \in Touched)
    BY <2>1, <2>3, Legal
  <2>5. Grown(o.path)' /\ (o.kind = "rename" => Grown(o.new)')
    BY <2>2, <2>4
  <2>6. Operation' = o
    BY <2>1, <2>3
  <2> QED BY <1>2, <2>5, <2>6 DEF SourceInv, Grown
<1>3. CASE at' = "act" /\ Retain
  <2>1. at = "retain" /\ tree' = tree /\ plan' = plan /\ number' = number /\ Operation' = Operation
    BY <1>3, SameOperation DEF Retain, Abort, GoTo, Keep
  <2> QED BY <1>3, <2>1 DEF SourceInv, Grown, Now
<1>4. CASE at' = "rename" /\ MoveAside
  <2>1. /\ at = "act" /\ Operation.kind = "rename" /\ plan' = plan /\ number' = number /\ Operation' = Operation
        /\ tree' = tree \/ tree' = RenameTree(tree, Operation.new, Undo(number))
    BY <1>4, SameOperation DEF MoveAside, Abort, Unfit, GoTo, Keep
  <2>2. number \in 1..N
    BY <2>1, AtWork DEF Working
  <2>3. PICK o : o = Operation
    OBVIOUS
  <2>4. /\ o.path \in Paths /\ o.path \in AnyPath /\ o.new \in AnyPath /\ Undo(number) \in AnyPath
        /\ ~Under(o.path, o.new) /\ ~Under(o.path, Undo(number))
    BY <2>1, <2>2, <2>3, Legal, PathFacts DEF Apart
  <2>5. tree'[o.path] = tree[o.path]
    <3>1. RenameTree(tree, o.new, Undo(number))[o.path] = tree[o.path]
      BY <2>4, RenamedElse
    <3> QED BY <2>1, <2>3, <3>1
  <2>6. Grown(o.path)
    BY <2>1, <2>3 DEF SourceInv, Moving
  <2>7. Grown(o.path)'
    BY <2>1, <2>5, <2>6, GrownKeeps
  <2>8. Operation' = o
    BY <2>1, <2>3
  <2> QED BY <1>4, <2>7, <2>8 DEF SourceInv, Grown
<1>5. CASE at' \notin {"retain", "act", "rename"}
  BY <1>5 DEF SourceInv
<1> QED BY <1>1, <1>2, <1>3, <1>4, <1>5, Arrives

\* No text of the plan is a stranger's.
LEMMA OwnTexts ==
  ASSUME NEW t, NEW s, NEW n, Good(t, s, n), NEW p \in Paths
  PROVE  /\ t[p].text # Foreign
         /\ Exists(t, p) => t[p].id # NoId /\ t[p].id # Foreign
<1>1. <<>> # Foreign
  BY DEF Foreign
<1>2. CASE Exists(t, p)
  BY <1>2 DEF Good, OwnNode
<1>3. CASE ~Exists(t, p)
  BY <1>1, <1>3, NodeTypes DEF Good, Sound, Exists
<1> QED BY <1>2, <1>3

\* The file at a path that is not a stranger's is the only one with its
\* identity.
LEMMA OwnHandleIs ==
  ASSUME NEW t, Sound(t), NEW a \in Paths, t[a].kind = "file", t[a].text # Foreign, t[a].id \notin {NoId, Foreign}
  PROVE  OwnHandle(t, t[a].id)
<1> SUFFICES ASSUME NEW p \in Paths, t[p].kind = "file", t[p].id = t[a].id PROVE p = a
  BY DEF OwnHandle
<1>1. Exists(t, p)
  BY DEF Exists
<1> QED BY <1>1 DEF Sound

\* After a write every file of the handle has the text that was written.
LEMMA OwnOverwritten ==
  ASSUME TreeInv, NEW id, NEW x, x # Foreign
  PROVE  OwnHandle(Overwritten(id, x), id)
<1> SUFFICES ASSUME NEW p \in Paths, Overwritten(id, x)[p].kind = "file", Overwritten(id, x)[p].id = id
             PROVE  Overwritten(id, x)[p].text # Foreign
  BY DEF OwnHandle
<1>1. tree[p] \in [kind : Kinds, id : Identities, text : Texts]
  BY NodeTypes DEF TreeInv, Real, Sound, Node
<1>2. Overwritten(id, x)[p] = IF tree[p].kind = "file" /\ tree[p].id = id THEN [tree[p] EXCEPT !.text = x] ELSE tree[p]
  BY DEF Overwritten
<1>3. [tree[p] EXCEPT !.text = x].text = x
  BY <1>1
<1> QED BY <1>2, <1>3

\* What a step of the rollback has found before it starts on an effect.
LEMMA ReverseFinds ==
  ASSUME Control, TreeInv, ReverseEffect, at' # "refused"
  PROVE  /\ number \in 1..N /\ plan' = plan /\ tree' = tree /\ progress' = progress
         /\ \A p \in Touched : tree[p] = Now(number)[p]
         /\ Good(Now(number), Outcome(number), number)
         /\ Operation.path \in Touched /\ Operation.path \in Paths
<1>1. at = "reverse" /\ number > 0 /\ Holds(Effect.after) /\ plan' = plan /\ tree' = tree /\ progress' = progress
  BY DEF ReverseEffect, GoTo, Keep
<1>2. number \in 1..N /\ number \in DOMAIN progress /\ plan \in DOMAIN Plans /\ ~Pending
  BY <1>1, AtWork DEF Undoing
<1>3. Proved(number)
  BY <1>2, PendingIs DEF Control
<1>4. Tells(plan, Effect.after, number)
  BY <1>2, <1>3 DEF Control, RecordInv, Effect
<1>5. PICK n \in 0..N : n = number
  BY <1>2
<1>6. /\ \A p \in DOMAIN Effect.after : tree[p] = Now(n)[p]
      /\ Touched \subseteq DOMAIN Effect.after /\ Good(Now(n), Outcome(n), n)
  BY <1>1, <1>2, <1>4, <1>5, Found
<1> QED BY <1>1, <1>2, <1>5, <1>6, Legal

\* A file that a rollback removes is the one the operation created.
LEMMA RemovesCreated ==
  ASSUME plan \in DOMAIN Plans, NEW i \in 1..N, operations[i].kind \in {"text", "create"},
         ~Exists(Now(i - 1), operations[i].path)
  PROVE  Now(i)[operations[i].path].kind = "file"
<1> DEFINE o == operations[i]
           t == Now(i - 1)
<1>1. Now(i) = StepActual(t, o, i) /\ LegalOn(t, o, i) /\ Sound(t) /\ i \in DOMAIN UndoName
  BY NowFacts
<1>2. o.kind = "create" /\ o.path \in Paths
  BY <1>1 DEF LegalOn, Exists
<1>3. Now(i) = [t EXCEPT ![o.path] = Created(i)]
  BY <1>1, <1>2 DEF StepActual, CreatedTree
<1>4. Now(i)[o.path] = Created(i)
  BY <1>1, <1>2, <1>3, NodeTypes DEF Sound
<1> QED BY <1>1, <1>4, NewNodes

\* One that is written to stays a file.
LEMMA StaysFile ==
  ASSUME plan \in DOMAIN Plans, NEW i \in 1..N, operations[i].kind \in {"text", "create"},
         Now(i - 1)[operations[i].path].kind = "file"
  PROVE  Now(i)[operations[i].path].kind = "file"
<1> DEFINE o == operations[i]
           t == Now(i - 1)
           a == o.path
<1>1. Now(i) = StepActual(t, o, i) /\ LegalOn(t, o, i) /\ Sound(t) /\ Exists(t, a) /\ t[a].kind = "file"
      /\ o.kind \in {"text", "create"}
  BY NowFacts DEF Exists
<1> HIDE DEF t
<1>2. PICK x : Now(i) = TextTree(t, a, x)
  BY <1>1, CreatedOver DEF StepActual
<1>3. t \in Trees /\ a \in Paths /\ t[a] \in [kind : Kinds, id : Identities, text : Texts]
  BY <1>1, NodeTypes DEF Sound, LegalOn, Node
<1>4. Now(i)[a] = [t[a] EXCEPT !.text = x]
  BY <1>2, <1>3, TextAlgebra
<1> QED BY <1>1, <1>3, <1>4

\* A handle opened without a race is of the Application's own file.
LEMMA RaceOpens ==
  ASSUME Control, TreeInv, SourceInv, RaceInv, ~raced, OpenText \/ Create, at' = "truncate"
  PROVE  tree' = tree /\ OwnHandle(tree, handle'.id)
<1>1. at = "act" /\ number \in 1..N /\ tree' = tree /\ plan \in DOMAIN Plans
  BY AtWork DEF OpenText, Create, Abort, Unfit, GoTo, Working
<1> DEFINE a == Operation.path
<1>2. a \in Paths /\ a \in Touched /\ LegalOn(Now(number - 1), Operation, number)
  BY <1>1, Legal
<1>3. PICK n \in 1..N : n = number
  BY <1>1
<1>4. Good(Now(n - 1), Outcome(n - 1), n - 1)
  <2>1. n - 1 \in 0..N /\ N = Len(Plans[plan].operations)
    BY <1>1, PlanSize DEF N, operations
  <2> QED BY <1>1, <2>1, PlanGood DEF Now, Outcome
<1>5. Tells(plan, expected, n - 1)
  BY <1>1, <1>3, PendingIs DEF Control, RecordInv, PlaceInv, Working
<1>6. Fits(expected[a], Now(n - 1)[a])
  BY <1>2, <1>5 DEF Tells, Fitting, Now, Touched
<1>7. /\ tree[a].kind = "file" /\ tree[a].id = expected[a].id /\ handle'.id = tree[a].id
      /\ tree[a].text # Foreign /\ Exists(Now(n - 1), a)
  <2>1. CASE OpenText
    <3>1. tree[a].kind = "file" /\ tree[a].text = Operation.before /\ tree[a].id = expected[a].id /\ handle'.id = tree[a].id
          /\ Operation.kind = "text"
      BY <2>1 DEF OpenText, Abort, GoTo
    <3>2. Now(n - 1)[a].kind = "file" /\ Now(n - 1)[a].text = Operation.before
      BY <1>2, <1>3, <3>1 DEF LegalOn
    <3>3. Now(n - 1)[a].text # Foreign
      BY <1>2, <1>4, OwnTexts
    <3> QED BY <3>1, <3>2, <3>3 DEF Exists
  <2>2. CASE Create
    <3>1. tree[a].kind = "file" /\ tree[a].id = expected[a].id /\ handle'.id = tree[a].id /\ Operation.kind = "create"
          /\ Exists(tree, a)
      BY <2>2 DEF Create, Abort, Unfit, GoTo
    <3>2. expected[a].kind # "missing"
      BY <1>1, <3>1, OpenedFile DEF Working
    <3>3. tree[a].text # Foreign
      BY <1>1, <3>1 DEF RaceInv
    <3> QED BY <1>6, <3>1, <3>2, <3>3 DEF Fits, Exists
  <2> QED BY <2>1, <2>2
<1>8. Now(n - 1)[a].id \notin {NoId, Foreign}
  BY <1>2, <1>4, <1>7, OwnTexts
<1>9. tree[a].id \notin {NoId, Foreign}
  BY <1>6, <1>7, <1>8 DEF Fits
<1>10. Sound(tree)
  BY DEF TreeInv, Real
<1> HIDE DEF a
<1>11. OwnHandle(tree, tree[a].id)
  BY <1>2, <1>7, <1>9, <1>10, OwnHandleIs
<1> QED BY <1>1, <1>7, <1>11

\* So is the one a rollback opens, and the file it is about to remove.
LEMMA RaceReverses ==
  ASSUME Control, TreeInv, ReverseEffect, at' \in {"undo_truncate", "undo_remove"}
  PROVE  /\ tree' = tree /\ number' = number /\ plan' = plan
         /\ at' = "undo_truncate" => OwnHandle(tree, handle'.id)
         /\ at' = "undo_remove" => tree[Operation.path].kind = "file" /\ tree[Operation.path].text # Foreign
<1> DEFINE a == Operation.path
<1>1. /\ number \in 1..N /\ plan' = plan /\ tree' = tree /\ a \in Touched /\ a \in Paths
      /\ tree[a] = Now(number)[a] /\ Good(Now(number), Outcome(number), number)
  BY ReverseFinds
<1>2. at = "reverse" /\ Operation.kind \in {"text", "create"} /\ number' = number /\ Effect.before[a] # Effect.after[a]
  BY DEF ReverseEffect, ReverseText, ReverseMove, GoTo
<1>3. plan \in DOMAIN Plans /\ Sound(tree)
  BY DEF Control, TypeInv, TreeInv, Real
<1>4. /\ Effect.before[a].kind # "missing" => Now(number - 1)[a].kind = "file"
      /\ Effect.before[a].kind = "missing" => ~Exists(Now(number - 1), a)
      /\ Effect.after[a].id = Now(number)[a].id
  BY <1>1, <1>2, BeforeText DEF Undoing
<1>5. Operation = operations[number]
  BY DEF Operation
<1>6. Now(number)[a].text # Foreign
  BY <1>1, OwnTexts
<1>7. Exists(Now(number), a) => Now(number)[a].id # NoId /\ Now(number)[a].id # Foreign
  BY <1>1, OwnTexts
<1>8. ASSUME at' = "undo_remove" PROVE Now(number)[a].kind = "file"
  <2>1. Effect.before[a].kind = "missing"
    BY <1>2, <1>8 DEF ReverseEffect, ReverseText, ReverseMove, GoTo
  <2> QED BY <1>1, <1>2, <1>3, <1>4, <1>5, <2>1, RemovesCreated
<1>9. ASSUME at' = "undo_truncate" PROVE OwnHandle(tree, handle'.id)
  <2>1. Effect.before[a].kind # "missing" /\ handle'.id = Effect.after[a].id
    BY <1>2, <1>9 DEF ReverseEffect, ReverseText, ReverseMove, GoTo
  <2>2. Now(number)[a].kind = "file"
    BY <1>1, <1>2, <1>3, <1>4, <1>5, <2>1, StaysFile
  <2>3. tree[a].id \notin {NoId, Foreign} /\ tree[a].kind = "file" /\ tree[a].text # Foreign
    BY <1>1, <1>6, <1>7, <2>2 DEF Exists
  <2> HIDE DEF a
  <2>4. OwnHandle(tree, tree[a].id)
    BY <1>1, <1>3, <2>3, OwnHandleIs
  <2> QED BY <1>1, <1>4, <2>1, <2>4
<1> QED BY <1>1, <1>2, <1>6, <1>8, <1>9

\* Every step keeps RaceInv.
LEMMA RaceNext ==
  ASSUME Control, TreeInv, TreeInv', SourceInv, RaceInv, [Next]_vars
  PROVE  RaceInv'
<1> SUFFICES ASSUME ~raced' PROVE RaceInv'
  BY DEF RaceInv
<1>t. Control /\ TreeInv /\ (UNCHANGED vars \/ Next)
  OBVIOUS
<1>r. raced \in BOOLEAN /\ <<>> # Foreign
  BY DEF Control, TypeInv, Foreign
<1>1. CASE UNCHANGED vars
  <2>1. raced' = raced /\ at' = at /\ tree' = tree /\ handle' = handle /\ Operation' = Operation /\ LegProof' = LegProof
    BY <1>1, SameOperation DEF vars, LegProof, Effect
  <2> QED BY <2>1 DEF RaceInv
<1>2. CASE Stranger
  <2>1. ~Unchecked /\ at' = at /\ plan' = plan /\ number' = number
    BY <1>2, <1>r DEF Stranger
  <2>2. Operation' = Operation
    BY <2>1, SameOperation
  <2> QED BY <2>1, <2>2 DEF RaceInv, Unchecked
<1>3. CASE at' \in {"retain", "act"} /\ ~Stranger /\ ~UNCHANGED vars
  <2>1. CASE at' = "retain"
    <3>1. Check
      BY <1>3, <2>1, Arrives
    <3>2. /\ number \in 1..N /\ tree' = tree /\ Operation' = Operation
          /\ \A p \in Touched : tree[p] = Now(number - 1)[p]
          /\ Good(Now(number - 1), Outcome(number - 1), number - 1)
      BY <2>1, <3>1, CheckFinds
    <3>3. Operation.path \in Touched /\ Operation.path \in Paths
      BY <3>2, Legal
    <3>4. tree[Operation.path].text # Foreign
      BY <3>2, <3>3, OwnTexts
    <3> QED BY <2>1, <3>2, <3>4 DEF RaceInv
  <2>2. CASE at' = "act"
    <3>1. Retain
      BY <1>3, <2>2, Arrives
    <3>2. at = "retain" /\ raced' = raced /\ tree' = tree /\ Operation' = Operation
      BY <2>2, <3>1, SameOperation DEF Retain, Abort, GoTo, Keep
    <3> QED BY <2>2, <3>2 DEF RaceInv
  <2> QED BY <1>3, <2>1, <2>2
<1>4. CASE at' = "truncate" /\ ~Stranger /\ ~UNCHANGED vars
  <2>1. OpenText \/ Create
    BY <1>4, Arrives
  <2>2. raced' = raced
    BY <2>1 DEF OpenText, Create, Keep
  <2>3. tree' = tree /\ OwnHandle(tree, handle'.id)
    BY <1>4, <2>1, <2>2, RaceOpens
  <2>4. OwnHandle(tree', handle'.id)
    BY <2>3
  <2> QED BY <1>4, <2>4 DEF RaceInv
<1>5. CASE at' \in {"write", "undo_write"} /\ ~Stranger /\ ~UNCHANGED vars
  <2>1. Truncate
    BY <1>5, Arrives
  <2>2. tree' = Overwritten(handle.id, <<>>) /\ handle' = handle
    BY <2>1 DEF Truncate
  <2>3. OwnHandle(tree', handle'.id)
    <3>1. OwnHandle(Overwritten(handle.id, <<>>), handle.id)
      BY <1>r, OwnOverwritten
    <3> QED BY <2>2, <3>1
  <2> QED BY <1>5, <2>3 DEF RaceInv
<1>6. CASE at' = "rename" /\ ~Stranger /\ ~UNCHANGED vars
  <2>1. MoveAside
    BY <1>6, Arrives
  <2>2. /\ at = "act" /\ Operation.kind = "rename" /\ plan' = plan /\ number' = number /\ Operation' = Operation
        /\ \/ tree' = tree /\ ~Exists(tree, Operation.new)
           \/ tree' = RenameTree(tree, Operation.new, Undo(number))
    BY <1>6, <2>1, SameOperation DEF MoveAside, Abort, Unfit, GoTo, Keep
  <2>3. number \in 1..N
    BY <2>2, AtWork DEF Working
  <2>4. PICK b : b = Operation.new
    OBVIOUS
  <2>5. b \in Paths /\ b \in AnyPath /\ Undo(number) \in AnyPath /\ Under(b, b) /\ ~Under(b, Undo(number))
    <3>1. b \in Paths /\ b \in AnyPath /\ Undo(number) \in AnyPath /\ Apart(b, Undo(number))
      BY <2>2, <2>3, <2>4, Legal, PathFacts
    <3> QED BY <3>1, UnderOrder DEF Apart
  <2>6. RenameTree(tree, b, Undo(number))[b] = MissingNode
    BY <2>5, RenamedAway
  <2>7. ~Exists(tree', b)
    <3>1. CASE tree' = tree /\ ~Exists(tree, b)
      BY <3>1
    <3>2. CASE tree' = RenameTree(tree, b, Undo(number))
      BY <2>6, <3>2, NodeTypes DEF Exists
    <3> QED BY <2>2, <2>4, <3>1, <3>2
  <2>8. ~Exists(tree', Operation'.new)
    BY <2>2, <2>4, <2>7
  <2> QED BY <1>6, <2>8 DEF RaceInv, Exists
<1>7. CASE at' \in {"undo_truncate", "undo_remove"} /\ ~Stranger /\ ~UNCHANGED vars
  <2>1. ReverseEffect
    BY <1>7, Arrives
  <2>2. /\ tree' = tree /\ number' = number /\ plan' = plan
        /\ at' = "undo_truncate" => OwnHandle(tree, handle'.id)
        /\ at' = "undo_remove" => tree[Operation.path].kind = "file" /\ tree[Operation.path].text # Foreign
    BY <1>7, <2>1, RaceReverses
  <2>3. Operation' = Operation
    BY <2>2, SameOperation
  <2>4. /\ at' = "undo_truncate" => OwnHandle(tree', handle'.id)
        /\ at' = "undo_remove" => tree'[Operation'.path].kind = "file" /\ tree'[Operation'.path].text # Foreign
    BY <2>2, <2>3
  <2> QED BY <1>7, <2>4 DEF RaceInv
<1>8. CASE at' = "leg_rename" /\ ~Stranger /\ ~UNCHANGED vars
  <2>1. CheckLeg
    BY <1>8, Arrives
  <2>2. Holds(LegProof) /\ tree' = tree /\ LegProof' = LegProof
    BY <1>8, <2>1 DEF CheckLeg, GoTo, LegProof, Effect
  <2>3. HoldsIn(tree, LegProof)
    BY <2>2, HoldsIs
  <2>4. HoldsIn(tree', LegProof')
    BY <2>2, <2>3
  <2> QED BY <1>8, <2>4 DEF RaceInv
<1>9. CASE at' \notin {"retain", "act", "truncate", "write", "undo_truncate", "undo_write", "rename", "undo_remove", "leg_rename"}
  BY <1>9 DEF RaceInv
<1> QED BY <1>1, <1>2, <1>3, <1>4, <1>5, <1>6, <1>7, <1>8, <1>9

\* A path below the root of its slot has a parent there.
LEMMA SlotParent ==
  ASSUME NEW j \in DOMAIN UndoName, NEW p \in Paths, Under(p, Undo(j)), p # Undo(j)
  PROVE  /\ Parent(p) \in Paths /\ Parent(p) \in UndoPaths /\ Under(Parent(p), Undo(j))
         /\ Len(Parent(p)) = Len(p) - 1 /\ Below(p, Parent(p)) /\ Parent(p) # <<>>
<1>1. Undo(j) \in AnyPath /\ Undo(j) \in Paths
  BY UndoFacts
<1>2. Under(Parent(p), Undo(j)) /\ Below(p, Parent(p)) /\ Len(Parent(p)) = Len(p) - 1 /\ Parent(p) \in AnyPath
  BY <1>1, ParentFacts, PathFacts DEF Below
<1>3. Parent(p) # <<>>
  BY <1>1, <1>2, RootFacts
<1>4. Parent(p) \in Paths
  BY <1>3, PathFacts
<1> QED BY <1>1, <1>2, <1>3, <1>4, UndoFacts

\* Two children of a directory with one name are one.
LEMMA SameChild ==
  ASSUME NEW p \in Paths, NEW q \in Paths, Parent(p) = Parent(q), Last(p) = Last(q)
  PROVE  p = q
<1>1. p \in Seq(Names) /\ q \in Seq(Names) /\ Len(p) \in Nat /\ Len(q) \in Nat /\ Len(p) >= 1 /\ Len(q) >= 1
  BY PathFacts DEF AnyPath
<1>2. Len(p) = Len(q)
  BY <1>1, PathFacts
<1>3. \A i \in 1..(Len(p) - 1) : p[i] = q[i]
  BY <1>2, PathFacts
<1>4. p[Len(p)] = q[Len(q)]
  BY DEF Last
<1> QED BY <1>1, <1>2, <1>3, <1>4

\* When the last proof holds, every file in the slots is one that the plan put
\* there: a directory in a slot is certified, so nobody can have added to it.
LEMMA FoundSlots ==
  ASSUME plan \in DOMAIN Plans, TreeInv, SlotInv, NEW m, Tells(plan, m, N), Slots(plan, m, N), Sealed(m), Holds(m),
         NEW p \in UndoPaths
  PROVE  tree[p].text # Foreign
<1>1. /\ \A q \in DOMAIN m : tree[q] = Now(N)[q]
      /\ DOMAIN m \subseteq Paths /\ Sound(Now(N)) /\ Good(Now(N), Outcome(N), N) /\ N \in Nat
  <2>1. N \in 0..N
    BY PlanSize
  <2> QED BY <2>1, Found
<1>2. Sound(tree) /\ p \in Paths
  BY DEF TreeInv, Real, UndoPaths
<1>3. CASE ~Exists(tree, p)
  <2>1. tree[p].text = <<>>
    BY <1>2, <1>3, NodeTypes DEF Sound, Exists
  <2> QED BY <2>1 DEF Foreign
<1>4. CASE Exists(tree, p)
  <2> DEFINE G == {n \in Nat : \A q \in UndoPaths : Len(q) = n /\ Exists(tree, q) => q \in DOMAIN m}
  <2>1. 0 \in G
    BY PathFacts DEF UndoPaths
  <2>2. ASSUME NEW n \in Nat, n \in G, NEW q \in UndoPaths, Len(q) = n + 1, Exists(tree, q) PROVE q \in DOMAIN m
    <3>1. PICK j \in DOMAIN UndoName : Under(q, Undo(j))
      BY DEF UndoPaths
    <3>2. q \in Paths
      BY DEF UndoPaths
    <3>3. CASE q = Undo(j)
      <4>1. j \in DOMAIN operations /\ SetsAside(operations[j])
        BY <2>2, <3>3 DEF SlotInv
      <4>2. j \in 1..N /\ Moving(operations[j])
        BY <4>1, PlanSize DEF SetsAside, Moving
      <4> QED BY <1>1, <3>3, <4>1, <4>2 DEF Slots, operations
    <3>4. CASE q # Undo(j)
      <4> DEFINE d == Parent(q)
      <4>1. d \in Paths /\ d \in UndoPaths /\ Len(d) = Len(q) - 1 /\ Below(q, d) /\ d # <<>>
        BY <3>1, <3>2, <3>4, SlotParent
      <4>2. Exists(tree, d) /\ tree[d].kind = "directory"
        BY <1>2, <2>2, <3>2, <4>1, Above DEF Sound
      <4>3. d \in DOMAIN m
        <5>1. Len(q) - 1 = n
          BY <2>2
        <5> QED BY <2>2, <4>1, <4>2, <5>1
      <4> HIDE DEF G
      <4>4. Entry(tree, d, Certified(m[d])) = m[d]
        BY <4>3, HoldsIs DEF HoldsIn
      <4>5. m[d].kind = "directory"
        <5>1. Observed(tree, d, Certified(m[d]), m[d])
          BY <4>4, EntryShape
        <5> QED BY <4>2, <5>1 DEF Observed
      <4>6. Certified(m[d])
        BY <4>1, <4>3, <4>5 DEF Tells
      <4>7. m[d].digest = Listing(tree, d)
        <5>1. Observed(tree, d, Certified(m[d]), m[d])
          BY <4>4, EntryShape
        <5> QED BY <4>2, <4>6, <5>1 DEF Observed
      <4>8. m[d].digest = Members({<<Last(c), m[c].kind>> :
                 c \in {x \in DOMAIN m : x # <<>> /\ Parent(x) = d /\ m[x].kind # "missing"}})
        BY <4>3, <4>6 DEF Sealed
      <4> DEFINE L == {<<Last(c), tree[c].kind>> : c \in ChildrenOf(tree, d)}
                 M == {<<Last(c), m[c].kind>> : c \in {x \in DOMAIN m : x # <<>> /\ Parent(x) = d /\ m[x].kind # "missing"}}
      <4>9. L = M
        <5>1. Members(L) = Members(M)
          BY <4>7, <4>8 DEF Listing
        <5> HIDE DEF L, M
        <5> QED BY <5>1 DEF Members
      <4>10. <<Last(q), tree[q].kind>> \in L
        BY <2>2, <3>2 DEF ChildrenOf
      <4>11. <<Last(q), tree[q].kind>> \in M
        BY <4>9, <4>10
      <4>12. PICK c \in DOMAIN m : Parent(c) = d /\ Last(c) = Last(q)
        BY <4>11
      <4>13. c = q
        BY <1>1, <3>2, <4>12, SameChild
      <4> QED BY <4>12, <4>13
    <3> QED BY <3>3, <3>4
  <2>3. \A n \in Nat : n \in G => n + 1 \in G
    BY <2>2
  <2>4. Nat \subseteq G
    <3> HIDE DEF G
    <3> QED BY <2>1, <2>3, NatSet
  <2>5. Len(p) \in Nat
    BY <1>2, PathFacts
  <2>6. p \in DOMAIN m
    BY <1>4, <2>4, <2>5
  <2> QED BY <1>1, <1>2, <2>6, OwnTexts
<1> QED BY <1>3, <1>4

\* Every step keeps DoneInv.
LEMMA DoneNext ==
  ASSUME Inv, TreeInv', SlotInv, OriginInv, DoneInv, [Next]_vars, plan' = plan
  PROVE  DoneInv'
<1>c. Control /\ TreeInv /\ plan \in DOMAIN Plans
  BY DEF Inv, Control, TypeInv
<1>s. OriginalsAside' <=> OriginalsAside
  BY DEF OriginalsAside, Outcome, operations
<1>1. CASE Stranger \/ UNCHANGED vars
  <2>1. at' = at /\ \A p \in UndoPaths : tree'[p] = tree[p]
    BY <1>c, <1>1, StrangerStays DEF Stranger, vars
  <2> QED BY <1>s, <2>1 DEF DoneInv, Exists
<1>2. CASE at' = "committed" /\ ~Stranger /\ ~UNCHANGED vars
  <2>1. Prove
    BY <1>2, Arrives
  <2>2. \A p \in UndoPaths : tree[p].text # Foreign
    BY <1>c, <1>2, <2>1, FoundAfter, FoundSlots
  <2>3. tree' = tree
    BY <1>c, <1>2, <2>1, FoundAfter
  <2> QED BY <1>2, <2>2, <2>3 DEF DoneInv
<1>3. CASE at' = "restored" /\ ~Stranger /\ ~UNCHANGED vars
  <2>1. Preflight \/ FinishUndo
    BY <1>3, Arrives
  <2>2. BeforeHolds /\ tree' = tree
    BY <1>3, <2>1 DEF Preflight, FinishUndo, GoTo
  <2>3. OriginalsAside => \A p \in UndoPaths : ~Exists(tree, p)
    BY <1>c, <2>2, FoundEmpty
  <2> QED BY <1>3, <1>s, <2>2, <2>3 DEF DoneInv, Exists
<1>4. CASE at' \notin {"committed", "restored"}
  BY <1>4 DEF DoneInv
<1> QED BY <1>1, <1>2, <1>3, <1>4

\* A move to where nothing is loses no file.
LEMMA KeptByMove ==
  ASSUME NEW t, Sound(t), NEW a \in Paths, NEW b \in Paths, Apart(a, b), ~Exists(t, b), MovesWithin(t, a, b),
         NEW p \in Paths, Exists(t, p)
  PROVE  \E q \in Paths : RenameTree(t, a, b)[q] = t[p]
<1>0. a \in AnyPath /\ b \in AnyPath /\ p \in AnyPath /\ WellFormedTree(t)
  BY PathFacts DEF Sound
<1>1. CASE Under(p, b)
  <2>1. t[b].kind # "directory"
    BY DEF Exists
  <2> QED BY <1>0, <1>1, <2>1, NothingBelow
<1>2. CASE ~Under(p, b) /\ ~Under(p, a)
  BY <1>0, <1>2, RenamedElse
<1>3. CASE Under(p, a)
  <2> DEFINE q == Rebase(p, a, b)
  <2>1. q \in Paths
    BY <1>0, <1>3, ClosedBy DEF Closed
  <2>2. Under(q, b) /\ Rebase(q, b, a) = p
    BY <1>0, <1>3, RebaseFacts
  <2> HIDE DEF q
  <2>3. RenameTree(t, a, b)[q] = t[p]
    BY <1>0, <2>1, <2>2, RenamedAt
  <2> QED BY <2>1, <2>3
<1> QED BY <1>1, <1>2, <1>3

\* A directory that an operation found, or that its undo finds, can be moved whole.
LEMMA MovesOn ==
  ASSUME Control, SourceInv, number \in 1..N
  PROVE  /\ Moving(Operation) /\ at = "act" => MovesWithin(tree, Operation.path, Undo(number)) \/ Operation.kind = "rename"
         /\ Operation.kind = "rename" /\ at = "act" => MovesWithin(tree, Operation.new, Undo(number))
         /\ Operation.kind = "rename" /\ at = "rename" => MovesWithin(tree, Operation.path, Operation.new)
<1>1. LegalOn(Now(number - 1), Operation, number)
  BY Legal
<1>2. Operation.kind = "rename" => /\ MovesWithin(Now(number - 1), Operation.path, Operation.new)
                                   /\ MovesWithin(Now(number - 1), Operation.new, Undo(number))
  BY <1>1 DEF LegalOn
<1>3. Operation.kind = "delete" => MovesWithin(Now(number - 1), Operation.path, Undo(number))
  BY <1>1 DEF LegalOn
<1>4. ASSUME NEW a, NEW b, Grown(a), MovesWithin(Now(number - 1), a, b) PROVE MovesWithin(tree, a, b)
  BY <1>4 DEF Grown, MovesWithin
<1>5. Moving(Operation) => Operation.kind \in {"rename", "delete"}
  BY DEF Moving
<1>6. Operation.kind \in {"rename", "delete"} => Moving(Operation)
  BY DEF Moving
<1> QED BY <1>2, <1>3, <1>4, <1>5, <1>6 DEF SourceInv

\* The root of the moved subtree is at the target.
LEMMA RenamedTop ==
  ASSUME NEW t, NEW a \in Paths, NEW b \in Paths
  PROVE  RenameTree(t, a, b)[b] = t[a]
<1>1. a \in AnyPath /\ b \in AnyPath /\ Under(b, b)
  BY PathFacts, UnderOrder
<1>2. Rebase(b, b, a) = a
  BY <1>1, RebaseFacts
<1> QED BY <1>1, <1>2, RenamedAt

\* What the undo of an operation moves as a directory was a directory where it goes.
LEMMA LegMoves ==
  ASSUME plan \in DOMAIN Plans, NEW i \in 1..N, NEW o, o = operations[i], LegalOn(Now(i - 1), o, i)
  PROVE  /\ o.kind = "rename" /\ Now(i)[o.new].kind = "directory" => SameBelow(o.path, o.new)
         /\ o.kind = "rename" /\ Now(i)[Undo(i)].kind = "directory" => SameBelow(o.new, Undo(i))
         /\ o.kind = "delete" /\ Now(i)[Undo(i)].kind = "directory" => SameBelow(o.path, Undo(i))
<1> DEFINE t == Now(i - 1)
           z == Now(i)
           u == Undo(i)
<1>0. i \in DOMAIN UndoName /\ u \in Paths /\ o.path \in Paths /\ Sound(t)
  BY NowFacts, UndoFacts DEF LegalOn
<1>1. CASE o.kind = "rename"
  <2> DEFINE w == Aside(t, o, i)
  <2>1. RenameMoves(t, w, z, o.path, o.new, u)
    BY <1>1, RenameLegs
  <2>2. o.new \in Paths /\ MovesWithin(t, o.path, o.new) /\ MovesWithin(t, o.new, u)
    BY <1>1 DEF LegalOn
  <2>3. Way(t, o.path, o.new, u, w)
    BY <1>0, <1>1, AsideFacts
  <2> HIDE DEF t, z, u, w
  <2>4. w[o.path] = t[o.path]
    <3>1. Under(o.path, o.path)
      BY <1>0, PathFacts, UnderOrder
    <3> QED BY <1>0, <2>3, <3>1 DEF Way
  <2>5. w[o.path] = z[o.new]
    <3>1. RenameTree(z, o.new, o.path) = w
      BY <2>1 DEF RenameMoves
    <3>2. RenameTree(z, o.new, o.path)[o.path] = z[o.new]
      BY <1>0, <2>2, RenamedTop
    <3> QED BY <3>1, <3>2
  <2>6. z[o.new].kind = "directory" => SameBelow(o.path, o.new)
    BY <2>2, <2>4, <2>5 DEF MovesWithin
  <2>7. ASSUME z[u].kind = "directory" PROVE SameBelow(o.new, u)
    <3>1. Exists(z, u)
      BY <2>7 DEF Exists
    <3>2. RenameTree(w, u, o.new) = t
      BY <2>1, <3>1 DEF RenameMoves
    <3>3. t[o.new] = w[u]
      <4>1. RenameTree(w, u, o.new)[o.new] = w[u]
        BY <1>0, <2>2, RenamedTop
      <4> QED BY <3>2, <4>1
    <3>4. w[u] = z[u]
      <4>1. Under(u, u)
        BY <1>0, PathFacts, UnderOrder
      <4> QED BY <1>0, <2>1, <4>1 DEF RenameMoves
    <3> QED BY <2>2, <2>7, <3>3, <3>4 DEF MovesWithin
  <2> QED BY <1>1, <2>6, <2>7 DEF z, u
<1>2. CASE o.kind = "delete"
  <2>1. RenameTree(z, u, o.path) = t
    BY <1>2, DeleteLegs
  <2>2. MovesWithin(t, o.path, u)
    BY <1>2 DEF LegalOn
  <2> HIDE DEF t, z, u
  <2>3. RenameTree(z, u, o.path)[o.path] = z[u]
    BY <1>0, RenamedTop
  <2>4. z[u].kind = "directory" => SameBelow(o.path, u)
    BY <2>1, <2>2, <2>3 DEF MovesWithin
  <2> QED BY <1>2, <2>4 DEF z, u
<1>3. CASE o.kind \notin {"rename", "delete"}
  BY <1>3
<1> QED BY <1>1, <1>2, <1>3

\* A leg of the rollback that was checked moves to where nothing is.
LEMMA LegKeeps ==
  ASSUME Control, TreeInv, at = "leg_rename", HoldsIn(tree, LegProof)
  PROVE  /\ move.from \in Paths /\ move.to \in Paths /\ Apart(move.from, move.to)
         /\ ~Exists(tree, move.to) /\ MovesWithin(tree, move.from, move.to)
<1>1. /\ number \in 1..N /\ number \in DOMAIN progress /\ plan \in DOMAIN Plans /\ ~Pending
      /\ (FirstLeg \/ SecondLeg \/ DeleteLeg)
  BY AtWork DEF Undoing, Control, StepInv
<1>2. move.from \in Paths /\ move.to \in Paths /\ Apart(move.from, move.to)
  BY <1>1, LegsApart
<1>3. Proved(number)
  BY <1>1, PendingIs DEF Control
<1>4. Tells(plan, Effect.after, number) /\ Slots(plan, Effect.after, number)
  BY <1>1, <1>3 DEF Control, RecordInv, Effect
<1> DEFINE m == Effect.after
           f == move.from
           g == move.to
<1>5. LegProof = [p \in {q \in DOMAIN m : Under(q, f)} \cup {g} |-> IF p = g THEN MissingEntry ELSE m[p]]
  BY DEF LegProof
<1>6. ~Exists(tree, g)
  <2>1. g \in DOMAIN LegProof /\ LegProof[g] = MissingEntry
    BY <1>5
  <2>2. Entry(tree, g, Certified(MissingEntry)) = MissingEntry
    BY <2>1 DEF HoldsIn
  <2>3. Observed(tree, g, Certified(MissingEntry), MissingEntry)
    BY <2>2, EntryShape
  <2> QED BY <2>3 DEF Observed, MissingEntry, Exists
<1>7. Operation = operations[number] /\ LegalOn(Now(number - 1), Operation, number) /\ Operation.path \in Touched
      /\ (Operation.kind = "rename" => Operation.new \in Touched)
  BY <1>1, Legal DEF Operation
<1>8. f \in DOMAIN m
  <2>1. Touched \subseteq DOMAIN m
    BY <1>4 DEF Tells, Touched
  <2>2. Operation.kind \in {"rename", "delete"} => Undo(number) \in DOMAIN m
    <3>1. number \in DOMAIN operations /\ number <= number
      BY <1>1, PlanSize
    <3> QED BY <1>4, <1>7, <3>1 DEF Slots, Moving, operations
  <2> QED BY <1>1, <1>7, <2>1, <2>2 DEF FirstLeg, SecondLeg, DeleteLeg
<1>9. tree[f].kind = Now(number)[f].kind
  <2>1. f # g /\ Under(f, f)
    BY <1>2, PathFacts, UnderOrder, ApartFacts
  <2>2. f \in DOMAIN LegProof /\ LegProof[f] = m[f]
    BY <1>5, <1>8, <2>1
  <2>3. Entry(tree, f, Certified(m[f])) = m[f]
    BY <2>2 DEF HoldsIn
  <2>4. Fits(m[f], Now(number)[f])
    BY <1>4, <1>8 DEF Tells, Fitting, Now
  <2> HIDE DEF m, f, g
  <2> QED BY <2>3, <2>4, Held
<1>10. MovesWithin(tree, f, g)
  <2> SUFFICES ASSUME Now(number)[f].kind = "directory" PROVE SameBelow(f, g)
    BY <1>9 DEF MovesWithin
  <2>0. /\ Operation.kind = "rename" /\ Now(number)[Operation.new].kind = "directory" => SameBelow(Operation.path, Operation.new)
        /\ Operation.kind = "rename" /\ Now(number)[Undo(number)].kind = "directory" => SameBelow(Operation.new, Undo(number))
        /\ Operation.kind = "delete" /\ Now(number)[Undo(number)].kind = "directory" => SameBelow(Operation.path, Undo(number))
    BY <1>1, <1>7, LegMoves
  <2>s. \A a, b : SameBelow(a, b) => SameBelow(b, a)
    BY DEF SameBelow
  <2>1. CASE FirstLeg
    BY <2>0, <2>s, <2>1 DEF FirstLeg
  <2>2. CASE SecondLeg
    BY <2>0, <2>s, <2>2 DEF SecondLeg
  <2>3. CASE DeleteLeg
    BY <2>0, <2>s, <2>3 DEF DeleteLeg
  <2> QED BY <1>1, <2>1, <2>2, <2>3
<1> QED BY <1>2, <1>6, <1>10

\* The text at p is a stranger's.
Theirs(p) == p \in Paths /\ tree[p].text = Foreign

\* Some place still has a stranger's text.
Kept == \E q \in Paths : tree'[q].text = Foreign

\* A stranger's text is in a file.
LEMMA TheirsIsFile ==
  ASSUME TreeInv, NEW p, Theirs(p)
  PROVE  p \in Paths /\ Exists(tree, p) /\ tree[p].kind = "file" /\ Sound(tree)
<1>1. p \in Paths /\ tree[p].text # <<>> /\ Sound(tree)
  BY DEF Theirs, Foreign, TreeInv, Real
<1>2. Exists(tree, p)
  BY <1>1, NodeTypes DEF Sound, Exists
<1>3. tree[p].kind = "file"
  BY <1>1, <1>2, NodeTypes DEF Sound, Exists, Kinds
<1> QED BY <1>1, <1>2, <1>3

\* A stranger's file is kept where the tree does not change, ...
LEMMA KeptSame == ASSUME NEW p, Theirs(p), tree'[p] = tree[p] PROVE Kept
BY DEF Theirs, Kept

\* ... or where its subtree is moved as a whole.
LEMMA KeptMoved ==
  ASSUME TreeInv, NEW p, Theirs(p), NEW a \in Paths, NEW b \in Paths, Apart(a, b), ~Exists(tree, b), MovesWithin(tree, a, b),
         tree' = RenameTree(tree, a, b)
  PROVE  Kept
<1>1. p \in Paths /\ Exists(tree, p) /\ Sound(tree)
  BY TheirsIsFile
<1>2. \E q \in Paths : RenameTree(tree, a, b)[q] = tree[p]
  BY <1>1, KeptByMove
<1> QED BY <1>2 DEF Kept, Theirs

\* It is kept by the writes of the Application, action by action.
LEMMA KeptByWrite ==
  ASSUME TreeInv, RaceInv, ~raced, NEW p, Theirs(p), Truncate \/ Write
  PROVE  Kept
<1>1. p \in Paths /\ tree[p].text = Foreign /\ tree[p].kind = "file"
  BY TheirsIsFile DEF Theirs
<1>2. PICK x : tree' = Overwritten(handle.id, x)
  BY DEF Truncate, Write
<1>3. OwnHandle(tree, handle.id)
  BY DEF RaceInv, Truncate, Write
<1>4. tree[p].id # handle.id
  BY <1>1, <1>3 DEF OwnHandle
<1>5. tree'[p] = tree[p]
  BY <1>1, <1>2, <1>4 DEF Overwritten
<1> QED BY <1>5, KeptSame

\* Setting aside keeps a stranger's file.
LEMMA KeptByAside ==
  ASSUME Control, TreeInv, SlotInv, SourceInv, NEW p, Theirs(p), MoveAside \/ Delete
  PROVE  Kept
<1>0. CASE tree' = tree
  BY <1>0, KeptSame
<1>1. CASE tree' # tree
  <2> DEFINE a == AsideRoot(Operation)
             u == Undo(number)
  <2>1. /\ at = "act" /\ Operation.kind \in {"rename", "delete"} /\ tree' = RenameTree(tree, a, u)
    <3>1. CASE MoveAside
      BY <1>1, <3>1 DEF MoveAside, Abort, Unfit, AsideRoot
    <3>2. CASE Delete
      BY <1>1, <3>2 DEF Delete, Abort, Unfit, AsideRoot
    <3> QED BY <3>1, <3>2
  <2>2. number \in 1..N /\ number \in Int
    BY <2>1, AtWork DEF Working
  <2>3. a \in Paths /\ u \in Paths /\ Apart(a, u) /\ number \in DOMAIN UndoName
    BY <2>1, <2>2, Legal DEF AsideRoot
  <2>4. ~Exists(tree, u)
    BY <2>1, <2>2, <2>3 DEF SlotInv, Ahead
  <2>5. MovesWithin(tree, a, u)
    BY <2>1, <2>2, MovesOn DEF AsideRoot, Moving
  <2> HIDE DEF a, u
  <2> QED BY <2>1, <2>3, <2>4, <2>5, KeptMoved
<1> QED BY <1>0, <1>1

\* Rename keeps a stranger's file.
LEMMA KeptByRename ==
  ASSUME Control, TreeInv, SourceInv, RaceInv, ~raced, NEW p, Theirs(p), Rename
  PROVE  Kept
<1>0. CASE tree' = tree
  BY <1>0, KeptSame
<1>1. CASE tree' # tree
  <2>1. /\ at = "rename" /\ Operation.kind = "rename" /\ tree' = RenameTree(tree, Operation.path, Operation.new)
    BY <1>1 DEF Rename, Abort, Control, StepInv
  <2>2. number \in 1..N
    BY <2>1, AtWork DEF Working
  <2>3. Operation.path \in Paths /\ Operation.new \in Paths /\ Apart(Operation.path, Operation.new)
    BY <2>1, <2>2, Legal
  <2>4. ~Exists(tree, Operation.new)
    BY <2>1 DEF RaceInv
  <2>5. MovesWithin(tree, Operation.path, Operation.new)
    BY <2>1, <2>2, MovesOn
  <2> QED BY <2>1, <2>3, <2>4, <2>5, KeptMoved
<1> QED BY <1>0, <1>1

\* Create keeps a stranger's file.
LEMMA KeptByCreate ==
  ASSUME Control, TreeInv, NEW p, Theirs(p), Create
  PROVE  Kept
<1>0. CASE tree' = tree
  BY <1>0, KeptSame
<1>1. CASE tree' # tree
  <2>1. at = "act" /\ ~Exists(tree, Operation.path) /\ tree' = [tree EXCEPT ![Operation.path] = [NewFile EXCEPT !.id = CreatedId(number)]]
    BY <1>1 DEF Create, Abort, Unfit
  <2>2. p \in Paths /\ p # Operation.path /\ tree \in Trees
    BY <2>1, TheirsIsFile DEF Sound
  <2>3. tree'[p] = tree[p]
    BY <2>1, <2>2, NodeTypes
  <2> QED BY <2>3, KeptSame
<1> QED BY <1>0, <1>1

\* RemoveCreated keeps a stranger's file.
LEMMA KeptByRemoval ==
  ASSUME Control, TreeInv, RaceInv, ~raced, NEW p, Theirs(p), RemoveCreated
  PROVE  Kept
<1>0. CASE tree' = tree
  BY <1>0, KeptSame
<1>1. CASE tree' # tree
  <2> DEFINE a == Operation.path
  <2>1. at = "undo_remove" /\ tree' = DeleteTree(tree, a) /\ tree[a].kind = "file" /\ tree[a].text # Foreign
    BY <1>1 DEF RemoveCreated, RaceInv
  <2>2. a \in Paths
    BY <2>1, AtWork, Legal DEF Undoing
  <2>3. p \in Paths /\ Exists(tree, p) /\ WellFormedTree(tree) /\ tree[p].text = Foreign
    BY TheirsIsFile DEF Sound, Theirs
  <2> HIDE DEF a
  <2>4. ~Under(p, a)
    BY <2>1, <2>2, <2>3, NothingBelow
  <2>5. tree'[p] = tree[p]
    BY <2>1, <2>3, <2>4 DEF DeleteTree
  <2> QED BY <2>5, KeptSame
<1> QED BY <1>0, <1>1

\* RenameLeg keeps a stranger's file.
LEMMA KeptByLeg ==
  ASSUME Control, TreeInv, RaceInv, ~raced, NEW p, Theirs(p), RenameLeg
  PROVE  Kept
<1>0. CASE tree' = tree
  BY <1>0, KeptSame
<1>1. CASE tree' # tree
  <2>1. at = "leg_rename" /\ tree' = RenameTree(tree, move.from, move.to)
    BY <1>1 DEF RenameLeg
  <2>2. HoldsIn(tree, LegProof)
    BY <2>1 DEF RaceInv
  <2>3. /\ move.from \in Paths /\ move.to \in Paths /\ Apart(move.from, move.to)
        /\ ~Exists(tree, move.to) /\ MovesWithin(tree, move.from, move.to)
    BY <2>1, <2>2, LegKeeps
  <2> QED BY <2>1, <2>3, KeptMoved
<1> QED BY <1>0, <1>1

\* The clean-up after a rollback finds nothing of a stranger's in the slots.
LEMMA KeptByCleanup ==
  ASSUME TreeInv, DoneInv, OriginalsAside, NEW p, Theirs(p), Cleanup, at # "accepted"
  PROVE  Kept
<1>1. p \in Paths /\ Exists(tree, p) /\ tree[p].text = Foreign
  BY TheirsIsFile DEF Theirs
<1>2. at \in {"committed", "restored"} /\ tree' = [q \in Paths |-> IF q \in UndoPaths THEN MissingNode ELSE tree[q]]
  BY DEF Cleanup
<1>3. p \notin UndoPaths
  BY <1>1, <1>2 DEF DoneInv
<1>4. tree'[p] = tree[p]
  BY <1>1, <1>2, <1>3
<1> QED BY <1>4, KeptSame

\* Every step keeps a stranger's text.
LEMMA KeptStep ==
  ASSUME Inv, SlotInv, SourceInv, RaceInv, DoneInv, [Next]_vars, \E p \in Paths : tree[p].text = Foreign,
         OriginalsAside, ~raced, writes' = writes, at # "accepted"
  PROVE  \E p \in Paths : tree'[p].text = Foreign
<1>c. Control /\ TreeInv
  BY DEF Inv, Control
<1>1. PICK p : Theirs(p)
  BY DEF Theirs
<1>2. ~Stranger
  BY <1>c DEF Stranger, Control, TypeInv
<1>3. CASE UNCHANGED vars \/ Stage \/ Check \/ Retain \/ OpenText \/ Prove \/ Preflight \/ ReverseEffect \/ CheckLeg
           \/ Verify \/ FinishUndo \/ Recover \/ Crash \/ Fault
  <2>1. tree' = tree
    BY <1>3 DEF vars, Stage, Check, Retain, OpenText, Prove, Preflight, ReverseEffect, CheckLeg, Verify, FinishUndo,
       Recover, Crash, Fault, Abort
  <2> QED BY <1>1, <2>1, KeptSame DEF Kept
<1>4. CASE Truncate \/ Write \/ MoveAside \/ Delete \/ Rename \/ Create \/ RemoveCreated \/ RenameLeg \/ Cleanup
  <2>1. Kept
    BY <1>c, <1>1, <1>4, KeptByWrite, KeptByAside, KeptByRename, KeptByCreate, KeptByRemoval, KeptByLeg, KeptByCleanup
  <2> QED BY <2>1 DEF Kept
<1> QED BY <1>2, <1>3, <1>4 DEF Next

\* What was checked is so as long as nobody writes between the check and the call,
\* and the slots that the clean-up empties hold nothing of a stranger's.
THEOREM ChecksHold == Spec => [](SourceInv /\ RaceInv /\ DoneInv)
<1>1. Init => SourceInv /\ RaceInv /\ DoneInv
  BY DEF Init, SourceInv, RaceInv, DoneInv
<1>2. /\ Inv /\ Inv' /\ SlotInv /\ OriginInv /\ SourceInv /\ RaceInv /\ DoneInv /\ [Next]_vars
      => SourceInv' /\ RaceInv' /\ DoneInv'
  <2>1. [Next]_vars => plan' = plan
    BY SamePlanNext
  <2>2. Inv => Control /\ TreeInv
    BY DEF Inv, Control
  <2>3. Inv' => TreeInv'
    BY DEF Inv
  <2> QED BY <2>1, <2>2, <2>3, SourceNext, RaceNext, DoneNext
<1> QED BY <1>1, <1>2, InvHolds, SlotsHold, PTL DEF Spec

\* What a stranger wrote is never lost to an Application or its rollback, unless it
\* was written between a check and the very call it was made for, or somebody
\* accepts the files as they are (retain_effect_handles, rename_capability_resource,
\* rollback_transaction, and the clean-up of the artifact directory).
THEOREM StrangerKeptHolds == Spec => StrangerKept
<1>1. /\ Inv /\ SlotInv /\ OriginInv /\ SourceInv /\ RaceInv /\ DoneInv /\ [Next]_vars
      => [/\ \E p \in Paths : tree[p].text = Foreign
          /\ OriginalsAside /\ ~raced /\ writes' = writes /\ at # "accepted"
          => \E p \in Paths : tree'[p].text = Foreign]_vars
  BY KeptStep
<1> QED BY <1>1, InvHolds, SlotsHold, ChecksHold, PTL DEF Spec, StrangerKept
====
