---------------------------- MODULE FadePathProofs ----------------------------
(***************************************************************************)
(* Lemmas about mount-relative paths, for every namespace.                 *)
(***************************************************************************)
EXTENDS FadePath, SequenceTheorems, WellFoundedInduction, TLAPS

\* A sequence cut in two.
LEMMA Cut ==
    ASSUME NEW S, NEW s \in Seq(S), NEW n \in 0..Len(s)
    PROVE  /\ SubSeq(s, 1, n) \in Seq(S) /\ Len(SubSeq(s, 1, n)) = n
           /\ SubSeq(s, n + 1, Len(s)) \in Seq(S) /\ Len(SubSeq(s, n + 1, Len(s))) = Len(s) - n
           /\ s = SubSeq(s, 1, n) \o SubSeq(s, n + 1, Len(s))
<1> DEFINE len == Len(s)
<1>1. len \in Nat /\ n \in Int /\ n + 1 \in Int /\ 0 <= n /\ n <= len
  BY LenProperties
<1>2. \A i \in 1..len : s[i] \in S
  BY ElementOfSeq
<1> HIDE DEF len
<1>3. (\A i \in 1..n : s[i] \in S) /\ (\A i \in n + 1 .. len : s[i] \in S)
  BY <1>1, <1>2
<1>4. /\ SubSeq(s, 1, n) \in Seq(S)
      /\ Len(SubSeq(s, 1, n)) = IF 1 <= n THEN n - 1 + 1 ELSE 0
  BY <1>1, <1>3, SubSeqProperties
<1>5. /\ SubSeq(s, n + 1, len) \in Seq(S)
      /\ Len(SubSeq(s, n + 1, len)) = IF n + 1 <= len THEN len - (n + 1) + 1 ELSE 0
  BY <1>1, <1>3, SubSeqProperties
<1>6. Len(SubSeq(s, 1, n)) = n /\ Len(SubSeq(s, n + 1, len)) = len - n
  BY <1>1, <1>4, <1>5
<1>7. 1 \in 1..len + 1 /\ n \in 1 - 1 .. len /\ len \in n..len
  BY <1>1
<1>8. SubSeq(s, 1, n) \o SubSeq(s, n + 1, len) = SubSeq(s, 1, len)
  BY <1>7, ConcatAdjacentSubSeq DEF len
<1>9. SubSeq(s, 1, len) = s
  BY SubSeqFull DEF len
<1> QED BY <1>4, <1>5, <1>6, <1>8, <1>9 DEF len

\* The last element of a concatenation is the last of its second part.
LEMMA ParentOfConcat ==
    ASSUME NEW S, NEW s \in Seq(S), NEW t \in Seq(S), t # <<>>
    PROVE  SubSeq(s \o t, 1, Len(s \o t) - 1) = s \o SubSeq(t, 1, Len(t) - 1)
<1> DEFINE init == SubSeq(t, 1, Len(t) - 1)
           last == <<t[Len(t)]>>
<1>1. Len(s) \in Nat /\ Len(t) \in Nat \ {0}
  BY LenProperties, EmptySeq
<1>2. Len(t) - 1 \in 0..Len(t) /\ 1 \in 1..Len(t) /\ Len(t) \in 1..Len(t)
  BY <1>1
<1>3. init \in Seq(S) /\ Len(init) = Len(t) - 1
  BY <1>2, Cut
<1>4. last \in Seq(S) /\ Len(last) = 1
  <2>1. t[Len(t)] \in S
    BY <1>2, ElementOfSeq
  <2> QED BY <2>1
<1>5. t = init \o last
  BY <1>2, SubSeqFull, SubSeqRecursiveSecond
<1> HIDE DEF init, last
<1>6. s \o t = (s \o init) \o last
  <2>1. (s \o init) \o last = s \o (init \o last)
    <3>1. \A a, b, c \in Seq(S) : (a \o b) \o c = a \o (b \o c)
      BY ConcatAssociative
    <3> QED BY <1>3, <1>4, <3>1
  <2> QED BY <1>5, <2>1
<1>7. s \o init \in Seq(S) /\ Len(s \o init) = Len(s) + Len(init)
  BY <1>3, ConcatProperties
<1>8. Len(s \o t) = Len(s) + Len(t)
  BY ConcatProperties
<1>9. Len(s \o t) - 1 = Len(s \o init)
  BY <1>1, <1>3, <1>7, <1>8
<1>10. SubSeq((s \o init) \o last, 1, Len(s \o init)) = s \o init
  <2> DEFINE u == s \o init
  <2> HIDE DEF u
  <2>1. u \in Seq(S)
    BY <1>7 DEF u
  <2>2. SubSeq(u \o last, 1, Len(u)) = u
    BY <1>4, <2>1
  <2> QED BY <2>2 DEF u
<1> QED BY <1>6, <1>9, <1>10 DEF init

\* A path other than the root has a parent and a name in it.
LEMMA PathParts ==
    ASSUME NEW p \in Paths
    PROVE  /\ p \in Seq(Names) /\ Len(p) \in Nat \ {0}
           /\ Parent(p) \in Seq(Names) /\ Len(Parent(p)) = Len(p) - 1
           /\ p = Append(Parent(p), p[Len(p)])
           /\ p[Len(p)] \in Names
           /\ Parent(p) \in Paths \cup {Root}
           /\ p # Root
<1>1. p \in Seq(Names) /\ p # Root /\ Parent(p) \in Paths \cup {Root}
  BY PathsAssumption
<1>2. Len(p) \in Nat /\ Len(p) # 0
  BY <1>1 DEF Root
<1>3. p[Len(p)] \in Names
  BY <1>1, <1>2
<1>4. Parent(p) \in Seq(Names) /\ Len(Parent(p)) = Len(p) - 1
  <2>1. Len(p) - 1 \in 0..Len(p)
    BY <1>2
  <2> QED BY <1>1, <2>1, Cut DEF Parent
<1>5. p = Append(Parent(p), p[Len(p)])
  <2>1. p = SubSeq(p, 1, Len(p))
    BY <1>1, SubSeqFull
  <2>2. SubSeq(p, 1, Len(p)) = Parent(p) \o <<p[Len(p)]>>
    BY <1>1, <1>2, SubSeqRecursiveSecond DEF Parent
  <2>3. Append(Parent(p), p[Len(p)]) = Parent(p) \o <<p[Len(p)]>>
    BY <1>3, <1>4, AppendIsConcat
  <2> QED BY <2>1, <2>2, <2>3
<1> QED BY <1>1, <1>2, <1>3, <1>4, <1>5

\* What is below a directory is within it, by its parent.
LEMMA BelowByParent ==
    ASSUME NEW p \in Paths, NEW dir \in Paths
    PROVE  /\ Below(p, dir) <=> Within(Parent(p), dir)
           /\ Within(dir, dir)
<1>1. /\ p \in Seq(Names) /\ Len(p) \in Nat \ {0}
      /\ Parent(p) \in Seq(Names) /\ Len(Parent(p)) = Len(p) - 1
  BY PathParts
<1>2. dir \in Seq(Names) /\ Len(dir) \in Nat
  BY PathParts
<1>3. ASSUME Len(dir) < Len(p)
      PROVE  SubSeq(Parent(p), 1, Len(dir)) = SubSeq(p, 1, Len(dir))
  BY <1>1, <1>2, <1>3 DEF Parent
<1>4. SubSeq(Parent(p), 1, Len(Parent(p))) = Parent(p)
  BY <1>1
<1>5. ASSUME Below(p, dir) PROVE Within(Parent(p), dir)
  <2>1. Len(dir) <= Len(Parent(p))
    BY <1>1, <1>2, <1>5 DEF Below
  <2>2. SubSeq(Parent(p), 1, Len(dir)) = dir
    BY <1>3, <1>5 DEF Below
  <2>3. CASE Len(dir) = Len(Parent(p))
    BY <1>4, <2>2, <2>3 DEF Within
  <2>4. CASE Len(dir) < Len(Parent(p))
    BY <2>2, <2>4 DEF Within, Below
  <2> QED BY <1>1, <1>2, <2>1, <2>3, <2>4
<1>6. ASSUME Within(Parent(p), dir) PROVE Below(p, dir)
  <2>1. Len(dir) < Len(p)
    BY <1>1, <1>2, <1>6 DEF Within, Below
  <2>2. SubSeq(Parent(p), 1, Len(dir)) = dir
    <3>1. CASE Parent(p) = dir
      BY <1>4, <3>1
    <3>2. CASE Below(Parent(p), dir)
      BY <3>2 DEF Below
    <3> QED BY <1>6, <3>1, <3>2 DEF Within
  <2> QED BY <1>3, <2>1, <2>2 DEF Below
<1> QED BY <1>5, <1>6 DEF Within

\* Moving a path from one place to another: it lands there, moving back undoes
\* it, and its parent moves with it.
LEMMA RebaseThereAndBack ==
    ASSUME NEW p \in Paths, NEW from \in Paths, NEW to \in Paths, Within(p, from)
    PROVE  /\ Within(Rebase(p, from, to), to)
           /\ Rebase(Rebase(p, from, to), to, from) = p
           /\ p = from => Rebase(p, from, to) = to
           /\ p # from => /\ Below(Rebase(p, from, to), to)
                          /\ Rebase(Parent(p), from, to) = Parent(Rebase(p, from, to))
<1> DEFINE rest == SubSeq(p, Len(from) + 1, Len(p))
<1>1. /\ p \in Seq(Names) /\ Len(p) \in Nat \ {0}
      /\ from \in Seq(Names) /\ Len(from) \in Nat \ {0}
      /\ to \in Seq(Names) /\ Len(to) \in Nat \ {0}
      /\ Parent(p) \in Seq(Names) /\ Len(Parent(p)) = Len(p) - 1
  BY PathParts
<1>2. Len(from) <= Len(p) /\ SubSeq(p, 1, Len(from)) = from
  <2>1. SubSeq(from, 1, Len(from)) = from
    BY <1>1
  <2> QED BY <1>1, <2>1 DEF Within, Below
<1>3. rest \in Seq(Names) /\ Len(rest) = Len(p) - Len(from) /\ p = from \o rest
  <2>1. Len(from) \in 0..Len(p)
    BY <1>1, <1>2
  <2> QED BY <1>1, <1>2, <2>1, Cut
<1>4. p = from \o rest
  BY <1>3
<1>5. Rebase(p, from, to) = to \o rest
  BY DEF Rebase
<1>6. /\ to \o rest \in Seq(Names) /\ Len(to \o rest) = Len(to) + Len(rest)
      /\ SubSeq(to \o rest, 1, Len(to)) = to
      /\ SubSeq(to \o rest, Len(to) + 1, Len(to \o rest)) = rest
  BY <1>1, <1>3
<1>7. Rebase(Rebase(p, from, to), to, from) = p
  BY <1>4, <1>5, <1>6 DEF Rebase
<1>8. CASE p = from
  <2>1. rest = <<>>
    BY <1>3, <1>8, <1>1, EmptySeq
  <2>2. to \o rest = to
    BY <1>1, <2>1, ConcatEmptySeq
  <2> QED BY <1>5, <1>7, <1>8, <2>2 DEF Within
<1>9. CASE p # from
  <2>1. Len(rest) > 0
    <3>1. SubSeq(p, 1, Len(p)) = p
      BY <1>1
    <3>2. Len(p) # Len(from)
      BY <1>2, <1>9, <3>1
    <3>3. Len(p) \in Nat /\ Len(from) \in Nat /\ Len(from) <= Len(p)
      BY <1>1, <1>2
    <3>4. Len(rest) = Len(p) - Len(from)
      BY <1>3
    <3> HIDE DEF rest
    <3> QED BY <3>2, <3>3, <3>4
  <2>2. Below(to \o rest, to)
    BY <1>1, <1>3, <1>6, <2>1 DEF Below
  <2>3. Rebase(Parent(p), from, to) = to \o SubSeq(Parent(p), Len(from) + 1, Len(p) - 1)
    BY <1>1 DEF Rebase
  <2>4. SubSeq(Parent(p), Len(from) + 1, Len(p) - 1) = SubSeq(rest, 1, Len(rest) - 1)
    BY <1>1, <1>2, <1>3, <2>1 DEF Parent
  <2>5. Parent(to \o rest) = to \o SubSeq(rest, 1, Len(rest) - 1)
    <3>1. Len(rest) \in Nat
      BY <1>3, LenProperties
    <3> HIDE DEF rest
    <3>2. to \in Seq(Names) /\ rest \in Seq(Names) /\ Len(rest) # 0 /\ rest # <<>>
      BY <1>1, <1>3, <2>1, <3>1, EmptySeq
    <3>3. Len(to \o rest) = Len(to) + Len(rest)
      BY <1>6
    <3> QED BY <3>2, <3>3, ParentOfConcat DEF Parent
  <2> QED BY <1>5, <1>7, <1>9, <2>2, <2>3, <2>4, <2>5 DEF Within
<1> QED BY <1>8, <1>9

\* Of two directories that hold the same path, one holds the other.
LEMMA Comparable ==
    ASSUME NEW p \in Paths, NEW a \in Paths, NEW b \in Paths, Within(p, a), Within(p, b)
    PROVE  Within(a, b) \/ Within(b, a)
<1>1. /\ p \in Seq(Names) /\ a \in Seq(Names) /\ b \in Seq(Names)
      /\ Len(p) \in Nat /\ Len(a) \in Nat /\ Len(b) \in Nat
  BY PathParts
<1>2. /\ SubSeq(p, 1, Len(a)) = a /\ SubSeq(p, 1, Len(b)) = b
      /\ Len(a) <= Len(p) /\ Len(b) <= Len(p)
  <2>1. SubSeq(p, 1, Len(p)) = p
    BY <1>1
  <2> QED BY <1>1, <2>1 DEF Within, Below
<1>3. ASSUME Len(a) < Len(b) PROVE SubSeq(b, 1, Len(a)) = a
  BY <1>1, <1>2, <1>3
<1>4. ASSUME Len(b) < Len(a) PROVE SubSeq(a, 1, Len(b)) = b
  BY <1>1, <1>2, <1>4
<1> QED BY <1>1, <1>2, <1>3, <1>4 DEF Within, Below

\* The root is within no other path.
LEMMA RootAbove ==
    ASSUME NEW p \in Paths
    PROVE  ~Within(Root, p)
BY PathParts DEF Root, Within, Below

\* A set of numbers has a least one.
LEMMA LeastNumber ==
    ASSUME NEW S \in SUBSET Nat, S # {}
    PROVE  \E n \in S : \A m \in S : n <= m
<1> DEFINE less == {ss \in Nat \X Nat : ss[1] < ss[2]}
<1>1. IsWellFoundedOn(less, Nat)
  BY NatLessThanWellFounded DEF OpToRel
<1> HIDE DEF less
<1>2. PICK n \in S : \A m \in S : ~(<<m, n>> \in less)
  BY <1>1, WFMin
<1>3. SUFFICES ASSUME NEW m \in S, m < n PROVE FALSE
  <2>1. \A m \in S : n <= m \/ m < n
    OBVIOUS
  <2> QED BY <1>3, <2>1
<1>4. <<m, n>> \in less
  BY <1>3 DEF less
<1> QED BY <1>2, <1>4

\* A set of paths has a shortest one.
LEMMA Shortest ==
    ASSUME NEW S \in SUBSET Paths, S # {}
    PROVE  \E p \in S : \A q \in S : Len(p) <= Len(q)
<1> DEFINE lens == {Len(p) : p \in S}
<1>1. lens \subseteq Nat /\ lens # {}
  <2>1. \A p \in S : Len(p) \in Nat
    BY PathParts
  <2> QED BY <2>1
<1> HIDE DEF lens
<1>2. PICK n \in lens : \A m \in lens : n <= m
  BY <1>1, LeastNumber
<1> QED BY <1>2 DEF lens
=============================================================================
