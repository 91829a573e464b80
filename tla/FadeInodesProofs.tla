--------------------------- MODULE FadeInodesProofs ---------------------------
(***************************************************************************)
(* Proofs about FadeInodes, for every namespace, every workload of renames *)
(* and every size of the tables and of a reply.                            *)
(***************************************************************************)
EXTENDS FadeInodes, FadePathProofs, FiniteSetTheorems

------------------------------------------------------------------------------
(* The inductive invariant *)

TablesTyped ==
    /\ shown \in [Paths -> {"none", "file", "dir"}]
    /\ paths_by_ino \in [Inos -> Paths \cup {Root, Nowhere}]
    /\ inos_by_path \in [Paths -> Inos \cup {NoIno}]
    /\ next_ino \in Inos \cup {MaxIno + 1}
    /\ dentry \in [Paths -> Inos \cup {NoIno}]

ListingTyped ==
    /\ listing \in [ino: Inos \cup {NoIno}, offset: Nat, names: Seq(Names \cup {".", ".."}),
                    ended: BOOLEAN, touched: SUBSET Names]
    /\ listing.ino < next_ino

\* Numbers are handed out in order, and one that was not is unused.
NumbersBelow ==
    /\ \A p \in Paths : inos_by_path[p] < next_ino /\ dentry[p] < next_ino
    /\ \A i \in Inos : next_ino <= i => paths_by_ino[i] = Nowhere

\* The kernel knows a name only below a directory it knows.
KnownAbove == \A p \in Paths : Known(p) => Known(Parent(p))

TablesInv ==
    /\ TablesTyped
    /\ paths_by_ino[ROOT_INO] = Root
    /\ NumbersBelow
    /\ KnownAbove
    /\ TablesAgree
    /\ NumbersResolve

\* Where a name stands in the listing of a directory, "." and ".." being the first two.
Rank(n, S) == Cardinality({m \in S : Before(m, n)})
Place(n, S) == Rank(n, S) + 3

\* The names that nothing shifted since the listing was opened.
Steady ==
    {n \in Children(ListedPath) \ listing.touched : \A m \in listing.touched : ~Before(m, n)}

\* What was read so far is what the listing has up to the offset, as far as
\* the names go that nothing shifted.
ListingInv ==
    listing.ino # NoIno =>
        /\ Len(listing.names) = listing.offset
        /\ ListedPath # Nowhere =>
              \A n \in Steady :
                  LET place == Place(n, Children(ListedPath))
                  IN /\ \A i \in 1..listing.offset : listing.names[i] = n <=> i = place
                     /\ listing.ended => place <= listing.offset

------------------------------------------------------------------------------
(* Paths *)

\* The path of a number that was given up is no path.
LEMMA NotNowhere ==
    ASSUME NEW p \in Paths
    PROVE  p # Nowhere
<1>1. Len(p) # 0 /\ Len(p) \in Nat /\ p[Len(p)] \in Names
  BY PathParts
<1> QED BY <1>1, InodesAssumption DEF Nowhere

\* Neither the root nor the path of a number that was given up is within a
\* directory other than the root.
LEMMA OutsideAll ==
    ASSUME NEW dir \in Paths
    PROVE  ~Within(Root, dir) /\ ~Within(Nowhere, dir)
<1>1. dir \in Seq(Names) /\ Len(dir) \in Nat \ {0} /\ dir # Root /\ dir # Nowhere
  BY PathParts, NotNowhere
<1>2. Len(Root) = 0 /\ Len(Nowhere) = 1
  BY DEF Root, Nowhere
<1> QED BY <1>1, <1>2 DEF Within, Below

------------------------------------------------------------------------------
(* The tables *)

\* Counting the members below each member of a set of indices numbers the set
\* from 0 on, in order.
LEMMA Counting ==
    ASSUME NEW n \in Nat, NEW S \in SUBSET (1..n)
    PROVE  /\ Cardinality(S) \in Nat
           /\ \A i \in S : Cardinality({j \in S : j < i}) \in 0..Cardinality(S) - 1
           /\ \A i, k \in S : i < k => Cardinality({j \in S : j < i}) < Cardinality({j \in S : j < k})
<1>1. IsFiniteSet(S) /\ S \subseteq Int
  <2>1. IsFiniteSet(1..n)
    BY FS_Interval
  <2>2. IsFiniteSet(S)
    BY <2>1, FS_Subset
  <2> QED BY <2>2
<1>2. Cardinality(S) \in Nat
  BY <1>1, FS_CardinalityType
<1>3. ASSUME NEW T \in SUBSET S, NEW U \in SUBSET T, NEW x \in T \ U
      PROVE  Cardinality(U) \in Nat /\ Cardinality(T) \in Nat /\ Cardinality(U) < Cardinality(T)
  <2>1. IsFiniteSet(T)
    BY <1>1, FS_Subset
  <2>2. IsFiniteSet(U) /\ Cardinality(U) <= Cardinality(T) /\ Cardinality(T) # Cardinality(U)
    BY <1>3, <2>1, FS_Subset
  <2>3. Cardinality(U) \in Nat /\ Cardinality(T) \in Nat
    BY <2>1, <2>2, FS_CardinalityType
  <2> QED BY <2>2, <2>3
<1>4. ASSUME NEW i \in S
      PROVE  Cardinality({j \in S : j < i}) \in 0..Cardinality(S) - 1
  <2>1. {j \in S : j < i} \in SUBSET S /\ i \in S \ {j \in S : j < i}
    BY <1>1
  <2>2. /\ Cardinality({j \in S : j < i}) \in Nat
        /\ Cardinality({j \in S : j < i}) < Cardinality(S)
    BY <1>3, <2>1
  <2> QED BY <1>2, <2>2
<1>5. ASSUME NEW i \in S, NEW k \in S, i < k
      PROVE  Cardinality({j \in S : j < i}) < Cardinality({j \in S : j < k})
  <2>1. {j \in S : j < k} \in SUBSET S
    OBVIOUS
  <2>2. {j \in S : j < i} \in SUBSET {j \in S : j < k}
    <3>1. \A j \in S : j < i => j < k
      BY <1>1, <1>5
    <3> QED BY <3>1
  <2>3. i \in {j \in S : j < k} \ {j \in S : j < i}
    BY <1>1, <1>5
  <2> QED BY <1>3, <2>1, <2>2, <2>3
<1> QED BY <1>2, <1>4, <1>5

\* What giving numbers to paths does to the tables: each path given has one
\* afterwards, the numbers handed out before keep their paths, and a path with
\* a number is the path of that number.
LEMMA InodesForTables ==
    ASSUME TablesTyped, NumbersBelow, TablesAgree,
           NEW ps \in Seq(Paths \cup {Root}), InodesFor(ps)
    PROVE  /\ paths_by_ino' \in [Inos -> Paths \cup {Root, Nowhere}]
           /\ inos_by_path' \in [Paths -> Inos \cup {NoIno}]
           /\ next_ino' \in Inos \cup {MaxIno + 1} /\ next_ino <= next_ino'
           /\ \A i \in Inos : i < next_ino => paths_by_ino'[i] = paths_by_ino[i]
           /\ \A i \in Inos : next_ino' <= i => paths_by_ino'[i] = Nowhere
           /\ \A p \in Paths : inos_by_path'[p] < next_ino'
           /\ \A i \in 1..Len(ps) : ps[i] \in Paths => inos_by_path'[ps[i]] # NoIno
           /\ TablesAgree'
<1> DEFINE fresh == {i \in 1..Len(ps) : ps[i] # Root /\ inos_by_path[ps[i]] = NoIno}
           number(i) == next_ino + Cardinality({j \in fresh : j < i})
           given == Cardinality(fresh)
<1>1. /\ next_ino + given <= MaxIno + 1
      /\ next_ino' = next_ino + given
      /\ inos_by_path' = [p \in Paths |-> IF \E i \in fresh : ps[i] = p
                                            THEN number(CHOOSE i \in fresh : ps[i] = p)
                                            ELSE inos_by_path[p]]
      /\ paths_by_ino' = [n \in Inos |-> IF \E i \in fresh : number(i) = n
                                           THEN ps[CHOOSE i \in fresh : number(i) = n]
                                           ELSE paths_by_ino[n]]
  BY DEF InodesFor
<1>2. Len(ps) \in Nat /\ \A i \in 1..Len(ps) : ps[i] \in Paths \cup {Root}
  BY LenProperties, ElementOfSeq
<1>3. \A i \in fresh : ps[i] \in Paths /\ inos_by_path[ps[i]] = NoIno
  BY <1>2
<1>4. /\ given \in Nat
      /\ \A i \in fresh : Cardinality({j \in fresh : j < i}) \in 0..given - 1
      /\ \A i, k \in fresh : i < k =>
            Cardinality({j \in fresh : j < i}) < Cardinality({j \in fresh : j < k})
  <2>1. fresh \in SUBSET (1..Len(ps))
    OBVIOUS
  <2> HIDE DEF fresh
  <2> QED BY <1>2, <2>1, Counting
<1>5. fresh \subseteq Int
  BY <1>2
<1>6. next_ino \in Nat /\ 1 <= next_ino /\ MaxIno \in Nat /\ next_ino <= MaxIno + 1
  BY InodesAssumption DEF TablesTyped, Inos, ROOT_INO
<1> HIDE DEF fresh, given
<1>7. \A i \in fresh : number(i) \in Nat /\ next_ino <= number(i) /\ number(i) < next_ino + given
  BY <1>4, <1>6
<1>8. \A i, k \in fresh : number(i) = number(k) => i = k
  <2>1. ASSUME NEW i \in fresh, NEW k \in fresh, i < k PROVE number(i) < number(k)
    <3> DEFINE m == Cardinality({j \in fresh : j < i})
               n == Cardinality({j \in fresh : j < k})
    <3>1. m \in Int /\ n \in Int /\ m < n
      BY <1>4, <2>1
    <3>2. number(i) = next_ino + m /\ number(k) = next_ino + n
      OBVIOUS
    <3> HIDE DEF m, n, number
    <3> QED BY <1>6, <3>1, <3>2
  <2> HIDE DEF number
  <2> QED BY <1>5, <1>7, <2>1
<1>9. \A i \in fresh : number(i) \in Inos
  BY <1>1, <1>6, <1>7 DEF Inos, ROOT_INO
<1> HIDE DEF number
<1>10. next_ino' \in Inos \cup {MaxIno + 1} /\ next_ino <= next_ino'
  BY <1>1, <1>4, <1>6 DEF Inos, ROOT_INO
<1>11. ASSUME NEW p \in Paths
       PROVE  \/ inos_by_path'[p] = inos_by_path[p] /\ \A i \in fresh : ps[i] # p
              \/ \E i \in fresh : ps[i] = p /\ inos_by_path'[p] = number(i)
  <2>1. CASE \E i \in fresh : ps[i] = p
    <3>1. (CHOOSE i \in fresh : ps[i] = p) \in fresh /\ ps[CHOOSE i \in fresh : ps[i] = p] = p
      BY <2>1
    <3>2. inos_by_path'[p] = number(CHOOSE i \in fresh : ps[i] = p)
      BY <1>1, <2>1
    <3> QED BY <3>1, <3>2
  <2> QED BY <1>1, <2>1
<1>12. ASSUME NEW n \in Inos
       PROVE  \/ paths_by_ino'[n] = paths_by_ino[n] /\ \A i \in fresh : number(i) # n
              \/ \E i \in fresh : number(i) = n /\ paths_by_ino'[n] = ps[i]
  <2>1. CASE \E i \in fresh : number(i) = n
    <3>1. /\ (CHOOSE i \in fresh : number(i) = n) \in fresh
          /\ number(CHOOSE i \in fresh : number(i) = n) = n
      BY <2>1
    <3>2. paths_by_ino'[n] = ps[CHOOSE i \in fresh : number(i) = n]
      BY <1>1, <2>1
    <3> QED BY <3>1, <3>2
  <2> QED BY <1>1, <2>1
<1>13. paths_by_ino' \in [Inos -> Paths \cup {Root, Nowhere}]
  <2>1. \A n \in Inos : paths_by_ino'[n] \in Paths \cup {Root, Nowhere}
    BY <1>3, <1>12 DEF TablesTyped
  <2> QED BY <1>1, <2>1
<1>14. inos_by_path' \in [Paths -> Inos \cup {NoIno}]
  <2>1. \A p \in Paths : inos_by_path'[p] \in Inos \cup {NoIno}
    BY <1>9, <1>11 DEF TablesTyped
  <2> QED BY <1>1, <2>1
<1>15. \A i \in Inos : i < next_ino => paths_by_ino'[i] = paths_by_ino[i]
  BY <1>6, <1>7, <1>12 DEF Inos, ROOT_INO
<1>16. \A i \in Inos : next_ino' <= i => paths_by_ino'[i] = Nowhere
  BY <1>1, <1>4, <1>6, <1>7, <1>12 DEF Inos, ROOT_INO, NumbersBelow
<1>17. \A p \in Paths : inos_by_path'[p] < next_ino'
  <2> TAKE p \in Paths
  <2>1. inos_by_path[p] < next_ino /\ inos_by_path[p] \in Nat
    BY <1>6 DEF NumbersBelow, TablesTyped, Inos, ROOT_INO, NoIno
  <2> QED BY <1>1, <1>4, <1>6, <1>7, <1>11, <2>1
<1>18. ASSUME NEW i \in 1..Len(ps), ps[i] \in Paths
       PROVE  inos_by_path'[ps[i]] # NoIno
  <2>1. CASE i \in fresh
    <3>1. PICK k \in fresh : inos_by_path'[ps[i]] = number(k)
      BY <1>11, <1>18, <2>1
    <3> QED BY <1>6, <1>7, <3>1 DEF NoIno
  <2>2. CASE i \notin fresh
    <3>1. inos_by_path[ps[i]] # NoIno
      BY <1>18, <2>2, PathParts DEF fresh
    <3>2. \A k \in fresh : ps[k] # ps[i]
      BY <1>3, <3>1
    <3> QED BY <1>11, <1>18, <3>1, <3>2
  <2> QED BY <2>1, <2>2
<1>19. TablesAgree'
  <2>1. ASSUME NEW p \in Paths, inos_by_path'[p] # NoIno
        PROVE  paths_by_ino'[inos_by_path'[p]] = p
    <3>1. CASE \E i \in fresh : ps[i] = p /\ inos_by_path'[p] = number(i)
      <4>1. PICK i \in fresh : ps[i] = p /\ inos_by_path'[p] = number(i)
        BY <3>1
      <4> QED BY <1>8, <1>9, <1>12, <4>1
    <3>2. CASE inos_by_path'[p] = inos_by_path[p]
      <4>1. inos_by_path[p] \in Inos /\ inos_by_path[p] < next_ino
        BY <2>1, <3>2 DEF NumbersBelow, TablesTyped
      <4>2. paths_by_ino[inos_by_path[p]] = p
        BY <2>1, <3>2 DEF TablesAgree
      <4> QED BY <1>15, <3>2, <4>1, <4>2
    <3> QED BY <1>11, <2>1, <3>1, <3>2
  <2> QED BY <2>1 DEF TablesAgree
<1> QED BY <1>10, <1>13, <1>14, <1>15, <1>16, <1>17, <1>18, <1>19

\* The path a handler finds for a name below a directory the kernel knows is
\* the name's own.
LEMMA ChildPathIs ==
    ASSUME TablesInv, NEW p \in Paths, Known(Parent(p))
    PROVE  ChildPath(p) = p
<1>1. paths_by_ino[Number(Parent(p))] = Parent(p)
  BY DEF TablesInv, NumbersResolve, Known, Number
<1> QED BY <1>1, PathParts DEF ChildPath

\* A request that gives a path a number, and may tell the kernel so.
LEMMA NumbersGiven ==
    ASSUME TablesInv, NEW ps \in Seq(Paths \cup {Root}), InodesFor(ps),
           shown' \in [Paths -> {"none", "file", "dir"}],
           \/ dentry' = dentry
           \/ \E p \in Paths : /\ Known(Parent(p)) /\ ps = <<p>>
                               /\ dentry' = [dentry EXCEPT ![p] = inos_by_path'[p]]
    PROVE  TablesInv' /\ next_ino <= next_ino'
<1>1. /\ paths_by_ino' \in [Inos -> Paths \cup {Root, Nowhere}]
      /\ inos_by_path' \in [Paths -> Inos \cup {NoIno}]
      /\ next_ino' \in Inos \cup {MaxIno + 1} /\ next_ino <= next_ino'
      /\ \A i \in Inos : i < next_ino => paths_by_ino'[i] = paths_by_ino[i]
      /\ \A i \in Inos : next_ino' <= i => paths_by_ino'[i] = Nowhere
      /\ \A p \in Paths : inos_by_path'[p] < next_ino'
      /\ \A i \in 1..Len(ps) : ps[i] \in Paths => inos_by_path'[ps[i]] # NoIno
      /\ TablesAgree'
  BY InodesForTables DEF TablesInv
<1>2. ASSUME NEW p \in Paths
      PROVE  \/ dentry'[p] = dentry[p]
             \/ dentry'[p] = inos_by_path'[p] /\ Known(Parent(p))
  BY DEF TablesInv, TablesTyped
<1>3. dentry' \in [Paths -> Inos \cup {NoIno}]
  BY <1>1 DEF TablesInv, TablesTyped
<1>4. next_ino \in Nat /\ next_ino' \in Nat /\ MaxIno \in Nat \ {0}
  BY <1>1, InodesAssumption DEF TablesInv, TablesTyped, Inos, ROOT_INO
<1>5. TablesTyped'
  BY <1>1, <1>3 DEF TablesTyped
<1>6. \A p \in Paths : dentry[p] \in Nat /\ dentry[p] < next_ino
  BY <1>4 DEF TablesInv, TablesTyped, NumbersBelow, Inos, ROOT_INO, NoIno
<1>7. NumbersBelow'
  <2>1. \A p \in Paths : dentry'[p] < next_ino'
    BY <1>1, <1>2, <1>4, <1>6
  <2> QED BY <1>1, <2>1 DEF NumbersBelow
<1>8. NumbersResolve'
  <2>1. ASSUME NEW p \in Paths, dentry'[p] # NoIno PROVE paths_by_ino'[dentry'[p]] = p
    <3>1. CASE dentry'[p] = dentry[p]
      <4>1. dentry[p] \in Inos /\ paths_by_ino[dentry[p]] = p
        BY <2>1, <3>1 DEF TablesInv, TablesTyped, NumbersResolve
      <4> QED BY <1>1, <1>6, <3>1, <4>1
    <3>2. CASE dentry'[p] = inos_by_path'[p]
      BY <1>1, <2>1, <3>2 DEF TablesAgree
    <3> QED BY <1>2, <3>1, <3>2
  <2> QED BY <2>1 DEF NumbersResolve
<1>9. KnownAbove'
  <2>1. ASSUME NEW p \in Paths, dentry[p] # NoIno PROVE dentry'[p] # NoIno
    <3>1. CASE dentry' = dentry
      BY <2>1, <3>1
    <3>2. CASE dentry' # dentry
      <4>1. PICK q \in Paths : /\ ps = <<q>>
                               /\ dentry' = [dentry EXCEPT ![q] = inos_by_path'[q]]
        BY <3>2
      <4>2. CASE p # q
        BY <2>1, <4>1, <4>2 DEF TablesInv, TablesTyped
      <4>3. CASE p = q
        <5>1. inos_by_path'[q] # NoIno
          <6>1. 1 \in 1..Len(ps) /\ ps[1] = q
            BY <4>1
          <6> QED BY <1>1, <6>1
        <5> QED BY <4>1, <4>3, <5>1 DEF TablesInv, TablesTyped
      <4> QED BY <4>2, <4>3
    <3> QED BY <3>1, <3>2
  <2> QED BY <1>2, <2>1 DEF KnownAbove, Known, TablesInv
<1>10. paths_by_ino'[ROOT_INO] = Root
  <2>1. ROOT_INO \in Inos /\ ROOT_INO \in Nat
    BY <1>4 DEF Inos, ROOT_INO
  <2>2. paths_by_ino[ROOT_INO] # Nowhere
    BY DEF TablesInv, Root, Nowhere
  <2>3. ROOT_INO < next_ino
    BY <1>4, <2>1, <2>2 DEF TablesInv, NumbersBelow
  <2> QED BY <1>1, <2>1, <2>3 DEF TablesInv
<1> QED BY <1>1, <1>5, <1>7, <1>8, <1>9, <1>10 DEF TablesInv

\* Giving up a name, with or without its number.
LEMMA NameDropped ==
    ASSUME TablesInv, NEW p \in Paths, Drop(p),
           UNCHANGED tables \/ RemoveInode(p),
           shown' \in [Paths -> {"none", "file", "dir"}]
    PROVE  TablesInv' /\ next_ino' = next_ino
<1>1. /\ dentry' = [q \in Paths |-> IF Within(q, p) THEN NoIno ELSE dentry[q]]
      /\ next_ino' = next_ino
      /\ \A q \in Paths : inos_by_path'[q] = inos_by_path[q] \/ inos_by_path'[q] = NoIno
      /\ inos_by_path' \in [Paths -> Inos \cup {NoIno}]
      /\ paths_by_ino' \in [Inos -> Paths \cup {Root, Nowhere}]
      /\ \A i \in Inos : \/ paths_by_ino'[i] = paths_by_ino[i]
                         \/ /\ paths_by_ino'[i] = Nowhere /\ i = inos_by_path[p]
                            /\ inos_by_path'[p] = NoIno
  BY DEF Drop, tables, RemoveInode, TablesInv, TablesTyped
<1>2. TablesTyped'
  BY <1>1 DEF TablesInv, TablesTyped
<1>3. \A i \in Inos : paths_by_ino'[i] # paths_by_ino[i] => paths_by_ino[i] = p
  BY <1>1 DEF TablesInv, TablesAgree, NoIno, Inos, ROOT_INO
<1>4. paths_by_ino'[ROOT_INO] = Root
  <2>1. ROOT_INO \in Inos
    BY InodesAssumption DEF Inos, ROOT_INO
  <2> QED BY <1>3, <2>1, PathParts DEF TablesInv
<1>5. NumbersBelow'
  <2>1. \A q \in Paths : dentry'[q] = dentry[q] \/ dentry'[q] = NoIno
    <3>1. dentry' = [q \in Paths |-> IF Within(q, p) THEN NoIno ELSE dentry[q]]
      BY <1>1
    <3> QED BY <3>1
  <2>2. NoIno < next_ino
    BY InodesAssumption DEF TablesInv, TablesTyped, NoIno, Inos, ROOT_INO
  <2>3. \A i \in Inos : next_ino' <= i => paths_by_ino'[i] = Nowhere
    BY <1>1 DEF TablesInv, NumbersBelow
  <2> QED BY <1>1, <2>1, <2>2, <2>3 DEF TablesInv, NumbersBelow
<1>6. KnownAbove'
  <2>1. ASSUME NEW q \in Paths, dentry'[q] # NoIno
        PROVE  Parent(q) = Root \/ (Parent(q) \in Paths /\ dentry'[Parent(q)] # NoIno)
    <3>1. ~Within(q, p) /\ dentry[q] # NoIno
      BY <1>1, <2>1
    <3>2. Parent(q) = Root \/ (Parent(q) \in Paths /\ dentry[Parent(q)] # NoIno)
      BY <3>1 DEF TablesInv, KnownAbove, Known
    <3>3. ~Within(Parent(q), p)
      BY <3>1, BelowByParent DEF Within
    <3>4. dentry' = [x \in Paths |-> IF Within(x, p) THEN NoIno ELSE dentry[x]]
      BY <1>1
    <3> QED BY <3>2, <3>3, <3>4
  <2> QED BY <2>1, PathParts DEF KnownAbove, Known
<1>7. TablesAgree'
  <2>1. ASSUME NEW q \in Paths, inos_by_path'[q] # NoIno PROVE paths_by_ino'[inos_by_path'[q]] = q
    <3>1. inos_by_path'[q] = inos_by_path[q] /\ inos_by_path[q] \in Inos
      BY <1>1, <2>1
    <3>2. paths_by_ino[inos_by_path[q]] = q
      BY <2>1, <3>1 DEF TablesInv, TablesAgree
    <3> QED BY <1>1, <1>3, <2>1, <3>1, <3>2
  <2> QED BY <2>1 DEF TablesAgree
<1>8. NumbersResolve'
  <2>1. ASSUME NEW q \in Paths, dentry'[q] # NoIno PROVE paths_by_ino'[dentry'[q]] = q
    <3>1. ~Within(q, p) /\ dentry'[q] = dentry[q] /\ dentry[q] \in Inos
      BY <1>1, <2>1 DEF TablesInv, TablesTyped
    <3>2. paths_by_ino[dentry[q]] = q
      BY <2>1, <3>1 DEF TablesInv, NumbersResolve
    <3>3. q # p
      BY <3>1, BelowByParent
    <3> QED BY <1>3, <3>1, <3>2, <3>3
  <2> QED BY <2>1 DEF NumbersResolve
<1> QED BY <1>1, <1>2, <1>4, <1>5, <1>6, <1>7, <1>8 DEF TablesInv

\* The numbers below the renamed path, in whichever order the table is rebuilt,
\* keep pointing at the names the kernel means.
LEMMA NumbersMoved ==
    ASSUME TablesInv, NEW from, NEW to, <<from, to>> \in Renames,
           Known(from), Known(Parent(to)), RenameInodes(from, to),
           dentry' = [x \in Paths |-> IF Within(x, to) THEN dentry[Rebase(x, to, from)]
                                      ELSE IF Within(x, from) THEN NoIno ELSE dentry[x]],
           shown' \in [Paths -> {"none", "file", "dir"}]
    PROVE  TablesInv' /\ next_ino' = next_ino
<1>1. /\ from \in Paths /\ to \in Paths
      /\ ~Within(from, to) /\ ~Within(to, from)
      /\ \A p \in Paths : /\ Within(p, from) => Rebase(p, from, to) \in Paths
                          /\ Within(p, to) => Rebase(p, to, from) \in Paths
  <2> DEFINE r == <<from, to>>
  <2>1. r \in Renames /\ r[1] = from /\ r[2] = to
    OBVIOUS
  <2> HIDE DEF r
  <2>2. r[1] \in Paths /\ r[2] \in Paths
    BY <2>1, InodesAssumption
  <2>3. ~Within(r[1], r[2]) /\ ~Within(r[2], r[1])
    BY <2>1, InodesAssumption
  <2>4. \A p \in Paths : /\ Within(p, r[1]) => Rebase(p, r[1], r[2]) \in Paths
                         /\ Within(p, r[2]) => Rebase(p, r[2], r[1]) \in Paths
    BY <2>1, InodesAssumption
  <2> QED BY <2>1, <2>2, <2>3, <2>4
<1> DEFINE moved == {i \in Inos : Within(paths_by_ino[i], from)}
           new(i) == Rebase(paths_by_ino[i], from, to)
<1>2. PICK last \in [{new(i) : i \in moved} -> moved] :
          /\ \A p \in DOMAIN last : new(last[p]) = p
          /\ inos_by_path' = [p \in Paths |->
                 IF p \in DOMAIN last THEN last[p]
                 ELSE IF \E i \in moved : paths_by_ino[i] = p THEN NoIno
                 ELSE inos_by_path[p]]
  BY DEF RenameInodes
<1>3. /\ paths_by_ino' = [i \in Inos |-> IF i \in moved THEN new(i) ELSE paths_by_ino[i]]
      /\ next_ino' = next_ino
  BY DEF RenameInodes
<1>4. \A i \in moved : /\ i \in Inos /\ paths_by_ino[i] \in Paths /\ Within(paths_by_ino[i], from)
                       /\ new(i) \in Paths
                       /\ i < next_ino
  <2> TAKE i \in moved
  <2>1. i \in Inos /\ Within(paths_by_ino[i], from) /\ paths_by_ino[i] \in Paths \cup {Root, Nowhere}
    BY DEF TablesInv, TablesTyped
  <2>2. paths_by_ino[i] \in Paths
    BY <1>1, <2>1, OutsideAll
  <2>3. next_ino \in Nat /\ i \in Nat
    BY InodesAssumption DEF TablesInv, TablesTyped, Inos, ROOT_INO
  <2>4. i < next_ino
    BY <1>1, <2>1, <2>3, OutsideAll DEF TablesInv, NumbersBelow
  <2> QED BY <1>1, <2>1, <2>2, <2>4
<1>5. \A p \in Paths : \/ inos_by_path'[p] \in moved /\ new(inos_by_path'[p]) = p
                       \/ inos_by_path'[p] = NoIno
                       \/ inos_by_path'[p] = inos_by_path[p] /\ ~\E i \in moved : paths_by_ino[i] = p
  BY <1>2
<1> HIDE DEF moved
<1>6. \A x \in Paths : Within(x, to) => dentry'[x] = dentry[Rebase(x, to, from)]
  OBVIOUS
<1>7. \A x \in Paths : ~Within(x, to) =>
          dentry'[x] = IF Within(x, from) THEN NoIno ELSE dentry[x]
  OBVIOUS
<1>8. \A x \in Paths : \/ dentry'[x] = NoIno
                       \/ \E y \in Paths : dentry'[x] = dentry[y]
  BY <1>1, <1>6, <1>7
<1>9. TablesTyped'
  <2>1. paths_by_ino' \in [Inos -> Paths \cup {Root, Nowhere}]
    BY <1>3, <1>4 DEF TablesInv, TablesTyped
  <2>2. inos_by_path' \in [Paths -> Inos \cup {NoIno}]
    <3>1. \A p \in Paths : inos_by_path'[p] \in Inos \cup {NoIno}
      BY <1>4, <1>5 DEF TablesInv, TablesTyped
    <3> QED BY <1>2, <3>1
  <2>3. dentry' \in [Paths -> Inos \cup {NoIno}]
    <3>1. \A x \in Paths : dentry'[x] \in Inos \cup {NoIno}
      BY <1>8 DEF TablesInv, TablesTyped
    <3> QED BY <3>1
  <2> QED BY <1>3, <2>1, <2>2, <2>3 DEF TablesInv, TablesTyped
<1>10. paths_by_ino'[ROOT_INO] = Root
  <2>1. ROOT_INO \in Inos
    BY InodesAssumption DEF Inos, ROOT_INO
  <2>2. ROOT_INO \notin moved
    BY <1>4, PathParts DEF TablesInv
  <2> QED BY <1>3, <2>1, <2>2 DEF TablesInv
<1>11. NumbersBelow'
  <2>1. NoIno < next_ino
    BY InodesAssumption DEF TablesInv, TablesTyped, NoIno, Inos, ROOT_INO
  <2>2. \A p \in Paths : inos_by_path'[p] < next_ino
    BY <1>4, <1>5, <2>1 DEF TablesInv, NumbersBelow
  <2>3. \A p \in Paths : dentry'[p] < next_ino
    BY <1>8, <2>1 DEF TablesInv, NumbersBelow
  <2>4. \A i \in Inos : next_ino <= i => paths_by_ino'[i] = Nowhere
    <3>1. \A i \in Inos : next_ino <= i => i \notin moved
      BY <1>4, InodesAssumption DEF TablesInv, TablesTyped, NumbersBelow, Inos, ROOT_INO
    <3> QED BY <1>3, <3>1 DEF TablesInv, NumbersBelow
  <2> QED BY <1>3, <2>2, <2>3, <2>4 DEF NumbersBelow
<1>12. TablesAgree'
  <2>1. ASSUME NEW p \in Paths, inos_by_path'[p] # NoIno PROVE paths_by_ino'[inos_by_path'[p]] = p
    <3>1. CASE inos_by_path'[p] \in moved /\ new(inos_by_path'[p]) = p
      BY <1>3, <1>4, <3>1
    <3>2. CASE inos_by_path'[p] = inos_by_path[p] /\ ~\E i \in moved : paths_by_ino[i] = p
      <4>1. inos_by_path[p] \in Inos /\ paths_by_ino[inos_by_path[p]] = p
        BY <2>1, <3>2 DEF TablesInv, TablesTyped, TablesAgree
      <4> QED BY <1>3, <3>2, <4>1
    <3> QED BY <1>5, <2>1, <3>1, <3>2
  <2> QED BY <2>1 DEF TablesAgree
<1>13. NumbersResolve'
  <2>1. ASSUME NEW x \in Paths, dentry'[x] # NoIno PROVE paths_by_ino'[dentry'[x]] = x
    <3>1. CASE Within(x, to)
      <4> DEFINE y == Rebase(x, to, from)
      <4>1. y \in Paths /\ Within(y, from) /\ Rebase(y, from, to) = x
        BY <1>1, <3>1, RebaseThereAndBack
      <4> HIDE DEF y
      <4>2. dentry'[x] = dentry[y]
        BY <1>6, <3>1 DEF y
      <4>3. dentry[y] \in Inos /\ paths_by_ino[dentry[y]] = y
        BY <2>1, <4>1, <4>2 DEF TablesInv, TablesTyped, NumbersResolve
      <4>4. dentry[y] \in moved
        BY <4>1, <4>3 DEF moved
      <4> QED BY <1>3, <4>1, <4>2, <4>3, <4>4
    <3>2. CASE ~Within(x, to)
      <4>1. ~Within(x, from) /\ dentry'[x] = dentry[x]
        BY <1>7, <2>1, <3>2
      <4>2. dentry[x] \in Inos /\ paths_by_ino[dentry[x]] = x
        BY <2>1, <4>1 DEF TablesInv, TablesTyped, NumbersResolve
      <4>3. dentry[x] \notin moved
        BY <4>1, <4>2 DEF moved
      <4> QED BY <1>3, <4>1, <4>2, <4>3
    <3> QED BY <3>1, <3>2
  <2> QED BY <2>1 DEF NumbersResolve
<1>14. KnownAbove'
  <2>1. ASSUME NEW x \in Paths, dentry[x] # NoIno, Parent(x) # Root
        PROVE  Parent(x) \in Paths /\ dentry[Parent(x)] # NoIno
    BY <2>1 DEF TablesInv, KnownAbove, Known
  <2>2. ASSUME NEW x \in Paths, dentry'[x] # NoIno, Parent(x) # Root
        PROVE  Parent(x) \in Paths /\ dentry'[Parent(x)] # NoIno
    <3>1. Parent(x) \in Paths
      BY <2>2, PathParts
    <3>2. CASE x = to
      <4>1. ~Within(Parent(x), to)
        <5>1. ~Below(to, to)
          BY <1>1, PathParts DEF Below
        <5> QED BY <1>1, <3>2, <5>1, BelowByParent
      <4>2. ~Within(Parent(x), from)
        BY <1>1, <3>2, BelowByParent DEF Within
      <4>3. dentry'[Parent(x)] = dentry[Parent(x)]
        BY <1>7, <3>1, <4>1, <4>2
      <4> QED BY <2>2, <3>1, <3>2, <4>3 DEF Known
    <3>3. CASE Within(x, to) /\ x # to
      <4> DEFINE y == Rebase(x, to, from)
      <4>1. /\ y \in Paths /\ Below(y, from)
            /\ Rebase(Parent(x), to, from) = Parent(y)
        BY <1>1, <3>3, RebaseThereAndBack
      <4> HIDE DEF y
      <4>2. Within(Parent(x), to)
        BY <1>1, <3>3, BelowByParent DEF Within
      <4>3. dentry'[x] = dentry[y] /\ dentry'[Parent(x)] = dentry[Parent(y)]
        BY <1>6, <3>1, <3>3, <4>1, <4>2 DEF y
      <4>4. Within(Parent(y), from)
        BY <1>1, <4>1, BelowByParent
      <4>5. Parent(y) # Root
        BY <1>1, <4>4, OutsideAll
      <4> QED BY <2>1, <2>2, <3>1, <4>1, <4>3, <4>5
    <3>4. CASE ~Within(x, to)
      <4>1. ~Within(x, from) /\ dentry'[x] = dentry[x]
        BY <1>7, <2>2, <3>4
      <4>2. ~Within(Parent(x), to) /\ ~Within(Parent(x), from)
        BY <1>1, <3>4, <4>1, BelowByParent DEF Within
      <4>3. dentry'[Parent(x)] = dentry[Parent(x)]
        BY <1>7, <3>1, <4>2
      <4> QED BY <2>1, <2>2, <4>1, <4>3
    <3> QED BY <3>2, <3>3, <3>4
  <2> QED BY <2>2, PathParts DEF KnownAbove, Known
<1> QED BY <1>3, <1>9, <1>10, <1>11, <1>12, <1>13, <1>14 DEF TablesInv

------------------------------------------------------------------------------
(* The steps *)

\* One path is a sequence to give numbers to.
LEMMA OnePath ==
    ASSUME NEW p \in Paths
    PROVE  <<p>> \in Seq(Paths \cup {Root})
OBVIOUS

\* Every request keeps the tables, and takes no number back.
LEMMA RequestTables ==
    ASSUME TablesInv, Request
    PROVE  TablesInv' /\ next_ino <= next_ino'
<1>0. shown \in [Paths -> {"none", "file", "dir"}] /\ next_ino <= next_ino
  BY InodesAssumption DEF TablesInv, TablesTyped, Inos, ROOT_INO
<1>1. ASSUME NEW p \in Paths, Lookup(p) PROVE TablesInv' /\ next_ino <= next_ino'
  <2>1. Known(Parent(p)) /\ ChildPath(p) = p /\ shown' = shown
    BY <1>1, ChildPathIs DEF Lookup
  <2>2. CASE shown[p] # "none"
    <3>1. InodesFor(<<p>>) /\ dentry' = [dentry EXCEPT ![p] = inos_by_path'[p]]
      BY <1>1, <2>1, <2>2 DEF Lookup
    <3> QED BY <1>0, <2>1, <3>1, OnePath, NumbersGiven
  <2>3. CASE shown[p] = "none"
    <3>1. Drop(p) /\ UNCHANGED tables
      BY <1>1, <2>1, <2>3 DEF Lookup
    <3>2. TablesInv' /\ next_ino' = next_ino
      BY <1>0, <2>1, <3>1, NameDropped
    <3> QED BY <1>0, <3>2
  <2> QED BY <2>2, <2>3
<1>2. ASSUME NEW p \in Paths, Make(p) PROVE TablesInv' /\ next_ino <= next_ino'
  <2>1. Known(Parent(p)) /\ ChildPath(p) = p
    BY <1>2, ChildPathIs DEF Make
  <2>2. /\ InodesFor(<<p>>) /\ dentry' = [dentry EXCEPT ![p] = inos_by_path'[p]]
        /\ shown' = [shown EXCEPT ![p] = IF p \in DirPaths THEN "dir" ELSE "file"]
    BY <1>2, <2>1 DEF Make
  <2>3. shown' \in [Paths -> {"none", "file", "dir"}]
    BY <1>0, <2>2
  <2> QED BY <2>1, <2>2, <2>3, OnePath, NumbersGiven
<1>3. ASSUME NEW p \in Paths, Unmake(p) PROVE TablesInv' /\ next_ino <= next_ino'
  <2>1. Known(Parent(p)) /\ ChildPath(p) = p
    BY <1>3, ChildPathIs DEF Unmake
  <2>2. RemoveInode(p) /\ Drop(p) /\ shown' = [shown EXCEPT ![p] = "none"]
    BY <1>3, <2>1 DEF Unmake
  <2>3. shown' \in [Paths -> {"none", "file", "dir"}]
    BY <1>0, <2>2
  <2>4. TablesInv' /\ next_ino' = next_ino
    BY <2>2, <2>3, NameDropped
  <2> QED BY <1>0, <2>4
<1>4. ASSUME NEW p \in Paths, Vanish(p) PROVE TablesInv' /\ next_ino <= next_ino'
  <2>1. UNCHANGED <<paths_by_ino, inos_by_path, next_ino, dentry>>
    BY <1>4 DEF Vanish, tables
  <2>2. shown' \in [Paths -> {"none", "file", "dir"}]
    BY <1>0, <1>4 DEF Vanish
  <2> QED BY <1>0, <2>1, <2>2
          DEF TablesInv, TablesTyped, NumbersBelow, KnownAbove, Known, TablesAgree, NumbersResolve
<1>5. ASSUME NEW p \in Paths, Forget(p) PROVE TablesInv' /\ next_ino <= next_ino'
  <2>1. Drop(p) /\ UNCHANGED tables /\ shown' = shown
    BY <1>5 DEF Forget
  <2>2. TablesInv' /\ next_ino' = next_ino
    BY <1>0, <2>1, NameDropped
  <2> QED BY <1>0, <2>2
<1>6. ASSUME NEW i \in Inos, Getattr(i) PROVE TablesInv' /\ next_ino <= next_ino'
  <2>1. paths_by_ino[i] \in Paths /\ InodesFor(<<paths_by_ino[i]>>) /\ dentry' = dentry /\ shown' = shown
    BY <1>6 DEF Getattr
  <2> QED BY <1>0, <2>1, OnePath, NumbersGiven
<1>7. ASSUME NEW r \in Renames, Rename(r[1], r[2]) PROVE TablesInv' /\ next_ino <= next_ino'
  <2> DEFINE p == r[1]
             to == r[2]
  <2>1. p \in Paths /\ to \in Paths
    BY InodesAssumption
  <2> HIDE DEF p, to
  <2>2. Rename(p, to)
    BY <1>7 DEF p, to
  <2>3. <<p, to>> \in Renames /\ Known(p) /\ Known(Parent(to))
    BY <2>2 DEF Rename
  <2>4. Known(Parent(p))
    BY <2>1, <2>3 DEF TablesInv, KnownAbove
  <2>5. ChildPath(p) = p /\ ChildPath(to) = to
    BY <2>1, <2>3, <2>4, ChildPathIs
  <2>6. /\ RenameInodes(p, to)
        /\ shown' = [x \in Paths |-> IF Within(x, to) THEN shown[Rebase(x, to, p)]
                                     ELSE IF Within(x, p) THEN "none" ELSE shown[x]]
        /\ dentry' = [x \in Paths |-> IF Within(x, to) THEN dentry[Rebase(x, to, p)]
                                      ELSE IF Within(x, p) THEN NoIno ELSE dentry[x]]
    BY <2>2, <2>5 DEF Rename
  <2>7. \A x \in Paths : Within(x, to) => Rebase(x, to, p) \in Paths
    BY InodesAssumption DEF p, to
  <2>8. shown' \in [Paths -> {"none", "file", "dir"}]
    BY <1>0, <2>6, <2>7
  <2>9. TablesInv' /\ next_ino' = next_ino
    BY <2>3, <2>6, <2>8, NumbersMoved
  <2> QED BY <1>0, <2>9
<1> QED BY <1>1, <1>2, <1>3, <1>4, <1>5, <1>6, <1>7 DEF Request

\* The names have an order, so there are finitely many.
LEMMA NamesFinite == IsFiniteSet(Names)
<1> DEFINE n == Len(Order)
<1>1. n \in Nat /\ Order \in [1..n -> Names]
  BY InodesAssumption
<1>2. \A x \in Names : \E i \in 1..n : Order[i] = x
  BY InodesAssumption
<1> HIDE DEF n
<1>3. Order \in Surjection(1..n, Names)
  BY <1>1, <1>2 DEF Surjection
<1>4. IsFiniteSet(1..n)
  BY <1>1, FS_Interval
<1> QED BY <1>3, <1>4, FS_Surjection

\* A listing gives numbers to the parent of its directory and to its children.
LEMMA ListingPathsTyped ==
    ASSUME NEW dir \in Paths \cup {Root}, NEW names \in Sorted(Children(dir))
    PROVE  /\ names \in Seq(Names) /\ Len(names) = Cardinality(Children(dir))
           /\ ListingPaths(dir, names) \in Seq(Paths \cup {Root})
<1>1. ASSUME NEW n \in Children(dir) PROVE n \in Names /\ Append(dir, n) \in Paths
  <2>1. PICK p \in Paths : Parent(p) = dir /\ p[Len(p)] = n
    BY <1>1 DEF Children, ChildrenIn
  <2> QED BY <2>1, PathParts
<1>2. IsFiniteSet(Children(dir))
  <2>1. IsFiniteSet(Names)
    BY NamesFinite
  <2>2. Children(dir) \in SUBSET Names
    BY <1>1
  <2> QED BY <2>1, <2>2, FS_Subset
<1> DEFINE n == Cardinality(Children(dir))
<1>3. n \in Nat
  BY <1>2, FS_CardinalityType
<1> HIDE DEF n
<1>4. names \in [1..n -> Children(dir)]
  BY DEF Sorted, n
<1>5. names \in Seq(Names) /\ Len(names) = n
  BY <1>1, <1>3, <1>4
<1>6. [i \in 1..Len(names) |-> Append(dir, names[i])] \in Seq(Paths \cup {Root})
  BY <1>1, <1>3, <1>4, <1>5
<1>7. (IF dir = Root THEN <<>> ELSE <<Parent(dir)>>) \in Seq(Paths \cup {Root})
  <2>1. CASE dir = Root
    BY <2>1
  <2>2. CASE dir # Root
    <3>1. Parent(dir) \in Paths \cup {Root}
      BY <2>2, PathParts
    <3> QED BY <2>2, <3>1
  <2> QED BY <2>1, <2>2
<1> QED BY <1>5, <1>6, <1>7, ConcatProperties DEF ListingPaths, n

\* The directory of an open listing, when it still has a path.
LEMMA ListedTyped ==
    ASSUME TablesInv, ListingTyped, listing.ino # NoIno
    PROVE  listing.ino \in Inos /\ ListedPath \in Paths \cup {Root, Nowhere}
BY DEF TablesInv, TablesTyped, ListingTyped, ListedPath

\* What one call of readdir does to the tables and to the listing.
LEMMA ReaddirStep ==
    ASSUME TablesInv, ListingTyped, Readdir
    PROVE  /\ TablesInv' /\ next_ino <= next_ino'
           /\ ListedPath' = ListedPath /\ ListedPath \in Paths \cup {Root}
           /\ listing.ino # NoIno /\ shown' = shown
           /\ \E names \in Sorted(Children(ListedPath)) :
                 /\ names \in Seq(Names) /\ Len(names) = Cardinality(Children(ListedPath))
                 /\ LET reply == Reply(<<".", "..">> \o names, listing.offset)
                    IN  listing' = [listing EXCEPT !.offset = NextOffset(@, Len(reply)),
                                                   !.names = @ \o reply,
                                                   !.ended = reply = <<>>]
<1>1. listing.ino \in Inos /\ ListedPath \in Paths \cup {Root}
  BY ListedTyped DEF Readdir
<1>2. PICK names \in Sorted(Children(ListedPath)) :
         /\ InodesFor(ListingPaths(ListedPath, names))
         /\ LET reply == Reply(<<".", "..">> \o names, listing.offset)
            IN  listing' = [listing EXCEPT !.offset = NextOffset(@, Len(reply)),
                                           !.names = @ \o reply,
                                           !.ended = reply = <<>>]
  BY DEF Readdir
<1>3. /\ names \in Seq(Names) /\ Len(names) = Cardinality(Children(ListedPath))
      /\ ListingPaths(ListedPath, names) \in Seq(Paths \cup {Root})
  BY <1>1, ListingPathsTyped
<1>4. shown' = shown /\ dentry' = dentry /\ shown \in [Paths -> {"none", "file", "dir"}]
  BY DEF Readdir, TablesInv, TablesTyped
<1>5. TablesInv' /\ next_ino <= next_ino'
  BY <1>2, <1>3, <1>4, NumbersGiven
<1>6. ListedPath' = ListedPath
  <2>1. \A i \in Inos : i < next_ino => paths_by_ino'[i] = paths_by_ino[i]
    BY <1>2, <1>3, InodesForTables DEF TablesInv
  <2>2. listing'.ino = listing.ino
    BY <1>2 DEF ListingTyped
  <2> QED BY <1>1, <2>1, <2>2 DEF ListedPath, ListingTyped
<1> QED BY <1>1, <1>2, <1>3, <1>4, <1>5, <1>6 DEF Readdir

\* What fits into a reply.
LEMMA ReplyParts ==
    ASSUME NEW S, NEW entries \in Seq(S), NEW offset \in Nat
    PROVE  LET reply == Reply(entries, offset)
           IN  /\ reply \in Seq(S)
               /\ Len(reply) \in Nat
               /\ \A i \in 1..Len(reply) : offset + i \in 1..Len(entries) /\ reply[i] = entries[offset + i]
               /\ reply = <<>> => Len(entries) <= offset
<1> DEFINE last == IF offset + MaxReply < Len(entries) THEN offset + MaxReply ELSE Len(entries)
           reply == SubSeq(entries, offset + 1, last)
<1>1. Len(entries) \in Nat /\ MaxReply \in Nat \ {0}
  BY LenProperties, InodesAssumption
<1>2. last \in Nat /\ last <= Len(entries)
  BY <1>1
<1>3. last <= offset => Len(entries) <= offset
  BY <1>1
<1> HIDE DEF last
<1>4. \A i \in offset + 1 .. last : entries[i] \in S
  <2>1. \A i \in offset + 1 .. last : i \in 1..Len(entries)
    BY <1>1, <1>2
  <2> QED BY <2>1, ElementOfSeq
<1>5. /\ reply \in Seq(S)
      /\ Len(reply) = IF offset + 1 <= last THEN last - (offset + 1) + 1 ELSE 0
      /\ \A i \in 1 .. last - (offset + 1) + 1 : reply[i] = entries[offset + 1 + i - 1]
  BY <1>2, <1>4, SubSeqProperties
<1> HIDE DEF reply
<1>6. \A i \in 1..Len(reply) : /\ i \in 1 .. last - (offset + 1) + 1
                              /\ offset + 1 + i - 1 = offset + i
                              /\ offset + i \in 1..Len(entries)
  BY <1>1, <1>2, <1>5
<1>7. Len(reply) \in Nat
  BY <1>5, LenProperties
<1>8. reply = <<>> => Len(entries) <= offset
  BY <1>2, <1>3, <1>5
<1> QED BY <1>5, <1>6, <1>7, <1>8 DEF Reply, reply, last

\* The entries of a listing: the directory itself, its parent, its children.
LEMMA EntriesOf ==
    ASSUME NEW names \in Seq(Names)
    PROVE  LET entries == <<".", "..">> \o names
           IN  /\ entries \in Seq(Names \cup {".", ".."})
               /\ Len(entries) = Len(names) + 2
               /\ \A i \in 1..Len(entries) :
                     entries[i] = IF i = 1 THEN "." ELSE IF i = 2 THEN ".." ELSE names[i - 2]
<1> DEFINE S == Names \cup {".", ".."}
           dots == <<".", "..">>
<1>1. names \in Seq(S) /\ dots \in Seq(S) /\ Len(dots) = 2 /\ dots[1] = "." /\ dots[2] = ".."
  BY SeqMonotonic
<1>2. Len(names) \in Nat
  BY LenProperties
<1> HIDE DEF dots
<1>3. /\ dots \o names \in Seq(S)
      /\ Len(dots \o names) = Len(dots) + Len(names)
      /\ \A i \in 1 .. Len(dots) + Len(names) :
            (dots \o names)[i] = IF i <= Len(dots) THEN dots[i] ELSE names[i - Len(dots)]
  BY <1>1, ConcatProperties
<1>4. \A i \in 1 .. Len(names) + 2 :
          (dots \o names)[i] = IF i = 1 THEN "." ELSE IF i = 2 THEN ".." ELSE names[i - 2]
  BY <1>1, <1>2, <1>3
<1> QED BY <1>1, <1>2, <1>3, <1>4 DEF dots

\* The tables and the type of a listing survive every step.
LEMMA TablesStep ==
    ASSUME TablesInv, ListingTyped, [Next]_inodeVars
    PROVE  TablesInv' /\ ListingTyped'
<1>0. /\ next_ino \in Nat /\ NoIno < next_ino
      /\ \A dir : Children(dir) \in SUBSET Names
  <2>1. ASSUME NEW dir, NEW n \in Children(dir) PROVE n \in Names
    BY <2>1, PathParts DEF Children, ChildrenIn
  <2> QED BY <2>1, InodesAssumption DEF TablesInv, TablesTyped, NoIno, Inos, ROOT_INO
<1>1. CASE Request /\ Watch
  <2>1. TablesInv' /\ next_ino <= next_ino'
    BY <1>1, RequestTables
  <2>2. \A dir : ChildrenIn(shown', dir) \in SUBSET Names
    BY PathParts DEF ChildrenIn
  <2>3. /\ listing.ino < next_ino'
        /\ next_ino' \in Nat
    BY <1>0, <2>1, InodesAssumption
       DEF ListingTyped, TablesInv, TablesTyped, NoIno, Inos, ROOT_INO
  <2>4. CASE listing.ino = NoIno
    BY <1>1, <2>1, <2>3, <2>4 DEF Watch, ListingTyped
  <2>5. CASE listing.ino # NoIno
    <3> DEFINE before == Children(ListedPath)
               after == ChildrenIn(shown', paths_by_ino'[listing.ino])
    <3>1. before \in SUBSET Names /\ after \in SUBSET Names
      BY <1>0, <2>2
    <3>2. listing' = [listing EXCEPT !.touched = @ \cup (before \ after) \cup (after \ before)]
      BY <1>1, <2>5 DEF Watch
    <3> HIDE DEF before, after
    <3> QED BY <2>1, <2>3, <3>1, <3>2 DEF ListingTyped
  <2> QED BY <2>4, <2>5
<1>2. ASSUME NEW p \in DirPaths \cup {Root}, Opendir(p), UNCHANGED <<shown, tables, dentry>>
      PROVE  TablesInv' /\ ListingTyped'
  <2>1. UNCHANGED <<shown, paths_by_ino, inos_by_path, next_ino, dentry>>
    BY <1>2 DEF tables
  <2>2. TablesInv'
    BY <2>1 DEF TablesInv, TablesTyped, NumbersBelow, KnownAbove, Known, TablesAgree, NumbersResolve
  <2>3. Number(p) \in Inos /\ Number(p) < next_ino
    <3>1. ROOT_INO \in Inos /\ ROOT_INO < next_ino
      <4>1. ROOT_INO \in Inos /\ ROOT_INO \in Nat
        BY InodesAssumption DEF Inos, ROOT_INO
      <4>2. paths_by_ino[ROOT_INO] # Nowhere
        BY DEF TablesInv, Root, Nowhere
      <4> QED BY <1>0, <4>1, <4>2 DEF TablesInv, NumbersBelow
    <3>2. p # Root => dentry[p] \in Inos /\ dentry[p] < next_ino
      BY <1>2 DEF Opendir, Known, TablesInv, TablesTyped, NumbersBelow
    <3> QED BY <3>1, <3>2 DEF Number
  <2>4. listing' = [ino |-> Number(p), offset |-> 0, names |-> <<>>, ended |-> FALSE, touched |-> {}]
    BY <1>2 DEF Opendir, Closed
  <2>5. ListingTyped'
    BY <2>1, <2>3, <2>4 DEF ListingTyped
  <2> QED BY <2>2, <2>5
<1>3. CASE Readdir
  <2>1. TablesInv' /\ next_ino <= next_ino' /\ listing.ino < next_ino'
    <3>1. TablesInv' /\ next_ino <= next_ino'
      BY <1>3, ReaddirStep
    <3>2. next_ino' \in Nat
      BY <3>1, InodesAssumption DEF TablesInv, TablesTyped, Inos, ROOT_INO
    <3>3. listing.ino \in Nat /\ listing.ino < next_ino
      BY DEF ListingTyped, NoIno, Inos, ROOT_INO
    <3> QED BY <1>0, <3>1, <3>2, <3>3
  <2>2. PICK names \in Seq(Names) :
           LET reply == Reply(<<".", "..">> \o names, listing.offset)
           IN  listing' = [listing EXCEPT !.offset = NextOffset(@, Len(reply)),
                                          !.names = @ \o reply,
                                          !.ended = reply = <<>>]
    BY <1>3, ReaddirStep
  <2> DEFINE reply == Reply(<<".", "..">> \o names, listing.offset)
             S == Names \cup {".", ".."}
  <2>3. listing.offset \in Nat /\ listing.names \in Seq(S)
    BY DEF ListingTyped
  <2>4. reply \in Seq(S) /\ Len(reply) \in Nat
    BY <2>3, EntriesOf, ReplyParts
  <2>5. listing' = [listing EXCEPT !.offset = NextOffset(@, Len(reply)),
                                   !.names = @ \o reply,
                                   !.ended = reply = <<>>]
    BY <2>2
  <2> HIDE DEF reply
  <2>6. listing.names \o reply \in Seq(S) /\ listing.offset + Len(reply) \in Nat
    BY <2>3, <2>4, ConcatProperties
  <2> QED BY <2>1, <2>5, <2>6 DEF ListingTyped, NextOffset
<1>4. CASE Closedir
  <2>1. UNCHANGED <<shown, paths_by_ino, inos_by_path, next_ino, dentry>>
    BY <1>4 DEF Closedir, tables
  <2>2. TablesInv'
    BY <2>1 DEF TablesInv, TablesTyped, NumbersBelow, KnownAbove, Known, TablesAgree, NumbersResolve
  <2>3. listing' = [ino |-> NoIno, offset |-> 0, names |-> <<>>, ended |-> FALSE, touched |-> {}]
    BY <1>4 DEF Closedir, Closed
  <2> QED BY <1>0, <2>1, <2>2, <2>3 DEF ListingTyped
<1>5. CASE UNCHANGED inodeVars
  BY <1>5 DEF inodeVars, tables, TablesInv, TablesTyped, NumbersBelow, KnownAbove, Known,
              TablesAgree, NumbersResolve, ListingTyped
<1> QED BY <1>1, <1>2, <1>3, <1>4, <1>5 DEF Next

\* At the start no name has a number but the root.
LEMMA TablesInit ==
    ASSUME Init
    PROVE  TablesInv /\ ListingTyped
<1>1. MaxIno \in Nat \ {0} /\ ROOT_INO \in Inos /\ ROOT_INO + 1 \in Inos \cup {MaxIno + 1}
  BY InodesAssumption DEF Inos, ROOT_INO
<1>2. TablesTyped /\ paths_by_ino[ROOT_INO] = Root
  BY <1>1 DEF Init, TablesTyped, NoIno
<1>3. NumbersBelow
  BY <1>1 DEF Init, NumbersBelow, NoIno, ROOT_INO, Inos
<1>4. KnownAbove /\ TablesAgree /\ NumbersResolve
  <2>1. \A p \in Paths : inos_by_path[p] = NoIno /\ dentry[p] = NoIno
    BY DEF Init
  <2> QED BY <2>1, PathParts DEF KnownAbove, Known, TablesAgree, NumbersResolve
<1>5. ListingTyped
  BY <1>1 DEF Init, ListingTyped, Closed, NoIno, ROOT_INO
<1> QED BY <1>2, <1>3, <1>4, <1>5 DEF TablesInv

\* The invariant holds in every reachable state.
LEMMA TablesAlways == Spec => [](TablesInv /\ ListingTyped)
<1>1. Init => TablesInv /\ ListingTyped
  BY TablesInit
<1>2. TablesInv /\ ListingTyped /\ [Next]_inodeVars => (TablesInv /\ ListingTyped)'
  BY TablesStep
<1> QED BY <1>1, <1>2, PTL DEF Spec

\* Every state is typed: each number has a path of the namespace, the root's or
\* none, however often names were given up and taken again (src/fuse_fs.rs,
\* the tables of DevFuse).
THEOREM InodesTyped == Spec => []TypeOK
<1>1. TablesInv /\ ListingTyped => TypeOK
  BY DEF TablesInv, TablesTyped, ListingTyped, TypeOK
<1> QED BY <1>1, TablesAlways, PTL

\* The number of a path is the number of that path: no two names share one
\* (inode_for_path, remove_inode_for_path, rename_inode_paths).
THEOREM TablesAlwaysAgree == Spec => []TablesAgree
<1>1. TablesInv => TablesAgree
  BY DEF TablesInv
<1> QED BY <1>1, TablesAlways, PTL

\* The number the kernel holds for a name leads the handlers to that name,
\* through renames of its ancestors, removals, expiries and reuse.
THEOREM NumbersAlwaysResolve == Spec => []NumbersResolve
<1>1. TablesInv => NumbersResolve
  BY DEF TablesInv
<1> QED BY <1>1, TablesAlways, PTL

------------------------------------------------------------------------------
(* Listings *)

\* The order of names is strict.
LEMMA BeforeStrict ==
    ASSUME NEW m, NEW n, Before(m, n)
    PROVE  m # n /\ ~Before(n, m)
<1>1. PICK i, j \in 1..Len(Order) : i < j /\ Order[i] = m /\ Order[j] = n
  BY DEF Before
<1>2. Len(Order) \in Nat
  BY InodesAssumption
<1>3. \A k, l \in 1..Len(Order) : Order[k] = Order[l] => k = l
  BY InodesAssumption
<1>4. m # n
  BY <1>1, <1>2, <1>3
<1>5. ASSUME NEW k \in 1..Len(Order), NEW l \in 1..Len(Order), k < l, Order[k] = n, Order[l] = m
      PROVE  FALSE
  <2>1. k = j /\ l = i
    BY <1>1, <1>3, <1>5
  <2> QED BY <1>1, <1>2, <1>5, <2>1
<1> QED BY <1>4, <1>5 DEF Before

\* In the sequence of a set in order, each member stands behind as many as the
\* set has before it, and nowhere else.
LEMMA SortedPlaces ==
    ASSUME NEW S, IsFiniteSet(S), NEW s \in Sorted(S), NEW n \in S
    PROVE  /\ Rank(n, S) \in 0..Cardinality(S) - 1
           /\ \A k \in 1..Cardinality(S) : s[k] = n <=> k = Rank(n, S) + 1
<1> DEFINE len == Cardinality(S)
<1>1. len \in Nat
  BY FS_CardinalityType
<1>2. s \in [1..len -> S] /\ \A i, j \in 1..len : i < j => Before(s[i], s[j])
  BY DEF Sorted
<1>3. IsFiniteSet(1..len) /\ Cardinality(1..len) = Cardinality(S)
  <2>1. len \in Int /\ 1 \in Int
    BY <1>1
  <2>2. IsFiniteSet(1..len) /\ Cardinality(1..len) = IF 1 > len THEN 0 ELSE len - 1 + 1
    BY <2>1, FS_Interval
  <2>3. Cardinality(1..len) = len
    <3> HIDE DEF len
    <3> QED BY <1>1, <2>2
  <2> QED BY <2>2, <2>3
<1> HIDE DEF len
<1>4. \A i, j \in 1..len : s[i] = s[j] => i = j
  <2>1. ASSUME NEW i \in 1..len, NEW j \in 1..len, i < j PROVE s[i] # s[j]
    BY <1>2, <2>1, BeforeStrict
  <2>2. \A i, j \in 1..len : i = j \/ i < j \/ j < i
    BY <1>1
  <2> QED BY <2>1, <2>2
<1>5. \A m \in S : \E i \in 1..len : s[i] = m
  <2>1. s \in Injection(1..len, S)
    BY <1>2, <1>4 DEF Injection, IsInjective
  <2>2. s \in Surjection(1..len, S)
    BY <1>3, <2>1, FS_Injection
  <2> QED BY <2>2 DEF Surjection
<1>6. PICK k \in 1..len : s[k] = n
  BY <1>5
<1> DEFINE earlier == {m \in S : Before(m, n)}
           f == [j \in 1 .. k - 1 |-> s[j]]
<1>7. \A j \in 1 .. k - 1 : j \in 1..len /\ j < k
  BY <1>1, <1>6
<1>8. \A m \in earlier : \E j \in 1 .. k - 1 : s[j] = m
  <2> TAKE m \in earlier
  <2>1. PICK j \in 1..len : s[j] = m
    BY <1>5
  <2>2. j # k /\ ~Before(s[k], s[j])
    BY <1>6, <2>1, BeforeStrict
  <2>3. ~(k < j)
    BY <1>2, <1>6, <2>2
  <2>4. j \in 1 .. k - 1
    BY <1>1, <1>6, <2>2, <2>3
  <2> QED BY <2>1, <2>4
<1>9. f \in Bijection(1 .. k - 1, earlier)
  <2>1. \A j \in 1 .. k - 1 : s[j] \in earlier
    BY <1>2, <1>6, <1>7
  <2>2. \A i, j \in 1 .. k - 1 : s[i] = s[j] => i = j
    BY <1>4, <1>7
  <2> HIDE DEF earlier
  <2>3. f \in [1 .. k - 1 -> earlier]
    BY <2>1
  <2>4. f \in Injection(1 .. k - 1, earlier)
    BY <2>2, <2>3 DEF Injection, IsInjective
  <2>5. f \in Surjection(1 .. k - 1, earlier)
    BY <1>8, <2>3 DEF Surjection
  <2> QED BY <2>4, <2>5 DEF Bijection
<1>10. Cardinality(earlier) = k - 1
  <2>1. k - 1 \in Nat
    BY <1>1, <1>6
  <2>2. ExistsBijection(1 .. k - 1, earlier)
    BY <1>9 DEF ExistsBijection
  <2> HIDE DEF earlier
  <2> QED BY <2>1, <2>2, FS_CountingElements
<1>11. Rank(n, S) = k - 1
  BY <1>10 DEF Rank
<1>12. Rank(n, S) + 1 = k /\ Rank(n, S) \in 0..len - 1
  BY <1>1, <1>6, <1>11
<1>13. \A i \in 1..len : s[i] = n <=> i = k
  BY <1>4, <1>6
<1> QED BY <1>12, <1>13 DEF len

\* The children of a directory are finitely many names.
LEMMA ChildrenFinite ==
    ASSUME NEW dir
    PROVE  Children(dir) \in SUBSET Names /\ IsFiniteSet(Children(dir))
<1>1. Children(dir) \in SUBSET Names
  BY PathParts DEF Children, ChildrenIn
<1> QED BY <1>1, NamesFinite, FS_Subset

\* A call of readdir: the reply continues the listing where the last one ended.
LEMMA ReaddirListing ==
    ASSUME TablesInv, ListingTyped, ListingInv, Readdir
    PROVE  ListingInv'
<1> DEFINE C == Children(ListedPath)
           S == Names \cup {".", ".."}
<1>1. /\ ListedPath' = ListedPath /\ ListedPath \in Paths \cup {Root}
      /\ listing.ino # NoIno /\ shown' = shown
  BY ReaddirStep
<1>2. PICK names \in Sorted(C) :
         /\ names \in Seq(Names) /\ Len(names) = Cardinality(C)
         /\ LET reply == Reply(<<".", "..">> \o names, listing.offset)
            IN  listing' = [listing EXCEPT !.offset = NextOffset(@, Len(reply)),
                                           !.names = @ \o reply,
                                           !.ended = reply = <<>>]
  BY ReaddirStep
<1> DEFINE entries == <<".", "..">> \o names
           reply == Reply(entries, listing.offset)
<1>3. listing' = [listing EXCEPT !.offset = NextOffset(@, Len(reply)),
                                 !.names = @ \o reply,
                                 !.ended = reply = <<>>]
  BY <1>2
<1>4. /\ entries \in Seq(S) /\ Len(entries) = Len(names) + 2
      /\ \A i \in 1..Len(entries) :
            entries[i] = IF i = 1 THEN "." ELSE IF i = 2 THEN ".." ELSE names[i - 2]
  BY <1>2, EntriesOf
<1> HIDE DEF entries
<1>5. listing.offset \in Nat /\ listing.names \in Seq(S) /\ Len(listing.names) = listing.offset
  BY <1>1 DEF ListingTyped, ListingInv
<1>6. /\ reply \in Seq(S) /\ Len(reply) \in Nat
      /\ \A i \in 1..Len(reply) : /\ listing.offset + i \in 1..Len(entries)
                                  /\ reply[i] = entries[listing.offset + i]
      /\ reply = <<>> => Len(entries) <= listing.offset
  BY <1>4, <1>5, ReplyParts
<1> HIDE DEF reply
<1>7. /\ listing'.ino = listing.ino /\ listing'.touched = listing.touched
      /\ listing'.offset = listing.offset + Len(reply)
      /\ listing'.names = listing.names \o reply
      /\ listing'.ended = (reply = <<>>)
  BY <1>3 DEF ListingTyped, NextOffset
<1>8. /\ Len(listing'.names) = listing'.offset
      /\ listing'.offset \in Nat
      /\ \A i \in 1..listing'.offset :
            listing'.names[i] = IF i <= listing.offset THEN listing.names[i]
                                                        ELSE reply[i - listing.offset]
  <2>1. /\ Len(listing.names \o reply) = Len(listing.names) + Len(reply)
        /\ \A i \in 1 .. Len(listing.names) + Len(reply) :
              (listing.names \o reply)[i] = IF i <= Len(listing.names) THEN listing.names[i]
                                            ELSE reply[i - Len(listing.names)]
    BY <1>5, <1>6, ConcatProperties
  <2> QED BY <1>5, <1>6, <1>7, <2>1
<1>9. Children(ListedPath)' = C /\ Steady' = Steady
  BY <1>1, <1>7 DEF Steady, Children
<1>10. ASSUME NEW n \in Steady
       PROVE  LET place == Place(n, C)
              IN  /\ \A i \in 1..listing'.offset : listing'.names[i] = n <=> i = place
                  /\ listing'.ended => place <= listing'.offset
  <2>1. n \in C /\ n \in Names /\ n # "." /\ n # ".."
    BY ChildrenFinite, InodesAssumption DEF Steady
  <2>2. /\ Rank(n, C) \in 0..Len(names) - 1
        /\ \A k \in 1..Len(names) : names[k] = n <=> k = Rank(n, C) + 1
    <3>1. IsFiniteSet(C)
      BY ChildrenFinite
    <3> HIDE DEF C
    <3> QED BY <1>2, <2>1, <3>1, SortedPlaces
  <2> DEFINE place == Place(n, C)
  <2>3. Len(names) \in Nat
    BY <1>2, LenProperties
  <2>4. place \in 3..Len(entries) /\ place - 2 = Rank(n, C) + 1
    BY <1>4, <2>2, <2>3 DEF Place
  <2>5. \A i \in 1..listing.offset : listing.names[i] = n <=> i = place
    <3>1. ListedPath # Nowhere
      BY <1>1, PathParts, NotNowhere DEF Nowhere, Root
    <3> QED BY <1>1, <3>1 DEF ListingInv
  <2> HIDE DEF place, C
  <2>6. \A i \in 1..Len(entries) : entries[i] = n <=> i = place
    <3> TAKE i \in 1..Len(entries)
    <3>1. CASE i \in {1, 2}
      BY <1>4, <2>1, <2>4, <3>1
    <3>2. CASE i \notin {1, 2}
      <4>1. i - 2 \in 1..Len(names)
        BY <1>4, <2>3, <3>2
      <4>2. entries[i] = names[i - 2]
        BY <1>4, <3>2
      <4>3. names[i - 2] = n <=> i - 2 = place - 2
        BY <2>2, <2>4, <4>1
      <4> QED BY <2>4, <4>1, <4>2, <4>3
    <3> QED BY <3>1, <3>2
  <2>7. ASSUME NEW i \in 1..listing'.offset
        PROVE  listing'.names[i] = n <=> i = place
    <3>1. CASE i <= listing.offset
      BY <1>5, <1>8, <2>5, <3>1
    <3>2. CASE ~(i <= listing.offset)
      <4>1. i - listing.offset \in 1..Len(reply) /\ listing.offset + (i - listing.offset) = i
        BY <1>5, <1>6, <1>7, <1>8, <3>2
      <4>2. listing'.names[i] = reply[i - listing.offset]
        BY <1>8, <3>2
      <4>3. reply[i - listing.offset] = entries[i] /\ i \in 1..Len(entries)
        BY <1>6, <4>1
      <4> QED BY <2>6, <4>2, <4>3
    <3> QED BY <3>1, <3>2
  <2>8. ASSUME listing'.ended PROVE place <= listing'.offset
    <3>1. reply = <<>>
      BY <1>7, <2>8
    <3>2. Len(entries) <= listing.offset /\ Len(reply) = 0
      BY <1>6, <3>1
    <3> QED BY <1>5, <1>7, <2>3, <2>4, <1>4, <3>2
  <2> QED BY <2>7, <2>8 DEF place
<1> HIDE DEF C
<1> QED BY <1>1, <1>7, <1>8, <1>9, <1>10 DEF ListingInv

\* A request while a listing is open: the names it moves are touched, the
\* others keep their place.
LEMMA WatchListing ==
    ASSUME TablesInv, ListingTyped, ListingInv, Watch
    PROVE  ListingInv'
<1>1. CASE listing.ino = NoIno
  BY <1>1 DEF Watch, ListingInv
<1>2. CASE listing.ino # NoIno
  <2> DEFINE before == Children(ListedPath)
             after == Children(ListedPath)'
             came == (before \ after) \cup (after \ before)
  <2>1. listing' = [listing EXCEPT !.touched = @ \cup came]
    <3>1. after = ChildrenIn(shown', paths_by_ino'[listing'.ino])
      BY DEF Children, ListedPath
    <3>2. listing' = [listing EXCEPT !.touched =
                          @ \cup (before \ ChildrenIn(shown', paths_by_ino'[listing.ino]))
                            \cup (ChildrenIn(shown', paths_by_ino'[listing.ino]) \ before)]
      BY <1>2 DEF Watch
    <3>3. listing'.ino = listing.ino
      BY <3>2 DEF ListingTyped
    <3> HIDE DEF before, after
    <3>4. listing' = [listing EXCEPT !.touched = @ \cup (before \ after) \cup (after \ before)]
      BY <3>1, <3>2, <3>3
    <3> QED BY <3>4
  <2>2. /\ listing'.ino = listing.ino /\ listing'.offset = listing.offset
        /\ listing'.names = listing.names /\ listing'.ended = listing.ended
        /\ listing'.touched = listing.touched \cup came
    <3> HIDE DEF came
    <3> QED BY <2>1 DEF ListingTyped
  <2>3. ASSUME NEW n \in Steady'
        PROVE  n \in Steady /\ Place(n, after) = Place(n, before) /\ ListedPath # Nowhere
    <3>1. /\ n \in after /\ n \notin listing'.touched
          /\ \A m \in listing'.touched : ~Before(m, n)
      BY DEF Steady
    <3> HIDE DEF before, after
    <3>2. n \in before /\ n \notin listing.touched /\ \A m \in listing.touched : ~Before(m, n)
      BY <2>2, <3>1
    <3>3. {m \in after : Before(m, n)} = {m \in before : Before(m, n)}
      BY <2>2, <3>1
    <3>4. ListedPath # Nowhere
      <4>1. PICK p \in Paths : Parent(p) = ListedPath
        BY <3>2 DEF before, Children, ChildrenIn
      <4>2. Root # Nowhere
        BY DEF Root, Nowhere
      <4> QED BY <4>1, <4>2, PathParts, NotNowhere
    <3> QED BY <3>2, <3>3, <3>4 DEF Steady, Place, Rank, before
  <2> HIDE DEF before, after, came
  <2> QED BY <1>2, <2>2, <2>3 DEF ListingInv, before, after
<1> QED BY <1>1, <1>2

\* What was read stays right through every step.
LEMMA ListingStep ==
    ASSUME TablesInv, ListingTyped, ListingInv, [Next]_inodeVars
    PROVE  ListingInv'
<1>1. CASE Request /\ Watch
  BY <1>1, WatchListing
<1>2. ASSUME NEW p \in DirPaths \cup {Root}, Opendir(p), UNCHANGED <<shown, tables, dentry>>
      PROVE  ListingInv'
  <2>1. listing'.offset = 0 /\ listing'.names = <<>> /\ listing'.ended = FALSE
    BY <1>2 DEF Opendir, Closed
  <2>2. Len(listing'.names) = 0 /\ 1..0 = {}
    BY <2>1
  <2> QED BY <2>1, <2>2 DEF ListingInv
<1>3. CASE Readdir
  BY <1>3, ReaddirListing
<1>4. CASE Closedir
  BY <1>4 DEF Closedir, Closed, ListingInv
<1>5. CASE UNCHANGED inodeVars
  BY <1>5 DEF inodeVars, tables, ListingInv, Steady, ListedPath, Children
<1> QED BY <1>1, <1>2, <1>3, <1>4, <1>5 DEF Next

\* A name that was in the directory all along, with no name before it coming
\* or going, is listed exactly once (readdir's offsets, src/fuse_fs.rs).
THEOREM SteadyNamesListedOnce == Spec => []ListedOnce
<1> DEFINE I == TablesInv /\ ListingTyped /\ ListingInv
<1>1. Init => I
  BY TablesInit DEF Init, Closed, ListingInv
<1>2. I /\ [Next]_inodeVars => I'
  BY TablesStep, ListingStep
<1>3. I => ListedOnce
  <2> SUFFICES ASSUME I, listing.ino # NoIno, ListedPath # Nowhere,
                      NEW n \in Children(ListedPath) \ listing.touched,
                      \A m \in listing.touched : ~Before(m, n)
               PROVE  LET times == Cardinality({i \in 1..Len(listing.names) : listing.names[i] = n})
                      IN  times <= 1 /\ (listing.ended => times = 1)
    BY DEF ListedOnce
  <2> DEFINE C == Children(ListedPath)
             place == Place(n, C)
             at == {i \in 1..Len(listing.names) : listing.names[i] = n}
  <2>1. n \in Steady
    BY DEF Steady
  <2>2. /\ Len(listing.names) = listing.offset
        /\ \A i \in 1..listing.offset : listing.names[i] = n <=> i = place
        /\ listing.ended => place <= listing.offset
    BY <2>1 DEF ListingInv
  <2>3. place \in Nat /\ 3 <= place /\ listing.offset \in Nat
    <3>1. IsFiniteSet(C)
      BY ChildrenFinite
    <3> HIDE DEF C
    <3>2. {m \in C : Before(m, n)} \in SUBSET C
      OBVIOUS
    <3>3. Cardinality({m \in C : Before(m, n)}) \in Nat
      BY <3>1, <3>2, FS_Subset, FS_CardinalityType
    <3> QED BY <3>3 DEF Place, Rank, ListingTyped
  <2> HIDE DEF place, C
  <2>4. CASE place <= listing.offset
    <3>1. at = {place}
      BY <2>2, <2>3, <2>4
    <3> HIDE DEF at
    <3>2. Cardinality(at) = 1
      BY <3>1, FS_Singleton
    <3> QED BY <3>2 DEF at
  <2>5. CASE ~(place <= listing.offset)
    <3>1. at = {}
      BY <2>2, <2>3, <2>5
    <3> HIDE DEF at
    <3>2. Cardinality(at) = 0
      BY <3>1, FS_EmptySet
    <3> QED BY <2>2, <2>5, <3>2 DEF at
  <2> QED BY <2>4, <2>5
<1> QED BY <1>1, <1>2, <1>3, PTL DEF Spec
=============================================================================
