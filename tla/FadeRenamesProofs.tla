--------------------------- MODULE FadeRenamesProofs ---------------------------
(***************************************************************************)
(* Proofs about Fade with renames and without a reaper: whatever a rename, *)
(* a crash in the middle of it and the reconciliation of the next mount    *)
(* leave behind, a session that serves has its rows where its files are.   *)
(***************************************************************************)
EXTENDS FadeFilesProofs, FadePathProofs

------------------------------------------------------------------------------
(* Conditions on the constants.  Without each of them, or of StoreAnswers,  *)
(* TLC finds a mount that is refused.                                       *)

\* No pass of a reaper runs: a pass knows paths, and a rename moves them.
NoPasses == Reapers = {}

\* LIKE takes a name for itself alone: none has a wildcard, and no two differ
\* only in the case of their letters.
LiteralNames == \A n, m \in Names : <<n, m>> \in LikeMatches => n = m

\* No default folder is renamed or renamed to.
DefaultsStay == \A r \in Renames : r[1] \notin DefaultDirs /\ r[2] \notin DefaultDirs

------------------------------------------------------------------------------
(* A backing directory d beside a table fs *)

\* Whatever exists has a directory above it.
Tree(d) == \A p \in Paths : d[p] # None => IsDir(d, Parent(p))

\* Every file has its row at its path.
Owned(d, fs) == \A p \in Paths : d[p] \in Ids => d[p] \in ActiveAt(fs, p)

\* Nothing but its file is at the path of a row.
Placed(d, fs) ==
    \A id \in Active(fs) :
        fs[id].path \in Paths \ DefaultDirs /\ d[fs[id].path] \in {id, None}

\* Every row has its file.
Full(d, fs) == \A id \in Active(fs) : d[fs[id].path] = id

Fits(d, fs) == Owned(d, fs) /\ Placed(d, fs) /\ UniquePaths(fs)

\* The same rows are active, at the same paths.
SameRows(fs, gs) == Active(fs) = Active(gs) /\ \A id \in Ids : fs[id].path = gs[id].path

Disks == [Paths -> Ids \cup {None, Directory}]

\* Only directories have something below them.
LEMMA TreeAbove ==
    ASSUME NEW d \in Disks, Tree(d), NEW p \in Paths, NEW q \in Paths, Below(q, p), d[q] # None
    PROVE  d[p] = Directory
<1> SUFFICES ASSUME d[p] # Directory PROVE FALSE
  OBVIOUS
<1> DEFINE bad == {x \in Paths : Below(x, p) /\ d[x] # None}
<1>1. PICK x \in bad : \A y \in bad : Len(x) <= Len(y)
  BY Shortest
<1>2. /\ Len(x) \in Nat /\ Len(Parent(x)) = Len(x) - 1
      /\ Within(Parent(x), p)
  BY PathParts, BelowByParent
<1>3. Parent(x) \in Paths
  BY <1>2, PathParts, RootAbove
<1>4. d[Parent(x)] = Directory
  BY <1>3, PathParts DEF Tree, IsDir
<1>5. Parent(x) \in bad
  BY <1>2, <1>3, <1>4, StoreAssumption DEF Within
<1> QED BY <1>1, <1>2, <1>5

\* A pattern of literal names matches what is below the directory.
LEMMA LikeIsBelow ==
    ASSUME LiteralNames, NEW p \in Paths \cup {Root}, NEW dir \in Paths
    PROVE  LikeBelow(p, dir) <=> Below(p, dir)
<1>1. /\ p \in Seq(Names) /\ dir \in Seq(Names)
      /\ Len(p) \in Nat /\ Len(dir) \in Nat
  <2>1. Root \in Seq(Names) /\ Len(Root) = 0
    BY DEF Root
  <2>2. dir \in Seq(Names) /\ Len(dir) \in Nat
    BY PathParts
  <2>3. p \in Seq(Names) /\ Len(p) \in Nat
    <3>1. CASE p = Root
      BY <2>1, <3>1
    <3>2. CASE p \in Paths
      BY <3>2, PathParts
    <3> QED BY <3>1, <3>2
  <2> QED BY <2>2, <2>3
<1>2. ASSUME Len(dir) < Len(p)
      PROVE  SubSeq(p, 1, Len(dir)) = dir <=> \A i \in 1..Len(dir) : dir[i] = p[i]
  <2>1. SubSeq(p, 1, Len(dir)) \in Seq(Names) /\ Len(SubSeq(p, 1, Len(dir))) = Len(dir)
    BY <1>1, <1>2, Cut
  <2>2. \A i \in 1..Len(dir) : SubSeq(p, 1, Len(dir))[i] = p[i]
    BY <1>1, <1>2
  <2> QED BY <1>1, <2>1, <2>2, SeqEqual
<1>3. ASSUME Len(dir) < Len(p), NEW i \in 1..Len(dir)
      PROVE  <<dir[i], p[i]>> \in LikeMatches <=> dir[i] = p[i]
  <2>1. dir[i] \in Names /\ p[i] \in Names
    BY <1>1, <1>3
  <2> QED BY <2>1, StoreAssumption DEF LiteralNames
<1> QED BY <1>2, <1>3 DEF LikeBelow, Below

\* Which rows a rename of r takes with it.
Taken(p, r) == IF r.dir THEN Below(p, r.from) ELSE p = r.from

\* What a rename makes of a row: it changes the path of the active ones that
\* are at what is renamed or below it, and nothing else.
LEMMA RenamedRow ==
    ASSUME LiteralNames, NEW fs \in Table, NEW r \in RenameRecord, NEW id \in Ids
    PROVE  LET gs == RenameRows(fs, r)
               moved == id \in Active(fs) /\ Taken(fs[id].path, r)
           IN  gs[id] = IF moved THEN [fs[id] EXCEPT !.path = Rebase(fs[id].path, r.from, r.to)]
                        ELSE fs[id]
<1>1. fs[id].path \in Paths \cup {Root} /\ r.from \in Paths /\ r.to \in Paths /\ fs[id] \in Row
  BY DEF Table, Row, RenameRecord
<1>2. LikeBelow(fs[id].path, r.from) <=> Below(fs[id].path, r.from)
  BY <1>1, LikeIsBelow
<1>3. CASE r.dir
  BY <1>1, <1>2, <1>3 DEF RenameRows, RenamePrefix, Taken
<1>4. CASE ~r.dir
  <2>1. Rebase(r.from, r.from, r.to) = r.to
    BY <1>1, RebaseThereAndBack, BelowByParent
  <2> QED BY <1>1, <1>4, <2>1 DEF RenameRows, RenamePath, Taken, ActiveAt
<1> QED BY <1>3, <1>4

\* A second time it changes nothing, unless the directory lay below its new
\* place.
LEMMA RenamedTwice ==
    ASSUME LiteralNames, NEW fs \in Table, NEW r \in RenameRecord, ~Below(r.from, r.to)
    PROVE  RenameRows(RenameRows(fs, r), r) = RenameRows(fs, r)
<1> DEFINE gs == RenameRows(fs, r)
<1>1. gs \in Table /\ RenameRows(gs, r) \in Table
  BY RenameRowsForward
<1>2. /\ r.from \in Paths /\ r.to \in Paths
      /\ r.from # r.to /\ ~Below(r.to, r.from)
  BY RenamesAssumption DEF RenameRecord
<1>3. ~Within(r.from, r.to) /\ ~Within(r.to, r.from)
  BY <1>2 DEF Within
<1>4. ASSUME NEW id \in Ids PROVE RenameRows(gs, r)[id] = gs[id]
  <2> DEFINE p == fs[id].path
  <2>1. p \in Paths \cup {Root} /\ fs[id] \in Row
    BY DEF Table, Row
  <2>2. gs[id] = IF id \in Active(fs) /\ Taken(p, r)
                   THEN [fs[id] EXCEPT !.path = Rebase(p, r.from, r.to)] ELSE fs[id]
    BY RenamedRow
  <2>3. id \in Active(gs) <=> id \in Active(fs)
    BY <2>1, <2>2 DEF Active, Row
  <2>4. ~(id \in Active(gs) /\ Taken(gs[id].path, r))
    <3>1. CASE ~(id \in Active(fs) /\ Taken(p, r))
      BY <2>2, <2>3, <3>1
    <3>2. CASE id \in Active(fs) /\ Taken(p, r)
      <4>1. Within(p, r.from) /\ p \in Paths
        BY <1>2, <2>1, <3>2, RootAbove DEF Taken, Within
      <4>2. gs[id].path = Rebase(p, r.from, r.to)
        BY <2>1, <2>2, <3>2 DEF Row
      <4>3. Within(gs[id].path, r.to)
        BY <1>2, <4>1, <4>2, RebaseThereAndBack
      <4>4. gs[id].path \in Paths
        BY <1>1, <1>2, <4>3, RootAbove DEF Table, Row
      <4>5. ~Within(gs[id].path, r.from)
        BY <1>2, <1>3, <4>3, <4>4, Comparable
      <4> QED BY <4>5 DEF Taken, Within
    <3> QED BY <3>1, <3>2
  <2> HIDE DEF gs
  <2>5. RenameRows(gs, r)[id] = IF id \in Active(gs) /\ Taken(gs[id].path, r)
                   THEN [gs[id] EXCEPT !.path = Rebase(gs[id].path, r.from, r.to)] ELSE gs[id]
    BY <1>1, RenamedRow
  <2> QED BY <2>4, <2>5
<1> HIDE DEF gs
<1>5. RenameRows(gs, r) = gs
  BY <1>1, <1>4 DEF Table
<1> QED BY <1>5 DEF gs

\* Tables with the same rows fit the same directories, ...
LEMMA SameFits ==
    ASSUME NEW d, NEW fs, NEW gs, SameRows(fs, gs)
    PROVE  /\ Fits(d, fs) => Fits(d, gs)
           /\ Full(d, fs) => Full(d, gs)
           /\ \A p : ActiveAt(fs, p) = ActiveAt(gs, p)
<1>1. \A p : ActiveAt(fs, p) = ActiveAt(gs, p)
  BY DEF SameRows, ActiveAt, Active
<1>2. Active(fs) \subseteq Ids
  BY DEF Active
<1> QED BY <1>1, <1>2 DEF SameRows, Fits, Owned, Placed, UniquePaths, Full

\* ... also once they are renamed.
LEMMA SameRenamed ==
    ASSUME LiteralNames, NEW fs \in Table, NEW gs \in Table, SameRows(fs, gs),
           NEW r \in RenameRecord
    PROVE  SameRows(RenameRows(fs, r), RenameRows(gs, r))
<1> DEFINE fr == RenameRows(fs, r)
           gr == RenameRows(gs, r)
<1>1. ASSUME NEW id \in Ids
      PROVE  /\ id \in Active(fr) <=> id \in Active(gr)
             /\ fr[id].path = gr[id].path
  <2>1. fs[id] \in Row /\ gs[id] \in Row
    BY DEF Table
  <2>2. /\ fr[id] = IF id \in Active(fs) /\ Taken(fs[id].path, r)
                      THEN [fs[id] EXCEPT !.path = Rebase(fs[id].path, r.from, r.to)] ELSE fs[id]
        /\ gr[id] = IF id \in Active(gs) /\ Taken(gs[id].path, r)
                      THEN [gs[id] EXCEPT !.path = Rebase(gs[id].path, r.from, r.to)] ELSE gs[id]
    BY RenamedRow
  <2>3. fs[id].path = gs[id].path /\ (id \in Active(fs) <=> id \in Active(gs))
    BY DEF SameRows
  <2> HIDE DEF fr, gr
  <2>4. fr[id].path = gr[id].path /\ fr[id].state = fs[id].state /\ gr[id].state = gs[id].state
    BY <2>1, <2>2, <2>3 DEF Row
  <2> QED BY <2>3, <2>4 DEF Active
<1> HIDE DEF fr, gr
<1>2. Active(fr) = Active(gr)
  BY <1>1 DEF Active
<1> QED BY <1>1, <1>2 DEF SameRows, fr, gr

\* expire_due is such a statement.
LEMMA SameExpired ==
    ASSUME NEW fs \in Table, NEW now
    PROVE  SameRows(fs, ExpireDue(fs, now))
BY DEF Table, Row, SameRows, ExpireDue, Due, Active

------------------------------------------------------------------------------
(* Moving a tree *)

\* A rename of the workload that can be done: something is there, nothing is
\* at its new place, and the directory of that place is.
Movable(d, r) ==
    /\ r \in RenameRecord
    /\ d[r.from] # None /\ d[r.to] = None /\ IsDir(d, Parent(r.to))
    /\ r.dir <=> d[r.from] = Directory

\* Neither place is within the other, and no path is within both.
LEMMA PlacesApart ==
    ASSUME NEW d \in Disks, Tree(d), NEW r, r \in RenameRecord, d[r.from] # None, d[r.to] = None
    PROVE  /\ r.from \in Paths /\ r.to \in Paths
           /\ ~Within(r.from, r.to) /\ ~Within(r.to, r.from)
           /\ \A p \in Paths : ~(Within(p, r.from) /\ Within(p, r.to))
<1>1. /\ r.from \in Paths /\ r.to \in Paths
      /\ r.from # r.to /\ ~Below(r.to, r.from)
  BY RenamesAssumption DEF RenameRecord
<1>2. ~Below(r.from, r.to)
  BY <1>1, TreeAbove, StoreAssumption
<1>3. ~Within(r.from, r.to) /\ ~Within(r.to, r.from)
  BY <1>1, <1>2 DEF Within
<1> QED BY <1>1, <1>3, Comparable

\* What the file system's rename does, path by path.
LEMMA MovedPath ==
    ASSUME NEW d \in Disks, Tree(d), NEW r, Movable(d, r), NEW p \in Paths
    PROVE  LET e == MoveTree(d, r.from, r.to)
               q == Rebase(p, r.from, r.to)
               s == Rebase(p, r.to, r.from)
           IN  /\ Within(p, r.from) => q \in Paths /\ Within(q, r.to) /\ e[q] = d[p] /\ e[p] = None
               /\ Within(p, r.to) /\ e[p] # None =>
                     s \in Paths /\ Within(s, r.from) /\ e[p] = d[s] /\ Rebase(s, r.from, r.to) = p
               /\ ~Within(p, r.from) /\ ~Within(p, r.to) => e[p] = d[p]
<1> DEFINE e == MoveTree(d, r.from, r.to)
           q == Rebase(p, r.from, r.to)
           s == Rebase(p, r.to, r.from)
<1>1. /\ r.from \in Paths /\ r.to \in Paths /\ <<r.from, r.to>> \in Renames
      /\ ~Within(r.from, r.to) /\ ~Within(r.to, r.from)
      /\ \A x \in Paths : ~(Within(x, r.from) /\ Within(x, r.to))
  BY PlacesApart DEF Movable, RenameRecord
<1>2. \A x \in Paths :
        e[x] = IF Within(x, r.to)
                 THEN IF Rebase(x, r.to, r.from) \in Paths THEN d[Rebase(x, r.to, r.from)] ELSE None
                 ELSE IF Within(x, r.from) THEN None ELSE d[x]
  BY DEF MoveTree
<1>3. ASSUME Within(p, r.from)
      PROVE  q \in Paths /\ Within(q, r.to) /\ e[q] = d[p] /\ e[p] = None
  <2>1. Within(q, r.to) /\ Rebase(q, r.to, r.from) = p
    BY <1>1, <1>3, RebaseThereAndBack
  <2>2. q \in Paths
    <3>1. CASE p = r.from
      BY <1>1, <1>3, <3>1, RebaseThereAndBack
    <3>2. CASE Below(p, r.from)
      <4>1. LikeBelow(p, r.from)
        <5>1. /\ p \in Seq(Names) /\ r.from \in Seq(Names)
              /\ Len(p) \in Nat /\ Len(r.from) \in Nat
          BY <1>1, PathParts
        <5>2. Len(r.from) < Len(p) /\ SubSeq(p, 1, Len(r.from)) = r.from
          BY <3>2 DEF Below
        <5>3. ASSUME NEW i \in 1..Len(r.from) PROVE <<r.from[i], p[i]>> \in LikeMatches
          <6>1. SubSeq(p, 1, Len(r.from))[i] = p[i]
            BY <5>1, <5>2
          <6>2. p[i] \in Names /\ r.from[i] = p[i]
            BY <5>1, <5>2, <6>1
          <6> QED BY <6>2, StoreAssumption
        <5> QED BY <5>2, <5>3 DEF LikeBelow
      <4> QED BY <1>1, <4>1, RebaseTyped
    <3> QED BY <1>3, <3>1, <3>2 DEF Within
  <2>3. ~Within(p, r.to)
    BY <1>1, <1>3
  <2> HIDE DEF e, q
  <2> QED BY <1>2, <1>3, <2>1, <2>2, <2>3
<1>4. ASSUME Within(p, r.to), e[p] # None
      PROVE  s \in Paths /\ Within(s, r.from) /\ e[p] = d[s] /\ Rebase(s, r.from, r.to) = p
  <2>1. Within(s, r.from) /\ Rebase(s, r.from, r.to) = p
    BY <1>1, <1>4, RebaseThereAndBack
  <2> HIDE DEF e
  <2> QED BY <1>2, <1>4, <2>1
<1> HIDE DEF e, q, s
<1>5. ~Within(p, r.from) /\ ~Within(p, r.to) => e[p] = d[p]
  BY <1>2
<1> QED BY <1>3, <1>4, <1>5 DEF e, q, s

\* It leaves a tree.
LEMMA MovedTree ==
    ASSUME NEW d \in Disks, Tree(d), NEW r, Movable(d, r)
    PROVE  Tree(MoveTree(d, r.from, r.to))
<1> DEFINE e == MoveTree(d, r.from, r.to)
<1>1. /\ r.from \in Paths /\ r.to \in Paths
      /\ ~Within(r.from, r.to) /\ ~Within(r.to, r.from)
      /\ \A x \in Paths : ~(Within(x, r.from) /\ Within(x, r.to))
  BY PlacesApart DEF Movable
<1> HIDE DEF e
<1>2. SUFFICES ASSUME NEW p \in Paths, e[p] # None PROVE IsDir(e, Parent(p))
  BY DEF Tree, e
<1>3. Parent(p) \in Paths \cup {Root}
  BY PathParts
<1>4. ~Within(p, r.from)
  BY <1>2, MovedPath DEF e
<1>5. CASE ~Within(p, r.to)
  <2>1. d[p] # None
    BY <1>2, <1>4, <1>5, MovedPath DEF e
  <2>2. IsDir(d, Parent(p))
    BY <2>1 DEF Tree
  <2>3. ~Within(Parent(p), r.from) /\ ~Within(Parent(p), r.to)
    BY <1>1, <1>4, <1>5, BelowByParent DEF Within
  <2>4. Parent(p) \in Paths => e[Parent(p)] = d[Parent(p)]
    BY <2>3, MovedPath DEF e
  <2> QED BY <1>3, <2>2, <2>4 DEF IsDir
<1>6. CASE p = r.to
  <2>1. ~Within(Parent(p), r.to)
    <3>1. ~Below(p, p)
      BY PathParts DEF Below
    <3> QED BY <1>1, <1>6, <3>1, BelowByParent
  <2>2. ~Within(Parent(p), r.from)
    BY <1>1, <1>6, BelowByParent DEF Within
  <2>3. Parent(p) \in Paths => e[Parent(p)] = d[Parent(p)]
    BY <2>1, <2>2, MovedPath DEF e
  <2> QED BY <1>3, <1>6, <2>3 DEF Movable, IsDir
<1>7. CASE Below(p, r.to)
  <2> DEFINE s == Rebase(p, r.to, r.from)
  <2>1. s \in Paths /\ Within(s, r.from) /\ e[p] = d[s] /\ Rebase(s, r.from, r.to) = p
    BY <1>2, <1>7, MovedPath DEF Within, e
  <2> HIDE DEF s
  <2>2. s # r.from
    <3>1. p # r.to
      BY <1>1, <1>7, PathParts DEF Below
    <3> QED BY <1>1, <2>1, <3>1, RebaseThereAndBack
  <2>3. Rebase(Parent(s), r.from, r.to) = Parent(p)
    BY <1>1, <2>1, <2>2, RebaseThereAndBack
  <2>4. Within(Parent(s), r.from)
    BY <1>1, <2>1, <2>2, BelowByParent DEF Within
  <2>5. Parent(s) \in Paths
    BY <1>1, <2>1, <2>4, PathParts, RootAbove
  <2>6. d[Parent(s)] = Directory
    BY <1>2, <2>1, <2>5, PathParts DEF Tree, IsDir
  <2>7. e[Parent(p)] = Directory
    BY <2>3, <2>4, <2>5, <2>6, MovedPath DEF e
  <2> QED BY <2>7 DEF IsDir
<1> QED BY <1>5, <1>6, <1>7 DEF Within

\* The statement of the store does to the rows what the file system does to
\* their files.
LEMMA MovedRows ==
    ASSUME LiteralNames, DefaultsStay, NEW d \in Disks, Tree(d), NEW fs \in Table,
           NEW r, Movable(d, r), Fits(d, fs), Full(d, fs)
    PROVE  LET e == MoveTree(d, r.from, r.to)
               gs == RenameRows(fs, r)
           IN  Fits(e, gs) /\ Full(e, gs)
<1> DEFINE e == MoveTree(d, r.from, r.to)
           gs == RenameRows(fs, r)
<1>1. /\ r \in RenameRecord /\ r.from \in Paths /\ r.to \in Paths
      /\ ~Within(r.from, r.to) /\ ~Within(r.to, r.from)
      /\ \A x \in Paths : ~(Within(x, r.from) /\ Within(x, r.to))
  BY PlacesApart DEF Movable
<1>2. \A id \in Active(fs) : id \in Ids /\ fs[id] \in Row /\ fs[id].path \in Paths \ DefaultDirs
                             /\ d[fs[id].path] = id
  BY DEF Fits, Placed, Full, Active, Table
\* The rows the statement takes are all those within what moves.
<1>3. ASSUME NEW id \in Active(fs)
      PROVE  Taken(fs[id].path, r) <=> Within(fs[id].path, r.from)
  <2>1. CASE r.dir
    <3>1. fs[id].path # r.from
      BY <1>2, <2>1, StoreAssumption DEF Movable
    <3> QED BY <2>1, <3>1 DEF Taken, Within
  <2>2. CASE ~r.dir
    <3>1. ~Below(fs[id].path, r.from)
      BY <1>1, <1>2, <2>2, TreeAbove, StoreAssumption DEF Movable
    <3> QED BY <2>2, <3>1 DEF Taken, Within
  <2> QED BY <2>1, <2>2
<1>4. \A id \in Ids : gs[id] = IF id \in Active(fs) /\ Taken(fs[id].path, r)
                                 THEN [fs[id] EXCEPT !.path = Rebase(fs[id].path, r.from, r.to)]
                                 ELSE fs[id]
  BY <1>1, RenamedRow
<1> HIDE DEF e, gs
<1>5. Active(gs) = Active(fs)
  <2>1. \A id \in Ids : gs[id].state = fs[id].state
    BY <1>4 DEF Table, Row
  <2> QED BY <2>1 DEF Active
<1>6. ASSUME NEW id \in Active(fs)
      PROVE  gs[id].path = IF Within(fs[id].path, r.from) THEN Rebase(fs[id].path, r.from, r.to)
                           ELSE fs[id].path
  BY <1>2, <1>3, <1>4, <1>6 DEF Row
<1>7. ASSUME NEW id \in Active(fs) PROVE gs[id].path \in Paths \ DefaultDirs /\ e[gs[id].path] = id
  <2> DEFINE p == fs[id].path
  <2>1. p \in Paths \ DefaultDirs /\ d[p] = id /\ id # None
    BY <1>2, StoreAssumption
  <2>2. CASE ~Within(p, r.from)
    <3>1. ~Within(p, r.to)
      <4>1. p # r.to
        BY <2>1 DEF Movable
      <4>2. ~Below(p, r.to)
        BY <1>1, <2>1, TreeAbove, StoreAssumption DEF Movable
      <4> QED BY <4>1, <4>2 DEF Within
    <3>2. e[p] = d[p]
      BY <2>1, <2>2, <3>1, MovedPath DEF e
    <3> QED BY <1>6, <2>1, <2>2, <3>2
  <2>3. CASE Within(p, r.from)
    <3> DEFINE q == Rebase(p, r.from, r.to)
    <3>1. q \in Paths /\ Within(q, r.to) /\ e[q] = d[p]
      BY <2>1, <2>3, MovedPath DEF e
    <3>2. q \notin DefaultDirs
      <4>1. CASE q = r.to
        BY <1>1, <4>1 DEF DefaultsStay, RenameRecord
      <4>2. CASE Below(q, r.to)
        <5>1. Parent(q) # Root
          BY <1>1, <3>1, <4>2, BelowByParent, RootAbove
        <5> QED BY <5>1, MountAssumption
      <4> QED BY <3>1, <4>1, <4>2 DEF Within
    <3> QED BY <1>6, <2>1, <2>3, <3>1, <3>2
  <2> QED BY <2>2, <2>3
<1>8. Full(e, gs)
  BY <1>5, <1>7 DEF Full
<1>9. Placed(e, gs)
  BY <1>5, <1>7 DEF Placed
<1>10. UniquePaths(gs)
  BY <1>5, <1>7 DEF UniquePaths
<1>11. ASSUME NEW p \in Paths, e[p] \in Ids PROVE e[p] \in ActiveAt(gs, p)
  <2>1. e[p] # None
    BY <1>11, StoreAssumption
  <2>2. CASE Within(p, r.to)
    <3> DEFINE s == Rebase(p, r.to, r.from)
    <3>1. s \in Paths /\ Within(s, r.from) /\ e[p] = d[s] /\ Rebase(s, r.from, r.to) = p
      BY <2>1, <2>2, MovedPath DEF e
    <3> HIDE DEF s
    <3>2. e[p] \in Active(fs) /\ fs[e[p]].path = s
      BY <1>11, <3>1 DEF Fits, Owned, ActiveAt
    <3> QED BY <1>5, <1>6, <3>1, <3>2 DEF ActiveAt
  <2>3. CASE ~Within(p, r.to)
    <3>1. ~Within(p, r.from)
      BY <2>1, MovedPath DEF e
    <3>2. e[p] = d[p]
      BY <2>3, <3>1, MovedPath DEF e
    <3>3. e[p] \in Active(fs) /\ fs[e[p]].path = p
      BY <1>11, <3>2 DEF Fits, Owned, ActiveAt
    <3> QED BY <1>5, <1>6, <3>1, <3>3 DEF ActiveAt
  <2> QED BY <2>2, <2>3
<1>12. Owned(e, gs)
  BY <1>11 DEF Owned
<1> QED BY <1>8, <1>9, <1>10, <1>12 DEF Fits, e, gs

------------------------------------------------------------------------------
(* The inductive invariant *)

\* What a recorded rename finds on the disk before it is done and after.
Unmoved(d, fs, r) ==
    /\ d[r.from] # None /\ d[r.to] = None
    /\ r.dir <=> d[r.from] = Directory
    /\ Fits(d, fs)

HasMoved(d, fs, r) ==
    /\ d[r.from] = None /\ d[r.to] # None
    /\ Fits(d, RenameRows(fs, r))

\* Rows and files agree, or one rename is recorded that explains how they do
\* not: this is what a crash leaves for the next mount.
RecordInv ==
    /\ Tree(disk)
    /\ \/ pending = {} /\ Fits(disk, files)
       \/ \E r \in RenameRecord :
             pending = {r} /\ ~Below(r.from, r.to) /\ (Unmoved(disk, files, r) \/ HasMoved(disk, files, r))

RenamePcs == {"rename_fs", "rename_cancel", "rename_store", "rename_complete"}

\* The steps at which a handler has a row without a file.
BareRowPcs == {"create_open", "create_undo", "unlink_mark"}

\* The rename of the handler in progress
Renaming == [from |-> fuse.path, to |-> fuse.to, dir |-> fuse.dir]

\* What the handler in progress knows of the disk, its row and its record.
KnowsInv ==
    /\ fuse.pc # "idle" => mount.pc = "up"
    /\ fuse.pc \in RenamePcs => pending = {Renaming}
    /\ fuse.pc \in {"rename_fs", "rename_cancel"} => Unmoved(disk, files, Renaming)
    /\ fuse.pc = "rename_store" =>
          HasMoved(disk, files, Renaming) /\ Full(disk, RenameRows(files, Renaming))
    /\ fuse.pc = "rename_complete" => Fits(disk, files)
    /\ fuse.pc = "create_open" => fuse.id \in ActiveAt(files, fuse.path)
    /\ fuse.pc \in BareRowPcs => disk[fuse.path] = None
    /\ fuse.pc \in {"create_insert", "create_attr", "create_remove"} => disk[fuse.path] # Directory

\* How far the mount process is with settling rows and files.
SettlesInv ==
    /\ mount.pc # "refused"
    /\ mount.pc \in {"list", "missing", "up"} /\ fuse.pc \notin RenamePcs => pending = {}
    /\ mount.pc \in {"renames", "complete"} => pending = mount.renames /\ pending # {}
    /\ mount.pc = "complete" => Fits(disk, files)
    /\ mount.pc # "missing" => mount.rows = {}
    /\ \A row \in mount.rows : row.path = files[row.id].path
    /\ mount.pc = "missing" =>
          \A id \in Active(files) : \/ disk[files[id].path] = id
                                    \/ \E row \in mount.rows : row.id = id
    /\ mount.pc = "up" /\ fuse.pc # "rename_store" =>
          \A id \in Active(files) : \/ disk[files[id].path] = id
                                    \/ fuse.pc \in BareRowPcs /\ files[id].path = fuse.path

RenamesInv == TypeOK /\ RecordInv /\ KnowsInv /\ SettlesInv

\* A step that expires rows at most.
LEMMA QuietStep ==
    ASSUME LiteralNames, RenamesInv, TypeOK', SameRows(files, files'),
           UNCHANGED <<disk, pending, fuse, mount>>
    PROVE  RenamesInv'
<1>1. files \in Table /\ files' \in Table
  BY DEF RenamesInv, TypeOK, StoreTypeOK, Table
<1>2. /\ Fits(disk, files) => Fits(disk, files')
      /\ \A p : ActiveAt(files, p) = ActiveAt(files', p)
      /\ Active(files) = Active(files')
      /\ \A id \in Ids : files[id].path = files'[id].path
  BY SameFits DEF SameRows
<1>3. ASSUME NEW r \in RenameRecord
      PROVE  /\ Fits(disk, RenameRows(files, r)) => Fits(disk, RenameRows(files', r))
             /\ Full(disk, RenameRows(files, r)) => Full(disk, RenameRows(files', r))
  BY <1>1, SameRenamed, SameFits
<1>4. ASSUME NEW r \in RenameRecord
      PROVE  (Unmoved(disk, files, r) => Unmoved(disk', files', r)) /\ (HasMoved(disk, files, r) => HasMoved(disk', files', r))
  BY <1>2, <1>3 DEF Unmoved, HasMoved
<1>5. RecordInv'
  <2>1. CASE pending = {} /\ Fits(disk, files)
    BY <1>2, <2>1 DEF RenamesInv, RecordInv
  <2>2. ASSUME NEW r \in RenameRecord,
               pending = {r} /\ ~Below(r.from, r.to) /\ (Unmoved(disk, files, r) \/ HasMoved(disk, files, r))
        PROVE  RecordInv'
    <3>1. pending' = {r} /\ (Unmoved(disk', files', r) \/ HasMoved(disk', files', r)) /\ Tree(disk)'
      BY <1>4, <2>2 DEF RenamesInv, RecordInv
    <3> QED BY <2>2, <3>1 DEF RecordInv
  <2> QED BY <2>1, <2>2 DEF RenamesInv, RecordInv
<1>6. KnowsInv'
  <2>1. fuse.pc \in RenamePcs => Renaming \in RenameRecord
    <3>1. fuse.pc \in RenamePcs => Renaming \in pending
      BY DEF RenamesInv, KnowsInv
    <3> QED BY <3>1 DEF RenamesInv, TypeOK, StoreTypeOK
  <2>2. Renaming' = Renaming
    BY DEF Renaming
  <2>3. fuse.pc \in {"rename_fs", "rename_cancel"} => Unmoved(disk', files', Renaming)
    BY <1>4, <2>1 DEF RenamesInv, KnowsInv, RenamePcs
  <2>4. fuse.pc = "rename_store" => HasMoved(disk', files', Renaming) /\ Full(disk, RenameRows(files', Renaming))
    BY <1>3, <1>4, <2>1 DEF RenamesInv, KnowsInv, RenamePcs
  <2> QED BY <1>2, <2>2, <2>3, <2>4 DEF RenamesInv, KnowsInv
<1>7. SettlesInv'
  <2>1. mount.rows \subseteq [id : Ids, path : Paths \cup {Root}]
    BY DEF RenamesInv, TypeOK, MountTypeOK
  <2>2. \A row \in mount.rows : row.path = files'[row.id].path
    BY <1>2, <2>1 DEF RenamesInv, SettlesInv
  <2>3. Active(files) \subseteq Ids
    BY DEF Active
  <2> QED BY <1>2, <2>2, <2>3 DEF RenamesInv, SettlesInv
<1> QED BY <1>5, <1>6, <1>7 DEF RenamesInv

------------------------------------------------------------------------------
(* Steps of a session that is not renaming anything *)

\* Such a session has its rows where its files are, except for the row of the
\* handler in progress.
Steady ==
    /\ mount.pc = "up" /\ mount.rows = {}
    /\ pending = {}
    /\ Tree(disk) /\ Fits(disk, files)
    /\ fuse.pc \notin RenamePcs
    /\ fuse.pc = "create_open" => fuse.id \in ActiveAt(files, fuse.path)
    /\ fuse.pc \in BareRowPcs => disk[fuse.path] = None
    /\ fuse.pc \in {"create_insert", "create_attr", "create_remove"} => disk[fuse.path] # Directory
    /\ \A id \in Active(files) : \/ disk[files[id].path] = id
                                 \/ fuse.pc \in BareRowPcs /\ files[id].path = fuse.path

LEMMA SteadyFromInv ==
    ASSUME RenamesInv, mount.pc = "up", fuse.pc \notin RenamePcs
    PROVE  Steady
<1>1. pending = {} /\ mount.rows = {} /\ fuse.pc # "rename_store"
  BY DEF RenamesInv, SettlesInv, RenamePcs
<1>2. Tree(disk) /\ Fits(disk, files)
  BY <1>1 DEF RenamesInv, RecordInv
<1>3. \A id \in Active(files) : \/ disk[files[id].path] = id
                                \/ fuse.pc \in BareRowPcs /\ files[id].path = fuse.path
  BY <1>1 DEF RenamesInv, SettlesInv
<1>4. /\ fuse.pc = "create_open" => fuse.id \in ActiveAt(files, fuse.path)
      /\ fuse.pc \in BareRowPcs => disk[fuse.path] = None
      /\ fuse.pc \in {"create_insert", "create_attr", "create_remove"} => disk[fuse.path] # Directory
  BY DEF RenamesInv, KnowsInv
<1> QED BY <1>1, <1>2, <1>3, <1>4 DEF Steady

LEMMA SteadyKeepsInv ==
    ASSUME TypeOK', Steady'
    PROVE  RenamesInv'
<1>1. RecordInv'
  BY DEF Steady, RecordInv
<1>2. KnowsInv'
  BY DEF Steady, KnowsInv, RenamePcs, BareRowPcs
<1>3. SettlesInv'
  BY DEF Steady, SettlesInv, RenamePcs
<1> QED BY <1>1, <1>2, <1>3 DEF RenamesInv

\* Writing a path keeps the tree when nothing is below it, and its directory is
\* there for what is written.
LEMMA TreeEdits ==
    ASSUME NEW d \in Disks, Tree(d), NEW p \in Paths, NEW v \in Ids \cup {None, Directory},
           d[p] # Directory \/ \A q \in Paths : Below(q, p) => d[q] = None,
           v = None \/ IsDir(d, Parent(p))
    PROVE  Tree([d EXCEPT ![p] = v])
<1> DEFINE e == [d EXCEPT ![p] = v]
<1>1. SUFFICES ASSUME NEW q \in Paths, e[q] # None PROVE IsDir(e, Parent(q))
  BY DEF Tree
<1>2. \A x \in Paths : e[x] = IF x = p THEN v ELSE d[x]
  BY DEF Disks
<1> HIDE DEF e
<1>3. Parent(q) \in Paths \cup {Root} /\ Below(q, q) = FALSE
  BY PathParts DEF Below
<1>4. CASE q = p
  <2>1. Parent(p) # p
    BY <1>3, <1>4, BelowByParent DEF Within
  <2> QED BY <1>1, <1>2, <1>3, <1>4, <2>1 DEF IsDir
<1>5. CASE q # p
  <2>1. IsDir(d, Parent(q))
    BY <1>1, <1>2, <1>5 DEF Tree
  <2>2. Parent(q) # p
    <3>1. SUFFICES ASSUME Parent(q) = p PROVE FALSE
      OBVIOUS
    <3>2. Below(q, p) /\ d[q] # None /\ p # Root
      BY <1>1, <1>2, <1>5, <3>1, BelowByParent, PathParts DEF Within
    <3> QED BY <2>1, <3>1, <3>2 DEF IsDir
  <2> QED BY <1>2, <1>3, <2>1, <2>2 DEF IsDir
<1> QED BY <1>4, <1>5

LEMMA Typed ==
    ASSUME TypeOK
    PROVE  /\ files \in Table /\ disk \in Disks /\ pending \subseteq RenameRecord
           /\ fuse.pc # "idle" => fuse.path \in Paths
           /\ Active(files) \subseteq Ids
           /\ \A id \in Active(files) : files[id] \in Row
BY DEF TypeOK, StoreTypeOK, FuseTypeOK, HandlerTypeOK, Table, Disks, Active

\* A handler whose next step is the same or that ends, the rows expired at most.
LEMMA CalmSteady ==
    ASSUME TypeOK, TypeOK', Steady, mount' = mount, pending' = pending, disk' = disk,
           SameRows(files, files'), fuse.pc \notin BareRowPcs,
           fuse'.pc \in {"idle", "open_file", "unlink_file", "create_insert", "create_remove"},
           fuse'.pc \in {"create_insert", "create_remove"} => disk[fuse'.path] # Directory
    PROVE  Steady'
<1>1. /\ Fits(disk, files') /\ Active(files') = Active(files) /\ Active(files) \subseteq Ids
      /\ \A id \in Ids : files'[id].path = files[id].path
  BY SameFits, Typed DEF Steady, SameRows
<1>2. fuse'.pc \notin RenamePcs /\ fuse'.pc \notin BareRowPcs /\ fuse'.pc # "create_open"
  BY DEF RenamePcs, BareRowPcs
<1> QED BY <1>1, <1>2 DEF Steady

\* create records a fresh row for a name that nothing has, or fails.
LEMMA CreateInsertSteady ==
    ASSUME TypeOK, TypeOK', Steady, CreateInsert, mount' = mount
    PROVE  Steady'
<1> DEFINE p == fuse.path
           row == NewRow(p, fuse.since)
<1>0. /\ fuse.pc = "create_insert" /\ p \in Paths /\ p \in DOMAIN Ttl
      /\ disk[p] # Directory /\ UNCHANGED <<disk, pending, mount>>
  BY Typed DEF CreateInsert, Steady, TypeOK, FuseTypeOK, HandlerTypeOK
<1>a. CASE Reply /\ UNCHANGED files
  <2>1. fuse'.pc = "idle" /\ SameRows(files, files')
    BY <1>a DEF Reply, FuseIdle, SameRows
  <2> QED BY <1>0, <2>1, CalmSteady DEF BareRowPcs
<1>b. CASE \E id \in Ids : /\ ActiveAt(files, p) = {} /\ files[id].state = "none"
                           /\ files' = [files EXCEPT ![id] = row]
                           /\ fuse' = [fuse EXCEPT !.pc = "create_open", !.id = id]
  <2>1. PICK id \in Ids : /\ ActiveAt(files, p) = {} /\ files[id].state = "none"
                          /\ files' = [files EXCEPT ![id] = row]
                          /\ fuse' = [fuse EXCEPT !.pc = "create_open", !.id = id]
    BY <1>b
  <2>2. fuse'.pc = "create_open" /\ fuse'.path = p /\ fuse'.id = id
    BY <2>1 DEF TypeOK, FuseTypeOK, HandlerTypeOK
  <2>3. p \notin DefaultDirs
    BY <1>0, PolicyAssumption
  <2>4. disk[p] = None
    <3>1. disk[p] \notin Ids
      BY <1>0, <2>1 DEF Steady, Fits, Owned
    <3> QED BY <1>0, <3>1, Typed DEF Disks
  <2>5. /\ \A x \in Ids : files'[x] = IF x = id THEN row ELSE files[x]
        /\ row.state = "alive" /\ row.path = p
    BY <2>1, Typed DEF Table, NewRow
  <2> HIDE DEF row
  <2>6. /\ Active(files') = Active(files) \cup {id}
        /\ id \notin Active(files)
        /\ files'[id].path = p
        /\ \A x \in Active(files) : files'[x].path = files[x].path /\ files[x].path # p
    BY <2>1, <2>5 DEF Active, ActiveAt
  <2>7. fuse'.pc \in BareRowPcs /\ fuse'.pc \notin RenamePcs
    BY <2>2 DEF BareRowPcs, RenamePcs
  <2>8. Fits(disk, files')
    <3>1. Owned(disk, files')
      BY <2>6 DEF Steady, Fits, Owned, ActiveAt
    <3>2. Placed(disk, files')
      BY <1>0, <2>3, <2>4, <2>6 DEF Steady, Fits, Placed
    <3>3. UniquePaths(files')
      BY <2>6 DEF Steady, Fits, UniquePaths
    <3> QED BY <3>1, <3>2, <3>3 DEF Fits
  <2>9. ASSUME NEW x \in Active(files')
        PROVE  disk[files'[x].path] = x \/ files'[x].path = p
    BY <1>0, <2>6 DEF Steady, BareRowPcs
  <2>10. id \in ActiveAt(files', p)
    BY <2>6 DEF ActiveAt
  <2> QED BY <1>0, <2>2, <2>4, <2>7, <2>8, <2>9, <2>10 DEF Steady
<1> QED BY <1>a, <1>b DEF CreateInsert, Drawable

\* create has found no directory of the name.
LEMMA CreateStartSteady ==
    ASSUME TypeOK, TypeOK', Steady, NEW p \in Paths, CreateStart(p), mount' = mount
    PROVE  Steady'
<1>1. /\ fuse.pc = "idle" /\ fuse'.pc = "create_insert" /\ fuse'.path = p
      /\ UNCHANGED <<files, disk, pending>> /\ p \in DOMAIN Ttl
  BY DEF CreateStart, Begin, storeVars
<1>2. disk[p] # Directory
  <2>1. disk[p] = Directory => ~DirVisible(p) /\ DirVisible(Parent(p))
    BY DEF CreateStart
  <2>2. DirVisible(Parent(p)) => DirVisible(p)
    BY <1>1, PolicyAssumption DEF DirVisible
  <2> QED BY <2>1, <2>2
<1> QED BY <1>1, <1>2, CalmSteady DEF BareRowPcs, SameRows

\* A file appears where its row is.
LEMMA CreateOpenSteady ==
    ASSUME TypeOK, TypeOK', Steady, CreateOpen, mount' = mount
    PROVE  Steady'
<1> DEFINE p == fuse.path
<1>1. /\ fuse.pc = "create_open" /\ fuse.id \in ActiveAt(files, p) /\ disk[p] = None
      /\ p \in Paths /\ UNCHANGED <<files, pending, mount>>
  BY Typed DEF CreateOpen, Steady, BareRowPcs
<1>2. CASE IsDir(disk, Parent(p))
  <2>1. disk' = [disk EXCEPT ![p] = fuse.id] /\ Goto("create_attr")
    BY <1>1, <1>2 DEF CreateOpen
  <2>2. fuse'.pc = "create_attr" /\ fuse'.path = p
    BY <2>1 DEF Goto, TypeOK, FuseTypeOK, HandlerTypeOK
  <2>3. /\ fuse.id \in Ids /\ fuse.id \in Active(files) /\ files[fuse.id].path = p
        /\ \A x \in Active(files) : files[x].path = p => x = fuse.id
    BY <1>1 DEF ActiveAt, Active, Steady, Fits, UniquePaths
  <2>4. \A q \in Paths : disk'[q] = IF q = p THEN fuse.id ELSE disk[q]
    BY <2>1, Typed DEF Disks
  <2>5. Tree(disk')
    <3>1. Tree([disk EXCEPT ![p] = fuse.id])
      BY <1>1, <1>2, <2>3, Typed, TreeEdits, StoreAssumption DEF Steady
    <3> QED BY <2>1, <3>1
  <2>6. \A x \in Active(files) : files[x].path \in Paths \ DefaultDirs
    BY DEF Steady, Fits, Placed
  <2>7. Full(disk', files)
    BY <1>1, <2>3, <2>4, <2>6 DEF Steady, Full
  <2>8. Fits(disk', files)
    <3>1. Owned(disk', files)
      BY <1>1, <2>4 DEF Steady, Fits, Owned
    <3>2. Placed(disk', files)
      BY <2>6, <2>7 DEF Full, Placed
    <3> QED BY <3>1, <3>2 DEF Steady, Fits
  <2>9. disk'[p] # Directory
    BY <1>1, <2>3, <2>4, StoreAssumption
  <2> QED BY <1>1, <2>2, <2>5, <2>7, <2>8, <2>9 DEF Steady, Full, RenamePcs, BareRowPcs
<1>3. CASE ~IsDir(disk, Parent(p))
  <2>1. disk' = disk /\ Goto("create_undo")
    BY <1>3 DEF CreateOpen
  <2>2. fuse'.pc = "create_undo" /\ fuse'.path = p
    BY <2>1 DEF Goto, TypeOK, FuseTypeOK, HandlerTypeOK
  <2>3. fuse'.pc \in BareRowPcs /\ fuse'.pc \notin RenamePcs
        /\ fuse'.pc \notin {"create_insert", "create_open", "create_attr", "create_remove"}
    BY <2>2 DEF RenamePcs, BareRowPcs
  <2>4. \A id \in Active(files) : disk[files[id].path] = id \/ files[id].path = p
    BY DEF Steady
  <2> QED BY <1>1, <2>1, <2>2, <2>3, <2>4 DEF Steady
<1> QED BY <1>2, <1>3

\* A file goes, while its row is in hand.
LEMMA RemovedSteady ==
    ASSUME TypeOK, TypeOK', Steady, mount' = mount, pending' = pending, files' = files,
           fuse.pc # "idle", disk' = RemoveFile(disk, fuse.path),
           disk[fuse.path] \in Ids => fuse'.pc \in BareRowPcs,
           fuse'.pc \in {"create_undo", "unlink_mark", "idle"},
           fuse'.pc # "idle" => fuse'.path = fuse.path /\ disk[fuse.path] # Directory,
           fuse.pc \notin BareRowPcs
    PROVE  Steady'
<1> DEFINE p == fuse.path
<1>1. p \in Paths /\ disk \in Disks
  BY Typed
<1>2. /\ Tree(disk) /\ Fits(disk, files)
      /\ \A id \in Active(files) : disk[files[id].path] = id /\ files[id].path \in Paths
  BY DEF Steady, Fits, Placed
<1>3. Tree(disk')
  <2>1. CASE disk[p] \in Ids
    <3>1. disk[p] # Directory
      BY <2>1, StoreAssumption
    <3>2. Tree([disk EXCEPT ![p] = None])
      BY <1>1, <1>2, <3>1, TreeEdits
    <3> QED BY <2>1, <3>2 DEF RemoveFile
  <2> QED BY <1>2, <2>1 DEF RemoveFile
<1>4. \A q \in Paths : disk'[q] = IF q = p /\ disk[p] \in Ids THEN None ELSE disk[q]
  BY <1>1 DEF RemoveFile, Disks
<1>5. Fits(disk', files)
  <2>1. Owned(disk', files)
    BY <1>2, <1>4, StoreAssumption DEF Fits, Owned
  <2>2. Placed(disk', files)
    BY <1>2, <1>4 DEF Fits, Placed
  <2> QED BY <1>2, <2>1, <2>2 DEF Fits
<1>6. ASSUME NEW id \in Active(files)
      PROVE  \/ disk'[files[id].path] = id
             \/ fuse'.pc \in BareRowPcs /\ files[id].path = fuse'.path
  BY <1>2, <1>4 DEF BareRowPcs
<1>7. fuse'.pc \in BareRowPcs => disk'[fuse'.path] = None
  <2>1. disk[p] \in Ids \cup {None, Directory}
    BY <1>1 DEF Disks
  <2> QED BY <1>1, <1>4, <2>1 DEF BareRowPcs
<1>8. /\ fuse'.pc \notin RenamePcs
      /\ fuse'.pc \notin {"create_insert", "create_open", "create_attr", "create_remove"}
  BY DEF RenamePcs
<1> QED BY <1>3, <1>5, <1>6, <1>7, <1>8 DEF Steady

\* The rows at the path of a file that is gone end.
LEMMA UndoneSteady ==
    ASSUME TypeOK, TypeOK', Steady, mount' = mount, pending' = pending, disk' = disk,
           fuse.pc \in {"create_undo", "unlink_mark"}, Reply,
           files' = MarkDeletedByPath(files, fuse.path)
    PROVE  Steady'
<1> DEFINE p == fuse.path
<1>1. fuse'.pc = "idle"
  BY DEF Reply, FuseIdle
<1>2. p \in Paths /\ files \in Table /\ Active(files) \subseteq Ids /\ disk[p] = None
  BY Typed DEF Steady, BareRowPcs
<1>3. \A id \in Ids : files'[id] = IF id \in ActiveAt(files, p)
                                     THEN [files[id] EXCEPT !.state = "deleted"] ELSE files[id]
  BY DEF MarkDeletedByPath
<1>4. /\ Active(files') = {id \in Active(files) : files[id].path # p}
      /\ \A id \in Ids : files'[id].path = files[id].path
  BY <1>2, <1>3 DEF Active, ActiveAt, Table, Row
<1>5. Full(disk, files')
  BY <1>2, <1>4 DEF Steady, Full
<1>6. Fits(disk, files')
  <2>1. Owned(disk, files')
    <3>1. ASSUME NEW q \in Paths, disk[q] \in Ids PROVE disk[q] \in ActiveAt(files', q)
      <4>1. disk[q] \in Active(files) /\ files[disk[q]].path = q /\ q # p
        BY <1>2, <3>1, StoreAssumption DEF Steady, Fits, Owned, ActiveAt
      <4> QED BY <1>4, <3>1, <4>1 DEF ActiveAt
    <3> QED BY <3>1 DEF Owned
  <2>2. Placed(disk, files')
    BY <1>2, <1>4 DEF Steady, Fits, Placed
  <2>3. UniquePaths(files')
    BY <1>2, <1>4 DEF Steady, Fits, UniquePaths
  <2> QED BY <2>1, <2>2, <2>3 DEF Fits
<1> QED BY <1>1, <1>5, <1>6 DEF Steady, Full, RenamePcs, BareRowPcs

\* A directory appears where nothing was, or goes with nothing in it.
LEMMA DirectorySteady ==
    ASSUME TypeOK, TypeOK', Steady, NEW p \in Paths, Mkdir(p) \/ Rmdir(p), mount' = mount
    PROVE  Steady'
<1>1. /\ fuse.pc = "idle" /\ UNCHANGED <<files, pending, fuse, mount>>
      /\ disk \in Disks
      /\ disk[p] \in {None, Directory}
  BY Typed DEF Mkdir, Rmdir, fuseVars
<1>2. PICK v \in {None, Directory} : disk' = [disk EXCEPT ![p] = v]
  BY DEF Mkdir, Rmdir
<1>3. Full(disk, files)
  BY <1>1 DEF Steady, Full, BareRowPcs
<1>4. \A id \in Active(files) : files[id].path \in Paths \ DefaultDirs /\ files[id].path # p
  BY <1>1, <1>3, Typed, StoreAssumption DEF Full, Steady, Fits, Placed
<1>5. \A q \in Paths : disk'[q] = IF q = p THEN v ELSE disk[q]
  BY <1>1, <1>2 DEF Disks
<1>6. Tree(disk')
  <2>1. CASE Mkdir(p)
    <3>1. /\ disk[p] # Directory /\ IsDir(disk, Parent(p))
          /\ disk' = [disk EXCEPT ![p] = Directory]
      BY <2>1, StoreAssumption DEF Mkdir
    <3>2. Tree([disk EXCEPT ![p] = Directory])
      BY <1>1, <3>1, TreeEdits DEF Steady
    <3> QED BY <3>1, <3>2
  <2>2. CASE Rmdir(p)
    <3>1. (\A q \in Paths : Below(q, p) => disk[q] = None) /\ disk' = [disk EXCEPT ![p] = None]
      BY <2>2 DEF Rmdir
    <3>2. Tree([disk EXCEPT ![p] = None])
      BY <1>1, <3>1, TreeEdits DEF Steady
    <3> QED BY <3>1, <3>2
  <2> QED BY <2>1, <2>2
<1>7. Full(disk', files)
  BY <1>3, <1>4, <1>5 DEF Full
<1>8. Fits(disk', files)
  <2>1. Owned(disk', files)
    BY <1>5, StoreAssumption DEF Steady, Fits, Owned
  <2>2. Placed(disk', files)
    BY <1>4, <1>7 DEF Placed, Full
  <2> QED BY <2>1, <2>2 DEF Steady, Fits
<1> QED BY <1>1, <1>6, <1>7, <1>8 DEF Steady, Full, RenamePcs, BareRowPcs

\* All the steps of create, open, unlink, mkdir and rmdir.
LEMMA SteadyStep ==
    ASSUME StoreAnswers, TypeOK, TypeOK', RenamesInv, mount' = mount, mount.pc = "up",
           fuse.pc \notin RenamePcs,
           \/ \E p \in Paths : CreateStart(p) \/ OpenCheck(p) \/ UnlinkCheck(p)
                                 \/ Mkdir(p) \/ Rmdir(p)
           \/ CreateInsert \/ CreateOpen \/ CreateAttr \/ CreateRemove \/ CreateUndo
           \/ OpenFile \/ UnlinkFile \/ UnlinkMark
    PROVE  RenamesInv'
<1>0. Steady
  BY SteadyFromInv
<1> SUFFICES Steady'
  BY SteadyKeepsInv
<1>s. SameRows(files, files) /\ SameRows(files, ExpireDue(files, clock))
  BY Typed, SameExpired DEF SameRows
<1>1. ASSUME NEW p \in Paths, CreateStart(p) PROVE Steady'
  BY <1>0, <1>1, CreateStartSteady
<1>2. ASSUME NEW p \in Paths, OpenCheck(p) \/ UnlinkCheck(p) PROVE Steady'
  <2>1. /\ fuse.pc = "idle" /\ files' = ExpireDue(files, clock) /\ UNCHANGED <<disk, pending>>
        /\ fuse'.pc \in {"open_file", "unlink_file"}
    BY <1>2 DEF OpenCheck, UnlinkCheck, Begin
  <2> QED BY <1>0, <1>s, <2>1, CalmSteady DEF BareRowPcs
<1>3. ASSUME NEW p \in Paths, Mkdir(p) \/ Rmdir(p) PROVE Steady'
  BY <1>0, <1>3, DirectorySteady
<1>4. CASE CreateInsert \/ CreateOpen
  BY <1>0, <1>4, CreateInsertSteady, CreateOpenSteady
<1>5. CASE CreateAttr
  <2>1. fuse.pc = "create_attr" /\ UNCHANGED <<disk, pending>> /\ disk[fuse.path] # Directory
    BY <1>0, <1>5 DEF CreateAttr, Steady
  <2>2. files' = files \/ files' = ExpireDue(files, clock)
    BY <1>5 DEF CreateAttr
  <2>3. fuse'.pc = "idle" \/ (fuse'.pc = "create_remove" /\ fuse'.path = fuse.path)
    <3>1. Reply => fuse'.pc = "idle"
      BY DEF Reply, FuseIdle
    <3>2. Goto("create_remove") => fuse'.pc = "create_remove" /\ fuse'.path = fuse.path
      BY DEF Goto, TypeOK, FuseTypeOK, HandlerTypeOK
    <3> QED BY <1>5, <3>1, <3>2 DEF CreateAttr
  <2> QED BY <1>0, <1>s, <2>1, <2>2, <2>3, CalmSteady DEF BareRowPcs
<1>6. CASE CreateRemove
  <2>1. /\ fuse.pc = "create_remove" /\ UNCHANGED <<files, pending>>
        /\ disk' = RemoveFile(disk, fuse.path) /\ disk[fuse.path] # Directory
    BY <1>0, <1>6 DEF CreateRemove, Steady
  <2>2. fuse'.pc = "create_undo" /\ fuse'.path = fuse.path
    BY <1>6 DEF CreateRemove, Goto, TypeOK, FuseTypeOK, HandlerTypeOK
  <2> QED BY <1>0, <2>1, <2>2, RemovedSteady DEF BareRowPcs
<1>7. CASE CreateUndo \/ UnlinkMark
  <2>1. /\ fuse.pc \in {"create_undo", "unlink_mark"} /\ Reply /\ UNCHANGED <<disk, pending>>
        /\ files' = MarkDeletedByPath(files, fuse.path)
    BY <1>7 DEF CreateUndo, UnlinkMark, StoreAnswers
  <2> QED BY <1>0, <2>1, UndoneSteady
<1>8. CASE OpenFile
  <2>1. fuse.pc = "open_file" /\ fuse'.pc = "idle" /\ UNCHANGED <<files, disk, pending>>
    BY <1>8 DEF OpenFile, Reply, FuseIdle, storeVars
  <2> QED BY <1>0, <1>s, <2>1, CalmSteady DEF BareRowPcs
<1>9. CASE UnlinkFile
  <2>1. /\ fuse.pc = "unlink_file" /\ UNCHANGED <<files, pending>>
        /\ disk' = RemoveFile(disk, fuse.path)
    BY <1>9 DEF UnlinkFile
  <2>2. IF disk[fuse.path] \in Ids THEN fuse'.pc = "unlink_mark" /\ fuse'.path = fuse.path
                                   ELSE fuse'.pc = "idle"
    BY <1>9 DEF UnlinkFile, Goto, Reply, FuseIdle, TypeOK, FuseTypeOK, HandlerTypeOK
  <2> QED BY <1>0, <2>1, <2>2, RemovedSteady, StoreAssumption DEF BareRowPcs
<1> QED BY <1>1, <1>2, <1>3, <1>4, <1>5, <1>6, <1>7, <1>8, <1>9

------------------------------------------------------------------------------
(* The steps of a rename *)

\* A served rename, from what it is at any of its steps.
LEMMA RenamingKeepsInv ==
    ASSUME TypeOK', mount'.pc = "up", mount'.rows = {}, Tree(disk)',
           fuse'.pc \in RenamePcs, pending' = {Renaming'}, ~Below(fuse'.path, fuse'.to),
           fuse'.pc \in {"rename_fs", "rename_cancel"} =>
               Unmoved(disk', files', Renaming') /\ Full(disk', files'),
           fuse'.pc = "rename_store" =>
               HasMoved(disk', files', Renaming') /\ Full(disk', RenameRows(files', Renaming')),
           fuse'.pc = "rename_complete" =>
               /\ HasMoved(disk', files', Renaming')
               /\ Fits(disk', files') /\ Full(disk', files')
    PROVE  RenamesInv'
<1>1. Renaming'.from = fuse'.path /\ Renaming'.to = fuse'.to
  BY DEF Renaming
<1>2. Renaming' \in RenameRecord
  BY DEF TypeOK, StoreTypeOK
<1>3. RecordInv'
  <2> DEFINE r == Renaming'
  <2>1. pending' = {r} /\ ~Below(r.from, r.to) /\ r \in RenameRecord
    BY <1>1, <1>2
  <2>2. Unmoved(disk', files', r) \/ HasMoved(disk', files', r)
    BY DEF RenamePcs
  <2> HIDE DEF r
  <2> QED BY <2>1, <2>2 DEF RecordInv
<1>4. KnowsInv'
  BY DEF KnowsInv, RenamePcs, BareRowPcs
<1>5. SettlesInv'
  <2>1. fuse'.pc # "rename_store" => Full(disk', files')
    BY DEF RenamePcs
  <2> QED BY <2>1 DEF SettlesInv, Full
<1> QED BY <1>3, <1>4, <1>5 DEF RenamesInv

\* What the invariant says while a rename is served.
LEMMA RenamingFromInv ==
    ASSUME RenamesInv, fuse.pc \in RenamePcs
    PROVE  /\ mount.pc = "up" /\ mount.rows = {} /\ Tree(disk)
           /\ pending = {Renaming} /\ Renaming \in RenameRecord
           /\ Renaming.from = fuse.path /\ Renaming.to = fuse.to /\ Renaming.dir = fuse.dir
           /\ ~Below(fuse.path, fuse.to)
           /\ fuse.pc \in {"rename_fs", "rename_cancel"} => Unmoved(disk, files, Renaming)
           /\ fuse.pc = "rename_store" =>
                 HasMoved(disk, files, Renaming) /\ Full(disk, RenameRows(files, Renaming))
           /\ fuse.pc = "rename_complete" => Fits(disk, files)
           /\ fuse.pc # "rename_store" => Full(disk, files)
<1>1. fuse.pc # "idle" /\ fuse.pc \notin BareRowPcs
  BY DEF RenamePcs, BareRowPcs
<1>2. mount.pc = "up" /\ pending = {Renaming}
  BY <1>1 DEF RenamesInv, KnowsInv
<1>3. Renaming \in RenameRecord
  BY <1>2, Typed DEF RenamesInv
<1>4. Renaming.from = fuse.path /\ Renaming.to = fuse.to /\ Renaming.dir = fuse.dir
  BY DEF Renaming
<1>5. Tree(disk) /\ ~Below(fuse.path, fuse.to)
  <2> HIDE DEF Renaming
  <2>1. pending # {} /\ \A r \in pending : r = Renaming
    BY <1>2
  <2> QED BY <1>4, <2>1 DEF RenamesInv, RecordInv
<1>6. mount.rows = {} /\ (fuse.pc # "rename_store" => Full(disk, files))
  BY <1>1, <1>2 DEF RenamesInv, SettlesInv, Full
<1> QED BY <1>2, <1>3, <1>4, <1>5, <1>6 DEF RenamesInv, KnowsInv

LEMMA RenameStartKeeps ==
    ASSUME TypeOK', RenamesInv, mount' = mount, mount.pc = "up",
           NEW from, NEW to, RenameStart(from, to)
    PROVE  RenamesInv'
<1>1. fuse.pc = "idle" /\ fuse.pc \notin RenamePcs /\ fuse.pc \notin BareRowPcs
  BY DEF RenameStart, RenamePcs, BareRowPcs
<1>2. Steady
  BY <1>1, SteadyFromInv
<1>3. /\ pending = {} /\ mount.rows = {} /\ Tree(disk) /\ Fits(disk, files) /\ Full(disk, files)
      /\ files \in Table /\ disk \in Disks
  BY <1>1, <1>2, Typed DEF Steady, Full, RenamesInv
<1> DEFINE r == [from |-> from, to |-> to, dir |-> disk[from] = Directory]
<1>4. /\ pending' = {r} /\ disk' = disk
      /\ fuse' = [pc |-> "rename_fs", path |-> from, to |-> to, id |-> None,
                  dir |-> r.dir, since |-> clock]
      /\ disk[to] = None /\ disk[from] # None
      /\ files' = files \/ files' = ExpireDue(files, clock)
  BY <1>3, StoreAssumption DEF RenameStart, BeginRename, Begin
<1>5. fuse'.pc = "rename_fs" /\ fuse'.path = from /\ fuse'.to = to /\ Renaming' = r
  BY <1>4 DEF Renaming
<1>6. r.from = from /\ r.to = to /\ (r.dir <=> disk[from] = Directory)
  OBVIOUS
<1>7. r \in RenameRecord
  <2> HIDE DEF r
  <2> QED BY <1>4 DEF TypeOK, StoreTypeOK
<1> HIDE DEF r
<1>8. ~Below(from, to)
  BY <1>3, <1>4, <1>6, <1>7, PlacesApart DEF Within
<1>9. Fits(disk, files') /\ Full(disk, files')
  <2>1. SameRows(files, files')
    BY <1>3, <1>4, SameExpired DEF SameRows
  <2> QED BY <1>3, <2>1, SameFits
<1>10. Unmoved(disk', files', r)
  BY <1>4, <1>6, <1>9 DEF Unmoved
<1> QED BY <1>3, <1>4, <1>5, <1>8, <1>9, <1>10, RenamingKeepsInv DEF RenamePcs

LEMMA RenameFsKeeps ==
    ASSUME LiteralNames, DefaultsStay, TypeOK', RenamesInv, mount' = mount, RenameFs
    PROVE  RenamesInv'
<1> DEFINE r == Renaming
<1>1. fuse.pc = "rename_fs" /\ fuse.pc \in RenamePcs /\ UNCHANGED <<files, pending, mount>>
  BY DEF RenameFs, RenamePcs
<1>2. /\ mount.pc = "up" /\ mount.rows = {} /\ Tree(disk)
      /\ pending = {r} /\ r \in RenameRecord
      /\ r.from = fuse.path /\ r.to = fuse.to /\ ~Below(fuse.path, fuse.to)
      /\ Unmoved(disk, files, r) /\ Full(disk, files)
      /\ files \in Table /\ disk \in Disks
  BY <1>1, RenamingFromInv, Typed DEF RenamesInv
<1>3. ASSUME NEW pc, Goto(pc)
      PROVE  fuse'.pc = pc /\ fuse'.path = fuse.path /\ fuse'.to = fuse.to /\ Renaming' = r
  BY <1>3 DEF Goto, Renaming, RenamesInv, TypeOK, FuseTypeOK, HandlerTypeOK
<1> HIDE DEF r
<1>4. CASE disk[fuse.path] # None /\ IsDir(disk, Parent(fuse.to))
  <2>1. disk' = MoveTree(disk, r.from, r.to) /\ Goto("rename_store")
    BY <1>2, <1>4 DEF RenameFs
  <2>2. Movable(disk, r)
    BY <1>2, <1>4 DEF Movable, Unmoved
  <2>3. Tree(disk')
    BY <1>2, <2>1, <2>2, MovedTree
  <2>4. Fits(disk', RenameRows(files, r)) /\ Full(disk', RenameRows(files, r))
    BY <1>2, <2>1, <2>2, MovedRows DEF Unmoved
  <2>5. disk'[r.from] = None /\ disk'[r.to] # None
    <3>1. r.from \in Paths /\ r.to \in Paths /\ Within(r.from, r.from)
      BY <1>2, BelowByParent DEF RenameRecord
    <3>2. Rebase(r.from, r.from, r.to) = r.to
      BY <3>1, RebaseThereAndBack
    <3> QED BY <1>2, <2>1, <2>2, <3>1, <3>2, MovedPath DEF Unmoved
  <2>6. HasMoved(disk', files', r) /\ Full(disk', RenameRows(files', r))
    BY <1>1, <2>4, <2>5 DEF HasMoved
  <2>7. fuse'.pc = "rename_store" /\ fuse'.path = fuse.path /\ fuse'.to = fuse.to /\ Renaming' = r
    BY <1>3, <2>1
  <2> QED BY <1>1, <1>2, <2>3, <2>6, <2>7, RenamingKeepsInv DEF RenamePcs
<1>5. CASE ~(disk[fuse.path] # None /\ IsDir(disk, Parent(fuse.to)))
  <2>1. disk' = disk /\ Goto("rename_cancel")
    BY <1>5 DEF RenameFs
  <2>2. fuse'.pc = "rename_cancel" /\ fuse'.path = fuse.path /\ fuse'.to = fuse.to /\ Renaming' = r
    BY <1>3, <2>1
  <2> QED BY <1>1, <1>2, <2>1, <2>2, RenamingKeepsInv DEF RenamePcs
<1> QED BY <1>4, <1>5

\* complete_rename, after the rows have changed or because they need not.
LEMMA RenameEndKeeps ==
    ASSUME StoreAnswers, TypeOK', RenamesInv, mount' = mount, RenameCancel \/ RenameComplete
    PROVE  RenamesInv'
<1>1. /\ fuse.pc \in {"rename_cancel", "rename_complete"} /\ fuse.pc \in RenamePcs
      /\ UNCHANGED <<files, disk, mount>>
      /\ fuse'.pc = "idle"
      /\ pending' = CompleteRename(pending, fuse.path)
  BY DEF RenameCancel, RenameComplete, RenamePcs, Reply, FuseIdle, StoreAnswers
<1>2. /\ mount.pc = "up" /\ mount.rows = {} /\ Tree(disk) /\ Fits(disk, files) /\ Full(disk, files)
      /\ pending = {Renaming} /\ Renaming.from = fuse.path
  BY <1>1, RenamingFromInv DEF Unmoved
<1>3. pending' = {}
  <2> HIDE DEF Renaming
  <2> QED BY <1>1, <1>2 DEF CompleteRename
<1>4. Steady'
  BY <1>1, <1>2, <1>3 DEF Steady, Full, RenamePcs, BareRowPcs
<1> QED BY <1>4, SteadyKeepsInv

\* The one statement that renames the rows does not fail.
LEMMA RenameStoreKeeps ==
    ASSUME LiteralNames, StoreAnswers, TypeOK', RenamesInv, mount' = mount, RenameStore
    PROVE  RenamesInv'
<1> DEFINE r == Renaming
<1>1. fuse.pc = "rename_store" /\ fuse.pc \in RenamePcs /\ UNCHANGED <<disk, pending, mount>>
  BY DEF RenameStore, RenamePcs
<1>2. /\ mount.pc = "up" /\ mount.rows = {} /\ Tree(disk)
      /\ pending = {r} /\ r \in RenameRecord
      /\ r.from = fuse.path /\ r.to = fuse.to /\ ~Below(fuse.path, fuse.to)
      /\ HasMoved(disk, files, r) /\ Full(disk, RenameRows(files, r))
      /\ files \in Table
  BY <1>1, RenamingFromInv, Typed DEF RenamesInv
<1>3. ASSUME NEW pc, Goto(pc)
      PROVE  fuse'.pc = pc /\ fuse'.path = fuse.path /\ fuse'.to = fuse.to /\ Renaming' = r
  BY <1>3 DEF Goto, Renaming, RenamesInv, TypeOK, FuseTypeOK, HandlerTypeOK
<1>4. /\ \/ UniquePaths(RenameRows(files, r)) /\ files' = RenameRows(files, r)
            /\ Goto("rename_complete")
         \/ ~UniquePaths(RenameRows(files, r))
  BY DEF RenameStore, Renaming, StoreAnswers
<1> HIDE DEF r
<1>5. files' = RenameRows(files, r) /\ Goto("rename_complete")
  BY <1>2, <1>4 DEF HasMoved, Fits
<1>6. RenameRows(files', r) = files'
  BY <1>2, <1>5, RenamedTwice
<1>7. HasMoved(disk', files', r) /\ Fits(disk', files') /\ Full(disk', files')
  BY <1>1, <1>2, <1>5, <1>6 DEF HasMoved
<1>8. /\ fuse'.pc = "rename_complete" /\ fuse'.path = fuse.path /\ fuse'.to = fuse.to
      /\ Renaming' = r
  BY <1>3, <1>5
<1> QED BY <1>1, <1>2, <1>7, <1>8, RenamingKeepsInv DEF RenamePcs

------------------------------------------------------------------------------
(* The steps of a mount *)

\* A process that is not serving has no handler.
LEMMA OfflineKeepsInv ==
    ASSUME TypeOK', RecordInv', SettlesInv', fuse'.pc = "idle"
    PROVE  RenamesInv'
BY DEF RenamesInv, KnowsInv, RenamePcs, BareRowPcs

LEMMA OfflineFromInv ==
    ASSUME RenamesInv, mount.pc # "up"
    PROVE  fuse.pc = "idle"
BY DEF RenamesInv, KnowsInv

\* The default folders are made where no row and no renamed thing is.
LEMMA FoldersMade ==
    ASSUME DefaultsStay, NEW d \in Disks, NEW e \in Disks, NEW fs \in Table,
           \A p \in DefaultDirs : d[p] \in {None, Directory},
           \A p \in Paths : e[p] = IF p \in DefaultDirs THEN Directory ELSE d[p]
    PROVE  /\ Tree(d) => Tree(e)
           /\ \A gs : Fits(d, gs) => Fits(e, gs)
           /\ \A r \in RenameRecord : /\ Unmoved(d, fs, r) => Unmoved(e, fs, r)
                                      /\ HasMoved(d, fs, r) => HasMoved(e, fs, r)
<1>1. ASSUME Tree(d), NEW p \in Paths, e[p] # None PROVE IsDir(e, Parent(p))
  <2>1. CASE p \in DefaultDirs
    BY <2>1, MountAssumption DEF IsDir
  <2>2. CASE p \notin DefaultDirs
    <3>1. IsDir(d, Parent(p)) /\ Parent(p) \in Paths \cup {Root}
      BY <1>1, <2>2, PathParts DEF Tree
    <3> QED BY <3>1 DEF IsDir
  <2> QED BY <2>1, <2>2
<1>2. ASSUME NEW gs, Fits(d, gs) PROVE Fits(e, gs)
  <2>1. Owned(e, gs)
    BY <1>2, StoreAssumption DEF Fits, Owned
  <2>2. Placed(e, gs)
    BY <1>2 DEF Fits, Placed
  <2> QED BY <1>2, <2>1, <2>2 DEF Fits
<1>3. ASSUME NEW r \in RenameRecord
      PROVE  /\ Unmoved(d, fs, r) => Unmoved(e, fs, r)
             /\ HasMoved(d, fs, r) => HasMoved(e, fs, r)
  <2>1. /\ r.from \in Paths /\ r.to \in Paths
        /\ r.from \notin DefaultDirs /\ r.to \notin DefaultDirs
    <3>1. <<r.from, r.to>> \in Renames /\ <<r.from, r.to>>[1] = r.from /\ <<r.from, r.to>>[2] = r.to
      BY DEF RenameRecord
    <3>2. r.from \in Paths /\ r.to \in Paths
      BY DEF RenameRecord
    <3> QED BY <3>1, <3>2 DEF DefaultsStay
  <2>2. e[r.from] = d[r.from] /\ e[r.to] = d[r.to]
    BY <2>1
  <2> QED BY <1>2, <2>2 DEF Unmoved, HasMoved
<1> QED BY <1>1, <1>2, <1>3 DEF Tree

LEMMA MountStartKeeps ==
    ASSUME DefaultsStay, TypeOK', RenamesInv, fuse' = fuse, MountStart
    PROVE  RenamesInv'
<1>1. /\ mount.pc # "up" /\ fuse.pc = "idle" /\ UNCHANGED <<files, pending>>
      /\ files \in Table /\ disk \in Disks /\ disk' \in Disks
  <2>1. mount.pc # "up" /\ UNCHANGED <<files, pending>>
    BY DEF MountStart
  <2> QED BY <2>1, OfflineFromInv, Typed DEF RenamesInv, TypeOK, StoreTypeOK, Disks
<1>2. /\ \A p \in DefaultDirs : disk[p] \in {None, Directory}
      /\ \A p \in Paths : disk'[p] = IF p \in DefaultDirs THEN Directory ELSE disk[p]
  BY DEF MountStart
<1>3. /\ Tree(disk) => Tree(disk')
      /\ Fits(disk, files) => Fits(disk', files)
      /\ \A r \in RenameRecord : /\ Unmoved(disk, files, r) => Unmoved(disk', files, r)
                                 /\ HasMoved(disk, files, r) => HasMoved(disk', files, r)
  BY <1>1, <1>2, FoldersMade
<1>4. RecordInv'
  <2>1. Tree(disk)'
    BY <1>3 DEF RenamesInv, RecordInv
  <2>2. CASE pending = {} /\ Fits(disk, files)
    BY <1>1, <1>3, <2>1, <2>2 DEF RecordInv
  <2>3. ASSUME NEW r \in RenameRecord,
               pending = {r} /\ ~Below(r.from, r.to) /\ (Unmoved(disk, files, r) \/ HasMoved(disk, files, r))
        PROVE  RecordInv'
    <3>1. Unmoved(disk', files, r) \/ HasMoved(disk', files, r)
      BY <1>3, <2>3
    <3> QED BY <1>1, <2>1, <2>3, <3>1 DEF RecordInv
  <2> QED BY <2>2, <2>3 DEF RenamesInv, RecordInv
<1>5. /\ mount'.pc = IF pending = {} THEN "list" ELSE "renames"
      /\ mount'.renames = pending /\ mount'.rows = {}
  BY DEF MountStart
<1>6. SettlesInv'
  BY <1>1, <1>5 DEF SettlesInv
<1> QED BY <1>1, <1>4, <1>6, OfflineKeepsInv

\* A recorded rename is never one reconcile cannot settle.
LEMMA MountRenameKeeps ==
    ASSUME LiteralNames, TypeOK', RenamesInv, fuse' = fuse, MountRename
    PROVE  RenamesInv'
<1>1. /\ mount.pc = "renames" /\ fuse.pc = "idle" /\ UNCHANGED <<disk, pending>>
      /\ files \in Table /\ mount.rows = {} /\ mount.renames = pending
      /\ mount \in [pc : MountPcs, renames : SUBSET RenameRecord,
                    rows : SUBSET [id : Ids, path : Paths \cup {Root}]]
  <2>1. mount.pc = "renames" /\ UNCHANGED <<disk, pending>>
    BY DEF MountRename
  <2> QED BY <2>1, OfflineFromInv, Typed DEF RenamesInv, SettlesInv, TypeOK, MountTypeOK
<1>2. PICK r \in pending :
          \/ /\ Moved(r) /\ UniquePaths(RenameRows(files, r))
             /\ files' = RenameRows(files, r)
             /\ mount' = [mount EXCEPT !.pc = "complete", !.renames = {r}]
          \/ /\ NotMoved(r)
             /\ files' = files
             /\ mount' = [mount EXCEPT !.pc = "complete", !.renames = {r}]
          \/ /\ ~NotMoved(r) /\ ~(Moved(r) /\ UniquePaths(RenameRows(files, r)))
  BY <1>1 DEF MountRename
<1>3. /\ r \in RenameRecord /\ pending = {r} /\ ~Below(r.from, r.to) /\ Tree(disk)
      /\ Unmoved(disk, files, r) \/ HasMoved(disk, files, r)
  <2>1. pending # {} /\ \A q : pending = {q} => q = r
    BY <1>2
  <2> QED BY <2>1 DEF RenamesInv, RecordInv
<1>4. /\ mount' = [mount EXCEPT !.pc = "complete", !.renames = {r}]
      /\ Fits(disk, files')
      /\ Unmoved(disk, files', r) \/ HasMoved(disk, files', r)
  <2>1. CASE Unmoved(disk, files, r)
    <3>1. NotMoved(r) /\ ~Moved(r)
      BY <2>1 DEF Unmoved, NotMoved, Moved
    <3> QED BY <1>2, <2>1, <3>1 DEF Unmoved
  <2>2. CASE HasMoved(disk, files, r)
    <3>1. Moved(r) /\ ~NotMoved(r) /\ UniquePaths(RenameRows(files, r))
      BY <2>2 DEF HasMoved, NotMoved, Moved, Fits
    <3>2. /\ files' = RenameRows(files, r)
          /\ mount' = [mount EXCEPT !.pc = "complete", !.renames = {r}]
      BY <1>2, <3>1
    <3>3. RenameRows(files', r) = files'
      BY <1>1, <1>3, <3>2, RenamedTwice
    <3>4. Fits(disk, files')
      BY <2>2, <3>2 DEF HasMoved
    <3> QED BY <2>2, <3>2, <3>3, <3>4 DEF HasMoved
  <2> QED BY <1>3, <2>1, <2>2
<1>5. RecordInv'
  BY <1>1, <1>3, <1>4 DEF RecordInv
<1>6. mount'.pc = "complete" /\ mount'.renames = {r} /\ mount'.rows = {}
  BY <1>1, <1>4
<1>7. SettlesInv'
  BY <1>1, <1>3, <1>4, <1>6 DEF SettlesInv
<1> QED BY <1>1, <1>5, <1>7, OfflineKeepsInv

LEMMA MountCompleteKeeps ==
    ASSUME TypeOK', RenamesInv, fuse' = fuse, MountComplete
    PROVE  RenamesInv'
<1>1. /\ mount.pc = "complete" /\ fuse.pc = "idle" /\ UNCHANGED <<files, disk>>
      /\ mount.rows = {} /\ mount.renames = pending
      /\ Fits(disk, files) /\ Tree(disk)
      /\ mount \in [pc : MountPcs, renames : SUBSET RenameRecord,
                    rows : SUBSET [id : Ids, path : Paths \cup {Root}]]
  <2>1. mount.pc = "complete" /\ UNCHANGED <<files, disk>>
    BY DEF MountComplete
  <2> QED BY <2>1, OfflineFromInv DEF RenamesInv, SettlesInv, RecordInv, TypeOK, MountTypeOK
<1>2. PICK r \in pending :
          /\ pending' = CompleteRename(pending, r.from)
          /\ mount' = [mount EXCEPT !.pc = IF pending' = {} THEN "list" ELSE "renames",
                                    !.renames = pending']
  BY <1>1 DEF MountComplete
<1>3. pending = {r}
  <2>1. pending # {} /\ \A q : pending = {q} => q = r
    BY <1>2
  <2> QED BY <2>1 DEF RenamesInv, RecordInv
<1>4. pending' = {}
  BY <1>2, <1>3 DEF CompleteRename
<1>5. mount'.pc = "list" /\ mount'.rows = {}
  BY <1>1, <1>2, <1>4
<1>6. RecordInv' /\ SettlesInv'
  BY <1>1, <1>4, <1>5 DEF RecordInv, SettlesInv
<1> QED BY <1>1, <1>6, OfflineKeepsInv

LEMMA MountListKeeps ==
    ASSUME TypeOK', RenamesInv, fuse' = fuse, MountList
    PROVE  RenamesInv'
<1>1. /\ mount.pc = "list" /\ fuse.pc = "idle" /\ UNCHANGED <<files, disk, pending>>
      /\ mount \in [pc : MountPcs, renames : SUBSET RenameRecord,
                    rows : SUBSET [id : Ids, path : Paths \cup {Root}]]
  <2>1. mount.pc = "list" /\ UNCHANGED <<files, disk, pending>>
    BY DEF MountList, storeVars
  <2> QED BY <2>1, OfflineFromInv DEF RenamesInv, TypeOK, MountTypeOK
<1>2. pending = {}
  BY <1>1 DEF RenamesInv, SettlesInv, RenamePcs
<1>3. RecordInv'
  BY <1>1 DEF RenamesInv, RecordInv
<1>4. /\ mount'.pc = "missing"
      /\ mount'.rows = {[id |-> id, path |-> files[id].path] : id \in Active(files)}
  BY <1>1 DEF MountList
<1>5. ASSUME NEW row \in mount'.rows PROVE row.path = files[row.id].path
  <2>1. PICK id \in Active(files) : row = [id |-> id, path |-> files[id].path]
    BY <1>4
  <2>2. row.id = id /\ row.path = files[id].path
    BY <2>1
  <2> QED BY <2>2
<1>6. ASSUME NEW id \in Active(files) PROVE \E row \in mount'.rows : row.id = id
  <2> DEFINE row == [id |-> id, path |-> files[id].path]
  <2>1. row.id = id /\ row \in mount'.rows
    BY <1>4
  <2> HIDE DEF row
  <2> QED BY <2>1
<1>7. mount'.pc = "missing"
  BY <1>4
<1>8. SettlesInv'
  BY <1>1, <1>2, <1>5, <1>6, <1>7 DEF SettlesInv
<1> QED BY <1>1, <1>3, <1>8, OfflineKeepsInv

\* A row goes with the file it had lost; the others keep theirs.
LEMMA MountMissingKeepsInv ==
    ASSUME TypeOK', RenamesInv, fuse' = fuse, MountMissing
    PROVE  RenamesInv'
<1>1. /\ mount.pc = "missing" /\ fuse.pc = "idle" /\ UNCHANGED <<disk, pending>>
      /\ files \in Table /\ Active(files) \subseteq Ids
      /\ mount \in [pc : MountPcs, renames : SUBSET RenameRecord,
                    rows : SUBSET [id : Ids, path : Paths \cup {Root}]]
  <2>1. mount.pc = "missing" /\ UNCHANGED <<disk, pending>>
    BY DEF MountMissing
  <2> QED BY <2>1, OfflineFromInv, Typed DEF RenamesInv, TypeOK, MountTypeOK
<1>2. /\ pending = {} /\ Tree(disk) /\ Fits(disk, files)
      /\ \A row \in mount.rows : row.path = files[row.id].path
      /\ \A id \in Active(files) : disk[files[id].path] = id \/ \E row \in mount.rows : row.id = id
  <2>1. pending = {}
    BY <1>1 DEF RenamesInv, SettlesInv, RenamePcs
  <2> QED BY <1>1, <2>1 DEF RenamesInv, SettlesInv, RecordInv
<1>3. PICK row \in mount.rows :
          /\ files' = IF disk[row.path] = None THEN MarkDeleted(files, row.id) ELSE files
          /\ mount' = [mount EXCEPT !.rows = @ \ {row}]
  BY DEF MountMissing
<1>4. row.id \in Ids /\ row.path = files[row.id].path
  BY <1>1, <1>2
<1>5. /\ mount'.pc = "missing" /\ mount'.rows = mount.rows \ {row}
  BY <1>1, <1>3
<1>6. \A id \in Ids : files'[id] = IF id = row.id /\ disk[row.path] = None
                                     THEN [files[id] EXCEPT !.state = "deleted"] ELSE files[id]
  BY <1>1, <1>3, <1>4 DEF MarkDeleted, Table
<1>7. /\ Active(files') = {id \in Active(files) : ~(id = row.id /\ disk[row.path] = None)}
      /\ \A id \in Ids : files'[id].path = files[id].path
  BY <1>1, <1>6 DEF Active, Table, Row
<1>8. Fits(disk, files')
  <2>1. Owned(disk, files')
    <3>1. ASSUME NEW q \in Paths, disk[q] \in Ids PROVE disk[q] \in ActiveAt(files', q)
      <4>1. disk[q] \in Active(files) /\ files[disk[q]].path = q
        BY <1>2, <3>1 DEF Fits, Owned, ActiveAt
      <4> QED BY <1>4, <1>7, <3>1, <4>1, StoreAssumption DEF ActiveAt
    <3> QED BY <3>1 DEF Owned
  <2>2. Placed(disk, files')
    BY <1>1, <1>2, <1>7 DEF Fits, Placed
  <2>3. UniquePaths(files')
    BY <1>1, <1>2, <1>7 DEF Fits, UniquePaths
  <2> QED BY <2>1, <2>2, <2>3 DEF Fits
<1>9. RecordInv'
  BY <1>1, <1>2, <1>8 DEF RecordInv
<1>10. ASSUME NEW id \in Active(files')
       PROVE  disk[files'[id].path] = id \/ \E other \in mount'.rows : other.id = id
  <2>1. id \in Active(files) /\ files'[id].path = files[id].path
    BY <1>1, <1>7
  <2>2. CASE id = row.id
    <3>1. disk[files[id].path] # None /\ disk[files[id].path] \in {id, None}
      BY <1>2, <1>4, <1>7, <2>1, <2>2 DEF Fits, Placed
    <3> QED BY <2>1, <3>1
  <2>3. CASE id # row.id
    BY <1>2, <1>5, <2>1, <2>3
  <2> QED BY <2>2, <2>3
<1>11. \A other \in mount'.rows : other.path = files'[other.id].path
  BY <1>1, <1>2, <1>5, <1>7
<1>12. SettlesInv'
  BY <1>1, <1>2, <1>5, <1>10, <1>11 DEF SettlesInv
<1> QED BY <1>1, <1>9, <1>12, OfflineKeepsInv

\* Every file is tracked, so that the session starts or an audit line fails.
LEMMA MountFinishKeeps ==
    ASSUME TypeOK', RenamesInv, fuse' = fuse, MountFinish
    PROVE  RenamesInv'
<1>1. /\ mount.pc = "missing" /\ mount.rows = {} /\ fuse.pc = "idle" /\ UNCHANGED <<disk, pending>>
      /\ files \in Table /\ Active(files) \subseteq Ids
      /\ mount \in [pc : MountPcs, renames : SUBSET RenameRecord,
                    rows : SUBSET [id : Ids, path : Paths \cup {Root}]]
  <2>1. mount.pc = "missing" /\ mount.rows = {} /\ UNCHANGED <<disk, pending>>
    BY DEF MountFinish
  <2> QED BY <2>1, OfflineFromInv, Typed DEF RenamesInv, TypeOK, MountTypeOK
<1>2. /\ pending = {} /\ Tree(disk) /\ Fits(disk, files) /\ Full(disk, files)
  <2>1. pending = {}
    BY <1>1 DEF RenamesInv, SettlesInv, RenamePcs
  <2> QED BY <1>1, <2>1 DEF RenamesInv, SettlesInv, RecordInv, Full
<1>3. Untracked = {}
  BY <1>2 DEF Fits, Owned, Untracked
<1>4. /\ files' = ExpireDue(files, clock)
      /\ mount' = [mount EXCEPT !.pc = "up"] \/ mount' = MountDown
  BY <1>3 DEF MountFinish
<1>5. Fits(disk, files') /\ Full(disk, files')
  BY <1>1, <1>2, <1>4, SameExpired, SameFits
<1>6. RecordInv'
  BY <1>1, <1>2, <1>5 DEF RecordInv
<1>7. mount'.pc \in {"up", "down"} /\ mount'.rows = {}
  BY <1>1, <1>4 DEF MountDown
<1>8. SettlesInv'
  BY <1>1, <1>2, <1>5, <1>7 DEF SettlesInv, Full
<1> QED BY <1>1, <1>6, <1>8, OfflineKeepsInv

\* The session ends, or the process does: whatever rename was in progress is
\* recorded.
LEMMA StopKeeps ==
    ASSUME TypeOK', RenamesInv, UNCHANGED <<files, disk, pending>>,
           mount'.pc \in {"down", "stopping"}, mount'.rows = {}, fuse'.pc = "idle"
    PROVE  RenamesInv'
<1>1. RecordInv'
  BY DEF RenamesInv, RecordInv
<1>2. SettlesInv'
  BY DEF SettlesInv
<1> QED BY <1>1, <1>2, OfflineKeepsInv

------------------------------------------------------------------------------
\* Every step keeps the invariant.
LEMMA RenamesInvStays ==
    ASSUME NoPasses, LiteralNames, DefaultsStay, StoreAnswers, RenamesInv, [Next]_vars
    PROVE  RenamesInv'
<1>0. TypeOK /\ TypeOK' /\ files \in Table
  BY NextTyped, Typed DEF RenamesInv
<1>s. SameRows(files, files) /\ \A now : SameRows(files, ExpireDue(files, now))
  BY <1>0, SameExpired DEF SameRows
<1>1. CASE UNCHANGED <<disk, pending, fuse, mount>> /\ SameRows(files, files')
  BY <1>0, <1>1, QuietStep
<1>2. CASE Tick \/ ClockJump \/ Observe \/ UNCHANGED vars
  <2>1. UNCHANGED <<disk, pending, fuse, mount>>
    BY <1>2 DEF Tick, ClockJump, Observe, vars
  <2>2. files' = files \/ files' = ExpireDue(files, clock)
    BY <1>2 DEF Tick, ClockJump, Observe, vars
  <2> QED BY <1>1, <1>s, <2>1, <2>2
<1>3. ASSUME NEW c \in Recoverers, Recovering(c) PROVE RenamesInv'
  <2>1. UNCHANGED <<disk, pending, fuse, mount>>
    BY <1>3 DEF Recovering, RecoverNext, RecoverStart, RecoverLookup, RecoverOpen, RecoverVerify,
                RecoverWindow, RecoverPublish, RecoverKill, storeVars
  <2>2. files' = files \/ files' = ExpireDue(files, recover[c].now)
    BY <1>3 DEF Recovering, RecoverNext, RecoverStart, RecoverLookup, RecoverOpen, RecoverVerify,
                RecoverWindow, RecoverPublish, RecoverKill, storeVars
  <2> QED BY <1>1, <1>s, <2>1, <2>2
<1>4. CASE Serve
  <2>1. mount.pc = "up" /\ mount' = mount /\ FuseRequest /\ fuse.pc = "idle"
    BY <1>4 DEF Serve, FuseRequest, FuseAccess, CreateStart, OpenCheck, UnlinkCheck, Mkdir,
                Rmdir, RenameStart, Release
  <2>2. CASE FuseAccess
    <3>1. UNCHANGED <<disk, pending, fuse, mount>> /\ files' = ExpireDue(files, clock)
      BY <2>1, <2>2 DEF FuseAccess
    <3> QED BY <1>1, <1>s, <3>1
  <2>3. ASSUME NEW h \in handles, Release(h) PROVE RenamesInv'
    <3>1. UNCHANGED <<files, disk, pending, fuse, mount>>
      BY <2>1, <2>3 DEF Release, storeVars
    <3> QED BY <1>1, <1>s, <3>1
  <2>4. CASE \E p \in Paths : CreateStart(p) \/ OpenCheck(p) \/ UnlinkCheck(p)
                                \/ Mkdir(p) \/ Rmdir(p)
    BY <1>0, <2>1, <2>4, SteadyStep DEF RenamePcs
  <2>5. ASSUME NEW r \in Renames, RenameStart(r[1], r[2]) PROVE RenamesInv'
    BY <1>0, <2>1, <2>5, RenameStartKeeps
  <2> QED BY <2>1, <2>2, <2>3, <2>4, <2>5 DEF FuseRequest
<1>5. CASE Handle
  <2>1. FuseStep /\ mount' = mount
    BY <1>5 DEF Handle
  <2>2. CASE CreateInsert \/ CreateOpen \/ CreateAttr \/ CreateRemove \/ CreateUndo
               \/ OpenFile \/ UnlinkFile \/ UnlinkMark
    <3>1. fuse.pc # "idle" /\ fuse.pc \notin RenamePcs
      BY <2>2 DEF CreateInsert, CreateOpen, CreateAttr, CreateRemove, CreateUndo, OpenFile,
                  UnlinkFile, UnlinkMark, RenamePcs
    <3>2. mount.pc = "up"
      BY <3>1 DEF RenamesInv, KnowsInv
    <3> QED BY <1>0, <2>1, <2>2, <3>1, <3>2, SteadyStep
  <2> QED BY <1>0, <2>1, <2>2, RenameFsKeeps, RenameEndKeeps, RenameStoreKeeps DEF FuseStep
<1>6. CASE Mounting
  <2>1. MountStep /\ fuse' = fuse
    BY <1>6 DEF Mounting
  <2> QED BY <1>0, <2>1, MountStartKeeps, MountRenameKeeps, MountCompleteKeeps, MountListKeeps,
             MountMissingKeepsInv, MountFinishKeeps DEF MountStep
<1>7. CASE Unmount \/ Join \/ Crash
  <2>1. UNCHANGED <<files, disk, pending>>
    BY <1>7 DEF Unmount, MountStop, Join, MountJoin, Crash, storeVars
  <2>2. mount'.pc \in {"down", "stopping"} /\ mount'.rows = {}
    <3>1. CASE Unmount
      BY <3>1 DEF Unmount, MountStop, RenamesInv, SettlesInv, TypeOK, MountTypeOK
    <3>2. CASE Join \/ Crash
      BY <3>2 DEF Join, MountJoin, Crash, MountDown
    <3> QED BY <1>7, <3>1, <3>2
  <2>3. fuse'.pc = "idle"
    <3>1. CASE Unmount
      BY <3>1 DEF Unmount
    <3>2. CASE Crash
      BY <3>2 DEF Crash, FuseIdle
    <3>3. CASE Join
      <4>1. mount.pc = "stopping" /\ fuse' = fuse
        BY <3>3 DEF Join, MountJoin
      <4> QED BY <4>1, OfflineFromInv
    <3> QED BY <1>7, <3>1, <3>2, <3>3
  <2> QED BY <1>0, <2>1, <2>2, <2>3, StopKeeps
<1> QED BY <1>2, <1>3, <1>4, <1>5, <1>6, <1>7 DEF Next, NoPasses

LEMMA RenamesInvStarts == Init => RenamesInv
<1> SUFFICES ASSUME Init PROVE RenamesInv
  OBVIOUS
<1>1. TypeOK
  BY InitTyped
<1>2. /\ fuse.pc = "idle" /\ mount.pc = "down" /\ mount.rows = {} /\ pending = {}
      /\ \A p \in Paths : disk[p] = None
      /\ \A id \in Ids : files[id].state = "none"
  BY DEF Init, FuseInit, FuseIdle, MountInit, MountDown, StoreInit, NoRow
<1>3. Active(files) = {}
  BY <1>2 DEF Active
<1>4. RecordInv
  BY <1>2, <1>3, StoreAssumption DEF RecordInv, Tree, Fits, Owned, Placed, UniquePaths
<1>5. KnowsInv
  BY <1>2 DEF KnowsInv, RenamePcs, BareRowPcs
<1>6. SettlesInv
  BY <1>2 DEF SettlesInv
<1> QED BY <1>1, <1>4, <1>5, <1>6 DEF RenamesInv

LEMMA RenamesFit ==
    ASSUME NoPasses, LiteralNames, DefaultsStay, StoreAnswers
    PROVE  Spec => []RenamesInv
<1>1. RenamesInv /\ [Next]_vars => RenamesInv'
  BY RenamesInvStays
<1> QED BY <1>1, RenamesInvStarts, PTL DEF Spec

\* While no reaper runs, no statement of the store fails, names have no LIKE
\* wildcard and the default folders stay, a session that serves has between two
\* requests exactly the rows its files need and no rename recorded: after any
\* crash between begin_rename, rename(2), the UPDATE of the rows and
\* complete_rename, reconcile_pending_renames finishes or forgets the rename,
\* of a file or of a whole directory.
THEOREM RenamesAlwaysSettle ==
    ASSUME NoPasses, LiteralNames, DefaultsStay, StoreAnswers
    PROVE  Spec => []RenamesSettled
<1>1. RenamesInv => RenamesSettled
  <2> SUFFICES ASSUME RenamesInv, mount.pc = "up", fuse.pc = "idle"
               PROVE  /\ pending = {}
                      /\ \A p \in Paths : disk[p] \in Ids => disk[p] \in ActiveAt(files, p)
                      /\ \A id \in Active(files) : disk[files[id].path] = id
    BY DEF RenamesSettled
  <2>1. fuse.pc \notin RenamePcs /\ fuse.pc \notin BareRowPcs
    BY DEF RenamePcs, BareRowPcs
  <2>2. Steady
    BY <2>1, SteadyFromInv
  <2> QED BY <2>1, <2>2 DEF Steady, Fits, Owned
<1> QED BY <1>1, RenamesFit, PTL

\* Under the same conditions no rename, interrupted where it may, makes a later
\* mount refuse: the two stats of reconcile_pending_renames never find both
\* places or none, and the rows it renames never meet the unique index.
THEOREM MountsAcceptRenames ==
    ASSUME NoPasses, LiteralNames, DefaultsStay, StoreAnswers
    PROVE  Spec => []NeverRefused
<1>1. RenamesInv => NeverRefused
  BY DEF RenamesInv, SettlesInv, NeverRefused
<1> QED BY <1>1, RenamesFit, PTL

\* ... and an alive file has its own bytes at its own path between two requests
\* of a session, wherever it has been renamed to.
THEOREM RenamedFilesKeepTheirBytes ==
    ASSUME NoPasses, LiteralNames, DefaultsStay, StoreAnswers
    PROVE  Spec => []AliveKeepsBytes
<1>1. RenamesSettled => AliveKeepsBytes
  BY DEF RenamesSettled, AliveKeepsBytes, Active
<1> QED BY <1>1, RenamesAlwaysSettle, PTL
=============================================================================
