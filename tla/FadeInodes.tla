------------------------------ MODULE FadeInodes ------------------------------
(***************************************************************************)
(* The numbers by which the kernel and the handlers speak of names         *)
(* (src/fuse_fs.rs): the two tables of DevFuse, how lookup, create, mkdir, *)
(* unlink, rmdir, rename and readdir keep them, and a directory listing    *)
(* that the kernel reads in several calls.  The kernel keeps, per name,    *)
(* the number it was last told, and passes numbers, never paths.           *)
(*                                                                         *)
(* What a name shows is one value here: FadeFuse and FadeReaper say how a  *)
(* file appears and, by expiry, disappears without a request.              *)
(***************************************************************************)
EXTENDS FadePath, FiniteSets

CONSTANTS
    Order,      \* the names in the order of sort_by_key: a sequence
    DirPaths,   \* the paths that can be directories; the others can be files
    Renames,    \* the workload: <<from, to>> pairs of rename
    MaxIno,     \* bound: the numbers handed out
    MaxReply    \* bound: the entries that fit in one reply of readdir

\* RelativePath refuses the segments "." and "..", the kernel refuses to rename
\* a directory into itself or onto one it is in, and the bounded namespace holds
\* what a rename of the workload takes away and brings.
ASSUME InodesAssumption ==
    /\ Order \in Seq(Names)
    /\ \A n \in Names : \E i \in 1..Len(Order) : Order[i] = n
    /\ \A i, j \in 1..Len(Order) : Order[i] = Order[j] => i = j
    /\ {".", ".."} \cap Names = {}
    /\ DirPaths \subseteq Paths
    /\ Renames \subseteq Paths \X Paths
    /\ \A r \in Renames : ~Within(r[1], r[2]) /\ ~Within(r[2], r[1])
    /\ \A r \in Renames, p \in Paths :
          /\ Within(p, r[1]) => Rebase(p, r[1], r[2]) \in Paths
          /\ Within(p, r[2]) => Rebase(p, r[2], r[1]) \in Paths
    /\ MaxIno \in Nat \ {0} /\ MaxReply \in Nat \ {0}

VARIABLES
    shown,         \* what visible_attr finds at each path
    paths_by_ino,
    inos_by_path,
    next_ino,
    dentry,        \* the kernel's number for each name, or NoIno
    listing        \* the open listing: the directory's number, the offset to
                   \* resume at, the names read, whether the end was reached,
                   \* and the names that came or went since it was opened

tables == <<paths_by_ino, inos_by_path, next_ino>>
inodeVars == <<shown, tables, dentry, listing>>

ROOT_INO == 1
NoIno == 0
Nowhere == <<".">>
Inos == ROOT_INO..MaxIno

Closed == [ino |-> NoIno, offset |-> 0, names |-> <<>>, ended |-> FALSE, touched |-> {}]

TypeOK ==
    /\ shown \in [Paths -> {"none", "file", "dir"}]
    /\ paths_by_ino \in [Inos -> Paths \cup {Root, Nowhere}]
    /\ inos_by_path \in [Paths -> Inos \cup {NoIno}]
    /\ next_ino \in Inos \cup {MaxIno + 1}
    /\ dentry \in [Paths -> Inos \cup {NoIno}]
    /\ listing \in [ino: Inos \cup {NoIno}, offset: Nat, names: Seq(Names \cup {".", ".."}),
                    ended: BOOLEAN, touched: SUBSET Names]

\* DevFuse::new
Init ==
    /\ shown = [p \in Paths |-> "none"]
    /\ paths_by_ino = [i \in Inos |-> IF i = ROOT_INO THEN Root ELSE Nowhere]
    /\ inos_by_path = [p \in Paths |-> NoIno]
    /\ next_ino = ROOT_INO + 1
    /\ dentry = [p \in Paths |-> NoIno]
    /\ listing = Closed

------------------------------------------------------------------------------
(* The tables *)

\* inode_for_path, for each path of a sequence in turn: those without a number
\* are given the next ones, in order.
InodesFor(ps) ==
    LET fresh == {i \in 1..Len(ps) : ps[i] # Root /\ inos_by_path[ps[i]] = NoIno}
        number(i) == next_ino + Cardinality({j \in fresh : j < i})
    IN /\ next_ino + Cardinality(fresh) <= MaxIno + 1
       /\ next_ino' = next_ino + Cardinality(fresh)
       /\ inos_by_path' = [p \in Paths |-> IF \E i \in fresh : ps[i] = p
                                             THEN number(CHOOSE i \in fresh : ps[i] = p)
                                             ELSE inos_by_path[p]]
       /\ paths_by_ino' = [n \in Inos |-> IF \E i \in fresh : number(i) = n
                                            THEN ps[CHOOSE i \in fresh : number(i) = n]
                                            ELSE paths_by_ino[n]]

\* Mutant: the number stays in inos_by_path.
ForgetPathHalf(p) ==
    /\ paths_by_ino' = [i \in Inos |-> IF inos_by_path[p] = i THEN Nowhere ELSE paths_by_ino[i]]
    /\ UNCHANGED <<inos_by_path, next_ino>>

\* remove_inode_for_path
RemoveInode(p) ==
    /\ paths_by_ino' = [i \in Inos |-> IF inos_by_path[p] = i THEN Nowhere ELSE paths_by_ino[i]]
    /\ inos_by_path' = [inos_by_path EXCEPT ![p] = NoIno]
    /\ UNCHANGED next_ino

\* Mutant: only the path itself moves, not what is below it.
RenameInodeAlone(from, to) ==
    /\ paths_by_ino' = [i \in Inos |-> IF paths_by_ino[i] = from THEN to ELSE paths_by_ino[i]]
    /\ inos_by_path' = [inos_by_path EXCEPT ![from] = NoIno, ![to] = inos_by_path[from]]
    /\ UNCHANGED next_ino

\* Mutant: the whole old path is put below the new one.
RenameInodesWhole(from, to) ==
    /\ paths_by_ino' = [i \in Inos |-> IF Within(paths_by_ino[i], from)
                                        THEN to \o paths_by_ino[i] ELSE paths_by_ino[i]]
    /\ UNCHANGED <<inos_by_path, next_ino>>

\* rename_inode_paths.  Several numbers can have one path; paths_by_ino is a
\* HashMap, and which of them inos_by_path is left with depends on its order.
RenameInodes(from, to) ==
    LET moved == {i \in Inos : Within(paths_by_ino[i], from)}
        new(i) == Rebase(paths_by_ino[i], from, to)
    IN /\ paths_by_ino' = [i \in Inos |-> IF i \in moved THEN new(i) ELSE paths_by_ino[i]]
       /\ \E last \in [{new(i) : i \in moved} -> moved] :
             /\ \A p \in DOMAIN last : new(last[p]) = p
             /\ inos_by_path' = [p \in Paths |->
                    IF p \in DOMAIN last THEN last[p]
                    ELSE IF \E i \in moved : paths_by_ino[i] = p THEN NoIno
                    ELSE inos_by_path[p]]
       /\ UNCHANGED next_ino

------------------------------------------------------------------------------
(* The kernel *)

\* It asks below a directory whose number it holds.
Known(p) == p = Root \/ (p \in Paths /\ dentry[p] # NoIno)
Number(p) == IF p = Root THEN ROOT_INO ELSE dentry[p]

\* child_path: the path the handler works on when the kernel means p.
ChildPath(p) == Append(paths_by_ino[Number(Parent(p))], p[Len(p)])

Drop(p) == dentry' = [q \in Paths |-> IF Within(q, p) THEN NoIno ELSE dentry[q]]

DirShown(p) == p = Root \/ (p \in Paths /\ shown[p] = "dir")

------------------------------------------------------------------------------
(* Requests.  q is the path the handler works on. *)

Lookup(p) ==
    /\ Known(Parent(p))
    /\ LET q == ChildPath(p)
       IN IF q \in Paths /\ shown[q] # "none"
            THEN InodesFor(<<q>>) /\ dentry' = [dentry EXCEPT ![p] = inos_by_path'[q]]
            ELSE Drop(p) /\ UNCHANGED tables
    /\ UNCHANGED shown

\* visible_attr of the path a number has: it may give that path a number.
Getattr(i) ==
    /\ i \in {dentry[p] : p \in Paths}
    /\ paths_by_ino[i] \in Paths /\ shown[paths_by_ino[i]] # "none"
    /\ InodesFor(<<paths_by_ino[i]>>)
    /\ UNCHANGED <<shown, dentry>>

\* create and mkdir
Make(p) ==
    /\ Known(Parent(p))
    /\ LET q == ChildPath(p)
       IN /\ q \in Paths /\ shown[q] = "none" /\ DirShown(Parent(q))
          /\ shown' = [shown EXCEPT ![q] = IF q \in DirPaths THEN "dir" ELSE "file"]
          /\ InodesFor(<<q>>)
          /\ dentry' = [dentry EXCEPT ![p] = inos_by_path'[q]]

\* unlink and rmdir
Unmake(p) ==
    /\ Known(Parent(p)) /\ Known(p)
    /\ LET q == ChildPath(p)
       IN /\ q \in Paths /\ shown[q] # "none"
          /\ \A below \in Paths : Below(below, q) => shown[below] = "none"
          /\ shown' = [shown EXCEPT ![q] = "none"]
          /\ RemoveInode(q)
    /\ Drop(p)

Rename(p, to) ==
    /\ <<p, to>> \in Renames
    /\ Known(p) /\ Known(Parent(to))
    /\ LET q == ChildPath(p)
           r == ChildPath(to)
       IN /\ {q, r} \subseteq Paths
          /\ shown[q] # "none" /\ shown[r] = "none" /\ DirShown(Parent(r))
          /\ shown' = [x \in Paths |-> IF Within(x, r) THEN shown[Rebase(x, r, q)]
                                       ELSE IF Within(x, q) THEN "none" ELSE shown[x]]
          /\ RenameInodes(q, r)
    /\ dentry' = [x \in Paths |-> IF Within(x, to) THEN dentry[Rebase(x, to, p)]
                                  ELSE IF Within(x, p) THEN NoIno ELSE dentry[x]]

\* A file expires and is reclaimed, or a request that removed it fails later:
\* no table is touched, the kernel is not told.
Vanish(p) ==
    /\ shown[p] = "file"
    /\ shown' = [shown EXCEPT ![p] = "none"]
    /\ UNCHANGED <<tables, dentry>>

\* The kernel's cache gives up a name.
Forget(p) ==
    /\ Known(p)
    /\ Drop(p)
    /\ UNCHANGED <<shown, tables>>

------------------------------------------------------------------------------
(* readdir *)

ListedPath == paths_by_ino[listing.ino]

ChildrenIn(view, dir) == {p[Len(p)] : p \in {q \in Paths : Parent(q) = dir /\ view[q] # "none"}}
Children(dir) == ChildrenIn(shown, dir)

Before(m, n) ==
    \E i, j \in 1..Len(Order) : i < j /\ Order[i] = m /\ Order[j] = n

\* sort_by_key: the one sequence of a set of names that is in order.
Sorted(S) ==
    {s \in [1..Cardinality(S) -> S] : \A i, j \in 1..Cardinality(S) : i < j => Before(s[i], s[j])}

\* The paths that are given numbers on the way: the parent, then the children.
ListingPaths(dir, names) ==
    (IF dir = Root THEN <<>> ELSE <<Parent(dir)>>)
        \o [i \in 1..Len(names) |-> Append(dir, names[i])]

Opendir(p) ==
    /\ listing = Closed
    /\ Known(p) /\ DirShown(p)
    /\ listing' = [Closed EXCEPT !.ino = Number(p)]

\* Mutant: the cookie is the index of the entry itself.
NextOffsetSame(offset, count) == IF count = 0 THEN offset ELSE offset + count - 1

\* The cookie of an entry is one past its index.
NextOffset(offset, count) == offset + count

\* What fits from an offset on.
Reply(entries, offset) ==
    SubSeq(entries, offset + 1,
           IF offset + MaxReply < Len(entries) THEN offset + MaxReply ELSE Len(entries))

\* One call: the listing is made anew, "." and ".." first, and the reply takes what fits from the
\* offset on.  An empty reply ends the listing.
Readdir ==
    /\ listing.ino # NoIno /\ ~listing.ended
    /\ ListedPath # Nowhere /\ DirShown(ListedPath)
    /\ \E names \in Sorted(Children(ListedPath)) :
          LET entries == <<".", "..">> \o names
              reply == Reply(entries, listing.offset)
          IN /\ InodesFor(ListingPaths(ListedPath, names))
             /\ listing' = [listing EXCEPT !.offset = NextOffset(@, Len(reply)),
                                           !.names = @ \o reply,
                                           !.ended = reply = <<>>]
    /\ UNCHANGED <<shown, dentry>>

\* The reader closes the directory.
Closedir ==
    /\ listing # Closed
    /\ listing' = Closed
    /\ UNCHANGED <<shown, tables, dentry>>

\* While a listing is open, the names that come and go in its directory.
Watch ==
    LET before == Children(ListedPath)
        after == ChildrenIn(shown', paths_by_ino'[listing.ino])
    IN IF listing.ino = NoIno THEN UNCHANGED listing
       ELSE listing' = [listing EXCEPT !.touched =
                            @ \cup (before \ after) \cup (after \ before)]

------------------------------------------------------------------------------
Request ==
    \/ \E p \in Paths : Lookup(p) \/ Make(p) \/ Unmake(p) \/ Vanish(p) \/ Forget(p)
    \/ \E i \in Inos : Getattr(i)
    \/ \E r \in Renames : Rename(r[1], r[2])

Next ==
    \/ Request /\ Watch
    \/ (\E p \in DirPaths \cup {Root} : Opendir(p)) /\ UNCHANGED <<shown, tables, dentry>>
    \/ Readdir
    \/ Closedir

Spec == Init /\ [][Next]_inodeVars

------------------------------------------------------------------------------
(* Properties *)

\* The number the kernel holds for a name leads the handlers to that very
\* name: through renames of its ancestors, removals, expiries the kernel was
\* not told of, and the reuse of names.  A request for one file is never
\* answered about another.
NumbersResolve ==
    \A p \in Paths : dentry[p] # NoIno => paths_by_ino[dentry[p]] = p

\* The two tables agree: a path's number has that path, so that no two names
\* share a number and a new file never gets the number of one that moved away.
TablesAgree ==
    \A p \in Paths : inos_by_path[p] # NoIno => paths_by_ino[inos_by_path[p]] = p

\* A name that was in the directory all along, with no name before it coming
\* or going, is listed exactly once however the listing was cut into replies.
\* A change before it can make the code skip it or list it twice.
ListedOnce ==
    listing.ino # NoIno /\ ListedPath # Nowhere =>
        \A n \in Children(ListedPath) \ listing.touched :
            (\A m \in listing.touched : ~Before(m, n)) =>
                LET times == Cardinality({i \in 1..Len(listing.names) : listing.names[i] = n})
                IN times <= 1 /\ (listing.ended => times = 1)
=============================================================================
