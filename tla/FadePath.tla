------------------------------ MODULE FadePath ------------------------------
(***************************************************************************)
(* Mount-relative paths (src/path.rs).  A RelativePath is a sequence of    *)
(* segments; the empty sequence is the root of the mount.  Parsing and     *)
(* UTF-8 checks are left out: a path here is one RelativePath::new has     *)
(* accepted.                                                               *)
(***************************************************************************)
EXTENDS Naturals, Sequences

CONSTANTS
    Names,  \* path segments
    Paths   \* the bounded namespace: the paths other than the root

Root == <<>>

Parent(p) == SubSeq(p, 1, Len(p) - 1)

\* starts_with, for a path other than the directory itself.
Below(p, dir) == Len(dir) < Len(p) /\ SubSeq(p, 1, Len(dir)) = dir

Within(p, dir) == p = dir \/ Below(p, dir)

\* What a path becomes when the tree at from moves to to.
Rebase(p, from, to) == to \o SubSeq(p, Len(from) + 1, Len(p))

ASSUME PathsAssumption ==
    /\ \A p \in Paths : p \in Seq(Names) /\ p # Root
    /\ \A p \in Paths : Parent(p) \in Paths \cup {Root}
=============================================================================
