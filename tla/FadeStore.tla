------------------------------ MODULE FadeStore ------------------------------
(***************************************************************************)
(* The state every actor of Fade shares: the wall clock, the rows of the   *)
(* SQLite store (src/metadata.rs) and the backing directory.               *)
(*                                                                         *)
(* Every SQL statement of the store runs in autocommit mode, so each is    *)
(* one operator on the table, applied by one step of the actor that issues *)
(* it; nothing in the code spans two statements, or a statement and a file *)
(* operation, with a transaction or a lock.                                *)
(*                                                                         *)
(* A row keeps the columns the properties tell apart.  backing_path always *)
(* equals path (both are written together), and created_at, modified_at,   *)
(* size_bytes and policy_source are left out.                              *)
(***************************************************************************)
EXTENDS FadePath, FiniteSets

CONSTANTS
    Ids,             \* row ids: the UUIDs the program can draw
    None,            \* "no file here" and "no row"
    Directory,       \* what the backing directory holds at a directory's path
    Forever,         \* the NULL of expires_at and recovery_deadline
    Ttl,             \* Ttl[p]: what assign_file gives a file created at p;
                     \* a path outside its domain is one it rejects
    RecoveryWindow,  \* seconds between expiry and permission to delete
    LikeMatches,     \* <<pattern, name>> pairs SQLite's LIKE accepts
    Renames,         \* the workload: <<from, to>> pairs of rename
    Faults           \* the operations that may fail: "audit", "store"

ASSUME StoreAssumption ==
    /\ {None, Directory} \cap Ids = {} /\ None # Directory
    /\ Forever \notin Nat
    /\ DOMAIN Ttl \subseteq Paths
    /\ \A p \in DOMAIN Ttl : Ttl[p] = Forever \/ Ttl[p] \in Nat \ {0}
    /\ RecoveryWindow \in Nat
    /\ \A n \in Names : <<n, n>> \in LikeMatches
    /\ Faults \subseteq {"audit", "store"}

\* path LIKE from || '/%': the segments of from are patterns, so '_' matches
\* any character and ASCII letters match in either case.  Patterns and names
\* of different lengths ('%', multi-byte names) are left out.
LikeBelow(p, dir) ==
    /\ Len(dir) < Len(p)
    /\ \A i \in 1..Len(dir) : <<dir[i], p[i]>> \in LikeMatches

\* The bounded namespace holds what a rename of the workload produces, and the
\* kernel refuses to move a directory into itself.
ASSUME RenamesAssumption ==
    /\ Renames \subseteq Paths \X Paths
    /\ \A r \in Renames, p \in Paths :
          p = r[1] \/ LikeBelow(p, r[1]) => Rebase(p, r[1], r[2]) \in Paths
    /\ \A r \in Renames : r[1] # r[2] /\ ~Below(r[2], r[1])

VARIABLES
    clock,    \* seconds, what now_unix_seconds returns
    files,    \* the table files, one entry per id
    disk,     \* the backing directory: None, Directory, or the id of the row
              \* for which the bytes at the path were created
    pending   \* the table pending_renames

storeVars == <<clock, files, disk, pending>>

------------------------------------------------------------------------------
(* Rows *)

Instants == Nat \cup {Forever}

\* "none" is an id not drawn yet.  "recovered" is never written by the code.
Row == [state : {"none", "alive", "expired", "deleted"},
        path : Paths \cup {Root},
        expires_at : Instants,
        recovery_deadline : Instants]

NoRow == [state |-> "none", path |-> Root,
          expires_at |-> Forever, recovery_deadline |-> Forever]

\* FileRecord::new
NewRow(p, now) ==
    [state |-> "alive",
     path |-> p,
     expires_at |-> IF Ttl[p] = Forever THEN Forever ELSE now + Ttl[p],
     recovery_deadline |-> IF Ttl[p] = Forever
                             THEN Forever
                             ELSE now + Ttl[p] + RecoveryWindow]

\* The rows with state != 'deleted'.
Active(fs) == {id \in Ids : fs[id].state \in {"alive", "expired"}}

\* The rows get_by_path can return as not deleted: at most one, by the index
\* idx_files_active_path.
ActiveAt(fs, p) == {id \in Active(fs) : fs[id].path = p}

\* The partial unique index idx_files_active_path.
UniquePaths(fs) ==
    \A i, j \in Active(fs) : fs[i].path = fs[j].path => i = j

AliveAt(fs, p) == {id \in ActiveAt(fs, p) : fs[id].state = "alive"}

------------------------------------------------------------------------------
(* Statements *)

\* WHERE state = 'alive' AND expires_at <= now
Due(fs, now) ==
    {id \in Ids : /\ fs[id].state = "alive"
                  /\ fs[id].expires_at # Forever
                  /\ fs[id].expires_at <= now}

ExpireDue(fs, now) ==
    [id \in Ids |-> IF id \in Due(fs, now)
                      THEN [fs[id] EXCEPT !.state = "expired"]
                      ELSE fs[id]]

\* expire_due appends one audit line per row after the UPDATE, and returns
\* the error of an append: the rows are expired all the same.
ExpireMayFail(fs, now) == "audit" \in Faults /\ Due(fs, now) # {}

\* Mutant: the query compares expires_at instead of recovery_deadline.
GcCandidatesAtExpiry(fs, now) ==
    {id \in Ids : /\ fs[id].state = "expired"
                  /\ fs[id].expires_at # Forever
                  /\ fs[id].expires_at <= now}

\* WHERE state = 'expired' AND recovery_deadline <= now
GcCandidates(fs, now) ==
    {id \in Ids : /\ fs[id].state = "expired"
                  /\ fs[id].recovery_deadline # Forever
                  /\ fs[id].recovery_deadline <= now}

\* The results of ORDER BY recovery_deadline LIMIT limit: the earliest
\* deadlines, ties broken by path, which is left open here.
GcBatches(fs, now, limit) ==
    {b \in SUBSET GcCandidates(fs, now) :
        /\ Cardinality(b) <= limit
        /\ \A id \in GcCandidates(fs, now) \ b :
              /\ Cardinality(b) = limit
              /\ \A x \in b : fs[x].recovery_deadline <= fs[id].recovery_deadline}

MarkDeleted(fs, id) == [fs EXCEPT ![id].state = "deleted"]

MarkDeletedByPath(fs, p) ==
    [id \in Ids |-> IF id \in ActiveAt(fs, p)
                      THEN [fs[id] EXCEPT !.state = "deleted"]
                      ELSE fs[id]]

\* Mutants: is_recoverable without its state, and without its deadline.
IsRecoverableAnyState(fs, id, now) ==
    fs[id].recovery_deadline # Forever /\ fs[id].recovery_deadline > now
IsRecoverableAnyTime(fs, id, now) == fs[id].state = "expired"

IsRecoverable(fs, id, now) ==
    /\ fs[id].state = "expired"
    /\ fs[id].recovery_deadline # Forever
    /\ fs[id].recovery_deadline > now

\* Mutant: a renamed file gets a new row's lifetime.
RenamePathAfresh(fs, from, to) ==
    [id \in Ids |-> IF id \in ActiveAt(fs, from) THEN NewRow(to, clock) ELSE fs[id]]

RenamePath(fs, from, to) ==
    [id \in Ids |-> IF id \in ActiveAt(fs, from)
                      THEN [fs[id] EXCEPT !.path = to]
                      ELSE fs[id]]

\* Mutant: the UPDATE without its substr.
RenamePrefixWhole(fs, from, to) ==
    [id \in Ids |-> IF id \in Active(fs) /\ LikeBelow(fs[id].path, from)
                      THEN [fs[id] EXCEPT !.path = to \o @]
                      ELSE fs[id]]

RenamePrefix(fs, from, to) ==
    [id \in Ids |-> IF id \in Active(fs) /\ LikeBelow(fs[id].path, from)
                      THEN [fs[id] EXCEPT !.path = Rebase(@, from, to)]
                      ELSE fs[id]]

\* Mutant: a directory's rows renamed as if it were a file.
RenameRowsAsFile(fs, r) == RenamePath(fs, r.from, r.to)

RenameRows(fs, r) == IF r.dir THEN RenamePrefix(fs, r.from, r.to)
                              ELSE RenamePath(fs, r.from, r.to)

\* Mutant: the rename is not recorded before the file moves.
BeginRenameUnrecorded(ps, r) == ps

\* from_path is the primary key of pending_renames, to_path is UNIQUE.
BeginRename(ps, r) == ps \cup {r}
BeginConflicts(ps, r) == \E q \in ps : q.from = r.from \/ q.to = r.to
CompleteRename(ps, from) == {r \in ps : r.from # from}

------------------------------------------------------------------------------
(* The backing directory: the file operations of the standard library. *)

IsDir(d, p) == p # Root => d[p] = Directory

\* unlink(2) of a directory, or below a regular file, fails with an error
\* other than NotFound.
Unremovable(d, p) == d[p] = Directory \/ \E q \in Paths : Below(p, q) /\ d[q] \in Ids

RemoveFile(d, p) == IF d[p] \in Ids THEN [d EXCEPT ![p] = None] ELSE d

\* rename(2) of a file or of a directory with all it holds.
MoveTree(d, from, to) ==
    [p \in Paths |->
        IF Within(p, to)
          THEN LET q == Rebase(p, to, from) IN IF q \in Paths THEN d[q] ELSE None
          ELSE IF Within(p, from) THEN None ELSE d[p]]

------------------------------------------------------------------------------
RenameRecord ==
    {r \in [from : Paths, to : Paths, dir : BOOLEAN] : <<r.from, r.to>> \in Renames}

StoreTypeOK ==
    /\ clock \in Nat
    /\ files \in [Ids -> Row]
    /\ disk \in [Paths -> Ids \cup {None, Directory}]
    /\ pending \in SUBSET RenameRecord

\* A fresh backing directory and an empty store.
StoreInit ==
    /\ clock = 0
    /\ files = [id \in Ids |-> NoRow]
    /\ disk = [p \in Paths |-> None]
    /\ pending = {}
=============================================================================
