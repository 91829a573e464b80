------------------------------ MODULE FadeMount ------------------------------
(***************************************************************************)
(* The life of a mount process (src/fuse_fs.rs, mount): the folders of     *)
(* developer mode, the reconciliation of store and disk (src/reaper.rs,    *)
(* reconcile), serving, the unmount that joins the reaper thread.  The     *)
(* statements of reconcile are steps of their own, so that the process can *)
(* be killed between any two of them and a fade gc can run among them.  A  *)
(* stat is merged with the statement it decides.                           *)
(***************************************************************************)
EXTENDS FadeStore

CONSTANT DefaultDirs   \* DEFAULT_TTL_FOLDERS in developer mode, {} in policy mode

ASSUME MountAssumption == DefaultDirs \subseteq {p \in Paths : Parent(p) = Root}

VARIABLE mount   \* the step of the process, the renames and rows listed and
                 \* not dealt with yet

MountPcs == {"down", "renames", "complete", "list", "missing", "up", "stopping", "refused"}

MountDown == [pc |-> "down", renames |-> {}, rows |-> {}]

MountTypeOK ==
    mount \in [pc : MountPcs, renames : SUBSET RenameRecord,
               rows : SUBSET [id : Ids, path : Paths \cup {Root}]]

MountInit == mount = MountDown

------------------------------------------------------------------------------
Refuse == mount' = [MountDown EXCEPT !.pc = "refused"]

\* ensure_default_ttl_folders and the query for pending renames.
MountStart ==
    /\ mount.pc \in {"down", "refused"}
    /\ \A p \in DefaultDirs : disk[p] \in {None, Directory}
    /\ disk' = [p \in Paths |-> IF p \in DefaultDirs THEN Directory ELSE disk[p]]
    /\ mount' = [pc |-> IF pending = {} THEN "list" ELSE "renames",
                 renames |-> pending, rows |-> {}]
    /\ UNCHANGED <<clock, files, pending>>

Moved(r) == disk[r.from] = None /\ disk[r.to] # None
NotMoved(r) == disk[r.from] # None /\ disk[r.to] = None

\* One recorded rename: the two stats, then the rows when the file has moved.
\* The code takes the records by from_path; the order is left open here.
MountRename ==
    /\ mount.pc = "renames"
    /\ \E r \in mount.renames :
          \/ /\ Moved(r) /\ UniquePaths(RenameRows(files, r))
             /\ files' = RenameRows(files, r)
             /\ mount' = [mount EXCEPT !.pc = "complete", !.renames = {r}]
          \/ /\ NotMoved(r)
             /\ files' = files
             /\ mount' = [mount EXCEPT !.pc = "complete", !.renames = {r}]
          \/ /\ ~NotMoved(r) /\ ~(Moved(r) /\ UniquePaths(RenameRows(files, r)))
             /\ files' = files
             /\ Refuse
    /\ UNCHANGED <<clock, disk, pending>>

\* complete_rename.  What is left of the list is what is left in the table:
\* only this process touches the table while it mounts.
MountComplete ==
    /\ mount.pc = "complete"
    /\ \E r \in mount.renames :
          /\ pending' = CompleteRename(pending, r.from)
          /\ mount' = [mount EXCEPT !.pc = IF pending' = {} THEN "list" ELSE "renames",
                                    !.renames = pending']
    /\ UNCHANGED <<clock, files, disk>>

\* list_files
MountList ==
    /\ mount.pc = "list"
    /\ mount' = [mount EXCEPT !.pc = "missing", !.renames = {},
                              !.rows = {[id |-> id, path |-> files[id].path] : id \in Active(files)}]
    /\ UNCHANGED storeVars

\* Mutant: reconcile counts the missing file and leaves its row.
MountMissingKeeps ==
    /\ mount.pc = "missing"
    /\ \E row \in mount.rows : mount' = [mount EXCEPT !.rows = @ \ {row}]
    /\ UNCHANGED storeVars

\* One listed row: mark_deleted when nothing is at its path.
MountMissing ==
    /\ mount.pc = "missing"
    /\ \E row \in mount.rows :
          /\ files' = IF disk[row.path] = None THEN MarkDeleted(files, row.id) ELSE files
          /\ mount' = [mount EXCEPT !.rows = @ \ {row}]
    /\ UNCHANGED <<clock, disk, pending>>

\* The regular files reject_untracked_files finds no active row for.
Untracked == {p \in Paths : disk[p] \in Ids /\ ActiveAt(files, p) = {}}

\* reject_untracked_files, then expire_due, then the session starts.
MountFinish ==
    /\ mount.pc = "missing"
    /\ mount.rows = {}
    /\ \/ Untracked # {} /\ files' = files /\ Refuse
       \/ /\ Untracked = {}
          /\ files' = ExpireDue(files, clock)
          /\ \/ mount' = [mount EXCEPT !.pc = "up"]
             \/ ExpireMayFail(files, clock) /\ mount' = MountDown
    /\ UNCHANGED <<clock, disk, pending>>

\* The session ends: the stop flag is set.
MountStop ==
    /\ mount.pc = "up"
    /\ mount' = [mount EXCEPT !.pc = "stopping"]
    /\ UNCHANGED storeVars

\* The reaper thread has been joined.
MountJoin ==
    /\ mount.pc = "stopping"
    /\ mount' = MountDown
    /\ UNCHANGED storeVars

MountStep ==
    MountStart \/ MountRename \/ MountComplete \/ MountList \/ MountMissing \/ MountFinish
=============================================================================
