------------------------------ MODULE FadeFuse ------------------------------
(***************************************************************************)
(* The FUSE handlers (src/fuse_fs.rs, impl Filesystem for DevFuse).        *)
(* fuser calls them one at a time, so one record holds the handler in      *)
(* progress; a handler gives up the store and the disk to the other actors *)
(* between any two of its SQL statements and file operations, and each     *)
(* such point is a value of fuse.pc.  A check that changes nothing is      *)
(* merged with the statement that follows it when no other actor can       *)
(* invalidate it in a way the next step would not see.                     *)
(*                                                                         *)
(* A request that fails its checks replies an error; whatever rows it      *)
(* expired on the way is a FuseAccess step.                                *)
(***************************************************************************)
EXTENDS FadeStore

CONSTANTS
    VisibleDirs,   \* the paths policy.directory_visible accepts
    FilePaths,     \* the workload: paths of create and unlink,
    DirPaths,      \*   paths of mkdir and rmdir,
    HeldPaths      \*   paths whose handles are held open

ASSUME FuseAssumption ==
    /\ VisibleDirs \subseteq Paths /\ FilePaths \subseteq Paths
    /\ DirPaths \subseteq Paths /\ HeldPaths \subseteq Paths

VARIABLES
    fuse,     \* the handler in progress
    handles   \* open_handles: the path it was opened by, the bytes it reads

fuseVars == <<fuse, handles>>

FusePcs == {"idle", "create_insert", "create_open", "create_attr", "create_remove", "create_undo",
            "open_file", "unlink_file", "unlink_mark",
            "rename_fs", "rename_cancel", "rename_store", "rename_complete"}

FuseIdle == [pc |-> "idle", path |-> Root, to |-> Root, id |-> None,
             dir |-> FALSE, since |-> 0]

HandlerTypeOK ==
    /\ fuse \in [pc : FusePcs, path : Paths \cup {Root}, to : Paths \cup {Root},
                 id : Ids \cup {None}, dir : BOOLEAN, since : Nat]
    /\ fuse.pc # "idle" => fuse.path \in Paths
    /\ fuse.pc = "create_insert" => fuse.path \in DOMAIN Ttl
    /\ fuse.pc \in {"create_open", "create_attr"} => fuse.id \in Ids
    /\ fuse.pc \in {"rename_fs", "rename_cancel", "rename_store", "rename_complete"}
          => <<fuse.path, fuse.to>> \in Renames

FuseTypeOK ==
    /\ HandlerTypeOK
    /\ handles \in SUBSET [path : Paths, id : Ids]

FuseInit == fuse = FuseIdle /\ handles = {}

------------------------------------------------------------------------------
DirVisible(p) == p # Root => p \in VisibleDirs

\* The handler goes on at pc, has returned, or starts on a request.
Goto(pc) == fuse' = [fuse EXCEPT !.pc = pc]
Reply == fuse' = FuseIdle
Begin(pc, p, to, id, dir) ==
    fuse' = [pc |-> pc, path |-> p, to |-> to, id |-> id, dir |-> dir, since |-> clock]

\* visible_file_record: expire what is due, then look the path up.
VisibleFileRecord(p) == AliveAt(ExpireDue(files, clock), p)

\* open_handle
OpenHandle(p, id) ==
    handles' = IF p \in HeldPaths THEN handles \cup {[path |-> p, id |-> id]}
                                  ELSE handles

\* Lookup, getattr, open, read, write, readdir and every request that fails
\* its checks: the only change is expire_due.
FuseAccess ==
    /\ fuse.pc = "idle"
    /\ Due(files, clock) # {}
    /\ files' = ExpireDue(files, clock)
    /\ UNCHANGED <<clock, disk, pending, fuse, handles>>

------------------------------------------------------------------------------
(* create *)

Drawable(id) == files[id].state = "none"

\* The kernel sends create when the name does not resolve.  assign_file, and
\* the clock reading the row's instants are computed from.
CreateStart(p) ==
    /\ fuse.pc = "idle"
    /\ p \in FilePaths
    /\ DirVisible(Parent(p)) /\ IsDir(disk, Parent(p))
    /\ ~(disk[p] = Directory /\ DirVisible(p))
    /\ VisibleFileRecord(p) = {}
    /\ p \in DOMAIN Ttl
    /\ \E id \in Ids : Drawable(id)
    /\ Begin("create_insert", p, Root, None, FALSE)
    /\ UNCHANGED <<storeVars, handles>>

\* An active row at the path, expired ones included, makes the INSERT fail with
\* EIO.
CreateInsert ==
    /\ fuse.pc = "create_insert"
    /\ \/ /\ ActiveAt(files, fuse.path) = {}
          /\ \E id \in Ids :
                /\ Drawable(id)
                /\ files' = [files EXCEPT ![id] = NewRow(fuse.path, fuse.since)]
                /\ fuse' = [fuse EXCEPT !.pc = "create_open", !.id = id]
       \/ /\ ActiveAt(files, fuse.path) # {} \/ "store" \in Faults
          /\ Reply
          /\ UNCHANGED files
    /\ UNCHANGED <<clock, disk, pending, handles>>

\* open(2) with O_CREAT | O_EXCL
CreateOpen ==
    /\ fuse.pc = "create_open"
    /\ \/ /\ disk[fuse.path] = None /\ IsDir(disk, Parent(fuse.path))
          /\ disk' = [disk EXCEPT ![fuse.path] = fuse.id]
          /\ Goto("create_attr")
       \/ /\ ~(disk[fuse.path] = None /\ IsDir(disk, Parent(fuse.path)))
          /\ disk' = disk
          /\ Goto("create_undo")
    /\ UNCHANGED <<clock, files, pending, handles>>

\* visible_attr, the audit line and the handle.
CreateAttr ==
    /\ fuse.pc = "create_attr"
    /\ \/ /\ disk[fuse.path] = None
          /\ Goto("create_remove")
          /\ UNCHANGED <<files, handles>>
       \/ /\ disk[fuse.path] # None
          /\ files' = ExpireDue(files, clock)
          /\ \/ /\ VisibleFileRecord(fuse.path) # {}
                /\ OpenHandle(fuse.path, fuse.id)
                /\ Reply
             \/ /\ VisibleFileRecord(fuse.path) = {} \/ "audit" \in Faults
                /\ Goto("create_remove")
                /\ UNCHANGED handles
    /\ UNCHANGED <<clock, disk, pending>>

\* Mutant: a failed create forgets its file.
CreateRemoveForgets ==
    /\ fuse.pc = "create_remove"
    /\ Goto("create_undo")
    /\ UNCHANGED <<storeVars, handles>>

\* A failing remove_file is ignored.
CreateRemove ==
    /\ fuse.pc = "create_remove"
    /\ disk' = RemoveFile(disk, fuse.path)
    /\ Goto("create_undo")
    /\ UNCHANGED <<clock, files, pending, handles>>

\* A failing UPDATE is ignored: let _ = mark_deleted_by_path(..).
CreateUndo ==
    /\ fuse.pc = "create_undo"
    /\ \/ files' = MarkDeletedByPath(files, fuse.path)
       \/ "store" \in Faults /\ UNCHANGED files
    /\ Reply
    /\ UNCHANGED <<clock, disk, pending, handles>>

------------------------------------------------------------------------------
(* open and release *)

OpenCheck(p) ==
    /\ fuse.pc = "idle"
    /\ p \in HeldPaths
    /\ files' = ExpireDue(files, clock)
    /\ \E id \in VisibleFileRecord(p) : Begin("open_file", p, Root, id, FALSE)
    /\ UNCHANGED <<clock, disk, pending, handles>>

OpenFile ==
    /\ fuse.pc = "open_file"
    /\ \/ disk[fuse.path] \in Ids /\ OpenHandle(fuse.path, disk[fuse.path])
       \/ disk[fuse.path] \notin Ids /\ UNCHANGED handles
    /\ Reply
    /\ UNCHANGED storeVars

Release(h) ==
    /\ fuse.pc = "idle"
    /\ handles' = handles \ {h}
    /\ UNCHANGED <<storeVars, fuse>>

\* The guard of read and write: the row the handle's path names at that
\* moment is alive.  The handle keeps the path it was opened by.
Readable(h) == VisibleFileRecord(h.path) # {}

------------------------------------------------------------------------------
(* unlink, mkdir and rmdir *)

UnlinkCheck(p) ==
    /\ fuse.pc = "idle"
    /\ p \in FilePaths
    /\ files' = ExpireDue(files, clock)
    /\ \E id \in VisibleFileRecord(p) : Begin("unlink_file", p, Root, id, FALSE)
    /\ UNCHANGED <<clock, disk, pending, handles>>

UnlinkFile ==
    /\ fuse.pc = "unlink_file"
    /\ disk' = RemoveFile(disk, fuse.path)
    /\ IF disk[fuse.path] \in Ids THEN Goto("unlink_mark") ELSE Reply
    /\ UNCHANGED <<clock, files, pending, handles>>

UnlinkMark ==
    /\ fuse.pc = "unlink_mark"
    /\ \/ files' = MarkDeletedByPath(files, fuse.path)
       \/ "store" \in Faults /\ UNCHANGED files
    /\ Reply
    /\ UNCHANGED <<clock, disk, pending, handles>>

\* Below the root the parent must be visible; in the root the name itself
\* must be one validate_root_directory accepts.
Mkdir(p) ==
    /\ fuse.pc = "idle"
    /\ p \in DirPaths
    /\ IF Parent(p) = Root THEN p \in VisibleDirs ELSE DirVisible(Parent(p))
    /\ disk[p] = None /\ IsDir(disk, Parent(p))
    /\ disk' = [disk EXCEPT ![p] = Directory]
    /\ UNCHANGED <<clock, files, pending, fuseVars>>

Rmdir(p) ==
    /\ fuse.pc = "idle"
    /\ p \in DirPaths
    /\ DirVisible(p)
    /\ disk[p] = Directory
    /\ \A q \in Paths : Below(q, p) => disk[q] = None
    /\ disk' = [disk EXCEPT ![p] = None]
    /\ UNCHANGED <<clock, files, pending, fuseVars>>

------------------------------------------------------------------------------
(* rename *)

\* The checks and begin_rename.
RenameStart(from, to) ==
    /\ fuse.pc = "idle"
    /\ <<from, to>> \in Renames
    /\ DirVisible(Parent(to))
    /\ disk[to] = None
    /\ \/ disk[from] = Directory /\ DirVisible(from) /\ UNCHANGED files
       \/ /\ disk[from] \in Ids
          /\ VisibleFileRecord(from) # {}
          /\ files' = ExpireDue(files, clock)
    /\ LET r == [from |-> from, to |-> to, dir |-> disk[from] = Directory]
       IN /\ ~BeginConflicts(pending, r)
          /\ pending' = BeginRename(pending, r)
          /\ Begin("rename_fs", from, to, None, r.dir)
    /\ UNCHANGED <<clock, disk, handles>>

RenameFs ==
    /\ fuse.pc = "rename_fs"
    /\ \/ /\ disk[fuse.path] # None /\ IsDir(disk, Parent(fuse.to))
          /\ disk' = MoveTree(disk, fuse.path, fuse.to)
          /\ Goto("rename_store")
       \/ /\ ~(disk[fuse.path] # None /\ IsDir(disk, Parent(fuse.to)))
          /\ disk' = disk
          /\ Goto("rename_cancel")
    /\ UNCHANGED <<clock, files, pending, handles>>

RenameCancel ==
    /\ fuse.pc = "rename_cancel"
    /\ \/ pending' = CompleteRename(pending, fuse.path)
       \/ "store" \in Faults /\ UNCHANGED pending
    /\ Reply
    /\ UNCHANGED <<clock, files, disk, handles>>

\* A row that still holds the destination path makes the UPDATE fail on the
\* unique index: the request fails, the file has moved, the record stays.
RenameStore ==
    /\ fuse.pc = "rename_store"
    /\ LET renamed == RenameRows(files, [from |-> fuse.path, to |-> fuse.to,
                                         dir |-> fuse.dir])
       IN \/ UniquePaths(renamed) /\ files' = renamed /\ Goto("rename_complete")
          \/ ~UniquePaths(renamed) /\ UNCHANGED files /\ Reply
          \/ "store" \in Faults /\ UNCHANGED files /\ Reply
    /\ UNCHANGED <<clock, disk, pending, handles>>

RenameComplete ==
    /\ fuse.pc = "rename_complete"
    /\ \/ pending' = CompleteRename(pending, fuse.path)
       \/ "store" \in Faults /\ UNCHANGED pending
    /\ Reply
    /\ UNCHANGED <<clock, files, disk, handles>>

------------------------------------------------------------------------------
\* A request arrives, or the handler in progress goes on.
FuseRequest ==
    \/ FuseAccess
    \/ \E p \in Paths : CreateStart(p) \/ OpenCheck(p) \/ UnlinkCheck(p)
                          \/ Mkdir(p) \/ Rmdir(p)
    \/ \E r \in Renames : RenameStart(r[1], r[2])
    \/ \E h \in handles : Release(h)

FuseStep ==
    \/ CreateInsert \/ CreateOpen \/ CreateAttr \/ CreateRemove \/ CreateUndo
    \/ OpenFile
    \/ UnlinkFile \/ UnlinkMark
    \/ RenameFs \/ RenameCancel \/ RenameStore \/ RenameComplete
=============================================================================
