----------------------------- MODULE FadeProofs -----------------------------
(***************************************************************************)
(* Proofs about Fade for every value of its constants.                     *)
(***************************************************************************)
EXTENDS Fade, TLAPS

------------------------------------------------------------------------------
(* The statements of the store, one lemma each: what they return is a      *)
(* table, and no row goes backward.                                        *)

Table == [Ids -> Row]

Forward(fs, gs) == \A id \in Ids : RowForward(fs[id], gs[id])

\* expire_due only turns alive rows into expired ones.
LEMMA ExpireDueForward ==
    ASSUME NEW fs \in Table, NEW now
    PROVE  ExpireDue(fs, now) \in Table /\ Forward(fs, ExpireDue(fs, now))
BY DEF Table, ExpireDue, Due, Row, Forward, RowForward

\* mark_deleted ends the row of a known id, whatever its state was.
LEMMA MarkDeletedForward ==
    ASSUME NEW fs \in Table, NEW i \in Ids
    PROVE  MarkDeleted(fs, i) \in Table /\ Forward(fs, MarkDeleted(fs, i))
BY DEF Table, MarkDeleted, Row, Forward, RowForward

\* mark_deleted_by_path ends the active rows of the path.
LEMMA MarkDeletedByPathForward ==
    ASSUME NEW fs \in Table, NEW p
    PROVE  MarkDeletedByPath(fs, p) \in Table /\ Forward(fs, MarkDeletedByPath(fs, p))
BY DEF Table, MarkDeletedByPath, ActiveAt, Active, Row, Forward, RowForward

\* An INSERT of a fresh id leaves every other row alone.
LEMMA InsertForward ==
    ASSUME NEW fs \in Table, NEW i \in Ids, fs[i].state = "none",
           NEW p \in Paths, p \in DOMAIN Ttl, NEW now \in Nat
    PROVE  LET gs == [fs EXCEPT ![i] = NewRow(p, now)]
           IN  gs \in Table /\ Forward(fs, gs)
<1>1. NewRow(p, now) \in Row
  BY StoreAssumption DEF NewRow, Row, Instants
<1> QED BY <1>1 DEF Table, Row, Forward, RowForward

\* A path strictly below a directory of the workload, as LIKE sees it, is a
\* path of the namespace, and so is what the rename makes of it.
LEMMA RebaseTyped ==
    ASSUME NEW from, NEW to, <<from, to>> \in Renames,
           NEW p \in Paths \cup {Root}, LikeBelow(p, from)
    PROVE  Rebase(p, from, to) \in Paths
<1>1. from \in Paths /\ to \in Paths
  BY RenamesAssumption
<1>2. Len(from) \in Nat
  BY <1>1, PathsAssumption
<1>3. p # Root
  BY <1>2 DEF LikeBelow, Root
<1> DEFINE r == <<from, to>>
<1>4. r \in Renames /\ r[1] = from /\ r[2] = to
  OBVIOUS
<1> HIDE DEF r
<1>5. p \in Paths /\ LikeBelow(p, r[1])
  BY <1>3, <1>4
<1>6. Rebase(p, r[1], r[2]) \in Paths
  BY <1>4, <1>5, RenamesAssumption
<1> QED BY <1>4, <1>6

\* The two UPDATEs of a rename change paths only.
LEMMA RenameRowsForward ==
    ASSUME NEW fs \in Table, NEW r \in RenameRecord
    PROVE  RenameRows(fs, r) \in Table /\ Forward(fs, RenameRows(fs, r))
<1>1. r.from \in Paths /\ r.to \in Paths /\ <<r.from, r.to>> \in Renames
  BY DEF RenameRecord
<1>2. CASE r.dir
  <2>1. \A id \in Ids : LikeBelow(fs[id].path, r.from)
            => Rebase(fs[id].path, r.from, r.to) \in Paths
    BY <1>1, RebaseTyped DEF Table, Row
  <2> QED BY <1>2, <2>1 DEF RenameRows, RenamePrefix, Table, Row, Forward, RowForward
<1>3. CASE ~r.dir
  BY <1>1, <1>3 DEF RenameRows, RenamePath, Table, Row, Forward, RowForward
<1> QED BY <1>2, <1>3

\* Doing nothing goes nowhere.
LEMMA UnchangedForward ==
    ASSUME NEW fs \in Table
    PROVE  Forward(fs, fs)
BY DEF Table, Row, Forward, RowForward

------------------------------------------------------------------------------
(* The steps, by the actor that takes them. *)

\* What a FUSE request, or a step of its handler, does to the table.
LEMMA FuseFiles ==
    ASSUME TypeOK, FuseRequest \/ FuseStep
    PROVE  files' \in Table /\ Forward(files, files')
<1> USE DEF TypeOK, StoreTypeOK, Table
<1>0. files \in Table /\ clock \in Nat /\ Forward(files, files)
  BY UnchangedForward
<1>1. CASE FuseAccess
  BY <1>0, <1>1, ExpireDueForward DEF FuseAccess
<1>2. CASE CreateInsert
  <2>1. fuse.path \in Paths /\ fuse.path \in DOMAIN Ttl /\ fuse.since \in Nat
    BY <1>2 DEF CreateInsert, FuseTypeOK, HandlerTypeOK
  <2>2. CASE files' = files
    BY <1>0, <2>2
  <2>3. ASSUME NEW id \in Ids, files[id].state = "none",
               files' = [files EXCEPT ![id] = NewRow(fuse.path, fuse.since)]
        PROVE  files' \in Table /\ Forward(files, files')
    BY <1>0, <2>1, <2>3, InsertForward
  <2> QED BY <1>2, <2>2, <2>3 DEF CreateInsert, Drawable
<1>3. ASSUME NEW p \in Paths, OpenCheck(p) \/ UnlinkCheck(p)
      PROVE  files' \in Table /\ Forward(files, files')
  BY <1>0, <1>3, ExpireDueForward DEF OpenCheck, UnlinkCheck
<1>4. ASSUME NEW p \in Paths, CreateStart(p) \/ Mkdir(p) \/ Rmdir(p)
      PROVE  files' \in Table /\ Forward(files, files')
  BY <1>0, <1>4 DEF CreateStart, Mkdir, Rmdir, storeVars
<1>5. ASSUME NEW r \in Renames, RenameStart(r[1], r[2])
      PROVE  files' \in Table /\ Forward(files, files')
  BY <1>0, <1>5, ExpireDueForward DEF RenameStart
<1>6. ASSUME NEW h \in handles, Release(h) PROVE files' \in Table /\ Forward(files, files')
  BY <1>0, <1>6 DEF Release, storeVars
<1>7. CASE CreateOpen \/ CreateRemove \/ OpenFile \/ UnlinkFile \/ RenameFs
           \/ RenameCancel \/ RenameComplete
  BY <1>0, <1>7 DEF CreateOpen, CreateRemove, OpenFile, UnlinkFile, RenameFs,
                    RenameCancel, RenameComplete, storeVars
<1>8. CASE CreateAttr
  BY <1>0, <1>8, ExpireDueForward DEF CreateAttr
<1>9. CASE CreateUndo \/ UnlinkMark
  BY <1>0, <1>9, MarkDeletedByPathForward DEF CreateUndo, UnlinkMark
<1>10. CASE RenameStore
  <2> DEFINE r == [from |-> fuse.path, to |-> fuse.to, dir |-> fuse.dir]
  <2>1. <<fuse.path, fuse.to>> \in Renames /\ fuse.dir \in BOOLEAN
    BY <1>10 DEF RenameStore, FuseTypeOK, HandlerTypeOK
  <2>2. fuse.path \in Paths /\ fuse.to \in Paths
    BY <2>1, RenamesAssumption
  <2>3. r \in RenameRecord
    BY <2>1, <2>2 DEF RenameRecord
  <2>4. files' = RenameRows(files, r) \/ files' = files
    BY <1>10 DEF RenameStore
  <2> QED BY <1>0, <2>3, <2>4, RenameRowsForward
<1> QED BY <1>1, <1>2, <1>3, <1>4, <1>5, <1>6, <1>7, <1>8, <1>9, <1>10 DEF FuseRequest, FuseStep

\* What a step of a reaper pass does to the table.
LEMMA ReaperFiles ==
    ASSUME TypeOK, NEW r \in Reapers, ReaperStep(r)
    PROVE  files' \in Table /\ Forward(files, files')
<1>0. files \in Table /\ Forward(files, files)
  BY UnchangedForward DEF TypeOK, StoreTypeOK, Table
<1>1. CASE ReaperScan(r)
  BY <1>0, <1>1, ExpireDueForward DEF ReaperScan
<1>2. CASE ReaperRemove(r)
  BY <1>0, <1>2 DEF ReaperRemove
<1>3. CASE ReaperMark(r)
  <2>1. PICK item \in reaper[r].cur : files' = MarkDeleted(files, item.id) \/ files' = files
    BY <1>3 DEF ReaperMark
  <2>2. item.id \in Ids
    BY <2>1 DEF TypeOK, ReaperTypeOK, Pass, Item
  <2> QED BY <1>0, <2>1, <2>2, MarkDeletedForward
<1> QED BY <1>1, <1>2, <1>3 DEF ReaperStep

\* What a step of fade recover does to the table.
LEMMA RecoverFiles ==
    ASSUME TypeOK, NEW c \in Recoverers, RecoverNext(c)
    PROVE  files' \in Table /\ Forward(files, files')
<1>0. files \in Table /\ Forward(files, files)
  BY UnchangedForward DEF TypeOK, StoreTypeOK, Table
<1>1. CASE RecoverLookup(c)
  BY <1>0, <1>1, ExpireDueForward DEF RecoverLookup
<1>3. ASSUME NEW p \in Paths, RecoverStart(c, p)
      PROVE  files' \in Table /\ Forward(files, files')
  BY <1>0, <1>3 DEF RecoverStart, storeVars
<1>2. CASE RecoverOpen(c) \/ RecoverVerify(c) \/ RecoverWindow(c) \/ RecoverPublish(c)
           \/ RecoverKill(c)
  BY <1>0, <1>2 DEF RecoverOpen, RecoverVerify, RecoverWindow, RecoverPublish,
                    RecoverKill, storeVars
<1> QED BY <1>1, <1>2, <1>3 DEF RecoverNext

\* What a step of mounting does to the table.
LEMMA MountFiles ==
    ASSUME TypeOK, MountStep
    PROVE  files' \in Table /\ Forward(files, files')
<1>0. files \in Table /\ Forward(files, files)
  BY UnchangedForward DEF TypeOK, StoreTypeOK, Table
<1>1. CASE MountStart \/ MountComplete \/ MountList
  BY <1>0, <1>1 DEF MountStart, MountComplete, MountList, storeVars
<1>2. CASE MountRename
  <2>1. PICK r \in mount.renames : files' = RenameRows(files, r) \/ files' = files
    BY <1>2 DEF MountRename
  <2>2. r \in RenameRecord
    BY <2>1 DEF TypeOK, MountTypeOK
  <2> QED BY <1>0, <2>1, <2>2, RenameRowsForward
<1>3. CASE MountMissing
  <2>1. PICK row \in mount.rows : files' = MarkDeleted(files, row.id) \/ files' = files
    BY <1>3 DEF MountMissing
  <2>2. row.id \in Ids
    BY <2>1 DEF TypeOK, MountTypeOK
  <2> QED BY <1>0, <2>1, <2>2, MarkDeletedForward
<1>4. CASE MountFinish
  BY <1>0, <1>4, ExpireDueForward DEF MountFinish
<1> QED BY <1>1, <1>2, <1>3, <1>4 DEF MountStep

\* Every step of Fade keeps the table a table and takes no row backward.
LEMMA FilesStep ==
    ASSUME TypeOK, [Next]_vars
    PROVE  files' \in Table /\ Forward(files, files')
<1>0. files \in Table /\ Forward(files, files)
  BY UnchangedForward DEF TypeOK, StoreTypeOK, Table
<1>1. CASE Tick \/ ClockJump
  BY <1>0, <1>1 DEF Tick, ClockJump
<1>2. CASE Serve \/ Handle
  BY <1>2, FuseFiles DEF Serve, Handle
<1>3. CASE Mounting
  BY <1>3, MountFiles DEF Mounting
<1>4. CASE Unmount \/ Join \/ Crash
  BY <1>0, <1>4 DEF Unmount, MountStop, Join, MountJoin, Crash, storeVars
<1>5. ASSUME NEW r \in Reapers, Wake(r) \/ Kill(r)
      PROVE  files' \in Table /\ Forward(files, files')
  BY <1>0, <1>5 DEF Wake, ReaperWake, Kill, GcKill, storeVars
<1>6. ASSUME NEW r \in Reapers, Reap(r) PROVE files' \in Table /\ Forward(files, files')
  BY <1>6, ReaperFiles DEF Reap
<1>7. ASSUME NEW c \in Recoverers, Recovering(c)
      PROVE  files' \in Table /\ Forward(files, files')
  BY <1>7, RecoverFiles DEF Recovering
<1>8. CASE Observe
  BY <1>0, <1>8, ExpireDueForward DEF Observe
<1>9. CASE UNCHANGED vars
  BY <1>0, <1>9 DEF vars
<1> QED BY <1>1, <1>2, <1>3, <1>4, <1>5, <1>6, <1>7, <1>8, <1>9 DEF Next

------------------------------------------------------------------------------
(* Type correctness, actor by actor. *)

\* Each file operation returns a backing directory.
LEMMA DiskTyped ==
    ASSUME NEW d \in [Paths -> Ids \cup {None, Directory}],
           NEW p \in Paths, NEW q \in Paths, NEW i \in Ids
    PROVE  /\ RemoveFile(d, p) \in [Paths -> Ids \cup {None, Directory}]
           /\ MoveTree(d, p, q) \in [Paths -> Ids \cup {None, Directory}]
           /\ [d EXCEPT ![p] = i] \in [Paths -> Ids \cup {None, Directory}]
           /\ [d EXCEPT ![p] = Directory] \in [Paths -> Ids \cup {None, Directory}]
           /\ [d EXCEPT ![p] = None] \in [Paths -> Ids \cup {None, Directory}]
BY DEF RemoveFile, MoveTree

\* The three ways a handler moves: it returns, starts, or goes on.
LEMMA ReplyTyped ==
    ASSUME Reply
    PROVE  HandlerTypeOK'
BY DEF Reply, FuseIdle, HandlerTypeOK, FusePcs

\* A handler that starts has the parameters its first step needs.
LEMMA BeginTyped ==
    ASSUME clock \in Nat,
           NEW pc \in FusePcs \ {"idle"}, NEW p \in Paths, NEW to \in Paths \cup {Root},
           NEW id \in Ids \cup {None}, NEW dir \in BOOLEAN,
           pc = "create_insert" => p \in DOMAIN Ttl,
           pc \in {"create_open", "create_attr"} => id \in Ids,
           pc \in {"rename_fs", "rename_cancel", "rename_store", "rename_complete"}
              => <<p, to>> \in Renames,
           Begin(pc, p, to, id, dir)
    PROVE  HandlerTypeOK'
BY DEF Begin, HandlerTypeOK

\* A handler that goes on keeps the parameters its next step needs.
LEMMA GotoTyped ==
    ASSUME HandlerTypeOK, fuse.pc # "idle", NEW pc \in FusePcs \ {"idle", "create_insert"},
           pc \in {"create_open", "create_attr"} => fuse.id \in Ids,
           pc \in {"rename_fs", "rename_cancel", "rename_store", "rename_complete"}
              => <<fuse.path, fuse.to>> \in Renames,
           Goto(pc)
    PROVE  HandlerTypeOK'
BY DEF Goto, HandlerTypeOK

\* The part of TypeOK a handler can change.
FuseParts == StoreTypeOK /\ FuseTypeOK

\* The requests and steps of create, open, unlink, mkdir, rmdir and rename.
LEMMA FuseTyped ==
    ASSUME TypeOK, FuseRequest \/ FuseStep
    PROVE  FuseParts'
<1>0. files' \in [Ids -> Row]
  BY FuseFiles DEF Table
<1>a. fuse.pc # "idle" => fuse.path \in Paths
  BY DEF TypeOK, FuseTypeOK, HandlerTypeOK
<1>b. HandlerTypeOK
  BY DEF TypeOK, FuseTypeOK
<1> USE <1>0 DEF TypeOK, FuseParts, StoreTypeOK, FuseTypeOK
<1>1. CASE FuseAccess
  BY <1>1 DEF FuseAccess, HandlerTypeOK
<1>2. ASSUME NEW p \in Paths, CreateStart(p) PROVE FuseParts'
  <2>1. HandlerTypeOK'
    BY <1>2, BeginTyped DEF CreateStart, FusePcs
  <2> QED BY <1>2, <2>1 DEF CreateStart, storeVars
<1>17. CASE CreateInsert
  <2>1. ASSUME NEW id \in Ids, fuse' = [fuse EXCEPT !.pc = "create_open", !.id = id]
        PROVE  HandlerTypeOK'
    BY <1>17, <1>a, <1>b, <2>1 DEF CreateInsert, HandlerTypeOK, FusePcs
  <2>2. HandlerTypeOK'
    BY <1>17, <2>1, ReplyTyped DEF CreateInsert
  <2> QED BY <1>17, <2>2 DEF CreateInsert
<1>3. ASSUME NEW p \in Paths, OpenCheck(p) PROVE FuseParts'
  <2>1. VisibleFileRecord(p) \subseteq Ids
    BY DEF VisibleFileRecord, AliveAt, ActiveAt, Active
  <2>2. PICK id \in Ids : Begin("open_file", p, Root, id, FALSE)
    BY <1>3, <2>1 DEF OpenCheck
  <2>3. HandlerTypeOK'
    BY <2>2, BeginTyped DEF FusePcs
  <2> QED BY <1>3, <2>3 DEF OpenCheck
<1>4. ASSUME NEW p \in Paths, UnlinkCheck(p) PROVE FuseParts'
  <2>1. VisibleFileRecord(p) \subseteq Ids
    BY DEF VisibleFileRecord, AliveAt, ActiveAt, Active
  <2>2. PICK id \in Ids : Begin("unlink_file", p, Root, id, FALSE)
    BY <1>4, <2>1 DEF UnlinkCheck
  <2>3. HandlerTypeOK'
    BY <2>2, BeginTyped DEF FusePcs
  <2> QED BY <1>4, <2>3 DEF UnlinkCheck
<1>5. ASSUME NEW p \in Paths, Mkdir(p) \/ Rmdir(p) PROVE FuseParts'
  BY <1>5, DiskTyped DEF Mkdir, Rmdir, fuseVars, HandlerTypeOK
<1>6. ASSUME NEW r \in Renames, RenameStart(r[1], r[2]) PROVE FuseParts'
  <2> DEFINE dir == disk[r[1]] = Directory
  <2>1. r[1] \in Paths /\ r[2] \in Paths /\ <<r[1], r[2]>> \in Renames
    BY <1>6, RenamesAssumption DEF RenameStart
  <2>2. [from |-> r[1], to |-> r[2], dir |-> dir] \in RenameRecord
    BY <2>1 DEF RenameRecord
  <2>3. Begin("rename_fs", r[1], r[2], None, dir)
    BY <1>6 DEF RenameStart
  <2>4. HandlerTypeOK'
    BY <2>1, <2>3, BeginTyped DEF FusePcs
  <2> QED BY <1>6, <2>2, <2>4 DEF RenameStart, BeginRename
<1>7. ASSUME NEW h \in handles, Release(h) PROVE FuseParts'
  BY <1>7 DEF Release, storeVars, HandlerTypeOK
<1>8. CASE CreateOpen
  <2>1. HandlerTypeOK' /\ fuse.id \in Ids /\ fuse.path \in Paths
    BY <1>8, <1>a, <1>b, GotoTyped DEF CreateOpen, FusePcs, HandlerTypeOK
  <2> QED BY <1>8, <2>1, DiskTyped DEF CreateOpen
<1>9. CASE CreateAttr
  <2>1. HandlerTypeOK'
    BY <1>9, <1>b, GotoTyped, ReplyTyped DEF CreateAttr, FusePcs
  <2>2. fuse.id \in Ids /\ fuse.path \in Paths
    BY <1>9, <1>a, <1>b DEF CreateAttr, HandlerTypeOK
  <2>3. handles' \in SUBSET [path : Paths, id : Ids]
    BY <1>9, <2>2 DEF CreateAttr, OpenHandle
  <2> QED BY <1>9, <2>1, <2>3 DEF CreateAttr
<1>10. CASE CreateRemove
  <2>1. HandlerTypeOK' /\ fuse.path \in Paths
    BY <1>10, <1>a, <1>b, GotoTyped DEF CreateRemove, FusePcs
  <2> QED BY <1>10, <2>1 DEF CreateRemove, RemoveFile
<1>11. CASE CreateUndo \/ UnlinkMark
  BY <1>11, ReplyTyped DEF CreateUndo, UnlinkMark
<1>12. CASE OpenFile
  <2>1. HandlerTypeOK' /\ fuse.path \in Paths
    BY <1>12, <1>a, ReplyTyped DEF OpenFile
  <2> QED BY <1>12, <2>1 DEF OpenFile, OpenHandle, storeVars
<1>13. CASE UnlinkFile
  <2>1. HandlerTypeOK' /\ fuse.path \in Paths
    BY <1>13, <1>a, <1>b, GotoTyped, ReplyTyped DEF UnlinkFile, FusePcs
  <2> QED BY <1>13, <2>1 DEF UnlinkFile, RemoveFile
<1>14. CASE RenameFs
  <2>1. /\ <<fuse.path, fuse.to>> \in Renames
        /\ fuse.path \in Paths /\ fuse.to \in Paths
    BY <1>14, <1>b, RenamesAssumption DEF RenameFs, HandlerTypeOK
  <2>2. HandlerTypeOK'
    BY <1>14, <1>b, <2>1, GotoTyped DEF RenameFs, FusePcs
  <2> QED BY <1>14, <2>1, <2>2 DEF RenameFs, MoveTree
<1>15. CASE RenameStore
  <2>1. <<fuse.path, fuse.to>> \in Renames
    BY <1>15, <1>b DEF RenameStore, HandlerTypeOK
  <2>2. Goto("rename_complete") \/ Reply
    BY <1>15 DEF RenameStore
  <2>3. HandlerTypeOK'
    BY <1>15, <1>b, <2>1, <2>2, GotoTyped, ReplyTyped DEF RenameStore, FusePcs
  <2> QED BY <1>15, <2>3 DEF RenameStore
<1>16. CASE RenameCancel \/ RenameComplete
  <2>1. HandlerTypeOK'
    BY <1>16, ReplyTyped DEF RenameCancel, RenameComplete
  <2> QED BY <1>16, <2>1 DEF RenameCancel, RenameComplete, CompleteRename
<1> QED BY <1>1, <1>2, <1>3, <1>4, <1>5, <1>6, <1>7, <1>8, <1>9, <1>10, <1>11, <1>12,
          <1>13, <1>14, <1>15, <1>16, <1>17 DEF FuseRequest, FuseStep

\* The steps of a reaper pass.
LEMMA ReaperTyped ==
    ASSUME TypeOK, NEW r \in Reapers, ReaperWake(r) \/ ReaperStep(r) \/ GcKill(r)
    PROVE  StoreTypeOK' /\ ReaperTypeOK'
<1>0. reaper[r] \in Pass /\ ReaperIdle \in Pass /\ clock \in Nat
  BY DEF TypeOK, StoreTypeOK, ReaperTypeOK, ReaperIdle, Pass
<1> USE DEF TypeOK, StoreTypeOK, ReaperTypeOK
<1>1. CASE ReaperWake(r) \/ GcKill(r)
  <2>1. [ReaperIdle EXCEPT !.pc = "scan", !.now = clock] \in Pass
    BY <1>0 DEF ReaperIdle, Pass
  <2> QED BY <1>0, <1>1, <2>1 DEF ReaperWake, GcKill, storeVars
<1>2. CASE ReaperStep(r)
  <2>0. files' \in [Ids -> Row]
    BY <1>2, ReaperFiles DEF Table
  <2>1. CASE ReaperScan(r)
    <3>1. ASSUME NEW batch \in GcBatches(files', reaper[r].now, GcLimit)
          PROVE  {[id |-> id, path |-> files'[id].path] : id \in batch} \in SUBSET Item
      BY <2>0 DEF GcBatches, GcCandidates, Item, Row
    <3> QED BY <2>0, <2>1, <1>0, <3>1 DEF ReaperScan, Pass
  <2>2. CASE ReaperRemove(r)
    BY <1>0, <2>0, <2>2 DEF ReaperRemove, Earliest, RemoveFile, Item, Pass
  <2>3. CASE ReaperMark(r)
    <3>1. [reaper[r] EXCEPT !.pc = "remove", !.cur = {}] \in Pass
      BY <1>0 DEF Pass
    <3>2. PICK p \in Pass : reaper' = [reaper EXCEPT ![r] = p]
      BY <1>0, <2>3, <3>1 DEF ReaperMark
    <3> QED BY <2>0, <2>3, <3>2 DEF ReaperMark
  <2> QED BY <1>2, <2>1, <2>2, <2>3 DEF ReaperStep
<1> QED BY <1>1, <1>2

\* The steps of fade recover: what it opened is the bytes of some file.
LEMMA RecoverTyped ==
    ASSUME TypeOK, NEW c \in Recoverers, RecoverNext(c)
    PROVE  StoreTypeOK' /\ RecoverTypeOK'
<1>0. files' \in [Ids -> Row]
  BY RecoverFiles DEF Table
<1> USE <1>0 DEF TypeOK, StoreTypeOK, RecoverTypeOK, RecoverIdle, storeVars
<1>1. CASE RecoverLookup(c)
  BY <1>1 DEF RecoverLookup, Leave, RecoverPcs, ActiveAt, Active
<1>5. ASSUME NEW p \in Paths, RecoverStart(c, p) PROVE StoreTypeOK' /\ RecoverTypeOK'
  BY <1>5 DEF RecoverStart, RecoverPcs
<1>2. CASE RecoverOpen(c)
  BY <1>2 DEF RecoverOpen, Leave, RecoverPcs
<1>3. CASE RecoverVerify(c) \/ RecoverWindow(c) \/ RecoverKill(c)
  BY <1>3 DEF RecoverVerify, RecoverWindow, RecoverKill, Leave, RecoverPcs
<1>4. CASE RecoverPublish(c)
  BY <1>4 DEF RecoverPublish, Leave, Export, RecoverPcs
<1> QED BY <1>1, <1>2, <1>3, <1>4, <1>5 DEF RecoverNext

\* The steps of mounting.
LEMMA MountTyped ==
    ASSUME TypeOK, MountStep
    PROVE  StoreTypeOK' /\ MountTypeOK'
<1>0. files' \in [Ids -> Row]
  BY MountFiles DEF Table
<1> USE <1>0 DEF TypeOK, StoreTypeOK, MountTypeOK, MountPcs, MountDown
<1>1. CASE MountStart
  BY <1>1 DEF MountStart
<1>2. CASE MountRename
  <2>1. PICK r \in mount.renames :
          \/ mount' = [mount EXCEPT !.pc = "complete", !.renames = {r}]
          \/ Refuse
    BY <1>2 DEF MountRename
  <2>2. MountTypeOK'
    <3>1. CASE mount' = [mount EXCEPT !.pc = "complete", !.renames = {r}]
      BY <3>1
    <3>2. CASE Refuse
      BY <3>2 DEF Refuse
    <3> QED BY <2>1, <3>1, <3>2
  <2> QED BY <1>2, <2>2 DEF MountRename
<1>3. CASE MountComplete
  BY <1>3 DEF MountComplete, CompleteRename
<1>4. CASE MountList
  <2>1. {[id |-> id, path |-> files[id].path] : id \in Active(files)}
            \in SUBSET [id : Ids, path : Paths \cup {Root}]
    BY DEF Active, Row
  <2>2. MountTypeOK'
    BY <1>4, <2>1 DEF MountList
  <2> QED BY <1>4, <2>2 DEF MountList, storeVars
<1>5. CASE MountMissing
  BY <1>5 DEF MountMissing
<1>6. CASE MountFinish
  BY <1>6 DEF MountFinish, Refuse
<1> QED BY <1>1, <1>2, <1>3, <1>4, <1>5, <1>6 DEF MountStep

\* Every initial state of Fade is typed.
LEMMA InitTyped == Init => TypeOK
<1> SUFFICES ASSUME Init PROVE TypeOK
  OBVIOUS
<1>1. StoreTypeOK
  BY DEF Init, StoreInit, StoreTypeOK, NoRow, Row, Instants
<1>2. FuseTypeOK
  BY DEF Init, FuseInit, FuseIdle, FuseTypeOK, HandlerTypeOK, FusePcs
<1>3. ReaperTypeOK
  BY DEF Init, ReaperInit, ReaperIdle, ReaperTypeOK, Pass
<1>4. RecoverTypeOK
  BY DEF Init, RecoverInit, RecoverIdle, RecoverTypeOK, RecoverPcs
<1>5. MountTypeOK
  BY DEF Init, MountInit, MountDown, MountTypeOK, MountPcs
<1> QED BY <1>1, <1>2, <1>3, <1>4, <1>5 DEF TypeOK

\* Every step of Fade keeps it typed.
LEMMA NextTyped == TypeOK /\ [Next]_vars => TypeOK'
<1> SUFFICES ASSUME TypeOK, [Next]_vars PROVE TypeOK'
  OBVIOUS
<1>f. files' \in [Ids -> Row]
  BY FilesStep DEF Table
<1>1. CASE Tick \/ ClockJump
  <2>1. clock' \in Nat
    BY <1>1, FadeAssumption DEF Tick, ClockJump, TypeOK, StoreTypeOK
  <2> QED BY <1>1, <2>1 DEF Tick, ClockJump, TypeOK, StoreTypeOK, FuseTypeOK, HandlerTypeOK,
                            ReaperTypeOK, RecoverTypeOK, MountTypeOK
<1>2. CASE Serve \/ Handle
  <2>1. StoreTypeOK' /\ FuseTypeOK'
    BY <1>2, FuseTyped DEF Serve, Handle, FuseParts
  <2> QED BY <1>2, <2>1 DEF Serve, Handle, TypeOK, ReaperTypeOK, RecoverTypeOK, MountTypeOK
<1>3. CASE Mounting
  <2>1. StoreTypeOK' /\ MountTypeOK'
    BY <1>3, MountTyped DEF Mounting
  <2> QED BY <1>3, <2>1 DEF Mounting, TypeOK, FuseTypeOK, HandlerTypeOK, ReaperTypeOK, RecoverTypeOK
<1>4. CASE Unmount \/ Join
  BY <1>4 DEF Unmount, Join, MountStop, MountJoin, MountDown, storeVars, TypeOK, StoreTypeOK,
              FuseTypeOK, HandlerTypeOK, ReaperTypeOK, RecoverTypeOK, MountTypeOK, MountPcs
<1>5. CASE Crash
  <2>1. FuseTypeOK'
    BY <1>5 DEF Crash, FuseIdle, FuseTypeOK, HandlerTypeOK, FusePcs
  <2>2. ReaperTypeOK'
    BY <1>5 DEF Crash, ReaperIdle, TypeOK, ReaperTypeOK, Pass
  <2>3. StoreTypeOK' /\ RecoverTypeOK' /\ MountTypeOK'
    BY <1>5 DEF Crash, MountDown, TypeOK, StoreTypeOK, RecoverTypeOK, MountTypeOK, MountPcs
  <2> QED BY <2>1, <2>2, <2>3 DEF TypeOK
<1>6. ASSUME NEW r \in Reapers, Wake(r) \/ Reap(r) \/ Kill(r) PROVE TypeOK'
  <2>1. StoreTypeOK' /\ ReaperTypeOK'
    BY <1>6, ReaperTyped DEF Wake, Reap, Kill
  <2> QED BY <1>6, <2>1 DEF Wake, Reap, Kill, TypeOK, FuseTypeOK, HandlerTypeOK, RecoverTypeOK,
                            MountTypeOK
<1>7. ASSUME NEW c \in Recoverers, Recovering(c) PROVE TypeOK'
  <2>1. StoreTypeOK' /\ RecoverTypeOK'
    BY <1>7, RecoverTyped DEF Recovering
  <2> QED BY <1>7, <2>1 DEF Recovering, TypeOK, FuseTypeOK, HandlerTypeOK, ReaperTypeOK, MountTypeOK
<1>8. CASE Observe \/ UNCHANGED vars
  BY <1>8, <1>f DEF Observe, vars, TypeOK, StoreTypeOK, FuseTypeOK, HandlerTypeOK, ReaperTypeOK,
                    RecoverTypeOK, MountTypeOK
<1> QED BY <1>1, <1>2, <1>3, <1>4, <1>5, <1>6, <1>7, <1>8 DEF Next

------------------------------------------------------------------------------
(* The theorems. *)

\* Whatever the namespace, the workload, the number of reapers and recoverers
\* and the faults, every reachable state is typed: no handler is at a step
\* whose row or paths it does not have, no rename is recorded or replayed that
\* was not asked for, and every row a rename moves stays in the namespace
\* (the SQL of rename_prefix rewrites exactly the prefix it matched).
THEOREM TypeCorrect == Spec => []TypeOK
<1> QED BY InitTyped, NextTyped, PTL DEF Spec

\* No step of any actor takes a row back to an earlier state of its life or
\* moves its expiry or its recovery deadline: rename and rename_path keep the
\* instants of FileRecord::new, and a clock set back revives nothing.
THEOREM Lifecycle == Spec => LifecycleForward
<1>1. TypeOK /\ [Next]_vars => [\A id \in Ids : RowForward(files[id], files'[id])]_vars
  BY FilesStep DEF Forward
<1> QED BY <1>1, TypeCorrect, PTL DEF Spec, LifecycleForward

------------------------------------------------------------------------------
(* A pass only removes what was due when it began. *)

DueItem(item, fs, now) ==
    /\ fs[item.id].state \in {"expired", "deleted"}
    /\ fs[item.id].recovery_deadline # Forever
    /\ fs[item.id].recovery_deadline <= now

\* What was due to be removed stays so, whatever the step.
LEMMA DueItemStays ==
    ASSUME TypeOK, [Next]_vars, NEW item \in Item, NEW now, DueItem(item, files, now)
    PROVE  DueItem(item, files', now)
<1>1. item.id \in Ids
  BY DEF Item
<1>2. RowForward(files[item.id], files'[item.id])
  BY <1>1, FilesStep DEF Forward
<1> QED BY <1>2 DEF RowForward, DueItem

\* What a scan takes is expired, with its deadline behind the clock reading.
LEMMA ScanTakesDue ==
    ASSUME NEW fs \in Table, NEW now, NEW batch \in GcBatches(fs, now, GcLimit),
           NEW item \in {[id |-> id, path |-> fs[id].path] : id \in batch}
    PROVE  DueItem(item, fs, now)
BY DEF GcBatches, GcCandidates, DueItem

\* The work a pass has left, and the reading it was selected at.
Work(r) == reaper[r].queue \cup reaper[r].cur

\* A step either takes work off a pass, ends or starts the pass, or is its scan.
LEMMA WorkStep ==
    ASSUME TypeOK, [Next]_vars, NEW r \in Reapers
    PROVE  \/ Work(r)' \subseteq Work(r) /\ reaper'[r].now = reaper[r].now
           \/ Work(r)' = {}
           \/ ReaperScan(r)
<1>0. reaper \in [Reapers -> Pass]
  BY DEF TypeOK, ReaperTypeOK
<1>1. CASE UNCHANGED reaper
  BY <1>1 DEF Work
<1>2. CASE Crash
  BY <1>0, <1>2 DEF Crash, Work, ReaperIdle
<1>3. ASSUME NEW s \in Reapers, ReaperWake(s) \/ GcKill(s) \/ ReaperStep(s)
      PROVE  \/ Work(r)' \subseteq Work(r) /\ reaper'[r].now = reaper[r].now
             \/ Work(r)' = {}
             \/ ReaperScan(r)
  <2>1. CASE s # r
    <3>1. reaper'[r] = reaper[r]
      BY <1>0, <1>3, <2>1 DEF ReaperWake, GcKill, ReaperStep, ReaperScan, ReaperRemove, ReaperMark
    <3> QED BY <3>1 DEF Work
  <2>2. CASE s = r /\ (ReaperWake(r) \/ GcKill(r))
    <3> DEFINE begun == [ReaperIdle EXCEPT !.pc = "scan", !.now = clock]
    <3>1. begun.queue = {} /\ begun.cur = {}
      BY DEF ReaperIdle
    <3>2. reaper'[r] = begun \/ reaper'[r] = ReaperIdle
      BY <1>0, <2>2 DEF ReaperWake, GcKill
    <3>3. CASE reaper'[r] = begun
      <4>1. reaper'[r].queue = {} /\ reaper'[r].cur = {}
        BY <3>1, <3>3
      <4> QED BY <4>1 DEF Work
    <3>4. CASE reaper'[r] = ReaperIdle
      BY <3>4 DEF ReaperIdle, Work
    <3> QED BY <3>2, <3>3, <3>4
  <2>3. CASE s = r /\ ReaperRemove(r)
    BY <1>0, <2>3 DEF ReaperRemove, Earliest, ReaperIdle, Pass, Work
  <2>4. CASE s = r /\ ReaperMark(r)
    <3> DEFINE rest == [reaper[r] EXCEPT !.pc = "remove", !.cur = {}]
    <3>1. rest.queue = reaper[r].queue /\ rest.cur = {} /\ rest.now = reaper[r].now
      BY <1>0 DEF Pass
    <3>2. reaper'[r] = rest \/ reaper'[r] = ReaperIdle
      BY <1>0, <2>4 DEF ReaperMark
    <3>3. CASE reaper'[r] = rest
      <4>1. reaper'[r].queue = reaper[r].queue /\ reaper'[r].cur = {} /\ reaper'[r].now = reaper[r].now
        BY <3>1, <3>3
      <4> QED BY <4>1 DEF Work
    <3>4. CASE reaper'[r] = ReaperIdle
      BY <3>4 DEF ReaperIdle, Work
    <3> QED BY <3>2, <3>3, <3>4
  <2> QED BY <1>3, <2>1, <2>2, <2>3, <2>4 DEF ReaperStep
<1> QED
  BY <1>1, <1>2, <1>3 DEF Next, vars, Tick, ClockJump, Serve, Handle, Mounting, Unmount, Join,
     Wake, Reap, Kill, Recovering, Observe

\* However stale the list run_once works on has become, every entry of it is a
\* file whose recovery deadline had passed when the pass began, and its row
\* can no longer be alive: no pass holds a file a user can still see by id.
THEOREM PassesOnlyWhatIsDue == Spec => []QueueDue
<1>1. Init => QueueDue
  BY DEF Init, ReaperInit, ReaperIdle, QueueDue
<1>2. TypeOK /\ QueueDue /\ [Next]_vars => QueueDue'
  <2> SUFFICES ASSUME TypeOK, QueueDue, [Next]_vars,
                      NEW r \in Reapers, NEW item \in Work(r)'
               PROVE  DueItem(item, files', reaper'[r].now)
    BY DEF QueueDue, Work, DueItem
  <2>1. CASE Work(r)' \subseteq Work(r) /\ reaper'[r].now = reaper[r].now
    <3>1. item \in Item
      BY <2>1 DEF TypeOK, ReaperTypeOK, Pass, Work
    <3>2. DueItem(item, files, reaper[r].now)
      BY <2>1 DEF QueueDue, Work, DueItem
    <3> QED BY <2>1, <3>1, <3>2, DueItemStays
  <2>2. CASE ReaperScan(r)
    <3> DEFINE now == reaper[r].now
               Rows(batch) == {[id |-> id, path |-> files'[id].path] : id \in batch}
    <3>0. reaper \in [Reapers -> Pass] /\ files' \in Table
      BY FilesStep DEF TypeOK, ReaperTypeOK
    <3>1. CASE reaper' = [reaper EXCEPT ![r] = ReaperIdle]
      BY <3>0, <3>1 DEF Work, ReaperIdle
    <3>2. ASSUME NEW batch \in GcBatches(files', now, GcLimit),
                 reaper' = [reaper EXCEPT ![r].pc = "remove", ![r].queue = Rows(batch)]
          PROVE  DueItem(item, files', reaper'[r].now)
      <4>1. /\ reaper'[r].now = now
            /\ reaper'[r].queue = Rows(batch)
            /\ reaper'[r].cur = reaper[r].cur
        BY <3>0, <3>2 DEF Pass
      <4>2. CASE item \in Rows(batch)
        BY <3>0, <4>1, <4>2, ScanTakesDue
      <4>3. CASE item \in reaper[r].cur
        <5>1. item \in Item /\ DueItem(item, files, now)
          BY <3>0, <4>3 DEF Pass, QueueDue, DueItem
        <5> QED BY <4>1, <5>1, DueItemStays
      <4> QED BY <4>1, <4>2, <4>3 DEF Work
    <3> QED BY <2>2, <3>1, <3>2 DEF ReaperScan
  <2> QED BY <2>1, <2>2, WorkStep
<1> QED BY <1>1, <1>2, TypeCorrect, PTL DEF Spec
=============================================================================
