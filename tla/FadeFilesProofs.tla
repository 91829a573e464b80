--------------------------- MODULE FadeFilesProofs ---------------------------
(***************************************************************************)
(* Proofs about the files under Fade, for every value of the constants     *)
(* that meets the named conditions: what fade recover hands out, what the  *)
(* backing directory holds and when bytes leave it.                        *)
(***************************************************************************)
EXTENDS FadeProofs

------------------------------------------------------------------------------
(* Conditions on the constants.  Without each of them TLC finds a           *)
(* counterexample of the theorems that assume it.                           *)

\* Nobody sets the wall clock.
SteadyClock == ~ClockJumps

\* The user renames nothing.
NoRenames == Renames = {}

\* No request takes longer than the recovery window.
PromptRequests == MaxStall <= RecoveryWindow

\* No fade gc runs: the reaper thread of the mount is the only one.
OneReaper == Reapers \subseteq {Background}

------------------------------------------------------------------------------
(* What one step does to one row, and why. *)

Expires(id) ==
    /\ files[id].state = "alive"
    /\ files[id].expires_at # Forever /\ files[id].expires_at <= clock
    /\ files'[id] = [files[id] EXCEPT !.state = "expired"]

\* CreateInsert gives the id to a new file.
Given(id) ==
    /\ fuse.pc = "create_insert"
    /\ files[id].state = "none" /\ ActiveAt(files, fuse.path) = {}
    /\ files' = [files EXCEPT ![id] = NewRow(fuse.path, fuse.since)]
    /\ fuse' = [fuse EXCEPT !.pc = "create_open", !.id = id]
    /\ UNCHANGED <<clock, disk, pending, handles, reaper, recover, exports, mount>>

\* The end of a row: by a reaper pass, by a handler, by reconcile.
ReaperEnds(id) ==
    \E r \in Reapers : \E item \in reaper[r].cur :
        /\ item.id = id /\ ReaperMark(r)
        /\ UNCHANGED <<clock, disk, pending, fuse, handles, recover, exports, mount>>

HandlerEnds(id) ==
    /\ fuse.pc \in {"create_undo", "unlink_mark"}
    /\ id \in ActiveAt(files, fuse.path)
    /\ Reply
    /\ UNCHANGED <<clock, disk, pending, handles, reaper, recover, exports, mount>>

MountEnds(id) ==
    /\ mount.pc = "missing"
    /\ \E row \in mount.rows : row.id = id /\ disk[row.path] = None
    /\ UNCHANGED <<clock, disk, pending, fuse, handles, reaper, recover, exports>>

Ends(id) ==
    /\ files'[id] = [files[id] EXCEPT !.state = "deleted"]
    /\ ReaperEnds(id) \/ HandlerEnds(id) \/ MountEnds(id)

\* Renamed, by the handler or by reconcile.
Moves(id) ==
    /\ Renames # {}
    /\ files[id].state \in {"alive", "expired"}
    /\ files'[id] = [files[id] EXCEPT !.path = files'[id].path]

RowChange(id) ==
    files'[id] = files[id] \/ Expires(id) \/ Given(id) \/ Ends(id) \/ Moves(id)

\* No actor read a clock that is ahead, and a handler is not late.
Readings ==
    /\ fuse.pc # "idle" => fuse.since <= clock /\ clock <= fuse.since + MaxStall
    /\ \A r \in Reapers : reaper[r].now <= clock
    /\ \A c \in Recoverers : recover[c].now <= clock

\* expire_due at a reading that is not ahead only expires what is due.
LEMMA ExpireDueRow ==
    ASSUME TypeOK, NEW now \in Nat, now <= clock, files' = ExpireDue(files, now), NEW id \in Ids
    PROVE  files'[id] = files[id] \/ Expires(id)
<1>1. files[id] \in Row /\ clock \in Nat
  BY DEF TypeOK, StoreTypeOK
<1>2. files[id].expires_at # Forever => files[id].expires_at \in Nat
  BY <1>1 DEF Row, Instants
<1> QED BY <1>1, <1>2 DEF ExpireDue, Due, Expires

\* Every change of a row is one of those: nothing else in the program writes
\* the columns state, path, expires_at and recovery_deadline.
LEMMA RowStep ==
    ASSUME TypeOK, Readings, [Next]_vars, NEW id \in Ids
    PROVE  RowChange(id)
<1>t. files \in [Ids -> Row] /\ clock \in Nat
  BY DEF TypeOK, StoreTypeOK
<1> USE <1>t DEF RowChange
<1>1. CASE UNCHANGED files
  BY <1>1
<1>2. CASE files' = ExpireDue(files, clock)
  BY <1>2, ExpireDueRow
<1>3. CASE CreateInsert /\ UNCHANGED <<reaper, recover, exports, mount>>
  <2>1. ASSUME NEW i \in Ids, ActiveAt(files, fuse.path) = {}, files[i].state = "none",
               files' = [files EXCEPT ![i] = NewRow(fuse.path, fuse.since)],
               fuse' = [fuse EXCEPT !.pc = "create_open", !.id = i]
        PROVE  RowChange(id)
    <3>1. i = id => Given(id)
      BY <1>3, <2>1 DEF CreateInsert, Given
    <3> QED BY <2>1, <3>1
  <2> QED BY <1>1, <1>3, <2>1 DEF CreateInsert, Drawable
<1>4. CASE (CreateUndo \/ UnlinkMark) /\ UNCHANGED <<reaper, recover, exports, mount>>
  <2>1. CASE id \in ActiveAt(files, fuse.path) /\ files' = MarkDeletedByPath(files, fuse.path)
    <3>1. HandlerEnds(id)
      BY <1>4, <2>1 DEF CreateUndo, UnlinkMark, HandlerEnds
    <3> QED BY <2>1, <3>1 DEF MarkDeletedByPath, Ends
  <2> QED BY <1>4, <2>1 DEF CreateUndo, UnlinkMark, MarkDeletedByPath
<1>5. CASE RenameStore
  <2> DEFINE r == [from |-> fuse.path, to |-> fuse.to, dir |-> fuse.dir]
  <2>1. Renames # {}
    BY <1>5 DEF RenameStore, TypeOK, FuseTypeOK, HandlerTypeOK
  <2>2. files' = RenameRows(files, r) \/ files' = files
    BY <1>5 DEF RenameStore
  <2> QED BY <2>1, <2>2 DEF RenameRows, RenamePath, RenamePrefix, ActiveAt, Active, Moves, Row
<1>6. CASE MountRename
  <2>1. PICK r \in mount.renames : files' = RenameRows(files, r) \/ files' = files
    BY <1>6 DEF MountRename
  <2>2. Renames # {}
    BY <2>1 DEF TypeOK, MountTypeOK, RenameRecord
  <2> QED BY <2>1, <2>2 DEF RenameRows, RenamePath, RenamePrefix, ActiveAt, Active, Moves, Row
<1>7. CASE Mounting /\ MountMissing
  <2>1. PICK row \in mount.rows :
          files' = IF disk[row.path] = None THEN MarkDeleted(files, row.id) ELSE files
    BY <1>7 DEF MountMissing
  <2>2. row.id = id /\ disk[row.path] = None => MountEnds(id)
    BY <1>7, <2>1 DEF Mounting, MountMissing, MountEnds
  <2> QED BY <2>1, <2>2 DEF MarkDeleted, Ends
<1>8. ASSUME NEW r \in Reapers, ReaperScan(r) PROVE RowChange(id)
  <2>1. reaper[r].now \in Nat /\ reaper[r].now <= clock
    BY DEF Readings, TypeOK, ReaperTypeOK, Pass
  <2> QED BY <1>8, <2>1, ExpireDueRow DEF ReaperScan
<1>9. ASSUME NEW r \in Reapers, Reap(r), ReaperMark(r) PROVE RowChange(id)
  <2>1. PICK item \in reaper[r].cur : files' = MarkDeleted(files, item.id) \/ files' = files
    BY <1>9 DEF ReaperMark
  <2>2. item.id = id => ReaperEnds(id)
    BY <1>9, <2>1 DEF Reap, ReaperMark, ReaperEnds
  <2> QED BY <2>1, <2>2 DEF MarkDeleted, Ends
<1>10. CASE Serve
  BY <1>10, <1>1, <1>2 DEF Serve, FuseRequest, FuseAccess, CreateStart, OpenCheck, UnlinkCheck,
     Mkdir, Rmdir, RenameStart, Release, storeVars
<1>11. CASE Handle
  BY <1>11, <1>1, <1>2, <1>3, <1>4, <1>5 DEF Handle, FuseStep, CreateOpen, CreateAttr, CreateRemove,
     OpenFile, UnlinkFile, RenameFs, RenameCancel, RenameComplete, storeVars
<1>12. CASE Mounting
  BY <1>12, <1>1, <1>2, <1>6, <1>7 DEF Mounting, MountStep, MountStart, MountComplete,
     MountList, MountFinish, storeVars
<1>13. ASSUME NEW r \in Reapers, Wake(r) \/ Reap(r) \/ Kill(r) PROVE RowChange(id)
  BY <1>13, <1>1, <1>8, <1>9 DEF Wake, ReaperWake, Reap, ReaperStep, ReaperRemove, Kill, GcKill,
     storeVars
<1>15. ASSUME NEW c \in Recoverers, RecoverLookup(c) PROVE RowChange(id)
  <2>1. recover[c].now \in Nat /\ recover[c].now <= clock
    BY DEF Readings, TypeOK, RecoverTypeOK
  <2> QED BY <1>15, <2>1, ExpireDueRow DEF RecoverLookup
<1>14. ASSUME NEW c \in Recoverers, Recovering(c) PROVE RowChange(id)
  BY <1>14, <1>1, <1>15 DEF Recovering, RecoverNext, RecoverStart, RecoverOpen, RecoverVerify,
     RecoverWindow, RecoverPublish, RecoverKill, storeVars
<1> QED
  BY <1>1, <1>2, <1>10, <1>11, <1>12, <1>13, <1>14 DEF Next, vars, Tick, ClockJump, Unmount,
     MountStop, Join, MountJoin, Crash, Observe, storeVars

------------------------------------------------------------------------------
(* Time *)

\* Unless somebody sets it the clock does not run back, and it runs at most
\* MaxStall seconds during a request.
LEMMA ClockStep ==
    ASSUME SteadyClock, TypeOK, [Next]_vars
    PROVE  /\ clock' \in Nat /\ clock <= clock'
           /\ clock' # clock => /\ UNCHANGED <<files, disk, fuse, reaper, recover, exports>>
                                /\ fuse.pc # "idle" => clock' <= fuse.since + MaxStall
<1>1. clock \in Nat /\ MaxStall \in Nat /\ (fuse.since \in Nat)
  BY FadeAssumption DEF TypeOK, StoreTypeOK, FuseTypeOK, HandlerTypeOK
<1>2. CASE Tick
  BY <1>1, <1>2 DEF Tick
<1>3. ~ClockJump
  BY DEF ClockJump, SteadyClock
<1>4. CASE UNCHANGED clock
  BY <1>1, <1>4
<1>5. Tick \/ ClockJump \/ UNCHANGED clock
  BY DEF Next, vars, Serve, FuseRequest, FuseAccess, CreateStart, OpenCheck, UnlinkCheck, Mkdir,
     Rmdir, RenameStart, Release, Handle, FuseStep, CreateInsert, CreateOpen, CreateAttr, CreateRemove, CreateUndo,
     OpenFile, UnlinkFile, UnlinkMark, RenameFs, RenameCancel, RenameStore, RenameComplete,
     Mounting, MountStep, MountStart, MountRename, MountComplete, MountList, MountMissing,
     MountFinish, Unmount, MountStop, Join, MountJoin, Crash, Wake, ReaperWake, Reap, ReaperStep,
     ReaperScan, ReaperRemove, ReaperMark, Kill, GcKill, Recovering, RecoverNext, RecoverStart, RecoverLookup,
     RecoverOpen, RecoverVerify, RecoverWindow, RecoverPublish, RecoverKill, Observe, storeVars
<1> QED BY <1>2, <1>3, <1>4, <1>5

\* A handler keeps the instant it started at, or starts now.
LEMMA SinceStep ==
    ASSUME TypeOK, [Next]_vars
    PROVE  fuse'.pc = "idle" \/ fuse'.since = clock \/ (fuse.pc # "idle" /\ fuse'.since = fuse.since)
<1>t. HandlerTypeOK
  BY DEF TypeOK, FuseTypeOK
<1>1. CASE UNCHANGED fuse
  BY <1>1
<1>2. CASE Serve
  <2>1. \/ UNCHANGED fuse
        \/ \E pc, p, to, i, dir : Begin(pc, p, to, i, dir)
    BY <1>2 DEF Serve, FuseRequest, FuseAccess, CreateStart, OpenCheck, UnlinkCheck, Mkdir, Rmdir,
       RenameStart, Release, fuseVars
  <2> QED BY <1>1, <2>1 DEF Begin
<1>3. CASE Handle
  <2>1. CASE CreateInsert
    <3>1. ASSUME NEW i, fuse' = [fuse EXCEPT !.pc = "create_open", !.id = i]
          PROVE  fuse'.since = fuse.since
      BY <1>t, <3>1 DEF HandlerTypeOK
    <3>2. fuse.pc # "idle"
      BY <2>1 DEF CreateInsert
    <3>3. Reply \/ \E i \in Ids : fuse' = [fuse EXCEPT !.pc = "create_open", !.id = i]
      BY <2>1 DEF CreateInsert
    <3>4. Reply => fuse'.pc = "idle"
      BY DEF Reply, FuseIdle
    <3> QED BY <3>1, <3>2, <3>3, <3>4
  <2>2. CASE ~CreateInsert
    <3>1. fuse.pc # "idle" /\ (Reply \/ \E pc : Goto(pc))
      BY <1>3, <2>2 DEF Handle, FuseStep, CreateOpen, CreateAttr, CreateRemove, CreateUndo, OpenFile,
         UnlinkFile, UnlinkMark, RenameFs, RenameCancel, RenameStore, RenameComplete
    <3> QED BY <1>t, <3>1 DEF Reply, FuseIdle, Goto, HandlerTypeOK
  <2> QED BY <2>1, <2>2
<1>4. CASE Crash
  BY <1>4 DEF Crash, FuseIdle
<1> QED
  BY <1>1, <1>2, <1>3, <1>4 DEF Next, vars, Tick, ClockJump, Mounting, Unmount, Join, Wake, Reap,
     Kill, Recovering, Observe

\* A process of a reaper or of fade recover keeps the instant it read, or
\* reads the clock.
LEMMA ReadingStep ==
    ASSUME TypeOK, [Next]_vars
    PROVE  /\ \A r \in Reapers : reaper'[r].now \in {reaper[r].now, clock, 0}
           /\ \A c \in Recoverers : recover'[c].now \in {recover[c].now, clock, 0}
<1>t. reaper \in [Reapers -> Pass]
  BY DEF TypeOK, ReaperTypeOK
<1>u. recover \in [Recoverers -> [pc : RecoverPcs,
                                   path : Paths \cup {Root}, id : Ids \cup {None},
                                   now : Nat, bytes : Ids \cup {None}]]
  BY DEF TypeOK, RecoverTypeOK
<1>1. \A r \in Reapers : reaper'[r].now \in {reaper[r].now, clock, 0}
  <2>1. CASE UNCHANGED reaper
    BY <2>1
  <2>2. CASE Crash
    BY <1>t, <2>2 DEF Crash, ReaperIdle
  <2>3. ASSUME NEW s \in Reapers, ReaperWake(s) \/ GcKill(s)
        PROVE  \A r \in Reapers : reaper'[r].now \in {reaper[r].now, clock, 0}
    <3>1. [ReaperIdle EXCEPT !.pc = "scan", !.now = clock].now = clock /\ ReaperIdle.now = 0
      BY DEF ReaperIdle
    <3>2. reaper'[s].now \in {clock, 0} /\ \A r \in Reapers \ {s} : reaper'[r] = reaper[r]
      BY <1>t, <2>3, <3>1 DEF ReaperWake, GcKill
    <3> QED BY <3>2
  <2>4. ASSUME NEW s \in Reapers, ReaperStep(s)
        PROVE  \A r \in Reapers : reaper'[r].now \in {reaper[r].now, clock, 0}
    <3>1. reaper[s] \in Pass /\ ReaperIdle.now = 0
      BY <1>t DEF ReaperIdle
    <3>2. \A r \in Reapers \ {s} : reaper'[r] = reaper[r]
      BY <1>t, <2>4 DEF ReaperStep, ReaperScan, ReaperRemove, ReaperMark
    <3>3. CASE ReaperScan(s)
      BY <1>t, <3>1, <3>2, <3>3 DEF ReaperScan, Pass
    <3>4. CASE ReaperRemove(s)
      BY <1>t, <3>1, <3>2, <3>4 DEF ReaperRemove, Pass
    <3>5. CASE ReaperMark(s)
      <4>1. [reaper[s] EXCEPT !.pc = "remove", !.cur = {}].now = reaper[s].now
        BY <3>1 DEF Pass
      <4> QED BY <1>t, <3>1, <3>2, <3>5, <4>1 DEF ReaperMark
    <3> QED BY <2>4, <3>3, <3>4, <3>5 DEF ReaperStep
  <2> QED
    BY <2>1, <2>2, <2>3, <2>4 DEF Next, vars, Tick, ClockJump, Serve, Handle, Mounting, Unmount,
       Join, Wake, Reap, Kill, Recovering, Observe
<1>2. \A c \in Recoverers : recover'[c].now \in {recover[c].now, clock, 0}
  <2>1. CASE UNCHANGED recover
    BY <2>1
  <2>2. ASSUME NEW d \in Recoverers, RecoverNext(d)
        PROVE  \A c \in Recoverers : recover'[c].now \in {recover[c].now, clock, 0}
    <3>1. CASE RecoverOpen(d) \/ RecoverVerify(d) \/ RecoverWindow(d) \/ RecoverPublish(d)
               \/ RecoverKill(d)
      BY <1>u, <3>1 DEF RecoverOpen, RecoverVerify, RecoverWindow, RecoverPublish, RecoverKill,
         Leave, RecoverIdle
    <3>2. ASSUME NEW p \in Paths, RecoverStart(d, p)
          PROVE  \A c \in Recoverers : recover'[c].now \in {recover[c].now, clock, 0}
      BY <1>u, <3>2 DEF RecoverStart
    <3>3. CASE RecoverLookup(d)
      BY <1>u, <3>3 DEF RecoverLookup, Leave, RecoverIdle
    <3> QED BY <2>2, <3>1, <3>2, <3>3 DEF RecoverNext
  <2> QED
    BY <2>1, <2>2 DEF Next, vars, Tick, ClockJump, Serve, Handle, Mounting, Unmount, Join, Crash,
       Wake, Reap, Kill, Recovering, Observe
<1> QED BY <1>1, <1>2

------------------------------------------------------------------------------
(* What fade recover hands out *)

\* A row is marked expired only once its expiry has passed.
ExpiredPast ==
    \A id \in Ids :
        files[id].state = "expired" =>
            files[id].expires_at # Forever /\ files[id].expires_at <= clock

\* The file a recovery has found is past its expiry, though the reading the
\* command took may be before it, and once the command has passed its last
\* check that reading is before the deadline.
Asked(c) ==
    recover[c].pc \notin {"idle", "lookup"} =>
        LET row == files[recover[c].id]
        IN /\ row.state \in {"expired", "deleted"}
           /\ row.expires_at # Forever /\ row.expires_at <= clock
           /\ recover[c].pc = "publish" => recover[c].now < row.recovery_deadline

WindowInv ==
    /\ Readings
    /\ ExpiredPast
    /\ \A c \in Recoverers : Asked(c)
    /\ ExportsInWindow

\* Readings are taken from the clock, which does not run back.
LEMMA ReadingsStay ==
    ASSUME SteadyClock, TypeOK, Readings, [Next]_vars
    PROVE  Readings'
<1>t. /\ clock \in Nat /\ MaxStall \in Nat
      /\ \A r \in Reapers : reaper[r].now \in Nat
      /\ \A c \in Recoverers : recover[c].now \in Nat
  BY FadeAssumption DEF TypeOK, StoreTypeOK, ReaperTypeOK, Pass, RecoverTypeOK
<1>s. fuse.since \in Nat /\ fuse'.since \in Nat
  BY NextTyped DEF TypeOK, FuseTypeOK, HandlerTypeOK
<1>1. /\ clock' \in Nat /\ clock <= clock'
      /\ clock' # clock => UNCHANGED fuse /\ (fuse.pc # "idle" => clock' <= fuse.since + MaxStall)
  BY ClockStep
<1>2. fuse'.pc # "idle" => fuse'.since <= clock' /\ clock' <= fuse'.since + MaxStall
  BY <1>t, <1>s, <1>1, SinceStep DEF Readings
<1>3. \A r \in Reapers : reaper'[r].now <= clock'
  BY <1>t, <1>1, ReadingStep DEF Readings
<1>4. \A c \in Recoverers : recover'[c].now <= clock'
  BY <1>t, <1>1, ReadingStep DEF Readings
<1> QED BY <1>2, <1>3, <1>4 DEF Readings

\* The only step that marks a row expired is expire_due.
LEMMA ExpiredPastStay ==
    ASSUME SteadyClock, TypeOK, Readings, ExpiredPast, [Next]_vars
    PROVE  ExpiredPast'
<1> SUFFICES ASSUME NEW id \in Ids, files'[id].state = "expired"
             PROVE  files'[id].expires_at # Forever /\ files'[id].expires_at <= clock'
  BY DEF ExpiredPast
<1>t. /\ files[id] \in Row /\ clock \in Nat /\ clock' \in Nat /\ clock <= clock'
      /\ files \in [Ids -> Row]
  BY ClockStep DEF TypeOK, StoreTypeOK
<1>i. files[id].expires_at # Forever => files[id].expires_at \in Nat
  BY <1>t DEF Row, Instants
<1>1. CASE files'[id] = files[id]
  BY <1>t, <1>i, <1>1 DEF ExpiredPast
<1>2. CASE Expires(id)
  BY <1>t, <1>i, <1>2 DEF Expires, Row
<1>3. ~Given(id)
  <2>1. NewRow(fuse.path, fuse.since).state = "alive"
    BY DEF NewRow
  <2> QED BY <1>t, <2>1 DEF Given
<1>4. ~Ends(id)
  BY <1>t DEF Ends, Row
<1>5. CASE Moves(id)
  <2>1. files'[id].state = files[id].state /\ files'[id].expires_at = files[id].expires_at
    BY <1>t, <1>5 DEF Moves, Row
  <2> QED BY <1>t, <1>i, <2>1 DEF ExpiredPast
<1> QED BY <1>1, <1>2, <1>3, <1>4, <1>5, RowStep DEF RowChange

\* fade recover finds an expired row, and publishes after is_recoverable.
LEMMA AskedStay ==
    ASSUME SteadyClock, TypeOK, Readings, ExpiredPast, [Next]_vars,
           NEW c \in Recoverers, Asked(c)
    PROVE  Asked(c)'
<1> DEFINE Early == {"idle", "lookup"}
<1>t. /\ files \in [Ids -> Row] /\ clock \in Nat
      /\ recover[c].pc \notin Early => recover[c].id \in Ids
  BY DEF TypeOK, StoreTypeOK, RecoverTypeOK
<1>r. recover \in [Recoverers -> [pc : RecoverPcs,
                                  path : Paths \cup {Root}, id : Ids \cup {None},
                                  now : Nat, bytes : Ids \cup {None}]]
  BY DEF TypeOK, RecoverTypeOK
<1>k. ASSUME recover[c].pc \notin Early
      PROVE  LET old == files[recover[c].id]
                 new == files'[recover[c].id]
             IN  /\ new.state \in {"expired", "deleted"}
                 /\ new.expires_at # Forever /\ new.expires_at <= clock'
                 /\ new.recovery_deadline = old.recovery_deadline
  <2> DEFINE old == files[recover[c].id]
             new == files'[recover[c].id]
  <2>1. RowForward(old, new) /\ old \in Row
    BY <1>t, <1>k, FilesStep DEF Forward
  <2>2. /\ old.state \in {"expired", "deleted"} /\ old.expires_at \in Nat /\ old.expires_at # Forever
        /\ old.expires_at <= clock
    BY <1>k, <2>1 DEF Asked, Row, Instants
  <2>3. /\ new.state \in {"expired", "deleted"} /\ new.expires_at = old.expires_at
        /\ new.recovery_deadline = old.recovery_deadline
    BY <2>1, <2>2 DEF RowForward
  <2>4. clock' \in Nat /\ clock <= clock'
    BY ClockStep
  <2> QED BY <1>t, <2>2, <2>3, <2>4
<1>1. CASE recover'[c] = recover[c]
  BY <1>k, <1>1 DEF Asked
<1>2. CASE recover'[c].pc \in Early
  BY <1>2 DEF Asked
<1>3. CASE RecoverLookup(c)
  <2>1. CASE recover'[c].pc = "idle"
    BY <1>2, <2>1
  <2>2. ASSUME NEW id \in Ids, files'[id].state = "expired",
               recover' = [recover EXCEPT ![c].pc = "open", ![c].id = id]
        PROVE  Asked(c)'
    <3>1. recover'[c].pc = "open" /\ recover'[c].id = id
      BY <1>r, <2>2
    <3>2. files'[id].expires_at # Forever /\ files'[id].expires_at <= clock'
      BY <2>2, ExpiredPastStay DEF ExpiredPast
    <3> QED BY <2>2, <3>1, <3>2 DEF Asked
  <2> QED BY <1>r, <1>3, <2>1, <2>2 DEF RecoverLookup, ActiveAt, Active, Leave, RecoverIdle
<1>8. ASSUME NEW p \in Paths, RecoverStart(c, p) PROVE Asked(c)'
  BY <1>2, <1>r, <1>8 DEF RecoverStart
<1>4. CASE RecoverOpen(c) \/ RecoverVerify(c)
  <2>1. CASE recover'[c].pc = "idle"
    BY <1>2, <2>1
  <2>2. CASE /\ recover[c].pc \notin Early /\ recover'[c].pc \in {"verify", "window"}
             /\ recover'[c].id = recover[c].id /\ recover'[c].now = recover[c].now
    BY <1>k, <2>2 DEF Asked
  <2> QED BY <1>r, <1>4, <2>1, <2>2 DEF RecoverOpen, RecoverVerify, Leave, RecoverIdle
<1>5. CASE RecoverWindow(c)
  <2>1. CASE recover'[c].pc = "idle"
    BY <1>2, <2>1
  <2>2. CASE IsRecoverable(files, recover[c].id, recover[c].now)
    <3>1. /\ recover[c].pc \notin Early
          /\ recover'[c].id = recover[c].id /\ recover'[c].now = recover[c].now
      BY <1>r, <1>5, <2>2 DEF RecoverWindow
    <3>2. recover[c].now < files[recover[c].id].recovery_deadline
      BY <1>t, <1>r, <2>2, <3>1 DEF IsRecoverable, Row, Instants
    <3> QED BY <1>k, <3>1, <3>2 DEF Asked
  <2> QED BY <1>r, <1>5, <2>1, <2>2 DEF RecoverWindow, Leave, RecoverIdle
<1>6. CASE RecoverPublish(c) \/ RecoverKill(c)
  BY <1>2, <1>r, <1>6 DEF RecoverPublish, RecoverKill, Leave, RecoverIdle
<1>7. ASSUME NEW d \in Recoverers, Recovering(d) PROVE Asked(c)'
  <2>1. CASE d # c
    <3>1. recover'[c] = recover[c]
      BY <1>r, <1>7, <2>1 DEF Recovering, RecoverNext, RecoverStart, RecoverLookup, RecoverOpen, RecoverVerify,
         RecoverWindow, RecoverPublish, RecoverKill, Leave
    <3> QED BY <1>1, <3>1
  <2> QED BY <1>3, <1>4, <1>5, <1>6, <1>7, <1>8, <2>1 DEF Recovering, RecoverNext
<1> QED
  BY <1>1, <1>7 DEF Next, vars, Tick, ClockJump, Serve, Handle, Mounting, Unmount, Join, Crash,
     Wake, Reap, Kill, Observe

\* A step publishes at most the file and the bytes of one recovery.
LEMMA ExportStep ==
    ASSUME TypeOK, [Next]_vars, NEW e \in exports'
    PROVE  \/ e \in exports
           \/ \E c \in Recoverers : /\ recover[c].pc = "publish" /\ UNCHANGED storeVars
                                    /\ e = [id |-> recover[c].id, bytes |-> recover[c].bytes,
                                            at |-> recover[c].now]
<1>1. CASE UNCHANGED exports
  BY <1>1
<1>2. ASSUME NEW c \in Recoverers, RecoverPublish(c)
      PROVE  \/ e \in exports
             \/ \E d \in Recoverers : /\ recover[d].pc = "publish" /\ UNCHANGED storeVars
                                      /\ e = [id |-> recover[d].id, bytes |-> recover[d].bytes,
                                              at |-> recover[d].now]
  BY <1>2 DEF RecoverPublish
<1> QED
  BY <1>1, <1>2 DEF Next, vars, Tick, ClockJump, Serve, Handle, Mounting, Unmount, Join, Crash,
     Wake, Reap, Kill, Observe, Recovering, RecoverNext, RecoverStart, RecoverLookup, RecoverOpen, RecoverVerify,
     RecoverWindow, RecoverKill

\* The readings, the recoveries and the exports stay as WindowInv says.
LEMMA InWindow ==
    ASSUME SteadyClock
    PROVE  Spec => []WindowInv
<1>1. Init => WindowInv
  BY DEF Init, StoreInit, NoRow, FuseInit, FuseIdle, ReaperInit, ReaperIdle, RecoverInit, RecoverIdle,
     WindowInv, Readings, ExpiredPast, Asked, ExportsInWindow
<1>2. TypeOK /\ WindowInv /\ [Next]_vars => WindowInv'
  <2> SUFFICES ASSUME TypeOK, WindowInv, [Next]_vars PROVE WindowInv'
    OBVIOUS
  <2>1. Readings' /\ ExpiredPast'
    BY ReadingsStay, ExpiredPastStay DEF WindowInv
  <2>2. ASSUME NEW c \in Recoverers PROVE Asked(c)'
    BY AskedStay DEF WindowInv
  <2>3. ASSUME NEW e \in exports'
        PROVE  /\ files'[e.id].state \in {"expired", "deleted"}
               /\ files'[e.id].expires_at # Forever /\ files'[e.id].expires_at <= clock'
               /\ e.at < files'[e.id].recovery_deadline
    <3>1. CASE e \in exports
      <4>1. e.id \in Ids
        BY <3>1 DEF TypeOK, RecoverTypeOK, Export
      <4>2. RowForward(files[e.id], files'[e.id])
        BY <4>1, FilesStep DEF Forward
      <4>3. files[e.id] \in Row /\ clock \in Nat /\ clock' \in Nat /\ clock <= clock'
        BY <4>1, ClockStep DEF TypeOK, StoreTypeOK
      <4>4. /\ files[e.id].state \in {"expired", "deleted"}
            /\ files[e.id].expires_at # Forever /\ files[e.id].expires_at <= clock
            /\ e.at < files[e.id].recovery_deadline /\ files[e.id].expires_at \in Nat
        BY <3>1, <4>3 DEF WindowInv, ExportsInWindow, Row, Instants
      <4>5. /\ files'[e.id].state \in {"expired", "deleted"}
            /\ files'[e.id].expires_at = files[e.id].expires_at
            /\ files'[e.id].recovery_deadline = files[e.id].recovery_deadline
        BY <4>2, <4>4 DEF RowForward
      <4> QED BY <4>3, <4>4, <4>5
    <3>2. ASSUME NEW c \in Recoverers, recover[c].pc = "publish", UNCHANGED storeVars,
                 e = [id |-> recover[c].id, bytes |-> recover[c].bytes, at |-> recover[c].now]
          PROVE  /\ files'[e.id].state \in {"expired", "deleted"}
                 /\ files'[e.id].expires_at # Forever /\ files'[e.id].expires_at <= clock'
                 /\ e.at < files'[e.id].recovery_deadline
      BY <3>2 DEF WindowInv, Asked, storeVars
    <3> QED BY <3>1, <3>2, ExportStep
  <2> QED BY <2>1, <2>2, <2>3 DEF WindowInv, ExportsInWindow
<1> QED BY <1>1, <1>2, TypeCorrect, PTL DEF Spec

\* While nobody sets the clock, everything fade recover publishes is of a file
\* past its expiry, in answer to a command that read the clock before the
\* recovery deadline, and that file never comes back: whatever the workload,
\* the faults and the other processes do between the reading, the lookup, the
\* opening of the bytes and is_recoverable (recover, recover_at).
THEOREM ExportsAreInWindow ==
    ASSUME SteadyClock
    PROVE  Spec => []ExportsInWindow
<1>1. WindowInv => ExportsInWindow
  BY DEF WindowInv
<1> QED BY <1>1, InWindow, PTL

------------------------------------------------------------------------------
(* The backing directory follows the table, without renames *)

\* A row's deadline lies the recovery window after its expiry.
Paired ==
    \A id \in Ids :
        files[id].recovery_deadline # Forever =>
            /\ files[id].expires_at # Forever
            /\ files[id].recovery_deadline = files[id].expires_at + RecoveryWindow

\* The steps of a handler that works on one row.
RowPcs == {"create_open", "create_attr", "create_remove", "create_undo",
           "open_file", "unlink_file", "unlink_mark"}

\* A row the handler works on keeps its deadline ahead until the handler ends,
\* so that no reaper pass takes it meanwhile, ...
HandlerAhead ==
    fuse.pc \in RowPcs =>
        LET row == files[fuse.id]
        IN /\ fuse.id \in Ids /\ row.state # "none" /\ row.path = fuse.path
           /\ row.recovery_deadline # Forever => fuse.since + MaxStall < row.recovery_deadline

\* ... and no other row has its path.
HandlerOwns == fuse.pc \in RowPcs => ActiveAt(files, fuse.path) \subseteq {fuse.id}

\* A new file is filled once; a row is given up after its file is gone.
HandlerSees ==
    /\ fuse.pc = "create_open" => fuse.id \in Active(files) /\ ~BytesOf(disk, fuse.id)
    /\ fuse.pc \in {"create_undo", "unlink_mark"} => disk[fuse.path] \notin Ids
    /\ fuse.pc # "idle" => mount.pc = "up"

\* What a pass remembers of a row still is the row's, and the file of the row
\* it is about to mark is gone.
PassSees ==
    \A r \in Reapers :
        /\ \A item \in Work(r) : files[item.id].path = item.path
        /\ \A item \in reaper[r].cur : ~BytesOf(disk, item.id)

\* Reconcile lists rows that exist, and has no rename to settle.
MountSees ==
    /\ mount.pc \notin {"renames", "complete"}
    /\ \A row \in mount.rows : files[row.id].state # "none" /\ files[row.id].path = row.path

TrackedInv ==
    /\ Readings /\ UniquePaths(files) /\ Paired /\ QueueDue
    /\ HandlerAhead /\ HandlerOwns /\ HandlerSees
    /\ PassSees /\ MountSees
    /\ TrackedBytes
    /\ NeverRefused

\* The bytes fade recover has opened are those of the row it found, as long as
\* that row is not reclaimed.
Opened(c) ==
    recover[c].pc \notin {"idle", "lookup"} =>
        LET id == recover[c].id
        IN /\ files[id].state \in {"expired", "deleted"} /\ files[id].path = recover[c].path
           /\ recover[c].pc \in {"verify", "window"} /\ files[id].state = "expired"
                 => recover[c].bytes = id
           /\ recover[c].pc = "publish" => recover[c].bytes = id

ExportInv == ExportsMatch /\ \A c \in Recoverers : Opened(c)

\* A row that exists keeps its path and its instants.
LEMMA RowKept ==
    ASSUME NoRenames, TypeOK, Readings, [Next]_vars, NEW id \in Ids, files[id].state # "none"
    PROVE  /\ files'[id].state # "none"
           /\ files'[id].path = files[id].path
           /\ files'[id].expires_at = files[id].expires_at
           /\ files'[id].recovery_deadline = files[id].recovery_deadline
<1>1. files[id] \in Row
  BY DEF TypeOK, StoreTypeOK
<1>2. ~Given(id) /\ ~Moves(id)
  BY DEF Given, Moves, NoRenames
<1>3. files'[id] = files[id] \/ files'[id] = [files[id] EXCEPT !.state = "expired"]
                             \/ files'[id] = [files[id] EXCEPT !.state = "deleted"]
  BY <1>2, RowStep DEF RowChange, Expires, Ends
<1> QED BY <1>1, <1>3 DEF Row

\* A row becomes active by being given, and in no other way.
LEMMA ActiveStep ==
    ASSUME NoRenames, TypeOK, Readings, [Next]_vars, NEW id \in Active(files')
    PROVE  id \in Active(files) \/ Given(id)
<1>1. id \in Ids /\ files[id] \in Row
  BY DEF TypeOK, StoreTypeOK, Active
<1>2. ~Ends(id) /\ ~Moves(id)
  BY <1>1 DEF Ends, Moves, NoRenames, Active, Row
<1> QED BY <1>1, <1>2, RowStep DEF RowChange, Expires, Active

\* What a new row looks like.
LEMMA GivenRow ==
    ASSUME TypeOK, NEW id \in Ids, Given(id)
    PROVE  /\ files'[id].state = "alive" /\ files'[id].path = fuse.path
           /\ ActiveAt(files, fuse.path) = {}
           /\ fuse'.pc = "create_open" /\ fuse'.path = fuse.path /\ fuse'.id = id
           /\ fuse'.since = fuse.since
           /\ files'[id].recovery_deadline # Forever =>
                 /\ files'[id].expires_at \in Nat
                 /\ fuse.since < files'[id].expires_at
                 /\ files'[id].recovery_deadline = files'[id].expires_at + RecoveryWindow
           /\ files'[id].recovery_deadline = Forever => files'[id].expires_at = Forever
           /\ \A i \in Ids \ {id} : files'[i] = files[i]
           /\ UNCHANGED <<clock, disk, reaper, recover, exports, mount>>
           /\ fuse.pc = "create_insert" /\ fuse.path \in DOMAIN Ttl
<1>1. /\ fuse.pc = "create_insert" /\ ActiveAt(files, fuse.path) = {}
      /\ files' = [files EXCEPT ![id] = NewRow(fuse.path, fuse.since)]
      /\ fuse' = [fuse EXCEPT !.pc = "create_open", !.id = id]
      /\ UNCHANGED <<clock, disk, pending, handles, reaper, recover, exports, mount>>
  BY DEF Given
<1>2. /\ files \in [Ids -> Row] /\ HandlerTypeOK
      /\ fuse.since \in Nat /\ fuse.path \in DOMAIN Ttl
  BY <1>1 DEF TypeOK, StoreTypeOK, FuseTypeOK, HandlerTypeOK
<1>f. /\ fuse'.pc = "create_open" /\ fuse'.path = fuse.path /\ fuse'.id = id
      /\ fuse'.since = fuse.since
  BY <1>1, <1>2 DEF HandlerTypeOK
<1> DEFINE row == NewRow(fuse.path, fuse.since)
<1>3. files'[id] = row /\ \A i \in Ids \ {id} : files'[i] = files[i]
  BY <1>1, <1>2
<1>4. /\ row.state = "alive" /\ row.path = fuse.path
      /\ row.expires_at = IF Ttl[fuse.path] = Forever THEN Forever ELSE fuse.since + Ttl[fuse.path]
      /\ row.recovery_deadline =
            IF Ttl[fuse.path] = Forever THEN Forever ELSE fuse.since + Ttl[fuse.path] + RecoveryWindow
  BY DEF NewRow
<1>5. /\ Ttl[fuse.path] = Forever \/ Ttl[fuse.path] \in Nat \ {0}
      /\ RecoveryWindow \in Nat /\ Forever \notin Nat
  BY <1>2, StoreAssumption
<1> HIDE DEF row
<1>6. /\ files'[id].recovery_deadline # Forever =>
            /\ files'[id].expires_at \in Nat
            /\ fuse.since < files'[id].expires_at
            /\ files'[id].recovery_deadline = files'[id].expires_at + RecoveryWindow
      /\ files'[id].recovery_deadline = Forever => files'[id].expires_at = Forever
  BY <1>2, <1>3, <1>4, <1>5
<1> QED BY <1>1, <1>2, <1>f, <1>3, <1>4, <1>6

\* Bytes come to a path only by create, which opens with O_EXCL.
LEMMA BytesStep ==
    ASSUME NoRenames, TypeOK, [Next]_vars, NEW p \in Paths, disk'[p] \in Ids
    PROVE  \/ disk'[p] = disk[p]
           \/ /\ CreateOpen /\ p = fuse.path /\ disk'[p] = fuse.id
              /\ disk[p] = None
              /\ UNCHANGED <<clock, files, reaper, recover, exports, mount>>
<1>t. /\ disk \in [Paths -> Ids \cup {None, Directory}] /\ HandlerTypeOK
      /\ None \notin Ids /\ Directory \notin Ids
  BY StoreAssumption DEF TypeOK, StoreTypeOK, FuseTypeOK
<1>1. CASE UNCHANGED disk
  BY <1>1
<1>2. CASE CreateOpen /\ UNCHANGED <<reaper, recover, exports, mount>>
  BY <1>t, <1>2 DEF CreateOpen
<1>3. ASSUME NEW q, disk' = RemoveFile(disk, q) PROVE disk'[p] = disk[p]
  BY <1>t, <1>3 DEF RemoveFile
<1>4. ASSUME NEW q, Mkdir(q) \/ Rmdir(q) PROVE disk'[p] = disk[p]
  BY <1>t, <1>4 DEF Mkdir, Rmdir
<1>5. CASE MountStart
  BY <1>t, <1>5 DEF MountStart
<1>6. ~RenameFs
  BY <1>t DEF RenameFs, HandlerTypeOK, NoRenames
<1>7. CASE Handle
  BY <1>1, <1>2, <1>3, <1>6, <1>7 DEF Handle, FuseStep, CreateInsert, CreateAttr, CreateRemove, CreateUndo,
     OpenFile, UnlinkFile, UnlinkMark, RenameCancel, RenameStore, RenameComplete, storeVars
<1>8. CASE Serve
  BY <1>1, <1>4, <1>8 DEF Serve, FuseRequest, FuseAccess, CreateStart, OpenCheck, UnlinkCheck,
     RenameStart, Release, storeVars
<1>9. CASE Mounting
  BY <1>1, <1>5, <1>9 DEF Mounting, MountStep, MountRename, MountComplete, MountList, MountMissing,
     MountFinish, storeVars
<1>10. ASSUME NEW r \in Reapers, Wake(r) \/ Reap(r) \/ Kill(r)
       PROVE  disk'[p] = disk[p]
  BY <1>1, <1>3, <1>10 DEF Wake, ReaperWake, Reap, ReaperStep, ReaperScan, ReaperRemove, ReaperMark,
     Kill, GcKill, storeVars
<1> QED
  BY <1>1, <1>7, <1>8, <1>9, <1>10 DEF Next, vars, Tick, ClockJump, Unmount, MountStop, Join, MountJoin,
     Crash, Observe, Recovering, RecoverNext, RecoverStart, RecoverLookup, RecoverOpen, RecoverVerify, RecoverWindow,
     RecoverPublish, RecoverKill, storeVars

\* At most one active row per path: no statement meets the index
\* idx_files_active_path.
LEMMA UniqueStays ==
    ASSUME NoRenames, TypeOK, Readings, UniquePaths(files), [Next]_vars
    PROVE  UniquePaths(files')
<1> SUFFICES ASSUME NEW i \in Active(files'), NEW j \in Active(files'),
                    files'[i].path = files'[j].path, i # j
             PROVE  FALSE
  BY DEF UniquePaths
<1>1. ASSUME NEW x \in Active(files) PROVE x \in Ids /\ files'[x].path = files[x].path
  BY <1>1, RowKept DEF Active
<1>2. CASE i \in Active(files) /\ j \in Active(files)
  BY <1>1, <1>2 DEF UniquePaths
<1>3. ASSUME NEW x \in Active(files'), NEW y \in Active(files'), x # y, Given(x),
             files'[x].path = files'[y].path
      PROVE  FALSE
  <2>1. x \in Ids /\ y \in Ids
    BY DEF Active
  <2>2. /\ files'[x].path = fuse.path /\ ActiveAt(files, fuse.path) = {}
        /\ \A z \in Ids \ {x} : files'[z] = files[z]
    BY <1>3, <2>1, GivenRow
  <2> QED BY <1>3, <2>1, <2>2 DEF ActiveAt, Active
<1> QED BY <1>2, <1>3, ActiveStep

\* A handler at work on a row went on from a step on that row, has just given
\* the row its id, or has just seen it alive.
Continues == /\ fuse.pc \in RowPcs
             /\ fuse'.path = fuse.path /\ fuse'.id = fuse.id /\ fuse'.since = fuse.since

Sees ==
    \E p \in Paths, id \in Ids :
        /\ fuse.pc = "idle" /\ mount.pc = "up"
        /\ id \in AliveAt(ExpireDue(files, clock), p)
        /\ files' = ExpireDue(files, clock)
        /\ fuse' = [pc |-> fuse'.pc, path |-> p, to |-> Root, id |-> id,
                    dir |-> FALSE, since |-> clock]
        /\ fuse'.pc \in {"open_file", "unlink_file"}
        /\ UNCHANGED <<clock, disk, reaper, recover, exports, mount>>

\* A step after which a handler works on a row is one of those.
LEMMA HandlerStep ==
    ASSUME NoRenames, TypeOK, [Next]_vars, fuse'.pc \in RowPcs
    PROVE  Continues \/ Sees \/ (\E id \in Ids : Given(id))
<1>t. HandlerTypeOK
  BY DEF TypeOK, FuseTypeOK
<1>1. CASE UNCHANGED fuse
  BY <1>1 DEF Continues
<1>2. ASSUME NEW p \in Paths, OpenCheck(p) \/ UnlinkCheck(p), mount.pc = "up",
             UNCHANGED <<reaper, recover, exports, mount>>
      PROVE  Sees
  <2>1. VisibleFileRecord(p) \subseteq Ids
    BY DEF VisibleFileRecord, AliveAt, ActiveAt, Active
  <2>2. PICK id \in VisibleFileRecord(p), pc \in {"open_file", "unlink_file"} :
          Begin(pc, p, Root, id, FALSE)
    BY <1>2 DEF OpenCheck, UnlinkCheck
  <2>3. /\ fuse' = [pc |-> pc, path |-> p, to |-> Root, id |-> id, dir |-> FALSE, since |-> clock]
        /\ fuse'.pc = pc
    BY <2>2 DEF Begin
  <2> QED BY <1>2, <2>1, <2>2, <2>3 DEF OpenCheck, UnlinkCheck, VisibleFileRecord, Sees
<1>3. CASE CreateInsert /\ UNCHANGED <<reaper, recover, exports, mount>>
  <2>1. ~Reply
    BY DEF Reply, FuseIdle, RowPcs
  <2> QED BY <1>3, <2>1 DEF CreateInsert, Drawable, Given
<1>4. CASE Serve
  <2>1. ASSUME NEW p PROVE ~CreateStart(p)
    BY DEF CreateStart, Begin, RowPcs
  <2> QED
    BY <1>1, <1>2, <1>4, <2>1 DEF Serve, FuseRequest, FuseAccess, Mkdir, Rmdir, RenameStart, Release,
       NoRenames, fuseVars
<1>5. ASSUME NEW pc, Goto(pc), fuse.pc \in RowPcs PROVE Continues
  BY <1>t, <1>5 DEF Goto, HandlerTypeOK, Continues
<1>6. ~Reply /\ ~RenameFs /\ ~RenameStore
  BY <1>t DEF Reply, FuseIdle, RowPcs, RenameFs, RenameStore, HandlerTypeOK, NoRenames
<1>7. CASE Handle
  BY <1>3, <1>5, <1>6, <1>7 DEF Handle, FuseStep, CreateOpen, CreateAttr, CreateRemove, CreateUndo,
     OpenFile, UnlinkFile, UnlinkMark, RenameCancel, RenameComplete, RowPcs
<1>8. ~Crash
  BY DEF Crash, FuseIdle, RowPcs
<1> QED
  BY <1>1, <1>4, <1>7, <1>8 DEF Next, vars, Tick, ClockJump, Mounting, Unmount, Join, Wake, Reap,
     Kill, Recovering, Observe

\* The two instants of a row are set together and never again.
LEMMA PairedStays ==
    ASSUME NoRenames, TypeOK, Readings, Paired, [Next]_vars
    PROVE  Paired'
<1> SUFFICES ASSUME NEW id \in Ids, files'[id].recovery_deadline # Forever
             PROVE  /\ files'[id].expires_at # Forever
                    /\ files'[id].recovery_deadline = files'[id].expires_at + RecoveryWindow
  BY DEF Paired
<1>1. CASE Given(id)
  BY <1>1, GivenRow, StoreAssumption
<1>2. CASE ~Given(id)
  <2>1. files[id] \in Row /\ ~Moves(id)
    BY DEF TypeOK, StoreTypeOK, Moves, NoRenames
  <2>2. /\ files'[id].recovery_deadline = files[id].recovery_deadline
        /\ files'[id].expires_at = files[id].expires_at
    BY <1>2, <2>1, RowStep DEF RowChange, Expires, Ends, Row
  <2> QED BY <2>2 DEF Paired
<1> QED BY <1>1, <1>2

\* The row in hand stays, with its deadline beyond the longest request: a new
\* row has at least one second to live, a row just seen alive is not due yet,
\* and the recovery window is longer than any request.
LEMMA HandlerAheadStays ==
    ASSUME NoRenames, PromptRequests, TypeOK, Readings, Paired, HandlerAhead, [Next]_vars
    PROVE  HandlerAhead'
<1> SUFFICES ASSUME fuse'.pc \in RowPcs PROVE HandlerAhead'
  BY DEF HandlerAhead
<1>t. /\ files \in [Ids -> Row] /\ clock \in Nat /\ MaxStall \in Nat /\ RecoveryWindow \in Nat
      /\ MaxStall <= RecoveryWindow /\ Forever \notin Nat
  BY StoreAssumption, FadeAssumption DEF TypeOK, StoreTypeOK, PromptRequests
<1>1. CASE Continues
  BY <1>1, RowKept DEF Continues, HandlerAhead
<1>2. CASE Sees
  <2>1. PICK p \in Paths, id \in Ids :
          /\ id \in AliveAt(ExpireDue(files, clock), p)
          /\ files' = ExpireDue(files, clock)
          /\ fuse'.path = p /\ fuse'.id = id /\ fuse'.since = clock
    BY <1>2 DEF Sees
  <2>2. files'[id] = files[id] /\ files[id].state = "alive" /\ files[id].path = p
        /\ ~(files[id].expires_at # Forever /\ files[id].expires_at <= clock)
    BY <1>t, <2>1 DEF AliveAt, ActiveAt, Active, ExpireDue, Due, Row
  <2>3. files[id].recovery_deadline # Forever =>
            /\ files[id].expires_at \in Nat
            /\ files[id].recovery_deadline = files[id].expires_at + RecoveryWindow
    BY <1>t DEF Paired, Row, Instants
  <2>4. files[id].recovery_deadline # Forever => clock + MaxStall < files[id].recovery_deadline
    BY <1>t, <2>2, <2>3
  <2> QED BY <2>1, <2>2, <2>4 DEF HandlerAhead
<1>3. ASSUME NEW id \in Ids, Given(id) PROVE HandlerAhead'
  <2>1. /\ fuse'.id = id /\ fuse'.since = fuse.since
        /\ files'[id].state # "none" /\ files'[id].path = fuse'.path
        /\ files'[id].recovery_deadline # Forever =>
              /\ files'[id].expires_at \in Nat /\ fuse.since < files'[id].expires_at
              /\ files'[id].recovery_deadline = files'[id].expires_at + RecoveryWindow
    BY <1>3, GivenRow
  <2>2. fuse.since \in Nat
    BY DEF TypeOK, FuseTypeOK, HandlerTypeOK
  <2> QED BY <1>t, <2>1, <2>2 DEF HandlerAhead
<1> QED BY <1>1, <1>2, <1>3, HandlerStep

\* No other row comes to the path in hand: only this handler could insert one.
LEMMA HandlerOwnsStays ==
    ASSUME NoRenames, TypeOK, Readings, UniquePaths(files), HandlerAhead, HandlerOwns, [Next]_vars
    PROVE  HandlerOwns'
<1> SUFFICES ASSUME fuse'.pc \in RowPcs, NEW x \in ActiveAt(files', fuse'.path)
             PROVE  x = fuse'.id
  BY DEF HandlerOwns
<1>0. /\ x \in Ids /\ x \in Active(files') /\ files'[x].path = fuse'.path
      /\ UniquePaths(files')
  BY UniqueStays DEF ActiveAt, Active
<1>1. CASE Continues
  <2>1. ~Given(x)
    BY <1>1 DEF Continues, Given, RowPcs
  <2>2. x \in Active(files) /\ files'[x].path = files[x].path
    BY <1>0, <2>1, ActiveStep, RowKept DEF Active
  <2> QED BY <1>0, <1>1, <2>2 DEF HandlerOwns, Continues, ActiveAt
<1>2. CASE Sees
  <2>1. PICK p \in Paths, id \in Ids :
          /\ id \in AliveAt(files', p) /\ fuse'.path = p /\ fuse'.id = id
    BY <1>2 DEF Sees
  <2> QED BY <1>0, <2>1 DEF AliveAt, ActiveAt, UniquePaths
<1>3. ASSUME NEW id \in Ids, Given(id) PROVE x = fuse'.id
  <2>1. /\ fuse'.id = id /\ files'[id].state = "alive" /\ files'[id].path = fuse'.path
    BY <1>3, GivenRow
  <2> QED BY <1>0, <2>1 DEF Active, UniquePaths
<1> QED BY <1>1, <1>2, <1>3, HandlerStep

\* Without renames every handler in progress works on a row or is about to
\* insert one.
LEMMA RowHandlers ==
    ASSUME NoRenames, HandlerTypeOK, fuse.pc # "idle"
    PROVE  fuse.pc \in RowPcs \cup {"create_insert"} /\ fuse.path \in Paths
BY DEF NoRenames, HandlerTypeOK, FusePcs, RowPcs

\* A handler begins by serving a request.
LEMMA HandlerBegins ==
    ASSUME [Next]_vars, fuse.pc = "idle", fuse'.pc # "idle"
    PROVE  Serve
<1>1. ~Handle
  BY DEF Handle, FuseStep, CreateInsert, CreateOpen, CreateAttr, CreateRemove, CreateUndo, OpenFile,
     UnlinkFile, UnlinkMark, RenameFs, RenameCancel, RenameStore, RenameComplete
<1>2. ~Crash
  BY DEF Crash, FuseIdle
<1> QED
  BY <1>1, <1>2 DEF Next, vars, Tick, ClockJump, Mounting, Unmount, Join, Wake, Reap, Kill,
     Recovering, Observe

\* The handlers' steps that move from one row step to another.
LEMMA GotoStep ==
    ASSUME NoRenames, TypeOK, [Next]_vars, fuse.pc \in RowPcs, fuse'.pc # "idle", fuse' # fuse
    PROVE  /\ CreateOpen \/ CreateAttr \/ CreateRemove \/ UnlinkFile
           /\ fuse'.pc \in {"create_attr", "create_remove", "create_undo", "unlink_mark"}
           /\ fuse'.path = fuse.path /\ fuse'.id = fuse.id
           /\ UNCHANGED <<clock, reaper, recover, exports, mount>>
<1>t. HandlerTypeOK /\ fuse.pc # "idle"
  BY DEF TypeOK, FuseTypeOK, RowPcs
<1>1. Handle
  <2>1. ~Serve
    BY <1>t DEF Serve, FuseRequest, FuseAccess, CreateStart, OpenCheck, UnlinkCheck, Mkdir, Rmdir,
       RenameStart, Release
  <2>2. ~Crash
    BY DEF Crash, FuseIdle
  <2> QED
    BY <2>1, <2>2 DEF Next, vars, Tick, ClockJump, Mounting, Unmount, Join, Wake, Reap, Kill,
       Recovering, Observe
<1>2. ~Reply /\ ~RenameFs /\ ~RenameStore /\ ~RenameCancel /\ ~RenameComplete
  BY <1>t DEF Reply, FuseIdle, RenameFs, RenameStore, RenameCancel, RenameComplete, HandlerTypeOK,
     NoRenames
<1>3. CreateOpen \/ CreateAttr \/ CreateRemove \/ UnlinkFile
  BY <1>1, <1>2 DEF Handle, FuseStep, CreateInsert, CreateUndo, OpenFile, UnlinkMark, RowPcs
<1>4. \E pc \in {"create_attr", "create_remove", "create_undo", "unlink_mark"} : Goto(pc)
  BY <1>2, <1>3 DEF CreateOpen, CreateAttr, CreateRemove, UnlinkFile
<1>5. /\ fuse'.pc \in {"create_attr", "create_remove", "create_undo", "unlink_mark"}
      /\ fuse'.path = fuse.path /\ fuse'.id = fuse.id
  BY <1>t, <1>4 DEF Goto, HandlerTypeOK
<1> QED
  BY <1>1, <1>3, <1>5 DEF Handle, CreateOpen, CreateAttr, CreateRemove, UnlinkFile

\* A file whose bytes are on disk has them at its own path.
LEMMA BytesAt ==
    ASSUME TrackedBytes, NEW p \in Paths, disk[p] \in Ids
    PROVE  disk[p] \in Active(files) /\ files[disk[p]].path = p
BY DEF TrackedBytes, ActiveAt

\* No pass works on the row a handler has in hand.
LEMMA NotInHand ==
    ASSUME TypeOK, Readings, QueueDue, HandlerAhead, fuse.pc \in RowPcs,
           NEW r \in Reapers, NEW item \in Work(r)
    PROVE  item.id # fuse.id
<1>1. /\ clock \in Nat /\ MaxStall \in Nat /\ fuse.since \in Nat /\ Forever \notin Nat
      /\ files[fuse.id].recovery_deadline \in Instants
      /\ reaper[r].now \in Nat
  BY StoreAssumption, FadeAssumption
  DEF TypeOK, StoreTypeOK, FuseTypeOK, HandlerTypeOK, ReaperTypeOK, Pass, Row, HandlerAhead
<1>2. fuse.pc # "idle"
  BY DEF RowPcs
<1>3. reaper[r].now <= fuse.since + MaxStall
  BY <1>1, <1>2 DEF Readings
<1>4. files[fuse.id].recovery_deadline # Forever =>
         /\ files[fuse.id].recovery_deadline \in Nat
         /\ fuse.since + MaxStall < files[fuse.id].recovery_deadline
  BY <1>1 DEF HandlerAhead, Instants
<1> SUFFICES ASSUME item.id = fuse.id PROVE FALSE
  OBVIOUS
<1>5. files[fuse.id].recovery_deadline # Forever /\ files[fuse.id].recovery_deadline <= reaper[r].now
  BY DEF QueueDue, Work
<1> QED BY <1>1, <1>3, <1>4, <1>5

\* The three parts of HandlerSees.
LEMMA HandlerSeesStays ==
    ASSUME NoRenames, TypeOK, TrackedInv, [Next]_vars
    PROVE  HandlerSees'
<1> USE DEF TrackedInv
<1>t. /\ disk \in [Paths -> Ids \cup {None, Directory}]
      /\ HandlerTypeOK /\ HandlerTypeOK' /\ None \notin Ids /\ Directory \notin Ids
  BY NextTyped, StoreAssumption DEF TypeOK, StoreTypeOK, FuseTypeOK
<1>r. /\ fuse.pc # "idle" => fuse.path \in Paths
      /\ fuse'.pc # "idle" => fuse'.path \in Paths
  BY <1>t DEF HandlerTypeOK
<1>1. fuse'.pc = "create_open" => fuse'.id \in Active(files') /\ ~BytesOf(disk', fuse'.id)
  <2> SUFFICES ASSUME fuse'.pc = "create_open"
               PROVE  fuse'.id \in Active(files') /\ ~BytesOf(disk', fuse'.id)
    OBVIOUS
  <2>1. CASE fuse' = fuse
    <3>1. fuse.pc = "create_open" /\ fuse.pc \in RowPcs /\ mount.pc = "up"
      BY <2>1 DEF HandlerSees, RowPcs
    <3>2. fuse.id \in Active(files) /\ fuse.id \in Ids /\ ~BytesOf(disk, fuse.id)
      BY <3>1 DEF HandlerSees, Active
    <3>3. ~Ends(fuse.id)
      <4>1. ~ReaperEnds(fuse.id)
        BY <3>1, NotInHand DEF ReaperEnds, Work
      <4>2. ~HandlerEnds(fuse.id) /\ ~MountEnds(fuse.id)
        BY <3>1 DEF HandlerEnds, MountEnds
      <4> QED BY <4>1, <4>2 DEF Ends
    <3>4. ~Moves(fuse.id) /\ ~Given(fuse.id) /\ files[fuse.id] \in Row
      BY <3>1, <3>2 DEF Moves, NoRenames, Given, TypeOK, StoreTypeOK
    <3>5. fuse.id \in Active(files')
      BY <3>2, <3>3, <3>4, RowStep DEF RowChange, Expires, Active, Row
    <3>6. ASSUME NEW p \in Paths, disk'[p] = fuse.id PROVE FALSE
      <4>1. /\ disk'[p] # disk[p]
        BY <3>2, <3>6 DEF BytesOf
      <4>2. CreateOpen
        BY <3>2, <3>6, <4>1, BytesStep
      <4>3. fuse'.pc \in {"create_attr", "create_undo"}
        BY <1>t, <4>2 DEF CreateOpen, Goto, HandlerTypeOK
      <4> QED BY <2>1, <3>1, <4>3
    <3> QED BY <2>1, <3>5, <3>6 DEF BytesOf
  <2>2. CASE fuse' # fuse
    <3>1. fuse.pc \notin RowPcs
      BY <2>2, GotoStep
    <3>2. PICK id \in Ids : Given(id)
      BY <3>1, HandlerStep DEF Continues, Sees, RowPcs
    <3>3. fuse'.id = id /\ files'[id].state = "alive" /\ UNCHANGED disk
      BY <3>2, GivenRow
    <3>4. ~BytesOf(disk, id)
      BY <3>2, BytesAt DEF BytesOf, Active, Given
    <3> QED BY <3>2, <3>3, <3>4 DEF Active, BytesOf
  <2> QED BY <2>1, <2>2
<1>2. fuse'.pc \in {"create_undo", "unlink_mark"} => disk'[fuse'.path] \notin Ids
  <2> SUFFICES ASSUME fuse'.pc \in {"create_undo", "unlink_mark"}, disk'[fuse'.path] \in Ids
               PROVE  FALSE
    OBVIOUS
  <2>1. CASE fuse' = fuse
    BY <1>r, <2>1, BytesStep DEF HandlerSees, CreateOpen
  <2>2. CASE fuse' # fuse
    <3>1. fuse.pc \in RowPcs /\ fuse.pc # "idle"
      <4>1. fuse.pc \notin RowPcs => Sees \/ \E id \in Ids : Given(id)
        BY HandlerStep DEF Continues, RowPcs
      <4>2. ~Sees /\ ~\E id \in Ids : Given(id)
        BY GivenRow DEF Sees
      <4> QED BY <4>1, <4>2 DEF RowPcs
    <3>2. /\ CreateOpen \/ CreateAttr \/ CreateRemove \/ UnlinkFile
          /\ fuse'.path = fuse.path
      BY <2>2, <3>1, GotoStep
    <3>3. CASE CreateRemove \/ UnlinkFile
      BY <1>r, <1>t, <3>1, <3>2, <3>3 DEF CreateRemove, UnlinkFile, RemoveFile
    <3>4. ~CreateAttr
      BY <1>t DEF CreateAttr, Goto, Reply, FuseIdle, HandlerTypeOK
    <3>5. CASE CreateOpen
      <4>1. UNCHANGED disk
        BY <1>t, <3>5 DEF CreateOpen, Goto, HandlerTypeOK
      <4>2. /\ fuse.path \in Paths /\ disk[fuse.path] \in Ids /\ ~BytesOf(disk, fuse.id)
            /\ fuse.pc \in RowPcs
        BY <1>r, <3>1, <3>2, <3>5, <4>1 DEF CreateOpen, HandlerSees
      <4>3. disk[fuse.path] \in ActiveAt(files, fuse.path)
        BY <4>2 DEF TrackedBytes
      <4> QED BY <4>2, <4>3 DEF HandlerOwns, BytesOf
    <3> QED BY <3>2, <3>3, <3>4, <3>5
  <2> QED BY <2>1, <2>2
<1>3. fuse'.pc # "idle" => mount'.pc = "up"
  <2> SUFFICES ASSUME fuse'.pc # "idle" PROVE mount'.pc = "up"
    OBVIOUS
  <2>2. mount.pc = "up"
    BY HandlerBegins DEF HandlerSees, Serve
  <2>3. CASE UNCHANGED mount
    BY <2>2, <2>3
  <2>4. ~Mounting /\ ~Join
    BY <2>2 DEF Mounting, MountStep, MountStart, MountRename, MountComplete, MountList,
       MountMissing, MountFinish, Join, MountJoin
  <2>5. ~Unmount /\ ~Crash
    BY DEF Unmount, Crash, FuseIdle
  <2> QED
    BY <2>3, <2>4, <2>5 DEF Next, vars, Tick, ClockJump, Serve, Handle, Wake, Reap, Kill, Recovering,
       Observe
<1> QED BY <1>1, <1>2, <1>3 DEF HandlerSees

\* The item a pass is about to mark comes from the removal of its file.
Takes(r, item) ==
    /\ item \in reaper[r].queue
    /\ disk' = RemoveFile(disk, item.path)
    /\ reaper' = [reaper EXCEPT ![r].pc = "mark", ![r].queue = @ \ {item}, ![r].cur = {item}]
    /\ UNCHANGED <<clock, files, pending, fuse, handles, recover, exports, mount>>

\* A pass comes to hold an item in no other way.
LEMMA CurStep ==
    ASSUME TypeOK, [Next]_vars, NEW r \in Reapers
    PROVE  \/ reaper'[r].cur \subseteq reaper[r].cur
           \/ \E item \in Item : Takes(r, item) /\ reaper'[r].cur = {item}
<1>0. reaper \in [Reapers -> Pass]
  BY DEF TypeOK, ReaperTypeOK
<1> DEFINE Goal == \/ reaper'[r].cur \subseteq reaper[r].cur
                   \/ \E item \in Item : Takes(r, item) /\ reaper'[r].cur = {item}
<1>1. CASE UNCHANGED reaper
  BY <1>1
<1>2. CASE Crash
  BY <1>0, <1>2 DEF Crash, ReaperIdle
<1>3. ASSUME NEW s \in Reapers, Wake(s) \/ Kill(s) \/ Reap(s) PROVE Goal
  <2>1. CASE s # r
    <3>1. reaper'[r] = reaper[r]
      BY <1>0, <1>3, <2>1 DEF Wake, ReaperWake, Kill, GcKill, Reap, ReaperStep, ReaperScan,
         ReaperRemove, ReaperMark
    <3> QED BY <3>1
  <2>2. CASE s = r /\ (Wake(r) \/ Kill(r))
    <3>1. /\ [ReaperIdle EXCEPT !.pc = "scan", !.now = clock].cur = {}
          /\ ReaperIdle.cur = {}
      BY DEF ReaperIdle
    <3> QED BY <1>0, <2>2, <3>1 DEF Wake, ReaperWake, Kill, GcKill
  <2>3. CASE s = r /\ ReaperScan(r)
    BY <1>0, <2>3 DEF ReaperScan, Pass, ReaperIdle
  <2>4. CASE s = r /\ Reap(r) /\ ReaperRemove(r)
    <3>1. PICK item \in Earliest(reaper[r].queue) :
            \/ Takes(r, item)
            \/ reaper' = [reaper EXCEPT ![r] = ReaperIdle]
      BY <2>4 DEF Reap, ReaperRemove, Takes, Earliest
    <3>2. CASE Takes(r, item)
      <4>1. item \in Item /\ reaper'[r].cur = {item}
        BY <1>0, <3>2 DEF Takes, Pass
      <4> QED BY <3>2, <4>1
    <3>3. CASE reaper' = [reaper EXCEPT ![r] = ReaperIdle]
      BY <1>0, <3>3 DEF ReaperIdle
    <3> QED BY <3>1, <3>2, <3>3
  <2>5. CASE s = r /\ ReaperMark(r)
    <3>1. /\ [reaper[r] EXCEPT !.pc = "remove", !.cur = {}].cur = {}
          /\ ReaperIdle.cur = {}
      BY <1>0 DEF ReaperIdle, Pass
    <3> QED BY <1>0, <2>5, <3>1 DEF ReaperMark
  <2> QED BY <1>3, <2>1, <2>2, <2>3, <2>4, <2>5 DEF Reap, ReaperStep
<1> QED
  BY <1>1, <1>2, <1>3 DEF Next, vars, Tick, ClockJump, Serve, Handle, Mounting, Unmount, Join,
     Recovering, Observe

\* What a pass remembers stays true while it runs.
LEMMA PassSeesStays ==
    ASSUME NoRenames, TypeOK, TrackedInv, [Next]_vars
    PROVE  PassSees'
<1> USE DEF TrackedInv
<1>t. /\ reaper \in [Reapers -> Pass] /\ files' \in [Ids -> Row]
      /\ disk \in [Paths -> Ids \cup {None, Directory}] /\ None \notin Ids
  BY NextTyped, StoreAssumption DEF TypeOK, StoreTypeOK, ReaperTypeOK
<1>k. ASSUME NEW r \in Reapers, NEW item \in Work(r)
      PROVE  item.id \in Ids /\ files[item.id].state # "none" /\ files'[item.id].path = item.path
  <2>1. item.id \in Ids
    BY <1>t DEF Work, Pass, Item
  <2>2. files[item.id].state # "none" /\ files[item.id].path = item.path
    BY DEF QueueDue, PassSees, Work
  <2> QED BY <2>1, <2>2, RowKept
<1>1. ASSUME NEW r \in Reapers, NEW item \in Work(r)' PROVE files'[item.id].path = item.path
  <2>1. CASE item \in Work(r)
    BY <1>k, <2>1
  <2>2. CASE ReaperScan(r)
    <3> DEFINE Rows(batch) == {[id |-> id, path |-> files'[id].path] : id \in batch}
    <3>1. CASE reaper' = [reaper EXCEPT ![r] = ReaperIdle]
      BY <1>t, <3>1 DEF Work, ReaperIdle
    <3>2. ASSUME NEW batch, reaper' = [reaper EXCEPT ![r].pc = "remove", ![r].queue = Rows(batch)]
          PROVE  files'[item.id].path = item.path
      <4>1. reaper'[r].queue = Rows(batch) /\ reaper'[r].cur = reaper[r].cur
        BY <1>t, <3>2 DEF Pass
      <4> QED BY <4>1, <2>1 DEF Work
    <3> QED BY <2>2, <3>1, <3>2 DEF ReaperScan
  <2> QED BY <2>1, <2>2, WorkStep
<1>2. ASSUME NEW r \in Reapers, NEW item \in reaper'[r].cur, BytesOf(disk', item.id) PROVE FALSE
  <2>1. PICK p \in Paths : disk'[p] = item.id
    BY <1>2 DEF BytesOf
  <2>2. CASE item \in reaper[r].cur
    <3>1. item \in Work(r) /\ item.id \in Ids /\ ~BytesOf(disk, item.id)
      BY <1>k, <2>2 DEF Work, PassSees
    <3>2. disk'[p] # disk[p]
      BY <2>1, <3>1 DEF BytesOf
    <3>3. fuse.pc = "create_open" /\ item.id = fuse.id
      BY <2>1, <3>1, <3>2, BytesStep DEF CreateOpen
    <3> QED BY <3>1, <3>3, NotInHand DEF RowPcs
  <2>3. ASSUME Takes(r, item) PROVE FALSE
    <3>1. item \in Work(r) /\ item.id \in Ids /\ files[item.id].path = item.path
      BY <1>k, <2>3 DEF Takes, Work, PassSees
    <3>2. disk[p] = item.id /\ p # item.path
      BY <1>t, <2>1, <2>3, <3>1 DEF Takes, RemoveFile
    <3> QED BY <3>1, <3>2, BytesAt
  <2> QED BY <2>2, <2>3, CurStep
<1> QED BY <1>1, <1>2 DEF PassSees

\* What reconcile has listed stays true while it works on the list.
LEMMA MountSeesStays ==
    ASSUME NoRenames, TypeOK, TrackedInv, [Next]_vars
    PROVE  MountSees'
<1> USE DEF TrackedInv
<1>t. /\ RenameRecord = {} /\ pending = {} /\ mount.renames = {}
      /\ \A row \in mount.rows : row.id \in Ids
  BY DEF NoRenames, RenameRecord, TypeOK, StoreTypeOK, MountTypeOK
<1>m. mount \in [pc : MountPcs, renames : SUBSET RenameRecord,
                 rows : SUBSET [id : Ids, path : Paths \cup {Root}]]
  BY DEF TypeOK, MountTypeOK
<1>k. ASSUME NEW row \in mount.rows
      PROVE  files'[row.id].state # "none" /\ files'[row.id].path = row.path
  BY <1>t, RowKept DEF MountSees
<1>1. ASSUME mount'.rows \subseteq mount.rows, mount'.pc \notin {"renames", "complete"}
      PROVE  MountSees'
  BY <1>1, <1>k DEF MountSees
<1>2. CASE UNCHANGED mount
  BY <1>1, <1>2 DEF MountSees
<1>3. CASE MountStart
  BY <1>1, <1>3, <1>t DEF MountStart
<1>4. ~MountRename /\ ~MountComplete
  BY DEF MountRename, MountComplete, MountSees
<1>5. CASE MountList
  <2>1. /\ mount'.pc = "missing" /\ UNCHANGED files
        /\ mount'.rows = {[id |-> id, path |-> files[id].path] : id \in Active(files)}
    BY <1>5, <1>m DEF MountList, storeVars
  <2> QED BY <2>1 DEF MountSees, Active
<1>6. CASE MountMissing
  BY <1>1, <1>6, <1>m DEF MountMissing
<1>7. CASE MountFinish
  BY <1>1, <1>7, <1>m DEF MountFinish, Refuse, MountDown
<1>8. CASE Unmount \/ Join \/ Crash
  BY <1>1, <1>8, <1>m DEF Unmount, MountStop, Join, MountJoin, Crash, MountDown
<1> QED
  BY <1>2, <1>3, <1>4, <1>5, <1>6, <1>7, <1>8 DEF Next, vars, Tick, ClockJump, Serve, Handle, Mounting,
     MountStep, Wake, Reap, Kill, Recovering, Observe

\* A row does not end while its bytes are on disk.
LEMMA EndsEmpty ==
    ASSUME NoRenames, TypeOK, TrackedInv, [Next]_vars, NEW id \in Ids, Ends(id)
    PROVE  ~BytesOf(disk, id) /\ UNCHANGED disk
<1> USE DEF TrackedInv
<1> SUFFICES ASSUME NEW p \in Paths, disk[p] = id PROVE FALSE
  BY DEF BytesOf, Ends, ReaperEnds, HandlerEnds, MountEnds
<1>1. p = files[id].path
  BY BytesAt
<1>2. CASE ReaperEnds(id)
  BY <1>2 DEF ReaperEnds, PassSees, BytesOf
<1>3. CASE HandlerEnds(id)
  BY <1>1, <1>3 DEF HandlerEnds, HandlerSees, ActiveAt
<1>4. CASE MountEnds(id)
  BY <1>1, <1>4, StoreAssumption DEF MountEnds, MountSees
<1> QED BY <1>2, <1>3, <1>4 DEF Ends

\* Bytes come with an active row of that path, and rows end after their bytes.
LEMMA TrackedBytesStay ==
    ASSUME NoRenames, TypeOK, TrackedInv, [Next]_vars
    PROVE  TrackedBytes'
<1> USE DEF TrackedInv
<1> SUFFICES ASSUME NEW p \in Paths, disk'[p] \in Ids
             PROVE  disk'[p] \in ActiveAt(files', p)
  BY DEF TrackedBytes
<1>1. CASE CreateOpen /\ p = fuse.path /\ disk'[p] = fuse.id /\ UNCHANGED files
  BY <1>1 DEF CreateOpen, HandlerSees, HandlerAhead, RowPcs, ActiveAt
<1>2. CASE disk'[p] = disk[p]
  <2> DEFINE id == disk[p]
  <2>1. id \in Ids /\ id \in Active(files) /\ files[id].path = p
    BY <1>2, BytesAt
  <2>2. files'[id].path = p /\ files[id] \in Row
    BY <2>1, RowKept DEF Active, TypeOK, StoreTypeOK
  <2>3. ~Ends(id) /\ ~Given(id) /\ ~Moves(id)
    BY <2>1, EndsEmpty DEF BytesOf, Given, Moves, NoRenames, Active
  <2>4. id \in Active(files')
    BY <2>1, <2>2, <2>3, RowStep DEF RowChange, Expires, Active, Row
  <2> QED BY <1>2, <2>2, <2>4 DEF ActiveAt
<1> QED BY <1>1, <1>2, BytesStep

\* reconcile finds no file it would have to refuse.
LEMMA NeverRefusedStays ==
    ASSUME NoRenames, TypeOK, TrackedInv, [Next]_vars
    PROVE  NeverRefused'
<1> USE DEF TrackedInv
<1>m. mount \in [pc : MountPcs, renames : SUBSET RenameRecord,
                 rows : SUBSET [id : Ids, path : Paths \cup {Root}]]
  BY DEF TypeOK, MountTypeOK
<1>1. CASE UNCHANGED mount
  BY <1>1 DEF NeverRefused
<1>2. CASE MountStart \/ MountList \/ MountMissing
  <2>1. CASE MountStart
    BY <2>1 DEF MountStart, NeverRefused
  <2>2. CASE MountList
    BY <1>m, <2>2 DEF MountList, NeverRefused
  <2>3. CASE MountMissing
    BY <1>m, <2>3 DEF MountMissing, NeverRefused
  <2> QED BY <1>2, <2>1, <2>2, <2>3
<1>3. CASE MountFinish
  <2>1. Untracked = {}
    BY DEF Untracked, TrackedBytes
  <2> QED BY <1>m, <1>3, <2>1 DEF MountFinish, MountDown, NeverRefused
<1>4. ~MountRename /\ ~MountComplete
  BY DEF MountRename, MountComplete, MountSees
<1>5. CASE Unmount \/ Join \/ Crash
  BY <1>m, <1>5 DEF Unmount, MountStop, Join, MountJoin, Crash, MountDown, NeverRefused
<1> QED
  BY <1>1, <1>2, <1>3, <1>4, <1>5 DEF Next, vars, Tick, ClockJump, Serve, Handle, Mounting,
     MountStep, Wake, Reap, Kill, Recovering, Observe

\* The invariant holds throughout.
LEMMA Tracked ==
    ASSUME SteadyClock, NoRenames, PromptRequests
    PROVE  Spec => []TrackedInv
<1>1. Init => TrackedInv
  <2> SUFFICES ASSUME Init PROVE TrackedInv
    OBVIOUS
  <2>1. Readings /\ QueueDue /\ PassSees
    BY DEF Init, FuseInit, FuseIdle, ReaperInit, ReaperIdle, RecoverInit, RecoverIdle, StoreInit,
       Readings, QueueDue, PassSees, Work
  <2>2. UniquePaths(files) /\ Paired /\ TrackedBytes
    BY StoreAssumption DEF Init, StoreInit, NoRow, UniquePaths, Active, Paired, TrackedBytes
  <2>3. HandlerAhead /\ HandlerOwns /\ HandlerSees
    BY DEF Init, FuseInit, FuseIdle, RowPcs, HandlerAhead, HandlerOwns, HandlerSees
  <2>4. MountSees /\ NeverRefused
    BY DEF Init, MountInit, MountDown, MountSees, NeverRefused
  <2> QED BY <2>1, <2>2, <2>3, <2>4 DEF TrackedInv
<1>2. TypeOK /\ QueueDue' /\ TrackedInv /\ [Next]_vars => TrackedInv'
  BY ReadingsStay, UniqueStays, PairedStays, HandlerAheadStays, HandlerOwnsStays, HandlerSeesStays,
     PassSeesStays, MountSeesStays, TrackedBytesStay, NeverRefusedStays DEF TrackedInv
<1> QED BY <1>1, <1>2, TypeCorrect, PassesOnlyWhatIsDue, PTL DEF Spec

\* While nothing is renamed, nobody sets the clock and no request outlasts the
\* recovery window, every file of the backing directory belongs to an active
\* row of that path at every instant: however many reapers run, whatever
\* crashes and whichever statement fails, no order of the steps of create,
\* unlink, run_once and reconcile ends a row before its bytes are gone.
THEOREM EveryFileTracked ==
    ASSUME SteadyClock, NoRenames, PromptRequests
    PROVE  Spec => []TrackedBytes
<1>1. TrackedInv => TrackedBytes
  BY DEF TrackedInv
<1> QED BY <1>1, Tracked, PTL

\* Under the same conditions no mount is refused: reject_untracked_files finds
\* nothing, after any crash of any earlier mount.
THEOREM MountsAreNeverRefused ==
    ASSUME SteadyClock, NoRenames, PromptRequests
    PROVE  Spec => []NeverRefused
<1>1. TrackedInv => NeverRefused
  BY DEF TrackedInv
<1> QED BY <1>1, Tracked, PTL

\* The steps of one fade recover keep what it has opened tied to its row.
LEMMA OpenedStays ==
    ASSUME NoRenames, TypeOK, TrackedInv, [Next]_vars, NEW c \in Recoverers, Opened(c)
    PROVE  Opened(c)'
<1> USE DEF TrackedInv
<1>r. recover \in [Recoverers -> [pc : RecoverPcs,
                                  path : Paths \cup {Root}, id : Ids \cup {None},
                                  now : Nat, bytes : Ids \cup {None}]]
  BY DEF TypeOK, RecoverTypeOK
<1> DEFINE Early == {"idle", "lookup"}
<1>t. recover[c].pc \notin Early => recover[c].id \in Ids /\ recover[c].path \in Paths
  BY DEF TypeOK, RecoverTypeOK
<1>k. ASSUME recover[c].pc \notin Early
      PROVE  LET old == files[recover[c].id]
                 new == files'[recover[c].id]
             IN  /\ new.state \in {"expired", "deleted"} /\ new.path = recover[c].path
                 /\ new.state = "expired" => old.state = "expired"
  <2>1. files[recover[c].id].state \in {"expired", "deleted"}
    BY <1>k DEF Opened
  <2>2. files'[recover[c].id].path = recover[c].path
    BY <1>k, <1>t, <2>1, RowKept DEF Opened
  <2>3. RowForward(files[recover[c].id], files'[recover[c].id])
    BY <1>k, <1>t, FilesStep DEF Forward
  <2> QED BY <2>1, <2>2, <2>3 DEF RowForward
<1>1. CASE recover'[c] = recover[c]
  BY <1>k, <1>1 DEF Opened
<1>2. CASE recover'[c].pc \in Early
  BY <1>2 DEF Opened
<1>3. CASE RecoverLookup(c)
  <2>1. ASSUME NEW id \in ActiveAt(files', recover[c].path), files'[id].state = "expired",
               recover' = [recover EXCEPT ![c].pc = "open", ![c].id = id]
        PROVE  Opened(c)'
    <3>1. /\ recover'[c].pc = "open" /\ recover'[c].id = id
          /\ recover'[c].path = recover[c].path
      BY <1>r, <2>1
    <3> QED BY <2>1, <3>1 DEF Opened, ActiveAt
  <2> QED BY <1>r, <1>2, <1>3, <2>1 DEF RecoverLookup, Leave, RecoverIdle
<1>9. ASSUME NEW p \in Paths, RecoverStart(c, p) PROVE Opened(c)'
  BY <1>2, <1>r, <1>9 DEF RecoverStart
<1>4. CASE RecoverOpen(c)
  <2>1. CASE /\ recover[c].pc = "open" /\ disk[recover[c].path] \in Ids
             /\ recover'[c].id = recover[c].id /\ recover'[c].path = recover[c].path
             /\ recover'[c].pc = "verify" /\ recover'[c].bytes = disk[recover[c].path]
    <3>1. ASSUME files[recover[c].id].state = "expired"
          PROVE  disk[recover[c].path] = recover[c].id
      <4>1. recover[c].id \in Active(files) /\ files[recover[c].id].path = recover[c].path
        BY <1>t, <2>1, <3>1 DEF Active, Opened
      <4>2. LET x == disk[recover[c].path]
            IN  x \in Active(files) /\ files[x].path = recover[c].path
        BY <1>t, <2>1, BytesAt
      <4> QED BY <4>1, <4>2 DEF UniquePaths
    <3> QED BY <1>k, <2>1, <3>1 DEF Opened
  <2> QED BY <1>r, <1>2, <1>4, <2>1 DEF RecoverOpen, Leave, RecoverIdle
<1>5. CASE RecoverVerify(c)
  <2>1. CASE /\ recover[c].pc = "verify" /\ recover'[c].pc = "window"
             /\ recover'[c].id = recover[c].id /\ recover'[c].path = recover[c].path
             /\ recover'[c].bytes = recover[c].bytes
    BY <1>k, <2>1 DEF Opened
  <2> QED BY <1>r, <1>2, <1>5, <2>1 DEF RecoverVerify, Leave, RecoverIdle
<1>6. CASE RecoverWindow(c)
  <2>1. CASE /\ recover[c].pc = "window" /\ recover'[c].pc = "publish"
             /\ files[recover[c].id].state = "expired"
             /\ recover'[c].id = recover[c].id /\ recover'[c].path = recover[c].path
             /\ recover'[c].bytes = recover[c].bytes
    BY <1>k, <2>1 DEF Opened
  <2> QED BY <1>r, <1>2, <1>6, <2>1 DEF RecoverWindow, IsRecoverable, Leave, RecoverIdle
<1>7. CASE RecoverPublish(c) \/ RecoverKill(c)
  BY <1>2, <1>r, <1>7 DEF RecoverPublish, RecoverKill, Leave, RecoverIdle
<1>8. ASSUME NEW d \in Recoverers, Recovering(d) PROVE Opened(c)'
  <2>1. CASE d # c
    <3>1. recover'[c] = recover[c]
      BY <1>r, <1>8, <2>1 DEF Recovering, RecoverNext, RecoverStart, RecoverLookup, RecoverOpen, RecoverVerify,
         RecoverWindow, RecoverPublish, RecoverKill, Leave
    <3> QED BY <1>1, <3>1
  <2> QED BY <1>3, <1>4, <1>5, <1>6, <1>7, <1>8, <1>9, <2>1 DEF Recovering, RecoverNext
<1> QED
  BY <1>1, <1>8 DEF Next, vars, Tick, ClockJump, Serve, Handle, Mounting, Unmount, Join, Crash,
     Wake, Reap, Kill, Observe

\* Every export follows from the recovery that publishes it.
LEMMA ExportInvStep ==
    ASSUME NoRenames, TypeOK, TrackedInv, ExportInv, [Next]_vars
    PROVE  ExportInv'
<1>1. \A c \in Recoverers : Opened(c)'
  BY OpenedStays DEF ExportInv
<1>2. ASSUME NEW e \in exports' PROVE e.bytes = e.id
  <2>1. CASE e \in exports
    BY <2>1 DEF ExportInv, ExportsMatch
  <2>2. ASSUME NEW c \in Recoverers, recover[c].pc = "publish",
               e = [id |-> recover[c].id, bytes |-> recover[c].bytes, at |-> recover[c].now]
        PROVE  e.bytes = e.id
    BY <2>2 DEF ExportInv, Opened
  <2> QED BY <2>1, <2>2, ExportStep
<1> QED BY <1>1, <1>2 DEF ExportInv, ExportsMatch

\* The recoveries and the exports stay as ExportInv says.
LEMMA Exports ==
    ASSUME SteadyClock, NoRenames, PromptRequests
    PROVE  Spec => []ExportInv
<1>1. Init => ExportInv
  BY DEF Init, RecoverInit, RecoverIdle, ExportInv, ExportsMatch, Opened
<1>2. TypeOK /\ TrackedInv /\ ExportInv /\ [Next]_vars => ExportInv'
  BY ExportInvStep
<1> QED BY <1>1, <1>2, Tracked, TypeCorrect, PTL DEF Spec

\* Under the same conditions fade recover publishes the bytes of the very file
\* it was asked for: the path may have been given to a new file after the row
\* was read and before the bytes were opened (recover_at opens the path, then
\* checks by id), but then is_recoverable finds that row ended.
THEOREM RecoverPublishesTheFile ==
    ASSUME SteadyClock, NoRenames, PromptRequests
    PROVE  Spec => []ExportsMatch
<1>1. ExportInv => ExportsMatch
  BY DEF ExportInv
<1> QED BY <1>1, Exports, PTL


------------------------------------------------------------------------------
(* With one reaper *)

\* The batch of a pass, row by row, as the pass itself leaves it: nobody else
\* marks a row of it, and a mount does not reconcile while a pass runs.
PassOwns ==
    \A r \in Reapers :
        /\ reaper[r].pc \in {"idle", "scan"} => Work(r) = {}
        /\ reaper[r].pc = "remove" => reaper[r].cur = {}
        /\ \A item \in reaper[r].queue :
              /\ files[item.id].state = "expired"
              /\ \A other \in reaper[r].cur : other.id # item.id
        /\ reaper[r].pc # "idle" => mount.pc \in {"up", "stopping"}

\* The moves of one pass.
Rests(r) ==
    /\ reaper'[r].pc \in {"idle", "scan"} /\ Work(r)' = {}
    /\ reaper'[r].pc = "scan" => reaper' = reaper \/ Wake(r)

Scans(r) ==
    \E batch \in GcBatches(files', reaper[r].now, GcLimit) :
        /\ reaper[r].pc = "scan" /\ reaper'[r].pc = "remove"
        /\ reaper'[r].queue = {[id |-> id, path |-> files'[id].path] : id \in batch}
        /\ reaper'[r].cur = reaper[r].cur
        /\ UNCHANGED mount

Marks(r) ==
    /\ ReaperMark(r) /\ UNCHANGED mount
    /\ reaper'[r].pc = "remove" /\ reaper'[r].queue = reaper[r].queue /\ reaper'[r].cur = {}

\* A pass rests, scans, removes a file, marks its row, or does not move.
LEMMA PassStep ==
    ASSUME TypeOK, [Next]_vars, NEW r \in Reapers
    PROVE  \/ reaper'[r] = reaper[r] /\ ~ReaperMark(r)
           \/ Rests(r) \/ Scans(r) \/ Marks(r)
           \/ \E item \in Item : /\ Takes(r, item) /\ reaper'[r].pc = "mark"
                                 /\ reaper'[r].queue = reaper[r].queue \ {item}
                                 /\ reaper'[r].cur = {item}
<1>0. reaper \in [Reapers -> Pass]
  BY DEF TypeOK, ReaperTypeOK
<1> DEFINE Goal == \/ reaper'[r] = reaper[r] /\ ~ReaperMark(r)
                   \/ Rests(r) \/ Scans(r) \/ Marks(r)
                   \/ \E item \in Item : /\ Takes(r, item) /\ reaper'[r].pc = "mark"
                                         /\ reaper'[r].queue = reaper[r].queue \ {item}
                                         /\ reaper'[r].cur = {item}
<1>i. /\ ReaperIdle.pc = "idle" /\ ReaperIdle.queue = {} /\ ReaperIdle.cur = {}
      /\ [ReaperIdle EXCEPT !.pc = "scan", !.now = clock].pc = "scan"
      /\ [ReaperIdle EXCEPT !.pc = "scan", !.now = clock].queue = {}
      /\ [ReaperIdle EXCEPT !.pc = "scan", !.now = clock].cur = {}
  BY DEF ReaperIdle
<1>m. ReaperMark(r) => reaper'[r] # reaper[r]
  <2>1. reaper[r] \in Pass /\ [reaper[r] EXCEPT !.pc = "remove", !.cur = {}].pc = "remove"
    BY <1>0 DEF Pass
  <2> QED BY <1>0, <1>i, <2>1 DEF ReaperMark
<1>1. CASE reaper'[r] = reaper[r]
  BY <1>m, <1>1
<1>2. CASE reaper'[r] = ReaperIdle
  BY <1>i, <1>2 DEF Rests, Work
<1>3. ASSUME NEW s \in Reapers, Wake(s) \/ Kill(s) \/ Reap(s) PROVE Goal
  <2>1. CASE s # r
    <3>1. reaper'[r] = reaper[r]
      BY <1>0, <1>3, <2>1 DEF Wake, ReaperWake, Kill, GcKill, Reap, ReaperStep, ReaperScan,
         ReaperRemove, ReaperMark
    <3> QED BY <1>1, <3>1
  <2>2. CASE s = r /\ Wake(r)
    BY <1>0, <1>i, <2>2 DEF Wake, ReaperWake, Rests, Work
  <2>3. CASE s = r /\ Kill(r)
    BY <1>0, <1>2, <2>3 DEF Kill, GcKill
  <2>4. CASE s = r /\ Reap(r) /\ ReaperScan(r)
    <3> DEFINE Rows(batch) == {[id |-> id, path |-> files'[id].path] : id \in batch}
    <3>1. CASE reaper' = [reaper EXCEPT ![r] = ReaperIdle]
      BY <1>0, <1>2, <3>1
    <3>2. ASSUME NEW batch \in GcBatches(files', reaper[r].now, GcLimit),
                 reaper' = [reaper EXCEPT ![r].pc = "remove", ![r].queue = Rows(batch)]
          PROVE  Scans(r)
      BY <1>0, <2>4, <3>2 DEF Scans, Reap, ReaperScan, Pass
    <3> QED BY <2>4, <3>1, <3>2 DEF ReaperScan
  <2>5. CASE s = r /\ Reap(r) /\ ReaperRemove(r)
    <3>1. PICK item \in Earliest(reaper[r].queue) :
            \/ Takes(r, item)
            \/ reaper' = [reaper EXCEPT ![r] = ReaperIdle]
      BY <2>5 DEF Reap, ReaperRemove, Takes, Earliest
    <3>2. CASE Takes(r, item)
      BY <1>0, <3>2 DEF Takes, Pass
    <3>3. CASE reaper' = [reaper EXCEPT ![r] = ReaperIdle]
      BY <1>0, <1>2, <3>3
    <3> QED BY <3>1, <3>2, <3>3
  <2>6. CASE s = r /\ Reap(r) /\ ReaperMark(r)
    <3> DEFINE rest == [reaper[r] EXCEPT !.pc = "remove", !.cur = {}]
    <3>1. rest.queue = reaper[r].queue /\ rest.cur = {} /\ rest.pc = "remove"
      BY <1>0 DEF Pass
    <3>2. reaper'[r] = rest \/ reaper'[r] = ReaperIdle
      BY <1>0, <2>6 DEF ReaperMark
    <3>3. CASE reaper'[r] = rest
      <4>1. reaper'[r].queue = reaper[r].queue /\ reaper'[r].cur = {} /\ reaper'[r].pc = "remove"
        BY <3>1, <3>3
      <4> QED BY <2>6, <4>1 DEF Marks, Reap
    <3> QED BY <1>2, <3>2, <3>3
  <2> QED BY <1>3, <2>1, <2>2, <2>3, <2>4, <2>5, <2>6 DEF Reap, ReaperStep
<1>4. CASE Crash
  BY <1>0, <1>1, <1>2, <1>4 DEF Crash
<1> QED
  BY <1>1, <1>3, <1>4 DEF Next, vars, Tick, ClockJump, Serve, Handle, Mounting, Unmount, Join,
     Recovering, Observe

\* The rows a pass has still to remove are marked by nobody else: no handler
\* has them in hand, no other pass runs, and no mount reconciles meanwhile.
LEMMA QueueStays ==
    ASSUME OneReaper, NoRenames, TypeOK, TrackedInv, PassOwns, [Next]_vars,
           NEW r \in Reapers, NEW item \in reaper[r].queue
    PROVE  files'[item.id].state = "expired"
<1> USE DEF TrackedInv
<1>1. /\ item.id \in Ids /\ item \in Work(r) /\ files[item.id] \in Row
      /\ files[item.id].state = "expired"
  BY DEF TypeOK, StoreTypeOK, ReaperTypeOK, Pass, Item, Work, PassOwns
<1>2. ~ReaperEnds(item.id)
  BY DEF ReaperEnds, OneReaper, PassOwns
<1>3. ~HandlerEnds(item.id)
  BY <1>1, NotInHand DEF HandlerEnds, HandlerOwns, RowPcs
<1>4. ~MountEnds(item.id)
  BY <1>1 DEF MountEnds, PassOwns
<1>5. ~Given(item.id) /\ ~Moves(item.id)
  BY <1>1 DEF Given, Moves, NoRenames
<1> QED BY <1>1, <1>2, <1>3, <1>4, <1>5, RowStep DEF RowChange, Expires, Ends

\* The invariant of the one pass is kept.
LEMMA PassOwnsStays ==
    ASSUME OneReaper, NoRenames, TypeOK, TrackedInv, PassOwns, [Next]_vars
    PROVE  PassOwns'
<1> SUFFICES ASSUME NEW r \in Reapers
             PROVE  /\ reaper'[r].pc \in {"idle", "scan"} => Work(r)' = {}
                    /\ reaper'[r].pc = "remove" => reaper'[r].cur = {}
                    /\ \A item \in reaper'[r].queue :
                          /\ files'[item.id].state = "expired"
                          /\ \A other \in reaper'[r].cur : other.id # item.id
                    /\ reaper'[r].pc # "idle" => mount'.pc \in {"up", "stopping"}
  BY DEF PassOwns
<1> USE DEF TrackedInv
<1>t. /\ reaper \in [Reapers -> Pass] /\ r = Background
      /\ mount \in [pc : MountPcs, renames : SUBSET RenameRecord,
                    rows : SUBSET [id : Ids, path : Paths \cup {Root}]]
  BY DEF TypeOK, ReaperTypeOK, MountTypeOK, OneReaper
<1>1. /\ reaper'[r].pc \in {"idle", "scan"} => Work(r)' = {}
      /\ reaper'[r].pc = "remove" => reaper'[r].cur = {}
      /\ \A item \in reaper'[r].queue :
            /\ files'[item.id].state = "expired"
            /\ \A other \in reaper'[r].cur : other.id # item.id
  <2>1. CASE reaper'[r] = reaper[r]
    BY <2>1, QueueStays DEF PassOwns, Work
  <2>2. CASE Rests(r)
    BY <2>2 DEF Rests, Work
  <2>3. CASE Scans(r)
    <3>1. PICK batch \in GcBatches(files', reaper[r].now, GcLimit) :
            /\ reaper[r].pc = "scan" /\ reaper'[r].pc = "remove"
            /\ reaper'[r].queue = {[id |-> id, path |-> files'[id].path] : id \in batch}
            /\ reaper'[r].cur = reaper[r].cur
      BY <2>3 DEF Scans
    <3>2. reaper'[r].cur = {}
      BY <3>1 DEF PassOwns, Work
    <3>3. \A id \in batch : files'[id].state = "expired"
      BY DEF GcBatches, GcCandidates
    <3> QED BY <3>1, <3>2, <3>3
  <2>4. CASE Marks(r)
    BY <2>4, QueueStays DEF Marks
  <2>5. ASSUME NEW item \in Item, Takes(r, item), reaper'[r].pc = "mark",
               reaper'[r].queue = reaper[r].queue \ {item}, reaper'[r].cur = {item}
        PROVE  /\ reaper'[r].pc \in {"idle", "scan"} => Work(r)' = {}
               /\ reaper'[r].pc = "remove" => reaper'[r].cur = {}
               /\ \A it \in reaper'[r].queue :
                     /\ files'[it.id].state = "expired"
                     /\ \A other \in reaper'[r].cur : other.id # it.id
    <3>1. ASSUME NEW it \in reaper'[r].queue PROVE item.id # it.id
      <4>1. it \in reaper[r].queue /\ it # item /\ item \in reaper[r].queue /\ it \in Item
        BY <1>t, <2>5, <3>1 DEF Takes, Pass
      <4>2. it.path = files[it.id].path /\ item.path = files[item.id].path
        BY <4>1 DEF PassSees, Work
      <4> QED BY <4>1, <4>2 DEF Item
    <3>2. \A it \in reaper'[r].queue : files'[it.id].state = "expired"
      BY <2>5, QueueStays
    <3> QED BY <2>5, <3>1, <3>2
  <2> QED BY <2>1, <2>2, <2>3, <2>4, <2>5, PassStep
<1>2. reaper'[r].pc # "idle" => mount'.pc \in {"up", "stopping"}
  <2>1. CASE UNCHANGED <<mount, reaper>>
    BY <2>1 DEF PassOwns
  <2>2. CASE Mounting
    <3>1. mount.pc \notin {"up", "stopping"} /\ UNCHANGED reaper
      BY <2>2 DEF Mounting, MountStep, MountStart, MountRename, MountComplete, MountList,
         MountMissing, MountFinish
    <3> QED BY <3>1 DEF PassOwns
  <2>3. CASE Unmount
    BY <1>t, <2>3 DEF Unmount, MountStop
  <2>4. CASE Join
    BY <1>t, <2>4 DEF Join
  <2>5. CASE Crash
    BY <1>t, <2>5 DEF Crash, ReaperIdle
  <2>6. ASSUME NEW s \in Reapers, Wake(s) \/ Reap(s) \/ Kill(s)
        PROVE  mount'.pc \in {"up", "stopping"} \/ reaper'[r].pc = "idle"
    <3>1. s = r /\ UNCHANGED mount
      BY <1>t, <2>6 DEF OneReaper, Wake, Reap, Kill
    <3>2. mount.pc = "up" \/ reaper[r].pc # "idle"
      BY <1>t, <2>6, <3>1 DEF Wake, Reap, ReaperStep, ReaperScan, ReaperRemove, ReaperMark, Kill,
         GcKill
    <3> QED BY <3>1, <3>2 DEF PassOwns
  <2> QED
    BY <2>1, <2>2, <2>3, <2>4, <2>5, <2>6 DEF Next, vars, Tick, ClockJump, Serve, Handle, Recovering,
       Observe
<1> QED BY <1>1, <1>2

\* The invariants the properties below rest on.
LEMMA OnePass ==
    ASSUME SteadyClock, NoRenames, PromptRequests, OneReaper
    PROVE  Spec => []PassOwns
<1>1. Init => PassOwns
  BY DEF Init, ReaperInit, ReaperIdle, PassOwns, Work
<1>2. TypeOK /\ TrackedInv /\ PassOwns /\ [Next]_vars => PassOwns'
  BY PassOwnsStays
<1> QED BY <1>1, <1>2, Tracked, TypeCorrect, PTL DEF Spec

------------------------------------------------------------------------------
(* Bytes leave the disk *)

\* The handlers that remove the file they work on.
Removes == /\ CreateRemove \/ UnlinkFile
           /\ UNCHANGED <<clock, files, reaper, recover, exports, mount>>

\* Without renames, bytes leave a path by the hand of the handler that works
\* on it or of a reaper pass.
LEMMA LossStep ==
    ASSUME NoRenames, TypeOK, [Next]_vars, NEW p \in Paths, disk[p] \in Ids, disk'[p] # disk[p]
    PROVE  \/ Removes /\ p = fuse.path
           \/ \E r \in Reapers : \E item \in Item : Takes(r, item) /\ p = item.path
<1>t. /\ disk \in [Paths -> Ids \cup {None, Directory}] /\ HandlerTypeOK
      /\ None \notin Ids /\ Directory \notin Ids /\ reaper \in [Reapers -> Pass]
  BY StoreAssumption DEF TypeOK, StoreTypeOK, FuseTypeOK, ReaperTypeOK
<1> DEFINE Goal == \/ Removes /\ p = fuse.path
                   \/ \E r \in Reapers : \E item \in Item : Takes(r, item) /\ p = item.path
<1>1. disk' # disk
  OBVIOUS
<1>2. ASSUME NEW q, disk' = RemoveFile(disk, q) PROVE p = q
  BY <1>t, <1>2 DEF RemoveFile
<1>3. CASE Serve
  BY <1>t, <1>1, <1>3 DEF Serve, FuseRequest, FuseAccess, CreateStart, OpenCheck, UnlinkCheck, Mkdir,
     Rmdir, RenameStart, Release, storeVars
<1>4. CASE Handle
  <2>1. ~RenameFs
    BY <1>t DEF RenameFs, HandlerTypeOK, NoRenames
  <2>2. ~CreateOpen
    BY <1>t DEF CreateOpen
  <2>3. CreateRemove \/ UnlinkFile
    BY <1>1, <1>4, <2>1, <2>2 DEF Handle, FuseStep, CreateInsert, CreateAttr, CreateUndo, OpenFile, UnlinkMark,
       RenameCancel, RenameStore, RenameComplete, storeVars
  <2>4. p = fuse.path
    BY <1>2, <2>3 DEF CreateRemove, UnlinkFile
  <2> QED BY <1>4, <2>3, <2>4 DEF Handle, Removes, CreateRemove, UnlinkFile
<1>5. ~Mounting
  <2>1. ~MountStart
    BY <1>t DEF MountStart
  <2> QED
    BY <1>1, <2>1 DEF Mounting, MountStep, MountRename, MountComplete, MountList, MountMissing,
       MountFinish, storeVars
<1>6. ASSUME NEW r \in Reapers, Reap(r) PROVE Goal
  <2>1. PICK item \in reaper[r].queue : Takes(r, item)
    BY <1>1, <1>6 DEF Reap, ReaperStep, ReaperScan, ReaperRemove, ReaperMark, Earliest, Takes
  <2>2. item \in Item /\ p = item.path
    BY <1>t, <1>2, <2>1 DEF Takes, Pass
  <2> QED BY <2>1, <2>2
<1> QED
  BY <1>1, <1>3, <1>4, <1>5, <1>6 DEF Next, vars, Tick, ClockJump, Unmount, MountStop, Join, MountJoin,
     Crash, Wake, ReaperWake, Kill, GcKill, Observe, Recovering, RecoverNext, RecoverStart, RecoverLookup,
     RecoverOpen, RecoverVerify, RecoverWindow, RecoverPublish, RecoverKill, storeVars

\* What a handler removes is the file it works on, ...
LEMMA RemovesItsOwn ==
    ASSUME NoRenames, TypeOK, TrackedInv, Removes, disk[fuse.path] \in Ids
    PROVE  disk[fuse.path] = fuse.id
<1>1. fuse.pc \in RowPcs /\ fuse.path \in Paths
  BY RowHandlers DEF Removes, CreateRemove, UnlinkFile, RowPcs, TypeOK, FuseTypeOK
<1>2. disk[fuse.path] \in ActiveAt(files, fuse.path)
  BY <1>1 DEF TrackedInv, TrackedBytes
<1> QED BY <1>1, <1>2 DEF TrackedInv, HandlerOwns

\* ... and what the one pass removes is the file it selected.
LEMMA TakesItsOwn ==
    ASSUME TypeOK, TrackedInv, PassOwns, NEW r \in Reapers, NEW item \in Item, Takes(r, item),
           item.path \in Paths, disk[item.path] \in Ids
    PROVE  disk[item.path] = item.id
<1>1. item.id \in Active(files) /\ files[item.id].path = item.path
  BY DEF Takes, PassOwns, TrackedInv, PassSees, Work, Item, Active
<1>2. /\ disk[item.path] \in Active(files)
      /\ files[disk[item.path]].path = item.path
  BY BytesAt DEF TrackedInv
<1> QED BY <1>1, <1>2 DEF TrackedInv, UniquePaths

\* While nothing is renamed, nobody sets the clock, no request outlasts the
\* recovery window and the reaper thread of the mount is the only reaper, the
\* bytes of a file leave the backing directory only by its own unlink, by its
\* own failed create or after its recovery deadline: run_once removes by a
\* path it read earlier, and yet never the file of a later row of that path.
THEOREM BytesStayForTheWindow ==
    ASSUME SteadyClock, NoRenames, PromptRequests, OneReaper
    PROVE  Spec => WindowKept
<1>1. ASSUME TypeOK, TrackedInv, PassOwns, [Next]_vars, NEW id \in Ids,
             BytesOf(disk, id), ~BytesOf(disk', id)
      PROVE  \/ /\ fuse.pc \in {"unlink_file", "create_remove"}
                /\ fuse.id = id /\ fuse' # fuse
             \/ /\ files[id].recovery_deadline # Forever
                /\ files[id].recovery_deadline <= clock
  <2>1. PICK p \in Paths : disk[p] = id /\ disk'[p] # disk[p]
    BY <1>1 DEF BytesOf
  <2>2. CASE Removes /\ p = fuse.path
    <3>1. fuse.pc \in {"unlink_file", "create_remove"}
      BY <2>2 DEF Removes, CreateRemove, UnlinkFile
    <3>2. fuse' # fuse
      <4>1. \E pc \in {"create_undo", "unlink_mark"} : Goto(pc) \/ Reply
        BY <2>2 DEF Removes, CreateRemove, UnlinkFile
      <4>2. fuse'.pc \in {"create_undo", "unlink_mark", "idle"}
        BY <1>1, <4>1 DEF Goto, Reply, FuseIdle, TypeOK, FuseTypeOK, HandlerTypeOK
      <4> QED BY <3>1, <4>2
    <3>3. fuse.id = id
      BY <1>1, <2>1, <2>2, RemovesItsOwn
    <3> QED BY <3>1, <3>2, <3>3
  <2>3. ASSUME NEW r \in Reapers, NEW item \in Item, Takes(r, item), p = item.path
        PROVE  files[id].recovery_deadline # Forever /\ files[id].recovery_deadline <= clock
    <3>1. item.id = id /\ item \in reaper[r].queue
      BY <1>1, <2>1, <2>3, TakesItsOwn DEF Takes
    <3>2. /\ files[id].recovery_deadline # Forever
          /\ files[id].recovery_deadline <= reaper[r].now
      BY <1>1, <3>1 DEF TrackedInv, QueueDue
    <3>3. /\ reaper[r].now \in Nat /\ clock \in Nat /\ reaper[r].now <= clock
          /\ files[id].recovery_deadline \in Nat
      BY <1>1, <3>2 DEF TypeOK, StoreTypeOK, ReaperTypeOK, Pass, Row, Instants, TrackedInv, Readings
    <3> QED BY <3>2, <3>3
  <2> QED BY <1>1, <2>1, <2>2, <2>3, LossStep
<1>2. TypeOK /\ TrackedInv /\ PassOwns /\ [Next]_vars =>
        [\A id \in Ids :
          BytesOf(disk, id) /\ ~BytesOf(disk', id) =>
             \/ /\ fuse.pc \in {"unlink_file", "create_remove"}
                /\ fuse.id = id /\ fuse' # fuse
             \/ /\ files[id].recovery_deadline # Forever
                /\ files[id].recovery_deadline <= clock]_vars
  BY <1>1
<1> QED BY <1>2, OnePass, Tracked, TypeCorrect, PTL DEF Spec, WindowKept

------------------------------------------------------------------------------
(* Alive files keep their bytes *)

\* Every UPDATE of the store succeeds: the handlers ignore the error of the
\* mark_deleted_by_path that ends a failed create.
StoreAnswers == "store" \notin Faults

\* The handlers' steps at which an alive row may have no file.
BarePcs == {"create_open", "create_attr", "create_remove", "create_undo", "unlink_mark"}

\* An alive row has its file at its path, or is in the hands of create or
\* unlink, or of a reconciliation that has not come to it yet.
AtHome(id) ==
    \/ disk[files[id].path] = id
    \/ fuse.pc \in BarePcs /\ fuse.id = id
    \/ mount.pc \notin {"up", "missing"}
    \/ mount.pc = "missing" /\ \E row \in mount.rows : row.id = id

\* No directory is in its place.
Apart(id) == files[id].path \in DOMAIN Ttl /\ disk[files[id].path] # Directory

AliveInv ==
    /\ \A p \in Paths : disk[p] = Directory => p \in VisibleDirs
    /\ fuse.pc = "create_insert" => disk[fuse.path] # Directory
    /\ \A id \in Ids : files[id].state = "alive" => AtHome(id) /\ Apart(id)

\* A row is alive because it was, unchanged, or because it is new.
LEMMA AliveStep ==
    ASSUME NoRenames, TypeOK, Readings, [Next]_vars, NEW id \in Ids, files'[id].state = "alive"
    PROVE  Given(id) \/ files'[id] = files[id]
<1>1. files[id] \in Row
  BY DEF TypeOK, StoreTypeOK
<1> QED BY <1>1, RowStep DEF RowChange, Expires, Ends, Moves, NoRenames, Row

\* Directories come by mkdir, in a session, or as the default folders.
LEMMA DirectoryStep ==
    ASSUME NoRenames, TypeOK, [Next]_vars, NEW p \in Paths,
           disk'[p] = Directory, disk[p] # Directory
    PROVE  \/ Mkdir(p) /\ mount.pc = "up"
           \/ MountStart /\ p \in DefaultDirs
<1>t. /\ disk \in [Paths -> Ids \cup {None, Directory}] /\ HandlerTypeOK
      /\ None \notin Ids /\ Directory \notin Ids /\ None # Directory
  BY StoreAssumption DEF TypeOK, StoreTypeOK, FuseTypeOK
<1>1. disk' # disk
  OBVIOUS
<1>2. ASSUME NEW q PROVE disk' # RemoveFile(disk, q)
  BY <1>t DEF RemoveFile
<1>3. CASE Serve
  BY <1>t, <1>1, <1>3 DEF Serve, FuseRequest, FuseAccess, CreateStart, OpenCheck, UnlinkCheck, Mkdir,
     Rmdir, RenameStart, Release, storeVars
<1>4. ~Handle
  <2>1. ~RenameFs
    BY <1>t DEF RenameFs, HandlerTypeOK, NoRenames
  <2>2. ~CreateOpen
    BY <1>t DEF CreateOpen, HandlerTypeOK
  <2> QED
    BY <1>1, <1>2, <2>1, <2>2 DEF Handle, FuseStep, CreateInsert, CreateAttr, CreateRemove, CreateUndo, OpenFile,
       UnlinkFile, UnlinkMark, RenameCancel, RenameStore, RenameComplete, storeVars
<1>5. CASE Mounting
  <2>1. MountStart
    BY <1>1, <1>5 DEF Mounting, MountStep, MountRename, MountComplete, MountList, MountMissing,
       MountFinish, storeVars
  <2> QED BY <1>t, <2>1 DEF MountStart
<1> QED
  BY <1>1, <1>2, <1>3, <1>4, <1>5 DEF Next, vars, Tick, ClockJump, Unmount, MountStop, Join, MountJoin,
     Crash, Wake, ReaperWake, Reap, ReaperStep, ReaperScan, ReaperRemove, ReaperMark, Kill, GcKill,
     Observe, Recovering, RecoverNext, RecoverStart, RecoverLookup, RecoverOpen, RecoverVerify, RecoverWindow,
     RecoverPublish, RecoverKill, storeVars

\* Wherever there are bytes at the path of an active row they are that row's.
LEMMA BytesOfRow ==
    ASSUME TypeOK, TrackedInv, NEW id \in Active(files), files[id].path \in Paths,
           disk[files[id].path] \in Ids
    PROVE  disk[files[id].path] = id
BY BytesAt DEF TrackedInv, UniquePaths

\* How a handler ends while its row may lack its file.
LEMMA BareEnds ==
    ASSUME NoRenames, TypeOK, [Next]_vars, fuse.pc \in BarePcs, fuse'.pc = "idle"
    PROVE  \/ Crash \/ CreateUndo \/ UnlinkMark
           \/ CreateAttr /\ disk[fuse.path] # None /\ UNCHANGED disk
<1>t. HandlerTypeOK /\ fuse.pc # "idle"
  BY DEF TypeOK, FuseTypeOK, BarePcs
<1>1. ~\E pc \in {"create_attr", "create_remove", "create_undo", "unlink_mark"} : Goto(pc)
  BY <1>t DEF Goto, HandlerTypeOK
<1>2. fuse' # fuse
  BY <1>t
<1>3. CASE Handle
  BY <1>1, <1>3 DEF Handle, FuseStep, CreateInsert, CreateOpen, CreateAttr, CreateRemove, OpenFile, UnlinkFile,
     RenameFs, RenameCancel, RenameStore, RenameComplete, BarePcs
<1>4. ~Serve
  BY <1>t, <1>2 DEF Serve, FuseRequest, FuseAccess, CreateStart, OpenCheck, UnlinkCheck, Mkdir, Rmdir,
     RenameStart, Release, fuseVars
<1> QED
  BY <1>2, <1>3, <1>4 DEF Next, vars, Tick, ClockJump, Mounting, Unmount, Join, Wake, Reap, Kill,
     Recovering, Observe

\* An alive row that stays alive stays at home.
LEMMA AtHomeStays ==
    ASSUME NoRenames, StoreAnswers, TypeOK, TrackedInv, PassOwns, AliveInv, [Next]_vars,
           NEW id \in Ids, files[id].state = "alive", files'[id] = files[id]
    PROVE  AtHome(id)'
<1> USE DEF TrackedInv
<1> DEFINE p == files[id].path
<1>t. /\ p \in Paths /\ id \in Active(files) /\ AtHome(id) /\ Apart(id)
      /\ disk \in [Paths -> Ids \cup {None, Directory}] /\ HandlerTypeOK
  BY StoreAssumption DEF AliveInv, Apart, Active, TypeOK, StoreTypeOK, FuseTypeOK
<1>m. mount \in [pc : MountPcs, renames : SUBSET RenameRecord,
                 rows : SUBSET [id : Ids, path : Paths \cup {Root}]]
  BY DEF TypeOK, MountTypeOK
<1>c. Crash => mount'.pc \notin {"up", "missing"}
  BY DEF Crash, MountDown
<1>1. CASE mount'.pc \notin {"up", "missing"}
  BY <1>1 DEF AtHome
<1>2. CASE disk[p] = id /\ disk'[p] # id
  <2>1. CASE Removes /\ p = fuse.path
    <3>1. fuse.id = id /\ fuse.pc # "idle"
      BY <1>2, <2>1, RemovesItsOwn DEF Removes, CreateRemove, UnlinkFile
    <3>2. \E pc \in {"create_undo", "unlink_mark"} : Goto(pc)
      BY <1>2, <2>1 DEF Removes, CreateRemove, UnlinkFile
    <3>3. fuse'.pc \in {"create_undo", "unlink_mark"} /\ fuse'.id = id
      BY <1>t, <3>1, <3>2 DEF Goto, HandlerTypeOK
    <3> QED BY <3>3 DEF AtHome, BarePcs
  <2>2. ASSUME NEW r \in Reapers, NEW item \in Item, Takes(r, item), p = item.path PROVE FALSE
    <3>1. item.id = id
      BY <1>t, <1>2, <2>2, TakesItsOwn
    <3>2. files[item.id].state = "expired"
      BY <2>2 DEF Takes, PassOwns
    <3> QED BY <3>1, <3>2
  <2> QED BY <1>t, <1>2, <2>1, <2>2, LossStep
<1>3. CASE fuse.pc \in BarePcs /\ fuse.id = id
  <2>1. CASE fuse' = fuse
    BY <1>3, <2>1 DEF AtHome
  <2>2. CASE fuse'.pc # "idle" /\ fuse' # fuse
    <3>1. fuse.pc \in RowPcs
      BY <1>3 DEF BarePcs, RowPcs
    <3>2. fuse'.pc \in BarePcs /\ fuse'.id = id
      BY <1>3, <2>2, <3>1, GotoStep DEF BarePcs
    <3> QED BY <3>2 DEF AtHome
  <2>3. CASE fuse'.pc = "idle"
    <3>1. fuse.path = p /\ id \in ActiveAt(files, fuse.path)
      BY <1>t, <1>3 DEF HandlerAhead, BarePcs, RowPcs, ActiveAt
    <3>2. ~CreateUndo /\ ~UnlinkMark
      <4>1. MarkDeletedByPath(files, fuse.path)[id].state = "deleted"
        BY <3>1 DEF MarkDeletedByPath, TypeOK, StoreTypeOK, Row
      <4> QED BY <4>1 DEF CreateUndo, UnlinkMark, StoreAnswers
    <3>3. CASE Crash
      BY <1>1, <1>c, <3>3
    <3>4. CASE disk[fuse.path] # None /\ UNCHANGED disk
      <4>1. disk[p] = id
        BY <1>t, <3>1, <3>4, BytesOfRow DEF Apart
      <4> QED BY <3>4, <4>1 DEF AtHome
    <3> QED BY <1>3, <2>3, <3>2, <3>3, <3>4, BareEnds
  <2> QED BY <2>1, <2>2, <2>3
<1>4. CASE mount.pc \notin {"up", "missing"} /\ mount'.pc \in {"up", "missing"}
  <2>1. ~MountStart
    BY <1>4 DEF MountStart
  <2>2. ~MountRename /\ ~MountComplete
    BY DEF MountRename, MountComplete, MountSees
  <2>3. ~MountMissing /\ ~MountFinish /\ ~Unmount /\ ~Join
    BY <1>4 DEF MountMissing, MountFinish, Unmount, MountStop, Join, MountJoin, MountDown
  <2>4. MountList
    BY <1>c, <1>4, <2>1, <2>2, <2>3 DEF Next, vars, Tick, ClockJump, Serve, Handle, Mounting,
       MountStep, Wake, Reap, Kill, Recovering, Observe
  <2>5. /\ mount'.pc = "missing"
        /\ mount'.rows = {[id |-> i, path |-> files[i].path] : i \in Active(files)}
    BY <1>m, <2>4 DEF MountList
  <2>6. [id |-> id, path |-> p] \in mount'.rows
    BY <1>t, <2>5
  <2> QED BY <2>5, <2>6 DEF AtHome
<1>5. ASSUME mount.pc = "missing", NEW row \in mount.rows, row.id = id PROVE AtHome(id)'
  <2>1. CASE UNCHANGED mount
    BY <1>5, <2>1 DEF AtHome
  <2>2. CASE MountMissing
    <3>1. PICK other \in mount.rows :
            /\ files' = IF disk[other.path] = None THEN MarkDeleted(files, other.id) ELSE files
            /\ mount' = [mount EXCEPT !.rows = @ \ {other}]
      BY <2>2 DEF MountMissing
    <3>2. CASE row # other
      <4>1. mount'.pc = "missing" /\ row \in mount'.rows
        BY <1>m, <1>5, <3>1, <3>2
      <4> QED BY <1>5, <4>1 DEF AtHome
    <3>3. CASE row = other
      <4>1. row.path = p
        BY <1>5 DEF MountSees
      <4>2. disk[p] # None
        <5>1. MarkDeleted(files, id)[id].state = "deleted"
          BY DEF MarkDeleted, TypeOK, StoreTypeOK, Row
        <5> QED BY <1>5, <3>1, <3>3, <4>1, <5>1
      <4>3. disk[p] = id
        BY <1>t, <4>2, BytesOfRow DEF Apart
      <4> QED BY <2>2, <4>3 DEF MountMissing, AtHome
    <3> QED BY <3>2, <3>3
  <2>3. ~Unmount /\ ~Join
    BY <1>5 DEF Unmount, MountStop, Join, MountJoin
  <2>4. CASE Crash
    BY <1>1, <1>c, <2>4
  <2>5. ~MountStart /\ ~MountRename /\ ~MountComplete /\ ~MountList /\ ~MountFinish
    BY <1>5 DEF MountStart, MountRename, MountComplete, MountList, MountFinish
  <2> QED
    BY <2>1, <2>2, <2>3, <2>4, <2>5 DEF Next, vars, Tick, ClockJump, Serve, Handle, Mounting, MountStep,
       Wake, Reap, Kill, Recovering, Observe
<1> QED BY <1>t, <1>1, <1>2, <1>3, <1>4, <1>5 DEF AtHome

\* create is about to insert its row only after its checks.
LEMMA InsertBegins ==
    ASSUME TypeOK, [Next]_vars, fuse'.pc = "create_insert", fuse' # fuse
    PROVE  \E p \in Paths : CreateStart(p)
<1>t. HandlerTypeOK
  BY DEF TypeOK, FuseTypeOK
<1>1. CASE Serve
  <2>1. ASSUME NEW pc, NEW p, NEW to, NEW id, NEW dir, Begin(pc, p, to, id, dir)
        PROVE  pc = "create_insert"
    BY <2>1 DEF Begin
  <2>2. "open_file" # "create_insert" /\ "unlink_file" # "create_insert"
        /\ "rename_fs" # "create_insert"
    OBVIOUS
  <2>3. ~FuseAccess
    BY DEF FuseAccess
  <2>4. ASSUME NEW p PROVE ~OpenCheck(p) /\ ~UnlinkCheck(p) /\ ~Mkdir(p) /\ ~Rmdir(p)
    BY <2>1, <2>2 DEF OpenCheck, UnlinkCheck, Mkdir, Rmdir, fuseVars
  <2>5. ASSUME NEW p, NEW q PROVE ~RenameStart(p, q)
    BY <2>1, <2>2 DEF RenameStart
  <2>6. ASSUME NEW h PROVE ~Release(h)
    BY DEF Release
  <2> QED BY <1>1, <2>3, <2>4, <2>5, <2>6 DEF Serve, FuseRequest
<1>2. ~Handle
  <2>1. ~Reply
    BY DEF Reply, FuseIdle
  <2>2. ASSUME NEW pc, Goto(pc) PROVE pc = "create_insert"
    BY <1>t, <2>2 DEF Goto, HandlerTypeOK
  <2>3. ASSUME NEW i PROVE fuse' # [fuse EXCEPT !.pc = "create_open", !.id = i]
    BY <1>t DEF HandlerTypeOK
  <2>4. ~CreateInsert
    BY <2>1, <2>3 DEF CreateInsert
  <2> QED
    BY <2>1, <2>2, <2>4 DEF Handle, FuseStep, CreateOpen, CreateAttr, CreateRemove, CreateUndo,
       OpenFile, UnlinkFile, UnlinkMark, RenameFs, RenameCancel, RenameStore, RenameComplete
<1>3. ~Crash
  BY DEF Crash, FuseIdle
<1> QED
  BY <1>1, <1>2, <1>3 DEF Next, vars, Tick, ClockJump, Mounting, Unmount, Join, Wake, Reap, Kill,
     Recovering, Observe

\* The invariant of the alive rows is kept.
LEMMA AliveInvStays ==
    ASSUME NoRenames, StoreAnswers, TypeOK, TrackedInv, PassOwns, AliveInv, [Next]_vars
    PROVE  AliveInv'
<1> USE DEF TrackedInv
<1>1. ASSUME NEW p \in Paths, disk'[p] = Directory PROVE p \in VisibleDirs
  <2>1. CASE disk[p] = Directory
    BY <2>1 DEF AliveInv
  <2>2. CASE Mkdir(p)
    BY <2>2, PolicyAssumption DEF Mkdir, DirVisible
  <2>3. CASE p \in DefaultDirs
    BY <2>3, PolicyAssumption
  <2> QED BY <1>1, <2>1, <2>2, <2>3, DirectoryStep
<1>2. ASSUME NEW id \in Ids, files[id].state = "alive", files'[id] = files[id] PROVE Apart(id)'
  <2> DEFINE p == files[id].path
  <2>1. p \in DOMAIN Ttl /\ disk[p] # Directory /\ p \in Paths /\ AtHome(id)
    BY <1>2, StoreAssumption DEF AliveInv, Apart
  <2>2. CASE disk'[p] # Directory
    BY <1>2, <2>1, <2>2 DEF Apart
  <2>3. ~(Mkdir(p) /\ mount.pc = "up")
    BY <1>2, <2>1, StoreAssumption DEF Mkdir, AtHome, BarePcs
  <2>4. p \notin DefaultDirs
    BY <2>1, PolicyAssumption
  <2> QED BY <2>1, <2>2, <2>3, <2>4, DirectoryStep
<1>3. ASSUME NEW id \in Ids, Given(id) PROVE AtHome(id)' /\ Apart(id)'
  <2>1. /\ files'[id].path = fuse.path /\ fuse.pc = "create_insert"
        /\ fuse'.pc = "create_open" /\ fuse'.id = id
        /\ UNCHANGED disk /\ fuse.path \in DOMAIN Ttl
    BY <1>3, GivenRow
  <2>2. disk[fuse.path] # Directory
    BY <2>1 DEF AliveInv
  <2> QED BY <2>1, <2>2 DEF AtHome, BarePcs, Apart
<1>4. ASSUME NEW id \in Ids, files'[id].state = "alive" PROVE AtHome(id)' /\ Apart(id)'
  <2>1. CASE files'[id] = files[id]
    BY <1>2, <1>4, <2>1, AtHomeStays
  <2> QED BY <1>3, <1>4, <2>1, AliveStep
<1>5. ASSUME fuse'.pc = "create_insert" PROVE disk'[fuse'.path] # Directory
  <2>1. ASSUME NEW p \in Paths, CreateStart(p) PROVE disk'[fuse'.path] # Directory
    <3>1. fuse'.path = p /\ disk' = disk /\ ~(disk[p] = Directory /\ DirVisible(p))
      BY <2>1 DEF CreateStart, Begin, storeVars
    <3> QED BY <2>1, <3>1 DEF AliveInv, DirVisible
  <2>2. CASE fuse' = fuse
    <3>1. /\ fuse.pc = "create_insert" /\ mount.pc = "up" /\ fuse.path \in Paths
          /\ disk[fuse.path] # Directory
      BY <1>5, <2>2 DEF HandlerSees, AliveInv, TypeOK, FuseTypeOK, HandlerTypeOK
    <3>2. ~Mkdir(fuse.path) /\ ~MountStart
      BY <3>1 DEF Mkdir, MountStart
    <3> QED BY <2>2, <3>1, <3>2, DirectoryStep
  <2>3. CASE fuse' # fuse
    <3>2. PICK p \in Paths : CreateStart(p)
      BY <1>5, <2>3, InsertBegins
    <3> QED BY <2>1, <3>2
  <2> QED BY <2>2, <2>3
<1> QED BY <1>1, <1>4, <1>5 DEF AliveInv

\* Under the same conditions, and when the store answers, every alive row has
\* its own bytes at its own path between two requests of a mounted session,
\* after any crash between the INSERT of create and its open, or between the
\* removal of unlink and its UPDATE: reconcile settles what they left.
THEOREM AliveFilesKeepTheirBytes ==
    ASSUME SteadyClock, NoRenames, PromptRequests, OneReaper, StoreAnswers
    PROVE  Spec => []AliveKeepsBytes
<1>1. Init => AliveInv
  BY StoreAssumption DEF Init, StoreInit, NoRow, FuseInit, FuseIdle, AliveInv
<1>2. TypeOK /\ TrackedInv /\ PassOwns /\ AliveInv /\ [Next]_vars => AliveInv'
  BY AliveInvStays
<1>3. AliveInv => AliveKeepsBytes
  BY DEF AliveInv, AliveKeepsBytes, AtHome, BarePcs
<1> QED BY <1>1, <1>2, <1>3, OnePass, Tracked, TypeCorrect, PTL DEF Spec
=============================================================================
