----------------------------- MODULE FadeReaper -----------------------------
(***************************************************************************)
(* Reaper passes (src/reaper.rs, run_once), run by the background thread   *)
(* of a mount (ReaperThread in src/fuse_fs.rs) and by `fade gc` processes  *)
(* (src/cli.rs).  Each runner has its own SQLite connection and nothing    *)
(* coordinates it with the others.  A pass reads the clock, expires and    *)
(* selects its candidates, then for each candidate removes the file at the *)
(* path the row had when it was selected and marks the row by its id.      *)
(***************************************************************************)
EXTENDS FadeStore

CONSTANTS
    Reapers,     \* the runners
    Background,  \* the one that is a mount's thread; the others are fade gc
    GcLimit      \* rows a pass selects at most: 10 000 in run_once

ASSUME ReaperAssumption == GcLimit \in Nat \ {0}

VARIABLE reaper   \* per runner: where its pass is, its clock reading, the
                  \* candidates left and the one in hand

Item == [id : Ids, path : Paths \cup {Root}]

ReaperIdle == [pc |-> "idle", now |-> 0, queue |-> {}, cur |-> {}]

Pass == [pc : {"idle", "scan", "remove", "mark"},
         now : Nat, queue : SUBSET Item, cur : SUBSET Item]

ReaperTypeOK == reaper \in [Reapers -> Pass]

ReaperInit == reaper = [r \in Reapers |-> ReaperIdle]

------------------------------------------------------------------------------
\* The thread has seen no stop flag and its interval has elapsed, or a
\* fade gc process starts; either way the pass reads the clock first.
ReaperWake(r) ==
    /\ reaper[r].pc = "idle"
    /\ reaper' = [reaper EXCEPT ![r] = [ReaperIdle EXCEPT !.pc = "scan", !.now = clock]]
    /\ UNCHANGED storeVars

\* expire_due and gc_candidates, both at the instant the pass began.
ReaperScan(r) ==
    LET now == reaper[r].now
    IN /\ reaper[r].pc = "scan"
       /\ files' = ExpireDue(files, now)
       /\ \/ \E batch \in GcBatches(files', now, GcLimit) \ {{}} :
                reaper' = [reaper EXCEPT
                    ![r].pc = "remove",
                    ![r].queue = {[id |-> id, path |-> files'[id].path] : id \in batch}]
          \/ /\ GcCandidates(files', now) = {} \/ ExpireMayFail(files, now)
             /\ reaper' = [reaper EXCEPT ![r] = ReaperIdle]
       /\ UNCHANGED <<clock, disk, pending>>

\* The candidates are taken in the order of the query.
Earliest(queue) ==
    {i \in queue : \A j \in queue :
        files[i.id].recovery_deadline <= files[j.id].recovery_deadline}

\* Mutant: a file that is missing ends the pass like any other error.
ReaperRemoveStrict(r) ==
    /\ reaper[r].pc = "remove"
    /\ \E item \in Earliest(reaper[r].queue) :
          /\ disk' = RemoveFile(disk, item.path)
          /\ reaper' = [reaper EXCEPT
                ![r] = IF disk' = disk THEN ReaperIdle
                       ELSE [@ EXCEPT !.pc = "mark", !.queue = @ \ {item}, !.cur = {item}]]
    /\ UNCHANGED <<clock, files, pending>>

\* remove_file at the remembered path.  NotFound counts as removed; any
\* other error ends the pass, with the rest of the batch untouched.
ReaperRemove(r) ==
    /\ reaper[r].pc = "remove"
    /\ \E item \in Earliest(reaper[r].queue) :
          \/ /\ ~Unremovable(disk, item.path)
             /\ disk' = RemoveFile(disk, item.path)
             /\ reaper' = [reaper EXCEPT ![r].pc = "mark",
                                         ![r].queue = @ \ {item},
                                         ![r].cur = {item}]
          \/ /\ Unremovable(disk, item.path)
             /\ disk' = disk
             /\ reaper' = [reaper EXCEPT ![r] = ReaperIdle]
    /\ UNCHANGED <<clock, files, pending>>

\* mark_deleted and the audit line; a failure of either ends the pass.
ReaperMark(r) ==
    /\ reaper[r].pc = "mark"
    /\ \E item \in reaper[r].cur :
          \/ /\ files' = MarkDeleted(files, item.id)
             /\ reaper' = [reaper EXCEPT
                    ![r] = IF @.queue = {} THEN ReaperIdle
                           ELSE [@ EXCEPT !.pc = "remove", !.cur = {}]]
          \/ /\ "audit" \in Faults
             /\ files' = MarkDeleted(files, item.id)
             /\ reaper' = [reaper EXCEPT ![r] = ReaperIdle]
          \/ /\ "store" \in Faults
             /\ files' = files
             /\ reaper' = [reaper EXCEPT ![r] = ReaperIdle]
    /\ UNCHANGED <<clock, disk, pending>>

\* A fade gc process is killed.
GcKill(r) ==
    /\ r # Background
    /\ reaper[r].pc # "idle"
    /\ reaper' = [reaper EXCEPT ![r] = ReaperIdle]
    /\ UNCHANGED storeVars

ReaperStep(r) == ReaperScan(r) \/ ReaperRemove(r) \/ ReaperMark(r)
=============================================================================
