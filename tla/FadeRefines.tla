------------------------------ MODULE FadeRefines ------------------------------
(***************************************************************************)
(* Fade implements FadeRetention.  The mapping forgets the paths: a file   *)
(* is the row of its id and the bytes created for that row, wherever they  *)
(* are.                                                                    *)
(***************************************************************************)
EXTENDS Fade

Life(id) == [state |-> files[id].state,
             expires_at |-> files[id].expires_at,
             deadline |-> files[id].recovery_deadline]

Kept == {id \in Ids : BytesOf(disk, id)}

\* The file of the request in progress while that request is at one of pcs.
InHand(pcs) == IF fuse.pc \in pcs THEN fuse.id ELSE None

HandedOut == {[id |-> e.bytes, at |-> e.at] : e \in exports}

Abstract == INSTANCE FadeRetention WITH
    Nobody   <- None,
    now      <- clock,
    life     <- [id \in Ids |-> Life(id)],
    kept     <- Kept,
    making   <- InHand({"create_open", "create_attr"}),
    doomed   <- InHand({"create_remove", "unlink_file"}),
    exported <- HandedOut

\* Handlers, reaper passes, recoveries, mounts and crashes, statement by
\* statement, keep the promises of FadeRetention: no file loses its bytes
\* before its deadline but by its own user, no row is given up while its bytes
\* remain, none comes back, and exports are in their window (README: the
\* lifecycle; PRD: deletion and recovery).
Retention == Abstract!Spec
=============================================================================
