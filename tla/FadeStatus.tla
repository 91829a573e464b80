------------------------------ MODULE FadeStatus ------------------------------
(***************************************************************************)
(* What fade status counts (status in src/cli.rs, MetadataStore::stats in  *)
(* src/metadata.rs): expire_due and then five SELECTs, each on its own, so *)
(* that handlers, reapers and other commands change the table in between.  *)
(* A count is a sum over rows; here is what one row adds to each.          *)
(*                                                                         *)
(* moves[k] is how far others have taken the row when the k-th SELECT      *)
(* runs, 0 being the moment before expire_due.                             *)
(***************************************************************************)
EXTENDS Naturals, FiniteSets

CONSTANT Never   \* the NULL of an instant

ASSUME StatusAssumption == Never \notin Nat

States == <<"none", "alive", "expired", "deleted">>
Rank(state) == CHOOSE i \in 1..4 : States[i] = state
Later(s, t) == IF Rank(s) < Rank(t) THEN t ELSE s

Passed(instant, now) == instant # Never /\ instant <= now

\* The histories others can give a row: forward only, and "expired" only if it
\* has an expiry.  A row created while the command runs expires after now.
Histories(row, now) ==
    {moves \in [0..5 -> {"none", "alive", "expired", "deleted"}] :
        /\ \A k \in 1..5 : Rank(moves[k - 1]) <= Rank(moves[k])
        /\ \A k \in 0..5 : moves[k] = "expired" => row.expires_at # Never
        /\ moves[0] = "none" => ~Passed(row.expires_at, now)}

------------------------------------------------------------------------------
\* Mutant: the command does not expire what is due.
StatusExpireNothing(state, row, now) == state

\* expire_due, on one row
StatusExpire(state, row, now) ==
    IF state = "alive" /\ Passed(row.expires_at, now) THEN "expired" ELSE state

\* The state each SELECT finds.
Seen(row, moves, now) ==
    LET s[k \in 0..5] == IF k = 0 THEN StatusExpire(moves[0], row, now)
                         ELSE Later(s[k - 1], moves[k])
    IN s

\* stats: what the row adds to alive_files, expired_recoverable_files,
\* deleted_files, pending_deletion_files and pending_deletion_bytes.
Stats(row, moves, now) ==
    LET s == Seen(row, moves, now)
        due == Passed(row.deadline, now)
    IN [alive       |-> s[1] = "alive",
        recoverable |-> s[2] = "expired" /\ row.deadline # Never /\ ~due,
        deleted     |-> s[3] = "deleted",
        pending     |-> s[4] = "expired" /\ due,
        bytes       |-> s[5] = "expired" /\ due]

------------------------------------------------------------------------------
(* Properties of one call *)

\* No file past its expiry is counted as alive; a file nobody moves is counted
\* once; one that is not counted at all was deleted between the third SELECT
\* and the fourth; and the bytes pending are bytes of files counted as pending.
StatsAccount(row, moves, now) ==
    LET r == Stats(row, moves, now)
        s == Seen(row, moves, now)
        times == Cardinality({c \in {"alive", "recoverable", "deleted", "pending"} : r[c]})
    IN /\ r.alive => ~Passed(row.expires_at, now)
       /\ s[0] = s[5] /\ s[5] # "none" => times = 1
       /\ s[1] # "none" /\ times = 0 => s[3] = "expired" /\ s[4] = "deleted"
       /\ r.bytes => r.pending
=============================================================================
