----------------------------- MODULE FadeRetention -----------------------------
(***************************************************************************)
(* What Fade promises about the files put under it, with no word about     *)
(* paths, tables, processes or crashes: a file lives until its expiry, its *)
(* bytes stay until its deadline unless its user removes it, a file that   *)
(* is given up has no bytes left and never comes back, and what is handed  *)
(* out of it is handed out after its expiry to somebody who asked before   *)
(* its deadline.                                                           *)
(*                                                                         *)
(* This is the abstract specification; FadeRefines shows that Fade         *)
(* implements it.                                                          *)
(***************************************************************************)
EXTENDS Naturals

CONSTANTS
    Ids,      \* the files that can ever be created
    Forever,  \* the expiry and the deadline of a file that stays, no number
    Nobody    \* no request is in progress, none of Ids

VARIABLES
    now,       \* seconds
    life,      \* per file: its state and its two instants
    kept,      \* the files whose bytes exist
    making,    \* the file a request is creating, or Nobody
    doomed,    \* the file a request is removing, or Nobody
    exported   \* what was handed out: the file and the instant asked for

retentionVars == <<now, life, kept, making, doomed, exported>>

Init ==
    /\ now = 0
    /\ life = [id \in Ids |-> [state |-> "none", expires_at |-> Forever,
                               deadline |-> Forever]]
    /\ kept = {}
    /\ making = Nobody /\ doomed = Nobody
    /\ exported = {}

Passed(instant) == instant # Forever /\ instant <= now

\* Time goes on by one second.
Tick ==
    /\ now' = now + 1
    /\ UNCHANGED <<life, kept, making, doomed, exported>>

\* Any of the files whose expiry has passed are hidden.
Hide ==
    \E S \in SUBSET {id \in Ids : life[id].state = "alive" /\ Passed(life[id].expires_at)} :
        life' = [id \in Ids |-> IF id \in S THEN [life[id] EXCEPT !.state = "expired"]
                                            ELSE life[id]]

\* A new file is given its instants, which are in order; its deadline lies
\* ahead.
Create(id) ==
    /\ life[id].state = "none"
    /\ \E expiry, deadline \in {life'[id].expires_at, life'[id].deadline} :
          /\ life' = [life EXCEPT ![id] = [state |-> "alive", expires_at |-> expiry,
                                           deadline |-> deadline]]
          /\ IF expiry = Forever THEN deadline = Forever
                                 ELSE expiry <= deadline /\ now < deadline
    /\ making' = id
    /\ UNCHANGED <<now, kept, doomed, exported>>

\* Its bytes come into being, once, while it is being created.
Fill ==
    /\ making # Nobody
    /\ kept' = kept \cup {making}
    /\ UNCHANGED <<now, life, making, doomed, exported>>

\* Files are hidden, and with it a request may end, with a file or without, or
\* turn to removing a file: the one it fails to create, or one its user sees
\* alive.
Settle ==
    /\ Hide
    /\ \/ UNCHANGED <<making, doomed>>
       \/ making' = Nobody /\ doomed' \in {Nobody, making}
       \/ /\ making' = Nobody /\ making = Nobody
          /\ doomed' \in {id \in Ids : life'[id].state = "alive"}
    /\ UNCHANGED <<now, kept, exported>>

\* The file a request is removing loses its bytes.
Remove ==
    /\ kept' = kept \ {doomed}
    /\ doomed' = Nobody
    /\ UNCHANGED <<now, life, making, exported>>

\* A file past its deadline loses its bytes.
Reclaim(id) ==
    /\ Passed(life[id].deadline)
    /\ kept' = kept \ {id}
    /\ UNCHANGED <<now, life, making, doomed, exported>>

\* A file without bytes is given up for good.
GiveUp(id) ==
    /\ id \notin kept /\ id # making
    /\ life[id].state \in {"alive", "expired"}
    /\ life' = [life EXCEPT ![id].state = "deleted"]
    /\ UNCHANGED <<now, kept, making, doomed, exported>>

\* The bytes of a file that is hidden, its expiry behind it, are handed out to
\* somebody who asked at an instant before its deadline.
HandOut(id, at) ==
    /\ life[id].state \in {"expired", "deleted"}
    /\ Passed(life[id].expires_at)
    /\ at <= now /\ at < life[id].deadline
    /\ exported' = exported \cup {[id |-> id, at |-> at]}
    /\ UNCHANGED <<now, life, kept, making, doomed>>

Next ==
    \/ Tick \/ Fill \/ Settle \/ Remove
    \/ \E id \in Ids : Create(id) \/ Reclaim(id) \/ GiveUp(id)
    \/ \E e \in exported' : HandOut(e.id, e.at)

Spec == Init /\ [][Next]_retentionVars
=============================================================================
