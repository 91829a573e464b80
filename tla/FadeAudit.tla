------------------------------- MODULE FadeAudit -------------------------------
(***************************************************************************)
(* The audit log (src/audit.rs) and the processes that write it.  A        *)
(* transition of a row is one SQL statement, its line in audit.jsonl a     *)
(* separate append after it: the handlers of the mount, the passes of its  *)
(* reaper thread and of fade gc, and fade recover do both, with the other  *)
(* processes running and a kill or a failing append possible in between.   *)
(*                                                                         *)
(* Time only matters by what a file has behind it, paths not at all: every *)
(* file has its own, and FadeFuse models the reuse of names.  A line is    *)
(* written whole: O_APPEND and one write_all.                              *)
(***************************************************************************)
EXTENDS Naturals, Bags

CONSTANTS
    Ids,            \* the files that can be created
    Nothing,        \* no file
    Handler,        \* the session of the mount process
    Background,     \* its reaper thread
    Gcs,            \* the fade gc processes
    Recoverers,     \* the fade recover processes
    MaxRecoveries,  \* bound: how often one file is recovered
    MaxFaults       \* bound: how many kills and failed appends happen

ASSUME AuditAssumption ==
    /\ Nothing \notin Ids
    /\ {MaxRecoveries, MaxFaults} \subseteq Nat

VARIABLES
    row,        \* state of each file's row
    age,        \* what a file has behind it: "fresh" nothing, "due" its expiry,
                \* "over" its recovery deadline
    bytes,      \* the files the backing directory holds
    log,        \* per file, the bag of the lines about it: event and writer
    job,        \* per process: the operation it is in and where
    published,  \* how often each file was recovered
    up,         \* the mount serves
    faults      \* how many kills and failed appends there were

auditVars == <<row, age, bytes, log, job, published, up, faults>>

Reapers == {Background} \cup Gcs
Actors == {Handler} \cup Reapers \cup Recoverers
MountActors == {Handler, Background}

Events == {"created", "expired", "recovered", "deleted"}

\* A line as far as it matters here: who wrote it is kept for the event two
\* processes may announce.
Line(a, event) == [event |-> event, by |-> IF event = "deleted" THEN a ELSE Nothing]

Idle == [op |-> "idle", pc |-> "start", id |-> Nothing, todo |-> {}]

TypeOK ==
    /\ row \in [Ids -> {"none", "alive", "expired", "deleted"}]
    /\ age \in [Ids -> {"fresh", "due", "over"}]
    /\ bytes \subseteq Ids
    /\ DOMAIN log = Ids
    /\ \A id \in Ids :
          /\ IsABag(log[id])
          /\ BagToSet(log[id]) \subseteq {Line(a, event) : a \in Actors, event \in Events}
    /\ job \in [Actors -> [op : {"idle", "create", "unlink", "access", "pass", "recover"},
                           pc : {"start", "open", "attr", "lines", "remove", "mark",
                                 "append", "undo"},
                           id : Ids \cup {Nothing},
                           todo : SUBSET Ids]]
    /\ published \in [Ids -> 0..MaxRecoveries]
    /\ up \in BOOLEAN
    /\ faults \in 0..MaxFaults

Init ==
    /\ row = [id \in Ids |-> "none"]
    /\ age = [id \in Ids |-> "fresh"]
    /\ bytes = {}
    /\ log = [id \in Ids |-> EmptyBag]
    /\ job = [a \in Actors |-> Idle]
    /\ published = [id \in Ids |-> 0]
    /\ up = FALSE
    /\ faults = 0

------------------------------------------------------------------------------
(* Jobs and lines *)

At(a, op, pc) == job[a].op = op /\ job[a].pc = pc
Goto(a, pc) == job' = [job EXCEPT ![a].pc = pc]
Finish(a) == job' = [job EXCEPT ![a] = Idle]
Free(a) == job[a] = Idle /\ (a \in MountActors => up)

Fault == faults < MaxFaults /\ faults' = faults + 1

Appended(a, event, id) == [log EXCEPT ![id] = @ (+) SetToBag({Line(a, event)})]

\* audit::append
Write(a, event, id) == log' = Appended(a, event, id) /\ UNCHANGED faults

\* ... which may fail, to open the file or to write with nothing written, or to
\* sync_data with the line written.
Fails(a, event, id) == Fault /\ log' \in {log, Appended(a, event, id)}

\* Mutant: the wrong state.
MarkedRecovered(id) == [row EXCEPT ![id] = "recovered"]

Marked(id) == [row EXCEPT ![id] = "deleted"]

------------------------------------------------------------------------------
(* expire_due, in every operation *)

\* Mutant: the UPDATE also takes rows that are expired already.
DueAgain == {id \in Ids : row[id] \in {"alive", "expired"} /\ age[id] # "fresh"}

DueRows == {id \in Ids : row[id] = "alive" /\ age[id] # "fresh"}

\* One UPDATE .. RETURNING, the first statement of every operation but create:
\* the rows it returns are this process's to log before it goes on.  A clock
\* reading that is old by then takes only those that were due at it, as an
\* UPDATE at that instant would.
ExpireDue(a, op, id) ==
    /\ row' = [i \in Ids |-> IF i \in DueRows THEN "expired" ELSE row[i]]
    /\ job' = [job EXCEPT ![a] = [op |-> op, pc |-> "lines", id |-> id, todo |-> DueRows]]
    /\ UNCHANGED <<age, bytes, log, published, up, faults>>

\* expire_due has returned to the operation.
Expired(a, op) == At(a, op, "lines") /\ job[a].todo = {}

\* The first append that fails ends the loop and the operation: the lines that
\* remain are lost.  In create it makes visible_attr fail.
LogExpired(a) ==
    /\ job[a].pc = "lines"
    /\ \E id \in job[a].todo :
          \/ Write(a, "expired", id) /\ job' = [job EXCEPT ![a].todo = @ \ {id}]
          \/ /\ Fails(a, "expired", id)
             /\ IF job[a].op = "create" THEN Goto(a, "undo") ELSE Finish(a)
    /\ UNCHANGED <<row, age, bytes, published, up>>

------------------------------------------------------------------------------
(* The session *)

\* lookup, getattr, open, read, write, readdir
Access ==
    /\ Free(Handler) /\ DueRows # {}
    /\ ExpireDue(Handler, "access", Nothing)

AccessEnd ==
    /\ Expired(Handler, "access")
    /\ Finish(Handler)
    /\ UNCHANGED <<row, age, bytes, log, published, up, faults>>

CreateInsert(id) ==
    /\ row[id] = "none"
    /\ Free(Handler)
    /\ job' = [job EXCEPT ![Handler] = [op |-> "create", pc |-> "open", id |-> id, todo |-> {}]]
    /\ row' = [row EXCEPT ![id] = "alive"]
    /\ UNCHANGED <<age, bytes, log, published, up, faults>>

CreateOpen ==
    /\ At(Handler, "create", "open")
    /\ bytes' = bytes \cup {job[Handler].id}
    /\ Goto(Handler, "attr")
    /\ UNCHANGED <<row, age, log, published, up, faults>>

CreateAttr ==
    /\ At(Handler, "create", "attr")
    /\ ExpireDue(Handler, "create", job[Handler].id)

\* visible_attr has answered.
CreateAppend ==
    /\ Expired(Handler, "create")
    /\ LET id == job[Handler].id
       IN \/ /\ row[id] = "alive" /\ id \in bytes
             /\ \/ Write(Handler, "created", id) /\ Finish(Handler)
                \/ Fails(Handler, "created", id) /\ Goto(Handler, "undo")
          \/ /\ ~(row[id] = "alive" /\ id \in bytes)
             /\ Goto(Handler, "undo")
             /\ UNCHANGED <<log, faults>>
    /\ UNCHANGED <<row, age, bytes, published, up>>

CreateUndo ==
    /\ At(Handler, "create", "undo")
    /\ bytes' = bytes \ {job[Handler].id}
    /\ row' = Marked(job[Handler].id)
    /\ Finish(Handler)
    /\ UNCHANGED <<age, log, published, up, faults>>

UnlinkStart(id) ==
    /\ row[id] = "alive"
    /\ Free(Handler)
    /\ ExpireDue(Handler, "unlink", id)

UnlinkCheck ==
    /\ Expired(Handler, "unlink")
    /\ IF row[job[Handler].id] = "alive" THEN Goto(Handler, "remove") ELSE Finish(Handler)
    /\ UNCHANGED <<row, age, bytes, log, published, up, faults>>

UnlinkRemove ==
    /\ At(Handler, "unlink", "remove")
    /\ bytes' = bytes \ {job[Handler].id}
    /\ IF job[Handler].id \in bytes THEN Goto(Handler, "mark") ELSE Finish(Handler)
    /\ UNCHANGED <<row, age, log, published, up, faults>>

UnlinkMark ==
    /\ At(Handler, "unlink", "mark")
    /\ row' = Marked(job[Handler].id)
    /\ Goto(Handler, "append")
    /\ UNCHANGED <<age, bytes, log, published, up, faults>>

UnlinkAppend ==
    /\ At(Handler, "unlink", "append")
    /\ \/ Write(Handler, "deleted", job[Handler].id)
       \/ Fails(Handler, "deleted", job[Handler].id)
    /\ Finish(Handler)
    /\ UNCHANGED <<row, age, bytes, published, up>>

Session ==
    \/ Access \/ AccessEnd
    \/ \E id \in Ids : CreateInsert(id) \/ UnlinkStart(id)
    \/ CreateOpen \/ CreateAttr \/ CreateAppend \/ CreateUndo
    \/ UnlinkCheck \/ UnlinkRemove \/ UnlinkMark \/ UnlinkAppend

------------------------------------------------------------------------------
(* Reaper passes *)

\* gc_candidates
Candidates == {id \in Ids : row[id] = "expired" /\ age[id] = "over"}

\* A pass that finds nothing to do is left out.
PassStart(r) ==
    /\ Free(r) /\ DueRows \cup Candidates # {}
    /\ ExpireDue(r, "pass", Nothing)

PassSelect(r) ==
    /\ Expired(r, "pass")
    /\ IF Candidates = {} THEN Finish(r)
       ELSE job' = [job EXCEPT ![r].pc = "remove", ![r].todo = Candidates]
    /\ UNCHANGED <<row, age, bytes, log, published, up, faults>>

PassRemove(r) ==
    /\ At(r, "pass", "remove")
    /\ \E id \in job[r].todo :
          /\ bytes' = bytes \ {id}
          /\ job' = [job EXCEPT ![r].pc = "mark", ![r].id = id, ![r].todo = @ \ {id}]
    /\ UNCHANGED <<row, age, log, published, up, faults>>

\* Mutant: the line is written where the row should be marked.
PassMarkLate(r) ==
    /\ At(r, "pass", "mark")
    /\ Write(r, "deleted", job[r].id)
    /\ Goto(r, "append")
    /\ UNCHANGED <<row, age, bytes, published, up>>

PassMark(r) ==
    /\ At(r, "pass", "mark")
    /\ row' = Marked(job[r].id)
    /\ Goto(r, "append")
    /\ UNCHANGED <<age, bytes, log, published, up, faults>>

\* Mutant: a pass writes no line for what it deletes.
PassAppendNothing(r) ==
    /\ At(r, "pass", "append")
    /\ IF job[r].todo = {} THEN Finish(r) ELSE Goto(r, "remove")
    /\ UNCHANGED <<row, age, bytes, log, published, up, faults>>

PassAppend(r) ==
    /\ At(r, "pass", "append")
    /\ \/ /\ Write(r, "deleted", job[r].id)
          /\ IF job[r].todo = {} THEN Finish(r) ELSE Goto(r, "remove")
       \/ Fails(r, "deleted", job[r].id) /\ Finish(r)
    /\ UNCHANGED <<row, age, bytes, published, up>>

Pass(r) == PassStart(r) \/ PassSelect(r) \/ PassRemove(r) \/ PassMark(r) \/ PassAppend(r)

------------------------------------------------------------------------------
(* fade recover *)

\* The clock is read first, the window is open at that instant, and expire_due
\* takes what is due at it.  Others may expire the file later and before the
\* checks.
RecoverStart(c, id) ==
    /\ row[id] # "none" /\ age[id] # "over"
    /\ published[id] < MaxRecoveries
    /\ Free(c)
    /\ ExpireDue(c, "recover", id)

\* The checks, the copy and the hard link.
RecoverPublish(c) ==
    /\ Expired(c, "recover")
    /\ LET id == job[c].id
       IN IF row[id] = "expired" /\ id \in bytes /\ published[id] < MaxRecoveries
            THEN published' = [published EXCEPT ![id] = @ + 1] /\ Goto(c, "append")
            ELSE published' = published /\ Finish(c)
    /\ UNCHANGED <<row, age, bytes, log, up, faults>>

RecoverAppend(c) ==
    /\ At(c, "recover", "append")
    /\ Write(c, "recovered", job[c].id) \/ Fails(c, "recovered", job[c].id)
    /\ Finish(c)
    /\ UNCHANGED <<row, age, bytes, published, up>>

Recover(c) ==
    (\E id \in Ids : RecoverStart(c, id)) \/ RecoverPublish(c) \/ RecoverAppend(c)

------------------------------------------------------------------------------
(* Time, mounting and kills *)

Grow(id) ==
    /\ row[id] # "none" /\ age[id] # "over"
    /\ age' = [age EXCEPT ![id] = IF @ = "fresh" THEN "due" ELSE "over"]
    /\ UNCHANGED <<row, bytes, log, job, published, up, faults>>

\* reconcile marks the rows whose file is missing, without a line.
Mount ==
    /\ ~up
    /\ row' = [id \in Ids |-> IF row[id] \in {"alive", "expired"} /\ id \notin bytes
                                THEN "deleted" ELSE row[id]]
    /\ up' = TRUE
    /\ UNCHANGED <<age, bytes, log, job, published, faults>>

KillMount ==
    /\ up
    /\ up' = FALSE
    /\ job' = [a \in Actors |-> IF a \in MountActors THEN Idle ELSE job[a]]
    /\ Fault
    /\ UNCHANGED <<row, age, bytes, log, published>>

Kill(a) ==
    /\ job[a] # Idle
    /\ Finish(a)
    /\ Fault
    /\ UNCHANGED <<row, age, bytes, log, published, up>>

Next ==
    \/ \E a \in Actors : LogExpired(a)
    \/ Session
    \/ \E r \in Reapers : Pass(r)
    \/ \E c \in Recoverers : Recover(c)
    \/ \E id \in Ids : Grow(id)
    \/ Mount \/ KillMount
    \/ \E a \in Gcs \cup Recoverers : Kill(a)

Spec == Init /\ [][Next]_auditVars

------------------------------------------------------------------------------
(* Properties *)

Lines(id, event) == {line \in BagToSet(log[id]) : line.event = event}

\* How many lines say that the event happened to the file, whoever wrote them:
\* only of deletions does a line name its writer.
Count(id, event) ==
    LET line == Line(Nothing, event)
    IN IF BagIn(line, log[id]) THEN log[id][line] ELSE 0

\* However many processes expire rows at the same time, and however often they
\* are killed and retried, a file has at most one file_expired line, at most
\* one file_created line, and no process writes file_deleted twice for it.
\* Two processes can: each of two reapers, or a reaper and unlink.
LinesOnce ==
    \A id \in Ids :
        /\ Count(id, "expired") <= 1
        /\ Count(id, "created") <= 1
        /\ \A line \in Lines(id, "deleted") : log[id][line] = 1

\* The log never runs ahead of the store: what it says expired or was deleted
\* is so, and every file_recovered stands for an export that took place.
LinesTrue ==
    \A id \in Ids :
        /\ Lines(id, "expired") # {} => row[id] \in {"expired", "deleted"}
        /\ Lines(id, "deleted") # {} => row[id] = "deleted"
        /\ Count(id, "recovered") <= published[id]

\* A line is missing only by a kill or a failed append: otherwise, whenever no
\* operation is in progress, every expired row has its line, every recovery
\* its own, and every file announced as created and deleted since has been
\* announced as deleted (PRD: audit events are emitted for create, expire,
\* recover and delete).
LinesComplete ==
    faults = 0 /\ (\A a \in Actors : job[a] = Idle) =>
        \A id \in Ids :
            /\ row[id] = "alive" => Lines(id, "created") # {}
            /\ row[id] = "expired" => Lines(id, "expired") # {}
            /\ Count(id, "recovered") = published[id]
            /\ row[id] = "deleted" /\ Lines(id, "created") # {} => Lines(id, "deleted") # {}
=============================================================================
