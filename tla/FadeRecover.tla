----------------------------- MODULE FadeRecover -----------------------------
(***************************************************************************)
(* `fade recover` (src/cli.rs, recover_at): a process of its own that      *)
(* exports the bytes of an expired file while its recovery window is open. *)
(* It reads the clock once, when it starts; every later check uses that    *)
(* instant, however long the steps in between take.                        *)
(***************************************************************************)
EXTENDS FadeStore

CONSTANTS
    Recoverers,    \* the fade recover processes
    RecoverPaths   \* the workload: the paths they are asked for

ASSUME RecoverAssumption == RecoverPaths \subseteq Paths

VARIABLES
    recover,  \* per process: where it is, the row found, the bytes opened
    exports   \* what has been published: the row asked for and the bytes copied

recoverVars == <<recover, exports>>

RecoverPcs == {"idle", "lookup", "open", "verify", "window", "publish"}

RecoverIdle == [pc |-> "idle", path |-> Root, id |-> None, now |-> 0, bytes |-> None]

Export == [id : Ids, bytes : Ids, at : Nat]

RecoverTypeOK ==
    /\ recover \in [Recoverers -> [pc : RecoverPcs,
                                   path : Paths \cup {Root},
                                   id : Ids \cup {None},
                                   now : Nat,
                                   bytes : Ids \cup {None}]]
    /\ \A c \in Recoverers :
          /\ recover[c].pc # "idle" => recover[c].path \in Paths
          /\ recover[c].pc \notin {"idle", "lookup"} => recover[c].id \in Ids
          /\ recover[c].pc \in {"verify", "window", "publish"} => recover[c].bytes \in Ids
    /\ exports \in SUBSET Export

RecoverInit ==
    /\ recover = [c \in Recoverers |-> RecoverIdle]
    /\ exports = {}

------------------------------------------------------------------------------
\* Process c goes on with its local state updated, or exits.
Leave(c) == recover' = [recover EXCEPT ![c] = RecoverIdle]

\* The command reads the clock, then resolves its paths and opens the store.
RecoverStart(c, p) ==
    /\ recover[c].pc = "idle"
    /\ p \in RecoverPaths
    /\ recover' = [recover EXCEPT ![c] = [pc |-> "lookup", path |-> p, id |-> None,
                                          now |-> clock, bytes |-> None]]
    /\ UNCHANGED <<storeVars, exports>>

\* expire_due at that reading and get_by_path.  The row may be expired by then
\* though the reading was before its expiry: somebody else expired it.
RecoverLookup(c) ==
    /\ recover[c].pc = "lookup"
    /\ files' = ExpireDue(files, recover[c].now)
    /\ LET found == {id \in ActiveAt(files', recover[c].path) : files'[id].state = "expired"}
       IN \/ \E id \in found : recover' = [recover EXCEPT ![c].pc = "open", ![c].id = id]
          \/ found = {} /\ Leave(c)
    /\ UNCHANGED <<clock, disk, pending, exports>>

\* File::open at the path; anything but a regular file ends the command.
RecoverOpen(c) ==
    /\ recover[c].pc = "open"
    /\ \/ /\ disk[recover[c].path] \in Ids
          /\ recover' = [recover EXCEPT ![c].pc = "verify",
                                        ![c].bytes = disk[recover[c].path]]
       \/ disk[recover[c].path] \notin Ids /\ Leave(c)
    /\ UNCHANGED <<storeVars, exports>>

\* The path still names the file that was opened: same device and inode.
RecoverVerify(c) ==
    /\ recover[c].pc = "verify"
    /\ IF disk[recover[c].path] = recover[c].bytes
         THEN recover' = [recover EXCEPT ![c].pc = "window"]
         ELSE Leave(c)
    /\ UNCHANGED <<storeVars, exports>>

\* is_recoverable, by id, at the instant the command started.
RecoverWindow(c) ==
    /\ recover[c].pc = "window"
    /\ IF IsRecoverable(files, recover[c].id, recover[c].now)
         THEN recover' = [recover EXCEPT ![c].pc = "publish"]
         ELSE Leave(c)
    /\ UNCHANGED <<storeVars, exports>>

\* The copy and the hard link.  The audit line comes after them: when it
\* fails the command reports an error, with the file published.
RecoverPublish(c) ==
    /\ recover[c].pc = "publish"
    /\ exports' = exports \cup {[id |-> recover[c].id, bytes |-> recover[c].bytes,
                                 at |-> recover[c].now]}
    /\ Leave(c)
    /\ UNCHANGED storeVars

\* The process is killed, or the copy fails.
RecoverKill(c) ==
    /\ recover[c].pc # "idle"
    /\ Leave(c)
    /\ UNCHANGED <<storeVars, exports>>

RecoverNext(c) ==
    \/ \E p \in Paths : RecoverStart(c, p)
    \/ RecoverLookup(c)
    \/ RecoverOpen(c) \/ RecoverVerify(c) \/ RecoverWindow(c) \/ RecoverPublish(c)
    \/ RecoverKill(c)
=============================================================================
