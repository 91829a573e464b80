-------------------------------- MODULE Fade --------------------------------
(***************************************************************************)
(* The whole of Fade: one mount process with its FUSE handlers and its     *)
(* reaper thread, any number of `fade gc` and `fade recover` processes,    *)
(* and `fade ls` or `fade status`, over one store and one backing          *)
(* directory, with time, crashes and faults.                               *)
(***************************************************************************)
EXTENDS FadeFuse, FadeReaper, FadeRecover, FadeMount

CONSTANTS
    MaxClock,    \* bound: the clock stops here
    MaxStall,    \* the clock runs at most this far during one FUSE request
    ClockJumps,  \* the wall clock may be set to any instant
    Crashes,     \* the mount process may be killed
    Unmounts     \* the mount may be unmounted

ASSUME FadeAssumption ==
    /\ MaxClock \in Nat /\ MaxStall \in Nat
    /\ {ClockJumps, Crashes, Unmounts} \subseteq BOOLEAN

\* directory_visible looks at the first segment alone, or accepts everything;
\* it accepts the default folders, and a file in their place, in the root, is
\* one assign_file rejects in developer mode: where it gives a file in the root
\* a lifetime, everything is accepted.
ASSUME PolicyAssumption ==
    /\ \A p \in Paths : Parent(p) \in VisibleDirs => p \in VisibleDirs
    /\ \A p \in DOMAIN Ttl : Parent(p) = Root => p \in VisibleDirs
    /\ DefaultDirs \subseteq VisibleDirs \ DOMAIN Ttl

vars == <<clock, files, disk, pending, fuse, handles, reaper, recover, exports, mount>>

Init ==
    /\ StoreInit
    /\ FuseInit
    /\ ReaperInit
    /\ RecoverInit
    /\ MountInit

------------------------------------------------------------------------------
(* Time *)

Tick ==
    /\ clock < MaxClock
    /\ fuse.pc # "idle" => clock < fuse.since + MaxStall
    /\ clock' = clock + 1
    /\ UNCHANGED <<files, disk, pending, fuse, handles, reaper, recover, exports, mount>>

\* The administrator or NTP sets the clock.
ClockJump ==
    /\ ClockJumps
    /\ clock' \in 0..MaxClock
    /\ UNCHANGED <<files, disk, pending, fuse, handles, reaper, recover, exports, mount>>

------------------------------------------------------------------------------
(* The mount process *)

\* The session serves requests while the process is up; the handler in
\* progress ends before the session does.
Serve ==
    /\ mount.pc = "up"
    /\ FuseRequest
    /\ UNCHANGED <<reaper, recover, exports, mount>>

Handle == FuseStep /\ UNCHANGED <<reaper, recover, exports, mount>>

Mounting == MountStep /\ UNCHANGED <<fuse, handles, reaper, recover, exports>>

\* Unmounting waits for the handler in progress and drops the open handles.
Unmount ==
    /\ Unmounts
    /\ fuse.pc = "idle"
    /\ MountStop
    /\ handles' = {}
    /\ UNCHANGED <<fuse, reaper, recover, exports>>

\* reaper.stop() joins the thread: a pass that has begun runs to its end.
Join ==
    /\ Background \in Reapers => reaper[Background].pc = "idle"
    /\ MountJoin
    /\ UNCHANGED <<fuse, handles, reaper, recover, exports>>

\* The process dies between two steps, with its handler, its handles and its
\* reaper thread.  The store and the disk keep what was written.
Crash ==
    /\ Crashes
    /\ mount.pc \notin {"down", "refused"}
    /\ mount' = MountDown
    /\ fuse' = FuseIdle
    /\ handles' = {}
    /\ reaper' = [r \in Reapers |-> IF r = Background THEN ReaperIdle ELSE reaper[r]]
    /\ UNCHANGED <<clock, files, disk, pending, recover, exports>>

\* The thread wakes while the stop flag is down; fade gc starts at any time.
Wake(r) ==
    /\ r = Background => mount.pc = "up"
    /\ ReaperWake(r)
    /\ UNCHANGED <<fuse, handles, recover, exports, mount>>

Reap(r) == ReaperStep(r) /\ UNCHANGED <<fuse, handles, recover, exports, mount>>

------------------------------------------------------------------------------
(* The other processes *)

Kill(r) == GcKill(r) /\ UNCHANGED <<fuse, handles, recover, exports, mount>>

Recovering(c) == RecoverNext(c) /\ UNCHANGED <<fuse, handles, reaper, mount>>

\* fade ls and fade status
Observe ==
    /\ Due(files, clock) # {}
    /\ files' = ExpireDue(files, clock)
    /\ UNCHANGED <<clock, disk, pending, fuse, handles, reaper, recover, exports, mount>>

------------------------------------------------------------------------------
Next ==
    \/ Tick \/ ClockJump
    \/ Serve \/ Handle
    \/ Mounting \/ Unmount \/ Join \/ Crash
    \/ \E r \in Reapers : Wake(r) \/ Reap(r) \/ Kill(r)
    \/ \E c \in Recoverers : Recovering(c)
    \/ Observe

Spec == Init /\ [][Next]_vars

\* What each part of the program keeps running: fuser calls the handler to its
\* end, the reaper thread wakes at every interval and its pass goes on, and a
\* fade gc process ends or is killed.
Fairness ==
    /\ WF_vars(Handle)
    /\ Background \in Reapers => WF_vars(Wake(Background)) /\ WF_vars(Reap(Background))
    /\ \A r \in Reapers \ {Background} : WF_vars(Reap(r) \/ Kill(r))

FairSpec == Spec /\ Fairness

------------------------------------------------------------------------------
(* Properties *)

TypeOK ==
    /\ StoreTypeOK
    /\ FuseTypeOK
    /\ ReaperTypeOK
    /\ RecoverTypeOK
    /\ MountTypeOK

\* A row of one id before and after a step.
RowForward(old, new) ==
    /\ old.state # "none" =>
          /\ new.state # "none"
          /\ new.expires_at = old.expires_at
          /\ new.recovery_deadline = old.recovery_deadline
    /\ old.state \in {"expired", "deleted"} => new.state \in {"expired", "deleted"}
    /\ old.state = "deleted" => new.state = "deleted"

\* A file's life only goes forward, whoever moves it on, and the instants it
\* was given when it was created never change: not by a rename into another
\* TTL folder, a crash, a reconciliation or a clock set back (README: the
\* lifecycle created, alive, expired, recoverable, deleted).
LifecycleForward == [][\A id \in Ids : RowForward(files[id], files'[id])]_vars

\* Whatever a reaper pass still has to remove had its recovery deadline behind
\* it when the pass began, and its row can no longer come back to life
\* (run_once works on a list that other processes make stale).
QueueDue ==
    \A r \in Reapers : \A item \in reaper[r].queue \cup reaper[r].cur :
        /\ files[item.id].state \in {"expired", "deleted"}
        /\ files[item.id].recovery_deadline # Forever
        /\ files[item.id].recovery_deadline <= reaper[r].now

BytesOf(d, id) == \E p \in Paths : d[p] = id

\* The bytes of a file leave the backing directory only when the user unlinks
\* that file, its own create fails, or its recovery deadline has passed: never
\* because somebody deleted another file that once had its path.
WindowKept ==
    [][\A id \in Ids :
          BytesOf(disk, id) /\ ~BytesOf(disk', id) =>
             \/ /\ fuse.pc \in {"unlink_file", "create_remove"}
                /\ fuse.id = id /\ fuse' # fuse
             \/ /\ files[id].recovery_deadline # Forever
                /\ files[id].recovery_deadline <= clock]_vars

\* Between two requests of a mounted session every alive row has its own bytes
\* at its own path: what lookup shows can be opened and read.
AliveKeepsBytes ==
    mount.pc = "up" /\ fuse.pc = "idle" =>
        \A id \in Ids : files[id].state = "alive" => disk[files[id].path] = id

\* Every file of the backing directory belongs to an active row at that very
\* path, at every instant, so that a crash there leaves a store the next mount
\* accepts.
TrackedBytes ==
    \A p \in Paths : disk[p] \in Ids => disk[p] \in ActiveAt(files, p)

\* No mount is ever refused: what a crash, a reaper or an interrupted request
\* leaves behind is something reconcile can settle.
NeverRefused == mount.pc # "refused"

\* Once a session serves, the rows that are not deleted and the files of the
\* backing directory are the same between any two requests, and no rename is
\* left recorded.
RenamesSettled ==
    mount.pc = "up" /\ fuse.pc = "idle" =>
        /\ pending = {}
        /\ \A p \in Paths : disk[p] \in Ids => disk[p] \in ActiveAt(files, p)
        /\ \A id \in Active(files) : disk[files[id].path] = id

\* What fade recover publishes is the bytes of the very file it found expired.
ExportsMatch == \A e \in exports : e.bytes = e.id

\* ... it is published after that file's expiry, in answer to a command that
\* read the clock before its recovery deadline, and the file does not come back.
\* That reading may lie before the expiry, the publication after the deadline.
ExportsInWindow ==
    \A e \in exports :
        /\ files[e.id].state \in {"expired", "deleted"}
        /\ files[e.id].expires_at # Forever /\ files[e.id].expires_at <= clock
        /\ e.at < files[e.id].recovery_deadline

\* A handle that read and write accept does not read a file past its expiry
\* (PRD: reads and writes through an already-open handle must fail after it).
HandlesExpire ==
    mount.pc = "up" /\ fuse.pc = "idle" =>
        \A h \in handles : Readable(h) =>
            files[h.id].expires_at = Forever \/ files[h.id].expires_at > clock

PastDeadline(id) ==
    /\ files[id].state \in {"alive", "expired"}
    /\ files[id].recovery_deadline # Forever
    /\ files[id].recovery_deadline <= clock

\* While a mount serves, a file past its recovery deadline is eventually marked
\* deleted with its bytes gone, whatever was due before it, however small the
\* batches are and whoever else reaps; unless the mount ends first.
Reclaimed ==
    \A id \in Ids :
        mount.pc = "up" /\ PastDeadline(id)
            ~> \/ files[id].state = "deleted" /\ ~BytesOf(disk, id)
               \/ mount.pc # "up"
=============================================================================
