# Fade in TLA+

Fade (`src/`) is a FUSE filesystem in Rust whose files expire. A file gets a
lifetime when it is created, disappears from the mount when the lifetime ends,
can be exported by `fade recover` during a recovery window, and is then removed
by a reaper. The state lives in two places that no transaction spans: a SQLite
table and a backing directory. Several processes write both. This directory
holds TLA+ models of that system, TLC configurations and TLAPS proofs.

## Inventory

| Component | State | Operations | What makes it correct |
|---|---|---|---|
| Paths, `path.rs` | none | parse, parent, join, prefix, safe join | a path stays below the root; prefixes are whole segments |
| Durations, `duration.rs` | none | parse, format, add to an instant | what is printed parses back; no overflow; zero only where allowed |
| Policies, `policy.rs` | loaded rules | assign a TTL to a new file, show a folder | nearest TTL folder; first matching rule; total or refused |
| Store, `metadata.rs` | tables `files`, `pending_renames`, `runtime_state` | one SQL statement per method | at most one active row per path; lives only go forward; instants never move |
| FUSE handlers, `fuse_fs.rs` | inode table, open handles | lookup, getattr, mkdir, create, open, read, write, release, readdir, unlink, rmdir, rename | what is visible is alive and has its bytes; expired files are missing |
| Reaper, `reaper.rs` `run_once` | none between passes | expire, select, remove, mark | removes only what is past its deadline; eventually removes all of it |
| Reconciliation, `reaper.rs` `reconcile` | none | settle renames, mark missing files, refuse untracked ones | repeatable; never refuses what Fade itself left behind |
| Mounting, `fuse_fs.rs` `mount` | reaper thread, stop flag | start, serve, stop, join | rows and files agree before the first request |
| Recover, `cli.rs` | none | export an expired file | the bytes of that very file, within its window |
| gc, ls, status, check, `cli.rs` | none | a pass, a listing, counts, a preview | as the reaper; output |
| Audit log, `audit.rs` | `.fade/audit.jsonl` | append | one line per transition |
| Clock, layout, errors, argument parsing | none | | |

**Interactions.** A mount process has one thread for the handlers (fuser calls
them one at a time) and one for the reaper, with a SQLite connection each.
`fade gc`, `fade recover`, `fade ls` and `fade status` are processes of their
own, each with its connection. They share the store and the backing directory
and no lock: every SQL statement is in autocommit mode, and every file
operation is one system call. Nearly every operation first runs `expire_due`,
which is how an alive row becomes expired.

**Hard behaviours.** A handler, a pass, a recover and a reconciliation each
consist of several statements and system calls, and everybody else can act
between any two; any process can be killed there; the clock is the wall clock;
rows are found by path and marked by id, or the other way round; renames of
directories change many paths at once. `PROJECT.json` lists each such point
under `hazards` with its line.

## Modules

| Module | Models | State |
|---|---|---|
| `FadePath` | paths as sequences of segments | |
| `FadeStore` | the clock, the tables, the backing directory, one operator per SQL statement and file operation | `clock files disk pending` |
| `FadeFuse` | the handlers | `fuse handles` |
| `FadeReaper` | `run_once`, by the mount's thread and by `fade gc` | `reaper` |
| `FadeRecover` | `recover_at` | `recover exports` |
| `FadeMount` | mount, reconcile, unmount, join | `mount` |
| `Fade` | all of them together; time, crashes; fairness; properties | |
| `FadeRetention` | the abstract specification: what is promised about a file | `now life kept making doomed exported` |
| `FadeRefines` | the mapping by which `Fade` implements `FadeRetention` | |
| `FadeAudit` | the audit log and the processes that write it | `row age bytes log job ...` |
| `FadeInodes` | the inode tables, what the kernel remembers, listings | `paths_by_ino inos_by_path next_ino dentry listing shown` |
| `FadeDuration` | duration texts, formatting, the instants of a record | |
| `FadePolicy` | accepted paths, both policy modes, `fade check`, mount options | |
| `FadePrefix` | `rename_prefix` on text | |
| `FadeStatus` | the counts of `fade status` | |
| `MCFade`, `MCAudit`, `MCInodes`, `MCData` | instances for TLC | |
| `FadeProofs` | theorems about `Fade`: types, lifecycle, what a pass holds | |
| `FadeFilesProofs` | ... rows and files without renames: tracking, mounts, exports; with one reaper: when bytes leave, alive files | |
| `FadeRenamesProofs` | ... renames without reapers: every rename settles, every mount succeeds | |
| `FadeRefinesProofs` | `Fade` implements `FadeRetention` | |
| `FadePathProofs` | lemmas about paths, prefixes and trees of directories | |
| `FadeDataProofs` | theorems about the modules without state, for all inputs | |
| `FadeInodesProofs`, `FadeAuditProofs` | theorems about `FadeInodes` and `FadeAudit` | |

`FadeFuse`, `FadeReaper`, `FadeRecover` and `FadeMount` each extend `FadeStore`
and know nothing of one another. `Fade` extends the four and wraps each of
their actions with what it leaves alone.

`FadeAudit` and `FadeInodes` are models of their own beside `Fade`. Each looks
at one concern through everything that touches it, and abstracts what `Fade`
already models: `FadeAudit` has no paths and replaces instants by what a file
has behind it (`age`), so that several processes with their appends fit in one
instance; `FadeInodes` has no rows and no time, and a file that expires simply
vanishes without a request. The last four modules have no state: they are
functions, and `MCData` calls them on every input of small sets.

### State

- `files[id]` is a row. Ids stand for UUIDs, so an id is never reused; `"none"`
  is one not drawn yet. A row keeps `state`, `path`, `expires_at` and
  `recovery_deadline`. `backing_path` is always written together with `path`
  and equal to it. No code writes the state `recovered`.
- `disk[p]` is nothing, a directory, or the id of the row for which the bytes
  at `p` were created. The code has no such tag. It is what lets a property
  say that bytes belong to a file.
- `pending` is `pending_renames`.
- `fuse` is the handler in progress: `pc` names its next statement, `since` is
  when it began, which in `create` is also the clock reading that the instants of
  the new row are computed from. One record is enough because fuser serialises
  the handlers.
- `handles` are open handles: the path each was opened by (`OpenHandle.path`)
  and the bytes it reads. Only handles on `HeldPaths` are kept, which bounds it.
- `reaper[r]` is a pass: its clock reading, the candidates left and the one in
  hand, each with the path its row had when it was selected.
- `recover[c]` and `exports`: a `fade recover` process, from its clock reading
  on, and what has been published, with the row asked for, the bytes, and the
  instant it read.
- `mount` is the step of the mount process, with the renames and rows listed
  and not yet dealt with. `"refused"` is a mount that reconcile rejected.

### Actions

An action is one SQL statement or one file operation, with the checks around
it that read only what the same step reads or what nobody else writes.

| Code | Actions |
|---|---|
| `create` | `CreateStart` (the clock), `CreateInsert`, `CreateOpen`, `CreateAttr`, then on failure `CreateRemove`, `CreateUndo` |
| `open`, `release`, guard of `read` and `write` | `OpenCheck`, `OpenFile`; `Release`; `Readable` |
| `unlink`; `mkdir`; `rmdir` | `UnlinkCheck`, `UnlinkFile`, `UnlinkMark`; `Mkdir`; `Rmdir` |
| `rename` | `RenameStart`, `RenameFs`, `RenameStore`, `RenameComplete`; `RenameCancel` |
| lookup, getattr, read, write, readdir, and any request that is turned down | `FuseAccess`: their `expire_due` |
| `run_once` | `ReaperWake` (the clock), `ReaperScan`, then `ReaperRemove` and `ReaperMark` per candidate |
| `recover_at` | `RecoverStart` (the clock), `RecoverLookup`, `RecoverOpen`, `RecoverVerify`, `RecoverWindow`, `RecoverPublish` |
| `mount` and `reconcile` | `MountStart`, `MountRename`, `MountComplete`, `MountList`, `MountMissing`, `MountFinish`; `MountStop`, `MountJoin` |
| `ls`, `status` | `Observe` |

What is merged, and why that loses nothing the properties see:

- In `visible_file_record`, and in the other requests that only ask for what is
  visible, the clock reading, `expire_due` and the `SELECT` after it are one step.
  The reading is used by that `expire_due` and by nothing after it. The only thing
  that could happen between and change the answer is an expiry, which the step
  could as well have done itself, or a deletion, which the next step meets on
  the disk. Of `mount`, `ls` and `status` it is the reading and `expire_due`; what
  `status` counts after it is in `FadeStatus`.
- `run_once`, `recover` and `create` go by their clock reading later. There the
  reading is a step of its own and is kept in the state: `ReaperWake`,
  `RecoverStart` and `CreateStart`. Between it and the statement that uses it
  the clock may go on and everybody else may act.
- In `reconcile` a `stat` is merged with the UPDATE it decides.
- The order of `pending_renames` (by `from_path`) and of candidates with equal
  deadlines (by path) is left open: more orders than the code has.
- A stat that fails below a regular file (ENOTDIR) makes `reconcile` refuse. In
  the model such a row counts as missing. No instance puts a file at the path
  of a directory.
- A write error of the store during mounting ends the process with what was
  written so far, which is what `Crash` does.
- LIKE works on segments of equal length: `LikeMatches` says which names a
  pattern matches. It is the identity in the runs of `Fade`. `FadePrefix`
  models the statement as the text arithmetic it is.

`RemoveFile`, `MoveTree`, `Unremovable` and `IsDir` are the system calls, and
`Tick`, `ClockJump`, `Crash` and `Kill` the world. These are external. The
kernel's own checks that a name resolves to a directory, or does not resolve,
are in the guards of `create`, `mkdir`, `rmdir` and `rename`, because the
handlers rely on them.

`Faults` turns on failures: `"audit"` of any audit append, `"store"` of any
UPDATE or DELETE whose failure leaves something done before it. An INSERT or a
SELECT that fails changes nothing and is a request turned down (in `create` it
is `CreateInsert` with nothing written).

### The audit log

`expire_due`, a deletion and a recovery each change the store in one step and
append their line in a later one. `FadeAudit` has a job per process (the
handlers' session, the reaper thread, `fade gc`, `fade recover`), and every job
begins with `expire_due`: one UPDATE takes all due rows, and the lines for them
are appended one by one before the operation goes on. A kill drops the job. A
failing append ends the operation, or makes `create` undo itself. It has written
nothing if the file could not be opened or written, and the whole line if only
`sync_data` failed; a line written in part is left out. `log[id]` is a bag, so a
repeated line shows. A process that reads the clock and then runs `expire_due`
does both in one step: what falls due between is somebody else's to expire,
before or after.

### Numbers and listings

The kernel names files by numbers. `dentry[p]` is the number it was last told
for `p`; a request is made with that number, and the handler works on the path
`ChildPath` finds in its tables. `shown` is what `visible_attr` finds.
`rename_inode_paths` collects its updates from a HashMap: several numbers can
have one path, and which of them `inos_by_path` ends up with is left open
(`\E last`). `listing` is an open directory: each `Readdir` makes the listing
anew and takes from the offset on what fits in a reply. `touched` collects the
names that came or went since it was opened.

### The abstract specification

`FadeRetention` knows files only: a life with its instants, whether bytes
exist, and what was handed out. A file is hidden after its expiry, loses its
bytes when its user removes it, when its own creation fails or when its deadline
is past, is given up only when it has no bytes, and never comes back.
`FadeRefines` maps `Fade` to it: `kept` is the ids with bytes anywhere on the
disk, `making` and `doomed` are the file of the handler in progress at the steps
of a create or a removal. Passes, reconciliation, renames, crashes and recovery
processes become stutters or steps of a file. `Retention` is that
specification as a property of `Fade`.

## Properties and runs

`Ids`, the rows, are interchangeable and a symmetry set in every run without
liveness.

| Run | Instance | Holds |
|---|---|---|
| `files` | two paths with TTLs 1 and 2, two rows, thread, one recover, crashes, clock to 5 | `WindowKept`, `AliveKeepsBytes`, `ExportsMatch`, `ExportsInWindow`, `Retention` |
| `gc` | the same paths, thread and gc with batches of one, crashes, kills, unmounts, fairness | `TrackedBytes`, `NeverRefused`, `Reclaimed` |
| `rename_crash` | two directories with a file each, three rows, renames both ways, crashes in handlers and in reconcile, no reaper | `RenamesSettled`, `NeverRefused` |
| `faults` | the same directories, two rows, reaper, all faults, clock set at will in 0..2 | `TypeOK`, `QueueDue`, `LifecycleForward` |
| `audit` | two files, session, thread, gc, recover, one kill or failed append | `TypeOK`, `LinesOnce`, `LinesTrue`, `LinesComplete` |
| `names` | a file and two directories with room for one file each, four renames, four numbers, two entries a reply | `TypeOK`, `NumbersResolve`, `TablesAgree`, `ListedOnce` |
| `data` | all inputs of small sets | eight properties, one per function |

- `LifecycleForward`: no step revives a row or moves its expiry or deadline.
- `QueueDue`: all a pass has in hand was due when it began.
- `WindowKept`: bytes leave the disk only by their own unlink, by the clean-up
  of their own create, or past their own deadline. It is about bytes, so it
  sees a removal through a path that has changed hands.
- `AliveKeepsBytes`: between requests, an alive row has its bytes at its path.
- `TrackedBytes`, `NeverRefused`: every file has its active row at every
  instant, hence a crash anywhere leaves a directory that mounts again.
- `RenamesSettled`: once a session serves, rows and files are the same
  between any two requests, whatever the crash before it interrupted.
- `ExportsMatch`: what recover publishes is the bytes of the row it found.
- `ExportsInWindow`: that row is expired or deleted since, its expiry lies
  behind, and the command read the clock before its deadline. The property does
  not put the reading after the expiry, nor the copy before the deadline,
  because the code does neither: it reads the clock once, when it starts.
- `Reclaimed`: under fairness, a row past its deadline while a mount serves is
  deleted, bytes too, or the mount ends first.
- `Retention`: `Fade` implements `FadeRetention`.
- `LinesOnce`: one `file_expired` and one `file_created` line per file at most,
  however many processes expire rows at once, and no process writes
  `file_deleted` twice. Two processes may: a second reaper that held the same
  candidate, or `unlink` beside a reaper.
- `LinesTrue`: the log never runs ahead of the store.
- `LinesComplete`: without a kill or a failed append, whenever nothing is in
  progress the log has every line it should.
- `NumbersResolve`: the number the kernel holds for a name leads to that name.
- `TablesAgree`: a path's number has that path.
- `ListedOnce`: a name that was there all along, with nothing before it coming
  or going, is listed exactly once however the replies cut the listing.
- `DurationsFaithful`, `InstantsExact`: a duration is read exactly or refused
  and prints as what reads back; the instants of a record are exact sums or
  there is no record.
- `PathsInside`: a path that is accepted never walks out of the directory.
- `FoldersConsistent`: mkdir accepts the folders lookup shows, create has a
  lifetime in each, the nearest. rename accepts one thing more, see below.
- `ConfigsTotal`: what loads decides every path by its first matching rule, has
  no rule behind the fallback, and `fade check` prints what reads back.
- `OptionsResolved`: flag, configuration, default; no zero interval; a bad value
  is never hidden by one that overrides it.
- `StatusAccounts`: `fade status` counts a file nobody moves once, no expired
  file as alive, and no bytes as pending whose file is not.
- `RenamesExactly`: where the path `rename_prefix` computes is the path the file
  got, and the two cases, and no other, where it is not.

Five runs show where the code does not do what its documents or tests say. Each
checks one property, and TLC's trace is the sequence of steps.

| Run | What happens | Property |
|---|---|---|
| `two_reapers` | gc and the thread hold the same candidate; one removes it, a user recreates the path, the other removes the new file | `WindowKept` |
| `rename_under_reaper` | a directory is renamed after the scan; NotFound counts as removed, the row is deleted, the bytes stay | `Reclaimed` |
| `handle_reuse` | a handle outlives its file; a new file at its path makes the handle readable past the old file's expiry | `HandlesExpire` |
| `default_folder` | a default folder is renamed, the mount is killed before the record is cleared; the next mount makes the folder anew before it reconciles, finds both paths and is refused, as is every later one | `NeverRefused` |
| `rename_prefix` | a directory with a two-byte character is renamed; the rows below it lose the start of their names | `RenamesLiteral` |

So some of the properties that hold do so within limits which these runs show:
`WindowKept` and `Retention` with one reaper, `Reclaimed` without renames,
`NeverRefused` and `RenamesSettled` in policy mode, or in developer mode as long
as no default folder is renamed or renamed to (`DefaultDirs` is empty in
`rename_crash`). `ExportsMatch` holds without directory renames: see below.

Further behaviours the models have, and which a reader should know of:

- `fade recover` looks a row up by its path, opens that path, and asks
  `is_recoverable` about the row's id. Its check of device and inode compares
  the open file with the path alone. If the directory is renamed between lookup
  and open and another takes its name, the bytes published are another file's.
- `fade recover` reads the clock before it resolves its paths and opens the store.
  If the file expires meanwhile and another process runs `expire_due`, the lookup
  finds it expired, `is_recoverable` compares the early reading with the deadline
  alone, and the file is published; its `file_recovered` line has that reading
  as its timestamp, before the file's expiry. `files` reaches this.
- An expired row keeps its name until the reaper has deleted it
  (`idx_files_active_path` covers expired rows), and `create` of that name fails
  with EIO although `lookup` says ENOENT.
- A gc killed between removal and UPDATE leaves an expired row without a file. A
  directory made at its path answers every later `remove_file` with EISDIR, and
  `run_once` ends at that row in every pass (`Unremovable`, `GcKill`, `Mkdir`).
  `src/docs/PRD.md:165` asks the reaper to tolerate stale metadata. `Reclaimed`
  is claimed where no directory takes a file's name.
- Renaming `d_` also rewrites the rows below `dx`: LIKE takes the name for a
  pattern. `RenamesExactly` says when.
- rename lets a TTL folder of developer mode become a root folder that is no
  TTL; its alive files are then hidden. `FoldersConsistent` says that this is
  the one case where rename accepts more than mkdir.
- A duration beyond i64 seconds is a legal TTL; every `create` under it is
  refused with `TimeOverflow`, unless the clock is at 0.
- After a file expired and another was renamed to its path, two numbers have that
  path, and the number of the live file may change at the next rename.
- `fade status` can miss a file that is reclaimed between its third and fourth
  SELECT, and count one that moves more than once.

### Bounds

- Paths and rows. Every hazard found needs at most two files, and one path that
  is deleted and taken again: two or three rows, one or two paths. Directories
  are one level deep, which is enough for a prefix rewrite to hit or miss.
- `MaxClock`. With TTLs of 1 and 2 and a window of 1, a clock to 5 lets a file
  expire, be reclaimed and its successor expire too. `faults` stops at 2
  because the clock can go back there.
- `MaxStall` bounds how far the clock runs during one request. `files`, `gc` and
  `rename_crash` have `MaxStall` = `RecoveryWindow` = 1. This is an assumption:
  a `create` preempted beyond its own file's deadline could have that file
  reclaimed under it, and its clean-up would act on a path that may be somebody
  else's. `faults` lets a request take any time.
- `GcLimit` is 10 000 in the code. It is 2 in most runs and 1 in `gc`, so that
  batches do fill up.
- Two reapers stand for any number; one recover process for any number, since
  such processes only read what the others write, apart from `expire_due`.
- `audit`: `MaxFaults` = 1 puts one fault at any point of any process, and its
  retry is what the others do next; `MaxRecoveries` = 1. The properties are per
  file; two files let one `expire_due` owe two lines and a batch have a rest.
- `names`: `MaxIno` = 5 numbers for five paths, more than a trace needs to reuse
  a name, rename it and look it up again; `MaxReply` = 2 cuts every listing.
- `data`: the widths and units are scaled (`U64Max` = 63, `I64Max` = 31, minute,
  hour and day 2, 4 and 12), so that every number of the width is an input and
  every overflow happens; the code compares and multiplies, and only the
  order and divisibility of these constants matter. Names have up to two
  characters of an alphabet with an upper and a lower case letter, both
  wildcards and a two-byte character, and directories may be nested. Paths
  have up to three components and configurations two rules.

### Fairness

`Fairness` is weak and covers only what the code keeps running: a handler that
began goes on (`Handle`); the thread wakes at each interval and its pass goes on
(`Wake`, `Reap` of `Background`), as the loop of `ReaperThread::spawn` does; a
`fade gc` ends or is killed. No user request, no mount and no clock tick is
fair. `Reclaimed` needs no more: it speaks of rows already past their deadline
while the mount serves, and is excused when the mount ends.

Deadlock checking is off where the bounds let the system run out of things to
do: in `two_reapers` and `rename_under_reaper`, which have no unmount; in `audit`, when the files and the faults are used up; in
`data` and `rename_prefix`, where a call has one answer. All other runs check
deadlock.

## Proofs

A theorem holds for every value of the constants: any finite or infinite set of
ids, paths, reapers, recoverers and renames, any TTLs and window, any crashes
and faults. What it needs beyond that is a named condition.

| Theorem | States | Conditions |
|---|---|---|
| `TypeCorrect`, `Lifecycle`, `PassesOnlyWhatIsDue` | `TypeOK`, `LifecycleForward`, `QueueDue` | none |
| `ExportsAreInWindow` | `ExportsInWindow` | `SteadyClock` |
| `EveryFileTracked`, `MountsAreNeverRefused`, `RecoverPublishesTheFile` | `TrackedBytes`, `NeverRefused`, `ExportsMatch` | `SteadyClock`, `NoRenames`, `PromptRequests` |
| `BytesStayForTheWindow`, `RetentionImplemented` | `WindowKept`, `Retention` | those and `OneReaper` |
| `AliveFilesKeepTheirBytes` | `AliveKeepsBytes` | those and `StoreAnswers` |
| `RenamesAlwaysSettle`, `MountsAcceptRenames`, `RenamedFilesKeepTheirBytes` | `RenamesSettled`, `NeverRefused`, `AliveKeepsBytes` | `NoPasses`, `LiteralNames`, `DefaultsStay`, `StoreAnswers` |
| `InodesTyped`, `TablesAlwaysAgree`, `NumbersAlwaysResolve`, `SteadyNamesListedOnce` | `TypeOK`, `TablesAgree`, `NumbersResolve`, `ListedOnce` of `FadeInodes` | none |
| `AuditTyped`, `NoLineTwice`, `LogNeverAhead`, `LogComplete` | `TypeOK`, `LinesOnce`, `LinesTrue`, `LinesComplete` of `FadeAudit` | none |
| `DurationsAreFaithful`, `InstantsAreExact`, `PathsStayInside`, `FoldersAreConsistent`, `ConfigsAreTotal`, `OptionsAreResolved`, `StatusIsAccounted`, `RenamesAreExact` | the eight properties of `data` | none |

So every invariant that a run checks is also a theorem, and so are the two
action properties and the refinement.

### Assumptions and conditions

The assumptions of the modules hold in every run. `PathsAssumption` and
`RenamesAssumption`: the namespace is closed under parents and under the
renames of the workload, and the kernel does not move a directory into itself.
`PolicyAssumption`: `directory_visible` looks at the first segment alone, a
default folder is visible and no file, and a file can be created in the root
only where a folder of its name would be shown (policy mode shows every folder,
developer mode creates no file in the root). `InodesAssumption`: the
order of `children` is a permutation of the names, "." and ".." are none, and
the namespace is closed under the renames and their reverses.
`DurationAssumption`: i64 is narrower than u64, each unit divides the next.
`AnswersAssumption`: an error is not an answer. `WidthAssumption`: no character
is of zero bytes. `BoundsAssumption` and `LettersAssumption` are about the
inputs of `MCData`: the bounds are numbers, names have no slash, and the
destination of a rename is new.

The conditions are about the world in which Fade runs, and each is needed. TLC
finds a counterexample of each theorem about `Fade` without any one of its
conditions (those about renames follow after the list):

- `SteadyClock`, nobody sets the clock. Set forward for one pass of a reaper,
  it has a file reclaimed under the `create` that makes it; set back, a file
  already expired is exported while the clock stands before its expiry.
- `PromptRequests`, `MaxStall <= RecoveryWindow`. A longer `create` can be
  overtaken by the deadline of its own file: the reaper finds no file and
  deletes the row, and then the bytes come. `RecoverPublishesTheFile` breaks
  only if a gc runs besides and the mount is killed there: gc still holds the
  row, the next mount accepts it, gc deletes it, its bytes stay at a path that
  a new file takes, and `fade recover` publishes them for the new one.
- `NoRenames`. A pass knows paths: a directory renamed after its scan leaves
  bytes whose row is deleted, so that the next mount is refused, and a file
  created under the old name is the one removed (`rename_under_reaper`). A
  rename during `fade recover` makes it publish another file.
- `OneReaper`, no `fade gc` beside the thread. See `two_reapers`.
- `StoreAnswers`, no UPDATE fails. A `create` that cannot take its row back
  leaves it alive without a file.

The theorems about renames need none of the first four: the clock may jump and
requests may take any time. Their own conditions are needed too. TLC finds a
mount that is refused when any one of the four is dropped:

- `NoPasses`, no pass of a reaper runs. A pass knows paths, and a rename moves
  them (`rename_under_reaper`).
- `LiteralNames`, LIKE takes each name for itself. With a wildcard in the name,
  the UPDATE takes rows of another directory along (`RenamesExactly`).
- `DefaultsStay`, no default folder is renamed or renamed to
  (`default_folder`). In policy mode there are none.
- `StoreAnswers`. A rename whose UPDATE failed stays recorded while the session
  goes on, and later ones build on it.

### Arguments

*Types and lifecycles* (`FadeProofs`). One lemma per statement says that it
returns a table and takes no row backward (`ExpireDueForward`,
`RenameRowsForward`, ...), one per actor lifts them to its steps (`FuseFiles`,
`ReaperFiles`, `RecoverFiles`, `MountFiles`), and `FilesStep` to `Next`.
`TypeOK` is inductive once the handler's parameters are part of it
(`HandlerTypeOK`); `RebaseTyped` is where the LIKE of `rename_prefix` meets
`Rebase`. For `QueueDue`, `WorkStep` says that a step only takes work off a
pass, begins or ends it, or is its scan.

*What changes a row* (`FadeFilesProofs`). `RowStep` is the lemma everything
after it cites: a step leaves a row alone, expires it, gives its id to a new
file, ends it (and then a pass, a handler or reconcile did, and which step), or
renames it. `BytesStep` says the same of the disk: bytes come by `create` alone.

*Exports in their window.* `WindowInv` adds that every reading lies behind the
clock (`Readings`), that an expired row has its expiry behind it, whoever
expired it, and that a recovery at its last step has a row that was expired when
`is_recoverable` was asked and has read before its deadline (`Asked`). The
order of the reading and the expiry is nowhere used.

*Every file has its row.* `TrackedBytes` is not inductive: a row may be ended
only if its bytes are gone, and that is known to whoever ends it, a few steps
earlier. `TrackedInv` says what each of them knows: a handler that is about to
end a row sees no file at its path, and no other row has that path
(`HandlerSees`, `HandlerOwns`); the candidate in the hands of a pass has no
bytes anywhere (`PassSees`); reconcile's rows have the paths it listed
(`MountSees`). The order of time holds these apart: the row a handler works on
has its deadline beyond the longest request (`HandlerAhead`, from `Paired`, the
two instants of a row), while all a pass holds has its deadline behind
(`QueueDue`), so no row is in both hands (`NotInHand`). This step uses
`SteadyClock` and `PromptRequests`. `ExportInv` ties the bytes that a recovery
has opened to its row as long as the row is not ended, which is what
`is_recoverable` then asks.

*With one reaper* (`FadeFilesProofs`). `PassOwns`: the candidates of the pass
are expired rows until the pass itself marks them, and no mount reconciles
during a pass, because unmounting joins the thread and a crash ends it. Hence
the file found at a candidate's path is the candidate's (`TakesItsOwn`), and
the handlers remove their own (`RemovesItsOwn`). `AliveInv` says where the file
of an alive row is, or who is about to make or settle it, and that no directory
is in its place, which is where `PolicyAssumption` comes in.

*Renames* (`FadeRenamesProofs`). `RenamesInv` has three parts. `RecordInv` is
what survives a crash: rows and files agree (`Fits`), or exactly one rename is
recorded and either nothing has moved (`Unmoved`) or the whole tree has and the
rows fit once they are rewritten (`HasMoved`). `KnowsInv` says at which of these
stages the handler in progress is, `SettlesInv` how far a mount has come, and
that rows without a file belong to the handler in progress or are still on
reconcile's list. Three facts carry the steps. rename(2) moves a tree of
directories to a tree, since nothing exists without a directory above it and a
directory does not move into itself (`MovedTree`). What LIKE matches is then
below the directory (`LikeIsBelow`), so that the UPDATE rewrites the rows of
exactly the files that moved (`MovedRows`) and no two rows meet in one place
(`PlacesApart`). And the UPDATE, repeated by a reconciliation that was killed
after it, changes nothing (`RenamedTwice`). Between renames all follows from
`Steady`, proved once for the steps of all other handlers.

*Functions* (`FadeDataProofs`). Each property is first proved of every input
(`FaithfulForAll`, `ConsistentForAll`, `TotalForAll`, `RenamesForAll`, ...), for
paths, rules and names of any length and integers of any width, and then of the
calls of `MCData`. `LargestUnit` shows which unit `format_duration` takes.
`SeenForward` shows that a row is past "alive" once `expire_due` has run over
it. `LikeBelow` shows that every name matches itself as a pattern, wildcards
included. That is why rows below a renamed directory are never missed, and why
the only errors are the start of the suffix and rows that are not below.

*Refinement* (`FadeRefinesProofs`). Under these invariants every action is a
step of `FadeRetention` or leaves all it sees unchanged: the clock is `Tick`,
`CreateInsert` is `Create`, `CreateOpen` is `Fill`, every `expire_due` together
with the end or the turn of its request is `Settle`, the removals are `Remove`
and `Reclaim`, the marks `GiveUp` and the publication `HandOut`. The readings of
`create` and `recover` are stutters. `Create` asks for a deadline that lies
ahead, and its instants come from the earlier reading: by `PromptRequests` the
clock has gone on by no more than the recovery window when the row is inserted.
Its expiry may be behind by then.

*Numbers and listings* (`FadeInodesProofs`). `TablesInv`: the numbers in the
tables lie below the next one, the root's stays the root's, and `TablesAgree`
and `NumbersResolve` hold together, since a rename that moves one table needs
the other. Any order in which the HashMap yields the paths is covered.
`ListingInv` follows a listing in progress: the names that nothing before them
disturbed are at the place their rank in the directory gives, and the offset
has passed exactly those places.

*The log* (`FadeAuditProofs`). `AuditInv` says who still owes a line and what
holds meanwhile: of an alive row nobody has or owes `file_expired`; at most one
process owes it, and then the log does not have it; the same for
`file_created`, except that `create` undoes a file whose append failed though the
log may have its line; a process that has yet to mark a row has not written
`file_deleted` for it; the recoveries logged and those about to be logged
together do not exceed the exports. `CompleteInv` says that, as long as nothing
was lost, each change of a row has its line or somebody who owes it. Each step
is classified by what it does to the bag of a file's lines (`Counts`,
`Announces`), and each part of `AuditInv` is then proved per class.

### Only model-checked

- `Reclaimed`, which is liveness under fairness.
- What `Fade` does with renames and reapers together, and with a faulty store
  while renames run, beyond the theorems without conditions and
  `ExportsAreInWindow`. `NeverRefused` and `RenamesSettled` are false there.
- The five disagreements, which are TLC's traces.

The induction theorems of the library take an operator as a parameter and cannot
be used. Induction is over a set of counterexamples instead: of a set of numbers
there is a least one (`Least`, from the well-foundedness of `<`), and the step
before it is none. `Recursion` builds the function a recursive definition asks
for in this way, which is how `RelativePath`, `Bytes` and `Like` are unrolled.
Only definitions that recurse as functions over numbers can be treated like
this, and `RelativePath` and `Like` are written so.

## Not modelled

- File contents, sizes and modes, and the columns only output reads.
- `runtime_state`: `record_reaper_run` writes three keys in three statements
  that only `fade status` reads back.
- What the commands print, TOML syntax, glob matching (external: `Matches`).
- `mount2` failing after reconcile, and loss of data by the operating system
  below a completed call.
- A second mount of the same directory. No lock prevents it, and few of the
  properties would hold: its reconcile runs among the first one's requests.

## Plan

1. *Done*: the core, the data modules, handler state, the audit log, the
   abstract specification.
2. *Done*: types, lifecycles, tracking, retention windows, the refinement, the
   inode tables, the audit log, renames with their crashes and reconciliation,
   and the functions, proved.
3. Open: what holds of renames beside a reaper. A pass would have to be kept
   from rows that a rename moves; the code has no such rule, so a theorem needs a
   condition on what a pass holds when a directory is renamed.
4. Open: `runtime_state`, and a second mount of one directory.
