--------------------------- MODULE FadeRefinesProofs ---------------------------
(***************************************************************************)
(* The proof that Fade implements FadeRetention, step by step: every step  *)
(* of an actor is a step of the abstract specification or changes nothing  *)
(* of what it sees.                                                        *)
(***************************************************************************)
EXTENDS FadeFilesProofs, FadeRefines

------------------------------------------------------------------------------
(* What FadeRetention sees of a state *)

Lives == [id \in Ids |-> Life(id)]
Making == InHand({"create_open", "create_attr"})
Doomed == InHand({"create_remove", "unlink_file"})

\* The rows of S, all due, are marked expired.
Hides(S) ==
    /\ S \subseteq Due(files, clock)
    /\ files' = [id \in Ids |-> IF id \in S THEN [files[id] EXCEPT !.state = "expired"]
                                ELSE files[id]]

\* Steps that leave an argument of the mapping alone leave its value alone.
LEMMA FrameStep ==
    /\ UNCHANGED files => Lives' = Lives
    /\ UNCHANGED disk => Kept' = Kept
    /\ UNCHANGED fuse => Making' = Making /\ Doomed' = Doomed
    /\ UNCHANGED exports => HandedOut' = HandedOut
BY DEF Lives, Life, Kept, BytesOf, Making, Doomed, InHand, HandedOut

\* A step that only hides files that are due, with the end of a request or
\* with a request's turn to the removal of an alive file, is a Settle.
LEMMA SettleStep ==
    ASSUME TypeOK, NEW S, Hides(S), UNCHANGED clock, Kept' = Kept, HandedOut' = HandedOut,
           \/ Making' = Making /\ Doomed' = Doomed
           \/ Making' = None /\ Doomed' \in {None, Making}
           \/ /\ Making' = None /\ Making = None
              /\ \E id \in Ids : Doomed' = id /\ files'[id].state = "alive"
    PROVE  Abstract!Settle
<1>t. files \in [Ids -> Row]
  BY DEF TypeOK, StoreTypeOK
<1>1. S \in SUBSET {id \in Ids : /\ Lives[id].state = "alive"
                                 /\ Lives[id].expires_at # Forever
                                 /\ Lives[id].expires_at <= clock}
  BY DEF Hides, Due, Lives, Life
<1>2. Lives' = [id \in Ids |-> IF id \in S THEN [Lives[id] EXCEPT !.state = "expired"] ELSE Lives[id]]
  <2>1. ASSUME NEW id \in Ids
        PROVE  Life(id)' = IF id \in S THEN [Life(id) EXCEPT !.state = "expired"] ELSE Life(id)
    <3>1. CASE id \in S
      <4>1. /\ files'[id].state = "expired" /\ files'[id].expires_at = files[id].expires_at
            /\ files'[id].recovery_deadline = files[id].recovery_deadline
        BY <1>t, <3>1 DEF Hides, Row
      <4> QED BY <3>1, <4>1 DEF Life
    <3>2. CASE id \notin S
      BY <3>2 DEF Hides, Life
    <3> QED BY <3>1, <3>2
  <2> QED BY <2>1 DEF Lives
<1>3. \/ Making' = Making /\ Doomed' = Doomed
      \/ Making' = None /\ Doomed' \in {None, Making}
      \/ /\ Making' = None /\ Making = None
         /\ Doomed' \in {id \in Ids : Lives'[id].state = "alive"}
  BY DEF Lives, Life
<1> QED
  BY <1>1, <1>2, <1>3 DEF Abstract!Settle, Abstract!Hide, Abstract!Passed, Lives, Making, Doomed

\* The INSERT of create is a Create: the request has not lasted so long that the
\* deadline it computed has passed.
LEMMA CreateStep ==
    ASSUME PromptRequests, TypeOK, Readings, NEW id \in Ids, Given(id)
    PROVE  Abstract!Create(id)
<1> DEFINE expiry == files'[id].expires_at
           deadline == files'[id].recovery_deadline
<1>t. /\ clock \in Nat /\ RecoveryWindow \in Nat /\ MaxStall \in Nat /\ Forever \notin Nat
      /\ fuse.since \in Nat /\ files \in [Ids -> Row]
  BY StoreAssumption, FadeAssumption DEF TypeOK, StoreTypeOK, FuseTypeOK, HandlerTypeOK
<1>1. /\ files'[id].state = "alive"
      /\ fuse.pc = "create_insert" /\ fuse'.pc = "create_open" /\ fuse'.id = id
      /\ deadline # Forever =>
            expiry \in Nat /\ fuse.since < expiry /\ deadline = expiry + RecoveryWindow
      /\ deadline = Forever => expiry = Forever
      /\ \A i \in Ids \ {id} : files'[i] = files[i]
      /\ UNCHANGED <<clock, disk, exports>>
  BY GivenRow
<1>2. Lives[id].state = "none" /\ Lives'[id].expires_at = expiry /\ Lives'[id].deadline = deadline
  BY DEF Given, Lives, Life
<1>3. Lives' = [Lives EXCEPT ![id] = [state |-> "alive", expires_at |-> expiry,
                                      deadline |-> deadline]]
  BY <1>1 DEF Lives, Life
<1>4. IF expiry = Forever THEN deadline = Forever ELSE expiry <= deadline /\ clock < deadline
  <2>1. clock <= fuse.since + MaxStall /\ MaxStall <= RecoveryWindow
    BY <1>1 DEF Readings, PromptRequests
  <2> HIDE DEF expiry, deadline
  <2> QED BY <1>t, <1>1, <2>1
<1>5. Making' = id /\ Doomed' = Doomed /\ Kept' = Kept /\ HandedOut' = HandedOut
  BY <1>1, FrameStep DEF Making, Doomed, InHand
<1>6. \E e, d \in {Lives'[id].expires_at, Lives'[id].deadline} :
        /\ Lives' = [Lives EXCEPT ![id] = [state |-> "alive", expires_at |-> e, deadline |-> d]]
        /\ IF e = Forever THEN d = Forever ELSE e <= d /\ clock < d
  BY <1>2, <1>3, <1>4
<1> QED
  BY <1>1, <1>2, <1>5, <1>6 DEF Abstract!Create, Lives, Making, Doomed

\* An active row that ends without bytes, outside the hands of create, is
\* given up.
LEMMA GiveUpStep ==
    ASSUME TypeOK, NEW id \in Active(files), ~BytesOf(disk, id), Making # id,
           files' = [files EXCEPT ![id].state = "deleted"], UNCHANGED <<clock, disk, exports>>,
           Making' = Making, Doomed' = Doomed
    PROVE  Abstract!GiveUp(id)
<1>t. files \in [Ids -> Row] /\ id \in Ids
  BY DEF TypeOK, StoreTypeOK, Active
<1>1. Lives' = [Lives EXCEPT ![id].state = "deleted"]
  <2>1. files'[id].state = "deleted" /\ files'[id].expires_at = files[id].expires_at
        /\ files'[id].recovery_deadline = files[id].recovery_deadline
    BY <1>t DEF Row
  <2>2. Life(id)' = [Life(id) EXCEPT !.state = "deleted"]
    BY <2>1 DEF Life
  <2>3. \A i \in Ids \ {id} : Life(i)' = Life(i)
    BY <1>t DEF Life
  <2> QED BY <1>t, <2>2, <2>3 DEF Lives
<1>2. Lives[id].state \in {"alive", "expired"}
  BY DEF Lives, Life, Active
<1>3. id \notin Kept /\ Kept' = Kept /\ HandedOut' = HandedOut
  BY FrameStep DEF Kept
<1> QED BY <1>1, <1>2, <1>3 DEF Abstract!GiveUp, Lives, Making, Doomed

\* The publication of a recovery is a HandOut.
LEMMA HandOutStep ==
    ASSUME TypeOK, NEW c \in Recoverers, RecoverPublish(c), UNCHANGED fuse,
           Readings, Asked(c), Opened(c)
    PROVE  \E e \in HandedOut' : Abstract!HandOut(e.id, e.at)
<1> DEFINE id == recover[c].id
           e == [id |-> id, at |-> recover[c].now]
<1>1. recover[c].pc = "publish" /\ id \in Ids /\ recover[c].bytes = id
  BY DEF RecoverPublish, TypeOK, RecoverTypeOK, Opened
<1>2. /\ files[id].state \in {"expired", "deleted"}
      /\ files[id].expires_at # Forever /\ files[id].expires_at <= clock
      /\ recover[c].now < files[id].recovery_deadline /\ recover[c].now <= clock
  BY <1>1 DEF Asked, Readings
<1>3. exports' = exports \cup {[id |-> id, bytes |-> id, at |-> recover[c].now]}
  BY <1>1 DEF RecoverPublish
<1>4. HandedOut' = HandedOut \cup {e}
  <2> DEFINE x == [id |-> id, bytes |-> id, at |-> recover[c].now]
             Shown(y) == [id |-> y.bytes, at |-> y.at]
  <2>1. Shown(x) = e
    OBVIOUS
  <2>2. {Shown(y) : y \in exports \cup {x}} = {Shown(y) : y \in exports} \cup {Shown(x)}
    OBVIOUS
  <2> QED BY <1>3, <2>1, <2>2 DEF HandedOut
<1>5. UNCHANGED <<clock, Lives, Kept, Making, Doomed>>
  BY FrameStep DEF RecoverPublish, storeVars
<1>6. /\ Lives[id].state = files[id].state /\ Lives[id].expires_at = files[id].expires_at
      /\ Lives[id].deadline = files[id].recovery_deadline
  BY <1>1 DEF Lives, Life
<1>7. e.id = id /\ e.at = recover[c].now /\ e \in HandedOut'
  BY <1>4
<1>8. Abstract!HandOut(id, recover[c].now)
  BY <1>2, <1>4, <1>5, <1>6 DEF Abstract!HandOut, Abstract!Passed, Lives, Making, Doomed
<1> QED BY <1>7, <1>8

\* The open of create makes bytes for the row in hand, or fails.
LEMMA OpenIsFill ==
    ASSUME TypeOK, CreateOpen, UNCHANGED exports
    PROVE  Abstract!Fill \/ Abstract!Settle
<1>t. /\ HandlerTypeOK /\ disk \in [Paths -> Ids \cup {None, Directory}] /\ None \notin Ids
      /\ fuse.pc = "create_open" /\ fuse.path \in Paths /\ fuse.id \in Ids
  BY StoreAssumption DEF TypeOK, FuseTypeOK, StoreTypeOK, CreateOpen, HandlerTypeOK
<1>f. UNCHANGED <<clock, Lives, HandedOut>> /\ Making = fuse.id /\ Doomed = None
  BY <1>t, FrameStep DEF CreateOpen, Making, Doomed, InHand
<1>1. CASE Goto("create_attr") /\ disk[fuse.path] = None
           /\ disk' = [disk EXCEPT ![fuse.path] = fuse.id]
  <2>1. fuse'.pc = "create_attr" /\ fuse'.id = fuse.id
    BY <1>t, <1>1 DEF Goto, HandlerTypeOK
  <2>2. Making' = fuse.id /\ Doomed' = None
    BY <2>1 DEF Making, Doomed, InHand
  <2>3. Kept' = Kept \cup {fuse.id}
    BY <1>t, <1>1 DEF Kept, BytesOf
  <2> QED BY <1>t, <1>f, <2>2, <2>3 DEF Abstract!Fill, Lives, Making, Doomed
<1>2. CASE Goto("create_undo") /\ disk' = disk
  <2>1. fuse'.pc = "create_undo"
    BY <1>t, <1>2 DEF Goto, HandlerTypeOK
  <2>2. Making' = None /\ Doomed' = None /\ Kept' = Kept
    BY <1>2, <2>1, FrameStep DEF Making, Doomed, InHand
  <2>3. Hides({})
    BY <1>t DEF Hides, CreateOpen, TypeOK, StoreTypeOK
  <2> QED BY <1>f, <2>2, <2>3, SettleStep
<1> QED BY <1>1, <1>2 DEF CreateOpen

\* The file of a handler that removes its own is gone, and no other.
LEMMA RemovesIsRemove ==
    ASSUME NoRenames, TypeOK, TrackedInv, Removes, UNCHANGED exports
    PROVE  Abstract!Remove
<1>t. /\ HandlerTypeOK /\ disk \in [Paths -> Ids \cup {None, Directory}] /\ None \notin Ids
      /\ fuse.pc \in {"create_remove", "unlink_file"} /\ fuse.path \in Paths /\ fuse.pc \in RowPcs
  BY StoreAssumption
  DEF TypeOK, FuseTypeOK, StoreTypeOK, Removes, CreateRemove, UnlinkFile, HandlerTypeOK, RowPcs
<1>f. UNCHANGED <<clock, Lives, HandedOut>> /\ Making = None /\ Doomed = fuse.id
  BY <1>t, FrameStep DEF Removes, Making, Doomed, InHand
<1>1. fuse'.pc \in {"create_undo", "unlink_mark", "idle"}
  <2>1. \E pc \in {"create_undo", "unlink_mark"} : Goto(pc) \/ Reply
    BY DEF Removes, CreateRemove, UnlinkFile
  <2> QED BY <1>t, <2>1 DEF Goto, Reply, FuseIdle, HandlerTypeOK
<1>2. Making' = None /\ Doomed' = None
  BY <1>1 DEF Making, Doomed, InHand
<1>3. disk' = RemoveFile(disk, fuse.path)
  BY DEF Removes, CreateRemove, UnlinkFile
<1>4. ASSUME NEW q \in Paths, disk[q] = fuse.id, fuse.id \in Ids PROVE q = fuse.path
  BY <1>t, <1>4, BytesAt DEF TrackedInv, HandlerAhead
<1>5. disk[fuse.path] \in Ids => disk[fuse.path] = fuse.id
  BY RemovesItsOwn
<1>6. Kept' = Kept \ {fuse.id}
  BY <1>t, <1>3, <1>4, <1>5 DEF Kept, BytesOf, RemoveFile
<1> QED BY <1>f, <1>2, <1>6 DEF Abstract!Remove, Lives, Making, Doomed

\* The file a pass removes is past its deadline, and the one it selected.
LEMMA TakesIsReclaim ==
    ASSUME NoRenames, TypeOK, TrackedInv, PassOwns, NEW r \in Reapers, NEW item \in Item,
           Takes(r, item)
    PROVE  Abstract!Reclaim(item.id)
<1>t. /\ disk \in [Paths -> Ids \cup {None, Directory}] /\ None \notin Ids
      /\ item.id \in Ids /\ item \in reaper[r].queue
      /\ clock \in Nat /\ reaper[r].now \in Nat /\ files[item.id].recovery_deadline \in Instants
  BY StoreAssumption DEF TypeOK, StoreTypeOK, ReaperTypeOK, Pass, Item, Takes, Row
<1>f. UNCHANGED <<clock, Lives, HandedOut, Making, Doomed>>
  BY FrameStep DEF Takes
<1>1. files[item.id].recovery_deadline # Forever /\ files[item.id].recovery_deadline <= clock
  <2>1. /\ files[item.id].recovery_deadline # Forever
        /\ files[item.id].recovery_deadline <= reaper[r].now
        /\ reaper[r].now <= clock
    BY <1>t DEF TrackedInv, QueueDue, Readings
  <2> QED BY <1>t, <2>1 DEF Instants
<1>2. files[item.id].path = item.path
  BY <1>t DEF TrackedInv, PassSees, Work
<1>3. \A q \in Paths : disk[q] = item.id => q = item.path
  BY <1>t, <1>2, BytesAt DEF TrackedInv
<1>4. item.path \in Paths /\ disk[item.path] \in Ids => disk[item.path] = item.id
  BY TakesItsOwn
<1>5. Kept' = Kept \ {item.id}
  BY <1>t, <1>3, <1>4 DEF Takes, Kept, BytesOf, RemoveFile
<1>6. Lives[item.id].deadline = files[item.id].recovery_deadline
  BY <1>t DEF Lives, Life
<1> QED
  BY <1>f, <1>1, <1>5, <1>6 DEF Abstract!Reclaim, Abstract!Passed, Lives, Making, Doomed

------------------------------------------------------------------------------
(* Every step *)

\* A step of the abstract specification, or none.
Refined == Abstract!Next \/ UNCHANGED Abstract!retentionVars

\* A step that moves no file, no reading of the clock and no export is none.
LEMMA NoStep ==
    ASSUME UNCHANGED <<clock, files, exports>>, Kept' = Kept, Making' = Making, Doomed' = Doomed
    PROVE  Refined
BY FrameStep DEF Refined, Abstract!retentionVars, Lives, Making, Doomed

\* expire_due at a reading that is not ahead hides rows that are due.
LEMMA ExpireHides ==
    ASSUME TypeOK, NEW now \in Nat, now <= clock, files' = ExpireDue(files, now)
    PROVE  Hides(Due(files, now))
<1>1. clock \in Nat /\ \A id \in Ids : files[id].expires_at # Forever => files[id].expires_at \in Nat
  BY DEF TypeOK, StoreTypeOK, Row, Instants
<1>2. Due(files, now) \subseteq Due(files, clock)
  BY <1>1 DEF Due
<1> QED BY <1>2 DEF Hides, ExpireDue

\* A step of which FadeRetention sees no more than expire_due.
LEMMA ExpireStep ==
    ASSUME TypeOK, NEW now \in Nat, now <= clock, files' = ExpireDue(files, now),
           UNCHANGED <<clock, disk, fuse, exports>>
    PROVE  Refined
<1>1. Kept' = Kept /\ HandedOut' = HandedOut /\ Making' = Making /\ Doomed' = Doomed
  BY FrameStep
<1> QED BY <1>1, ExpireHides, SettleStep DEF Refined, Abstract!Next

\* A row that ends is given up: the handler, the pass or the reconciliation
\* that ends it finds its bytes gone.
LEMMA EndStep ==
    ASSUME NoRenames, TypeOK, TrackedInv, [Next]_vars, NEW id \in Ids, Ends(id), Making # id,
           files' = [files EXCEPT ![id].state = "deleted"], files[id].state # "none",
           UNCHANGED <<clock, exports>>, Making' = Making, Doomed' = Doomed
    PROVE  Refined
<1>1. ~BytesOf(disk, id) /\ UNCHANGED disk
  BY EndsEmpty
<1>2. CASE files[id].state = "deleted"
  <2>1. files[id] \in Row /\ files \in [Ids -> Row]
    BY DEF TypeOK, StoreTypeOK
  <2>2. files' = files
    BY <1>2, <2>1 DEF Row
  <2> QED BY <1>1, <2>2, NoStep, FrameStep
<1>3. CASE files[id].state # "deleted"
  <2>1. id \in Active(files)
    BY <1>3 DEF Active, TypeOK, StoreTypeOK, Row
  <2>2. Abstract!GiveUp(id)
    BY <1>1, <2>1, GiveUpStep
  <2> QED BY <2>2 DEF Refined, Abstract!Next
<1> QED BY <1>2, <1>3

\* mkdir, rmdir and the folders of a mount touch no file.
LEMMA DirectoriesKeep ==
    ASSUME TypeOK, (\E p \in Paths : Mkdir(p) \/ Rmdir(p)) \/ MountStart
    PROVE  Kept' = Kept
<1>t. /\ disk \in [Paths -> Ids \cup {None, Directory}]
      /\ None \notin Ids /\ Directory \notin Ids
  BY StoreAssumption DEF TypeOK, StoreTypeOK
<1>1. \A q \in Paths, id \in Ids : disk'[q] = id <=> disk[q] = id
  BY <1>t DEF Mkdir, Rmdir, MountStart
<1> QED BY <1>1 DEF Kept, BytesOf

\* A request arrives.
LEMMA ServeRefined ==
    ASSUME NoRenames, TypeOK, Serve
    PROVE  Refined
<1>t. files \in [Ids -> Row] /\ clock \in Nat /\ clock <= clock
  BY DEF TypeOK, StoreTypeOK
<1>i. /\ UNCHANGED <<clock, exports>> /\ (fuse.pc = "idle" => Making = None /\ Doomed = None)
      /\ HandedOut' = HandedOut
  BY FrameStep DEF Serve, FuseRequest, FuseAccess, CreateStart, OpenCheck, UnlinkCheck, Mkdir, Rmdir,
     RenameStart, Release, storeVars, Making, Doomed, InHand
<1>1. CASE FuseAccess
  BY <1>t, <1>i, <1>1, ExpireStep DEF FuseAccess
<1>2. ASSUME NEW p \in Paths, CreateStart(p) PROVE Refined
  <2>1. fuse.pc = "idle" /\ fuse'.pc = "create_insert" /\ UNCHANGED <<files, disk>>
    BY <1>2 DEF CreateStart, Begin, storeVars
  <2>2. Making' = Making /\ Doomed' = Doomed
    BY <1>i, <2>1 DEF Making, Doomed, InHand
  <2> QED BY <1>i, <2>1, <2>2, FrameStep, NoStep
<1>3. ASSUME NEW p \in Paths, OpenCheck(p) PROVE Refined
  <2>1. fuse.pc = "idle" /\ fuse'.pc = "open_file" /\ UNCHANGED disk
    BY <1>3 DEF OpenCheck, Begin
  <2>2. Making' = Making /\ Doomed' = Doomed /\ Kept' = Kept
    BY <1>i, <2>1, FrameStep DEF Making, Doomed, InHand
  <2>3. Hides(Due(files, clock))
    BY <1>t, <1>3, ExpireHides DEF OpenCheck
  <2> QED BY <1>i, <2>2, <2>3, SettleStep DEF Refined, Abstract!Next
<1>4. ASSUME NEW p \in Paths, UnlinkCheck(p) PROVE Refined
  <2>1. PICK id \in VisibleFileRecord(p) :
          fuse.pc = "idle" /\ fuse'.pc = "unlink_file" /\ fuse'.id = id /\ UNCHANGED disk
    BY <1>4 DEF UnlinkCheck, Begin
  <2>2. id \in Ids /\ files'[id].state = "alive"
    BY <1>4 DEF UnlinkCheck, VisibleFileRecord, AliveAt, ActiveAt, Active
  <2>3. Making' = None /\ Making = None /\ Doomed' = id /\ Kept' = Kept
    BY <1>i, <2>1, FrameStep DEF Making, Doomed, InHand
  <2>4. Hides(Due(files, clock))
    BY <1>t, <1>4, ExpireHides DEF UnlinkCheck
  <2> QED BY <1>i, <2>2, <2>3, <2>4, SettleStep DEF Refined, Abstract!Next
<1>5. ASSUME NEW p \in Paths, Mkdir(p) \/ Rmdir(p) PROVE Refined
  <2>1. UNCHANGED <<files, fuse>>
    BY <1>5 DEF Mkdir, Rmdir, fuseVars
  <2> QED BY <1>i, <1>5, <2>1, DirectoriesKeep, FrameStep, NoStep
<1>6. ASSUME NEW h, Release(h) PROVE Refined
  BY <1>i, <1>6, FrameStep, NoStep DEF Release, storeVars
<1> QED
  BY <1>1, <1>2, <1>3, <1>4, <1>5, <1>6 DEF Serve, FuseRequest, NoRenames

\* The handler in progress goes on.
LEMMA HandleRefined ==
    ASSUME NoRenames, PromptRequests, TypeOK, TrackedInv, Handle
    PROVE  Refined
<1> USE DEF TrackedInv
<1>t. /\ files \in [Ids -> Row] /\ clock \in Nat /\ clock <= clock /\ HandlerTypeOK
      /\ UNCHANGED <<clock, exports>> /\ HandedOut' = HandedOut /\ [Next]_vars
      /\ None \notin Ids
  <2>1. UNCHANGED clock
    BY DEF Handle, FuseStep, CreateInsert, CreateOpen, CreateAttr, CreateRemove, CreateUndo, OpenFile,
       UnlinkFile, UnlinkMark, RenameFs, RenameCancel, RenameStore, RenameComplete, storeVars
  <2>2. UNCHANGED exports /\ Next
    BY DEF Handle, Next
  <2> QED
    BY <2>1, <2>2, FrameStep, StoreAssumption DEF TypeOK, StoreTypeOK, FuseTypeOK
<1>0. CASE CreateInsert
  <2>1. ASSUME NEW id \in Ids, Given(id) PROVE Refined
    BY <2>1, CreateStep DEF Refined, Abstract!Next
  <2>2. CASE UNCHANGED <<files, disk>> /\ fuse'.pc = "idle" /\ fuse.pc = "create_insert"
    <3>1. Making' = Making /\ Doomed' = Doomed
      BY <2>2 DEF Making, Doomed, InHand
    <3> QED BY <1>t, <2>2, <3>1, FrameStep, NoStep
  <2>3. (\E id \in Ids : Given(id)) \/ (UNCHANGED <<files, disk>> /\ Reply /\ fuse.pc = "create_insert")
    BY <1>0 DEF CreateInsert, Drawable, Given, Handle
  <2> QED BY <2>1, <2>2, <2>3 DEF Reply, FuseIdle
<1>1. CASE CreateOpen
  BY <1>t, <1>1, OpenIsFill DEF Refined, Abstract!Next
<1>2. CASE CreateAttr
  <2>1. Making = fuse.id /\ fuse.pc = "create_attr" /\ Kept' = Kept
    BY <1>2, FrameStep DEF CreateAttr, Making, InHand
  <2>2. \E S : Hides(S)
    <3>1. CASE files' = files
      <4>1. Hides({})
        BY <1>t, <3>1 DEF Hides
      <4> QED BY <4>1
    <3>2. CASE files' = ExpireDue(files, clock)
      BY <1>t, <3>2, ExpireHides
    <3> QED BY <1>2, <3>1, <3>2 DEF CreateAttr
  <2>3. \/ fuse'.pc = "idle"
        \/ fuse'.pc = "create_remove" /\ fuse'.id = fuse.id
    BY <1>t, <1>2 DEF CreateAttr, Goto, Reply, FuseIdle, HandlerTypeOK
  <2>4. Making' = None /\ Doomed' \in {None, Making}
    BY <2>1, <2>3 DEF Making, Doomed, InHand
  <2> QED BY <1>t, <2>1, <2>2, <2>4, SettleStep DEF Refined, Abstract!Next
<1>3. CASE CreateRemove \/ UnlinkFile
  <2>1. Removes
    BY <1>3 DEF Removes, Handle, CreateRemove, UnlinkFile
  <2> QED BY <1>t, <2>1, RemovesIsRemove DEF Refined, Abstract!Next
<1>4. CASE CreateUndo \/ UnlinkMark
  <2>1. /\ fuse.pc \in {"create_undo", "unlink_mark"} /\ fuse'.pc = "idle" /\ UNCHANGED disk
        /\ fuse.pc \in RowPcs
    BY <1>4 DEF CreateUndo, UnlinkMark, Reply, FuseIdle, RowPcs
  <2>2. Making' = Making /\ Doomed' = Doomed /\ Making = None
    BY <2>1 DEF Making, Doomed, InHand
  <2>3. CASE files' = files
    BY <1>t, <2>1, <2>2, <2>3, FrameStep, NoStep
  <2>4. CASE files' = MarkDeletedByPath(files, fuse.path) /\ ActiveAt(files, fuse.path) = {}
    <3>1. files' = files
      BY <1>t, <2>4 DEF MarkDeletedByPath
    <3> QED BY <2>3, <3>1
  <2>5. ASSUME files' = MarkDeletedByPath(files, fuse.path), NEW id \in ActiveAt(files, fuse.path)
        PROVE  Refined
    <3>1. id \in Ids /\ files[id].state # "none" /\ ActiveAt(files, fuse.path) = {id}
      BY <2>1, <2>5 DEF HandlerOwns, ActiveAt, Active
    <3>2. files' = [files EXCEPT ![id].state = "deleted"]
      BY <1>t, <2>5, <3>1 DEF MarkDeletedByPath
    <3>3. HandlerEnds(id)
      BY <1>4, <2>1 DEF HandlerEnds, Handle, CreateUndo, UnlinkMark
    <3>4. Ends(id)
      BY <3>1, <3>2, <3>3, <1>t DEF Ends
    <3> QED BY <1>t, <2>2, <3>1, <3>2, <3>4, EndStep
  <2> QED BY <1>4, <2>3, <2>4, <2>5 DEF CreateUndo, UnlinkMark
<1>5. CASE OpenFile
  <2>1. Making' = Making /\ Doomed' = Doomed
    BY <1>5 DEF OpenFile, Reply, FuseIdle, Making, Doomed, InHand
  <2> QED BY <1>t, <1>5, <2>1, FrameStep, NoStep DEF OpenFile, storeVars
<1>6. ~RenameFs /\ ~RenameCancel /\ ~RenameStore /\ ~RenameComplete
  BY <1>t DEF RenameFs, RenameCancel, RenameStore, RenameComplete, HandlerTypeOK, NoRenames
<1> QED BY <1>0, <1>1, <1>2, <1>3, <1>4, <1>5, <1>6 DEF Handle, FuseStep

\* The mount process reconciles.
LEMMA MountingRefined ==
    ASSUME NoRenames, TypeOK, TrackedInv, Mounting
    PROVE  Refined
<1> USE DEF TrackedInv
<1>t. /\ files \in [Ids -> Row] /\ clock \in Nat /\ clock <= clock
      /\ UNCHANGED <<clock, exports, fuse>> /\ [Next]_vars
  <2>1. UNCHANGED clock
    BY DEF Mounting, MountStep, MountStart, MountRename, MountComplete, MountList, MountMissing,
       MountFinish, storeVars
  <2> QED BY <2>1 DEF TypeOK, StoreTypeOK, Mounting, Next
<1>f. HandedOut' = HandedOut /\ Making' = Making /\ Doomed' = Doomed
  BY <1>t, FrameStep
<1>1. CASE MountStart
  <2>1. UNCHANGED files
    BY <1>1 DEF MountStart
  <2> QED BY <1>t, <1>f, <1>1, <2>1, DirectoriesKeep, NoStep
<1>2. CASE UNCHANGED <<files, disk>>
  BY <1>t, <1>f, <1>2, FrameStep, NoStep
<1>3. CASE MountMissing
  <2>1. PICK row \in mount.rows :
          files' = IF disk[row.path] = None THEN MarkDeleted(files, row.id) ELSE files
    BY <1>3 DEF MountMissing
  <2>2. mount.pc = "missing" /\ UNCHANGED disk /\ row.id \in Ids
    BY <1>3 DEF MountMissing, TypeOK, MountTypeOK
  <2>3. CASE disk[row.path] = None
    <3>1. files' = [files EXCEPT ![row.id].state = "deleted"] /\ files[row.id].state # "none"
      BY <2>1, <2>3 DEF MarkDeleted, MountSees
    <3>2. MountEnds(row.id)
      BY <1>3, <2>1, <2>2, <2>3 DEF MountEnds, Mounting, MountMissing
    <3>3. Ends(row.id)
      BY <1>t, <2>2, <3>1, <3>2 DEF Ends
    <3>4. Making # row.id
      <4>1. fuse.pc = "idle"
        BY <2>2 DEF HandlerSees
      <4> QED BY <2>2, <4>1, StoreAssumption DEF Making, InHand
    <3> QED BY <1>t, <1>f, <2>2, <3>1, <3>3, <3>4, EndStep
  <2> QED BY <1>2, <2>1, <2>2, <2>3
<1>4. CASE MountFinish
  BY <1>t, <1>2, <1>4, ExpireStep DEF MountFinish
<1>5. ~MountRename /\ ~MountComplete
  BY DEF MountRename, MountComplete, MountSees
<1> QED BY <1>1, <1>2, <1>3, <1>4, <1>5 DEF Mounting, MountStep, MountList, storeVars

\* A pass goes on.
LEMMA ReapRefined ==
    ASSUME NoRenames, TypeOK, TrackedInv, PassOwns, NEW r \in Reapers, Reap(r)
    PROVE  Refined
<1> USE DEF TrackedInv
<1>t. /\ files \in [Ids -> Row] /\ reaper[r] \in Pass
      /\ UNCHANGED <<clock, exports, fuse>> /\ HandedOut' = HandedOut /\ [Next]_vars
      /\ Making' = Making /\ Doomed' = Doomed
  BY FrameStep DEF TypeOK, StoreTypeOK, ReaperTypeOK, Reap, ReaperStep, ReaperScan, ReaperRemove,
     ReaperMark, Next
<1>1. CASE ReaperScan(r)
  <2>1. reaper[r].now \in Nat /\ reaper[r].now <= clock
    BY <1>t DEF Pass, Readings
  <2> QED BY <1>t, <1>1, <2>1, ExpireStep DEF ReaperScan
<1>2. CASE ReaperRemove(r)
  <2>1. PICK item \in reaper[r].queue : Takes(r, item) \/ UNCHANGED <<files, disk>>
    BY <1>2 DEF Reap, ReaperRemove, Earliest, Takes
  <2>2. CASE Takes(r, item)
    <3>1. item \in Item /\ item.id \in Ids
      BY <1>t DEF Pass, Item
    <3> QED BY <2>2, <3>1, TakesIsReclaim DEF Refined, Abstract!Next
  <2>3. CASE UNCHANGED <<files, disk>>
    BY <1>t, <2>3, FrameStep, NoStep
  <2> QED BY <2>1, <2>2, <2>3
<1>3. CASE ReaperMark(r)
  <2>1. PICK item \in reaper[r].cur : files' = MarkDeleted(files, item.id) \/ files' = files
    BY <1>3 DEF ReaperMark
  <2>2. UNCHANGED disk /\ item.id \in Ids /\ files[item.id].state # "none" /\ item \in Work(r)
    BY <1>t, <1>3 DEF ReaperMark, Pass, Item, QueueDue, Work
  <2>3. CASE files' = files
    BY <1>t, <2>2, <2>3, FrameStep, NoStep
  <2>4. CASE files' = MarkDeleted(files, item.id)
    <3>1. files' = [files EXCEPT ![item.id].state = "deleted"]
      BY <2>4 DEF MarkDeleted
    <3>2. ReaperEnds(item.id)
      BY <1>3 DEF ReaperEnds, Reap, ReaperMark
    <3>3. Ends(item.id)
      BY <1>t, <2>2, <3>1, <3>2 DEF Ends
    <3>4. Making # item.id
      BY <2>2, NotInHand, StoreAssumption DEF Making, InHand, RowPcs
    <3> QED BY <1>t, <2>2, <3>1, <3>3, <3>4, EndStep
  <2> QED BY <2>1, <2>3, <2>4
<1> QED BY <1>1, <1>2, <1>3 DEF Reap, ReaperStep

\* A recovery goes on.
LEMMA RecoverRefined ==
    ASSUME NoRenames, TypeOK, TrackedInv, WindowInv, ExportInv, NEW c \in Recoverers, Recovering(c)
    PROVE  Refined
<1>t. recover[c].now \in Nat /\ recover[c].now <= clock
  BY DEF TypeOK, RecoverTypeOK, WindowInv, Readings
<1>0. ASSUME NEW p \in Paths, RecoverStart(c, p) PROVE Refined
  BY <1>0, FrameStep, NoStep DEF Recovering, RecoverStart, storeVars
<1>1. CASE RecoverLookup(c)
  BY <1>t, <1>1, ExpireStep DEF Recovering, RecoverLookup
<1>2. CASE RecoverPublish(c)
  <2>1. Readings /\ Asked(c) /\ Opened(c) /\ UNCHANGED fuse
    BY DEF Recovering, WindowInv, ExportInv
  <2> QED BY <1>2, <2>1, HandOutStep DEF Refined, Abstract!Next
<1>3. CASE RecoverOpen(c) \/ RecoverVerify(c) \/ RecoverWindow(c) \/ RecoverKill(c)
  BY <1>3, FrameStep, NoStep DEF Recovering, RecoverOpen, RecoverVerify, RecoverWindow, RecoverKill,
     storeVars
<1> QED BY <1>0, <1>1, <1>2, <1>3 DEF Recovering, RecoverNext

\* Fade implements FadeRetention, the promises it makes about a file with no
\* word of paths, tables and processes, while nothing is renamed, nobody sets
\* the clock, no request outlasts the recovery window and the reaper thread of
\* the mount is the only reaper: every statement of every handler, reaper
\* pass, recovery, mount and crash is a step of it or none.
THEOREM RetentionImplemented ==
    ASSUME SteadyClock, NoRenames, PromptRequests, OneReaper
    PROVE  Spec => Retention
<1>1. Init => Abstract!Init
  BY StoreAssumption DEF Init, StoreInit, NoRow, FuseInit, FuseIdle, RecoverInit, Abstract!Init, Life,
     Kept, BytesOf, InHand, HandedOut
<1>2. TypeOK /\ TrackedInv /\ PassOwns /\ WindowInv /\ ExportInv /\ [Next]_vars
        => [Abstract!Next]_(Abstract!retentionVars)
  <2> SUFFICES ASSUME TypeOK, TrackedInv, PassOwns, WindowInv, ExportInv, [Next]_vars
               PROVE  Refined
    BY DEF Refined
  <2>1. CASE Tick
    <3>1. clock' = clock + 1 /\ UNCHANGED <<Lives, Kept, Making, Doomed, HandedOut>>
      BY <2>1, FrameStep DEF Tick
    <3> QED BY <3>1 DEF Refined, Abstract!Next, Abstract!Tick, Lives, Making, Doomed
  <2>2. ~ClockJump
    BY DEF ClockJump, SteadyClock
  <2>3. CASE UNCHANGED <<clock, files, disk, fuse, exports>>
    BY <2>3, FrameStep, NoStep
  <2>4. CASE Crash
    <3>1. /\ UNCHANGED <<clock, files, disk, exports>> /\ fuse'.pc = "idle"
          /\ files \in [Ids -> Row]
      BY <2>4 DEF Crash, FuseIdle, TypeOK, StoreTypeOK
    <3>2. Hides({}) /\ Kept' = Kept /\ HandedOut' = HandedOut /\ Making' = None /\ Doomed' = None
      BY <3>1, FrameStep DEF Hides, Making, Doomed, InHand
    <3> QED BY <3>1, <3>2, SettleStep DEF Refined, Abstract!Next
  <2>5. CASE Observe
    <3>1. clock \in Nat /\ clock <= clock
      BY DEF TypeOK, StoreTypeOK
    <3> QED BY <2>5, <3>1, ExpireStep DEF Observe
  <2>6. ASSUME NEW r \in Reapers, Wake(r) \/ Kill(r) PROVE Refined
    BY <2>3, <2>6 DEF Wake, ReaperWake, Kill, GcKill, storeVars
  <2>7. CASE Unmount \/ Join
    BY <2>3, <2>7 DEF Unmount, MountStop, Join, MountJoin, storeVars
  <2> QED
    BY <2>1, <2>2, <2>3, <2>4, <2>5, <2>6, <2>7, ServeRefined, HandleRefined, MountingRefined,
       ReapRefined, RecoverRefined DEF Next, vars
<1> QED
  BY <1>1, <1>2, InWindow, Exports, OnePass, Tracked, TypeCorrect, PTL DEF Spec, Retention, Abstract!Spec
=============================================================================
