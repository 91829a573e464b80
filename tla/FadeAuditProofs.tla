---------------------------- MODULE FadeAuditProofs ----------------------------
(***************************************************************************)
(* Proofs about FadeAudit, for any number of files, of reapers and of      *)
(* recoverers, any number of kills and failed appends.                     *)
(***************************************************************************)
EXTENDS FadeAudit, FiniteSetTheorems, TLAPS

------------------------------------------------------------------------------
(* Lines *)

CopiesOf(line, B) == IF BagIn(line, B) THEN B[line] ELSE 0

\* How often a process wrote that it deleted a file.
Copies(id, a) == CopiesOf(Line(a, "deleted"), log[id])

LogTyped ==
    /\ DOMAIN log = Ids
    /\ \A id \in Ids :
          /\ IsABag(log[id])
          /\ BagToSet(log[id]) \subseteq {Line(a, event) : a \in Actors, event \in Events}

\* What is counted in a bag is in it.
LEMMA BagCounts ==
    ASSUME NEW B, IsABag(B)
    PROVE  \A e : /\ CopiesOf(e, B) \in Nat
                  /\ e \in BagToSet(B) <=> CopiesOf(e, B) # 0
<1>1. \A e \in DOMAIN B : B[e] \in Nat /\ B[e] > 0
  BY DEF IsABag
<1> QED BY <1>1 DEF BagToSet, CopiesOf, BagIn

\* One more line in a bag.
With(B, x) == B (+) SetToBag({x})

\* It is counted once, and the others are as they were.
LEMMA BagAdded ==
    ASSUME NEW B, IsABag(B), NEW x
    PROVE  /\ IsABag(With(B, x))
           /\ BagToSet(With(B, x)) = BagToSet(B) \cup {x}
           /\ \A e : CopiesOf(e, With(B, x)) = IF e = x THEN CopiesOf(e, B) + 1 ELSE CopiesOf(e, B)
<1>1. \A e \in DOMAIN B : B[e] \in Nat /\ B[e] > 0
  BY DEF IsABag
<1>2. With(B, x) = [e \in DOMAIN B \cup {x} |-> (IF e \in DOMAIN B THEN B[e] ELSE 0) + (IF e = x THEN 1 ELSE 0)]
  <2>1. DOMAIN SetToBag({x}) = {x} /\ SetToBag({x})[x] = 1
    BY DEF SetToBag
  <2>2. With(B, x) = [e \in DOMAIN B \cup {x} |->
               (IF e \in DOMAIN B THEN B[e] ELSE 0) + (IF e \in {x} THEN SetToBag({x})[e] ELSE 0)]
    BY <2>1 DEF With, (+)
  <2> QED BY <2>1, <2>2
<1>3. DOMAIN With(B, x) = DOMAIN B \cup {x}
  BY <1>2
<1>4. \A e \in DOMAIN With(B, x) : With(B, x)[e] = (IF e \in DOMAIN B THEN B[e] ELSE 0) + (IF e = x THEN 1 ELSE 0)
  BY <1>2
<1>5. IsABag(With(B, x))
  <2>1. \A e \in DOMAIN With(B, x) : With(B, x)[e] \in Nat /\ With(B, x)[e] > 0
    BY <1>1, <1>3, <1>4
  <2> QED BY <1>2, <1>3, <2>1 DEF IsABag
<1>6. \A e : CopiesOf(e, With(B, x)) = IF e = x THEN CopiesOf(e, B) + 1 ELSE CopiesOf(e, B)
  BY <1>1, <1>3, <1>4 DEF BagToSet, CopiesOf, BagIn
<1>7. BagToSet(With(B, x)) = BagToSet(B) \cup {x}
  BY <1>3 DEF BagToSet
<1> QED BY <1>5, <1>6, <1>7

\* Counts are numbers, and a line counted is a line in the log.
LEMMA Counts ==
    ASSUME LogTyped, NEW id \in Ids
    PROVE  /\ \A event : Count(id, event) \in Nat
           /\ \A a : Copies(id, a) \in Nat
           /\ \A event \in Events \ {"deleted"} : Lines(id, event) # {} <=> Count(id, event) # 0
           /\ \A line \in Lines(id, "deleted") :
                 \E a \in Actors : line = Line(a, "deleted") /\ Copies(id, a) # 0
           /\ \A a : Copies(id, a) # 0 => Lines(id, "deleted") # {}
<1>1. /\ IsABag(log[id])
      /\ \A line \in BagToSet(log[id]) : \E a \in Actors, event \in Events : line = Line(a, event)
  BY DEF LogTyped
<1>2. \A e : /\ CopiesOf(e, log[id]) \in Nat
             /\ e \in BagToSet(log[id]) <=> CopiesOf(e, log[id]) # 0
  BY <1>1, BagCounts
<1>3. \A a, event : Line(a, event).event = event
  BY DEF Line
<1>4. ASSUME NEW event \in Events \ {"deleted"}
      PROVE  Lines(id, event) # {} <=> Count(id, event) # 0
  <2>1. \A a : Line(a, event) = Line(Nothing, event)
    BY DEF Line
  <2>2. \A line \in Lines(id, event) : line = Line(Nothing, event) /\ line \in BagToSet(log[id])
    BY <1>1, <1>3, <2>1 DEF Lines
  <2>3. Line(Nothing, event) \in BagToSet(log[id]) => Line(Nothing, event) \in Lines(id, event)
    BY <1>3 DEF Lines
  <2> QED BY <1>2, <2>2, <2>3 DEF Count, CopiesOf
<1>5. \A line \in Lines(id, "deleted") :
         \E a \in Actors : line = Line(a, "deleted") /\ Copies(id, a) # 0
  BY <1>1, <1>2, <1>3 DEF Lines, Copies
<1>6. \A a : Copies(id, a) # 0 => Lines(id, "deleted") # {}
  BY <1>2, <1>3 DEF Lines, Copies
<1> QED BY <1>2, <1>4, <1>5, <1>6 DEF Count, Copies, CopiesOf

\* No line, no change of the counts.
LEMMA NotWritten ==
    ASSUME log' = log
    PROVE  \A id : /\ \A event : Count(id, event)' = Count(id, event)
                   /\ \A a : Copies(id, a)' = Copies(id, a)
BY DEF Count, Copies

\* A line is written, whether its append returns or fails on the sync.
Says(a, event, id) == log' = Appended(a, event, id)

\* An append that fails before it writes.
Lost == log' = log /\ faults' # 0

\* An append does the one or the other.
LEMMA Appends ==
    ASSUME TypeOK, NEW a, NEW event, NEW id
    PROVE  /\ Write(a, event, id) => Says(a, event, id)
           /\ Fails(a, event, id) => faults' # 0 /\ (Says(a, event, id) \/ log' = log)
BY DEF TypeOK, Write, Fails, Fault, Says

\* A line is counted once, under its event and, for a deletion, its writer.
LEMMA Written ==
    ASSUME LogTyped, NEW a \in Actors, NEW event \in Events, NEW id \in Ids, Says(a, event, id)
    PROVE  /\ LogTyped'
           /\ \A i \in Ids, e \in Events \ {"deleted"} :
                 Count(i, e)' = Count(i, e) + (IF i = id /\ e = event THEN 1 ELSE 0)
           /\ \A i \in Ids, b \in Actors :
                 Copies(i, b)' = Copies(i, b) + (IF i = id /\ event = "deleted" /\ b = a THEN 1 ELSE 0)
<1>1. log' = [log EXCEPT ![id] = With(log[id], Line(a, event))]
  BY DEF Says, Appended, With
<1>2. /\ log'[id] = With(log[id], Line(a, event))
      /\ \A i \in Ids \ {id} : log'[i] = log[i]
      /\ DOMAIN log' = Ids
  BY <1>1 DEF LogTyped
<1>3. IsABag(log[id])
  BY DEF LogTyped
<1>4. /\ IsABag(log'[id]) /\ BagToSet(log'[id]) = BagToSet(log[id]) \cup {Line(a, event)}
      /\ \A e : /\ CopiesOf(e, log[id]) \in Nat
                /\ CopiesOf(e, log'[id]) = CopiesOf(e, log[id]) + (IF e = Line(a, event) THEN 1 ELSE 0)
  <2>1. LET C == With(log[id], Line(a, event))
        IN  /\ IsABag(C) /\ BagToSet(C) = BagToSet(log[id]) \cup {Line(a, event)}
            /\ \A e : CopiesOf(e, C) = IF e = Line(a, event) THEN CopiesOf(e, log[id]) + 1
                                      ELSE CopiesOf(e, log[id])
    BY <1>3, BagAdded
  <2>2. \A e : CopiesOf(e, log[id]) \in Nat
    BY <1>3, BagCounts
  <2> QED BY <1>2, <2>1, <2>2
<1>5. LogTyped'
  <2>1. ASSUME NEW i \in Ids
        PROVE  /\ IsABag(log'[i])
               /\ BagToSet(log'[i]) \subseteq {Line(b, e) : b \in Actors, e \in Events}
    <3>1. CASE i = id
      BY <1>4, <3>1 DEF LogTyped
    <3>2. CASE i # id
      BY <1>2, <3>2 DEF LogTyped
    <3> QED BY <3>1, <3>2
  <2> QED BY <1>2, <2>1 DEF LogTyped
<1>6. \A i \in Ids : \A e : CopiesOf(e, log[i]) \in Nat
  BY BagCounts DEF LogTyped
<1>7. \A e \in Events \ {"deleted"} : Line(Nothing, e) = Line(a, event) <=> e = event
  BY DEF Line, Events
<1>8. \A b \in Actors : Line(b, "deleted") = Line(a, event) <=> event = "deleted" /\ b = a
  BY DEF Line
<1>9. \A i \in Ids, e \in Events \ {"deleted"} :
         Count(i, e)' = Count(i, e) + (IF i = id /\ e = event THEN 1 ELSE 0)
  <2> SUFFICES ASSUME NEW i \in Ids, NEW e \in Events \ {"deleted"}
               PROVE  CopiesOf(Line(Nothing, e), log'[i])
                        = CopiesOf(Line(Nothing, e), log[i]) + (IF i = id /\ e = event THEN 1 ELSE 0)
    BY DEF Count, CopiesOf
  <2> QED BY <1>2, <1>4, <1>6, <1>7
<1>10. \A i \in Ids, b \in Actors :
          Copies(i, b)' = Copies(i, b) + (IF i = id /\ event = "deleted" /\ b = a THEN 1 ELSE 0)
  <2> SUFFICES ASSUME NEW i \in Ids, NEW b \in Actors
               PROVE  CopiesOf(Line(b, "deleted"), log'[i])
                        = CopiesOf(Line(b, "deleted"), log[i])
                            + (IF i = id /\ event = "deleted" /\ b = a THEN 1 ELSE 0)
    BY DEF Copies
  <2> QED BY <1>2, <1>4, <1>6, <1>8
<1> QED BY <1>1, <1>5, <1>9, <1>10

\* Nothing is written, or one line about one of the events.
Announces(events) ==
    log' = log \/ \E a \in Actors, event \in events, id \in Ids : Says(a, event, id)

\* The lines of the other events are the ones there were.
LEMMA OtherLines ==
    ASSUME LogTyped, NEW events \in SUBSET Events, Announces(events)
    PROVE  /\ \A event \in Events \ ({"deleted"} \cup events) :
                 \A id \in Ids : Count(id, event)' = Count(id, event)
           /\ "deleted" \notin events =>
                 \A id \in Ids, a \in Actors : Copies(id, a)' = Copies(id, a)
<1>1. CASE log' = log
  BY <1>1, NotWritten
<1>2. ASSUME NEW a \in Actors, NEW e \in events, NEW i \in Ids, Says(a, e, i)
      PROVE  /\ \A event \in Events \ ({"deleted"} \cup events) :
                   \A id \in Ids : Count(id, event)' = Count(id, event)
             /\ "deleted" \notin events =>
                   \A id \in Ids, b \in Actors : Copies(id, b)' = Copies(id, b)
  <2>1. /\ \A j \in Ids, event \in Events \ {"deleted"} :
              Count(j, event)' = Count(j, event) + (IF j = i /\ event = e THEN 1 ELSE 0)
        /\ \A j \in Ids, b \in Actors :
              Copies(j, b)' = Copies(j, b) + (IF j = i /\ e = "deleted" /\ b = a THEN 1 ELSE 0)
    BY <1>2, Written
  <2>2. \A j \in Ids : (\A event : Count(j, event) \in Nat) /\ (\A b : Copies(j, b) \in Nat)
    BY Counts
  <2>3. ASSUME NEW event \in Events \ ({"deleted"} \cup events), NEW id \in Ids
        PROVE  Count(id, event)' = Count(id, event)
    BY <2>1, <2>2
  <2>4. ASSUME "deleted" \notin events, NEW id \in Ids, NEW b \in Actors
        PROVE  Copies(id, b)' = Copies(id, b)
    BY <2>1, <2>2, <2>4
  <2> QED BY <2>3, <2>4
<1> QED BY <1>1, <1>2 DEF Announces

------------------------------------------------------------------------------
(* The inductive invariant *)

\* Who has still to say that a file expired, ...
Owes(a, id) == job[a].pc = "lines" /\ id \in job[a].todo

\* ... that it was created, ...
Making(id) == job[Handler].op = "create" /\ job[Handler].id = id

\* ... that it was deleted, once it is, or has seen that it is ...
Taking(a, id) ==
    \/ job[a].op = "unlink" /\ job[a].id = id
    \/ /\ job[a].op = "pass" /\ job[a].pc \in {"remove", "mark", "append"}
       /\ id \in job[a].todo \/ (job[a].pc # "remove" /\ job[a].id = id)
Marks(a, id) == Taking(a, id) /\ job[a].pc = "append"  /\ job[a].id = id

\* ... and that it was recovered.
Publishing(id) == {c \in Recoverers : At(c, "recover", "append") /\ job[c].id = id}

JobsTyped ==
    \A a \in Actors :
        /\ job[a].op \in {"create", "unlink", "recover"} => job[a].id \in Ids
        /\ job[a].op = "pass" /\ job[a].pc \in {"mark", "append"} =>
              job[a].id \in Ids \ job[a].todo

\* Every row is expired once, and what one process took from the UPDATE no
\* other did.
ExpiredInv ==
    \A id \in Ids :
        /\ row[id] \in {"none", "alive"} =>
              Count(id, "expired") = 0 /\ \A a \in Actors : ~Owes(a, id)
        /\ \A a, b \in Actors : Owes(a, id) /\ Owes(b, id) => a = b
        /\ (\E a \in Actors : Owes(a, id)) => Count(id, "expired") = 0
        /\ Count(id, "expired") <= 1

CreatedInv ==
    \A id \in Ids :
        /\ row[id] = "none" => Count(id, "created") = 0 /\ ~Making(id)
        /\ Making(id) /\ (job[Handler].pc # "undo" \/ faults = 0) => Count(id, "created") = 0
        /\ Count(id, "created") <= 1

DeletedInv ==
    \A id \in Ids, a \in Actors :
        /\ Copies(id, a) # 0 => row[id] = "deleted"
        /\ Taking(a, id) => Copies(id, a) = 0 /\ row[id] # "none"
        /\ Marks(a, id) => row[id] = "deleted"
        /\ Copies(id, a) <= 1

RecoveredInv ==
    \A id \in Ids :
        /\ IsFiniteSet(Publishing(id))
        /\ Count(id, "recovered") + Cardinality(Publishing(id)) <= published[id]

CompleteInv ==
    faults = 0 =>
        /\ ~up => \A id \in Ids : row[id] = "none"
        /\ \A id \in Ids :
              /\ row[id] = "alive" => Count(id, "created") # 0 \/ Making(id)
              /\ row[id] = "expired" => Count(id, "expired") # 0 \/ \E a \in Actors : Owes(a, id)
              /\ Count(id, "recovered") + Cardinality(Publishing(id)) = published[id]
              /\ row[id] = "deleted" /\ Count(id, "created") # 0 =>
                    \E a \in Actors : Copies(id, a) # 0 \/ Marks(a, id)

AuditInv ==
    /\ TypeOK
    /\ JobsTyped
    /\ ExpiredInv
    /\ CreatedInv
    /\ DeletedInv
    /\ RecoveredInv
    /\ CompleteInv

------------------------------------------------------------------------------
(* Types *)

\* A job that is finished, or goes on, leaves the other jobs alone.
LEMMA JobMoves ==
    ASSUME TypeOK, NEW a \in Actors
    PROVE  /\ Finish(a) => job' = [b \in Actors |-> IF b = a THEN Idle ELSE job[b]]
           /\ \A pc : Goto(a, pc) =>
                job' = [b \in Actors |-> IF b = a THEN [job[b] EXCEPT !.pc = pc] ELSE job[b]]
           /\ \A op, id : ExpireDue(a, op, id) =>
                job' = [b \in Actors |-> IF b = a
                          THEN [op |-> op, pc |-> "lines", id |-> id, todo |-> DueRows] ELSE job[b]]
BY DEF TypeOK, Finish, Goto, ExpireDue

Jobs ==
    [op : {"idle", "create", "unlink", "access", "pass", "recover"},
     pc : {"start", "open", "attr", "lines", "remove", "mark", "append", "undo"},
     id : Ids \cup {Nothing},
     todo : SUBSET Ids]

JobsOK == job \in [Actors -> Jobs] /\ JobsTyped

\* What a step leaves in the job of the process that takes it is a job.
LEMMA JobsStep ==
    ASSUME TypeOK, JobsTyped, Next
    PROVE  JobsOK'
<1>0. /\ job \in [Actors -> Jobs] /\ Idle \in Jobs /\ Handler \in Actors /\ Nothing \notin Ids
      /\ Reapers \subseteq Actors /\ Recoverers \subseteq Actors
      /\ Idle.op = "idle"
  BY AuditAssumption DEF TypeOK, Jobs, Idle, Actors
<1> DEFINE Good(j) == /\ j.op \in {"create", "unlink", "recover"} => j.id \in Ids
                      /\ j.op = "pass" /\ j.pc \in {"mark", "append"} => j.id \in Ids \ j.todo
<1>1. \A a \in Actors : Good(job[a])
  BY DEF JobsTyped
<1>2. ASSUME NEW a \in Actors, NEW j \in Jobs, Good(j),
             job' = [b \in Actors |-> IF b = a THEN j ELSE job[b]]
      PROVE  JobsOK'
  <2>1. job' \in [Actors -> Jobs]
    BY <1>0, <1>2
  <2>2. \A b \in Actors : Good(job'[b])
    BY <1>1, <1>2
  <2> QED BY <2>1, <2>2 DEF JobsOK, JobsTyped
<1>3. ASSUME job' = job PROVE JobsOK'
  BY <1>0, <1>1, <1>3 DEF JobsOK, JobsTyped
<1>4. ASSUME NEW a \in Actors, Finish(a) PROVE JobsOK'
  <2>1. job' = [b \in Actors |-> IF b = a THEN Idle ELSE job[b]]
    BY <1>4, JobMoves
  <2>2. Good(Idle)
    BY DEF Idle
  <2> QED BY <1>0, <1>2, <2>1, <2>2
<1>5. ASSUME NEW a \in Actors, NEW pc \in {"open", "attr", "remove", "mark", "append", "undo"}, Goto(a, pc),
             job[a].op = "pass" => pc = "remove" \/ job[a].pc \in {"mark", "append"}
      PROVE  JobsOK'
  <2>1. job' = [b \in Actors |-> IF b = a THEN [job[a] EXCEPT !.pc = pc] ELSE job[b]]
    <3>1. \A b \in Actors : b = a => [job[b] EXCEPT !.pc = pc] = [job[a] EXCEPT !.pc = pc]
      OBVIOUS
    <3> QED BY <1>5, <3>1, JobMoves
  <2>2. [job[a] EXCEPT !.pc = pc] \in Jobs /\ Good([job[a] EXCEPT !.pc = pc])
    BY <1>0, <1>1, <1>5 DEF Jobs
  <2> QED BY <1>2, <2>1, <2>2
<1>6. ASSUME NEW a \in Actors, NEW op \in {"create", "unlink", "access", "pass", "recover"},
             NEW id \in Ids \cup {Nothing}, op \in {"create", "unlink", "recover"} => id \in Ids,
             ExpireDue(a, op, id)
      PROVE  JobsOK'
  <2> DEFINE j == [op |-> op, pc |-> "lines", id |-> id, todo |-> DueRows]
  <2>1. job' = [b \in Actors |-> IF b = a THEN j ELSE job[b]]
    BY <1>6, JobMoves
  <2>2. DueRows \in SUBSET Ids
    BY DEF DueRows
  <2>3. j \in Jobs /\ Good(j)
    BY <1>6, <2>2 DEF Jobs
  <2> HIDE DEF j
  <2> QED BY <1>2, <2>1, <2>3
<1>7. ASSUME NEW a \in Actors, LogExpired(a) PROVE JobsOK'
  <2>1. CASE \E id \in job[a].todo : Write(a, "expired", id) /\ job' = [job EXCEPT ![a].todo = @ \ {id}]
    <3>1. PICK id : job' = [job EXCEPT ![a].todo = @ \ {id}]
      BY <2>1
    <3> DEFINE j == [job[a] EXCEPT !.todo = @ \ {id}]
    <3>2. job' = [b \in Actors |-> IF b = a THEN j ELSE job[b]]
      BY <1>0, <3>1
    <3>3. j \in Jobs /\ Good(j)
      BY <1>0, <1>1, <1>7 DEF Jobs, LogExpired
    <3> HIDE DEF j
    <3> QED BY <1>2, <3>2, <3>3
  <2>2. CASE job[a].op = "create" /\ Goto(a, "undo")
    BY <1>5, <2>2
  <2>3. CASE Finish(a)
    BY <1>4, <2>3
  <2> QED BY <1>7, <2>1, <2>2, <2>3 DEF LogExpired
<1>8. CASE Session
  <2>1. CASE Access
    BY <1>0, <1>6, <2>1 DEF Access
  <2>2. CASE AccessEnd \/ CreateUndo \/ UnlinkAppend
    BY <1>0, <1>4, <2>2 DEF AccessEnd, CreateUndo, UnlinkAppend
  <2>3. ASSUME NEW id \in Ids, CreateInsert(id) PROVE JobsOK'
    <3> DEFINE j == [op |-> "create", pc |-> "open", id |-> id, todo |-> {}]
    <3>1. job' = [job EXCEPT ![Handler] = j]
      BY <2>3 DEF CreateInsert
    <3>2. job' = [b \in Actors |-> IF b = Handler THEN j ELSE job[b]]
      BY <1>0, <3>1
    <3>3. j \in Jobs /\ Good(j)
      BY DEF Jobs
    <3> HIDE DEF j
    <3> QED BY <1>0, <1>2, <3>2, <3>3
  <2>4. ASSUME NEW id \in Ids, UnlinkStart(id) PROVE JobsOK'
    BY <1>0, <1>6, <2>4 DEF UnlinkStart
  <2>5. CASE CreateOpen
    BY <1>0, <1>5, <2>5 DEF CreateOpen, At
  <2>6. CASE CreateAttr
    <3>1. job[Handler].id \in Ids
      BY <1>0, <1>1, <2>6 DEF CreateAttr, At
    <3> QED BY <1>0, <1>6, <2>6, <3>1 DEF CreateAttr
  <2>7. CASE CreateAppend
    <3>1. job[Handler].op = "create" /\ (Finish(Handler) \/ Goto(Handler, "undo"))
      BY <2>7 DEF CreateAppend, Expired, At
    <3> QED BY <1>0, <1>4, <1>5, <3>1
  <2>8. CASE UnlinkCheck \/ UnlinkRemove \/ UnlinkMark
    <3>1. job[Handler].op = "unlink"
          /\ (Finish(Handler) \/ \E pc \in {"remove", "mark", "append"} : Goto(Handler, pc))
      BY <2>8 DEF UnlinkCheck, UnlinkRemove, UnlinkMark, Expired, At
    <3> QED BY <1>0, <1>4, <1>5, <3>1
  <2> QED BY <1>8, <2>1, <2>2, <2>3, <2>4, <2>5, <2>6, <2>7, <2>8 DEF Session
<1>9. ASSUME NEW r \in Reapers, Pass(r) PROVE JobsOK'
  <2>0. r \in Actors
    BY <1>0
  <2>1. CASE PassStart(r)
    BY <1>6, <2>0, <2>1 DEF PassStart
  <2>2. CASE PassSelect(r)
    <3>1. CASE Finish(r)
      BY <1>4, <2>0, <3>1
    <3>2. CASE ~Finish(r)
      <4> DEFINE j == [job[r] EXCEPT !.pc = "remove", !.todo = Candidates]
      <4>1. job' = [job EXCEPT ![r].pc = "remove", ![r].todo = Candidates] /\ At(r, "pass", "lines")
        BY <2>2, <3>2 DEF PassSelect, Expired
      <4>2. job' = [b \in Actors |-> IF b = r THEN j ELSE job[b]]
        BY <1>0, <2>0, <4>1
      <4>3. Candidates \in SUBSET Ids
        BY DEF Candidates
      <4>4. j \in Jobs /\ Good(j)
        BY <1>0, <2>0, <4>1, <4>3 DEF Jobs, At
      <4> HIDE DEF j
      <4> QED BY <1>2, <2>0, <4>2, <4>4
    <3> QED BY <3>1, <3>2
  <2>3. CASE PassRemove(r)
    <3>1. PICK id \in job[r].todo :
             job' = [job EXCEPT ![r].pc = "mark", ![r].id = id, ![r].todo = @ \ {id}]
      BY <2>3 DEF PassRemove
    <3> DEFINE j == [job[r] EXCEPT !.pc = "mark", !.id = id, !.todo = @ \ {id}]
    <3>2. job' = [b \in Actors |-> IF b = r THEN j ELSE job[b]]
      BY <1>0, <2>0, <3>1
    <3>3. job[r] \in Jobs /\ id \in Ids /\ At(r, "pass", "remove")
      BY <1>0, <2>0, <2>3 DEF Jobs, PassRemove
    <3>4. j \in Jobs /\ Good(j)
      BY <3>3 DEF Jobs, At
    <3> HIDE DEF j
    <3> QED BY <1>2, <2>0, <3>2, <3>4
  <2>4. CASE PassMark(r)
    BY <1>5, <2>0, <2>4 DEF PassMark, At
  <2>5. CASE PassAppend(r)
    BY <1>4, <1>5, <2>0, <2>5 DEF PassAppend
  <2> QED BY <1>9, <2>1, <2>2, <2>3, <2>4, <2>5 DEF Pass
<1>10. ASSUME NEW c \in Recoverers, Recover(c) PROVE JobsOK'
  <2>0. c \in Actors
    BY <1>0
  <2>1. ASSUME NEW id \in Ids, RecoverStart(c, id) PROVE JobsOK'
    BY <1>6, <2>0, <2>1 DEF RecoverStart
  <2>2. CASE RecoverPublish(c)
    <3>1. job[c].op = "recover" /\ (Finish(c) \/ Goto(c, "append"))
      BY <2>2 DEF RecoverPublish, Expired, At
    <3> QED BY <1>4, <1>5, <2>0, <3>1
  <2>3. CASE RecoverAppend(c)
    BY <1>4, <2>0, <2>3 DEF RecoverAppend
  <2> QED BY <1>10, <2>1, <2>2, <2>3 DEF Recover
<1>11. CASE Mount \/ \E id \in Ids : Grow(id)
  BY <1>3, <1>11 DEF Mount, Grow
<1>12. CASE KillMount
  <2>1. job' = [a \in Actors |-> IF a \in MountActors THEN Idle ELSE job[a]]
    BY <1>12 DEF KillMount
  <2>2. job' \in [Actors -> Jobs] /\ \A b \in Actors : Good(job'[b])
    <3>1. Good(Idle)
      BY DEF Idle
    <3> HIDE DEF Good
    <3> QED BY <1>0, <1>1, <2>1, <3>1
  <2> QED BY <2>2 DEF JobsOK, JobsTyped
<1>13. ASSUME NEW a \in Gcs \cup Recoverers, Kill(a) PROVE JobsOK'
  BY <1>4, <1>13 DEF Kill, Actors, Reapers
<1> QED BY <1>7, <1>8, <1>9, <1>10, <1>11, <1>12, <1>13 DEF Next

\* A step writes one line about one file, or none.
LEMMA OneLine ==
    ASSUME TypeOK, JobsTyped, Next
    PROVE  \/ log' = log
           \/ \E a \in Actors, event \in Events, id \in Ids : Says(a, event, id)
<1>0. /\ Handler \in Actors /\ Reapers \subseteq Actors /\ Recoverers \subseteq Actors
      /\ {"created", "expired", "recovered", "deleted"} \subseteq Events
      /\ \A a \in Actors : job[a].todo \subseteq Ids
  BY DEF Actors, Events, TypeOK
<1>1. ASSUME NEW a \in Actors, LogExpired(a)
      PROVE  log' = log \/ \E id \in Ids : Says(a, "expired", id)
  BY <1>0, <1>1, Appends DEF LogExpired
<1>2. CASE Session
  <2>1. CASE CreateAppend
    <3>1. job[Handler].id \in Ids
      BY <1>0, <2>1 DEF CreateAppend, Expired, At, JobsTyped
    <3> QED BY <1>0, <2>1, <3>1, Appends DEF CreateAppend
  <2>2. CASE UnlinkAppend
    <3>1. job[Handler].id \in Ids
      BY <1>0, <2>2 DEF UnlinkAppend, At, JobsTyped
    <3> QED BY <1>0, <2>2, <3>1, Appends DEF UnlinkAppend
  <2>3. CASE ~CreateAppend /\ ~UnlinkAppend
    BY <1>2, <2>3 DEF Session, Access, AccessEnd, CreateInsert, CreateOpen, CreateAttr, CreateUndo,
                      UnlinkStart, UnlinkCheck, UnlinkRemove, UnlinkMark, ExpireDue
  <2> QED BY <2>1, <2>2, <2>3
<1>3. ASSUME NEW r \in Reapers, Pass(r)
      PROVE  log' = log \/ \E id \in Ids : Says(r, "deleted", id)
  <2>1. CASE PassAppend(r)
    <3>1. job[r].id \in Ids
      BY <1>0, <2>1 DEF PassAppend, At, JobsTyped
    <3> QED BY <1>0, <2>1, <3>1, Appends DEF PassAppend
  <2>2. CASE ~PassAppend(r)
    BY <1>3, <2>2 DEF Pass, PassStart, PassSelect, PassRemove, PassMark, ExpireDue
  <2> QED BY <2>1, <2>2
<1>4. ASSUME NEW c \in Recoverers, Recover(c)
      PROVE  log' = log \/ \E id \in Ids : Says(c, "recovered", id)
  <2>1. CASE RecoverAppend(c)
    <3>1. job[c].id \in Ids
      BY <1>0, <2>1 DEF RecoverAppend, At, JobsTyped
    <3> QED BY <1>0, <2>1, <3>1, Appends DEF RecoverAppend
  <2>2. CASE ~RecoverAppend(c)
    BY <1>4, <2>2 DEF Recover, RecoverStart, RecoverPublish, ExpireDue
  <2> QED BY <2>1, <2>2
<1>5. CASE Mount \/ KillMount \/ (\E id \in Ids : Grow(id)) \/ \E a \in Gcs \cup Recoverers : Kill(a)
  BY <1>5 DEF Mount, KillMount, Grow, Kill
<1> QED BY <1>0, <1>1, <1>2, <1>3, <1>4, <1>5 DEF Next

\* Faults are counted, up to their bound.
LEMMA FaultStep ==
    ASSUME TypeOK, Next
    PROVE  faults' \in 0..MaxFaults /\ (faults' = 0 => faults = 0 /\ ~Fault)
<1>1. faults' = faults \/ Fault
  BY DEF Next, Session, Pass, Recover, LogExpired, Access, AccessEnd, CreateInsert, CreateOpen, CreateAttr,
         CreateAppend, CreateUndo, UnlinkStart, UnlinkCheck, UnlinkRemove, UnlinkMark, UnlinkAppend,
         PassStart, PassSelect, PassRemove, PassMark, PassAppend, RecoverStart, RecoverPublish,
         RecoverAppend, Mount, KillMount, Kill, ExpireDue, Grow, Write, Fails
<1>2. faults \in Nat /\ MaxFaults \in Nat /\ faults <= MaxFaults
  BY AuditAssumption DEF TypeOK
<1>3. CASE Fault
  BY <1>2, <1>3 DEF Fault
<1>4. CASE faults' = faults /\ ~Fault
  BY <1>2, <1>4
<1> QED BY <1>1, <1>3, <1>4

\* What a step can do to a row.
RowMoves(id) ==
    \/ row'[id] = row[id]
    \/ row[id] = "none" /\ row'[id] = "alive"
    \/ row[id] = "alive" /\ row'[id] = "expired"
    \/ row'[id] = "deleted"

\* Rows only move forward.
LEMMA RowStep ==
    ASSUME TypeOK, JobsTyped, Next
    PROVE  /\ row' \in [Ids -> {"none", "alive", "expired", "deleted"}]
           /\ \A id \in Ids : RowMoves(id)
<1> USE DEF TypeOK
<1>1. ASSUME NEW a, NEW op, NEW id, ExpireDue(a, op, id)
      PROVE  /\ row' \in [Ids -> {"none", "alive", "expired", "deleted"}]
             /\ \A i \in Ids : RowMoves(i)
  BY <1>1 DEF ExpireDue, DueRows, RowMoves
<1>2. ASSUME NEW id, row' = Marked(id)
      PROVE  /\ row' \in [Ids -> {"none", "alive", "expired", "deleted"}]
             /\ \A i \in Ids : RowMoves(i)
  <2>1. row' = [row EXCEPT ![id] = "deleted"] /\ row \in [Ids -> {"none", "alive", "expired", "deleted"}]
    BY <1>2 DEF Marked
  <2>2. \A i \in Ids : row'[i] = row[i] \/ row'[i] = "deleted"
    BY <2>1
  <2> QED BY <2>1, <2>2 DEF RowMoves
<1>3. ASSUME row' = row
      PROVE  /\ row' \in [Ids -> {"none", "alive", "expired", "deleted"}]
             /\ \A i \in Ids : RowMoves(i)
  BY <1>3 DEF RowMoves
<1>4. CASE \E a \in Actors : LogExpired(a)
  BY <1>3, <1>4 DEF LogExpired
<1>5. CASE Session
  <2>1. ASSUME NEW id \in Ids, CreateInsert(id)
        PROVE  /\ row' \in [Ids -> {"none", "alive", "expired", "deleted"}]
               /\ \A i \in Ids : RowMoves(i)
    BY <2>1 DEF CreateInsert, RowMoves
  <2>2. CASE Access \/ CreateAttr \/ \E id \in Ids : UnlinkStart(id)
    BY <1>1, <2>2 DEF Access, CreateAttr, UnlinkStart
  <2>3. CASE CreateUndo \/ UnlinkMark
    BY <1>2, <2>3 DEF CreateUndo, UnlinkMark
  <2>4. CASE AccessEnd \/ CreateOpen \/ CreateAppend \/ UnlinkCheck \/ UnlinkRemove \/ UnlinkAppend
    BY <1>3, <2>4 DEF AccessEnd, CreateOpen, CreateAppend, UnlinkCheck, UnlinkRemove, UnlinkAppend
  <2> QED BY <1>5, <2>1, <2>2, <2>3, <2>4 DEF Session
<1>6. CASE \E r \in Reapers : Pass(r)
  BY <1>1, <1>2, <1>3, <1>6 DEF Pass, PassStart, PassSelect, PassRemove, PassMark, PassAppend
<1>7. CASE \E c \in Recoverers : Recover(c)
  BY <1>1, <1>3, <1>7 DEF Recover, RecoverStart, RecoverPublish, RecoverAppend
<1>8. CASE Mount
  BY <1>8 DEF Mount, RowMoves
<1>9. CASE KillMount \/ (\E id \in Ids : Grow(id)) \/ \E a \in Gcs \cup Recoverers : Kill(a)
  BY <1>3, <1>9 DEF KillMount, Grow, Kill
<1> QED BY <1>4, <1>5, <1>6, <1>7, <1>8, <1>9 DEF Next

\* Every state is typed.
LEMMA TypesStep ==
    ASSUME TypeOK, JobsTyped, Next
    PROVE  TypeOK' /\ JobsTyped'
<1>1. JobsOK' /\ row' \in [Ids -> {"none", "alive", "expired", "deleted"}]
  BY JobsStep, RowStep
<1>2. LogTyped'
  <2>1. LogTyped
    BY DEF TypeOK, LogTyped
  <2>2. log' = log => LogTyped'
    BY <2>1 DEF LogTyped
  <2> QED BY <2>1, <2>2, OneLine, Written
<1>3. age' \in [Ids -> {"fresh", "due", "over"}]
  <2>1. age' = age \/ \E id \in Ids : Grow(id)
    BY DEF Next, Session, Pass, Recover, LogExpired, Access, AccessEnd, CreateInsert, CreateOpen, CreateAttr,
           CreateAppend, CreateUndo, UnlinkStart, UnlinkCheck, UnlinkRemove, UnlinkMark, UnlinkAppend,
           PassStart, PassSelect, PassRemove, PassMark, PassAppend, RecoverStart, RecoverPublish,
           RecoverAppend, Mount, KillMount, Kill, ExpireDue
  <2> QED BY <2>1 DEF Grow, TypeOK
<1>4. bytes' \subseteq Ids
  <2>1. \/ bytes' = bytes
        \/ CreateOpen
        \/ \E id : bytes' = bytes \ {id}
    BY DEF Next, Session, Pass, Recover, LogExpired, Access, AccessEnd, CreateInsert, CreateAttr,
           CreateAppend, CreateUndo, UnlinkStart, UnlinkCheck, UnlinkRemove, UnlinkMark, UnlinkAppend,
           PassStart, PassSelect, PassRemove, PassMark, PassAppend, RecoverStart, RecoverPublish,
           RecoverAppend, Mount, KillMount, Kill, ExpireDue, Grow
  <2>2. CreateOpen => job[Handler].id \in Ids
    BY DEF CreateOpen, At, JobsTyped, Actors
  <2> QED BY <2>1, <2>2 DEF CreateOpen, TypeOK
<1>5. published' \in [Ids -> 0..MaxRecoveries]
  <2>1. published' = published \/ \E c \in Recoverers : RecoverPublish(c)
    BY DEF Next, Session, Pass, Recover, LogExpired, Access, AccessEnd, CreateInsert, CreateOpen, CreateAttr,
           CreateAppend, CreateUndo, UnlinkStart, UnlinkCheck, UnlinkRemove, UnlinkMark, UnlinkAppend,
           PassStart, PassSelect, PassRemove, PassMark, PassAppend, RecoverStart,
           RecoverAppend, Mount, KillMount, Kill, ExpireDue, Grow
  <2>2. ASSUME NEW c \in Recoverers, RecoverPublish(c) PROVE published' \in [Ids -> 0..MaxRecoveries]
    <3>1. job[c].id \in Ids
      BY <2>2 DEF RecoverPublish, Expired, At, JobsTyped, Actors
    <3> QED BY <2>2, <3>1, AuditAssumption DEF RecoverPublish, TypeOK
  <2> QED BY <2>1, <2>2 DEF TypeOK
<1>6. up' \in BOOLEAN
  <2>1. up' = up \/ up' = TRUE \/ up' = FALSE
    BY DEF Next, Session, Pass, Recover, LogExpired, Access, AccessEnd, CreateInsert, CreateOpen, CreateAttr,
           CreateAppend, CreateUndo, UnlinkStart, UnlinkCheck, UnlinkRemove, UnlinkMark, UnlinkAppend,
           PassStart, PassSelect, PassRemove, PassMark, PassAppend, RecoverStart, RecoverPublish,
           RecoverAppend, Mount, KillMount, Kill, ExpireDue, Grow
  <2>2. up \in BOOLEAN
    BY DEF TypeOK
  <2> QED BY <2>1, <2>2
<1>7. faults' \in 0..MaxFaults
  BY FaultStep
<1> QED BY <1>1, <1>2, <1>3, <1>4, <1>5, <1>6, <1>7 DEF TypeOK, LogTyped, JobsOK, Jobs

------------------------------------------------------------------------------
(* Where a step takes the process that takes it *)

\* Process a, alone, is now here.
Moved(a, op, pc, id, todo) ==
    /\ job'[a].op = op /\ job'[a].pc = pc /\ job'[a].id = id /\ job'[a].todo = todo
    /\ \A b \in Actors \ {a} : job'[b] = job[b]

\* A job finished, gone on with, started with expire_due, or changed in some
\* other way.
LEMMA Moves ==
    ASSUME TypeOK, NEW a \in Actors
    PROVE  /\ Finish(a) => Moved(a, "idle", "start", Nothing, {})
           /\ \A pc : Goto(a, pc) => Moved(a, job[a].op, pc, job[a].id, job[a].todo)
           /\ \A op, id : ExpireDue(a, op, id) => Moved(a, op, "lines", id, DueRows)
           /\ \A id : CreateInsert(id) => Moved(Handler, "create", "open", id, {})
           /\ \A T : job' = [job EXCEPT ![a].todo = T] => Moved(a, job[a].op, job[a].pc, job[a].id, T)
           /\ \A pc, T : job' = [job EXCEPT ![a].pc = pc, ![a].todo = T] =>
                          Moved(a, job[a].op, pc, job[a].id, T)
           /\ \A pc, i, T : job' = [job EXCEPT ![a].pc = pc, ![a].id = i, ![a].todo = T] =>
                             Moved(a, job[a].op, pc, i, T)
<1>0. job \in [Actors -> Jobs] /\ Handler \in Actors
  BY DEF TypeOK, Jobs, Actors
<1>1. ASSUME Finish(a) PROVE Moved(a, "idle", "start", Nothing, {})
  BY <1>1, JobMoves DEF Idle, Moved
<1>2. ASSUME NEW pc, Goto(a, pc) PROVE Moved(a, job[a].op, pc, job[a].id, job[a].todo)
  BY <1>0, <1>2 DEF Goto, Jobs, Moved
<1>3. ASSUME NEW op, NEW id, ExpireDue(a, op, id) PROVE Moved(a, op, "lines", id, DueRows)
  BY <1>3, JobMoves DEF Moved
<1>4. ASSUME NEW id, CreateInsert(id) PROVE Moved(Handler, "create", "open", id, {})
  BY <1>0, <1>4 DEF CreateInsert, Moved
<1>5. ASSUME NEW T, job' = [job EXCEPT ![a].todo = T]
      PROVE  Moved(a, job[a].op, job[a].pc, job[a].id, T)
  BY <1>0, <1>5 DEF Jobs, Moved
<1>6. ASSUME NEW pc, NEW T, job' = [job EXCEPT ![a].pc = pc, ![a].todo = T]
      PROVE  Moved(a, job[a].op, pc, job[a].id, T)
  BY <1>0, <1>6 DEF Jobs, Moved
<1>7. ASSUME NEW pc, NEW i, NEW T, job' = [job EXCEPT ![a].pc = pc, ![a].id = i, ![a].todo = T]
      PROVE  Moved(a, job[a].op, pc, i, T)
  BY <1>0, <1>7 DEF Jobs, Moved
<1> QED BY <1>1, <1>2, <1>3, <1>4, <1>5, <1>6, <1>7

\* The steps of fade recover, in those terms.
LEMMA RecoverMoves ==
    ASSUME TypeOK, NEW c \in Recoverers, Recover(c)
    PROVE  \/ \E id \in Ids : /\ ExpireDue(c, "recover", id) /\ job[c].op = "idle"
                               /\ Moved(c, "recover", "lines", id, DueRows)
           \/ /\ At(c, "recover", "lines") /\ row' = row /\ log' = log /\ faults' = faults
              /\ \/ /\ Moved(c, "recover", "append", job[c].id, job[c].todo)
                    /\ published' = [published EXCEPT ![job[c].id] = @ + 1]
                 \/ Moved(c, "idle", "start", Nothing, {}) /\ published' = published
           \/ /\ At(c, "recover", "append") /\ row' = row /\ published' = published
              /\ Says(c, "recovered", job[c].id) \/ Lost
              /\ Moved(c, "idle", "start", Nothing, {})
<1>0. c \in Actors
  BY DEF Actors
<1>1. ASSUME NEW id \in Ids, RecoverStart(c, id)
      PROVE  /\ ExpireDue(c, "recover", id) /\ job[c].op = "idle"
             /\ Moved(c, "recover", "lines", id, DueRows)
  <2>1. ExpireDue(c, "recover", id) /\ job[c].op = "idle"
    BY <1>1 DEF RecoverStart, Free, Idle
  <2>2. Moved(c, "recover", "lines", id, DueRows)
    BY <1>0, <2>1, Moves
  <2> QED BY <2>1, <2>2
<1>2. ASSUME RecoverPublish(c)
      PROVE  /\ At(c, "recover", "lines") /\ row' = row /\ log' = log /\ faults' = faults
             /\ \/ /\ Moved(c, "recover", "append", job[c].id, job[c].todo)
                   /\ published' = [published EXCEPT ![job[c].id] = @ + 1]
                \/ Moved(c, "idle", "start", Nothing, {}) /\ published' = published
  <2>1. At(c, "recover", "lines") /\ job[c].op = "recover"
    BY <1>2 DEF RecoverPublish, Expired, At
  <2>2. /\ Goto(c, "append") => Moved(c, "recover", "append", job[c].id, job[c].todo)
        /\ Finish(c) => Moved(c, "idle", "start", Nothing, {})
    BY <1>0, <2>1, Moves
  <2> QED BY <1>2, <2>1, <2>2 DEF RecoverPublish
<1>3. ASSUME RecoverAppend(c)
      PROVE  /\ At(c, "recover", "append") /\ row' = row /\ published' = published
             /\ Says(c, "recovered", job[c].id) \/ Lost
             /\ Moved(c, "idle", "start", Nothing, {})
  BY <1>0, <1>3, Moves, Appends DEF RecoverAppend, Lost
<1> QED BY <1>1, <1>2, <1>3 DEF Recover

\* The steps of a pass.
LEMMA PassMoves ==
    ASSUME TypeOK, NEW r \in Reapers, Pass(r)
    PROVE  /\ published' = published
           /\ \/ /\ ExpireDue(r, "pass", Nothing) /\ job[r].op = "idle"
                 /\ Moved(r, "pass", "lines", Nothing, DueRows)
              \/ /\ At(r, "pass", "lines") /\ row' = row /\ log' = log /\ faults' = faults
                 /\ \/ Moved(r, "idle", "start", Nothing, {})
                    \/ Moved(r, "pass", "remove", job[r].id, Candidates)
              \/ /\ At(r, "pass", "remove") /\ row' = row /\ log' = log /\ faults' = faults
                 /\ \E id \in job[r].todo : Moved(r, "pass", "mark", id, job[r].todo \ {id})
              \/ /\ At(r, "pass", "mark") /\ row' = Marked(job[r].id) /\ log' = log /\ faults' = faults
                 /\ Moved(r, "pass", "append", job[r].id, job[r].todo)
              \/ /\ At(r, "pass", "append") /\ row' = row
                 /\ \/ /\ Says(r, "deleted", job[r].id)
                       /\ \/ Moved(r, "idle", "start", Nothing, {})
                          \/ Moved(r, "pass", "remove", job[r].id, job[r].todo)
                    \/ Lost /\ Moved(r, "idle", "start", Nothing, {})
<1>0. r \in Actors
  BY DEF Actors
<1>1. published' = published
  BY DEF Pass, PassStart, PassSelect, PassRemove, PassMark, PassAppend, ExpireDue
<1>2. PassStart(r) => /\ ExpireDue(r, "pass", Nothing) /\ job[r].op = "idle"
                      /\ Moved(r, "pass", "lines", Nothing, DueRows)
  <2>1. PassStart(r) => ExpireDue(r, "pass", Nothing) /\ job[r].op = "idle"
    BY DEF PassStart, Free, Idle
  <2>2. ExpireDue(r, "pass", Nothing) => Moved(r, "pass", "lines", Nothing, DueRows)
    BY <1>0, Moves
  <2> QED BY <2>1, <2>2
<1>3. PassSelect(r) => /\ At(r, "pass", "lines") /\ row' = row /\ log' = log /\ faults' = faults
                       /\ \/ Moved(r, "idle", "start", Nothing, {})
                          \/ Moved(r, "pass", "remove", job[r].id, Candidates)
  <2> SUFFICES ASSUME PassSelect(r)
               PROVE  /\ At(r, "pass", "lines") /\ row' = row /\ log' = log /\ faults' = faults
                      /\ \/ Moved(r, "idle", "start", Nothing, {})
                         \/ Moved(r, "pass", "remove", job[r].id, Candidates)
    OBVIOUS
  <2>1. At(r, "pass", "lines") /\ job[r].op = "pass"
    BY DEF PassSelect, Expired, At
  <2>2. Finish(r) => Moved(r, "idle", "start", Nothing, {})
    BY <1>0, Moves
  <2>3. job' = [job EXCEPT ![r].pc = "remove", ![r].todo = Candidates] =>
           Moved(r, "pass", "remove", job[r].id, Candidates)
    <3> SUFFICES ASSUME job' = [job EXCEPT ![r].pc = "remove", ![r].todo = Candidates]
                 PROVE  Moved(r, "pass", "remove", job[r].id, Candidates)
      OBVIOUS
    <3>1. Moved(r, job[r].op, "remove", job[r].id, Candidates)
      BY <1>0, Moves
    <3> QED BY <2>1, <3>1
  <2> QED BY <2>1, <2>2, <2>3 DEF PassSelect
<1>4. PassRemove(r) => /\ At(r, "pass", "remove") /\ row' = row /\ log' = log /\ faults' = faults
                       /\ \E id \in job[r].todo : Moved(r, "pass", "mark", id, job[r].todo \ {id})
  <2> SUFFICES ASSUME PassRemove(r)
               PROVE  /\ At(r, "pass", "remove") /\ row' = row /\ log' = log /\ faults' = faults
                      /\ \E id \in job[r].todo : Moved(r, "pass", "mark", id, job[r].todo \ {id})
    OBVIOUS
  <2>1. At(r, "pass", "remove") /\ job[r].op = "pass"
    BY DEF PassRemove, At
  <2>2. PICK id \in job[r].todo :
           job' = [job EXCEPT ![r].pc = "mark", ![r].id = id, ![r].todo = @ \ {id}]
    BY DEF PassRemove
  <2>3. job' = [job EXCEPT ![r].pc = "mark", ![r].id = id, ![r].todo = job[r].todo \ {id}]
    BY <1>0, <2>2 DEF TypeOK
  <2>4. Moved(r, "pass", "mark", id, job[r].todo \ {id})
    BY <1>0, <2>1, <2>3, Moves
  <2> QED BY <2>1, <2>4 DEF PassRemove
<1>5. PassMark(r) => /\ At(r, "pass", "mark") /\ row' = Marked(job[r].id) /\ log' = log /\ faults' = faults
                     /\ Moved(r, "pass", "append", job[r].id, job[r].todo)
  BY <1>0, Moves DEF PassMark, At
<1>6. PassAppend(r) => /\ At(r, "pass", "append") /\ row' = row
                       /\ \/ /\ Says(r, "deleted", job[r].id)
                             /\ \/ Moved(r, "idle", "start", Nothing, {})
                                \/ Moved(r, "pass", "remove", job[r].id, job[r].todo)
                          \/ Lost /\ Moved(r, "idle", "start", Nothing, {})
  BY <1>0, Moves, Appends DEF PassAppend, At, Lost
<1> QED BY <1>1, <1>2, <1>3, <1>4, <1>5, <1>6 DEF Pass

\* The steps of the session: create, ...
LEMMA CreateMoves ==
    ASSUME TypeOK
    PROVE  /\ \A id \in Ids : CreateInsert(id) =>
                 /\ job[Handler].op = "idle" /\ up
                 /\ row[id] = "none" /\ row' = [row EXCEPT ![id] = "alive"]
                 /\ log' = log /\ faults' = faults /\ Moved(Handler, "create", "open", id, {})
           /\ CreateOpen =>
                 /\ At(Handler, "create", "open") /\ row' = row /\ log' = log /\ faults' = faults
                 /\ Moved(Handler, "create", "attr", job[Handler].id, job[Handler].todo)
           /\ CreateAttr =>
                 /\ At(Handler, "create", "attr") /\ ExpireDue(Handler, "create", job[Handler].id)
                 /\ Moved(Handler, "create", "lines", job[Handler].id, DueRows)
           /\ CreateAppend =>
                 /\ At(Handler, "create", "lines") /\ row' = row
                 /\ \/ /\ row[job[Handler].id] = "alive" /\ Says(Handler, "created", job[Handler].id)
                       /\ Moved(Handler, "idle", "start", Nothing, {})
                    \/ /\ row[job[Handler].id] = "alive" /\ Says(Handler, "created", job[Handler].id)
                       /\ faults' # 0
                       /\ Moved(Handler, "create", "undo", job[Handler].id, job[Handler].todo)
                    \/ /\ log' = log
                       /\ Moved(Handler, "create", "undo", job[Handler].id, job[Handler].todo)
           /\ CreateUndo =>
                 /\ At(Handler, "create", "undo") /\ row' = Marked(job[Handler].id)
                 /\ log' = log /\ faults' = faults /\ Moved(Handler, "idle", "start", Nothing, {})
<1>0. Handler \in Actors
  BY DEF Actors
<1>1. ASSUME NEW id \in Ids, CreateInsert(id)
      PROVE  /\ job[Handler].op = "idle" /\ up
             /\ row[id] = "none" /\ row' = [row EXCEPT ![id] = "alive"]
             /\ log' = log /\ faults' = faults /\ Moved(Handler, "create", "open", id, {})
  <2>1. Moved(Handler, "create", "open", id, {})
    BY <1>0, <1>1, Moves
  <2> QED BY <1>1, <2>1 DEF CreateInsert, Free, Idle, MountActors
<1>2. CreateOpen => /\ At(Handler, "create", "open") /\ row' = row /\ log' = log /\ faults' = faults
                    /\ Moved(Handler, "create", "attr", job[Handler].id, job[Handler].todo)
  BY <1>0, Moves DEF CreateOpen, At
<1>3. CreateAttr => /\ At(Handler, "create", "attr") /\ ExpireDue(Handler, "create", job[Handler].id)
                    /\ Moved(Handler, "create", "lines", job[Handler].id, DueRows)
  BY <1>0, Moves DEF CreateAttr
<1>4. ASSUME CreateAppend
      PROVE  /\ At(Handler, "create", "lines") /\ row' = row
             /\ \/ /\ row[job[Handler].id] = "alive" /\ Says(Handler, "created", job[Handler].id)
                   /\ Moved(Handler, "idle", "start", Nothing, {})
                \/ /\ row[job[Handler].id] = "alive" /\ Says(Handler, "created", job[Handler].id)
                   /\ faults' # 0
                   /\ Moved(Handler, "create", "undo", job[Handler].id, job[Handler].todo)
                \/ /\ log' = log
                   /\ Moved(Handler, "create", "undo", job[Handler].id, job[Handler].todo)
  <2>1. At(Handler, "create", "lines") /\ job[Handler].op = "create" /\ row' = row
    BY <1>4 DEF CreateAppend, Expired, At
  <2>2. /\ Finish(Handler) => Moved(Handler, "idle", "start", Nothing, {})
        /\ Goto(Handler, "undo") => Moved(Handler, "create", "undo", job[Handler].id, job[Handler].todo)
    BY <1>0, <2>1, Moves
  <2> QED BY <1>4, <2>1, <2>2, Appends DEF CreateAppend
<1>5. CreateUndo => /\ At(Handler, "create", "undo") /\ row' = Marked(job[Handler].id)
                    /\ log' = log /\ faults' = faults /\ Moved(Handler, "idle", "start", Nothing, {})
  BY <1>0, Moves DEF CreateUndo
<1> QED BY <1>1, <1>2, <1>3, <1>4, <1>5

\* ... unlink and the others.
LEMMA UnlinkMoves ==
    ASSUME TypeOK
    PROVE  /\ Access => /\ job[Handler].op = "idle" /\ ExpireDue(Handler, "access", Nothing)
                        /\ Moved(Handler, "access", "lines", Nothing, DueRows)
           /\ AccessEnd =>
                 /\ At(Handler, "access", "lines") /\ row' = row /\ log' = log /\ faults' = faults
                 /\ Moved(Handler, "idle", "start", Nothing, {})
           /\ \A id \in Ids : UnlinkStart(id) =>
                 /\ job[Handler].op = "idle" /\ row[id] = "alive" /\ ExpireDue(Handler, "unlink", id)
                 /\ Moved(Handler, "unlink", "lines", id, DueRows)
           /\ UnlinkCheck \/ UnlinkRemove =>
                 /\ job[Handler].op = "unlink" /\ job[Handler].pc \in {"lines", "remove"}
                 /\ row' = row /\ log' = log /\ faults' = faults
                 /\ \/ Moved(Handler, "idle", "start", Nothing, {})
                    \/ \E pc \in {"remove", "mark"} :
                          Moved(Handler, "unlink", pc, job[Handler].id, job[Handler].todo)
           /\ UnlinkMark =>
                 /\ At(Handler, "unlink", "mark") /\ row' = Marked(job[Handler].id)
                 /\ log' = log /\ faults' = faults
                 /\ Moved(Handler, "unlink", "append", job[Handler].id, job[Handler].todo)
           /\ UnlinkAppend =>
                 /\ At(Handler, "unlink", "append") /\ row' = row
                 /\ Says(Handler, "deleted", job[Handler].id) \/ Lost
                 /\ Moved(Handler, "idle", "start", Nothing, {})
<1>0. Handler \in Actors
  BY DEF Actors
<1>1. Access => /\ job[Handler].op = "idle" /\ ExpireDue(Handler, "access", Nothing)
                /\ Moved(Handler, "access", "lines", Nothing, DueRows)
  <2>1. ExpireDue(Handler, "access", Nothing) => Moved(Handler, "access", "lines", Nothing, DueRows)
    BY <1>0, Moves
  <2>2. Access => job[Handler].op = "idle" /\ ExpireDue(Handler, "access", Nothing)
    BY DEF Access, Free, Idle
  <2> QED BY <2>1, <2>2
<1>2. AccessEnd => /\ At(Handler, "access", "lines") /\ row' = row /\ log' = log /\ faults' = faults
                   /\ Moved(Handler, "idle", "start", Nothing, {})
  BY <1>0, Moves DEF AccessEnd, Expired
<1>3. ASSUME NEW id \in Ids, UnlinkStart(id)
      PROVE  /\ job[Handler].op = "idle" /\ row[id] = "alive" /\ ExpireDue(Handler, "unlink", id)
             /\ Moved(Handler, "unlink", "lines", id, DueRows)
  <2>1. job[Handler].op = "idle" /\ row[id] = "alive" /\ ExpireDue(Handler, "unlink", id)
    BY <1>3 DEF UnlinkStart, Free, Idle
  <2>2. Moved(Handler, "unlink", "lines", id, DueRows)
    BY <1>0, <2>1, Moves
  <2> QED BY <2>1, <2>2
<1>4. ASSUME UnlinkCheck \/ UnlinkRemove
      PROVE  /\ job[Handler].op = "unlink" /\ job[Handler].pc \in {"lines", "remove"}
             /\ row' = row /\ log' = log /\ faults' = faults
             /\ \/ Moved(Handler, "idle", "start", Nothing, {})
                \/ \E pc \in {"remove", "mark"} :
                      Moved(Handler, "unlink", pc, job[Handler].id, job[Handler].todo)
  <2>1. /\ job[Handler].op = "unlink" /\ job[Handler].pc \in {"lines", "remove"}
        /\ row' = row /\ log' = log /\ faults' = faults
        /\ Finish(Handler) \/ \E pc \in {"remove", "mark"} : Goto(Handler, pc)
    BY <1>4 DEF UnlinkCheck, UnlinkRemove, Expired, At
  <2>2. /\ Finish(Handler) => Moved(Handler, "idle", "start", Nothing, {})
        /\ \A pc : Goto(Handler, pc) => Moved(Handler, "unlink", pc, job[Handler].id, job[Handler].todo)
    BY <1>0, <2>1, Moves
  <2> QED BY <2>1, <2>2
<1>5. UnlinkMark => /\ At(Handler, "unlink", "mark") /\ row' = Marked(job[Handler].id)
                    /\ log' = log /\ faults' = faults
                    /\ Moved(Handler, "unlink", "append", job[Handler].id, job[Handler].todo)
  BY <1>0, Moves DEF UnlinkMark, At
<1>6. UnlinkAppend => /\ At(Handler, "unlink", "append") /\ row' = row
                      /\ Says(Handler, "deleted", job[Handler].id) \/ Lost
                      /\ Moved(Handler, "idle", "start", Nothing, {})
  BY <1>0, Moves, Appends DEF UnlinkAppend, Lost
<1> QED BY <1>1, <1>2, <1>3, <1>4, <1>5, <1>6

\* An append of expire_due fails, with the line or without.
Broken(a) == faults' # 0 /\ (log' = log \/ \E id \in job[a].todo : id \in Ids /\ Says(a, "expired", id))

\* A line of expire_due is written, or the append fails.
LEMMA LogMoves ==
    ASSUME TypeOK, NEW a \in Actors, LogExpired(a)
    PROVE  /\ job[a].pc = "lines" /\ row' = row /\ published' = published /\ up' = up
           /\ \/ \E id \in job[a].todo :
                    /\ id \in Ids /\ Says(a, "expired", id)
                    /\ Moved(a, job[a].op, "lines", job[a].id, job[a].todo \ {id})
              \/ /\ Broken(a)
                 /\ \/ job[a].op = "create" /\ Moved(a, "create", "undo", job[a].id, job[a].todo)
                    \/ job[a].op # "create" /\ Moved(a, "idle", "start", Nothing, {})
<1>0. job \in [Actors -> Jobs] /\ job[a].todo \subseteq Ids
  BY DEF TypeOK, Jobs
<1>1. job[a].pc = "lines" /\ row' = row /\ published' = published /\ up' = up
  BY DEF LogExpired
<1>2. ASSUME NEW id \in job[a].todo, job' = [job EXCEPT ![a].todo = @ \ {id}]
      PROVE  Moved(a, job[a].op, "lines", job[a].id, job[a].todo \ {id})
  BY <1>0, <1>1, <1>2 DEF Jobs, Moved
<1>3. CASE \E id \in job[a].todo : Write(a, "expired", id) /\ job' = [job EXCEPT ![a].todo = @ \ {id}]
  BY <1>0, <1>1, <1>2, <1>3, Appends
<1>4. CASE /\ \E id \in job[a].todo : Fails(a, "expired", id)
           /\ IF job[a].op = "create" THEN Goto(a, "undo") ELSE Finish(a)
  <2>1. Broken(a)
    BY <1>0, <1>4, Appends DEF Broken
  <2> QED BY <1>1, <1>4, <2>1, Moves
<1> QED BY <1>3, <1>4 DEF LogExpired

\* A kill drops the jobs of one process.
LEMMA Dropped ==
    ASSUME TypeOK, KillMount \/ \E a \in Gcs \cup Recoverers : Kill(a)
    PROVE  /\ faults' # 0 /\ row' = row /\ log' = log /\ published' = published
           /\ \A a \in Actors : job'[a] = job[a] \/ (job'[a].op = "idle" /\ job'[a].pc = "start")
<1>1. Fault /\ row' = row /\ log' = log /\ published' = published
  BY DEF KillMount, Kill
<1>2. faults' # 0
  BY <1>1 DEF Fault, TypeOK
<1>3. CASE KillMount
  BY <1>1, <1>2, <1>3 DEF KillMount, Idle
<1>4. ASSUME NEW a \in Gcs \cup Recoverers, Kill(a)
      PROVE  \A b \in Actors : job'[b] = job[b] \/ (job'[b].op = "idle" /\ job'[b].pc = "start")
  <2>1. a \in Actors
    BY DEF Actors, Reapers
  <2>2. Moved(a, "idle", "start", Nothing, {})
    BY <1>4, <2>1, Moves DEF Kill
  <2> QED BY <2>2 DEF Moved
<1> QED BY <1>1, <1>2, <1>3, <1>4

------------------------------------------------------------------------------
(* file_expired *)

\* What a step does to the announcement of an expiry: nothing new, the UPDATE
\* by one process, or the line by a process that owes it.
ExpiryStep(id) ==
    \/ /\ Count(id, "expired")' = Count(id, "expired")
       /\ \A a \in Actors : Owes(a, id)' => Owes(a, id)
       /\ faults' = 0 => \A a \in Actors : Owes(a, id) => Owes(a, id)'
       /\ row[id] = "alive" => row'[id] # "expired"
    \/ /\ Count(id, "expired")' = Count(id, "expired")
       /\ row[id] = "alive" /\ row'[id] = "expired"
       /\ \E a \in Actors : /\ Owes(a, id)'
                            /\ \A b \in Actors \ {a} : Owes(b, id)' => Owes(b, id)
    \/ /\ Count(id, "expired")' = Count(id, "expired") + 1
       /\ row'[id] = row[id]
       /\ \E a \in Actors : /\ Owes(a, id) /\ ~Owes(a, id)'
                            /\ \A b \in Actors \ {a} : Owes(b, id)' => Owes(b, id)

\* Every step is one of them.
LEMMA ExpirySteps ==
    ASSUME TypeOK, JobsTyped, Next, NEW id \in Ids
    PROVE  ExpiryStep(id)
<1>0. /\ job \in [Actors -> Jobs] /\ row \in [Ids -> {"none", "alive", "expired", "deleted"}]
      /\ Handler \in Actors /\ Reapers \subseteq Actors /\ Recoverers \subseteq Actors
      /\ LogTyped /\ Events = {"created", "expired", "recovered", "deleted"}
  BY DEF TypeOK, LogTyped, Jobs, Actors, Events
\* The UPDATE.
<1>1. ASSUME NEW a \in Actors, NEW op, NEW j, ExpireDue(a, op, j), job[a].pc # "lines"
      PROVE  ExpiryStep(id)
  <2>1. /\ job' = [b \in Actors |-> IF b = a
                     THEN [op |-> op, pc |-> "lines", id |-> j, todo |-> DueRows] ELSE job[b]]
        /\ row' = [i \in Ids |-> IF i \in DueRows THEN "expired" ELSE row[i]]
        /\ log' = log
    BY <1>1, JobMoves DEF ExpireDue
  <2>2. Count(id, "expired")' = Count(id, "expired")
    BY <2>1, NotWritten
  <2>3. /\ Owes(a, id)' <=> id \in DueRows
        /\ \A b \in Actors \ {a} : Owes(b, id)' <=> Owes(b, id)
        /\ ~Owes(a, id)
    BY <1>1, <2>1 DEF Owes
  <2>4. CASE id \in DueRows
    <3>1. row[id] = "alive" /\ row'[id] = "expired"
      BY <2>1, <2>4 DEF DueRows
    <3> QED BY <2>2, <2>3, <2>4, <3>1 DEF ExpiryStep
  <2>5. CASE id \notin DueRows
    <3>1. row'[id] = row[id]
      BY <2>1, <2>5
    <3>2. \A b \in Actors : Owes(b, id)' <=> Owes(b, id)
      BY <2>3, <2>5
    <3> QED BY <2>2, <3>1, <3>2 DEF ExpiryStep
  <2> QED BY <2>4, <2>5
\* A step of one process that owes nothing, before or after.
<1>2. ASSUME NEW a \in Actors, ~Owes(a, id), job'[a].pc # "lines",
             \A b \in Actors \ {a} : job'[b] = job[b],
             Count(id, "expired")' = Count(id, "expired"), row[id] = "alive" => row'[id] # "expired"
      PROVE  ExpiryStep(id)
  <2>1. ~Owes(a, id)'
    BY <1>2 DEF Owes
  <2>2. \A b \in Actors \ {a} : Owes(b, id)' <=> Owes(b, id)
    BY <1>2 DEF Owes
  <2> QED BY <1>2, <2>1, <2>2 DEF ExpiryStep
\* Jobs are dropped.
<1>3. ASSUME Fault, log' = log, row' = row, \A a \in Actors : job'[a] = job[a] \/ job'[a].pc # "lines"
      PROVE  ExpiryStep(id)
  <2>1. Count(id, "expired")' = Count(id, "expired")
    BY <1>3, NotWritten
  <2>2. faults' # 0
    BY <1>3 DEF Fault, TypeOK
  <2>3. \A a \in Actors : Owes(a, id)' => Owes(a, id)
    BY <1>3 DEF Owes
  <2> QED BY <1>3, <2>1, <2>2, <2>3 DEF ExpiryStep
<1>4. ASSUME NEW a \in Actors, Finish(a) \/ (\E pc : pc # "lines" /\ Goto(a, pc))
      PROVE  job'[a].pc # "lines" /\ \A b \in Actors \ {a} : job'[b] = job[b]
  <2>1. CASE Finish(a)
    BY <2>1, JobMoves DEF Idle
  <2>2. ASSUME NEW pc, pc # "lines", Goto(a, pc)
        PROVE  job'[a].pc # "lines" /\ \A b \in Actors \ {a} : job'[b] = job[b]
    BY <1>0, <2>2 DEF Goto, Jobs
  <2> QED BY <1>4, <2>1, <2>2
<1>5. ASSUME NEW a \in Actors, LogExpired(a)
      PROVE  ExpiryStep(id)
  <2>1. PICK i \in job[a].todo :
           \/ Write(a, "expired", i) /\ job' = [job EXCEPT ![a].todo = @ \ {i}]
           \/ /\ Fails(a, "expired", i)
              /\ IF job[a].op = "create" THEN Goto(a, "undo") ELSE Finish(a)
    BY <1>5 DEF LogExpired
  <2>2. i \in Ids /\ row' = row /\ job[a].pc = "lines"
    BY <1>0, <1>5, <2>1 DEF LogExpired, Jobs
  <2>3. CASE Write(a, "expired", i) /\ job' = [job EXCEPT ![a].todo = @ \ {i}]
    <3>1. Count(id, "expired")' = Count(id, "expired") + (IF id = i THEN 1 ELSE 0)
      BY <1>0, <2>2, <2>3, Written, Appends
    <3>2. /\ job'[a].pc = job[a].pc /\ job'[a].todo = job[a].todo \ {i}
          /\ \A b \in Actors \ {a} : job'[b] = job[b]
      BY <1>0, <2>3 DEF Jobs
    <3>3. \A b \in Actors \ {a} : Owes(b, id)' <=> Owes(b, id)
      BY <3>2 DEF Owes
    <3>4. CASE id = i
      <4>1. Owes(a, id) /\ ~Owes(a, id)'
        BY <2>1, <2>2, <3>2, <3>4 DEF Owes
      <4>2. Count(id, "expired")' = Count(id, "expired") + 1
        BY <3>1, <3>4
      <4> QED BY <2>2, <3>3, <4>1, <4>2 DEF ExpiryStep
    <3>5. CASE id # i
      <4>1. Owes(a, id)' <=> Owes(a, id)
        BY <3>2, <3>5 DEF Owes
      <4>2. Count(id, "expired")' = Count(id, "expired")
        BY <3>1, <3>5, <1>0, Counts
      <4> QED BY <2>2, <3>3, <4>1, <4>2 DEF ExpiryStep
    <3> QED BY <3>4, <3>5
  <2>4. CASE Fails(a, "expired", i) /\ IF job[a].op = "create" THEN Goto(a, "undo") ELSE Finish(a)
    <3>1. job'[a].pc # "lines" /\ \A b \in Actors \ {a} : job'[b] = job[b]
      BY <1>4, <2>4
    <3>2. Fault /\ faults' # 0 /\ (log' = log \/ Says(a, "expired", i))
      BY <2>4, Appends DEF Fails
    <3>3. CASE log' = log
      BY <1>3, <2>2, <3>1, <3>2, <3>3
    <3>4. CASE Says(a, "expired", i)
      <4>1. Count(id, "expired")' = Count(id, "expired") + (IF id = i THEN 1 ELSE 0)
        BY <1>0, <2>2, <3>4, Written
      <4>2. ~Owes(a, id)' /\ \A b \in Actors \ {a} : Owes(b, id)' <=> Owes(b, id)
        BY <3>1 DEF Owes
      <4>3. CASE id = i
        <5>1. Owes(a, id) /\ Count(id, "expired")' = Count(id, "expired") + 1
          BY <2>1, <2>2, <4>1, <4>3 DEF Owes
        <5> QED BY <2>2, <4>2, <5>1 DEF ExpiryStep
      <4>4. CASE id # i
        <5>1. Count(id, "expired")' = Count(id, "expired")
          BY <4>1, <4>4, <1>0, Counts
        <5>2. \A b \in Actors : Owes(b, id)' => Owes(b, id)
          BY <4>2
        <5> QED BY <2>2, <3>2, <5>1, <5>2 DEF ExpiryStep
      <4> QED BY <4>3, <4>4
    <3> QED BY <3>2, <3>3, <3>4
  <2> QED BY <2>1, <2>3, <2>4
<1>6. CASE Session
  <2>1. CASE Access
    BY <1>0, <1>1, <2>1 DEF Access, Free, Idle
  <2>2. CASE CreateAttr
    BY <1>0, <1>1, <2>2 DEF CreateAttr, At
  <2>3. CASE \E i \in Ids : UnlinkStart(i)
    BY <1>0, <1>1, <2>3 DEF UnlinkStart, Free, Idle
  <2>4. ASSUME NEW i \in Ids, CreateInsert(i) PROVE ExpiryStep(id)
    <3>1. job[Handler].pc = "start" /\ log' = log /\ row' = [row EXCEPT ![i] = "alive"]
      BY <2>4 DEF CreateInsert, Free, Idle
    <3>2. job'[Handler].pc = "open" /\ \A b \in Actors \ {Handler} : job'[b] = job[b]
      BY <1>0, <2>4 DEF CreateInsert
    <3>3. row[id] = "alive" => row'[id] # "expired"
      BY <1>0, <3>1
    <3> QED BY <1>0, <1>2, <3>1, <3>2, <3>3, NotWritten DEF Owes
  <2>5. CASE AccessEnd \/ CreateOpen \/ CreateAppend \/ CreateUndo
             \/ UnlinkCheck \/ UnlinkRemove \/ UnlinkMark \/ UnlinkAppend
    <3>1. ~Owes(Handler, id)
      BY <2>5 DEF AccessEnd, CreateOpen, CreateAppend, CreateUndo, UnlinkCheck, UnlinkRemove, UnlinkMark,
                  UnlinkAppend, Expired, At, Owes
    <3>2. Finish(Handler) \/ (\E pc : pc # "lines" /\ Goto(Handler, pc))
      BY <2>5 DEF AccessEnd, CreateOpen, CreateAppend, CreateUndo, UnlinkCheck, UnlinkRemove, UnlinkMark,
                  UnlinkAppend
    <3>3. row'[id] = row[id] \/ row'[id] = "deleted"
      BY <1>0, <2>5 DEF AccessEnd, CreateOpen, CreateAppend, CreateUndo, UnlinkCheck, UnlinkRemove,
                        UnlinkMark, UnlinkAppend, Marked
    <3>4. \/ log' = log
          \/ \E i \in Ids : Says(Handler, "created", i) \/ Says(Handler, "deleted", i)
      <4>1. CreateAppend \/ UnlinkAppend => job[Handler].id \in Ids
        BY <1>0 DEF CreateAppend, UnlinkAppend, Expired, At, JobsTyped
      <4> QED BY <2>5, <4>1, Appends DEF AccessEnd, CreateOpen, CreateAppend, CreateUndo, UnlinkCheck,
                                         UnlinkRemove, UnlinkMark, UnlinkAppend
    <3>5. Count(id, "expired")' = Count(id, "expired")
      BY <1>0, <3>4, NotWritten, Written, Counts
    <3> QED BY <1>0, <1>2, <1>4, <3>1, <3>2, <3>3, <3>5
  <2> QED BY <1>6, <2>1, <2>2, <2>3, <2>4, <2>5 DEF Session
<1>7. ASSUME NEW r \in Reapers, Pass(r) PROVE ExpiryStep(id)
  <2>0. r \in Actors
    BY <1>0
  <2>1. CASE PassStart(r)
    BY <1>1, <2>0, <2>1 DEF PassStart, Free, Idle
  <2>2. CASE ~PassStart(r)
    <3>1. ~Owes(r, id)
      BY <1>7, <2>2 DEF Pass, PassSelect, PassRemove, PassMark, PassAppend, Expired, At, Owes
    <3>2. job'[r].pc # "lines" /\ \A b \in Actors \ {r} : job'[b] = job[b]
      <4>1. \/ Finish(r) \/ (\E pc : pc # "lines" /\ Goto(r, pc))
            \/ job' = [job EXCEPT ![r].pc = "remove", ![r].todo = Candidates]
            \/ \E i : job' = [job EXCEPT ![r].pc = "mark", ![r].id = i, ![r].todo = @ \ {i}]
        BY <1>7, <2>2 DEF Pass, PassSelect, PassRemove, PassMark, PassAppend
      <4>2. CASE job' = [job EXCEPT ![r].pc = "remove", ![r].todo = Candidates]
        BY <1>0, <2>0, <4>2 DEF Jobs
      <4>3. CASE \E i : job' = [job EXCEPT ![r].pc = "mark", ![r].id = i, ![r].todo = @ \ {i}]
        BY <1>0, <2>0, <4>3 DEF Jobs
      <4> QED BY <1>4, <2>0, <4>1, <4>2, <4>3
    <3>3. row'[id] = row[id] \/ row'[id] = "deleted"
      BY <1>0, <1>7, <2>2 DEF Pass, PassSelect, PassRemove, PassMark, PassAppend, Marked
    <3>4. log' = log \/ \E i \in Ids : Says(r, "deleted", i)
      <4>1. PassAppend(r) => job[r].id \in Ids
        BY <2>0 DEF PassAppend, At, JobsTyped
      <4> QED BY <1>7, <2>2, <4>1, Appends DEF Pass, PassSelect, PassRemove, PassMark, PassAppend
    <3>5. Count(id, "expired")' = Count(id, "expired")
      <4>1. Announces({"deleted"})
        BY <2>0, <3>4 DEF Announces
      <4> QED BY <1>0, <4>1, OtherLines
    <3> QED BY <1>2, <2>0, <3>1, <3>2, <3>3, <3>5
  <2> QED BY <2>1, <2>2
<1>8. ASSUME NEW c \in Recoverers, Recover(c) PROVE ExpiryStep(id)
  <2>0. c \in Actors
    BY <1>0
  <2>1. CASE \E i \in Ids : RecoverStart(c, i)
    BY <1>1, <2>0, <2>1 DEF RecoverStart, Free, Idle
  <2>2. CASE RecoverPublish(c) \/ RecoverAppend(c)
    <3>1. ~Owes(c, id)
      BY <2>2 DEF RecoverPublish, RecoverAppend, Expired, At, Owes
    <3>2. Finish(c) \/ (\E pc : pc # "lines" /\ Goto(c, pc))
      BY <2>2 DEF RecoverPublish, RecoverAppend
    <3>3. row' = row
      BY <2>2 DEF RecoverPublish, RecoverAppend
    <3>4. log' = log \/ \E i \in Ids : Says(c, "recovered", i)
      <4>1. RecoverAppend(c) => job[c].id \in Ids
        BY <2>0 DEF RecoverAppend, At, JobsTyped
      <4> QED BY <2>2, <4>1, Appends DEF RecoverPublish, RecoverAppend
    <3>5. Count(id, "expired")' = Count(id, "expired")
      <4>1. Announces({"recovered"})
        BY <2>0, <3>4 DEF Announces
      <4> QED BY <1>0, <4>1, OtherLines
    <3> QED BY <1>2, <1>4, <2>0, <3>1, <3>2, <3>3, <3>5
  <2> QED BY <1>8, <2>1, <2>2 DEF Recover
<1>9. CASE Mount \/ \E i \in Ids : Grow(i)
  <2>1. /\ job' = job /\ log' = log
        /\ row[id] = "alive" => row'[id] # "expired"
    BY <1>0, <1>9 DEF Mount, Grow
  <2>2. \A a \in Actors : Owes(a, id)' <=> Owes(a, id)
    BY <2>1 DEF Owes
  <2> QED BY <2>1, <2>2, NotWritten DEF ExpiryStep
<1>10. CASE KillMount
  BY <1>3, <1>10 DEF KillMount, Idle
<1>11. ASSUME NEW a \in Gcs \cup Recoverers, Kill(a) PROVE ExpiryStep(id)
  <2>1. a \in Actors
    BY DEF Actors, Reapers
  <2>2. job'[a].pc # "lines" /\ \A b \in Actors \ {a} : job'[b] = job[b]
    BY <1>4, <1>11, <2>1 DEF Kill
  <2> QED BY <1>3, <1>11, <2>2 DEF Kill
<1> QED BY <1>5, <1>6, <1>7, <1>8, <1>9, <1>10, <1>11 DEF Next

\* The expiry of a file is announced at most once.
LEMMA ExpiredStep ==
    ASSUME TypeOK, JobsTyped, ExpiredInv, Next
    PROVE  ExpiredInv'
<1>1. SUFFICES ASSUME NEW id \in Ids
               PROVE  /\ row'[id] \in {"none", "alive"} =>
                            Count(id, "expired")' = 0 /\ \A a \in Actors : ~Owes(a, id)'
                      /\ \A a, b \in Actors : Owes(a, id)' /\ Owes(b, id)' => a = b
                      /\ (\E a \in Actors : Owes(a, id)') => Count(id, "expired")' = 0
                      /\ Count(id, "expired")' <= 1
  BY DEF ExpiredInv
<1>2. /\ row[id] \in {"none", "alive"} => Count(id, "expired") = 0 /\ \A a \in Actors : ~Owes(a, id)
      /\ \A a, b \in Actors : Owes(a, id) /\ Owes(b, id) => a = b
      /\ (\E a \in Actors : Owes(a, id)) => Count(id, "expired") = 0
      /\ Count(id, "expired") <= 1
  BY DEF ExpiredInv
<1>3. RowMoves(id) /\ ExpiryStep(id)
  BY RowStep, ExpirySteps
<1>4. row'[id] \in {"none", "alive"} => row[id] \in {"none", "alive"}
  BY <1>3 DEF RowMoves, TypeOK
<1> DEFINE n == Count(id, "expired")
           m == Count(id, "expired")'
           O(a) == Owes(a, id)
           P(a) == Owes(a, id)'
<1>5. \/ m = n /\ \A a \in Actors : P(a) => O(a)
      \/ m = n /\ row[id] = "alive" /\ row'[id] = "expired"
         /\ \E a \in Actors : P(a) /\ \A b \in Actors \ {a} : P(b) => O(b)
      \/ m = n + 1 /\ row'[id] = row[id]
         /\ \E a \in Actors : O(a) /\ ~P(a) /\ \A b \in Actors \ {a} : P(b) => O(b)
  BY <1>3 DEF ExpiryStep
<1> HIDE DEF n, m, O, P
<1>6. /\ row[id] \in {"none", "alive"} => n = 0 /\ \A a \in Actors : ~O(a)
      /\ \A a, b \in Actors : O(a) /\ O(b) => a = b
      /\ (\E a \in Actors : O(a)) => n = 0
      /\ n <= 1
  BY <1>2 DEF n, O
<1>7. /\ row'[id] \in {"none", "alive"} => m = 0 /\ \A a \in Actors : ~P(a)
      /\ \A a, b \in Actors : P(a) /\ P(b) => a = b
      /\ (\E a \in Actors : P(a)) => m = 0
      /\ m <= 1
  <2>1. CASE m = n /\ \A a \in Actors : P(a) => O(a)
    BY <1>4, <1>6, <2>1
  <2>2. CASE m = n /\ row[id] = "alive" /\ row'[id] = "expired"
             /\ \E a \in Actors : P(a) /\ \A b \in Actors \ {a} : P(b) => O(b)
    BY <1>4, <1>6, <2>2
  <2>3. CASE m = n + 1 /\ row'[id] = row[id]
             /\ \E a \in Actors : O(a) /\ ~P(a) /\ \A b \in Actors \ {a} : P(b) => O(b)
    BY <1>4, <1>6, <2>3
  <2> QED BY <1>5, <2>1, <2>2, <2>3
<1> QED BY <1>7 DEF m, P

------------------------------------------------------------------------------
(* file_created *)

\* What a step does to the announcement of a new file: nothing, or it ends
\* create without one; the insert; the line, of which create is undone all the
\* same when its append fails.
CreationStep(id) ==
    \/ /\ Count(id, "created")' = Count(id, "created")
       /\ Making(id)' => Making(id) /\ (job[Handler].pc = "undo" => job'[Handler].pc = "undo")
       /\ row'[id] = "alive" => row[id] = "alive"
       /\ row'[id] = "alive" /\ faults' = 0 /\ Making(id) => Making(id)'
    \/ /\ Count(id, "created")' = Count(id, "created")
       /\ row[id] = "none" /\ row'[id] = "alive" /\ up /\ Making(id)'
    \/ /\ Count(id, "created")' = Count(id, "created") + 1
       /\ row[id] = "alive" /\ row'[id] = row[id]
       /\ Making(id) /\ job[Handler].pc # "undo"
       /\ Making(id)' => job'[Handler].pc = "undo" /\ faults' # 0

\* Every step is one of them.
LEMMA CreationSteps ==
    ASSUME TypeOK, JobsTyped, Next, NEW id \in Ids
    PROVE  CreationStep(id)
<1>0. /\ row \in [Ids -> {"none", "alive", "expired", "deleted"}]
      /\ Handler \in Actors /\ Reapers \subseteq Actors /\ Recoverers \subseteq Actors
      /\ LogTyped /\ Events = {"created", "expired", "recovered", "deleted"}
  BY DEF TypeOK, LogTyped, Actors, Events
<1>1. ASSUME NEW events \in SUBSET (Events \ {"created"}), Announces(events)
      PROVE  Count(id, "created")' = Count(id, "created")
  <2>1. "created" \in Events \ ({"deleted"} \cup events)
    BY <1>0
  <2> QED BY <1>0, <1>1, <2>1, OtherLines
<1>2. log' = log => Count(id, "created")' = Count(id, "created")
  BY NotWritten
\* A job goes on, or one of another kind does what it does.
<1>3. ASSUME NEW a \in Actors, NEW op, NEW pc, NEW i, NEW T, Moved(a, op, pc, i, T),
             \/ job[a].op = "create" /\ i = job[a].id /\ op = "create" /\ job[a].pc # "undo"
             \/ job[a].op # "create" /\ op # "create",
             Count(id, "created")' = Count(id, "created"), row'[id] = "alive" => row[id] = "alive"
      PROVE  CreationStep(id)
  <2>1. /\ Making(id)' <=> Making(id)
        /\ Making(id)' => (job[Handler].pc = "undo" => job'[Handler].pc = "undo")
    <3>1. CASE a = Handler
      BY <1>3, <3>1 DEF Making, Moved
    <3>2. CASE a # Handler
      BY <1>0, <1>3, <3>2 DEF Making, Moved
    <3> QED BY <3>1, <3>2
  <2> QED BY <1>3, <2>1 DEF CreationStep
<1>4. ASSUME NEW a \in Actors, NEW op, NEW i, ExpireDue(a, op, i), Moved(a, op, "lines", i, DueRows),
             \/ job[a].op = "create" /\ i = job[a].id /\ op = "create" /\ job[a].pc # "undo"
             \/ job[a].op # "create" /\ op # "create"
      PROVE  CreationStep(id)
  <2>1. log' = log /\ (row'[id] = "alive" => row[id] = "alive")
    BY <1>0, <1>4 DEF ExpireDue, DueRows
  <2> QED BY <1>2, <1>3, <1>4, <2>1
<1>5. \A i : row' = Marked(i) => (row'[id] = "alive" => row[id] = "alive") /\ (i = id => row'[id] = "deleted")
  BY <1>0 DEF Marked
<1>6. \A a, i : Says(a, "expired", i) /\ a \in Actors /\ i \in Ids => Count(id, "created")' = Count(id, "created")
  BY <1>0, <1>1 DEF Announces
<1>7. \A a, i : Says(a, "deleted", i) /\ a \in Actors /\ i \in Ids => Count(id, "created")' = Count(id, "created")
  BY <1>0, <1>1 DEF Announces
<1>8. \A a, i : Says(a, "recovered", i) /\ a \in Actors /\ i \in Ids => Count(id, "created")' = Count(id, "created")
  BY <1>0, <1>1 DEF Announces
<1>9. Lost => log' = log
  BY DEF Lost
<1>10. ASSUME NEW a \in Actors, LogExpired(a) PROVE CreationStep(id)
  <2>1. row' = row /\ job[a].pc = "lines"
    BY <1>10, LogMoves
  <2>2. CASE \E i \in job[a].todo : i \in Ids /\ Says(a, "expired", i)
                                    /\ Moved(a, job[a].op, "lines", job[a].id, job[a].todo \ {i})
    BY <1>3, <1>6, <2>1, <2>2
  <2>3. CASE Broken(a) /\ \/ job[a].op = "create" /\ Moved(a, "create", "undo", job[a].id, job[a].todo)
                          \/ job[a].op # "create" /\ Moved(a, "idle", "start", Nothing, {})
    <3>1. Count(id, "created")' = Count(id, "created")
      BY <1>2, <1>6, <2>3 DEF Broken
    <3> QED BY <1>3, <2>1, <2>3, <3>1
  <2> QED BY <1>10, <2>2, <2>3, LogMoves
<1>11. CASE Session
  <2>1. ASSUME NEW i \in Ids, CreateInsert(i) PROVE CreationStep(id)
    <3>1. /\ job[Handler].op = "idle" /\ up /\ row[i] = "none" /\ row' = [row EXCEPT ![i] = "alive"]
          /\ log' = log /\ Moved(Handler, "create", "open", i, {})
      BY <2>1, CreateMoves
    <3>2. job'[Handler].op = "create" /\ job'[Handler].id = i
      BY <3>1 DEF Moved
    <3>3. CASE i = id
      BY <1>0, <1>2, <3>1, <3>2, <3>3 DEF Making, CreationStep
    <3>4. CASE i # id
      BY <1>0, <1>2, <3>1, <3>2, <3>4 DEF Making, CreationStep
    <3> QED BY <3>3, <3>4
  <2>2. CASE CreateOpen
    BY <1>0, <1>2, <1>3, <2>2, CreateMoves DEF At
  <2>3. CASE CreateAttr
    BY <1>0, <1>4, <2>3, CreateMoves DEF At
  <2>4. CASE CreateAppend
    <3>1. At(Handler, "create", "lines") /\ row' = row /\ job[Handler].id \in Ids
      BY <1>0, <2>4, CreateMoves DEF At, JobsTyped
    <3>2. CASE /\ row[job[Handler].id] = "alive" /\ Says(Handler, "created", job[Handler].id)
               /\ \/ Moved(Handler, "idle", "start", Nothing, {})
                  \/ /\ faults' # 0
                     /\ Moved(Handler, "create", "undo", job[Handler].id, job[Handler].todo)
      <4>1. /\ Making(id) <=> job[Handler].id = id
            /\ Making(id)' => job'[Handler].pc = "undo" /\ faults' # 0
            /\ Making(id)' => Making(id)
            /\ job[Handler].pc = "lines"
            /\ row'[id] = "alive" /\ faults' = 0 /\ Making(id) => job[Handler].id = id
        BY <3>1, <3>2 DEF Making, Moved, At
      <4>2. Count(id, "created")' = Count(id, "created") + (IF id = job[Handler].id THEN 1 ELSE 0)
        BY <1>0, <3>1, <3>2, Written
      <4>3. Count(id, "created") \in Nat
        BY <1>0, Counts
      <4> QED BY <3>1, <3>2, <4>1, <4>2, <4>3 DEF CreationStep
    <3>3. CASE log' = log /\ Moved(Handler, "create", "undo", job[Handler].id, job[Handler].todo)
      BY <1>0, <1>2, <1>3, <3>1, <3>3 DEF At
    <3> QED BY <2>4, <3>2, <3>3, CreateMoves
  <2>5. CASE CreateUndo
    <3>1. /\ row' = Marked(job[Handler].id) /\ log' = log
          /\ At(Handler, "create", "undo") /\ Moved(Handler, "idle", "start", Nothing, {})
      BY <2>5, CreateMoves
    <3>2. ~Making(id)' /\ (Making(id) <=> job[Handler].id = id)
      BY <3>1 DEF Making, Moved, At
    <3> QED BY <1>2, <1>5, <3>1, <3>2 DEF CreationStep
  <2>6. CASE Access
    BY <1>0, <1>4, <2>6, UnlinkMoves
  <2>7. CASE AccessEnd
    BY <1>0, <1>2, <1>3, <2>7, UnlinkMoves DEF At
  <2>8. ASSUME NEW i \in Ids, UnlinkStart(i) PROVE CreationStep(id)
    BY <1>0, <1>4, <2>8, UnlinkMoves
  <2>9. CASE UnlinkCheck \/ UnlinkRemove
    BY <1>0, <1>2, <1>3, <2>9, UnlinkMoves
  <2>10. CASE UnlinkMark
    BY <1>0, <1>2, <1>3, <1>5, <2>10, UnlinkMoves DEF At
  <2>11. CASE UnlinkAppend
    <3>1. job[Handler].id \in Ids
      BY <1>0, <2>11, UnlinkMoves DEF At, JobsTyped
    <3>2. Count(id, "created")' = Count(id, "created")
      BY <1>0, <1>2, <1>7, <1>9, <2>11, <3>1, UnlinkMoves
    <3> QED BY <1>0, <1>3, <2>11, <3>2, UnlinkMoves DEF At
  <2> QED BY <1>11, <2>1, <2>2, <2>3, <2>4, <2>5, <2>6, <2>7, <2>8, <2>9, <2>10, <2>11 DEF Session
<1>12. ASSUME NEW r \in Reapers, Pass(r) PROVE CreationStep(id)
  <2>0. r \in Actors
    BY <1>0
  <2>1. CASE ExpireDue(r, "pass", Nothing) /\ job[r].op = "idle" /\ Moved(r, "pass", "lines", Nothing, DueRows)
    BY <1>4, <2>0, <2>1
  <2>2. CASE At(r, "pass", "append")
    <3>1. job[r].id \in Ids
      BY <2>0, <2>2 DEF At, JobsTyped
    <3>2. row' = row /\ Count(id, "created")' = Count(id, "created")
      BY <1>2, <1>7, <1>9, <1>12, <2>0, <2>2, <3>1, PassMoves DEF ExpireDue, At
    <3>3. \E op, pc, i, T : op # "create" /\ Moved(r, op, pc, i, T)
      BY <1>12, PassMoves
    <3> QED BY <1>3, <2>0, <2>2, <3>2, <3>3 DEF At
  <2>3. CASE ~At(r, "pass", "append") /\ job[r].op # "idle"
    <3>1. /\ job[r].op = "pass" /\ log' = log /\ (row'[id] = "alive" => row[id] = "alive")
          /\ \E op, pc, i, T : op # "create" /\ Moved(r, op, pc, i, T)
      BY <1>5, <1>12, <2>3, PassMoves DEF At
    <3> QED BY <1>2, <1>3, <2>0, <3>1
  <2> QED BY <1>12, <2>1, <2>2, <2>3, PassMoves DEF At
<1>13. ASSUME NEW c \in Recoverers, Recover(c) PROVE CreationStep(id)
  <2>0. c \in Actors
    BY <1>0
  <2>1. ASSUME NEW i \in Ids, ExpireDue(c, "recover", i), job[c].op = "idle",
               Moved(c, "recover", "lines", i, DueRows)
        PROVE  CreationStep(id)
    BY <1>4, <2>0, <2>1
  <2>2. CASE At(c, "recover", "lines") /\ row' = row /\ log' = log
    <3>1. \E op, pc, i, T : op # "create" /\ Moved(c, op, pc, i, T)
      BY <1>13, RecoverMoves
    <3> QED BY <1>2, <1>3, <2>0, <2>2, <3>1 DEF At
  <2>3. CASE /\ At(c, "recover", "append") /\ row' = row
             /\ Says(c, "recovered", job[c].id) \/ Lost
             /\ Moved(c, "idle", "start", Nothing, {})
    <3>1. job[c].id \in Ids
      BY <2>0, <2>3 DEF At, JobsTyped
    <3>2. Count(id, "created")' = Count(id, "created")
      BY <1>2, <1>8, <1>9, <2>0, <2>3, <3>1
    <3> QED BY <1>3, <2>0, <2>3, <3>2 DEF At
  <2> QED BY <1>13, <2>1, <2>2, <2>3, RecoverMoves
<1>14. CASE Mount \/ \E i \in Ids : Grow(i)
  <2>1. job' = job /\ log' = log /\ (row'[id] = "alive" => row[id] = "alive")
    BY <1>0, <1>14 DEF Mount, Grow
  <2> QED BY <1>2, <2>1 DEF CreationStep, Making
<1>15. CASE KillMount \/ \E a \in Gcs \cup Recoverers : Kill(a)
  <2>1. /\ faults' # 0 /\ row' = row /\ log' = log
        /\ job'[Handler] = job[Handler] \/ job'[Handler].op = "idle"
    BY <1>0, <1>15, Dropped
  <2>2. Making(id)' => Making(id) /\ job'[Handler] = job[Handler]
    BY <2>1 DEF Making
  <2> QED BY <1>2, <2>1, <2>2 DEF CreationStep
<1> QED BY <1>10, <1>11, <1>12, <1>13, <1>14, <1>15 DEF Next

\* The creation of a file is announced at most once.
LEMMA CreatedStep ==
    ASSUME TypeOK, JobsTyped, CreatedInv, Next
    PROVE  CreatedInv'
<1>1. SUFFICES ASSUME NEW id \in Ids
               PROVE  /\ row'[id] = "none" => Count(id, "created")' = 0 /\ ~Making(id)'
                      /\ Making(id)' /\ (job'[Handler].pc # "undo" \/ faults' = 0) =>
                            Count(id, "created")' = 0
                      /\ Count(id, "created")' <= 1
  BY DEF CreatedInv
<1>2. /\ row[id] = "none" => Count(id, "created") = 0 /\ ~Making(id)
      /\ Making(id) /\ (job[Handler].pc # "undo" \/ faults = 0) => Count(id, "created") = 0
      /\ Count(id, "created") <= 1
  BY DEF CreatedInv
<1>3. RowMoves(id) /\ CreationStep(id) /\ (faults' = 0 => faults = 0)
  BY RowStep, CreationSteps, FaultStep
<1>4. row'[id] = "none" => row[id] = "none"
  BY <1>3 DEF RowMoves, TypeOK
<1> QED BY <1>2, <1>3, <1>4 DEF CreationStep

------------------------------------------------------------------------------
(* file_deleted *)

\* What a step does to the announcement of a deletion by one process: nothing,
\* or it takes the file up, or it marks the row; the line.
DeletionStep(id, a) ==
    \/ /\ Copies(id, a)' = Copies(id, a)
       /\ Taking(a, id)' => Taking(a, id) \/ row[id] \in {"alive", "expired"}
       /\ Marks(a, id)' => Marks(a, id) \/ row'[id] = "deleted"
       /\ faults' = 0 /\ Marks(a, id) => Marks(a, id)'
    \/ /\ Copies(id, a)' = Copies(id, a) + 1
       /\ Marks(a, id) /\ ~Taking(a, id)' /\ row'[id] = row[id]

\* Every step is one of them, for every process.
LEMMA DeletionSteps ==
    ASSUME TypeOK, JobsTyped, Next, NEW id \in Ids, NEW a \in Actors
    PROVE  DeletionStep(id, a)
<1>0. /\ row \in [Ids -> {"none", "alive", "expired", "deleted"}]
      /\ Handler \in Actors /\ Reapers \subseteq Actors /\ Recoverers \subseteq Actors
      /\ LogTyped /\ Events = {"created", "expired", "recovered", "deleted"}
  BY DEF TypeOK, LogTyped, Actors, Events
<1>1. ASSUME NEW events \in SUBSET (Events \ {"deleted"}), Announces(events)
      PROVE  Copies(id, a)' = Copies(id, a)
  BY <1>0, <1>1, OtherLines
<1>2. (log' = log => Copies(id, a)' = Copies(id, a)) /\ (Lost => log' = log /\ faults' # 0)
  BY NotWritten DEF Lost
<1>3. \A b, e, i : Says(b, e, i) /\ b \in Actors /\ e \in {"created", "expired", "recovered"} /\ i \in Ids =>
         Copies(id, a)' = Copies(id, a)
  <2> SUFFICES ASSUME NEW b \in Actors, NEW e \in {"created", "expired", "recovered"}, NEW i \in Ids,
                      Says(b, e, i)
               PROVE  Copies(id, a)' = Copies(id, a)
    OBVIOUS
  <2>1. Announces({e}) /\ {e} \in SUBSET (Events \ {"deleted"})
    BY <1>0 DEF Announces
  <2> QED BY <1>1, <2>1
<1>4. ASSUME NEW b \in Actors, NEW i \in Ids, Says(b, "deleted", i)
      PROVE  Copies(id, a)' = Copies(id, a) + (IF id = i /\ a = b THEN 1 ELSE 0)
  BY <1>0, <1>4, Written
<1>5. Copies(id, a) \in Nat
  BY <1>0, Counts
\* The job of the process stays the same, ...
<1>6. ASSUME job'[a] = job[a], Copies(id, a)' = Copies(id, a)
      PROVE  DeletionStep(id, a)
  BY <1>6 DEF DeletionStep, Marks, Taking
\* ... becomes one that deletes nothing, ...
<1>7. ASSUME NEW op, NEW pc, NEW i, NEW T, Moved(a, op, pc, i, T), Copies(id, a)' = Copies(id, a),
             op \notin {"unlink", "pass"} \/ (op = "pass" /\ pc = "lines"),
             job[a].pc # "append" \/ job[a].op \notin {"unlink", "pass"} \/ faults' # 0
      PROVE  DeletionStep(id, a)
  <2>1. ~Taking(a, id)' /\ ~Marks(a, id)' /\ (Marks(a, id) => faults' # 0)
    BY <1>7 DEF Moved, Taking, Marks
  <2> QED BY <1>7, <2>1 DEF DeletionStep
\* ... or goes on unlinking.
<1>8. ASSUME NEW pc, NEW T, Moved(a, "unlink", pc, job[a].id, T), Copies(id, a)' = Copies(id, a),
             job[a].op = "unlink", job[a].pc # "append", pc # "append" \/ (job[a].id = id => row'[id] = "deleted")
      PROVE  DeletionStep(id, a)
  <2>1. (Taking(a, id)' <=> Taking(a, id)) /\ (Marks(a, id)' => row'[id] = "deleted") /\ ~Marks(a, id)
    BY <1>8 DEF Moved, Taking, Marks
  <2> QED BY <1>8, <2>1 DEF DeletionStep
<1>9. \A b, op, pc, i, T : Moved(b, op, pc, i, T) /\ b # a => job'[a] = job[a]
  BY DEF Moved
<1>10. \A b, op, i : ExpireDue(b, op, i) => log' = log
  BY DEF ExpireDue
<1>11. ASSUME NEW b \in Actors, LogExpired(b) PROVE DeletionStep(id, a)
  <2>1. /\ job[b].pc = "lines"
        /\ \/ \E i \in job[b].todo : /\ i \in Ids /\ Says(b, "expired", i)
                                     /\ Moved(b, job[b].op, "lines", job[b].id, job[b].todo \ {i})
           \/ /\ Broken(b)
              /\ \/ job[b].op = "create" /\ Moved(b, "create", "undo", job[b].id, job[b].todo)
                 \/ job[b].op # "create" /\ Moved(b, "idle", "start", Nothing, {})
    BY <1>11, LogMoves
  <2>2. Copies(id, a)' = Copies(id, a)
    BY <1>2, <1>3, <2>1 DEF Broken
  <2>3. CASE b # a
    BY <1>6, <1>9, <2>1, <2>2, <2>3
  <2>4. CASE b = a /\ job[a].op = "unlink"
    <3>1. CASE Moved(a, "idle", "start", Nothing, {})
      BY <1>7, <2>1, <2>2, <2>4, <3>1
    <3>2. ASSUME NEW i, Moved(a, "unlink", "lines", job[a].id, job[a].todo \ {i})
          PROVE  DeletionStep(id, a)
      BY <1>8, <2>1, <2>2, <2>4, <3>2
    <3> QED BY <2>1, <2>4, <3>1, <3>2
  <2>5. CASE b = a /\ job[a].op # "unlink"
    BY <1>7, <2>1, <2>2, <2>5
  <2> QED BY <2>3, <2>4, <2>5
<1>12. CASE Session
  <2>2. ASSUME NEW i \in Ids, CreateInsert(i) PROVE DeletionStep(id, a)
    BY <1>0, <1>2, <1>6, <1>7, <1>9, <2>2, CreateMoves
  <2>3. CASE CreateOpen
    BY <1>0, <1>2, <1>6, <1>7, <1>9, <2>3, CreateMoves DEF At
  <2>4. CASE CreateAttr
    BY <1>0, <1>2, <1>6, <1>7, <1>9, <1>10, <2>4, CreateMoves DEF At
  <2>5. CASE CreateAppend
    <3>1. At(Handler, "create", "lines") /\ job[Handler].id \in Ids
      BY <1>0, <2>5, CreateMoves DEF At, JobsTyped
    <3>2. Copies(id, a)' = Copies(id, a)
      BY <1>0, <1>2, <1>3, <2>5, <3>1, CreateMoves
    <3> QED BY <1>0, <1>6, <1>7, <1>9, <2>5, <3>1, <3>2, CreateMoves DEF At
  <2>6. CASE CreateUndo
    BY <1>0, <1>2, <1>6, <1>7, <1>9, <2>6, CreateMoves DEF At
  <2>7. CASE Access
    BY <1>0, <1>2, <1>6, <1>7, <1>9, <1>10, <2>7, UnlinkMoves
  <2>8. CASE AccessEnd
    BY <1>0, <1>2, <1>6, <1>7, <1>9, <2>8, UnlinkMoves DEF At
  <2>9. ASSUME NEW i \in Ids, UnlinkStart(i) PROVE DeletionStep(id, a)
    <3>1. /\ job[Handler].op = "idle" /\ row[i] = "alive" /\ log' = log
          /\ Moved(Handler, "unlink", "lines", i, DueRows)
      BY <1>10, <2>9, UnlinkMoves
    <3>2. CASE Handler # a
      BY <1>2, <1>6, <1>9, <3>1, <3>2
    <3>3. CASE Handler = a
      <4>1. (Taking(a, id)' => id = i) /\ ~Marks(a, id)' /\ ~Marks(a, id)
        BY <3>1, <3>3 DEF Moved, Taking, Marks
      <4> QED BY <1>2, <3>1, <4>1 DEF DeletionStep
    <3> QED BY <3>2, <3>3
  <2>10. CASE UnlinkCheck \/ UnlinkRemove
    <3>1. /\ job[Handler].op = "unlink" /\ job[Handler].pc # "append" /\ log' = log
          /\ \/ Moved(Handler, "idle", "start", Nothing, {})
             \/ \E pc : pc # "append" /\ Moved(Handler, "unlink", pc, job[Handler].id, job[Handler].todo)
      BY <2>10, UnlinkMoves
    <3>2. CASE Handler # a
      BY <1>2, <1>6, <1>9, <3>1, <3>2
    <3>3. CASE Handler = a
      BY <1>2, <1>7, <1>8, <3>1, <3>3
    <3> QED BY <3>2, <3>3
  <2>11. CASE UnlinkMark
    <3>1. /\ At(Handler, "unlink", "mark") /\ log' = log /\ row' = Marked(job[Handler].id)
          /\ Moved(Handler, "unlink", "append", job[Handler].id, job[Handler].todo)
      BY <2>11, UnlinkMoves
    <3>2. job[Handler].id = id => row'[id] = "deleted"
      BY <1>0, <3>1 DEF Marked
    <3>3. CASE Handler # a
      BY <1>2, <1>6, <1>9, <3>1, <3>3
    <3>4. CASE Handler = a
      BY <1>2, <1>8, <3>1, <3>2, <3>4 DEF At
    <3> QED BY <3>3, <3>4
  <2>12. CASE UnlinkAppend
    <3>1. /\ job[Handler].op = "unlink" /\ job[Handler].pc = "append" /\ row' = row
          /\ Says(Handler, "deleted", job[Handler].id) \/ Lost
          /\ Moved(Handler, "idle", "start", Nothing, {})
      BY <2>12, UnlinkMoves DEF At
    <3>2. job[Handler].id \in Ids
      BY <1>0, <3>1 DEF JobsTyped
    <3>3. CASE Handler # a
      BY <1>0, <1>2, <1>4, <1>5, <1>6, <1>9, <3>1, <3>2, <3>3
    <3>4. CASE Handler = a /\ Lost
      BY <1>2, <1>7, <3>1, <3>4
    <3>5. CASE Handler = a /\ Says(Handler, "deleted", job[Handler].id)
      <4>1. Copies(id, a)' = Copies(id, a) + (IF id = job[a].id THEN 1 ELSE 0)
        BY <1>0, <1>4, <3>2, <3>5
      <4>2. ~Taking(a, id)' /\ ~Marks(a, id)' /\ (Marks(a, id) <=> id = job[a].id)
        BY <3>1, <3>5 DEF Moved, Taking, Marks
      <4> QED BY <1>5, <3>1, <4>1, <4>2 DEF DeletionStep
    <3> QED BY <3>1, <3>3, <3>4, <3>5
  <2> QED BY <1>12, <2>2, <2>3, <2>4, <2>5, <2>6, <2>7, <2>8, <2>9, <2>10, <2>11, <2>12 DEF Session
<1>13. ASSUME NEW r \in Reapers, Pass(r) PROVE DeletionStep(id, a)
  <2>0. r \in Actors
    BY <1>0
  <2>1. CASE ExpireDue(r, "pass", Nothing) /\ job[r].op = "idle" /\ Moved(r, "pass", "lines", Nothing, DueRows)
    BY <1>2, <1>6, <1>7, <1>9, <1>10, <2>0, <2>1
  <2>2. CASE /\ At(r, "pass", "lines") /\ row' = row /\ log' = log
             /\ \/ Moved(r, "idle", "start", Nothing, {})
                \/ Moved(r, "pass", "remove", job[r].id, Candidates)
    <3>1. CASE r # a
      BY <1>2, <1>6, <1>9, <2>2, <3>1
    <3>2. CASE r = a /\ Moved(r, "idle", "start", Nothing, {})
      BY <1>2, <1>7, <2>2, <3>2 DEF At
    <3>3. CASE r = a /\ Moved(r, "pass", "remove", job[r].id, Candidates)
      <4>1. (Taking(a, id)' => row[id] = "expired") /\ ~Marks(a, id)' /\ ~Marks(a, id)
        BY <2>2, <3>3 DEF Moved, Taking, Marks, Candidates, At
      <4> QED BY <1>2, <2>2, <4>1 DEF DeletionStep
    <3> QED BY <2>2, <3>1, <3>2, <3>3
  <2>3. ASSUME At(r, "pass", "remove"), log' = log, NEW i \in job[r].todo,
               Moved(r, "pass", "mark", i, job[r].todo \ {i})
        PROVE  DeletionStep(id, a)
    <3>1. CASE r # a
      BY <1>2, <1>6, <1>9, <2>3, <3>1
    <3>2. CASE r = a
      <4>1. (Taking(a, id)' => Taking(a, id)) /\ ~Marks(a, id)' /\ ~Marks(a, id)
        BY <2>3, <3>2 DEF Moved, Taking, Marks, At
      <4> QED BY <1>2, <2>3, <4>1 DEF DeletionStep
    <3> QED BY <3>1, <3>2
  <2>4. CASE /\ At(r, "pass", "mark") /\ row' = Marked(job[r].id) /\ log' = log
             /\ Moved(r, "pass", "append", job[r].id, job[r].todo)
    <3>1. CASE r # a
      BY <1>2, <1>6, <1>9, <2>4, <3>1
    <3>2. CASE r = a
      <4>1. (Taking(a, id)' => Taking(a, id)) /\ (Marks(a, id)' => job[r].id = id) /\ ~Marks(a, id)
        BY <2>4, <3>2 DEF Moved, Taking, Marks, At
      <4>2. job[r].id = id => row'[id] = "deleted"
        BY <1>0, <2>4 DEF Marked
      <4> QED BY <1>2, <2>4, <4>1, <4>2 DEF DeletionStep
    <3> QED BY <3>1, <3>2
  <2>5. CASE /\ At(r, "pass", "append") /\ row' = row
             /\ \/ /\ Says(r, "deleted", job[r].id)
                   /\ \/ Moved(r, "idle", "start", Nothing, {})
                      \/ Moved(r, "pass", "remove", job[r].id, job[r].todo)
                \/ Lost /\ Moved(r, "idle", "start", Nothing, {})
    <3>1. job[r].id \in Ids \ job[r].todo /\ job[r].op = "pass" /\ job[r].pc = "append"
      BY <2>0, <2>5 DEF At, JobsTyped
    <3>2. CASE r # a
      BY <1>2, <1>4, <1>5, <1>6, <1>9, <2>0, <2>5, <3>1, <3>2
    <3>3. CASE r = a /\ Lost /\ Moved(r, "idle", "start", Nothing, {})
      BY <1>2, <1>7, <2>5, <3>3
    <3>4. CASE r = a /\ Says(r, "deleted", job[r].id)
      <4>1. Copies(id, a)' = Copies(id, a) + (IF id = job[a].id THEN 1 ELSE 0)
        BY <1>4, <2>0, <3>1, <3>4
      <4>2. ~Marks(a, id)' /\ (Marks(a, id) <=> id = job[a].id)
        BY <2>5, <3>1, <3>4 DEF Moved, Taking, Marks
      <4>3. Taking(a, id)' => id # job[a].id /\ Taking(a, id)
        BY <2>5, <3>1, <3>4 DEF Moved, Taking
      <4> QED BY <1>5, <2>5, <4>1, <4>2, <4>3 DEF DeletionStep
    <3> QED BY <2>5, <3>2, <3>3, <3>4
  <2> QED BY <1>13, <2>1, <2>2, <2>3, <2>4, <2>5, PassMoves
<1>14. ASSUME NEW c \in Recoverers, Recover(c) PROVE DeletionStep(id, a)
  <2>0. c \in Actors
    BY <1>0
  <2>1. ASSUME NEW i \in Ids, ExpireDue(c, "recover", i), job[c].op = "idle",
               Moved(c, "recover", "lines", i, DueRows)
        PROVE  DeletionStep(id, a)
    BY <1>2, <1>6, <1>7, <1>9, <1>10, <2>0, <2>1
  <2>2. CASE At(c, "recover", "lines") /\ row' = row /\ log' = log
    <3>1. \E op, pc, i, T : op \notin {"unlink", "pass"} /\ Moved(c, op, pc, i, T)
      BY <1>14, <2>2, RecoverMoves DEF At
    <3>2. job[c].op = "recover"
      BY <2>2 DEF At
    <3>3. CASE c # a
      BY <1>2, <1>6, <1>9, <2>2, <3>1, <3>3
    <3>4. CASE c = a
      BY <1>2, <1>7, <2>2, <3>1, <3>2, <3>4
    <3> QED BY <3>3, <3>4
  <2>3. CASE /\ At(c, "recover", "append") /\ row' = row
             /\ Says(c, "recovered", job[c].id) \/ Lost
             /\ Moved(c, "idle", "start", Nothing, {})
    <3>1. job[c].id \in Ids /\ job[c].op = "recover"
      BY <2>0, <2>3 DEF At, JobsTyped
    <3>2. Copies(id, a)' = Copies(id, a)
      BY <1>2, <1>3, <2>0, <2>3, <3>1
    <3> QED BY <1>6, <1>7, <1>9, <2>3, <3>1, <3>2
  <2> QED BY <1>14, <2>1, <2>2, <2>3, RecoverMoves
<1>15. CASE Mount \/ \E i \in Ids : Grow(i)
  <2>1. job' = job /\ log' = log
    BY <1>15 DEF Mount, Grow
  <2> QED BY <1>2, <1>6, <2>1
<1>16. CASE KillMount \/ \E b \in Gcs \cup Recoverers : Kill(b)
  <2>1. /\ faults' # 0 /\ log' = log
        /\ job'[a] = job[a] \/ job'[a].op = "idle"
    BY <1>16, Dropped
  <2>2. (Taking(a, id)' => Taking(a, id)) /\ (Marks(a, id)' => Marks(a, id))
    BY <2>1 DEF Taking, Marks
  <2> QED BY <1>2, <2>1, <2>2 DEF DeletionStep
<1> QED BY <1>11, <1>12, <1>13, <1>14, <1>15, <1>16 DEF Next

\* No process announces the deletion of a file twice, and none before it is
\* marked.
LEMMA DeletedStep ==
    ASSUME TypeOK, JobsTyped, DeletedInv, Next
    PROVE  DeletedInv'
<1>1. SUFFICES ASSUME NEW id \in Ids, NEW a \in Actors
               PROVE  /\ Copies(id, a)' # 0 => row'[id] = "deleted"
                      /\ Taking(a, id)' => Copies(id, a)' = 0 /\ row'[id] # "none"
                      /\ Marks(a, id)' => row'[id] = "deleted"
                      /\ Copies(id, a)' <= 1
  BY DEF DeletedInv
<1>2. /\ Copies(id, a) # 0 => row[id] = "deleted"
      /\ Taking(a, id) => Copies(id, a) = 0 /\ row[id] # "none"
      /\ Marks(a, id) => row[id] = "deleted"
      /\ Copies(id, a) <= 1
  BY DEF DeletedInv
<1>3. RowMoves(id) /\ DeletionStep(id, a)
  BY RowStep, DeletionSteps
<1>4. (row'[id] = "none" => row[id] = "none") /\ (row[id] = "deleted" => row'[id] = "deleted")
  BY <1>3 DEF RowMoves, TypeOK
<1>5. (Marks(a, id) => Taking(a, id)) /\ (Marks(a, id)' => Taking(a, id)')
  BY DEF Marks
<1> QED BY <1>2, <1>3, <1>4, <1>5 DEF DeletionStep

\* A row becomes deleted by a process that is about to announce it, by the
\* undo of a create, or by a mount.
LEMMA Deletions ==
    ASSUME TypeOK, JobsTyped, Next, NEW id \in Ids, row'[id] = "deleted", row[id] # "deleted"
    PROVE  \/ \E a \in Actors : Marks(a, id)'
           \/ Making(id)
           \/ ~up /\ row[id] # "none"
<1>0. /\ row \in [Ids -> {"none", "alive", "expired", "deleted"}]
      /\ Handler \in Actors /\ Reapers \subseteq Actors /\ Recoverers \subseteq Actors
  BY DEF TypeOK, Actors
<1>1. \A i : row' = Marked(i) => i = id
  BY <1>0 DEF Marked
<1>2. \A a, op, i : ~ExpireDue(a, op, i) /\ row' # row
  BY <1>0 DEF ExpireDue, DueRows
<1>3. ~\E a \in Actors : LogExpired(a)
  BY DEF LogExpired
<1>4. CASE Session
  <2>1. CASE CreateUndo
    BY <1>1, <2>1, CreateMoves DEF At, Making
  <2>2. CASE UnlinkMark
    <3>1. Moved(Handler, "unlink", "append", job[Handler].id, job[Handler].todo) /\ job[Handler].id = id
      BY <1>1, <2>2, UnlinkMoves
    <3>2. Marks(Handler, id)'
      BY <3>1 DEF Moved, Marks, Taking
    <3> QED BY <1>0, <3>2
  <2>3. ASSUME NEW i \in Ids, CreateInsert(i) PROVE FALSE
    BY <1>0, <2>3 DEF CreateInsert
  <2>4. CASE CreateOpen \/ CreateAttr \/ CreateAppend
    BY <1>2, <2>4 DEF CreateOpen, CreateAttr, CreateAppend
  <2>5. ASSUME NEW i \in Ids, UnlinkStart(i) PROVE FALSE
    BY <1>2, <2>5 DEF UnlinkStart
  <2>6. CASE Access \/ AccessEnd \/ UnlinkCheck \/ UnlinkRemove \/ UnlinkAppend
    BY <1>2, <2>6 DEF Access, AccessEnd, UnlinkCheck, UnlinkRemove, UnlinkAppend
  <2> QED BY <1>4, <2>1, <2>2, <2>3, <2>4, <2>5, <2>6 DEF Session
<1>5. ASSUME NEW r \in Reapers, Pass(r) PROVE \E a \in Actors : Marks(a, id)'
  <2>0. r \in Actors
    BY <1>0
  <2>1. /\ row' = Marked(job[r].id)
        /\ Moved(r, "pass", "append", job[r].id, job[r].todo)
    BY <1>2, <1>5, PassMoves
  <2>2. Marks(r, id)'
    BY <1>1, <2>1 DEF Moved, Marks, Taking
  <2> QED BY <2>0, <2>2
<1>6. ASSUME NEW c \in Recoverers, Recover(c) PROVE FALSE
  BY <1>2, <1>6, RecoverMoves
<1>7. CASE Mount
  BY <1>0, <1>7 DEF Mount
<1>8. CASE KillMount \/ (\E i \in Ids : Grow(i)) \/ \E a \in Gcs \cup Recoverers : Kill(a)
  BY <1>2, <1>8 DEF KillMount, Grow, Kill
<1> QED BY <1>3, <1>4, <1>5, <1>6, <1>7, <1>8 DEF Next

------------------------------------------------------------------------------
(* file_recovered *)

\* What a step does to the announcement of a recovery: nothing, or a recoverer
\* is killed or fails; the export; the line.
RecoveryStep(id) ==
    \/ /\ Count(id, "recovered")' = Count(id, "recovered") /\ published'[id] = published[id]
       /\ Publishing(id)' \subseteq Publishing(id)
       /\ faults' = 0 => Publishing(id)' = Publishing(id)
    \/ /\ Count(id, "recovered")' = Count(id, "recovered") /\ published'[id] = published[id] + 1
       /\ \E c \in Recoverers \ Publishing(id) : Publishing(id)' = Publishing(id) \cup {c}
    \/ /\ Count(id, "recovered")' = Count(id, "recovered") + 1 /\ published'[id] = published[id]
       /\ \E c \in Publishing(id) : Publishing(id)' = Publishing(id) \ {c}

\* Every step is one of them.
LEMMA RecoverySteps ==
    ASSUME TypeOK, JobsTyped, Next, NEW id \in Ids
    PROVE  RecoveryStep(id)
<1>0. /\ published \in [Ids -> 0..MaxRecoveries]
      /\ Handler \in Actors /\ Reapers \subseteq Actors /\ Recoverers \subseteq Actors
      /\ LogTyped /\ Events = {"created", "expired", "recovered", "deleted"}
  BY DEF TypeOK, LogTyped, Actors, Events
<1>1. ASSUME NEW events \in SUBSET (Events \ {"recovered"}), Announces(events)
      PROVE  Count(id, "recovered")' = Count(id, "recovered")
  <2>1. "recovered" \in Events \ ({"deleted"} \cup events)
    BY <1>0
  <2> QED BY <1>0, <1>1, <2>1, OtherLines
<1>2. (log' = log => Count(id, "recovered")' = Count(id, "recovered")) /\ (Lost => log' = log /\ faults' # 0)
  BY NotWritten DEF Lost
<1>3. \A b, e, i : Says(b, e, i) /\ b \in Actors /\ e \in {"created", "expired", "deleted"} /\ i \in Ids =>
         Count(id, "recovered")' = Count(id, "recovered")
  <2> SUFFICES ASSUME NEW b \in Actors, NEW e \in {"created", "expired", "deleted"}, NEW i \in Ids,
                      Says(b, e, i)
               PROVE  Count(id, "recovered")' = Count(id, "recovered")
    OBVIOUS
  <2>1. Announces({e}) /\ {e} \in SUBSET (Events \ {"recovered"})
    BY <1>0 DEF Announces
  <2> QED BY <1>1, <2>1
\* The process is not, and does not come, to the line of a recovery.
<1>4. ASSUME NEW a \in Actors, NEW op, NEW pc, NEW i, NEW T, Moved(a, op, pc, i, T),
             job[a].op # "recover" \/ job[a].pc # "append", op # "recover" \/ pc # "append",
             Count(id, "recovered")' = Count(id, "recovered"), published' = published
      PROVE  RecoveryStep(id)
  <2>1. \A c \in Recoverers : c \in Publishing(id)' <=> c \in Publishing(id)
    <3> SUFFICES ASSUME NEW c \in Recoverers PROVE c \in Publishing(id)' <=> c \in Publishing(id)
      OBVIOUS
    <3>1. CASE c = a
      BY <1>4, <3>1 DEF Moved, Publishing, At
    <3>2. CASE c # a
      BY <1>0, <1>4, <3>2 DEF Moved, Publishing, At
    <3> QED BY <3>1, <3>2
  <2>2. Publishing(id)' = Publishing(id)
    BY <2>1 DEF Publishing
  <2> QED BY <1>4, <2>2 DEF RecoveryStep
<1>5. \A b, op, i : ExpireDue(b, op, i) => log' = log /\ published' = published
  BY DEF ExpireDue
<1>6. ASSUME NEW a \in Actors, LogExpired(a) PROVE RecoveryStep(id)
  <2>1. /\ job[a].pc = "lines" /\ published' = published
        /\ \/ \E i \in job[a].todo : /\ i \in Ids /\ Says(a, "expired", i)
                                     /\ Moved(a, job[a].op, "lines", job[a].id, job[a].todo \ {i})
           \/ /\ Broken(a)
              /\ \/ job[a].op = "create" /\ Moved(a, "create", "undo", job[a].id, job[a].todo)
                 \/ job[a].op # "create" /\ Moved(a, "idle", "start", Nothing, {})
    BY <1>6, LogMoves
  <2>2. Count(id, "recovered")' = Count(id, "recovered")
    BY <1>2, <1>3, <2>1 DEF Broken
  <2>3. \E op, pc, i, T : pc # "append" /\ Moved(a, op, pc, i, T)
    BY <2>1
  <2> QED BY <1>4, <2>1, <2>2, <2>3
<1>7. CASE Session
  <2>1. published' = published
    BY <1>7 DEF Session, Access, AccessEnd, CreateInsert, CreateOpen, CreateAttr, CreateAppend, CreateUndo,
                UnlinkStart, UnlinkCheck, UnlinkRemove, UnlinkMark, UnlinkAppend, ExpireDue
  <2>2. ASSUME NEW i \in Ids, CreateInsert(i) PROVE RecoveryStep(id)
    BY <1>0, <1>2, <1>4, <2>1, <2>2, CreateMoves
  <2>3. CASE CreateOpen \/ CreateAttr \/ CreateUndo
    <3>1. /\ job[Handler].op = "create" /\ log' = log
          /\ \E op, pc, i, T : pc # "append" /\ Moved(Handler, op, pc, i, T)
      BY <1>5, <2>3, CreateMoves DEF At
    <3> QED BY <1>0, <1>2, <1>4, <2>1, <3>1
  <2>4. CASE CreateAppend
    <3>1. /\ job[Handler].op = "create" /\ job[Handler].id \in Ids
          /\ log' = log \/ Says(Handler, "created", job[Handler].id)
          /\ \E op, pc, i, T : pc # "append" /\ Moved(Handler, op, pc, i, T)
      BY <1>0, <1>2, <2>4, CreateMoves DEF At, JobsTyped
    <3>2. Count(id, "recovered")' = Count(id, "recovered")
      BY <1>0, <1>2, <1>3, <3>1
    <3> QED BY <1>0, <1>4, <2>1, <3>1, <3>2
  <2>5. CASE Access \/ \E i \in Ids : UnlinkStart(i)
    <3>1. /\ job[Handler].op = "idle" /\ log' = log
          /\ \E op, pc, i, T : pc # "append" /\ Moved(Handler, op, pc, i, T)
      BY <1>5, <2>5, UnlinkMoves
    <3> QED BY <1>0, <1>2, <1>4, <2>1, <3>1
  <2>6. CASE AccessEnd \/ UnlinkCheck \/ UnlinkRemove \/ UnlinkMark
    <3>1. /\ job[Handler].op \in {"access", "unlink"} /\ log' = log
          /\ \E op, pc, i, T : op # "recover" /\ Moved(Handler, op, pc, i, T)
      BY <2>6, UnlinkMoves DEF At
    <3> QED BY <1>0, <1>2, <1>4, <2>1, <3>1
  <2>7. CASE UnlinkAppend
    <3>1. /\ job[Handler].op = "unlink" /\ job[Handler].id \in Ids
          /\ log' = log \/ Says(Handler, "deleted", job[Handler].id)
          /\ Moved(Handler, "idle", "start", Nothing, {})
      BY <1>0, <1>2, <2>7, UnlinkMoves DEF At, JobsTyped
    <3>2. Count(id, "recovered")' = Count(id, "recovered")
      BY <1>0, <1>2, <1>3, <3>1
    <3> QED BY <1>0, <1>4, <2>1, <3>1, <3>2
  <2> QED BY <1>7, <2>2, <2>3, <2>4, <2>5, <2>6, <2>7 DEF Session
<1>8. ASSUME NEW r \in Reapers, Pass(r) PROVE RecoveryStep(id)
  <2>0. r \in Actors
    BY <1>0
  <2>1. /\ published' = published /\ job[r].op \in {"idle", "pass"}
        /\ log' = log \/ (job[r].op = "pass" /\ job[r].pc = "append" /\ Says(r, "deleted", job[r].id))
        /\ \E op, pc, i, T : op # "recover" /\ Moved(r, op, pc, i, T)
    BY <1>2, <1>5, <1>8, PassMoves DEF At
  <2>2. job[r].op = "pass" /\ job[r].pc = "append" => job[r].id \in Ids
    BY <2>0 DEF JobsTyped
  <2>3. Count(id, "recovered")' = Count(id, "recovered")
    BY <1>2, <1>3, <2>0, <2>1, <2>2
  <2> QED BY <1>4, <2>0, <2>1, <2>3
<1>9. ASSUME NEW c \in Recoverers, Recover(c) PROVE RecoveryStep(id)
  <2>0. c \in Actors
    BY <1>0
  <2>1. ASSUME NEW i \in Ids, ExpireDue(c, "recover", i), job[c].op = "idle",
               Moved(c, "recover", "lines", i, DueRows)
        PROVE  RecoveryStep(id)
    BY <1>2, <1>4, <1>5, <2>0, <2>1
  <2>2. CASE At(c, "recover", "lines") /\ log' = log /\ Moved(c, "idle", "start", Nothing, {})
             /\ published' = published
    BY <1>2, <1>4, <2>0, <2>2 DEF At
  <2>3. CASE /\ At(c, "recover", "lines") /\ log' = log
             /\ Moved(c, "recover", "append", job[c].id, job[c].todo)
             /\ published' = [published EXCEPT ![job[c].id] = @ + 1]
    <3>1. job[c].id \in Ids /\ c \notin Publishing(id)
      BY <2>0, <2>3 DEF At, JobsTyped, Publishing
    <3>2. \A d \in Recoverers : d \in Publishing(id)' <=> d \in Publishing(id) \/ (d = c /\ job[c].id = id)
      <4> SUFFICES ASSUME NEW d \in Recoverers
                   PROVE  d \in Publishing(id)' <=> d \in Publishing(id) \/ (d = c /\ job[c].id = id)
        OBVIOUS
      <4>1. CASE d = c
        BY <2>3, <4>1 DEF Moved, Publishing, At
      <4>2. CASE d # c
        BY <1>0, <2>3, <4>2 DEF Moved, Publishing, At
      <4> QED BY <4>1, <4>2
    <3>3. CASE job[c].id = id
      <4>1. Publishing(id)' = Publishing(id) \cup {c}
        BY <3>2, <3>3 DEF Publishing
      <4>2. published'[id] = published[id] + 1
        BY <1>0, <2>3, <3>3
      <4> QED BY <1>2, <2>3, <3>1, <4>1, <4>2 DEF RecoveryStep
    <3>4. CASE job[c].id # id
      <4>1. Publishing(id)' = Publishing(id)
        BY <3>2, <3>4 DEF Publishing
      <4>2. published'[id] = published[id]
        BY <1>0, <2>3, <3>4
      <4> QED BY <1>2, <2>3, <4>1, <4>2 DEF RecoveryStep
    <3> QED BY <3>3, <3>4
  <2>4. CASE /\ At(c, "recover", "append") /\ published' = published
             /\ Says(c, "recovered", job[c].id) \/ Lost
             /\ Moved(c, "idle", "start", Nothing, {})
    <3>1. job[c].id \in Ids
      BY <2>0, <2>4 DEF At, JobsTyped
    <3>2. \A d \in Recoverers : d \in Publishing(id)' <=> d \in Publishing(id) /\ d # c
      <4> SUFFICES ASSUME NEW d \in Recoverers
                   PROVE  d \in Publishing(id)' <=> d \in Publishing(id) /\ d # c
        OBVIOUS
      <4>1. CASE d = c
        BY <2>4, <4>1 DEF Moved, Publishing, At
      <4>2. CASE d # c
        BY <1>0, <2>4, <4>2 DEF Moved, Publishing, At
      <4> QED BY <4>1, <4>2
    <3>3. Publishing(id)' = Publishing(id) \ {c}
      BY <3>2 DEF Publishing
    <3>4. c \in Publishing(id) <=> job[c].id = id
      BY <2>4 DEF Publishing, At
    <3>5. CASE Lost
      BY <1>2, <2>4, <3>3, <3>5 DEF RecoveryStep
    <3>6. CASE Says(c, "recovered", job[c].id)
      <4>1. Count(id, "recovered")' = Count(id, "recovered") + (IF id = job[c].id THEN 1 ELSE 0)
        BY <1>0, <2>0, <3>1, <3>6, Written
      <4>2. Count(id, "recovered") \in Nat
        BY <1>0, Counts
      <4>3. CASE job[c].id = id
        BY <2>4, <3>3, <3>4, <4>1, <4>3 DEF RecoveryStep
      <4>4. CASE job[c].id # id
        <5>1. Publishing(id)' = Publishing(id)
          BY <3>3, <3>4, <4>4
        <5> QED BY <2>4, <4>1, <4>2, <4>4, <5>1 DEF RecoveryStep
      <4> QED BY <4>3, <4>4
    <3> QED BY <2>4, <3>5, <3>6
  <2> QED BY <1>9, <2>1, <2>2, <2>3, <2>4, RecoverMoves
<1>10. CASE Mount \/ \E i \in Ids : Grow(i)
  <2>1. job' = job /\ log' = log /\ published' = published
    BY <1>10 DEF Mount, Grow
  <2> QED BY <1>2, <2>1 DEF RecoveryStep, Publishing, At
<1>11. CASE KillMount \/ \E b \in Gcs \cup Recoverers : Kill(b)
  <2>1. /\ faults' # 0 /\ log' = log /\ published' = published
        /\ \A a \in Actors : job'[a] = job[a] \/ job'[a].op = "idle"
    BY <1>11, Dropped
  <2>2. Publishing(id)' \subseteq Publishing(id)
    BY <1>0, <2>1 DEF Publishing, At
  <2> QED BY <1>2, <2>1, <2>2 DEF RecoveryStep
<1> QED BY <1>6, <1>7, <1>8, <1>9, <1>10, <1>11 DEF Next

\* A recovery is announced for every export but those whose recoverer was
\* killed or failed, or is just about to.
LEMMA RecoveredStep ==
    ASSUME TypeOK, JobsTyped, RecoveredInv, Next
    PROVE  /\ RecoveredInv'
           /\ \A id \in Ids :
                 /\ faults' = 0
                 /\ Count(id, "recovered") + Cardinality(Publishing(id)) = published[id]
                 => Count(id, "recovered")' + Cardinality(Publishing(id)') = published'[id]
<1> SUFFICES ASSUME NEW id \in Ids
             PROVE  /\ IsFiniteSet(Publishing(id)')
                    /\ Count(id, "recovered")' + Cardinality(Publishing(id)') <= published'[id]
                    /\ /\ faults' = 0
                       /\ Count(id, "recovered") + Cardinality(Publishing(id)) = published[id]
                       => Count(id, "recovered")' + Cardinality(Publishing(id)') = published'[id]
  BY DEF RecoveredInv
<1> DEFINE P == Publishing(id)
           Q == Publishing(id)'
           n == Count(id, "recovered")
           m == Count(id, "recovered")'
<1>1. /\ IsFiniteSet(P) /\ n + Cardinality(P) <= published[id]
      /\ n \in Nat /\ published[id] \in Nat /\ Cardinality(P) \in Nat
  <2>1. LogTyped /\ published[id] \in Nat
    BY AuditAssumption DEF TypeOK, LogTyped
  <2>2. IsFiniteSet(P) /\ n + Cardinality(P) <= published[id]
    BY DEF RecoveredInv
  <2> QED BY <2>1, <2>2, Counts, FS_CardinalityType
<1>2. \/ m = n /\ published'[id] = published[id] /\ Q \subseteq P /\ (faults' = 0 => Q = P)
      \/ m = n /\ published'[id] = published[id] + 1 /\ \E c \in Recoverers \ P : Q = P \cup {c}
      \/ m = n + 1 /\ published'[id] = published[id] /\ \E c \in P : Q = P \ {c}
  BY RecoverySteps DEF RecoveryStep
<1> HIDE DEF P, Q, n, m
<1>3. CASE m = n /\ published'[id] = published[id] /\ Q \subseteq P /\ (faults' = 0 => Q = P)
  <2>1. IsFiniteSet(Q) /\ Cardinality(Q) <= Cardinality(P) /\ Cardinality(Q) \in Nat
    BY <1>1, <1>3, FS_Subset, FS_CardinalityType
  <2> QED BY <1>1, <1>3, <2>1 DEF P, Q, n, m
<1>4. CASE m = n /\ published'[id] = published[id] + 1 /\ \E c \in Recoverers \ P : Q = P \cup {c}
  <2>1. IsFiniteSet(Q) /\ Cardinality(Q) = Cardinality(P) + 1
    BY <1>1, <1>4, FS_AddElement
  <2> QED BY <1>1, <1>4, <2>1 DEF P, Q, n, m
<1>5. CASE m = n + 1 /\ published'[id] = published[id] /\ \E c \in P : Q = P \ {c}
  <2>1. IsFiniteSet(Q) /\ Cardinality(Q) = Cardinality(P) - 1
    BY <1>1, <1>5, FS_RemoveElement
  <2> QED BY <1>1, <1>5, <2>1 DEF P, Q, n, m
<1> QED BY <1>2, <1>3, <1>4, <1>5

------------------------------------------------------------------------------
(* Nothing is missing without a fault *)

\* The mount goes down by a kill.
LEMMA UpStep ==
    ASSUME Next
    PROVE  up' = up \/ up' = TRUE \/ Fault
BY DEF Next, Session, Pass, Recover, LogExpired, Access, AccessEnd, CreateInsert, CreateOpen, CreateAttr,
       CreateAppend, CreateUndo, UnlinkStart, UnlinkCheck, UnlinkRemove, UnlinkMark, UnlinkAppend,
       PassStart, PassSelect, PassRemove, PassMark, PassAppend, RecoverStart, RecoverPublish,
       RecoverAppend, Mount, KillMount, Kill, ExpireDue, Grow

\* As long as nothing was killed and no append failed, what is not in the log
\* is some process's to write.
LEMMA CompleteStep ==
    ASSUME AuditInv, Next
    PROVE  CompleteInv'
<1> SUFFICES ASSUME faults' = 0
             PROVE  /\ ~up' => \A id \in Ids : row'[id] = "none"
                    /\ \A id \in Ids :
                          /\ row'[id] = "alive" => Count(id, "created")' # 0 \/ Making(id)'
                          /\ row'[id] = "expired" =>
                                Count(id, "expired")' # 0 \/ \E a \in Actors : Owes(a, id)'
                          /\ Count(id, "recovered")' + Cardinality(Publishing(id)') = published'[id]
                          /\ row'[id] = "deleted" /\ Count(id, "created")' # 0 =>
                                \E a \in Actors : Copies(id, a)' # 0 \/ Marks(a, id)'
  BY DEF CompleteInv
<1>0. TypeOK /\ JobsTyped /\ ExpiredInv /\ CreatedInv /\ DeletedInv /\ RecoveredInv /\ CompleteInv
  BY DEF AuditInv
<1>1. faults = 0 /\ ~Fault
  BY <1>0, FaultStep
<1>2. /\ ~up => \A id \in Ids : row[id] = "none"
      /\ \A id \in Ids :
            /\ row[id] = "alive" => Count(id, "created") # 0 \/ Making(id)
            /\ row[id] = "expired" => Count(id, "expired") # 0 \/ \E a \in Actors : Owes(a, id)
            /\ Count(id, "recovered") + Cardinality(Publishing(id)) = published[id]
            /\ row[id] = "deleted" /\ Count(id, "created") # 0 =>
                  \E a \in Actors : Copies(id, a) # 0 \/ Marks(a, id)
  BY <1>0, <1>1 DEF CompleteInv
<1>3. \A id \in Ids :
         /\ RowMoves(id) /\ ExpiryStep(id) /\ CreationStep(id)
         /\ \A a \in Actors : DeletionStep(id, a)
         /\ Count(id, "created") \in Nat /\ Count(id, "expired") \in Nat
         /\ \A a \in Actors : Copies(id, a) \in Nat
  <2>1. LogTyped
    BY <1>0 DEF TypeOK, LogTyped
  <2> QED BY <1>0, <2>1, RowStep, ExpirySteps, CreationSteps, DeletionSteps, Counts
<1>4. \A id \in Ids : /\ row[id] \in {"none", "alive", "expired", "deleted"}
                      /\ row[id] = "none" => Count(id, "created") = 0 /\ ~Making(id)
                      /\ Making(id) => Count(id, "created") = 0
  BY <1>0, <1>1 DEF TypeOK, CreatedInv
<1>5. \A id \in Ids, a \in Actors : /\ Taking(a, id) => row[id] # "none"
                                    /\ Marks(a, id)' => Taking(a, id)'
  BY <1>0 DEF DeletedInv, Marks
<1>6. \A id \in Ids : row[id] = "none" /\ row'[id] = "deleted" => FALSE
  <2> SUFFICES ASSUME NEW id \in Ids, row[id] = "none", row'[id] = "deleted" PROVE FALSE
    OBVIOUS
  <2>1. \/ \E a \in Actors : Marks(a, id)'
        \/ Making(id)
        \/ ~up /\ row[id] # "none"
    BY <1>0, Deletions
  <2>2. PICK a \in Actors : Marks(a, id)'
    BY <1>4, <2>1
  <2>3. Taking(a, id) /\ row[id] # "none"
    BY <1>3, <1>5, <2>2 DEF DeletionStep
  <2> QED BY <2>3
<1>7. ASSUME ~up', NEW id \in Ids PROVE row'[id] = "none"
  <2>1. ~up /\ row[id] = "none"
    <3>1. up' # TRUE /\ ~Fault /\ (up' = up \/ up' = TRUE \/ Fault)
      BY <1>1, <1>7, UpStep
    <3>2. ~up
      BY <1>7, <3>1
    <3> QED BY <1>2, <3>2
  <2>2. row'[id] # "alive"
    BY <1>3, <2>1 DEF CreationStep
  <2> QED BY <1>3, <1>6, <2>1, <2>2 DEF RowMoves
<1>8. ASSUME NEW id \in Ids, row'[id] = "alive" PROVE Count(id, "created")' # 0 \/ Making(id)'
  <2>1. CreationStep(id) /\ Count(id, "created") \in Nat
    BY <1>3
  <2>2. row[id] = "alive" => Count(id, "created") # 0 \/ Making(id)
    BY <1>2
  <2> QED BY <1>8, <2>1, <2>2 DEF CreationStep
<1>9. ASSUME NEW id \in Ids, row'[id] = "expired"
      PROVE  Count(id, "expired")' # 0 \/ \E a \in Actors : Owes(a, id)'
  <2>1. ExpiryStep(id) /\ RowMoves(id) /\ Count(id, "expired") \in Nat
    BY <1>3
  <2>2. row[id] = "expired" => Count(id, "expired") # 0 \/ \E a \in Actors : Owes(a, id)
    BY <1>2
  <2>3. row[id] \in {"alive", "expired"}
    BY <1>9, <2>1 DEF RowMoves
  <2> QED BY <1>9, <2>1, <2>2, <2>3 DEF ExpiryStep
<1>10. ASSUME NEW id \in Ids, row'[id] = "deleted", Count(id, "created")' # 0
       PROVE  \E a \in Actors : Copies(id, a)' # 0 \/ Marks(a, id)'
  <2>1. Count(id, "created")' = Count(id, "created")
    BY <1>3, <1>10 DEF CreationStep
  <2>2. CASE row[id] = "deleted"
    <3>1. PICK a \in Actors : Copies(id, a) # 0 \/ Marks(a, id)
      BY <1>2, <1>10, <2>1, <2>2
    <3>2. DeletionStep(id, a) /\ Copies(id, a) \in Nat
      BY <1>3
    <3>3. Copies(id, a)' # 0 \/ Marks(a, id)'
      BY <3>1, <3>2 DEF DeletionStep
    <3> QED BY <3>3
  <2>3. CASE row[id] # "deleted"
    <3>1. ~Making(id)
      BY <1>4, <1>10, <2>1
    <3>2. ~up => row[id] = "none"
      BY <1>2
    <3>3. \E a \in Actors : Marks(a, id)'
      BY <1>0, <1>10, <2>3, <3>1, <3>2, Deletions
    <3> QED BY <3>3
  <2> QED BY <2>2, <2>3
<1>11. \A id \in Ids : Count(id, "recovered")' + Cardinality(Publishing(id)') = published'[id]
  BY <1>0, <1>2, RecoveredStep
<1> QED BY <1>7, <1>8, <1>9, <1>10, <1>11

------------------------------------------------------------------------------
(* The invariant and the theorems *)

\* At first there is no row, no line and no operation.
LEMMA AuditInit ==
    ASSUME Init
    PROVE  AuditInv
<1>0. Handler \in Actors /\ Nothing \notin Ids
  BY AuditAssumption DEF Actors
<1>1. \A id \in Ids : IsABag(log[id]) /\ BagToSet(log[id]) = {} /\ \A line : ~BagIn(line, log[id])
  BY DEF Init, EmptyBag, SetToBag, IsABag, BagToSet, BagIn
<1>2. TypeOK
  <2>1. Idle \in [op : {"idle", "create", "unlink", "access", "pass", "recover"},
                  pc : {"start", "open", "attr", "lines", "remove", "mark", "append", "undo"},
                  id : Ids \cup {Nothing}, todo : SUBSET Ids]
    BY DEF Idle
  <2>2. DOMAIN log = Ids
    BY DEF Init
  <2>3. row \in [Ids -> {"none", "alive", "expired", "deleted"}] /\ age \in [Ids -> {"fresh", "due", "over"}]
    BY DEF Init
  <2>4. published \in [Ids -> 0..MaxRecoveries] /\ faults \in 0..MaxFaults
    BY AuditAssumption DEF Init
  <2>5. job \in [Actors -> [op : {"idle", "create", "unlink", "access", "pass", "recover"},
                            pc : {"start", "open", "attr", "lines", "remove", "mark", "append", "undo"},
                            id : Ids \cup {Nothing}, todo : SUBSET Ids]]
    BY <2>1 DEF Init
  <2>6. bytes \subseteq Ids /\ up \in BOOLEAN
    BY DEF Init
  <2> QED BY <1>1, <2>2, <2>3, <2>4, <2>5, <2>6 DEF TypeOK
<1>3. \A id \in Ids : (\A event : Count(id, event) = 0) /\ \A a : Copies(id, a) = 0
  BY <1>1 DEF Count, Copies, CopiesOf
<1>4. \A a \in Actors : job[a].op = "idle" /\ job[a].pc = "start"
  BY DEF Init, Idle
<1>5. JobsTyped
  BY <1>4 DEF JobsTyped
<1>6. \A id \in Ids : /\ row[id] = "none" /\ published[id] = 0 /\ ~Making(id) /\ Publishing(id) = {}
                      /\ \A a \in Actors : ~Owes(a, id) /\ ~Taking(a, id) /\ ~Marks(a, id)
  <2>1. \A c \in Recoverers : c \in Actors
    BY DEF Actors
  <2> QED BY <1>0, <1>4, <2>1 DEF Init, Making, Publishing, At, Owes, Taking, Marks
<1>7. ExpiredInv /\ CreatedInv /\ DeletedInv
  BY <1>3, <1>6 DEF ExpiredInv, CreatedInv, DeletedInv
<1>8. \A id \in Ids : IsFiniteSet(Publishing(id)) /\ Cardinality(Publishing(id)) = 0
  BY <1>6, FS_EmptySet
<1>9. RecoveredInv
  BY <1>3, <1>6, <1>8 DEF RecoveredInv
<1>10. CompleteInv
  BY <1>3, <1>6, <1>8 DEF CompleteInv
<1> QED BY <1>2, <1>5, <1>7, <1>9, <1>10 DEF AuditInv

\* Nothing changes, and nothing has to be shown.
LEMMA AuditStutter ==
    ASSUME AuditInv, UNCHANGED auditVars
    PROVE  AuditInv'
<1>1. /\ row' = row /\ age' = age /\ bytes' = bytes /\ log' = log /\ job' = job
      /\ published' = published /\ up' = up /\ faults' = faults
  BY DEF auditVars
<1>2. TypeOK' /\ JobsTyped'
  BY <1>1 DEF AuditInv, TypeOK, JobsTyped
<1>3. \A id : /\ Publishing(id)' = Publishing(id) /\ Making(id)' = Making(id)
              /\ \A e : Count(id, e)' = Count(id, e)
              /\ \A a : /\ Owes(a, id)' = Owes(a, id) /\ Taking(a, id)' = Taking(a, id)
                       /\ Marks(a, id)' = Marks(a, id) /\ Copies(id, a)' = Copies(id, a)
  BY <1>1 DEF Count, Copies, Owes, Making, Taking, Marks, Publishing, At
<1>4. ExpiredInv' /\ CreatedInv'
  BY <1>1, <1>3 DEF AuditInv, ExpiredInv, CreatedInv
<1>5. DeletedInv'
  BY <1>1, <1>3 DEF AuditInv, DeletedInv
<1>6. RecoveredInv'
  BY <1>1, <1>3 DEF AuditInv, RecoveredInv
<1>7. CompleteInv'
  BY <1>1, <1>3 DEF AuditInv, CompleteInv
<1> QED BY <1>2, <1>4, <1>5, <1>6, <1>7 DEF AuditInv

\* The invariant holds throughout.
LEMMA AuditInvariant == Spec => []AuditInv
<1>1. Init => AuditInv
  BY AuditInit
<1>2. AuditInv /\ [Next]_auditVars => AuditInv'
  <2> SUFFICES ASSUME AuditInv, [Next]_auditVars PROVE AuditInv'
    OBVIOUS
  <2>1. CASE Next
    <3>1. TypeOK /\ JobsTyped /\ ExpiredInv /\ CreatedInv /\ DeletedInv /\ RecoveredInv
      BY DEF AuditInv
    <3>2. TypeOK' /\ JobsTyped'
      BY <2>1, <3>1, TypesStep
    <3>3. ExpiredInv' /\ CreatedInv' /\ DeletedInv' /\ RecoveredInv' /\ CompleteInv'
      BY <2>1, <3>1, ExpiredStep, CreatedStep, DeletedStep, RecoveredStep, CompleteStep
    <3> QED BY <3>2, <3>3 DEF AuditInv
  <2>2. CASE UNCHANGED auditVars
    BY <2>2, AuditStutter
  <2> QED BY <2>1, <2>2
<1> QED BY <1>1, <1>2, PTL DEF Spec

\* Rows, jobs and lines are what they should be: only the processes of the
\* system write lines, and only of the four events.
THEOREM AuditTyped == Spec => []TypeOK
<1>1. AuditInv => TypeOK
  BY DEF AuditInv
<1> QED BY <1>1, AuditInvariant, PTL

\* However many processes run expire_due, create, unlink, passes and recoveries
\* side by side, and wherever they are killed: at most one file_expired and one
\* file_created line about a file, and no second file_deleted by one process.
THEOREM NoLineTwice == Spec => []LinesOnce
<1>1. AuditInv => LinesOnce
  <2> SUFFICES ASSUME AuditInv, NEW id \in Ids
               PROVE  /\ Count(id, "expired") <= 1
                      /\ Count(id, "created") <= 1
                      /\ \A line \in Lines(id, "deleted") : log[id][line] = 1
    BY DEF LinesOnce
  <2>1. LogTyped /\ ExpiredInv /\ CreatedInv /\ DeletedInv
    BY DEF AuditInv, TypeOK, LogTyped
  <2>2. ASSUME NEW line \in Lines(id, "deleted") PROVE log[id][line] = 1
    <3>1. PICK a \in Actors : line = Line(a, "deleted") /\ Copies(id, a) # 0
      BY <2>1, Counts
    <3>2. Copies(id, a) \in Nat /\ Copies(id, a) <= 1
      BY <2>1, Counts DEF DeletedInv
    <3>3. Copies(id, a) = log[id][line]
      BY <3>1 DEF Copies, CopiesOf
    <3> QED BY <3>1, <3>2, <3>3
  <2> QED BY <2>1, <2>2 DEF ExpiredInv, CreatedInv
<1> QED BY <1>1, AuditInvariant, PTL

\* What the log says happened did: the row was expired or deleted, and there
\* are no more recoveries in it than exports.
THEOREM LogNeverAhead == Spec => []LinesTrue
<1>1. AuditInv => LinesTrue
  <2> SUFFICES ASSUME AuditInv, NEW id \in Ids
               PROVE  /\ Lines(id, "expired") # {} => row[id] \in {"expired", "deleted"}
                      /\ Lines(id, "deleted") # {} => row[id] = "deleted"
                      /\ Count(id, "recovered") <= published[id]
    BY DEF LinesTrue
  <2>1. /\ LogTyped /\ ExpiredInv /\ DeletedInv /\ RecoveredInv
        /\ row[id] \in {"none", "alive", "expired", "deleted"} /\ published[id] \in Nat
    BY AuditAssumption DEF AuditInv, TypeOK, LogTyped
  <2>2. Lines(id, "expired") # {} => row[id] \in {"expired", "deleted"}
    <3>1. Lines(id, "expired") # {} <=> Count(id, "expired") # 0
      BY <2>1, Counts DEF Events
    <3> QED BY <2>1, <3>1 DEF ExpiredInv
  <2>3. Lines(id, "deleted") # {} => row[id] = "deleted"
    <3>1. \A line \in Lines(id, "deleted") : \E a \in Actors : Copies(id, a) # 0
      BY <2>1, Counts
    <3> QED BY <2>1, <3>1 DEF DeletedInv
  <2>4. Count(id, "recovered") <= published[id]
    <3>1. /\ IsFiniteSet(Publishing(id))
          /\ Count(id, "recovered") + Cardinality(Publishing(id)) <= published[id]
      BY <2>1 DEF RecoveredInv
    <3>2. Cardinality(Publishing(id)) \in Nat /\ Count(id, "recovered") \in Nat
      BY <2>1, <3>1, Counts, FS_CardinalityType
    <3> QED BY <2>1, <3>1, <3>2
  <2> QED BY <2>2, <2>3, <2>4
<1> QED BY <1>1, AuditInvariant, PTL

\* Without a kill or a failed append the log is complete whenever no operation
\* is in progress.
THEOREM LogComplete == Spec => []LinesComplete
<1>1. AuditInv => LinesComplete
  <2> SUFFICES ASSUME AuditInv, faults = 0, \A a \in Actors : job[a] = Idle, NEW id \in Ids
               PROVE  /\ row[id] = "alive" => Lines(id, "created") # {}
                      /\ row[id] = "expired" => Lines(id, "expired") # {}
                      /\ Count(id, "recovered") = published[id]
                      /\ row[id] = "deleted" /\ Lines(id, "created") # {} => Lines(id, "deleted") # {}
    BY DEF LinesComplete
  <2>1. LogTyped /\ CompleteInv /\ published[id] \in Nat
    BY AuditAssumption DEF AuditInv, TypeOK, LogTyped
  <2>2. /\ ~Making(id) /\ Publishing(id) = {}
        /\ \A a \in Actors : ~Owes(a, id) /\ ~Marks(a, id)
    BY DEF Making, Publishing, Owes, Marks, At, Idle, Actors
  <2>3. /\ Lines(id, "created") # {} <=> Count(id, "created") # 0
        /\ Lines(id, "expired") # {} <=> Count(id, "expired") # 0
        /\ \A a : Copies(id, a) # 0 => Lines(id, "deleted") # {}
        /\ Count(id, "recovered") \in Nat
    BY <2>1, Counts DEF Events
  <2>4. Cardinality(Publishing(id)) = 0
    BY <2>2, FS_EmptySet
  <2>5. /\ row[id] = "alive" => Count(id, "created") # 0 \/ Making(id)
        /\ row[id] = "expired" => Count(id, "expired") # 0 \/ \E a \in Actors : Owes(a, id)
        /\ Count(id, "recovered") + Cardinality(Publishing(id)) = published[id]
        /\ row[id] = "deleted" /\ Count(id, "created") # 0 =>
              \E a \in Actors : Copies(id, a) # 0 \/ Marks(a, id)
    BY <2>1 DEF CompleteInv
  <2> QED BY <2>1, <2>2, <2>3, <2>4, <2>5
<1> QED BY <1>1, AuditInvariant, PTL
=============================================================================
