---------------------------- MODULE DeployProofs ----------------------------
(***************************************************************************)
(* Proofs about Deploy for every value of its constants: types, control    *)
(* flow and the permit (SafeInv); the rows, ids and recovery, with the     *)
(* refinement of BaselineLog (RowInv); the history (HistoryInv); the       *)
(* override and the restored images (PlanInv); the number of rows that are *)
(* kept (SizeInv).                                                         *)
(***************************************************************************)
EXTENDS LogTail, TLAPS, FiniteSetTheorems, WellFoundedInduction

-----------------------------------------------------------------------------
(* Records: what their fields are and what setting one of them leaves alone. *)

LEMMA TaskFields ==
  ASSUME NEW t \in Task
  PROVE  /\ t.pc \in Pcs /\ t.op \in Operations \cup {"none", "recover"}
         /\ t.svc \in Services \cup {None} /\ t.services \in SUBSET Services
         /\ t.images \in [Services -> Images \cup {Base}]
         /\ t.img \in Images \cup {None} /\ t.rb \in Outcomes
BY DEF Task

LEMMA GotoTask ==
  ASSUME NEW t \in Task, NEW pc \in Pcs
  PROVE  LET u == [t EXCEPT !.pc = pc]
         IN /\ u \in Task /\ u.pc = pc /\ u.op = t.op /\ u.svc = t.svc
            /\ u.services = t.services /\ u.images = t.images
            /\ u.img = t.img /\ u.rb = t.rb
BY DEF Task

LEMMA PcCases ==
  ASSUME NEW op \in Operations \cup {"none", "recover"}
  PROVE  /\ OpPcs(op) \subseteq Pcs
         /\ "idle" \in OpPcs(op) => op = "none"
BY DEF OpPcs, Pcs, TaskPcs, HandlerPcs, CommandPcs, StoragePcs, ArtifactPcs, RestorePcs, Operations, Lifecycle

(* A step of the one live task that keeps it in its control flow. *)
LEMMA TaskStep ==
  ASSUME SafeInv, NEW id \in Ids, Live(id), NEW t \in Task, GoodTask(t),
         task' = [task EXCEPT ![id] = t], holder' = holder
  PROVE  task' \in [Ids -> Task] /\ ControlOK' /\ PermitExclusive'
<1>1. task \in [Ids -> Task] /\ holder = id
  BY DEF SafeInv, TypeOK, PermitExclusive
<1>2. task' \in [Ids -> Task] /\ task'[id] = t
      /\ \A i \in Ids \ {id} : task'[i] = task[i]
  BY <1>1
<1>3. ControlOK'
  BY <1>2 DEF SafeInv, ControlOK
<1>4. PermitExclusive'
  BY <1>1, <1>2 DEF SafeInv, PermitExclusive, Live
<1> QED BY <1>2, <1>3, <1>4

LEMMA GotoStep ==
  ASSUME SafeInv, NEW id \in Ids, Live(id), NEW pc \in OpPcs(task[id].op),
         pc \notin {"idle", "fail", "end"} => task[id].svc \in Services,
         pc \in ImagePcs(task[id].op) => task[id].img \in Images,
         Goto(id, pc), holder' = holder
  PROVE  task' \in [Ids -> Task] /\ ControlOK' /\ PermitExclusive'
<1> DEFINE t == [task[id] EXCEPT !.pc = pc]
<1>1. task \in [Ids -> Task] /\ task[id] \in Task
  BY DEF SafeInv, TypeOK
<1>2. pc \in Pcs
  BY <1>1, TaskFields, PcCases
<1>3. t \in Task /\ t.pc = pc /\ t.op = task[id].op /\ t.svc = task[id].svc
      /\ t.img = task[id].img
  BY <1>1, <1>2, GotoTask
<1>4. GoodTask(t)
  BY <1>3 DEF GoodTask
<1>5. task' = [task EXCEPT ![id] = t]
  BY <1>1 DEF Goto
<1> HIDE DEF t
<1> QED BY <1>3, <1>4, <1>5, TaskStep

LEMMA RowFields ==
  ASSUME NEW r \in Row
  PROVE  /\ r.svc \in Services \cup {None} /\ r.op \in Operations \cup {"none"}
         /\ r.status \in OpenStatus \cup DoneStatus \cup {"absent"}
         /\ r.phase \in Phases /\ r.target \in Images \cup {None}
         /\ r.rb \in Outcomes
BY DEF Row

LEMMA NoRowType == NoRow \in Row
BY DEF NoRow, Row, Phases, Outcomes

LEMMA IdleType == IdleTask \in Task /\ GoodTask(IdleTask) /\ IdleTask.pc = "idle"
BY DeployAssumption DEF IdleTask, NoImages, Task, GoodTask, OpPcs, ImagePcs, Pcs, Outcomes

LEMMA TypedState ==
  ASSUME SafeInv
  PROVE  /\ task \in [Ids -> Task] /\ row \in [Ids -> Row]
         /\ \A id \in Ids : task[id] \in Task /\ GoodTask(task[id]) /\ row[id] \in Row
BY DEF SafeInv, TypeOK, ControlOK

LEMMA DbImagesType ==
  ASSUME SafeInv, NEW services
  PROVE  DbImages(services) \in [Services -> Images \cup {Base}]
BY DEF SafeInv, TypeOK, DbImages

LEMMA ClosedRowType ==
  ASSUME NEW r \in Row, NEW status \in DoneStatus, NEW rb \in Outcomes
  PROVE  ClosedRow(r, status, rb) \in Row
BY DEF ClosedRow, Row

LEMMA CommittedRowType ==
  ASSUME NEW r \in Row
  PROVE  CommittedRow(r) \in Row
BY DEF CommittedRow, Row, DoneStatus, Phases, Outcomes

LEMMA RecordType ==
  ASSUME TypeOK, NEW s \in Services, NEW img \in Images, NEW id \in Ids,
         RecordBaseline(s, [img |-> img, dep |-> id])
  PROVE  /\ committed' \in [Services -> [img : Images \cup {Base}, dep : 0 .. MaxOps]]
         /\ revs' \in [Services -> Seq([img : Images, dep : Ids])]
<1> DEFINE b == [img |-> img, dep |-> id]
<1>1. /\ b \in [img : Images \cup {Base}, dep : 0 .. MaxOps]
      /\ b \in [img : Images, dep : Ids]
  BY DeployAssumption DEF Ids
<1>2. /\ committed' = [committed EXCEPT ![s] = b]
      /\ revs' = [revs EXCEPT ![s] = Append(revs[s], b)]
  BY DEF RecordBaseline
<1> DEFINE R == [img : Images, dep : Ids]
<1>3. revs \in [Services -> Seq(R)]
  BY DEF TypeOK
<1> HIDE DEF b, R
<1>4. revs[s] \in Seq(R)
  BY <1>3
<1>5. Append(revs[s], b) \in Seq(R)
  BY <1>1, <1>4 DEF R
<1>6. revs' \in [Services -> Seq(R)]
  BY <1>2, <1>3, <1>5
<1> QED BY <1>1, <1>2, <1>6 DEF TypeOK, R

LEMMA RevisionType ==
  ASSUME TypeOK, NEW s \in Services, NEW k \in DOMAIN revs[s]
  PROVE  revs[s][k].img \in Images /\ revs[s][k].dep \in Ids
<1> DEFINE R == [img : Images, dep : Ids]
<1>1. revs \in [Services -> Seq(R)]
  BY DEF TypeOK
<1> HIDE DEF R
<1>2. revs[s] \in Seq(R)
  BY <1>1
<1>3. revs[s][k] \in R
  BY <1>2
<1> QED BY <1>3 DEF R

LEMMA SafeReject ==
  ASSUME SafeInv, NEW id \in Ids, Reject(id)
  PROVE  SafeInv'
<1> DEFINE op == task[id].op
           pc == "end"
<1>1. task[id] \in Task /\ GoodTask(task[id]) /\ Live(id)
  BY TypedState DEF Reject, Live
<1>2. /\ pc \in OpPcs(op)
      /\ pc \notin {"idle", "fail", "end"} => task[id].svc \in Services
      /\ pc \in ImagePcs(op) => task[id].img \in Images
  BY <1>1, TaskFields DEF Reject, GoodTask, OpPcs, ImagePcs, ArtifactPcs,
    HandlerPcs, RestorePcs, Operations, Lifecycle
<1>3. Goto(id, pc) /\ holder' = holder
  BY DEF Reject
<1> HIDE DEF op, pc
<1>4. task' \in [Ids -> Task] /\ ControlOK' /\ PermitExclusive'
  BY <1>1, <1>2, <1>3, GotoStep DEF op
<1> QED
  BY <1>4 DEF SafeInv, TypeOK, Reject, durable, bounds

LEMMA SafeCreate ==
  ASSUME SafeInv, NEW id \in Ids, Create(id)
  PROVE  SafeInv'
<1> DEFINE op == task[id].op
           pc == "prune"
<1>1. task[id] \in Task /\ GoodTask(task[id]) /\ Live(id)
  BY TypedState DEF Create, Live
<1>2. /\ pc \in OpPcs(op)
      /\ pc \notin {"idle", "fail", "end"} => task[id].svc \in Services
      /\ pc \in ImagePcs(op) => task[id].img \in Images
  BY <1>1, TaskFields DEF Create, GoodTask, OpPcs, ImagePcs, ArtifactPcs,
    HandlerPcs, RestorePcs, Operations, Lifecycle
<1>3. Goto(id, pc) /\ holder' = holder
  BY DEF Create
<1> HIDE DEF op, pc
<1>4. task' \in [Ids -> Task] /\ ControlOK' /\ PermitExclusive'
  BY <1>1, <1>2, <1>3, GotoStep DEF op
<1>5. task[id].svc \in Services /\ op \in Operations
  BY <1>1, TaskFields DEF Create, op, GoodTask, OpPcs, HandlerPcs, ArtifactPcs, RestorePcs,
    Operations, Lifecycle
<1>6. row' \in [Ids -> Row]
  BY <1>1, <1>5, TypedState DEF Create, NoRow, Row, OpenStatus, Phases, Outcomes, op
<1>7. nextId' \in 1 .. MaxOps + 1
  BY DeployAssumption DEF Create, Ids
<1> QED
  BY <1>4, <1>5, <1>6, <1>7 DEF SafeInv, TypeOK, Create, durable, bounds

LEMMA SafePrune ==
  ASSUME SafeInv, NEW id \in Ids, Prune(id)
  PROVE  SafeInv'
<1> DEFINE op == task[id].op
           pc == "queued"
<1>1. task[id] \in Task /\ GoodTask(task[id]) /\ Live(id)
  BY TypedState DEF Prune, Live
<1>2. /\ pc \in OpPcs(op)
      /\ pc \notin {"idle", "fail", "end"} => task[id].svc \in Services
      /\ pc \in ImagePcs(op) => task[id].img \in Images
  BY <1>1, TaskFields DEF Prune, GoodTask, OpPcs, ImagePcs, ArtifactPcs,
    HandlerPcs, RestorePcs, Operations, Lifecycle
<1>3. Goto(id, pc) /\ holder' = holder
  BY DEF Prune
<1> HIDE DEF op, pc
<1>4. task' \in [Ids -> Task] /\ ControlOK' /\ PermitExclusive'
  BY <1>1, <1>2, <1>3, GotoStep DEF op
<1>5. row' \in [Ids -> Row]
  BY NoRowType, TypedState DEF Prune
<1> QED
  BY <1>4, <1>5 DEF SafeInv, TypeOK, Prune, durable, bounds

LEMMA SafeMarkRunning ==
  ASSUME SafeInv, NEW id \in Ids, MarkRunning(id)
  PROVE  SafeInv'
<1> DEFINE op == task[id].op
           pc == FirstPc(op)
<1>1. task[id] \in Task /\ GoodTask(task[id]) /\ Live(id)
  BY TypedState DEF MarkRunning, Live
<1>2. /\ pc \in OpPcs(op)
      /\ pc \notin {"idle", "fail", "end"} => task[id].svc \in Services
      /\ pc \in ImagePcs(op) => task[id].img \in Images
  BY <1>1, TaskFields DEF MarkRunning, FirstPc, GoodTask, OpPcs, ImagePcs, ArtifactPcs,
    HandlerPcs, RestorePcs, Operations, Lifecycle
<1>3. Goto(id, pc) /\ holder' = holder
  BY DEF MarkRunning
<1> HIDE DEF op, pc
<1>4. task' \in [Ids -> Task] /\ ControlOK' /\ PermitExclusive'
  BY <1>1, <1>2, <1>3, GotoStep DEF op
<1>5. row' \in [Ids -> Row]
  BY <1>1, TypedState DEF MarkRunning, Row, OpenStatus
<1> QED
  BY <1>4, <1>5 DEF SafeInv, TypeOK, MarkRunning, durable, bounds

LEMMA SafeRecordPhase ==
  ASSUME SafeInv, NEW id \in Ids, RecordPhase(id)
  PROVE  SafeInv'
<1> DEFINE op == task[id].op
           pc == AfterPhase(op, task[id].pc)
<1>1. task[id] \in Task /\ GoodTask(task[id]) /\ Live(id)
  BY TypedState DEF RecordPhase, Live
<1>2. /\ pc \in OpPcs(op)
      /\ pc \notin {"idle", "fail", "end"} => task[id].svc \in Services
      /\ pc \in ImagePcs(op) => task[id].img \in Images
  BY <1>1, TaskFields DEF RecordPhase, AfterPhase, GoodTask, OpPcs, ImagePcs, ArtifactPcs,
    HandlerPcs, RestorePcs, Operations, Lifecycle
<1>3. Goto(id, pc) /\ holder' = holder
  BY DEF RecordPhase
<1> HIDE DEF op, pc
<1>4. task' \in [Ids -> Task] /\ ControlOK' /\ PermitExclusive'
  BY <1>1, <1>2, <1>3, GotoStep DEF op
<1>5. row' \in [Ids -> Row]
  BY <1>1, TypedState DEF RecordPhase, Row, Phases
<1> QED
  BY <1>4, <1>5 DEF SafeInv, TypeOK, RecordPhase, durable, bounds

LEMMA SafeRecordTarget ==
  ASSUME SafeInv, NEW id \in Ids, RecordTarget(id)
  PROVE  SafeInv'
<1> DEFINE op == task[id].op
           pc == "pin"
<1>1. task[id] \in Task /\ GoodTask(task[id]) /\ Live(id)
  BY TypedState DEF RecordTarget, Live
<1>2. /\ pc \in OpPcs(op)
      /\ pc \notin {"idle", "fail", "end"} => task[id].svc \in Services
      /\ pc \in ImagePcs(op) => task[id].img \in Images
  BY <1>1, TaskFields DEF RecordTarget, GoodTask, OpPcs, ImagePcs, ArtifactPcs,
    HandlerPcs, RestorePcs, Operations, Lifecycle
<1>3. Goto(id, pc) /\ holder' = holder
  BY DEF RecordTarget
<1> HIDE DEF op, pc
<1>4. task' \in [Ids -> Task] /\ ControlOK' /\ PermitExclusive'
  BY <1>1, <1>2, <1>3, GotoStep DEF op
<1>5. row' \in [Ids -> Row]
  BY <1>1, TaskFields, TypedState DEF RecordTarget, Row
<1> QED
  BY <1>4, <1>5 DEF SafeInv, TypeOK, RecordTarget, durable, bounds

LEMMA SafePin ==
  ASSUME SafeInv, NEW id \in Ids, Pin(id)
  PROVE  SafeInv'
<1> DEFINE op == task[id].op
           pc == IF op = "deploy" THEN "starting" ELSE "up"
<1>1. task[id] \in Task /\ GoodTask(task[id]) /\ Live(id)
  BY TypedState DEF Pin, Live
<1>2. /\ pc \in OpPcs(op)
      /\ pc \notin {"idle", "fail", "end"} => task[id].svc \in Services
      /\ pc \in ImagePcs(op) => task[id].img \in Images
  BY <1>1, TaskFields DEF Pin, GoodTask, OpPcs, ImagePcs, ArtifactPcs,
    HandlerPcs, RestorePcs, Operations, Lifecycle
<1>3. Goto(id, pc) /\ holder' = holder
  BY DEF Pin
<1> HIDE DEF op, pc
<1>4. task' \in [Ids -> Task] /\ ControlOK' /\ PermitExclusive'
  BY <1>1, <1>2, <1>3, GotoStep DEF op
<1>5. task[id].img \in Images /\ task[id].images \in [Services -> Images \cup {Base}]
  BY <1>1, TaskFields DEF Pin, op, GoodTask, OpPcs, ImagePcs, ArtifactPcs, HandlerPcs, RestorePcs,
    Operations, Lifecycle
<1>6. PICK images \in [Services -> Images \cup {Base}] :
         override' = [images EXCEPT ![task[id].svc] = task[id].img]
  BY <1>5, DbImagesType DEF Pin, op
<1>7. override' \in [Services -> References]
  BY <1>5, <1>6 DEF References
<1> QED
  BY <1>4, <1>5, <1>6, <1>7 DEF SafeInv, TypeOK, Pin, durable, bounds

LEMMA SafeUp ==
  ASSUME SafeInv, NEW id \in Ids, Up(id)
  PROVE  SafeInv'
<1> DEFINE op == task[id].op
           pc == CASE task[id].pc = "restore_up" -> "restore_check"
                    [] op = "recreate" -> "check"
                    [] OTHER -> "checking"
<1>1. task[id] \in Task /\ GoodTask(task[id]) /\ Live(id)
  BY TypedState DEF Up, Live
<1>2. /\ pc \in OpPcs(op)
      /\ pc \notin {"idle", "fail", "end"} => task[id].svc \in Services
      /\ pc \in ImagePcs(op) => task[id].img \in Images
  BY <1>1, TaskFields DEF Up, GoodTask, OpPcs, ImagePcs, ArtifactPcs,
    HandlerPcs, RestorePcs, Operations, Lifecycle
<1>3. Goto(id, pc) /\ holder' = holder
  BY DEF Up
<1> HIDE DEF op, pc
<1>4. task' \in [Ids -> Task] /\ ControlOK' /\ PermitExclusive'
  BY <1>1, <1>2, <1>3, GotoStep DEF op
<1> QED
  BY <1>4 DEF SafeInv, TypeOK, Up, durable, bounds

LEMMA SafeStopOrDown ==
  ASSUME SafeInv, NEW id \in Ids, StopOrDown(id)
  PROVE  SafeInv'
<1> DEFINE op == task[id].op
           pc == "finish"
<1>1. task[id] \in Task /\ GoodTask(task[id]) /\ Live(id)
  BY TypedState DEF StopOrDown, Live
<1>2. /\ pc \in OpPcs(op)
      /\ pc \notin {"idle", "fail", "end"} => task[id].svc \in Services
      /\ pc \in ImagePcs(op) => task[id].img \in Images
  BY <1>1, TaskFields DEF StopOrDown, GoodTask, OpPcs, ImagePcs, ArtifactPcs,
    HandlerPcs, RestorePcs, Operations, Lifecycle
<1>3. Goto(id, pc) /\ holder' = holder
  BY DEF StopOrDown
<1> HIDE DEF op, pc
<1>4. task' \in [Ids -> Task] /\ ControlOK' /\ PermitExclusive'
  BY <1>1, <1>2, <1>3, GotoStep DEF op
<1> QED
  BY <1>4 DEF SafeInv, TypeOK, StopOrDown, durable, bounds

LEMMA SafeCheck ==
  ASSUME SafeInv, NEW id \in Ids, Check(id)
  PROVE  SafeInv'
<1> DEFINE op == task[id].op
           pc == IF op = "recreate" THEN "finish" ELSE "committing"
<1>1. task[id] \in Task /\ GoodTask(task[id]) /\ Live(id)
  BY TypedState DEF Check, Live
<1>2. /\ pc \in OpPcs(op)
      /\ pc \notin {"idle", "fail", "end"} => task[id].svc \in Services
      /\ pc \in ImagePcs(op) => task[id].img \in Images
  BY <1>1, TaskFields DEF Check, GoodTask, OpPcs, ImagePcs, ArtifactPcs,
    HandlerPcs, RestorePcs, Operations, Lifecycle
<1>3. Goto(id, pc) /\ holder' = holder
  BY DEF Check
<1> HIDE DEF op, pc
<1>4. task' \in [Ids -> Task] /\ ControlOK' /\ PermitExclusive'
  BY <1>1, <1>2, <1>3, GotoStep DEF op
<1>5. verified' \in [Ids -> SUBSET Images]
  BY DEF Check, SafeInv, TypeOK
<1> QED
  BY <1>4, <1>5 DEF SafeInv, TypeOK, Check, durable, bounds

LEMMA SafeCommit ==
  ASSUME SafeInv, NEW id \in Ids, Commit(id)
  PROVE  SafeInv'
<1> DEFINE op == task[id].op
           pc == IF op = "rollback" THEN "end" ELSE "rebuild"
<1>1. task[id] \in Task /\ GoodTask(task[id]) /\ Live(id)
  BY TypedState DEF Commit, Live
<1>2. /\ pc \in OpPcs(op)
      /\ pc \notin {"idle", "fail", "end"} => task[id].svc \in Services
      /\ pc \in ImagePcs(op) => task[id].img \in Images
  BY <1>1, TaskFields DEF Commit, GoodTask, OpPcs, ImagePcs, ArtifactPcs,
    HandlerPcs, RestorePcs, Operations, Lifecycle
<1>3. Goto(id, pc) /\ holder' = holder
  BY DEF Commit
<1> HIDE DEF op, pc
<1>4. task' \in [Ids -> Task] /\ ControlOK' /\ PermitExclusive'
  BY <1>1, <1>2, <1>3, GotoStep DEF op
<1>5. task[id].img \in Images /\ task[id].svc \in Services
  BY <1>1, TaskFields DEF Commit, op, GoodTask, OpPcs, ImagePcs, ArtifactPcs, HandlerPcs, RestorePcs,
    Operations, Lifecycle
<1>6. RecordBaseline(task[id].svc, [img |-> task[id].img, dep |-> id])
  BY DEF Commit
<1>7. /\ committed' \in [Services -> [img : Images \cup {Base}, dep : 0 .. MaxOps]]
      /\ revs' \in [Services -> Seq([img : Images, dep : Ids])]
  BY <1>5, <1>6, RecordType DEF SafeInv
<1>8. row' = [row EXCEPT ![id] = CommittedRow(row[id])]
  BY DEF Commit
<1>9. row' \in [Ids -> Row]
  BY <1>8, TypedState, CommittedRowType
<1> QED
  BY <1>4, <1>5, <1>6, <1>7, <1>8, <1>9 DEF SafeInv, TypeOK, Commit, durable, bounds

LEMMA SafeRebuild ==
  ASSUME SafeInv, NEW id \in Ids, Rebuild(id)
  PROVE  SafeInv'
<1> DEFINE op == task[id].op
           pc == IF op = "recreate" THEN "up" ELSE "end"
<1>1. task[id] \in Task /\ GoodTask(task[id]) /\ Live(id)
  BY TypedState DEF Rebuild, Live
<1>2. /\ pc \in OpPcs(op)
      /\ pc \notin {"idle", "fail", "end"} => task[id].svc \in Services
      /\ pc \in ImagePcs(op) => task[id].img \in Images
  BY <1>1, TaskFields DEF Rebuild, GoodTask, OpPcs, ImagePcs, ArtifactPcs,
    HandlerPcs, RestorePcs, Operations, Lifecycle
<1>3. Goto(id, pc) /\ holder' = holder
  BY DEF Rebuild
<1> HIDE DEF op, pc
<1>4. task' \in [Ids -> Task] /\ ControlOK' /\ PermitExclusive'
  BY <1>1, <1>2, <1>3, GotoStep DEF op
<1>5. override' \in [Services -> References]
  BY DbImagesType DEF Rebuild, References
<1> QED
  BY <1>4, <1>5 DEF SafeInv, TypeOK, Rebuild, durable, bounds

LEMMA SafeRestore ==
  ASSUME SafeInv, NEW id \in Ids, Restore(id)
  PROVE  SafeInv'
<1> DEFINE op == task[id].op
           pc == "restore_up"
<1>1. task[id] \in Task /\ GoodTask(task[id]) /\ Live(id)
  BY TypedState DEF Restore, Live
<1>2. /\ pc \in OpPcs(op)
      /\ pc \notin {"idle", "fail", "end"} => task[id].svc \in Services
      /\ pc \in ImagePcs(op) => task[id].img \in Images
  BY <1>1, TaskFields DEF Restore, GoodTask, OpPcs, ImagePcs, ArtifactPcs,
    HandlerPcs, RestorePcs, Operations, Lifecycle
<1>3. Goto(id, pc) /\ holder' = holder
  BY DEF Restore
<1> HIDE DEF op, pc
<1>4. task' \in [Ids -> Task] /\ ControlOK' /\ PermitExclusive'
  BY <1>1, <1>2, <1>3, GotoStep DEF op
<1>5. override' \in [Services -> References]
  BY DbImagesType DEF Restore, References
<1> QED
  BY <1>4, <1>5 DEF SafeInv, TypeOK, Restore, durable, bounds

LEMMA SafeFinishSuccess ==
  ASSUME SafeInv, NEW id \in Ids, FinishSuccess(id)
  PROVE  SafeInv'
<1> DEFINE op == task[id].op
           pc == "end"
<1>1. task[id] \in Task /\ GoodTask(task[id]) /\ Live(id)
  BY TypedState DEF FinishSuccess, Live
<1>2. /\ pc \in OpPcs(op)
      /\ pc \notin {"idle", "fail", "end"} => task[id].svc \in Services
      /\ pc \in ImagePcs(op) => task[id].img \in Images
  BY <1>1, TaskFields DEF FinishSuccess, GoodTask, OpPcs, ImagePcs, ArtifactPcs,
    HandlerPcs, RestorePcs, Operations, Lifecycle
<1>3. Goto(id, pc) /\ holder' = holder
  BY DEF FinishSuccess
<1> HIDE DEF op, pc
<1>4. task' \in [Ids -> Task] /\ ControlOK' /\ PermitExclusive'
  BY <1>1, <1>2, <1>3, GotoStep DEF op
<1>5. row' \in [Ids -> Row]
  BY TypedState, ClosedRowType DEF FinishSuccess, DoneStatus, Outcomes
<1> QED
  BY <1>4, <1>5 DEF SafeInv, TypeOK, FinishSuccess, durable, bounds

LEMMA SafeFinishFailure ==
  ASSUME SafeInv, NEW id \in Ids, FinishFailure(id)
  PROVE  SafeInv'
<1> DEFINE op == task[id].op
           pc == "end"
<1>1. task[id] \in Task /\ GoodTask(task[id]) /\ Live(id)
  BY TypedState DEF FinishFailure, Live
<1>2. /\ pc \in OpPcs(op)
      /\ pc \notin {"idle", "fail", "end"} => task[id].svc \in Services
      /\ pc \in ImagePcs(op) => task[id].img \in Images
  BY <1>1, TaskFields DEF FinishFailure, GoodTask, OpPcs, ImagePcs, ArtifactPcs,
    HandlerPcs, RestorePcs, Operations, Lifecycle
<1>3. Goto(id, pc) /\ holder' = holder
  BY DEF FinishFailure
<1> HIDE DEF op, pc
<1>4. task' \in [Ids -> Task] /\ ControlOK' /\ PermitExclusive'
  BY <1>1, <1>2, <1>3, GotoStep DEF op
<1>5. row' \in [Ids -> Row]
  BY <1>1, TaskFields, TypedState, ClosedRowType DEF FinishFailure, DoneStatus
<1> QED
  BY <1>4, <1>5 DEF SafeInv, TypeOK, FinishFailure, durable, bounds

LEMMA SafeInspect ==
  ASSUME SafeInv, NEW id \in Ids, Inspect(id)
  PROVE  SafeInv'
<1> DEFINE op == task[id].op
           t == [task[id] EXCEPT !.pc = "commit", !.img = row[id].target]
<1>1. /\ task[id] \in Task /\ GoodTask(task[id]) /\ Live(id)
      /\ row[id].target \in Images \cup {None}
  BY TypedState, RowFields DEF Inspect, Live
<1>2. op = "recover" /\ task[id].svc \in Services
  BY <1>1, TaskFields DEF Inspect, GoodTask, OpPcs, ArtifactPcs, Operations, Lifecycle, HandlerPcs, RestorePcs
<1>3. CASE Goto(id, "restore") /\ UNCHANGED verified
  <2>1. "restore" \in OpPcs(op) /\ "restore" \notin ImagePcs(op)
    BY <1>2 DEF OpPcs, ImagePcs, RestorePcs
  <2>2. task' \in [Ids -> Task] /\ ControlOK' /\ PermitExclusive'
    BY <1>1, <1>2, <1>3, <2>1, GotoStep DEF Inspect
  <2> QED
    BY <1>3, <2>2 DEF SafeInv, TypeOK, Inspect, durable, bounds
<1>4. CASE /\ CandidateHealthy(id) /\ task' = [task EXCEPT ![id].pc = "commit", ![id].img = row[id].target]
           /\ verified' = [verified EXCEPT ![id] = @ \cup {row[id].target}]
  <2>1. row[id].target \in Images
    BY <1>1, <1>4 DEF CandidateHealthy
  <2>2. t \in Task /\ t.pc = "commit" /\ t.op = op /\ t.svc = task[id].svc /\ t.img = row[id].target
    BY <1>1, <2>1 DEF Task, Pcs, TaskPcs, StoragePcs
  <2>3. GoodTask(t)
    BY <1>2, <2>1, <2>2 DEF GoodTask, OpPcs
  <2>4. task' = [task EXCEPT ![id] = t]
    BY <1>4, TypedState
  <2> HIDE DEF t
  <2>5. task' \in [Ids -> Task] /\ ControlOK' /\ PermitExclusive'
    BY <1>1, <2>2, <2>3, <2>4, TaskStep DEF Inspect
  <2>6. verified' \in [Ids -> SUBSET Images]
    BY <1>4, <2>1 DEF SafeInv, TypeOK
  <2> QED
    BY <1>4, <2>5, <2>6 DEF SafeInv, TypeOK, Inspect, durable, bounds
<1> QED BY <1>3, <1>4 DEF Inspect

(* Steps that set another field of the task as well as its pc. *)
LEMMA SafeAdmit ==
  ASSUME SafeInv, NEW id \in Ids, Admit(id)
  PROVE  SafeInv'
<1> DEFINE op == task[id].op
           s == task[id].svc
<1>1. /\ task[id] \in Task /\ GoodTask(task[id]) /\ Live(id)
      /\ s \in Services /\ op \in Operations
  BY TypedState, TaskFields DEF Admit, Live, GoodTask, OpPcs, HandlerPcs,
    ArtifactPcs, RestorePcs, Operations, Lifecycle
<1>2. "create" \in OpPcs(op) /\ "create" \in Pcs
  BY <1>1 DEF OpPcs, HandlerPcs, Operations, Lifecycle, Pcs
<1>3. task' \in [Ids -> Task] /\ ControlOK' /\ PermitExclusive'
  <2>1. CASE op # "rollback"
    <3>1. "create" \notin ImagePcs(op)
      BY <1>1, <2>1 DEF ImagePcs, ArtifactPcs, Operations, Lifecycle
    <3> QED
      BY <1>1, <1>2, <2>1, <3>1, GotoStep DEF Admit
  <2>2. CASE op = "rollback"
    <3>1. PICK k \in Earlier(s) :
            task' = [task EXCEPT ![id].pc = "create", ![id].img = revs[s][k].img]
      BY <2>2 DEF Admit
    <3>2. revs[s][k].img \in Images
      BY <1>1, RevisionType DEF Earlier, SafeInv
    <3> DEFINE t == [task[id] EXCEPT !.pc = "create", !.img = revs[s][k].img]
    <3>3. /\ t \in Task /\ t.pc = "create" /\ t.op = op /\ t.svc = s
          /\ t.img \in Images
      BY <1>1, <1>2, <3>2 DEF Task
    <3>4. task' = [task EXCEPT ![id] = t]
      BY <3>1, TypedState
    <3> HIDE DEF t
    <3>5. GoodTask(t)
      BY <1>1, <1>2, <3>3 DEF GoodTask
    <3> QED
      BY <1>1, <3>3, <3>4, <3>5, TaskStep DEF Admit
  <2> QED BY <2>1, <2>2
<1> QED
  BY <1>3 DEF SafeInv, TypeOK, Admit, durable, bounds

LEMMA SafeStage ==
  ASSUME SafeInv, NEW id \in Ids, Stage(id)
  PROVE  SafeInv'
<1> DEFINE images == DbImages(task[id].services)
           t == [task[id] EXCEPT !.pc = "pulling", !.images = images]
<1>1. /\ task[id] \in Task /\ GoodTask(task[id]) /\ Live(id)
      /\ images \in [Services -> Images \cup {Base}]
  BY TypedState, DbImagesType DEF Stage, Live
<1>2. task[id].op = "deploy" /\ task[id].svc \in Services
  BY <1>1, TaskFields DEF Stage, GoodTask, OpPcs, HandlerPcs, ArtifactPcs,
    RestorePcs, Operations, Lifecycle
<1>3. /\ override' = [images EXCEPT ![task[id].svc] = Tag]
      /\ task' = [task EXCEPT ![id] = t]
  BY TypedState DEF Stage
<1>4. "pulling" \in Pcs
  BY DEF Pcs, TaskPcs, StoragePcs
<1> HIDE DEF images
<1>5. t \in Task /\ t.pc = "pulling" /\ t.op = "deploy" /\ t.svc = task[id].svc
  BY <1>1, <1>2, <1>4 DEF Task
<1> HIDE DEF t
<1>6. GoodTask(t)
  BY <1>2, <1>5 DEF GoodTask, OpPcs, ImagePcs, ArtifactPcs
<1>7. task' \in [Ids -> Task] /\ ControlOK' /\ PermitExclusive'
  BY <1>1, <1>3, <1>5, <1>6, TaskStep DEF Stage
<1>8. override' \in [Services -> References]
  BY <1>1, <1>3 DEF References
<1> QED
  BY <1>7, <1>8 DEF SafeInv, TypeOK, Stage, bounds

LEMMA SafePull ==
  ASSUME SafeInv, NEW id \in Ids, Pull(id)
  PROVE  SafeInv'
<1>1. /\ task[id] \in Task /\ GoodTask(task[id]) /\ Live(id)
  BY TypedState DEF Pull, Live
<1>2. task[id].op = "deploy" /\ task[id].svc \in Services
  BY <1>1, TaskFields DEF Pull, GoodTask, OpPcs, HandlerPcs, ArtifactPcs,
    RestorePcs, Operations, Lifecycle
<1>3. PICK img \in Images :
        task' = [task EXCEPT ![id].pc = "target", ![id].img = img]
  BY DEF Pull
<1> DEFINE t == [task[id] EXCEPT !.pc = "target", !.img = img]
<1>4. task' = [task EXCEPT ![id] = t]
  BY <1>3, TypedState
<1>5. "target" \in Pcs
  BY DEF Pcs, TaskPcs, StoragePcs
<1>6. /\ t \in Task /\ t.pc = "target" /\ t.op = "deploy"
      /\ t.svc = task[id].svc /\ t.img = img
  BY <1>1, <1>2, <1>5 DEF Task
<1> HIDE DEF t
<1>7. GoodTask(t)
  BY <1>2, <1>6 DEF GoodTask, OpPcs, ArtifactPcs
<1>8. task' \in [Ids -> Task] /\ ControlOK' /\ PermitExclusive'
  BY <1>1, <1>4, <1>6, <1>7, TaskStep DEF Pull
<1> QED
  BY <1>8 DEF SafeInv, TypeOK, Pull, durable, bounds

LEMMA SafeRestoreCheck ==
  ASSUME SafeInv, NEW id \in Ids, RestoreCheck(id)
  PROVE  SafeInv'
<1> DEFINE t == [task[id] EXCEPT !.pc = "fail", !.rb = "succeeded"]
<1>1. /\ task[id] \in Task /\ GoodTask(task[id]) /\ Live(id)
  BY TypedState DEF RestoreCheck, Live
<1>2. "fail" \in OpPcs(task[id].op) /\ "fail" \notin ImagePcs(task[id].op)
  BY <1>1, TaskFields DEF RestoreCheck, GoodTask, OpPcs, ImagePcs, ArtifactPcs,
    HandlerPcs, RestorePcs, Operations, Lifecycle
<1>3. task' = [task EXCEPT ![id] = t]
  BY TypedState DEF RestoreCheck
<1>4. "fail" \in Pcs /\ "succeeded" \in Outcomes
  BY DEF Pcs, TaskPcs, StoragePcs, Outcomes
<1>5. t \in Task /\ t.pc = "fail" /\ t.op = task[id].op
  BY <1>1, <1>4 DEF Task
<1> HIDE DEF t
<1>6. GoodTask(t)
  BY <1>2, <1>5 DEF GoodTask
<1>7. task' \in [Ids -> Task] /\ ControlOK' /\ PermitExclusive'
  BY <1>1, <1>3, <1>5, <1>6, TaskStep DEF RestoreCheck
<1> QED
  BY <1>7 DEF SafeInv, TypeOK, RestoreCheck, durable, bounds

(* Wherever an error is handled, the task stays in its control flow. *)
LEMMA SafeOnError ==
  ASSUME SafeInv, NEW id \in Ids, OnError(id), holder' = holder,
         task[id].pc \in HandlerPcs \cup CommandPcs \cup StoragePcs,
         task[id].op = "recover" => task[id].pc \in RestorePcs
  PROVE  task' \in [Ids -> Task] /\ ControlOK' /\ PermitExclusive'
<1> DEFINE op == task[id].op
           h == Handled(op, task[id].pc)
           t == [task[id] EXCEPT !.pc = h.pc, !.rb = h.rb]
<1>1. task[id] \in Task /\ GoodTask(task[id]) /\ Live(id)
  BY TypedState DEF Live, HandlerPcs, CommandPcs, StoragePcs
<1>2. /\ h.pc \in OpPcs(op) /\ h.rb \in Outcomes
      /\ h.pc \notin {"idle", "fail", "end"} => task[id].svc \in Services
      /\ h.pc \in ImagePcs(op) => task[id].img \in Images
  BY <1>1, TaskFields DEF Handled, Recourse, RestoreFailed, GoodTask, OpPcs,
    ImagePcs, ArtifactPcs, Operations, Lifecycle, HandlerPcs, RestorePcs,
    CommandPcs, StoragePcs, Outcomes
<1>3. task' = [task EXCEPT ![id] = t]
  BY TypedState DEF OnError
<1>4. h.pc \in Pcs
  BY <1>1, <1>2, TaskFields, PcCases
<1> HIDE DEF h
<1>5. t \in Task /\ t.pc = h.pc /\ t.op = op /\ t.svc = task[id].svc
      /\ t.img = task[id].img
  BY <1>1, <1>2, <1>4 DEF Task
<1> HIDE DEF t
<1>6. GoodTask(t)
  BY <1>2, <1>5 DEF GoodTask
<1> QED
  BY <1>1, <1>3, <1>5, <1>6, TaskStep

LEMMA SafeCommandFails ==
  ASSUME SafeInv, NEW id \in Ids, CommandFails(id)
  PROVE  SafeInv'
<1>1. task[id] \in Task /\ GoodTask(task[id])
  BY TypedState
<1>2. task[id].op = "recover" => task[id].pc \in RestorePcs
  BY <1>1 DEF CommandFails, CommandPcs, GoodTask, OpPcs, RestorePcs
<1>3. task' \in [Ids -> Task] /\ ControlOK' /\ PermitExclusive'
  BY <1>2, SafeOnError DEF CommandFails
<1> QED
  BY <1>3 DEF SafeInv, TypeOK, CommandFails, durable, bounds

LEMMA SafeStorageFails ==
  ASSUME SafeInv, NEW id \in Ids, StorageFails(id)
  PROVE  SafeInv'
<1>1. task' \in [Ids -> Task] /\ ControlOK' /\ PermitExclusive'
  BY SafeOnError DEF StorageFails, RestorePcs
<1>2. faults' \in 0 .. MaxFaults
  BY DeployAssumption DEF StorageFails, SafeInv, TypeOK
<1> QED
  BY <1>1, <1>2 DEF SafeInv, TypeOK, StorageFails, durable

-----------------------------------------------------------------------------
(* Steps that start or end tasks.                                           *)

(* Before anything acquires the free permit, nothing is live. *)
LEMMA FreeMeansIdle ==
  ASSUME SafeInv, holder = Free \/ holder = Refresher
  PROVE  \A i \in Ids : ~Live(i)
BY DeployAssumption DEF SafeInv, PermitExclusive, Free, Refresher, Ids

LEMMA StartTask ==
  ASSUME SafeInv, NEW id \in Ids, TryAcquire(id), NEW t \in Task, GoodTask(t),
         task' = [task EXCEPT ![id] = t]
  PROVE  task' \in [Ids -> Task] /\ ControlOK' /\ PermitExclusive'
         /\ holder' \in Ids \cup {Free, Refresher}
<1>1. \A i \in Ids : ~Live(i)
  BY FreeMeansIdle DEF TryAcquire
<1>2. /\ task' \in [Ids -> Task] /\ task'[id] = t
      /\ \A i \in Ids \ {id} : task'[i] = task[i]
  BY TypedState
<1>3. ControlOK'
  BY <1>2 DEF SafeInv, ControlOK
<1>4. PermitExclusive'
  BY <1>1, <1>2 DEF PermitExclusive, Live, TryAcquire
<1> QED BY <1>2, <1>3, <1>4 DEF TryAcquire

LEMMA SafeAcquire ==
  ASSUME SafeInv, NEW s \in Services, NEW op \in Operations, Acquire(s, op)
  PROVE  SafeInv'
<1> DEFINE t == [IdleTask EXCEPT !.pc = "admit", !.op = op, !.svc = s,
                                 !.services = managed]
<1>1. managed \in SUBSET Services
  BY DEF SafeInv, TypeOK
<1>2. t \in Task /\ t.pc = "admit" /\ t.op = op /\ t.svc = s
  BY <1>1, IdleType DEF Task, IdleTask, Pcs, HandlerPcs
<1>3. /\ nextId \in Ids /\ TryAcquire(nextId)
      /\ task' = [task EXCEPT ![nextId] = t]
  BY DEF Acquire
<1> HIDE DEF t
<1>4. GoodTask(t)
  BY <1>2 DEF GoodTask, OpPcs, ImagePcs, ArtifactPcs, HandlerPcs, Operations,
    Lifecycle
<1>5. /\ task' \in [Ids -> Task] /\ ControlOK' /\ PermitExclusive'
      /\ holder' \in Ids \cup {Free, Refresher}
  BY <1>2, <1>3, <1>4, StartTask
<1> QED
  BY <1>5 DEF SafeInv, TypeOK, Acquire, durable, bounds

LEMMA SafeRecoverBegin ==
  ASSUME SafeInv, NEW id \in Ids, RecoverBegin(id)
  PROVE  SafeInv'
<1> DEFINE f == RecoverFrom(row[id])
           t == [IdleTask EXCEPT !.pc = f.pc, !.rb = f.rb, !.op = "recover",
                                 !.svc = row[id].svc, !.services = managed]
<1>1. managed \in SUBSET Services /\ row[id].svc \in Services \cup {None}
  BY TypedState, RowFields DEF SafeInv, TypeOK
<1>2. /\ f.pc \in {"fail", "inspect"} /\ f.rb \in Outcomes
      /\ f.pc = "inspect" => row[id].svc \in managed
  BY DEF RecoverFrom, Outcomes
<1>3. f.pc \in Pcs
  BY <1>2 DEF Pcs, TaskPcs, StoragePcs
<1>4. TryAcquire(id) /\ task' = [task EXCEPT ![id] = t]
  BY DEF RecoverBegin
<1> HIDE DEF f
<1>5. t \in Task /\ t.pc = f.pc /\ t.op = "recover" /\ t.svc = row[id].svc
  BY <1>1, <1>2, <1>3, IdleType DEF Task, IdleTask
<1> HIDE DEF t
<1>6. GoodTask(t)
  BY <1>1, <1>2, <1>5 DEF GoodTask, OpPcs, ImagePcs
<1>7. /\ task' \in [Ids -> Task] /\ ControlOK' /\ PermitExclusive'
      /\ holder' \in Ids \cup {Free, Refresher}
  BY <1>4, <1>5, <1>6, StartTask
<1> QED
  BY <1>7 DEF SafeInv, TypeOK, RecoverBegin, durable, bounds

LEMMA SafeEnd ==
  ASSUME SafeInv, NEW id \in Ids, End(id)
  PROVE  SafeInv'
<1>1. Live(id) /\ holder = id
  BY DEF End, Live, SafeInv, PermitExclusive
<1>2. /\ task' \in [Ids -> Task] /\ task'[id] = IdleTask
      /\ \A i \in Ids \ {id} : task'[i] = task[i]
  BY IdleType, TypedState DEF End
<1>3. ControlOK'
  BY <1>2, IdleType DEF SafeInv, ControlOK
<1>4. PermitExclusive'
  BY <1>1, <1>2, IdleType DEF SafeInv, PermitExclusive, Live
<1> QED
  BY <1>2, <1>3, <1>4 DEF SafeInv, TypeOK, End, durable, bounds

LEMMA SafeProcessEnds ==
  ASSUME SafeInv, ProcessEnds, UNCHANGED <<edits, manual>>,
         crashes' \in 0 .. MaxCrashes, faults' \in 0 .. MaxFaults
  PROVE  SafeInv'
<1>1. /\ task' \in [Ids -> Task]
      /\ \A i \in Ids : task'[i] = IdleTask
  BY IdleType DEF ProcessEnds
<1>2. ControlOK'
  BY <1>1, IdleType DEF ControlOK
<1>3. PermitExclusive'
  BY <1>1, IdleType DEF PermitExclusive, Live
<1> QED
  BY <1>1, <1>2, <1>3 DEF SafeInv, TypeOK, ProcessEnds, durable

LEMMA SafeCrash ==
  ASSUME SafeInv, Crash
  PROVE  SafeInv'
<1>1. crashes' \in 0 .. MaxCrashes
  BY DeployAssumption DEF Crash, SafeInv, TypeOK
<1> QED BY <1>1, SafeProcessEnds DEF Crash, SafeInv, TypeOK

LEMMA SafeRecoveryFails ==
  ASSUME SafeInv, NEW id \in Ids, RecoveryFails(id)
  PROVE  SafeInv'
<1>1. faults' \in 0 .. MaxFaults
  BY DeployAssumption DEF RecoveryFails, SafeInv, TypeOK
<1> QED BY <1>1, SafeProcessEnds DEF RecoveryFails, SafeInv, TypeOK

-----------------------------------------------------------------------------
(* Steps that leave every task alone.                                       *)

LEMMA TasksUnchanged ==
  ASSUME SafeInv, UNCHANGED task,
         holder' = holder \/ (\A i \in Ids : ~Live(i))
  PROVE  ControlOK' /\ PermitExclusive'
BY DEF SafeInv, ControlOK, PermitExclusive, Live, GoodTask

LEMMA SafeRefresh ==
  ASSUME SafeInv, RefreshBegin \/ RefreshApply \/ RefreshAborts
  PROVE  SafeInv'
<1>1. \A i \in Ids : ~Live(i)
  BY FreeMeansIdle DEF RefreshBegin, RefreshApply, RefreshAborts, TryAcquire
<1>2. UNCHANGED task
  BY DEF RefreshBegin, RefreshApply, RefreshAborts
<1>3. ControlOK' /\ PermitExclusive'
  BY <1>1, <1>2, TasksUnchanged
<1>4. DbImages(candidate) \in [Services -> References]
  BY DbImagesType DEF References
<1>5. faults + 1 \in Nat /\ (faults < MaxFaults => faults + 1 \in 0 .. MaxFaults)
  BY DeployAssumption DEF SafeInv, TypeOK
<1>6. TypeOK'
  <2>1. CASE RefreshBegin
    BY <2>1 DEF RefreshBegin, TryAcquire, SafeInv, TypeOK, durable, bounds
  <2>2. CASE RefreshApply
    BY <2>2, <1>4 DEF RefreshApply, SafeInv, TypeOK, bounds
  <2>3. CASE RefreshAborts
    BY <2>3, <1>4, <1>5 DEF RefreshAborts, SafeInv, TypeOK
  <2> QED BY <2>1, <2>2, <2>3
<1> QED BY <1>3, <1>6 DEF SafeInv

LEMMA SafeCleanupHistory ==
  ASSUME SafeInv, CleanupHistory
  PROVE  SafeInv'
<1>1. row' \in [Ids -> Row]
  BY NoRowType, TypedState DEF CleanupHistory
<1>2. ControlOK' /\ PermitExclusive'
  BY TasksUnchanged DEF CleanupHistory, volatile
<1> QED
  BY <1>1, <1>2 DEF SafeInv, TypeOK, CleanupHistory, volatile, bounds

LEMMA SafeStartup ==
  ASSUME SafeInv, Startup
  PROVE  SafeInv'
<1>1. override' \in [Services -> References]
  BY DbImagesType DEF Startup, References
<1>2. ControlOK' /\ PermitExclusive'
  BY TasksUnchanged DEF Startup
<1>3. todo' \subseteq Ids
  BY DEF Startup, ActiveDeployments
<1> QED
  BY <1>1, <1>2, <1>3 DEF SafeInv, TypeOK, Startup, bounds

LEMMA SafeServe ==
  ASSUME SafeInv, Serve
  PROVE  SafeInv'
<1>1. ControlOK' /\ PermitExclusive'
  BY TasksUnchanged DEF Serve
<1> QED BY <1>1 DEF SafeInv, TypeOK, Serve, durable, bounds

LEMMA SafeDaemon ==
  ASSUME SafeInv, NEW id \in Ids, Daemon(id)
  PROVE  SafeInv'
<1> DEFINE s == task[id].svc
           C == [img : References \cup {None}, st : {"ok", "bad", "off"}]
<1>1. task[id] \in Task /\ GoodTask(task[id])
  BY TypedState
<1>2. PICK c : /\ container' = [container EXCEPT ![s] = c]
               /\ \/ /\ task[id].pc \in {"up", "restore_up"}
                     /\ c \in {[img |-> None, st |-> "off"]}
                              \cup [img : {override[s]}, st : {"ok", "bad"}]
                  \/ /\ task[id].pc \in {"stop", "down"}
                     /\ c \in {[container[s] EXCEPT !.st = "off"],
                               [img |-> None, st |-> "off"]}
  BY DEF Daemon
<1>3. s \in Services
  BY <1>1, <1>2 DEF GoodTask
<1>4. container[s] \in C /\ override[s] \in References
  BY <1>3 DEF SafeInv, TypeOK
<1>5. [container[s] EXCEPT !.st = "off"] \in C
  BY <1>4
<1>6. c \in C
  BY <1>2, <1>4, <1>5
<1> HIDE DEF C, s
<1>7. container' \in [Services -> C]
  BY <1>2, <1>6 DEF SafeInv, TypeOK, C
<1>8. ControlOK' /\ PermitExclusive'
  BY TasksUnchanged DEF Daemon, volatile
<1> QED
  BY <1>7, <1>8 DEF SafeInv, TypeOK, Daemon, volatile, bounds, C

LEMMA SafeEnvironment ==
  ASSUME SafeInv,
         EditCompose \/ \E s \in Services : ContainerChanges(s) \/ ManualUp(s)
  PROVE  SafeInv'
<1> DEFINE C == [img : References \cup {None}, st : {"ok", "bad", "off"}]
<1>1. CASE EditCompose
  <2>1. edits' \in 0 .. MaxEdits /\ composeFile' \subseteq Services
    BY <1>1, DeployAssumption DEF EditCompose, SafeInv, TypeOK
  <2>2. ControlOK' /\ PermitExclusive'
    BY <1>1, TasksUnchanged DEF EditCompose, volatile
  <2> QED
    BY <1>1, <2>1, <2>2 DEF SafeInv, TypeOK, EditCompose, volatile
<1>2. ASSUME NEW s \in Services, ContainerChanges(s) \/ ManualUp(s)
      PROVE  SafeInv'
  <2>1. container \in [Services -> C]
    BY DEF SafeInv, TypeOK
  <2>2. container' \in [Services -> C]
    <3>1. CASE ContainerChanges(s)
      <4>1. container[s] \in C
        BY <2>1
      <4>2. [container[s] EXCEPT !.st = IF @ = "ok" THEN "bad" ELSE "ok"] \in C
        BY <4>1
      <4>3. container' = [container EXCEPT
                ![s] = [container[s] EXCEPT !.st = IF @ = "ok" THEN "bad" ELSE "ok"]]
        BY <3>1 DEF ContainerChanges
      <4> HIDE DEF C
      <4> QED BY <2>1, <4>2, <4>3
    <3>2. CASE ManualUp(s)
      <4>1. [img |-> Base, st |-> "ok"] \in C
        BY DEF References
      <4> HIDE DEF C
      <4> QED BY <2>1, <3>2, <4>1 DEF ManualUp
    <3> QED BY <1>2, <3>1, <3>2
  <2>3. manual' \in 0 .. MaxManual
    <3>1. CASE ContainerChanges(s)
      BY <3>1 DEF ContainerChanges, bounds, SafeInv, TypeOK
    <3>2. CASE ManualUp(s)
      BY <3>2, DeployAssumption DEF ManualUp, SafeInv, TypeOK
    <3> QED BY <1>2, <3>1, <3>2
  <2>4. ControlOK' /\ PermitExclusive'
    BY <1>2, TasksUnchanged DEF ContainerChanges, ManualUp, volatile
  <2> HIDE DEF C
  <2> QED
    BY <1>2, <2>2, <2>3, <2>4
    DEF SafeInv, TypeOK, ContainerChanges, ManualUp, volatile, bounds, C
<1> QED BY <1>1, <1>2

-----------------------------------------------------------------------------
LEMMA SafeInit == Init => SafeInv
<1> SUFFICES ASSUME Init PROVE SafeInv
  OBVIOUS
<1>1. /\ task \in [Ids -> Task] /\ \A i \in Ids : task[i] = IdleTask
      /\ row \in [Ids -> Row]
  BY IdleType, NoRowType DEF Init
<1>2. ControlOK /\ PermitExclusive
  BY <1>1, IdleType DEF ControlOK, PermitExclusive, Live
<1>3. revs \in [Services -> Seq([img : Images, dep : Ids])]
  BY DEF Init
<1>4. container \in [Services -> [img : References \cup {None},
                                  st : {"ok", "bad", "off"}]]
  BY DEF Init, References
<1>5. /\ committed \in [Services -> [img : Images \cup {Base}, dep : 0 .. MaxOps]]
      /\ override \in [Services -> References]
  BY DeployAssumption DEF Init, NoBaseline, NoImages, References
<1>6. /\ nextId \in 1 .. MaxOps + 1
      /\ crashes \in 0 .. MaxCrashes /\ faults \in 0 .. MaxFaults
      /\ edits \in 0 .. MaxEdits /\ manual \in 0 .. MaxManual
  BY DeployAssumption DEF Init
<1> QED
  BY <1>1, <1>2, <1>3, <1>4, <1>5, <1>6 DEF SafeInv, TypeOK, Init

LEMMA SafeStep ==
  ASSUME SafeInv, NEW id \in Ids, Step(id)
  PROVE  SafeInv'
BY SafeAdmit, SafeReject, SafeCreate, SafePrune, SafeMarkRunning, SafeStage,
   SafeRecordPhase, SafePull, SafeRecordTarget, SafePin, SafeUp, SafeStopOrDown,
   SafeCheck, SafeCommit, SafeRebuild, SafeRestore, SafeRestoreCheck,
   SafeFinishSuccess, SafeFinishFailure, SafeEnd, SafeInspect, SafeCommandFails
DEF Step

LEMMA SafeNext == SafeInv /\ [Next]_vars => SafeInv'
<1> SUFFICES ASSUME SafeInv, [Next]_vars PROVE SafeInv'
  OBVIOUS
<1>1. CASE UNCHANGED vars
  <2>1. ControlOK' /\ PermitExclusive'
    BY <1>1, TasksUnchanged DEF vars, volatile
  <2> QED
    BY <1>1, <2>1 DEF SafeInv, TypeOK, vars, durable, volatile, bounds
<1>2. CASE Next
  BY <1>2, SafeStep, SafeAcquire, SafeDaemon, SafeStorageFails,
     SafeRecoveryFails, SafeRecoverBegin, SafeRefresh, SafeCleanupHistory,
     SafeStartup, SafeServe, SafeCrash, SafeEnvironment
  DEF Next
<1> QED BY <1>1, <1>2

(* Every reachable state is well typed and every task follows the control      *)
(* flow of its operation.                                                      *)
THEOREM TypeCorrect == Spec => []TypeOK
<1>1. SafeInv => TypeOK
  BY DEF SafeInv
<1> QED BY <1>1, SafeInit, SafeNext, PTL DEF Spec

(* deploy_lock works: for any number of operations and services, crashes and   *)
(* faults, whatever runs for an operation holds the project's permit.          *)
THEOREM PermitIsExclusive == Spec => []PermitExclusive
<1>1. SafeInv => PermitExclusive
  BY DEF SafeInv
<1> QED BY <1>1, SafeInit, SafeNext, PTL DEF Spec

-----------------------------------------------------------------------------
(* Rows, ids, recovery and revisions (RowInv).                              *)

WorkPcs == TaskPcs \cup {"prune"}

(* Only the row of id changes, and an open row stays one of the same          *)
(* operation on the same service.                                             *)
KeepsRow(id) ==
    /\ \A i \in Ids \ {id} : row'[i] = row[i]
    /\ \/ row'[id] = row[id]
       \/ /\ row[id].status \in OpenStatus /\ row'[id].status \in OpenStatus
          /\ row'[id].svc = row[id].svc /\ row'[id].op = row[id].op

LEMMA OnlyLive ==
  ASSUME SafeInv, NEW id \in Ids, Live(id)
  PROVE  /\ holder = id /\ \A i \in Ids \ {id} : ~Live(i) /\ task[i].pc = "idle"
         /\ task[id].op # "none"
<1>1. holder = id /\ \A i \in Ids \ {id} : ~Live(i)
  BY DEF SafeInv, PermitExclusive
<1>2. GoodTask(task[id])
  BY TypedState
<1>3. task[id].op # "none"
  BY <1>2 DEF GoodTask, OpPcs, Live
<1> QED BY <1>1, <1>3 DEF Live

(* A step of a task that keeps its row keeps the rows, as long as the task    *)
(* does not go back to a point that needs more than it had.                   *)
LEMMA MoveKeepsRows ==
  ASSUME RowInv, SafeInv', NEW id \in Ids, Live(id), NEW t,
         task' = [task EXCEPT ![id] = t], KeepsRow(id),
         UNCHANGED <<nextId, committed, revs, mode, holder, todo>>,
         t.op = task[id].op, t.svc = task[id].svc,
         t.pc \in {"admit", "create"} => task[id].pc \in {"admit", "create"},
         (t.pc \in WorkPcs /\ ~(t.pc = "rebuild" /\ t.op # "recreate")) =>
             task[id].pc \in WorkPcs /\ ~AfterCommit(id),
         (task[id].pc \in {"rebuild", "end"} /\ task[id].op = "recover") =>
             t.pc \in {"rebuild", "end"}
  PROVE  RowInv'
<1>1. /\ task' \in [Ids -> Task] /\ task'[id] = t
      /\ \A i \in Ids \ {id} : task'[i] = task[i]
      /\ row \in [Ids -> Row] /\ row' \in [Ids -> Row]
  BY TypedState DEF RowInv, SafeInv, TypeOK
<1>2. holder = id /\ \A i \in Ids \ {id} : task[i].pc = "idle"
  BY OnlyLive DEF RowInv
<1>3. task[id].op # "none"
  BY OnlyLive DEF RowInv
<1>4. FreshIds'
  <2>1. ASSUME NEW i \in Ids, i >= nextId'
        PROVE  row'[i] = NoRow
    BY <2>1 DEF RowInv, FreshIds, KeepsRow, NoRow, OpenStatus
  <2>2. \A i \in Ids : task'[i].pc \in {"admit", "create"} => i = nextId'
    BY <1>1 DEF RowInv, FreshIds
  <2> QED BY <2>1, <2>2 DEF RowInv, FreshIds
<1>5. RecoveryOK'
  <2>1. \A i \in todo' : row'[i].status \in OpenStatus
                         \/ task'[i].pc \in {"rebuild", "end"}
    <3> SUFFICES ASSUME NEW i \in todo
                 PROVE  row'[i].status \in OpenStatus
                        \/ task'[i].pc \in {"rebuild", "end"}
      OBVIOUS
    <3>1. i \in Ids /\ mode = "recovering"
      BY DEF RowInv, SafeInv, TypeOK, RecoveryOK
    <3>2. task[id].op = "recover"
      BY <1>3, <3>1 DEF RowInv, RecoveryOK
    <3> QED BY <1>1, <3>1, <3>2 DEF RowInv, RecoveryOK, KeepsRow
  <2>2. \A i \in Ids : task'[i].op = task[i].op
    BY <1>1
  <2> QED BY <2>1, <2>2 DEF RowInv, RecoveryOK
<1>6. LiveRowOpen'
  <2> SUFFICES ASSUME NEW i \in Ids, task'[i].pc \in WorkPcs, ~AfterCommit(i)'
               PROVE  /\ row'[i].status \in OpenStatus
                      /\ row'[i].svc = task'[i].svc
                      /\ task'[i].op \in {row'[i].op, "recover"}
    BY DEF LiveRowOpen, WorkPcs
  <2>1. i = id
    BY <1>1, <1>2 DEF WorkPcs, TaskPcs, CommandPcs, StoragePcs
  <2>2. task[id].pc \in WorkPcs /\ ~AfterCommit(id)
    BY <1>1, <2>1 DEF AfterCommit
  <2> QED BY <1>1, <2>1, <2>2 DEF RowInv, LiveRowOpen, WorkPcs, KeepsRow
<1>7. OpenRowUncommitted'
  BY DEF RowInv, OpenRowUncommitted, KeepsRow, Dep
<1>8. BaselineIsNewest'
  BY DEF RowInv, BaselineIsNewest
<1> QED BY <1>4, <1>5, <1>6, <1>7, <1>8 DEF RowInv

LEMMA GotoKeepsRows ==
  ASSUME RowInv, SafeInv', NEW id \in Ids, Live(id), NEW pc \in Pcs,
         Goto(id, pc), KeepsRow(id),
         UNCHANGED <<nextId, committed, revs, mode, holder, todo>>,
         pc \in {"admit", "create"} => task[id].pc \in {"admit", "create"},
         (pc \in WorkPcs /\ ~(pc = "rebuild" /\ task[id].op # "recreate")) =>
             task[id].pc \in WorkPcs /\ ~AfterCommit(id),
         (task[id].pc \in {"rebuild", "end"} /\ task[id].op = "recover") =>
             pc \in {"rebuild", "end"}
  PROVE  RowInv'
<1> DEFINE t == [task[id] EXCEPT !.pc = pc]
<1>1. task \in [Ids -> Task] /\ task[id] \in Task
  BY TypedState DEF RowInv
<1>2. t.pc = pc /\ t.op = task[id].op /\ t.svc = task[id].svc
  BY <1>1, GotoTask
<1>3. task' = [task EXCEPT ![id] = t]
  BY <1>1 DEF Goto
<1> HIDE DEF t
<1> QED BY <1>2, <1>3, MoveKeepsRows

LEMMA SameRow ==
  ASSUME NEW id \in Ids, UNCHANGED row
  PROVE  KeepsRow(id)
BY DEF KeepsRow

(* The updates of the row on the way keep it open. *)
LEMMA ProgressKeepsRow ==
  ASSUME RowInv, NEW id \in Ids,
         MarkRunning(id) \/ RecordPhase(id) \/ RecordTarget(id)
  PROVE  KeepsRow(id)
<1>1. row \in [Ids -> Row] /\ row[id] \in Row
  BY TypedState DEF RowInv
<1>2. task[id].pc \in TaskPcs /\ ~AfterCommit(id)
  BY DEF MarkRunning, RecordPhase, RecordTarget, TaskPcs, StoragePcs, AfterCommit
<1>3. row[id].status \in OpenStatus
  BY <1>2 DEF RowInv, LiveRowOpen
<1>4. CASE MarkRunning(id)
  BY <1>1, <1>3, <1>4 DEF KeepsRow, MarkRunning, OpenStatus, Row
<1>5. CASE RecordPhase(id) \/ RecordTarget(id)
  BY <1>1, <1>3, <1>5 DEF KeepsRow, RecordPhase, RecordTarget, Row
<1> QED BY <1>4, <1>5

LEMMA RowSteps ==
  ASSUME RowInv, SafeInv', NEW id \in Ids,
         \/ Reject(id) \/ MarkRunning(id) \/ RecordPhase(id) \/ RecordTarget(id)
         \/ Pin(id) \/ Up(id) \/ StopOrDown(id) \/ Check(id) \/ Rebuild(id)
         \/ Restore(id)
  PROVE  RowInv'
<1>1. /\ row \in [Ids -> Row] /\ row[id] \in Row
      /\ task[id] \in Task /\ GoodTask(task[id])
  BY TypedState DEF RowInv
<1>2. CASE Reject(id)
  <2> DEFINE pc == "end"
  <2>1. Live(id) /\ Goto(id, pc) /\ pc \in Pcs
    BY <1>2 DEF Reject, Live, Pcs
  <2>2. UNCHANGED <<row, nextId, committed, revs, mode, holder, todo>>
    BY <1>2 DEF Reject, durable
  <2>3. /\ task[id].pc = "admit" /\ pc \notin WorkPcs
        /\ pc \notin {"admit", "create"}
    BY <1>2 DEF Reject, WorkPcs, TaskPcs, CommandPcs, StoragePcs
  <2>4. KeepsRow(id)
    BY <2>2, SameRow
  <2> HIDE DEF pc
  <2> QED BY <2>1, <2>2, <2>3, <2>4, GotoKeepsRows
<1>3. CASE MarkRunning(id)
  <2> DEFINE pc == FirstPc(task[id].op)
  <2>1. /\ Live(id) /\ Goto(id, pc) /\ task[id].pc = "queued"
        /\ UNCHANGED <<nextId, committed, revs, mode, holder, todo>>
    BY <1>3 DEF MarkRunning, Live
  <2>2. pc \in Pcs \ {"admit", "create"}
    <3>1. task[id].op \in Operations
      BY <1>1, <2>1, TaskFields DEF GoodTask, OpPcs, RestorePcs
    <3> QED BY <3>1 DEF FirstPc, Operations, Lifecycle, Pcs, TaskPcs,
              CommandPcs, StoragePcs
  <2>3. "queued" \in WorkPcs /\ ~AfterCommit(id)
    BY <2>1 DEF AfterCommit, WorkPcs, TaskPcs, StoragePcs
  <2>4. KeepsRow(id)
    BY <1>3, ProgressKeepsRow
  <2> HIDE DEF pc
  <2> QED BY <2>1, <2>2, <2>3, <2>4, GotoKeepsRows
<1>4. CASE RecordPhase(id)
  <2> DEFINE pc == AfterPhase(task[id].op, task[id].pc)
  <2>1. /\ Live(id) /\ Goto(id, pc)
        /\ task[id].pc \in {"pulling", "starting", "checking", "committing"}
        /\ UNCHANGED <<nextId, committed, revs, mode, holder, todo>>
    BY <1>4 DEF RecordPhase, Live
  <2>2. pc \in Pcs \ {"admit", "create"}
    BY <2>1 DEF AfterPhase, Pcs, TaskPcs, CommandPcs, StoragePcs
  <2>3. task[id].pc \in WorkPcs /\ ~AfterCommit(id)
    BY <2>1 DEF AfterCommit, WorkPcs, TaskPcs, StoragePcs
  <2>4. KeepsRow(id)
    BY <1>4, ProgressKeepsRow
  <2> HIDE DEF pc
  <2> QED BY <2>1, <2>2, <2>3, <2>4, GotoKeepsRows
<1>5. CASE RecordTarget(id)
  <2>1. /\ Live(id) /\ Goto(id, "pin") /\ task[id].pc = "target"
        /\ UNCHANGED <<nextId, committed, revs, mode, holder, todo>>
    BY <1>5 DEF RecordTarget, Live
  <2>2. task[id].pc \in WorkPcs /\ ~AfterCommit(id) /\ "pin" \in Pcs
    BY <2>1 DEF AfterCommit, WorkPcs, TaskPcs, StoragePcs, Pcs
  <2>3. KeepsRow(id)
    BY <1>5, ProgressKeepsRow
  <2> QED BY <2>1, <2>2, <2>3, GotoKeepsRows
<1>6. ASSUME Pin(id) \/ Up(id) \/ StopOrDown(id) \/ Check(id) \/ Restore(id)
      PROVE  RowInv'
  <2>1. PICK pc \in Pcs \ {"admit", "create", "rebuild"} : Goto(id, pc)
    BY <1>6 DEF Pin, Up, StopOrDown, Check, Restore, Pcs, TaskPcs, CommandPcs,
      StoragePcs
  <2>2. UNCHANGED <<row, nextId, committed, revs, mode, holder, todo>>
    BY <1>6 DEF Pin, Up, StopOrDown, Check, Restore, durable
  <2>3. /\ task[id].pc \in WorkPcs \ {"rebuild", "end"} /\ Live(id)
        /\ ~AfterCommit(id)
    BY <1>6 DEF Pin, Up, StopOrDown, Check, Restore, WorkPcs, TaskPcs,
      CommandPcs, StoragePcs, Live, AfterCommit
  <2> QED BY <2>1, <2>2, <2>3, GotoKeepsRows, SameRow
<1>7. CASE Rebuild(id)
  <2> DEFINE pc == IF task[id].op = "recreate" THEN "up" ELSE "end"
  <2>1. Goto(id, pc) /\ pc \in Pcs /\ Live(id) /\ task[id].pc = "rebuild"
    BY <1>7 DEF Rebuild, Pcs, TaskPcs, CommandPcs, Live
  <2>2. UNCHANGED <<row, nextId, committed, revs, mode, holder, todo>>
    BY <1>7 DEF Rebuild
  <2>3. /\ pc \in WorkPcs => task[id].pc \in WorkPcs /\ ~AfterCommit(id)
        /\ pc \notin {"admit", "create", "rebuild"}
        /\ task[id].op = "recover" => pc = "end"
    BY <2>1 DEF WorkPcs, TaskPcs, CommandPcs, StoragePcs, AfterCommit
  <2> HIDE DEF pc
  <2> QED BY <2>1, <2>2, <2>3, GotoKeepsRows, SameRow
<1> QED BY <1>2, <1>3, <1>4, <1>5, <1>6, <1>7

(* The steps that also set the image or the rollback_status of the task. *)
LEMMA RowUpdates ==
  ASSUME RowInv, SafeInv', NEW id \in Ids,
         \/ Admit(id) \/ Stage(id) \/ Pull(id) \/ RestoreCheck(id) \/ Inspect(id)
         \/ CommandFails(id) \/ StorageFails(id)
  PROVE  RowInv'
<1> DEFINE t == task'[id]
<1>1. /\ task \in [Ids -> Task] /\ task[id] \in Task /\ GoodTask(task[id])
  BY TypedState DEF RowInv
<1>2. UNCHANGED <<row, nextId, committed, revs, mode, holder, todo>>
  BY DEF Admit, Stage, Pull, RestoreCheck, Inspect, CommandFails, StorageFails,
    durable
<1>3. /\ Live(id)
      /\ task' = [task EXCEPT ![id] = t] /\ t.op = task[id].op
      /\ t.svc = task[id].svc
      /\ t.pc \in {"admit", "create"} => task[id].pc = "admit"
      /\ (t.pc \in WorkPcs /\ ~(t.pc = "rebuild" /\ t.op # "recreate")) =>
             task[id].pc \in WorkPcs /\ ~AfterCommit(id)
      /\ (task[id].pc \in {"rebuild", "end"} /\ task[id].op = "recover") =>
             t.pc \in {"rebuild", "end"}
  <2>1. CASE Admit(id)
    <3>1. task[id].pc = "admit" /\ Live(id)
      BY <2>1 DEF Admit, Live
    <3>2. "create" \notin WorkPcs
      BY DEF WorkPcs, TaskPcs, CommandPcs, StoragePcs
    <3>3. \/ task' = [task EXCEPT ![id].pc = "create"]
          \/ \E img : task' = [task EXCEPT ![id].pc = "create", ![id].img = img]
      BY <2>1 DEF Admit, Goto
    <3>4. /\ task' = [task EXCEPT ![id] = t] /\ t.pc = "create"
          /\ t.op = task[id].op /\ t.svc = task[id].svc
      BY <1>1, <3>3 DEF Task
    <3> HIDE DEF t
    <3> QED BY <3>1, <3>2, <3>4
  <2>2. CASE Stage(id)
    <3>1. PICK images : task' = [task EXCEPT ![id].pc = "pulling",
                                             ![id].images = images]
      BY <2>2 DEF Stage
    <3>2. task[id].pc = "stage"
      BY <2>2 DEF Stage
    <3>3. /\ task' = [task EXCEPT ![id] = t] /\ t.pc = "pulling"
          /\ t.op = task[id].op /\ t.svc = task[id].svc
      BY <1>1, <3>1 DEF Task
    <3> HIDE DEF t
    <3> QED BY <3>2, <3>3 DEF Live, WorkPcs, TaskPcs, StoragePcs, AfterCommit
  <2>3. CASE Pull(id)
    <3>1. PICK img : task' = [task EXCEPT ![id].pc = "target", ![id].img = img]
      BY <2>3 DEF Pull
    <3>2. task[id].pc = "pull"
      BY <2>3 DEF Pull
    <3>3. /\ task' = [task EXCEPT ![id] = t] /\ t.pc = "target"
          /\ t.op = task[id].op /\ t.svc = task[id].svc
      BY <1>1, <3>1 DEF Task
    <3> HIDE DEF t
    <3> QED BY <3>2, <3>3 DEF Live, WorkPcs, TaskPcs, CommandPcs, AfterCommit
  <2>4. CASE RestoreCheck(id)
    BY <1>1, <2>4 DEF RestoreCheck, Live, WorkPcs, TaskPcs, CommandPcs, Task,
      AfterCommit
  <2>5. CASE Inspect(id)
    BY <1>1, <2>5 DEF Inspect, Goto, Live, WorkPcs, TaskPcs, Task, AfterCommit
  <2>6. CASE CommandFails(id) \/ StorageFails(id)
    <3> DEFINE h == Handled(task[id].op, task[id].pc)
    <3>1. task' = [task EXCEPT ![id].pc = h.pc, ![id].rb = h.rb]
      BY <2>6 DEF CommandFails, StorageFails, OnError
    <3>2. /\ task[id].pc \in HandlerPcs \cup CommandPcs \cup StoragePcs
          /\ task[id].op = "recover" => task[id].pc \in RestorePcs
      BY <1>1, <2>6 DEF CommandFails, StorageFails, HandlerPcs, CommandPcs,
        StoragePcs, GoodTask, OpPcs, RestorePcs
    <3>3. Live(id)
      BY <3>2 DEF HandlerPcs, CommandPcs, StoragePcs, Live
    <3>4. h.pc \notin {"admit", "create", "rebuild", "prune"}
      BY DEF Handled, Recourse, RestoreFailed
    <3>5. h.pc \in WorkPcs => task[id].pc \in WorkPcs /\ ~AfterCommit(id)
      <4>1. CASE task[id].pc \in HandlerPcs
        <5>1. h.pc = "end"
          BY <4>1 DEF Handled, HandlerPcs
        <5> QED BY <5>1 DEF WorkPcs, TaskPcs, CommandPcs, StoragePcs
      <4>2. CASE task[id].pc = "rebuild"
        <5>1. task[id].op \in {"deploy", "recreate", "recover"}
          BY <1>1, <4>2, TaskFields DEF GoodTask, OpPcs, Operations, Lifecycle,
            HandlerPcs, ArtifactPcs, RestorePcs
        <5> QED
          BY <3>2, <4>2, <5>1 DEF Handled, WorkPcs, TaskPcs, CommandPcs,
            StoragePcs, HandlerPcs, Lifecycle, RestorePcs, AfterCommit
      <4>3. CASE task[id].pc \in (CommandPcs \cup StoragePcs) \ {"rebuild"}
        BY <4>3 DEF WorkPcs, TaskPcs, AfterCommit
      <4> QED BY <3>2, <4>1, <4>2, <4>3
    <3> HIDE DEF h
    <3>6. t.pc = h.pc /\ t.op = task[id].op /\ t.svc = task[id].svc
          /\ task' = [task EXCEPT ![id] = t]
      BY <1>1, <3>1 DEF Task
    <3> QED BY <3>2, <3>3, <3>4, <3>5, <3>6 DEF RestorePcs
  <2> QED BY <2>1, <2>2, <2>3, <2>4, <2>5, <2>6
<1> HIDE DEF t
<1> QED BY <1>2, <1>3, MoveKeepsRows, SameRow

LEMMA RowCreate ==
  ASSUME RowInv, SafeInv', NEW id \in Ids, Create(id)
  PROVE  RowInv'
<1> DEFINE r == [NoRow EXCEPT !.svc = task[id].svc, !.op = task[id].op,
                              !.status = "queued"]
<1>1. /\ task \in [Ids -> Task] /\ task[id] \in Task /\ row \in [Ids -> Row]
      /\ Live(id) /\ task[id].pc = "create"
  BY TypedState DEF RowInv, Create, Live
<1>2. /\ \A i \in Ids \ {id} : task[i].pc = "idle" /\ task'[i] = task[i]
      /\ task'[id].pc = "prune" /\ task'[id].svc = task[id].svc
      /\ \A i \in Ids : task'[i].op = task[i].op
  BY <1>1, OnlyLive DEF RowInv, Create, Goto, Task
<1>3. /\ r.status = "queued" /\ r.svc = task[id].svc /\ r.op = task[id].op
  BY DEF NoRow
<1>4. row' = [row EXCEPT ![id] = r]
  BY DEF Create
<1> HIDE DEF r
<1>5. row'[id] = r /\ \A i \in Ids \ {id} : row'[i] = row[i]
  BY <1>1, <1>4
<1>6. id = nextId /\ nextId' = nextId + 1 /\ nextId \in Int
  BY <1>1 DEF RowInv, FreshIds, Create, Ids
<1>7. todo = {} /\ todo' = {} /\ mode' = mode /\ holder' = holder
      /\ mode # "recovering"
  <2>1. task[id].op \notin {"none", "recover"}
    BY <1>1, TypedState, TaskFields
    DEF RowInv, GoodTask, OpPcs, RestorePcs, Operations, Lifecycle
  <2> QED BY <2>1 DEF RowInv, RecoveryOK, Create
<1>8. UNCHANGED <<revs, committed>> /\ \A s \in Services : \A k \in DOMAIN revs[s] :
          revs[s][k].dep \in Ids /\ revs[s][k].dep < nextId
  BY RevisionType DEF Create, RowInv, SafeInv, FreshIds
<1>9. FreshIds'
  BY <1>2, <1>5, <1>6, <1>8 DEF RowInv, FreshIds, Ids
<1>10. RecoveryOK'
  <2>1. \A i \in Ids : task[i].op = "recover" => i \in todo
    BY DEF RowInv, RecoveryOK
  <2> QED BY <1>2, <1>7, <2>1 DEF RowInv, RecoveryOK
<1>11. LiveRowOpen'
  BY <1>2, <1>3, <1>5
  DEF LiveRowOpen, TaskPcs, CommandPcs, StoragePcs, OpenStatus
<1>12. OpenRowUncommitted'
  BY <1>5, <1>6, <1>8 DEF RowInv, OpenRowUncommitted, Dep, Ids
<1>13. BaselineIsNewest'
  BY <1>8 DEF RowInv, BaselineIsNewest
<1> QED BY <1>9, <1>10, <1>11, <1>12, <1>13 DEF RowInv

(* Rows that are finished go away; nothing else changes but perhaps a task     *)
(* that goes on to the next point.                                             *)
DropsRows ==
    \A i \in Ids : \/ row'[i] = row[i]
                   \/ row[i].status \in DoneStatus /\ row'[i] = NoRow

LEMMA DropKeepsRows ==
  ASSUME RowInv, SafeInv', DropsRows,
         UNCHANGED <<nextId, committed, revs, mode, holder, todo>>,
         \A i \in Ids : /\ task'[i].op = task[i].op /\ task'[i].svc = task[i].svc
                        /\ \/ task'[i] = task[i]
                           \/ task[i].pc = "prune" /\ task'[i].pc = "queued"
  PROVE  RowInv'
<1>1. \A i \in Ids : /\ row'[i].status \in OpenStatus => row'[i] = row[i]
                     /\ row[i].status \in OpenStatus => row'[i] = row[i]
  BY DEF DropsRows, NoRow, OpenStatus, DoneStatus
<1>2. FreshIds'
  BY DEF RowInv, FreshIds, DropsRows
<1>3. RecoveryOK'
  <2>1. todo \subseteq Ids
    BY DEF RowInv, SafeInv, TypeOK
  <2> QED BY <1>1, <2>1 DEF RowInv, RecoveryOK
<1>4. LiveRowOpen'
  BY <1>1 DEF RowInv, LiveRowOpen, AfterCommit, TaskPcs, StoragePcs
<1>5. OpenRowUncommitted' /\ BaselineIsNewest'
  BY <1>1 DEF RowInv, OpenRowUncommitted, BaselineIsNewest, Dep
<1> QED BY <1>2, <1>3, <1>4, <1>5 DEF RowInv

LEMMA RowPrune ==
  ASSUME RowInv, SafeInv', (\E id \in Ids : Prune(id)) \/ CleanupHistory
  PROVE  RowInv'
<1>1. CASE CleanupHistory
  <2>1. DropsRows
    BY <1>1, TypedState DEF RowInv, CleanupHistory, DropsRows, Finished
  <2> QED BY <1>1, <2>1, DropKeepsRows DEF CleanupHistory, volatile
<1>2. ASSUME NEW id \in Ids, Prune(id)
      PROVE  RowInv'
  <2>1. DropsRows
    BY <1>2 DEF Prune, DropsRows, Prunable, Finished
  <2>2. \A i \in Ids : /\ task'[i].op = task[i].op /\ task'[i].svc = task[i].svc
                       /\ \/ task'[i] = task[i]
                          \/ task[i].pc = "prune" /\ task'[i].pc = "queued"
    BY <1>2, TypedState DEF RowInv, Prune, Goto, Task
  <2> QED BY <1>2, <2>1, <2>2, DropKeepsRows DEF Prune
<1> QED BY <1>1, <1>2

(* A task that closes its row is at its end, or about to rebuild the override. *)
LEMMA CloseKeepsRows ==
  ASSUME RowInv, SafeInv', NEW id \in Ids, Live(id),
         task[id].pc \in TaskPcs, ~AfterCommit(id),
         NEW pc \in {"end", "rebuild"}, Goto(id, pc),
         pc = "rebuild" => task[id].op # "recreate",
         NEW r \in Row, row' = [row EXCEPT ![id] = r], r.status \in DoneStatus,
         UNCHANGED <<nextId, mode, holder, todo>>
  PROVE  /\ \A i \in Ids : i >= nextId' => row'[i] = NoRow
         /\ \A i \in Ids : task'[i].pc \in {"admit", "create"} => i = nextId'
         /\ id < nextId' /\ RecoveryOK' /\ LiveRowOpen'
<1>1. /\ task \in [Ids -> Task] /\ task[id] \in Task
      /\ row \in [Ids -> Row] /\ \A i \in Ids : task[i] \in Task
  BY TypedState DEF RowInv
<1>2. /\ task'[id].pc = pc /\ task'[id].op = task[id].op
      /\ \A i \in Ids \ {id} : task'[i] = task[i] /\ task[i].pc = "idle"
  BY <1>1, OnlyLive DEF RowInv, Goto, Task
<1>3. row'[id] = r /\ \A i \in Ids \ {id} : row'[i] = row[i]
  BY <1>1
<1>4. row[id].status \in OpenStatus
  BY DEF RowInv, LiveRowOpen
<1>5. id < nextId /\ nextId \in Int
  BY <1>4 DEF RowInv, FreshIds, SafeInv, TypeOK, NoRow, OpenStatus, Ids
<1>6. \A i \in Ids : i >= nextId' => row'[i] = NoRow
  BY <1>3, <1>5 DEF RowInv, FreshIds, Ids
<1>7. \A i \in Ids : task'[i].pc \in {"admit", "create"} => i = nextId'
  BY <1>2 DEF RowInv, FreshIds
<1>8. RecoveryOK'
  <2>1. \A i \in Ids : task'[i].op = task[i].op
    BY <1>2
  <2>2. todo \subseteq Ids
    BY DEF RowInv, SafeInv, TypeOK
  <2> QED BY <1>2, <1>3, <2>1, <2>2 DEF RowInv, RecoveryOK
<1>9. LiveRowOpen'
  BY <1>2 DEF LiveRowOpen, AfterCommit, TaskPcs, CommandPcs, StoragePcs
<1> QED BY <1>5, <1>6, <1>7, <1>8, <1>9

LEMMA FinishRow ==
  ASSUME RowInv, NEW id \in Ids, FinishSuccess(id) \/ FinishFailure(id)
  PROVE  \E r \in Row : r.status \in DoneStatus /\ row' = [row EXCEPT ![id] = r]
<1>1. row \in [Ids -> Row] /\ row[id] \in Row /\ task[id].rb \in Outcomes
  BY TypedState, TaskFields DEF RowInv
<1>2. PICK status \in DoneStatus, rb \in Outcomes :
         row' = [row EXCEPT ![id] = ClosedRow(row[id], status, rb)]
  <2>1. CASE FinishSuccess(id)
    BY <2>1 DEF FinishSuccess, DoneStatus, Outcomes
  <2>2. CASE FinishFailure(id)
    BY <1>1, <2>2 DEF FinishFailure, DoneStatus
  <2> QED BY <2>1, <2>2
<1> DEFINE r == ClosedRow(row[id], status, rb)
<1>3. r \in Row /\ r.status = status
  BY <1>1, ClosedRowType DEF ClosedRow, Row
<1>4. row' = [row EXCEPT ![id] = r]
  BY <1>2
<1> HIDE DEF r
<1> QED BY <1>3, <1>4

LEMMA RowFinish ==
  ASSUME RowInv, SafeInv', NEW id \in Ids, FinishSuccess(id) \/ FinishFailure(id)
  PROVE  RowInv'
<1> DEFINE pc == "end"
<1>1. /\ Live(id) /\ task[id].pc \in TaskPcs /\ ~AfterCommit(id)
      /\ pc \in {"end", "rebuild"} /\ pc # "rebuild" /\ Goto(id, pc)
      /\ UNCHANGED <<nextId, mode, holder, todo, revs, committed>>
  BY DEF FinishSuccess, FinishFailure, Live, TaskPcs, StoragePcs, AfterCommit
<1>2. row \in [Ids -> Row]
  BY TypedState DEF RowInv
<1>3. PICK r \in Row : r.status \in DoneStatus /\ row' = [row EXCEPT ![id] = r]
  BY FinishRow
<1> HIDE DEF pc
<1>6. /\ \A i \in Ids : i >= nextId' => row'[i] = NoRow
      /\ \A i \in Ids : task'[i].pc \in {"admit", "create"} => i = nextId'
      /\ RecoveryOK' /\ LiveRowOpen'
  BY <1>1, <1>3, CloseKeepsRows
<1>7. FreshIds' /\ BaselineIsNewest'
  BY <1>1, <1>6 DEF RowInv, FreshIds, BaselineIsNewest
<1>8. \A i \in Ids : row'[i].status \in OpenStatus => row'[i] = row[i]
  BY <1>2, <1>3 DEF OpenStatus, DoneStatus
<1>9. OpenRowUncommitted'
  BY <1>1, <1>8 DEF RowInv, OpenRowUncommitted, Dep
<1> QED BY <1>6, <1>7, <1>9 DEF RowInv

(* What appending a baseline to the revisions of one service does. *)
LEMMA AppendBaseline ==
  ASSUME TypeOK, NEW s \in Services, NEW b, RecordBaseline(s, b)
  PROVE  /\ revs'[s] = Append(revs[s], b) /\ Len(revs[s]) \in Nat
         /\ DOMAIN revs'[s] = 1 .. Len(revs[s]) + 1
         /\ DOMAIN revs[s] = 1 .. Len(revs[s])
         /\ revs'[s][Len(revs[s]) + 1] = b
         /\ \A k \in DOMAIN revs[s] : revs'[s][k] = revs[s][k]
         /\ committed'[s] = b
         /\ \A q \in Services \ {s} : revs'[q] = revs[q] /\ committed'[q] = committed[q]
<1> DEFINE R == [img : Images, dep : Ids]
<1>1. revs \in [Services -> Seq(R)] /\ committed \in [Services -> [img : Images \cup {Base}, dep : 0 .. MaxOps]]
  BY DEF TypeOK
<1> HIDE DEF R
<1>2. /\ revs'[s] = Append(revs[s], b) /\ committed'[s] = b
      /\ \A q \in Services \ {s} : revs'[q] = revs[q] /\ committed'[q] = committed[q]
  BY <1>1 DEF RecordBaseline
<1>3. revs[s] \in Seq(R)
  BY <1>1
<1> QED BY <1>2, <1>3

LEMMA RowCommit ==
  ASSUME RowInv, SafeInv', NEW id \in Ids, Commit(id)
  PROVE  RowInv'
<1> DEFINE pc == IF task[id].op = "rollback" THEN "end" ELSE "rebuild"
           r == CommittedRow(row[id])
           s == task[id].svc
           b == [img |-> task[id].img, dep |-> id]
<1>1. /\ task[id] \in Task /\ GoodTask(task[id]) /\ task[id].pc = "commit"
      /\ row \in [Ids -> Row] /\ row[id] \in Row
  BY TypedState DEF RowInv, Commit
<1>2. /\ Live(id) /\ task[id].pc \in TaskPcs /\ ~AfterCommit(id)
      /\ pc \in {"end", "rebuild"} /\ Goto(id, pc)
      /\ UNCHANGED <<nextId, mode, holder, todo>>
  BY DEF Commit, Live, TaskPcs, StoragePcs, AfterCommit
<1>3. task[id].op # "recreate" /\ s \in Services
  BY <1>1 DEF GoodTask, OpPcs, HandlerPcs
<1>4. r \in Row /\ r.status = "succeeded" /\ row' = [row EXCEPT ![id] = r]
  BY <1>1, CommittedRowType DEF Commit, CommittedRow, Row
<1>5. RecordBaseline(s, b) /\ TypeOK
  BY DEF Commit, RowInv, SafeInv
<1> HIDE DEF pc, r
<1>6. /\ \A i \in Ids : i >= nextId' => row'[i] = NoRow
      /\ \A i \in Ids : task'[i].pc \in {"admit", "create"} => i = nextId'
      /\ id < nextId' /\ RecoveryOK' /\ LiveRowOpen'
  BY <1>2, <1>3, <1>4, CloseKeepsRows DEF DoneStatus
<1>7. b.dep = id
  OBVIOUS
<1> HIDE DEF s, b
<1>8. /\ revs'[s] = Append(revs[s], b) /\ Len(revs[s]) \in Nat
      /\ DOMAIN revs'[s] = 1 .. Len(revs[s]) + 1
      /\ DOMAIN revs[s] = 1 .. Len(revs[s])
      /\ revs'[s][Len(revs[s]) + 1] = b
      /\ \A k \in DOMAIN revs[s] : revs'[s][k] = revs[s][k]
      /\ committed'[s] = b
      /\ \A q \in Services \ {s} : revs'[q] = revs[q] /\ committed'[q] = committed[q]
  BY <1>3, <1>5, AppendBaseline
<1>9. \A q \in Services : \A k \in DOMAIN revs'[q] :
          \/ q = s /\ k = Len(revs[s]) + 1 /\ revs'[q][k] = b
          \/ k \in DOMAIN revs[q] /\ revs'[q][k] = revs[q][k]
  BY <1>8
<1>10. FreshIds'
  BY <1>2, <1>6, <1>7, <1>9 DEF RowInv, FreshIds
<1>11. OpenRowUncommitted'
  <2> SUFFICES ASSUME NEW i \in Ids, row'[i].status \in OpenStatus,
                      NEW q \in Services, NEW k \in DOMAIN revs'[q]
               PROVE  revs'[q][k].dep # i
    BY DEF OpenRowUncommitted, Dep
  <2>1. i # id /\ row'[i] = row[i]
    BY <1>1, <1>4 DEF OpenStatus
  <2> QED BY <1>7, <1>9, <2>1 DEF RowInv, OpenRowUncommitted, Dep
<1>12. BaselineIsNewest'
  <2> SUFFICES ASSUME NEW q \in Services
               PROVE  committed'[q] = IF revs'[q] = <<>> THEN NoBaseline
                                      ELSE revs'[q][Len(revs'[q])]
    BY DEF BaselineIsNewest
  <2>1. CASE q = s
    <3>1. Len(revs'[s]) = Len(revs[s]) + 1
      BY <1>8
    <3>2. revs'[s] # <<>>
      BY <1>8, <3>1
    <3> QED BY <1>8, <2>1, <3>1, <3>2
  <2>2. CASE q # s
    BY <1>8, <2>2 DEF RowInv, BaselineIsNewest
  <2> QED BY <2>1, <2>2
<1> QED BY <1>6, <1>10, <1>11, <1>12 DEF RowInv

LEMMA RowStart ==
  ASSUME RowInv, SafeInv',
         \/ \E s \in Services, op \in Operations : Acquire(s, op)
         \/ \E id \in Ids : RecoverBegin(id)
  PROVE  RowInv'
<1>1. /\ task \in [Ids -> Task] /\ holder = Free /\ holder' \in Ids
      /\ UNCHANGED <<row, nextId, committed, revs, mode, todo>>
      /\ mode # "down"
  BY TypedState DEF RowInv, Acquire, RecoverBegin, TryAcquire, durable
<1>2. \A i \in Ids : task[i].pc = "idle"
  BY <1>1, FreeMeansIdle DEF RowInv, Live
<1>3. \A i \in Ids : task[i].op = "none"
  BY <1>2, TypedState, TaskFields, PcCases DEF RowInv, GoodTask
<1>4. CASE \E s \in Services, op \in Operations : Acquire(s, op)
  <2>1. PICK s \in Services, op \in Operations : Acquire(s, op)
    BY <1>4
  <2>2. /\ nextId \in Ids /\ mode = "serving" /\ task'[nextId].pc = "admit"
        /\ task'[nextId].op = op /\ \A i \in Ids \ {nextId} : task'[i] = task[i]
    BY <1>1, <2>1 DEF Acquire, IdleTask
  <2>3. todo = {}
    BY <2>2 DEF RowInv, RecoveryOK
  <2>4. FreshIds' /\ OpenRowUncommitted' /\ BaselineIsNewest'
    BY <1>1, <1>2, <2>2
    DEF RowInv, FreshIds, OpenRowUncommitted, BaselineIsNewest, Dep
  <2>5. RecoveryOK'
    BY <1>1, <1>3, <2>2, <2>3 DEF RowInv, RecoveryOK, Operations, Lifecycle
  <2>6. LiveRowOpen'
    BY <1>2, <2>2 DEF LiveRowOpen, TaskPcs, CommandPcs, StoragePcs
  <2> QED BY <2>4, <2>5, <2>6 DEF RowInv
<1>5. CASE \E id \in Ids : RecoverBegin(id)
  <2>1. PICK id \in Ids : RecoverBegin(id)
    BY <1>5
  <2> DEFINE pc == RecoverFrom(row[id]).pc
  <2>2. pc \in {"fail", "inspect"}
    BY DEF RecoverFrom
  <2>3. /\ mode = "recovering" /\ id \in todo /\ task'[id].pc = pc
        /\ task'[id].op = "recover" /\ task'[id].svc = row[id].svc
        /\ \A i \in Ids \ {id} : task'[i] = task[i]
    BY <1>1, <2>1 DEF RecoverBegin, IdleTask
  <2> HIDE DEF pc
  <2>4. row[id].status \in OpenStatus
    BY <1>2, <2>3 DEF RowInv, RecoveryOK
  <2>5. FreshIds' /\ OpenRowUncommitted' /\ BaselineIsNewest'
    BY <1>1, <1>2, <2>2, <2>3
    DEF RowInv, FreshIds, OpenRowUncommitted, BaselineIsNewest, Dep
  <2>6. RecoveryOK'
    <3>1. todo \subseteq Ids
      BY DEF RowInv, SafeInv, TypeOK
    <3>2. \A i \in todo : row[i].status \in OpenStatus
      BY <1>2, <3>1 DEF RowInv, RecoveryOK
    <3> QED BY <1>1, <1>3, <2>3, <3>1, <3>2 DEF RecoveryOK
  <2>7. LiveRowOpen'
    BY <1>1, <1>2, <2>3, <2>4 DEF LiveRowOpen, TaskPcs, CommandPcs, StoragePcs
  <2> QED BY <2>5, <2>6, <2>7 DEF RowInv
<1> QED BY <1>4, <1>5

LEMMA RowEnd ==
  ASSUME RowInv, SafeInv', NEW id \in Ids, End(id)
  PROVE  RowInv'
<1>1. /\ task \in [Ids -> Task] /\ Live(id) /\ mode' = mode /\ holder' = Free
      /\ todo' = todo \ {id} /\ UNCHANGED <<row, nextId, committed, revs>>
  BY TypedState DEF RowInv, End, Live, durable
<1>2. /\ \A i \in Ids \ {id} : task[i].pc = "idle" /\ task'[i] = task[i]
      /\ task'[id].pc = "idle" /\ task'[id].op = "none"
  BY <1>1, OnlyLive DEF RowInv, End, IdleTask
<1>3. \A i \in Ids \ {id} : task[i].op = "none"
  BY <1>2, TypedState, TaskFields, PcCases DEF RowInv, GoodTask
<1>4. FreshIds' /\ OpenRowUncommitted' /\ BaselineIsNewest'
  BY <1>1, <1>2 DEF RowInv, FreshIds, OpenRowUncommitted, BaselineIsNewest, Dep
<1>5. RecoveryOK'
  <2>1. todo' \subseteq Ids
    BY <1>1 DEF RowInv, SafeInv, TypeOK
  <2> QED BY <1>1, <1>2, <1>3, <2>1 DEF RowInv, RecoveryOK
<1>6. LiveRowOpen'
  BY <1>2 DEF LiveRowOpen, TaskPcs, CommandPcs, StoragePcs
<1> QED BY <1>4, <1>5, <1>6 DEF RowInv

LEMMA RowProcessEnds ==
  ASSUME RowInv, SafeInv', ProcessEnds
  PROVE  RowInv'
<1>1. /\ \A i \in Ids : task'[i].pc = "idle" /\ task'[i].op = "none"
      /\ UNCHANGED <<row, nextId, committed, revs>>
      /\ mode' = "down" /\ holder' = Free /\ todo' = {}
  BY DEF ProcessEnds, IdleTask, durable
<1>2. FreshIds' /\ OpenRowUncommitted' /\ BaselineIsNewest'
  BY <1>1 DEF RowInv, FreshIds, OpenRowUncommitted, BaselineIsNewest, Dep
<1>3. RecoveryOK' /\ LiveRowOpen'
  BY <1>1 DEF RecoveryOK, LiveRowOpen, TaskPcs, CommandPcs, StoragePcs
<1> QED BY <1>2, <1>3 DEF RowInv

(* What leaves the rows, the tasks, the permit and the process alone. *)
rowVars == <<row, nextId, committed, revs, mode, holder, task, todo>>

LEMMA RowStutter ==
  ASSUME RowInv, SafeInv', UNCHANGED rowVars
  PROVE  RowInv'
<1>1. FreshIds' /\ OpenRowUncommitted' /\ BaselineIsNewest'
  BY DEF RowInv, FreshIds, OpenRowUncommitted, BaselineIsNewest, Dep, rowVars
<1>2. RecoveryOK' /\ LiveRowOpen'
  BY DEF RowInv, RecoveryOK, LiveRowOpen, AfterCommit, rowVars
<1> QED BY <1>1, <1>2 DEF RowInv

LEMMA RowRefresh ==
  ASSUME RowInv, SafeInv', RefreshBegin \/ RefreshApply \/ RefreshAborts
  PROVE  RowInv'
<1>1. /\ UNCHANGED <<row, nextId, committed, revs, mode, task, todo>>
      /\ mode # "down"
  BY DEF RefreshBegin, RefreshApply, RefreshAborts, durable, RowInv, RecoveryOK,
    Free, Refresher
<1>2. FreshIds' /\ OpenRowUncommitted' /\ BaselineIsNewest'
  BY <1>1 DEF RowInv, FreshIds, OpenRowUncommitted, BaselineIsNewest, Dep
<1>3. RecoveryOK' /\ LiveRowOpen'
  BY <1>1 DEF RowInv, RecoveryOK, LiveRowOpen, AfterCommit
<1> QED BY <1>2, <1>3 DEF RowInv

LEMMA RowBoot ==
  ASSUME RowInv, SafeInv', Startup \/ Serve
  PROVE  RowInv'
<1>1. UNCHANGED <<row, nextId, committed, revs, holder, task>>
  BY DEF Startup, Serve, durable
<1>2. FreshIds' /\ OpenRowUncommitted' /\ BaselineIsNewest'
  BY <1>1 DEF RowInv, FreshIds, OpenRowUncommitted, BaselineIsNewest, Dep
<1>3. LiveRowOpen'
  BY <1>1 DEF RowInv, LiveRowOpen, AfterCommit
<1>4. RecoveryOK'
  <2>1. CASE Serve
    BY <1>1, <2>1 DEF RowInv, RecoveryOK, Serve
  <2>2. CASE Startup
    <3>1. \A i \in Ids : task[i].op = "none"
      <4>1. \A i \in Ids : task[i].pc = "idle"
        BY <2>2, FreeMeansIdle DEF RowInv, RecoveryOK, Startup, Live
      <4> QED BY <4>1, TypedState, TaskFields, PcCases DEF RowInv, GoodTask
    <3>2. /\ mode' = "recovering" /\ todo' = ActiveDeployments
      BY <2>2 DEF Startup
    <3> QED BY <1>1, <3>1, <3>2 DEF RecoveryOK, ActiveDeployments
  <2> QED BY <2>1, <2>2
<1> QED BY <1>2, <1>3, <1>4 DEF RowInv

LEMMA RowInit == Init => RowInv
<1> SUFFICES ASSUME Init PROVE RowInv
  OBVIOUS
<1>1. /\ \A i \in Ids : /\ task[i].pc = "idle" /\ task[i].op = "none"
                        /\ row[i] = NoRow
      /\ \A s \in Services : revs[s] = <<>> /\ committed[s] = NoBaseline
      /\ mode = "down" /\ holder = Free /\ todo = {}
  BY DEF Init, IdleTask
<1>2. FreshIds /\ OpenRowUncommitted /\ BaselineIsNewest
  BY <1>1 DEF FreshIds, OpenRowUncommitted, BaselineIsNewest, NoRow, OpenStatus
<1>3. RecoveryOK /\ LiveRowOpen
  BY <1>1 DEF RecoveryOK, LiveRowOpen, TaskPcs, CommandPcs, StoragePcs
<1> QED BY <1>2, <1>3, SafeInit DEF RowInv

LEMMA RowNext == RowInv /\ [Next]_vars => RowInv'
<1> SUFFICES ASSUME RowInv, [Next]_vars PROVE RowInv'
  OBVIOUS
<1>1. SafeInv'
  BY SafeNext DEF RowInv
<1>2. CASE UNCHANGED vars
  BY <1>1, <1>2, RowStutter DEF vars, durable, volatile, rowVars
<1>3. ASSUME NEW id \in Ids, Step(id)
      PROVE  RowInv'
  BY <1>1, <1>3, RowSteps, RowUpdates, RowCreate, RowPrune, RowFinish, RowCommit,
     RowEnd DEF Step
<1>4. ASSUME NEW id \in Ids, Daemon(id) \/ StorageFails(id) \/ RecoveryFails(id)
      PROVE  RowInv'
  <2>1. CASE Daemon(id)
    BY <1>1, <2>1, RowStutter DEF Daemon, volatile, rowVars
  <2>2. CASE StorageFails(id)
    BY <1>1, <2>2, RowUpdates
  <2>3. CASE RecoveryFails(id)
    BY <1>1, <2>3, RowProcessEnds DEF RecoveryFails
  <2> QED BY <1>4, <2>1, <2>2, <2>3
<1>5. CASE EditCompose \/ \E s \in Services : ContainerChanges(s) \/ ManualUp(s)
  <2>1. UNCHANGED rowVars
    BY <1>5 DEF EditCompose, ContainerChanges, ManualUp, volatile, rowVars
  <2> QED BY <1>1, <2>1, RowStutter
<1>6. CASE Crash
  BY <1>1, <1>6, RowProcessEnds DEF Crash
<1> QED
  BY <1>1, <1>2, <1>3, <1>4, <1>5, <1>6, RowStart, RowRefresh, RowPrune, RowBoot
  DEF Next

-----------------------------------------------------------------------------
(* The refinement of BaselineLog.                                           *)

LEMMA OpenUnchanged ==
  ASSUME \A i \in Ids : row'[i].status \in OpenStatus <=> row[i].status \in OpenStatus,
         UNCHANGED <<nextId, revs>>
  PROVE  UNCHANGED Log!absVars
<1>1. ActiveDeployments' = ActiveDeployments
  BY DEF ActiveDeployments
<1> QED BY <1>1 DEF Log!absVars

LEMMA CreateOpens ==
  ASSUME RowInv, NEW id \in Ids, Create(id)
  PROVE  Log!OpenOp
<1>1. id = nextId /\ row \in [Ids -> Row]
  BY TypedState DEF RowInv, FreshIds, Create
<1>2. /\ row'[id].status = "queued"
      /\ \A i \in Ids \ {id} : row'[i] = row[i]
  BY <1>1 DEF Create, NoRow
<1>3. ActiveDeployments' = ActiveDeployments \cup {nextId}
  BY <1>1, <1>2 DEF ActiveDeployments, OpenStatus
<1> QED BY <1>1, <1>3 DEF Create, Log!OpenOp

(* A step that closes the row of a live operation takes it out of the open ones. *)
LEMMA ClosingRow ==
  ASSUME RowInv, NEW id \in Ids, task[id].pc \in TaskPcs, ~AfterCommit(id),
         NEW r, r.status \in DoneStatus, row' = [row EXCEPT ![id] = r]
  PROVE  /\ id \in ActiveDeployments
         /\ ActiveDeployments' = ActiveDeployments \ {id}
<1>1. row \in [Ids -> Row] /\ row[id].status \in OpenStatus
  BY TypedState DEF RowInv, LiveRowOpen
<1>2. row'[id] = r /\ \A i \in Ids \ {id} : row'[i] = row[i]
  BY <1>1
<1> QED BY <1>1, <1>2 DEF ActiveDeployments, OpenStatus, DoneStatus

LEMMA CommitCommits ==
  ASSUME RowInv, NEW id \in Ids, Commit(id)
  PROVE  Log!AbsNext
<1> DEFINE s == task[id].svc
           img == task[id].img
           r == CommittedRow(row[id])
<1>1. /\ task[id] \in Task /\ GoodTask(task[id]) /\ task[id].pc = "commit"
      /\ row[id] \in Row
  BY TypedState DEF RowInv, Commit
<1>2. s \in Services /\ img \in Images
  BY <1>1, TaskFields DEF GoodTask, OpPcs, ImagePcs, ArtifactPcs, HandlerPcs,
    Operations, Lifecycle
<1>3. r.status \in DoneStatus /\ row' = [row EXCEPT ![id] = r]
  BY <1>1 DEF Commit, CommittedRow, Row, DoneStatus
<1>4. task[id].pc \in TaskPcs /\ ~AfterCommit(id)
  BY <1>1 DEF TaskPcs, StoragePcs, AfterCommit
<1> HIDE DEF r
<1>5. id \in ActiveDeployments /\ ActiveDeployments' = ActiveDeployments \ {id}
  BY <1>3, <1>4, ClosingRow
<1>6. Log!CommitOp(id, s, img)
  BY <1>5 DEF Commit, RecordBaseline, Log!CommitOp
<1> QED BY <1>2, <1>5, <1>6 DEF Log!AbsNext

LEMMA FinishCloses ==
  ASSUME RowInv, NEW id \in Ids, FinishSuccess(id) \/ FinishFailure(id)
  PROVE  Log!AbsNext
<1>1. /\ task[id].pc \in TaskPcs /\ ~AfterCommit(id) /\ UNCHANGED <<nextId, revs>>
  BY DEF FinishSuccess, FinishFailure, TaskPcs, StoragePcs, AfterCommit
<1>3. PICK r \in Row : r.status \in DoneStatus /\ row' = [row EXCEPT ![id] = r]
  BY FinishRow
<1>4. id \in ActiveDeployments /\ ActiveDeployments' = ActiveDeployments \ {id}
  BY <1>1, <1>3, ClosingRow
<1> QED BY <1>1, <1>4 DEF Log!CloseOp, Log!AbsNext

(* Every step of the pipeline opens, commits or closes one operation in the    *)
(* log of baselines, or changes nothing in it.                                 *)
LEMMA LogStep == RowInv /\ [Next]_vars => [Log!AbsNext]_(Log!absVars)
<1> SUFFICES ASSUME RowInv, [Next]_vars PROVE [Log!AbsNext]_(Log!absVars)
  OBVIOUS
<1>1. CASE \E id \in Ids : Create(id)
  BY <1>1, CreateOpens DEF Log!AbsNext
<1>2. CASE \E id \in Ids : Commit(id) \/ FinishSuccess(id) \/ FinishFailure(id)
  BY <1>2, CommitCommits, FinishCloses
<1>3. CASE \E id \in Ids : MarkRunning(id) \/ RecordPhase(id) \/ RecordTarget(id)
  <2>1. PICK id \in Ids : MarkRunning(id) \/ RecordPhase(id) \/ RecordTarget(id)
    BY <1>3
  <2>2. KeepsRow(id) /\ UNCHANGED <<nextId, revs>>
    BY <2>1, ProgressKeepsRow DEF MarkRunning, RecordPhase, RecordTarget
  <2> QED BY <2>2, OpenUnchanged DEF KeepsRow
<1>4. CASE (\E id \in Ids : Prune(id)) \/ CleanupHistory
  <2>1. DropsRows
    BY <1>4, TypedState DEF RowInv, Prune, CleanupHistory, DropsRows, Prunable, Finished
  <2>2. UNCHANGED <<nextId, revs>>
    BY <1>4 DEF Prune, CleanupHistory
  <2> QED BY <2>1, <2>2, OpenUnchanged DEF DropsRows, NoRow, OpenStatus, DoneStatus
<1>5. CASE UNCHANGED <<row, nextId, revs>>
  BY <1>5, OpenUnchanged
<1>6. CASE UNCHANGED vars
  BY <1>5, <1>6 DEF vars, durable
<1>7. ASSUME NEW id \in Ids, Step(id)
      PROVE  [Log!AbsNext]_(Log!absVars)
  <2>1. ASSUME \/ Admit(id) \/ Reject(id) \/ Stage(id) \/ Pull(id) \/ Pin(id)
               \/ Up(id) \/ StopOrDown(id) \/ Check(id) \/ Rebuild(id)
               \/ Restore(id) \/ RestoreCheck(id) \/ End(id) \/ Inspect(id)
               \/ CommandFails(id)
        PROVE  UNCHANGED <<row, nextId, revs>>
    BY <2>1 DEF Admit, Reject, Stage, Pull, Pin, Up, StopOrDown, Check, Rebuild,
      Restore, RestoreCheck, End, Inspect, CommandFails, durable
  <2> QED BY <1>1, <1>2, <1>3, <1>4, <1>5, <1>7, <2>1 DEF Step
<1>8. ASSUME \/ \E s \in Services, op \in Operations : Acquire(s, op)
             \/ \E id \in Ids : Daemon(id) \/ StorageFails(id) \/ RecoveryFails(id)
             \/ RefreshBegin \/ RefreshApply \/ RefreshAborts
             \/ Startup \/ Serve \/ Crash
             \/ \E id \in Ids : RecoverBegin(id)
             \/ \E s \in Services : ContainerChanges(s) \/ ManualUp(s)
             \/ EditCompose
      PROVE  UNCHANGED <<row, nextId, revs>>
  BY <1>8 DEF Acquire, Daemon, StorageFails, RecoveryFails, RefreshBegin,
    RefreshApply, RefreshAborts, Startup, Serve, Crash, RecoverBegin,
    ContainerChanges, ManualUp, EditCompose, ProcessEnds, durable
<1> QED BY <1>4, <1>5, <1>6, <1>7, <1>8 DEF Next

LEMMA LogInit == Init => Log!AbsInit
<1> SUFFICES ASSUME Init PROVE Log!AbsInit
  OBVIOUS
<1>1. ActiveDeployments = {}
  BY DEF Init, ActiveDeployments, NoRow, OpenStatus
<1> QED BY <1>1 DEF Init, Log!AbsInit

(* For any services, artifacts, crashes, faults and interleavings, the         *)
(* pipeline implements the log of baselines: an operation ends once, with one  *)
(* baseline appended to the log of its service or without a trace.             *)
THEOREM PipelineImplementsLog == Spec => ImplementsBaselineLog
BY RowInit, RowNext, LogInit, LogStep, PTL
DEF Spec, ImplementsBaselineLog, Log!AbsSpec

-----------------------------------------------------------------------------
(* History (HistoryInv).                                                    *)

Open(i)  == row[i].status \in OpenStatus
Owned(i) == Live(i) \/ i \in todo \/ mode = "down"

(* A step that appends no revision and opens no row keeps the history if it    *)
(* leaves an owner to the rows that stay open.                                 *)
LEMMA KeepsHistory ==
  ASSUME RowInv, HistoryInv, UNCHANGED <<revs, nextId>>,
         faults' = 0 => faults = 0,
         \A i \in Ids :
            /\ verified[i] \subseteq verified'[i]
            /\ Open(i)' => Open(i)
            /\ faults' = 0 /\ Open(i)' /\ Owned(i) => Owned(i)'
            /\ AfterCommit(i)' => ~Open(i)'
            /\ faults' = 0 /\ task'[i].pc = "end" => ~Open(i)'
            /\ task'[i].pc \in {"committing", "commit"} =>
                  task'[i].img \in verified'[i]
  PROVE  HistoryInv'
<1>1. OpenRowOwned' /\ OpenIsLast'
  BY DEF HistoryInv, OpenRowOwned, OpenIsLast, Open, Owned
<1>2. ClosedAtEnd' /\ InHandVerified'
  BY DEF ClosedAtEnd, InHandVerified, Open
<1>3. CommitOrder'
  BY DEF HistoryInv, CommitOrder
<1>4. VerifiedBaseline'
  BY RevisionType DEF HistoryInv, VerifiedBaseline, RowInv, SafeInv
<1> QED BY <1>1, <1>2, <1>3, <1>4 DEF HistoryInv

(* A task that goes on, with the row as it was or further on.                  *)
LEMMA MoveKeepsHistory ==
  ASSUME RowInv, HistoryInv, NEW id \in Ids, Live(id), NEW t,
         task' = [task EXCEPT ![id] = t], KeepsRow(id),
         UNCHANGED <<revs, nextId, mode, todo>>, faults' = 0 => faults = 0,
         \A i \in Ids : verified[i] \subseteq verified'[i],
         t.pc # "idle", t.op = task[id].op,
         t.pc = "rebuild" => t.op = "recreate",
         faults' = 0 /\ t.pc = "end" => ~Open(id)',
         t.pc \in {"committing", "commit"} => t.img \in verified'[id]
  PROVE  HistoryInv'
<1>1. /\ task'[id] = t
      /\ \A i \in Ids \ {id} : task'[i] = task[i] /\ row'[i] = row[i]
      /\ \A i \in Ids : Open(i)' <=> Open(i)
  BY TypedState DEF RowInv, KeepsRow, Open
<1>2. \A i \in Ids \ {id} : task'[i].pc = "idle"
  BY <1>1, OnlyLive DEF RowInv
<1>3. ASSUME NEW i \in Ids
      PROVE  /\ Open(i)' => Open(i)
             /\ faults' = 0 /\ Open(i)' /\ Owned(i) => Owned(i)'
             /\ AfterCommit(i)' => ~Open(i)'
             /\ faults' = 0 /\ task'[i].pc = "end" => ~Open(i)'
             /\ task'[i].pc \in {"committing", "commit"} =>
                   task'[i].img \in verified'[i]
  BY <1>1, <1>2 DEF Owned, Live, AfterCommit
<1> QED BY <1>3, KeepsHistory

LEMMA GotoKeepsHistory ==
  ASSUME RowInv, HistoryInv, NEW id \in Ids, Live(id), NEW pc \in Pcs,
         Goto(id, pc), KeepsRow(id),
         UNCHANGED <<revs, nextId, mode, todo, faults>>,
         \A i \in Ids : verified[i] \subseteq verified'[i],
         pc # "idle", pc = "rebuild" => task[id].op = "recreate",
         pc = "end" => ~Open(id)',
         pc \in {"committing", "commit"} => task[id].img \in verified'[id]
  PROVE  HistoryInv'
<1> DEFINE t == [task[id] EXCEPT !.pc = pc]
<1>1. task \in [Ids -> Task] /\ task[id] \in Task
  BY TypedState DEF RowInv
<1>2. t.pc = pc /\ t.op = task[id].op /\ t.img = task[id].img
  BY <1>1, GotoTask
<1>3. task' = [task EXCEPT ![id] = t]
  BY <1>1 DEF Goto
<1> HIDE DEF t
<1> QED BY <1>2, <1>3, MoveKeepsHistory

LEMMA HistorySteps ==
  ASSUME RowInv, HistoryInv, NEW id \in Ids,
         \/ Reject(id) \/ MarkRunning(id) \/ RecordPhase(id) \/ RecordTarget(id)
         \/ Pin(id) \/ Up(id) \/ StopOrDown(id) \/ Check(id) \/ Rebuild(id)
         \/ Restore(id)
  PROVE  HistoryInv'
<1>1. /\ row \in [Ids -> Row] /\ row[id] \in Row
      /\ task[id] \in Task /\ GoodTask(task[id])
      /\ verified \in [Ids -> SUBSET Images]
  BY TypedState DEF RowInv, SafeInv, TypeOK
<1>2. UNCHANGED <<revs, nextId, mode, todo, faults>> /\ Live(id)
  BY DEF Reject, MarkRunning, RecordPhase, RecordTarget, Pin, Up, StopOrDown,
    Check, Rebuild, Restore, durable, bounds, Live
<1>3. CASE Reject(id)
  <2>1. Goto(id, "end") /\ UNCHANGED <<row, verified>> /\ task[id].pc = "admit"
    BY <1>3 DEF Reject, durable
  <2>2. ~Open(id)'
    BY <2>1 DEF RowInv, FreshIds, SafeInv, TypeOK, Ids, Open, NoRow, OpenStatus
  <2>3. KeepsRow(id) /\ "end" \in Pcs
    BY <2>1, SameRow DEF Pcs
  <2> QED BY <1>2, <2>1, <2>2, <2>3, GotoKeepsHistory
<1>4. CASE MarkRunning(id)
  <2> DEFINE pc == FirstPc(task[id].op)
  <2>1. Goto(id, pc) /\ UNCHANGED verified /\ task[id].pc = "queued"
    BY <1>4 DEF MarkRunning
  <2>2. /\ pc \in Pcs \ {"end", "idle", "committing", "commit"}
        /\ pc = "rebuild" => task[id].op = "recreate"
    <3>1. task[id].op \in Operations
      BY <1>1, <2>1, TaskFields DEF GoodTask, OpPcs, RestorePcs
    <3> QED BY <3>1 DEF FirstPc, Operations, Lifecycle, Pcs, TaskPcs,
              CommandPcs, StoragePcs
  <2>3. KeepsRow(id)
    BY <1>4, ProgressKeepsRow
  <2> HIDE DEF pc
  <2> QED BY <1>2, <2>1, <2>2, <2>3, GotoKeepsHistory
<1>5. CASE RecordPhase(id)
  <2> DEFINE pc == AfterPhase(task[id].op, task[id].pc)
  <2>1. /\ Goto(id, pc) /\ UNCHANGED verified
        /\ task[id].pc \in {"pulling", "starting", "checking", "committing"}
    BY <1>5 DEF RecordPhase
  <2>2. /\ pc \in Pcs \ {"end", "idle", "committing", "rebuild"}
        /\ pc = "commit" => task[id].pc = "committing"
    BY <2>1 DEF AfterPhase, Pcs, TaskPcs, CommandPcs, StoragePcs
  <2>3. KeepsRow(id)
    BY <1>5, ProgressKeepsRow
  <2>4. pc = "commit" => task[id].img \in verified'[id]
    BY <2>1, <2>2 DEF HistoryInv, InHandVerified
  <2> HIDE DEF pc
  <2> QED BY <1>2, <2>1, <2>2, <2>3, <2>4, GotoKeepsHistory
<1>6. CASE RecordTarget(id)
  <2> DEFINE pc == "pin"
  <2>1. Goto(id, pc) /\ UNCHANGED verified
    BY <1>6 DEF RecordTarget
  <2>2. pc \in Pcs \ {"end", "idle", "committing", "commit", "rebuild"}
    BY DEF Pcs, TaskPcs, StoragePcs
  <2>3. KeepsRow(id)
    BY <1>6, ProgressKeepsRow
  <2> HIDE DEF pc
  <2> QED BY <1>2, <2>1, <2>2, <2>3, GotoKeepsHistory
<1>7. ASSUME Pin(id) \/ Up(id) \/ StopOrDown(id) \/ Restore(id)
      PROVE  HistoryInv'
  <2>1. PICK pc \in Pcs \ {"end", "idle", "committing", "commit", "rebuild"} :
           Goto(id, pc)
    BY <1>7 DEF Pin, Up, StopOrDown, Restore, Pcs, TaskPcs, CommandPcs, StoragePcs
  <2>2. UNCHANGED <<row, verified>>
    BY <1>7 DEF Pin, Up, StopOrDown, Restore, durable
  <2>3. KeepsRow(id)
    BY <2>2, SameRow
  <2> QED BY <1>2, <2>1, <2>2, <2>3, GotoKeepsHistory
<1>8. CASE Check(id)
  <2> DEFINE pc == IF task[id].op = "recreate" THEN "finish" ELSE "committing"
  <2>1. Goto(id, pc) /\ UNCHANGED row /\ task[id].pc = "check"
    BY <1>8 DEF Check, durable
  <2>2. KeepsRow(id) /\ pc \in Pcs \ {"end", "idle", "commit", "rebuild"}
    BY <2>1, SameRow DEF Pcs, TaskPcs, StoragePcs
  <2>3. \A i \in Ids : verified[i] \subseteq verified'[i]
    BY <1>1, <1>8 DEF Check
  <2>4. pc = "committing" => task[id].img \in verified'[id]
    <3> SUFFICES ASSUME task[id].op # "recreate"
                 PROVE  task[id].img \in verified'[id]
      OBVIOUS
    <3>1. task[id].img \in Images
      BY <1>1, <2>1, TaskFields DEF GoodTask, OpPcs, ImagePcs, ArtifactPcs,
        HandlerPcs, RestorePcs, Operations, Lifecycle
    <3> QED BY <1>1, <1>8, <3>1 DEF Check
  <2> HIDE DEF pc
  <2> QED BY <1>2, <2>1, <2>2, <2>3, <2>4, GotoKeepsHistory
<1>9. CASE Rebuild(id)
  <2> DEFINE pc == IF task[id].op = "recreate" THEN "up" ELSE "end"
  <2>1. Goto(id, pc) /\ UNCHANGED <<row, verified>> /\ task[id].pc = "rebuild"
    BY <1>9 DEF Rebuild
  <2>2. /\ KeepsRow(id)
        /\ pc \in Pcs \ {"idle", "committing", "commit", "rebuild"}
    BY <2>1, SameRow DEF Pcs, TaskPcs, CommandPcs
  <2>3. pc = "end" => ~Open(id)'
    BY <2>1 DEF HistoryInv, ClosedAtEnd, AfterCommit, Open
  <2> HIDE DEF pc
  <2> QED BY <1>2, <2>1, <2>2, <2>3, GotoKeepsHistory
<1> QED BY <1>3, <1>4, <1>5, <1>6, <1>7, <1>8, <1>9

LEMMA FaultsNat == SafeInv => faults \in Nat
BY DeployAssumption DEF SafeInv, TypeOK

LEMMA HistoryUpdates ==
  ASSUME RowInv, HistoryInv, NEW id \in Ids,
         \/ Admit(id) \/ Stage(id) \/ Pull(id) \/ RestoreCheck(id) \/ Inspect(id)
         \/ CommandFails(id) \/ StorageFails(id)
  PROVE  HistoryInv'
<1> DEFINE t == task'[id]
<1>1. /\ task \in [Ids -> Task] /\ task[id] \in Task /\ GoodTask(task[id])
      /\ verified \in [Ids -> SUBSET Images]
  BY TypedState DEF RowInv, SafeInv, TypeOK
<1>2. /\ UNCHANGED <<row, nextId, revs, mode, todo>> /\ KeepsRow(id)
      /\ faults' = faults \/ faults' = faults + 1
  BY SameRow DEF Admit, Stage, Pull, RestoreCheck, Inspect, CommandFails,
    StorageFails, durable, bounds
<1>3. faults \in Nat /\ (faults' = 0 => faults = 0)
  BY <1>2, FaultsNat DEF RowInv
<1>4. ASSUME Admit(id) \/ Stage(id) \/ Pull(id) \/ RestoreCheck(id)
      PROVE  HistoryInv'
  <2>1. \E pc \in {"create", "pulling", "target", "fail"} : \E images, img, rb :
           \/ task' = [task EXCEPT ![id].pc = pc]
           \/ task' = [task EXCEPT ![id].pc = pc, ![id].images = images]
           \/ task' = [task EXCEPT ![id].pc = pc, ![id].img = img]
           \/ task' = [task EXCEPT ![id].pc = pc, ![id].rb = rb]
    BY <1>4 DEF Admit, Stage, Pull, RestoreCheck, Goto
  <2>2. /\ task' = [task EXCEPT ![id] = t] /\ t.op = task[id].op
        /\ t.pc \in {"create", "pulling", "target", "fail"}
    BY <1>1, <2>1 DEF Task
  <2>3. Live(id) /\ UNCHANGED verified
    BY <1>4 DEF Admit, Stage, Pull, RestoreCheck, Live
  <2> HIDE DEF t
  <2> QED BY <1>2, <1>3, <2>2, <2>3, MoveKeepsHistory
<1>5. CASE Inspect(id)
  <2>1. /\ task' = [task EXCEPT ![id] = t] /\ t.op = task[id].op
        /\ t.pc \in {"commit", "restore"} /\ Live(id)
        /\ t.pc = "commit" => t.img \in verified'[id]
        /\ \A i \in Ids : verified[i] \subseteq verified'[i]
    <3>1. CASE Goto(id, "restore") /\ UNCHANGED verified
      BY <1>1, <1>5, <3>1 DEF Inspect, Goto, Live, Task
    <3>2. CASE /\ task' = [task EXCEPT ![id].pc = "commit",
                                       ![id].img = row[id].target]
               /\ verified' = [verified EXCEPT ![id] = @ \cup {row[id].target}]
      BY <1>1, <1>5, <3>2 DEF Inspect, Live, Task
    <3> QED BY <1>5, <3>1, <3>2 DEF Inspect
  <2> HIDE DEF t
  <2> QED BY <1>2, <1>3, <2>1, MoveKeepsHistory
<1>6. CASE CommandFails(id) \/ StorageFails(id)
  <2> DEFINE h == Handled(task[id].op, task[id].pc)
  <2>1. /\ task' = [task EXCEPT ![id].pc = h.pc, ![id].rb = h.rb]
        /\ UNCHANGED verified
    BY <1>6 DEF CommandFails, StorageFails, OnError
  <2>2. task[id].pc \in HandlerPcs \cup CommandPcs \cup StoragePcs
    BY <1>6 DEF CommandFails, StorageFails
  <2>3. Live(id) /\ h.pc \notin {"idle", "rebuild", "committing"}
    BY <2>2 DEF HandlerPcs, CommandPcs, StoragePcs, Live, Handled, Recourse,
      RestoreFailed
  <2>4. h.pc = "commit" => task[id].pc = "committing"
    BY DEF Handled, Recourse, RestoreFailed
  <2>5. faults' = 0 => h.pc # "end"
    <3> SUFFICES ASSUME CommandFails(id) PROVE h.pc # "end"
      BY <1>3, <1>6 DEF StorageFails
    <3>1. task[id].pc \in CommandPcs
      BY DEF CommandFails
    <3> QED BY <3>1 DEF CommandPcs, HandlerPcs, Handled, Recourse, RestoreFailed
  <2> HIDE DEF h
  <2>6. /\ task' = [task EXCEPT ![id] = t] /\ t.op = task[id].op
        /\ t.pc = h.pc /\ t.img = task[id].img
    BY <1>1, <2>1 DEF Task
  <2>7. t.pc = "commit" => t.img \in verified'[id]
    BY <2>1, <2>4, <2>6 DEF HistoryInv, InHandVerified
  <2> HIDE DEF t
  <2> QED BY <1>2, <1>3, <2>1, <2>3, <2>5, <2>6, <2>7, MoveKeepsHistory
<1> QED BY <1>4, <1>5, <1>6

LEMMA HistoryCreate ==
  ASSUME RowInv, HistoryInv, NEW id \in Ids, Create(id)
  PROVE  HistoryInv'
<1>1. /\ task \in [Ids -> Task] /\ Live(id) /\ task[id].pc = "create"
      /\ row \in [Ids -> Row] /\ task[id] \in Task /\ GoodTask(task[id])
  BY TypedState DEF RowInv, Create, Live
<1>2. /\ \A i \in Ids \ {id} : ~Live(i) /\ task'[i] = task[i] /\ row'[i] = row[i]
      /\ task'[id].pc = "prune" /\ holder = id
  BY <1>1, OnlyLive DEF RowInv, Create, Goto, Task
<1>3. /\ id = nextId /\ nextId' = id + 1 /\ UNCHANGED <<revs, mode, todo, faults, verified>>
  BY <1>1 DEF RowInv, FreshIds, Create, bounds
<1>4. mode # "down" /\ todo = {}
  <2>1. task[id].op \notin {"none", "recover"}
    BY <1>1, TaskFields DEF GoodTask, OpPcs, RestorePcs, Operations, Lifecycle
  <2> QED BY <1>2, <2>1 DEF RowInv, RecoveryOK, Free, Ids
<1>5. OpenRowOwned' /\ OpenIsLast'
  <2> SUFFICES ASSUME faults' = 0, NEW i \in Ids, row'[i].status \in OpenStatus
               PROVE  Live(i)' /\ i = nextId' - 1
    BY DEF OpenRowOwned, OpenIsLast
  <2>1. i = id
    BY <1>2, <1>3, <1>4 DEF HistoryInv, OpenRowOwned
  <2> QED BY <1>2, <1>3, <2>1 DEF Live, Ids
<1>6. ClosedAtEnd' /\ InHandVerified'
  BY <1>2, <1>3 DEF HistoryInv, ClosedAtEnd, InHandVerified, AfterCommit
<1>7. CommitOrder' /\ VerifiedBaseline'
  BY <1>3 DEF HistoryInv, CommitOrder, VerifiedBaseline
<1> QED BY <1>5, <1>6, <1>7 DEF HistoryInv

LEMMA HistoryPrune ==
  ASSUME RowInv, HistoryInv, (\E id \in Ids : Prune(id)) \/ CleanupHistory
  PROVE  HistoryInv'
<1>1. /\ DropsRows /\ UNCHANGED <<nextId, revs, mode, todo, faults, verified>>
      /\ \A i \in Ids : task'[i] = task[i]
                        \/ (task[i].pc = "prune" /\ task'[i].pc = "queued")
  <2>1. CASE CleanupHistory
    BY <2>1, TypedState DEF RowInv, CleanupHistory, DropsRows, Finished, volatile, bounds
  <2>2. ASSUME NEW id \in Ids, Prune(id)
        PROVE  /\ DropsRows
               /\ UNCHANGED <<nextId, revs, mode, todo, faults, verified>>
               /\ \A i \in Ids : task'[i] = task[i]
                        \/ (task[i].pc = "prune" /\ task'[i].pc = "queued")
    BY <2>2, TypedState DEF RowInv, Prune, DropsRows, Prunable, Finished, Goto, Task, bounds
  <2> QED BY <2>1, <2>2
<1>2. \A i \in Ids : Open(i)' => Open(i)
  BY <1>1 DEF DropsRows, Open, NoRow, OpenStatus
<1>3. ASSUME NEW i \in Ids
      PROVE  /\ Owned(i) => Owned(i)'
             /\ AfterCommit(i)' => ~Open(i)'
             /\ faults' = 0 /\ task'[i].pc = "end" => ~Open(i)'
             /\ task'[i].pc \in {"committing", "commit"} =>
                   task'[i].img \in verified'[i]
  BY <1>1, <1>2 DEF HistoryInv, ClosedAtEnd, InHandVerified, Owned, Live,
    AfterCommit, Open
<1> QED BY <1>1, <1>2, <1>3, KeepsHistory

LEMMA HistoryFinish ==
  ASSUME RowInv, HistoryInv, NEW id \in Ids, FinishSuccess(id) \/ FinishFailure(id)
  PROVE  HistoryInv'
<1>1. /\ task \in [Ids -> Task] /\ row \in [Ids -> Row]
      /\ UNCHANGED <<nextId, revs, mode, todo, faults, verified>> /\ Goto(id, "end")
  BY TypedState DEF RowInv, FinishSuccess, FinishFailure, bounds
<1>2. PICK r \in Row : r.status \in DoneStatus /\ row' = [row EXCEPT ![id] = r]
  BY FinishRow
<1>3. /\ task'[id].pc = "end" /\ ~Open(id)'
      /\ \A i \in Ids \ {id} : task'[i] = task[i] /\ row'[i] = row[i]
  BY <1>1, <1>2 DEF Goto, Task, Open, OpenStatus, DoneStatus
<1>4. ASSUME NEW i \in Ids
      PROVE  /\ Open(i)' => Open(i)
             /\ Open(i)' /\ Owned(i) => Owned(i)'
             /\ AfterCommit(i)' => ~Open(i)'
             /\ faults' = 0 /\ task'[i].pc = "end" => ~Open(i)'
             /\ task'[i].pc \in {"committing", "commit"} =>
                   task'[i].img \in verified'[i]
  BY <1>1, <1>3 DEF HistoryInv, ClosedAtEnd, InHandVerified, Owned, Live,
    AfterCommit, Open
<1> QED BY <1>1, <1>4, KeepsHistory

LEMMA HistoryCommit ==
  ASSUME RowInv, HistoryInv, NEW id \in Ids, Commit(id)
  PROVE  HistoryInv'
<1> DEFINE s == task[id].svc
           b == [img |-> task[id].img, dep |-> id]
           r == CommittedRow(row[id])
           pc == IF task[id].op = "rollback" THEN "end" ELSE "rebuild"
<1>1. /\ task \in [Ids -> Task] /\ task[id] \in Task /\ GoodTask(task[id])
      /\ row \in [Ids -> Row] /\ row[id] \in Row /\ task[id].pc = "commit"
  BY TypedState DEF RowInv, Commit
<1>2. /\ UNCHANGED <<nextId, mode, todo, faults, verified>> /\ Goto(id, pc)
      /\ s \in Services /\ RecordBaseline(s, b) /\ TypeOK
      /\ \A q \in Services : id \notin Dep(q)
  BY <1>1 DEF Commit, bounds, GoodTask, RowInv, SafeInv
<1>3. r.status = "succeeded" /\ row' = [row EXCEPT ![id] = r]
  BY <1>1 DEF Commit, CommittedRow, Row
<1>4. pc \in {"end", "rebuild"} /\ b.dep = id /\ b.img = task[id].img
  OBVIOUS
<1> HIDE DEF r, pc
<1>5. /\ task'[id].pc \in {"end", "rebuild"} /\ ~Open(id)' /\ Open(id)
      /\ \A i \in Ids \ {id} : task'[i] = task[i] /\ row'[i] = row[i]
  <2>1. Open(id)
    BY <1>1 DEF RowInv, LiveRowOpen, AfterCommit, TaskPcs, StoragePcs, Open
  <2> QED BY <1>1, <1>2, <1>3, <1>4, <2>1 DEF Goto, Task, Open, OpenStatus
<1>6. /\ b.img \in verified[id]
      /\ faults = 0 => id = nextId - 1
  BY <1>1, <1>4, <1>5 DEF HistoryInv, InHandVerified, OpenIsLast, Open
<1> HIDE DEF s, b
<1>7. /\ Len(revs[s]) \in Nat /\ DOMAIN revs[s] = 1 .. Len(revs[s])
      /\ DOMAIN revs'[s] = 1 .. Len(revs[s]) + 1
      /\ revs'[s][Len(revs[s]) + 1] = b
      /\ \A k \in DOMAIN revs[s] : revs'[s][k] = revs[s][k]
      /\ \A q \in Services \ {s} : revs'[q] = revs[q]
  BY <1>2, AppendBaseline
<1>8. \A q \in Services : \A k \in DOMAIN revs'[q] :
          \/ q = s /\ k = Len(revs[s]) + 1 /\ revs'[q][k] = b
          \/ k \in DOMAIN revs[q] /\ revs'[q][k] = revs[q][k]
  BY <1>7
<1>9. OpenRowOwned' /\ OpenIsLast' /\ ClosedAtEnd' /\ InHandVerified'
  BY <1>2, <1>5 DEF HistoryInv, OpenRowOwned, OpenIsLast, ClosedAtEnd,
    InHandVerified, Open, Live, AfterCommit
<1>10. VerifiedBaseline'
  BY <1>2, <1>4, <1>6, <1>8 DEF HistoryInv, VerifiedBaseline
<1>11. CommitOrder'
  <2> SUFFICES ASSUME faults' = 0, NEW q \in Services,
                      NEW j \in DOMAIN revs'[q], NEW k \in DOMAIN revs'[q], j < k
               PROVE  revs'[q][j].dep < revs'[q][k].dep
    BY DEF CommitOrder
  <2>1. CASE q # s
    BY <1>2, <1>7, <2>1 DEF HistoryInv, CommitOrder
  <2>2. CASE q = s /\ k # Len(revs[s]) + 1
    BY <1>2, <1>7, <2>2 DEF HistoryInv, CommitOrder
  <2>3. CASE q = s /\ k = Len(revs[s]) + 1
    <3>1. j \in DOMAIN revs[s] /\ revs'[q][j] = revs[s][j]
      BY <1>7, <2>3
    <3>2. revs[s][j].dep < nextId /\ revs[s][j].dep # id /\ revs[s][j].dep \in Ids
      BY <1>2, <3>1, RevisionType DEF RowInv, FreshIds, Dep
    <3>3. revs'[q][k].dep = id /\ id = nextId - 1 /\ nextId \in Int
      BY <1>2, <1>4, <1>6, <1>7, <2>3 DEF TypeOK
    <3> QED BY <3>1, <3>2, <3>3 DEF Ids
  <2> QED BY <2>1, <2>2, <2>3
<1> QED BY <1>9, <1>10, <1>11 DEF HistoryInv

(* Steps that start or end tasks or the process, or leave every task alone. *)
LEMMA HistoryOthers ==
  ASSUME RowInv, HistoryInv,
         UNCHANGED <<row, revs, nextId, verified>>, faults' = 0 => faults = 0,
         \A i \in Ids :
            /\ faults' = 0 /\ Open(i) /\ Owned(i) => Owned(i)'
            /\ \/ task'[i] = task[i]
               \/ task'[i].pc \in {"idle", "admit", "fail", "inspect"}
  PROVE  HistoryInv'
<1>1. ASSUME NEW i \in Ids
      PROVE  /\ verified[i] \subseteq verified'[i]
             /\ Open(i)' <=> Open(i)
             /\ AfterCommit(i)' => ~Open(i)'
             /\ faults' = 0 /\ task'[i].pc = "end" => ~Open(i)'
             /\ task'[i].pc \in {"committing", "commit"} =>
                   task'[i].img \in verified'[i]
  BY DEF HistoryInv, ClosedAtEnd, InHandVerified, AfterCommit, Open
<1> QED BY <1>1, KeepsHistory

LEMMA HistoryStart ==
  ASSUME RowInv, HistoryInv,
         \/ \E s \in Services, op \in Operations : Acquire(s, op)
         \/ \E id \in Ids : RecoverBegin(id)
  PROVE  HistoryInv'
<1>1. /\ UNCHANGED <<row, revs, nextId, verified, faults, mode, todo>>
      /\ task \in [Ids -> Task] /\ holder = Free
  BY TypedState DEF RowInv, Acquire, RecoverBegin, TryAcquire, durable, bounds
<1>2. \A i \in Ids : task'[i] = task[i] \/ task'[i].pc \in {"admit", "fail", "inspect"}
  <2>1. CASE \E s \in Services, op \in Operations : Acquire(s, op)
    BY <1>1, <2>1 DEF Acquire, IdleTask
  <2>2. CASE \E id \in Ids : RecoverBegin(id)
    <3>1. PICK id \in Ids : RecoverBegin(id)
      BY <2>2
    <3> DEFINE pc == RecoverFrom(row[id]).pc
    <3>2. pc \in {"fail", "inspect"}
      BY DEF RecoverFrom
    <3>3. task'[id].pc = pc /\ \A i \in Ids \ {id} : task'[i] = task[i]
      BY <1>1, <3>1 DEF RecoverBegin, IdleTask
    <3> QED BY <3>2, <3>3
  <2> QED BY <2>1, <2>2
<1>3. \A i \in Ids : Owned(i) => Owned(i)'
  BY <1>1, <1>2 DEF Owned, Live
<1> QED BY <1>1, <1>2, <1>3, HistoryOthers

LEMMA HistoryEnd ==
  ASSUME RowInv, HistoryInv, NEW id \in Ids, End(id)
  PROVE  HistoryInv'
<1>1. /\ UNCHANGED <<row, revs, nextId, verified, faults, mode>>
      /\ task[id].pc = "end" /\ todo' = todo \ {id} /\ task \in [Ids -> Task]
  BY TypedState DEF RowInv, End, durable, bounds
<1>2. task'[id].pc = "idle" /\ \A i \in Ids \ {id} : task'[i] = task[i]
  BY <1>1 DEF End, IdleTask
<1>3. faults' = 0 => ~Open(id)
  BY <1>1 DEF HistoryInv, ClosedAtEnd, Open
<1>4. \A i \in Ids : faults' = 0 /\ Open(i) /\ Owned(i) => Owned(i)'
  BY <1>1, <1>2, <1>3 DEF Owned, Live
<1>5. \A i \in Ids : task'[i] = task[i] \/ task'[i].pc = "idle"
  BY <1>2
<1> QED BY <1>1, <1>4, <1>5, HistoryOthers

LEMMA HistoryProcessEnds ==
  ASSUME RowInv, HistoryInv, ProcessEnds, faults' = 0 => faults = 0
  PROVE  HistoryInv'
<1>1. /\ UNCHANGED <<row, revs, nextId, verified>> /\ mode' = "down"
      /\ \A i \in Ids : task'[i].pc = "idle"
  BY DEF ProcessEnds, IdleTask, durable
<1>2. \A i \in Ids : Owned(i)'
  BY <1>1 DEF Owned
<1> QED BY <1>1, <1>2, HistoryOthers

LEMMA HistoryRest ==
  ASSUME RowInv, HistoryInv,
         \/ RefreshBegin \/ RefreshApply \/ RefreshAborts \/ Startup \/ Serve
         \/ (\E id \in Ids : Daemon(id)) \/ EditCompose
         \/ (\E s \in Services : ContainerChanges(s) \/ ManualUp(s))
         \/ UNCHANGED vars
  PROVE  HistoryInv'
<1>1. /\ UNCHANGED <<row, revs, nextId, verified, task>>
      /\ faults' = faults \/ faults' = faults + 1
  BY DEF RefreshBegin, RefreshApply, RefreshAborts, Startup, Serve, Daemon,
    EditCompose, ContainerChanges, ManualUp, vars, durable, volatile, bounds
<1>2. faults' = 0 => faults = 0
  BY <1>1, FaultsNat DEF RowInv
<1>3. ASSUME NEW i \in Ids, Open(i), Owned(i)
      PROVE  Owned(i)'
  <2>1. CASE Startup
    BY <1>3, <2>1 DEF Startup, ActiveDeployments, Owned, Open
  <2>2. CASE Serve
    BY <1>1, <1>3, <2>2 DEF Serve, Owned, Live
  <2>3. CASE UNCHANGED <<mode, todo>>
    BY <1>1, <1>3, <2>3 DEF Owned, Live
  <2> QED BY <2>1, <2>2, <2>3
        DEF RefreshBegin, RefreshApply, RefreshAborts, Daemon, EditCompose,
            ContainerChanges, ManualUp, vars, volatile
<1> QED BY <1>1, <1>2, <1>3, HistoryOthers

LEMMA HistoryInit == Init => HistoryInv
<1> SUFFICES ASSUME Init PROVE HistoryInv
  OBVIOUS
<1>1. /\ \A i \in Ids : task[i].pc = "idle" /\ row[i].status = "absent"
      /\ \A s \in Services : revs[s] = <<>>
  BY DEF Init, IdleTask, NoRow
<1>2. OpenRowOwned /\ ClosedAtEnd /\ OpenIsLast /\ InHandVerified
  BY <1>1 DEF OpenRowOwned, ClosedAtEnd, OpenIsLast, InHandVerified, AfterCommit,
    OpenStatus
<1>3. CommitOrder /\ VerifiedBaseline
  BY <1>1 DEF CommitOrder, VerifiedBaseline
<1> QED BY <1>2, <1>3 DEF HistoryInv

LEMMA HistoryNext == RowInv /\ HistoryInv /\ [Next]_vars => HistoryInv'
<1> SUFFICES ASSUME RowInv, HistoryInv, [Next]_vars PROVE HistoryInv'
  OBVIOUS
<1>1. ASSUME NEW id \in Ids, Step(id)
      PROVE  HistoryInv'
  BY <1>1, HistorySteps, HistoryUpdates, HistoryCreate, HistoryPrune,
     HistoryFinish, HistoryCommit, HistoryEnd DEF Step
<1>2. ASSUME Crash \/ \E id \in Ids : RecoveryFails(id)
      PROVE  HistoryInv'
  <2>1. ProcessEnds /\ (faults' = faults \/ faults' = faults + 1)
    BY <1>2 DEF Crash, RecoveryFails
  <2> QED BY <2>1, FaultsNat, HistoryProcessEnds DEF RowInv
<1> QED BY <1>1, <1>2, HistoryUpdates, HistoryStart, HistoryRest, HistoryPrune
        DEF Next

-----------------------------------------------------------------------------
(* The plan (PlanInv).                                                      *)

(* What the override and the service must be at the point a task has reached. *)
OnPlan(t, plan) ==
    /\ t.pc \in CandidatePcs(t.op) => override = [plan EXCEPT ![t.svc] = t.img]
    /\ t.pc \in RestoredPcs(t.op) => override = plan
    /\ faults = 0 /\ t.pc \in SettledPcs(t.op) => override = plan
    /\ manual = 0 /\ t.pc = "restore_check" => container[t.svc].img = plan[t.svc]
    /\ manual = 0 /\ t.pc = "fail" /\ t.rb = "succeeded" =>
          t.svc \in Services /\ container[t.svc].img = plan[t.svc]

LEMMA LiveOnPlan ==
  ASSUME PlanInv, NEW id \in Ids, Live(id)
  PROVE  /\ OnPlan(task[id], DbImages(managed))
         /\ task[id].services = managed
         /\ task[id].pc \notin {"fail", "end"} => task[id].svc \in managed
         /\ task[id].op = "deploy" /\ task[id].pc \in StagedPcs =>
               task[id].images = DbImages(managed)
BY DEF PlanInv, OverridePlanned, ProjectKept, RestoreSeen, RestoredOnSuccess,
  OnPlan, Settled, Candidate

(* After a step, all the plan says is said of the one task that is live. *)
LEMMA OnlyPlan ==
  ASSUME NEW id \in Ids, NEW t, task'[id] = t,
         \A i \in Ids \ {id} : task'[i].pc = "idle",
         holder' = id,
         OnPlan(t, DbImages(managed))', t.services = managed',
         t.pc \notin {"fail", "end"} => t.svc \in managed',
         t.op = "deploy" /\ t.pc \in StagedPcs => t.images = DbImages(managed)'
  PROVE  PlanInv'
<1>1. ProjectKept'
  BY DEF ProjectKept, Live
<1>2. OverridePlanned'
  BY DEF OverridePlanned, OnPlan, Settled, Candidate, Live
<1>3. SettledAtRest'
  BY DeployAssumption DEF SettledAtRest, Free, Refresher, Ids
<1>4. RestoreSeen' /\ RestoredOnSuccess'
  BY DEF RestoreSeen, RestoredOnSuccess, OnPlan
<1> QED BY <1>1, <1>2, <1>3, <1>4 DEF PlanInv

(* A task that goes on without a commit. *)
LEMMA MoveKeepsPlan ==
  ASSUME RowInv, PlanInv, NEW id \in Ids, Live(id), NEW t,
         task' = [task EXCEPT ![id] = t], UNCHANGED <<committed, managed, holder>>,
         OnPlan(t, DbImages(managed))', t.services = task[id].services,
         t.svc = task[id].svc,
         t.pc \notin {"fail", "end"} => task[id].pc \notin {"fail", "end"},
         t.op = "deploy" /\ t.pc \in StagedPcs => t.images = DbImages(managed)
  PROVE  PlanInv'
<1>1. /\ task'[id] = t /\ \A i \in Ids \ {id} : task'[i].pc = "idle"
      /\ holder' = id
  BY OnlyLive, TypedState DEF RowInv
<1>2. DbImages(managed)' = DbImages(managed)
  BY DEF DbImages
<1>3. /\ t.services = managed'
      /\ t.pc \notin {"fail", "end"} => t.svc \in managed'
  BY LiveOnPlan
<1>4. PlanInv'
  BY <1>1, <1>2, <1>3, OnlyPlan
<1> QED BY <1>4

(* Which operations can be at a point. *)
LEMMA PcOps ==
  ASSUME SafeInv, NEW id \in Ids, Live(id)
  PROVE  LET pc == task[id].pc  op == task[id].op IN
         /\ op \in Operations \cup {"recover"}
         /\ pc \in {"stage", "pulling", "pull"} => op = "deploy"
         /\ pc \in {"target", "pin", "starting", "checking", "committing"} =>
               op \in {"deploy", "rollback"}
         /\ pc \in {"up", "check"} => op \in {"deploy", "rollback", "recreate"}
         /\ pc = "commit" => op \in {"deploy", "rollback", "recover"}
         /\ pc = "rebuild" => op \in {"deploy", "recreate", "recover"}
         /\ pc \in RestorePcs => op \in {"deploy", "rollback", "recover"}
         /\ pc \in {"stop", "down", "finish"} => op \in Lifecycle
         /\ pc \in HandlerPcs \cup {"queued"} => op \in Operations
         /\ pc = "inspect" => op = "recover"
         /\ pc \in {"stop", "down"} => op = pc
<1> DEFINE pc == task[id].pc
           op == task[id].op
<1>1. pc \in OpPcs(op) /\ op \in Operations \cup {"none", "recover"} /\ pc # "idle"
  BY TypedState, TaskFields DEF GoodTask, Live
<1> HIDE DEF pc, op
<1> QED BY <1>1 DEF OpPcs, HandlerPcs, ArtifactPcs, RestorePcs, Operations,
          Lifecycle, pc, op

LEMMA GotoKeepsPlan ==
  ASSUME RowInv, PlanInv, NEW id \in Ids, Live(id), NEW pc \in Pcs,
         Goto(id, pc), UNCHANGED <<committed, managed, holder, faults, manual>>,
         pc \in CandidatePcs(task[id].op) =>
            override' = [DbImages(managed) EXCEPT ![task[id].svc] = task[id].img],
         pc \in RestoredPcs(task[id].op) => override' = DbImages(managed),
         faults = 0 /\ pc \in SettledPcs(task[id].op) => override' = DbImages(managed),
         manual = 0 /\ pc = "restore_check" =>
            container'[task[id].svc].img = DbImages(managed)[task[id].svc],
         pc # "fail", pc # "end" => task[id].pc \notin {"fail", "end"},
         task[id].op = "deploy" /\ pc \in StagedPcs => task[id].pc \in StagedPcs
  PROVE  PlanInv'
<1> PICK t : t = [task[id] EXCEPT !.pc = pc]
  OBVIOUS
<1>1. task \in [Ids -> Task] /\ task[id] \in Task
  BY TypedState DEF RowInv
<1>2. /\ t.pc = pc /\ t.op = task[id].op /\ t.svc = task[id].svc
      /\ t.services = task[id].services /\ t.images = task[id].images
      /\ t.img = task[id].img
  BY <1>1, GotoTask
<1>3. task' = [task EXCEPT ![id] = t]
  BY <1>1 DEF Goto
<1>4. DbImages(managed)' = DbImages(managed)
  BY DEF DbImages
<1>5. OnPlan(t, DbImages(managed))'
  BY <1>2, <1>4 DEF OnPlan
<1>6. t.op = "deploy" /\ t.pc \in StagedPcs => t.images = DbImages(managed)
  BY <1>2, LiveOnPlan
<1> QED BY <1>2, <1>3, <1>5, <1>6, MoveKeepsPlan

(* ... when the override and the containers stay as they are. *)
LEMMA GotoOnPlan ==
  ASSUME RowInv, PlanInv, NEW id \in Ids, Live(id), NEW pc \in Pcs, Goto(id, pc),
         UNCHANGED <<override, container, committed, managed, holder, faults, manual>>,
         pc \in CandidatePcs(task[id].op) => task[id].pc \in CandidatePcs(task[id].op),
         pc \in RestoredPcs(task[id].op) => task[id].pc \in RestoredPcs(task[id].op),
         pc \in SettledPcs(task[id].op) => task[id].pc \in SettledPcs(task[id].op),
         pc \notin {"fail", "restore_check"},
         pc # "end" => task[id].pc \notin {"fail", "end"},
         task[id].op = "deploy" /\ pc \in StagedPcs => task[id].pc \in StagedPcs
  PROVE  PlanInv'
<1>1. OnPlan(task[id], DbImages(managed))
  BY LiveOnPlan
<1> QED BY <1>1, GotoKeepsPlan DEF OnPlan

(* The steps that leave the override alone. *)
LEMMA PlanSteps ==
  ASSUME RowInv, PlanInv, NEW id \in Ids,
         \/ Reject(id) \/ Create(id) \/ Prune(id) \/ MarkRunning(id)
         \/ RecordPhase(id) \/ RecordTarget(id) \/ StopOrDown(id) \/ Check(id)
         \/ FinishSuccess(id) \/ FinishFailure(id)
  PROVE  PlanInv'
<1> DEFINE op == task[id].op
           old == task[id].pc
<1>1. /\ Live(id)
      /\ UNCHANGED <<override, container, committed, managed, holder, faults, manual>>
  BY DEF Reject, Create, Prune, MarkRunning, RecordPhase, RecordTarget,
    StopOrDown, Check, FinishSuccess, FinishFailure, Live, durable, bounds
<1>2. PICK pc : /\ Goto(id, pc)
                /\ \/ old \in {"admit", "finish", "fail"} /\ pc = "end"
                   \/ old = "create" /\ pc = "prune"
                   \/ old = "prune" /\ pc = "queued"
                   \/ old = "queued" /\ pc = FirstPc(op)
                   \/ /\ old \in {"pulling", "starting", "checking", "committing"}
                      /\ pc = AfterPhase(op, old)
                   \/ old = "target" /\ pc = "pin"
                   \/ old \in {"stop", "down"} /\ pc = "finish"
                   \/ /\ old = "check"
                      /\ pc = IF op = "recreate" THEN "finish" ELSE "committing"
  BY DEF Reject, Create, Prune, MarkRunning, RecordPhase, RecordTarget,
    StopOrDown, Check, FinishSuccess, FinishFailure
<1>3. /\ op \in Operations \cup {"recover"}
      /\ old = "pulling" => op = "deploy"
      /\ old \in {"target", "starting", "checking", "committing"} =>
            op \in {"deploy", "rollback"}
      /\ old = "check" => op \in {"deploy", "rollback", "recreate"}
      /\ old \in {"stop", "down", "finish"} => op \in Lifecycle
      /\ old \in {"admit", "create", "prune", "queued"} => op \in Operations
  BY <1>1, PcOps DEF RowInv, HandlerPcs
<1> HIDE DEF op, old
<1>4. /\ pc \in Pcs \ {"fail", "restore_check"}
      /\ pc # "end" => old \notin {"fail", "end"}
      /\ pc \in CandidatePcs(op) => old \in CandidatePcs(op)
      /\ pc \in RestoredPcs(op) => old \in RestoredPcs(op)
      /\ pc \in SettledPcs(op) => old \in SettledPcs(op)
      /\ op = "deploy" /\ pc \in StagedPcs => old \in StagedPcs
  BY <1>2, <1>3 DEF FirstPc, AfterPhase, CandidatePcs, RestoredPcs, SettledPcs,
    StagedPcs, Operations, Lifecycle, Pcs, TaskPcs, CommandPcs, StoragePcs, HandlerPcs
<1> QED BY <1>1, <1>2, <1>4, GotoOnPlan DEF op, old

(* The steps that write the override or see the container up. *)
LEMMA PlanWrites ==
  ASSUME RowInv, PlanInv, NEW id \in Ids,
         Pin(id) \/ Up(id) \/ Rebuild(id) \/ Restore(id)
  PROVE  PlanInv'
<1> DEFINE op == task[id].op
           old == task[id].pc
           plan == DbImages(managed)
<1>1. /\ Live(id) /\ UNCHANGED <<committed, managed, holder, faults, manual>>
  BY DEF Pin, Up, Rebuild, Restore, Live, durable, bounds
<1>2. /\ OnPlan(task[id], plan) /\ task[id].services = managed
      /\ op = "deploy" /\ old \in StagedPcs => task[id].images = plan
      /\ task[id] \in Task
  BY <1>1, LiveOnPlan, TypedState DEF RowInv
<1>3. CASE Pin(id)
  <2> DEFINE pc == IF op = "deploy" THEN "starting" ELSE "up"
  <2>1. /\ op \in {"deploy", "rollback"} /\ old = "pin" /\ Goto(id, pc)
    BY <1>1, <1>3, PcOps DEF RowInv, Pin
  <2>2. override' = [plan EXCEPT ![task[id].svc] = task[id].img]
    BY <1>2, <1>3, <2>1 DEF Pin, StagedPcs
  <2>3. /\ pc \in Pcs \ {"fail", "end", "restore_check"}
        /\ pc \notin RestoredPcs(op) /\ pc \notin SettledPcs(op)
        /\ ~(op = "deploy" /\ pc \in StagedPcs) /\ old \notin {"fail", "end"}
    BY <2>1 DEF Pcs, TaskPcs, CommandPcs, StoragePcs, RestoredPcs, SettledPcs,
      HandlerPcs, StagedPcs
  <2> HIDE DEF pc
  <2> QED BY <1>1, <2>1, <2>2, <2>3, GotoKeepsPlan
<1>4. CASE Up(id)
  <2>1. /\ old \in {"up", "restore_up"} /\ UNCHANGED <<override, container>>
        /\ container[task[id].svc].img = override[task[id].svc]
    BY <1>4 DEF Up, durable
  <2>2. /\ op \in Operations \cup {"recover"}
        /\ old = "up" => op \in {"deploy", "rollback", "recreate"}
        /\ old = "restore_up" => op \in {"deploy", "rollback", "recover"}
    BY <1>1, <2>1, PcOps DEF RowInv, RestorePcs
  <2>3. PICK pc : /\ Goto(id, pc)
                  /\ pc = IF old = "restore_up" THEN "restore_check"
                          ELSE IF op = "recreate" THEN "check" ELSE "checking"
    BY <1>4, <2>1, <2>2 DEF Up
  <2>4. /\ pc \in Pcs \ {"fail", "end"} /\ old \notin {"fail", "end"}
        /\ pc \in CandidatePcs(op) => old \in CandidatePcs(op)
        /\ pc \in RestoredPcs(op) => old \in RestoredPcs(op)
        /\ pc \in SettledPcs(op) => old \in SettledPcs(op)
        /\ pc = "restore_check" => old \in RestoredPcs(op)
        /\ ~(op = "deploy" /\ pc \in StagedPcs)
    BY <2>1, <2>2, <2>3 DEF CandidatePcs, RestoredPcs, SettledPcs, StagedPcs,
      Operations, Lifecycle, Pcs, TaskPcs, CommandPcs, StoragePcs, HandlerPcs
  <2> HIDE DEF op, old
  <2> QED BY <1>1, <1>2, <2>1, <2>3, <2>4, GotoKeepsPlan DEF OnPlan, op, old
<1>5. CASE Rebuild(id) \/ Restore(id)
  <2>1. /\ override' = plan /\ old \in {"rebuild", "restore"}
        /\ \E pc \in {"up", "end", "restore_up"} :
              Goto(id, pc) /\ (pc = "up" => op = "recreate")
    BY <1>2, <1>5 DEF Rebuild, Restore
  <2>2. PICK pc \in {"up", "end", "restore_up"} :
           Goto(id, pc) /\ (pc = "up" => op = "recreate")
    BY <2>1
  <2>3. op \in Operations \cup {"recover"}
    BY <1>1, PcOps DEF RowInv
  <2>4. /\ pc \in Pcs \ {"fail", "restore_check"} /\ old \notin {"fail", "end"}
        /\ pc \notin CandidatePcs(op) /\ pc \notin StagedPcs
    BY <2>1, <2>2, <2>3 DEF CandidatePcs, StagedPcs, Pcs, TaskPcs, CommandPcs,
      Operations, Lifecycle
  <2> QED BY <1>1, <2>1, <2>2, <2>4, GotoKeepsPlan
<1> QED BY <1>3, <1>4, <1>5

(* The steps that also set the image or the rollback_status of the task. *)
LEMMA PlanUpdates ==
  ASSUME RowInv, PlanInv, NEW id \in Ids,
         \/ Admit(id) \/ Stage(id) \/ Pull(id) \/ RestoreCheck(id) \/ Inspect(id)
  PROVE  PlanInv'
<1> DEFINE op == task[id].op
           old == task[id].pc
           plan == DbImages(managed)
<1>1. /\ Live(id)
      /\ UNCHANGED <<committed, managed, holder, faults, manual, container>>
  BY DEF Admit, Stage, Pull, RestoreCheck, Inspect, Live, durable, bounds
<1>2. /\ OnPlan(task[id], plan) /\ task[id].services = managed
      /\ old \notin {"fail", "end"} => task[id].svc \in managed
      /\ op = "deploy" /\ old \in StagedPcs => task[id].images = plan
      /\ task \in [Ids -> Task] /\ task[id] \in Task
  BY <1>1, LiveOnPlan, TypedState DEF RowInv
<1>3. plan' = plan
  BY <1>1 DEF DbImages
<1> PICK t : t = task'[id]
  OBVIOUS
<1>4. CASE Stage(id)
  <2>1. PICK images : /\ images = plan
                      /\ task' = [task EXCEPT ![id].pc = "pulling",
                                              ![id].images = images]
    BY <1>2, <1>4 DEF Stage
  <2>2. op = "deploy" /\ old = "stage"
    BY <1>1, <1>4, PcOps DEF RowInv, Stage
  <2>3. /\ task' = [task EXCEPT ![id] = t] /\ t.pc = "pulling" /\ t.op = "deploy"
        /\ t.svc = task[id].svc /\ t.services = task[id].services
        /\ t.images = plan
    BY <1>2, <2>1, <2>2 DEF Task
  <2>4. OnPlan(t, plan)'
    BY <2>3 DEF OnPlan, CandidatePcs, RestoredPcs, SettledPcs, HandlerPcs
  <2> QED BY <1>1, <2>2, <2>3, <2>4, MoveKeepsPlan
<1>5. CASE Pull(id)
  <2>1. PICK img : task' = [task EXCEPT ![id].pc = "target", ![id].img = img]
    BY <1>5 DEF Pull
  <2>2. op = "deploy" /\ old = "pull"
    BY <1>1, <1>5, PcOps DEF RowInv, Pull
  <2>3. /\ task' = [task EXCEPT ![id] = t] /\ t.pc = "target" /\ t.op = "deploy"
        /\ t.svc = task[id].svc /\ t.services = task[id].services
        /\ t.images = plan
    BY <1>2, <2>1, <2>2 DEF Task, StagedPcs
  <2>4. OnPlan(t, plan)'
    BY <2>3 DEF OnPlan, CandidatePcs, RestoredPcs, SettledPcs, HandlerPcs
  <2> QED BY <1>1, <2>2, <2>3, <2>4, MoveKeepsPlan
<1>6. CASE RestoreCheck(id)
  <2>1. /\ op \in {"deploy", "rollback", "recover"} /\ old = "restore_check"
        /\ UNCHANGED override
    BY <1>1, <1>6, PcOps DEF RowInv, RestoreCheck, RestorePcs, durable
  <2>2. /\ task' = [task EXCEPT ![id] = t] /\ t.pc = "fail" /\ t.op = op
        /\ t.svc = task[id].svc /\ t.services = task[id].services
    BY <1>2, <1>6 DEF RestoreCheck, Task
  <2>3. t.svc \in Services
    BY <1>2, <2>1, <2>2 DEF RowInv, SafeInv, TypeOK
  <2>4. OnPlan(t, plan)'
    BY <1>1, <1>2, <1>3, <2>1, <2>2, <2>3 DEF OnPlan, CandidatePcs, RestoredPcs,
      SettledPcs
  <2> QED BY <1>1, <2>2, <2>4, MoveKeepsPlan DEF StagedPcs
<1>7. CASE Inspect(id)
  <2>1. op = "recover" /\ old = "inspect" /\ UNCHANGED override
    BY <1>1, <1>7, PcOps DEF RowInv, Inspect, durable
  <2>2. /\ task' = [task EXCEPT ![id] = t] /\ t.pc \in {"commit", "restore"}
        /\ t.op = op /\ t.svc = task[id].svc /\ t.services = task[id].services
    <3>1. CASE Goto(id, "restore")
      BY <1>2, <3>1 DEF Goto, Task
    <3>2. CASE task' = [task EXCEPT ![id].pc = "commit",
                                    ![id].img = row[id].target]
      BY <1>2, <3>2 DEF Task
    <3> QED BY <1>7, <3>1, <3>2 DEF Inspect
  <2>3. OnPlan(t, plan)'
    BY <1>1, <1>2, <1>3, <2>1, <2>2 DEF OnPlan, CandidatePcs, RestoredPcs, SettledPcs
  <2> QED BY <1>1, <2>1, <2>2, <2>3, MoveKeepsPlan
<1>8. CASE Admit(id)
  <2>1. op \in Operations /\ old = "admit" /\ UNCHANGED override
    BY <1>1, <1>8, PcOps DEF RowInv, Admit, HandlerPcs, durable
  <2>2. \/ task' = [task EXCEPT ![id].pc = "create"]
        \/ \E img : task' = [task EXCEPT ![id].pc = "create", ![id].img = img]
    BY <1>8 DEF Admit, Goto
  <2>3. /\ task' = [task EXCEPT ![id] = t] /\ t.pc = "create"
        /\ t.op = op /\ t.svc = task[id].svc /\ t.services = task[id].services
    BY <1>2, <2>2 DEF Task
  <2>4. /\ t.pc \notin CandidatePcs(op) /\ t.pc \notin RestoredPcs(op)
        /\ old \in SettledPcs(op)
    BY <2>1, <2>3 DEF CandidatePcs, RestoredPcs, SettledPcs, Operations,
      Lifecycle, HandlerPcs, Pcs
  <2>5. OnPlan(t, plan)'
    BY <1>1, <1>2, <1>3, <2>1, <2>3, <2>4 DEF OnPlan
  <2> QED BY <1>1, <2>1, <2>3, <2>5, MoveKeepsPlan DEF StagedPcs
<1> QED BY <1>4, <1>5, <1>6, <1>7, <1>8

(* A failure: where it is handled needs no more of the override than there was. *)
LEMMA PlanFails ==
  ASSUME RowInv, PlanInv, NEW id \in Ids, CommandFails(id) \/ StorageFails(id)
  PROVE  PlanInv'
<1> DEFINE op == task[id].op
           old == task[id].pc
           plan == DbImages(managed)
           h == Handled(op, old)
<1>1. /\ Live(id) /\ OnError(id)
      /\ UNCHANGED <<committed, managed, holder, override, container, manual>>
      /\ \/ old \in CommandPcs /\ faults' = faults
         \/ old \in HandlerPcs \cup StoragePcs /\ faults' # 0
      /\ old = "restore" \/ op # "recover" \/ old \in CommandPcs
  BY FaultsNat DEF RowInv, CommandFails, StorageFails, Live, HandlerPcs, StoragePcs,
    CommandPcs, durable, bounds
<1>2. /\ OnPlan(task[id], plan) /\ task[id] \in Task /\ task \in [Ids -> Task]
  BY <1>1, LiveOnPlan, TypedState DEF RowInv
<1>3. plan' = plan
  BY <1>1 DEF DbImages
<1>4. /\ op \in Operations \cup {"recover"}
      /\ old = "pull" => op = "deploy"
      /\ old = "commit" => op \in {"deploy", "rollback", "recover"}
      /\ old \in {"up", "check"} => op \in {"deploy", "rollback", "recreate"}
      /\ old \in {"stop", "down"} => op \in Lifecycle
      /\ old \in RestorePcs => op \in {"deploy", "rollback", "recover"}
  BY <1>1, PcOps DEF RowInv
<1> PICK t : t = [task[id] EXCEPT !.pc = h.pc, !.rb = h.rb]
  OBVIOUS
<1>5. /\ task' = [task EXCEPT ![id] = t]
      /\ t.pc = h.pc /\ t.rb = h.rb /\ t.op = op /\ t.svc = task[id].svc
      /\ t.services = task[id].services /\ t.img = task[id].img
  BY <1>1, <1>2 DEF OnError, Task
<1> HIDE DEF op, old
<1>6. /\ h.pc \in {"end", "fail", "commit", "restore"} /\ h.rb # "succeeded"
      /\ h.pc = "commit" => op = "rollback" /\ old = "committing"
      /\ h.pc = "end" => faults' # 0
      /\ h.pc = "fail" => \/ faults' # 0
                          \/ faults' = faults /\ op \in Lifecycle
                          \/ op \notin Lifecycle /\ old \in RestoredPcs(op)
      /\ old \notin {"fail", "end"} \/ h.pc = "end"
  BY <1>1, <1>4 DEF Handled, Recourse, RestoreFailed, CommandPcs, StoragePcs,
    HandlerPcs, Operations, Lifecycle, RestorePcs, RestoredPcs
<1> HIDE DEF h
<1>7. op \in Lifecycle /\ old # "idle" => old \in SettledPcs(op)
  BY <1>1, <1>2 DEF SettledPcs, Lifecycle, CommandPcs, StoragePcs, HandlerPcs, Pcs,
    TaskPcs
<1>8. OnPlan(t, plan)'
  <2>1. t.pc \in CandidatePcs(t.op) => override' = [plan' EXCEPT ![t.svc] = t.img]
    BY <1>1, <1>2, <1>3, <1>4, <1>5, <1>6 DEF OnPlan, CandidatePcs, op, old,
      Operations, Lifecycle
  <2>2. t.pc \notin RestoredPcs(t.op)
    BY <1>5, <1>6 DEF RestoredPcs
  <2>3. faults' = 0 /\ t.pc \in SettledPcs(t.op) => override' = plan'
    <3>1. CASE h.pc \in {"fail", "end"}
      BY <1>1, <1>2, <1>3, <1>5, <1>6, <1>7, <3>1 DEF OnPlan, op, old, Live
    <3>2. CASE h.pc = "commit"
      BY <1>5, <1>6, <3>2 DEF SettledPcs, HandlerPcs
    <3>3. CASE h.pc = "restore" /\ op \in Lifecycle
      BY <1>1, <1>2, <1>3, <1>5, <1>6, <1>7, <3>3 DEF OnPlan, op, old, Live, Handled,
        h, Recourse, RestoreFailed
    <3>4. CASE h.pc = "restore" /\ op \notin Lifecycle
      BY <1>4, <1>5, <3>4 DEF SettledPcs, HandlerPcs, Operations
    <3> QED BY <1>6, <3>1, <3>2, <3>3, <3>4
  <2> QED BY <1>5, <1>6, <2>1, <2>2, <2>3 DEF OnPlan
<1>9. /\ t.pc \notin {"fail", "end"} => task[id].pc \notin {"fail", "end"}
      /\ t.pc \notin StagedPcs
  BY <1>5, <1>6 DEF StagedPcs, old
<1> QED BY <1>1, <1>5, <1>8, <1>9, MoveKeepsPlan DEF op

(* What is committed is what the override named. *)
LEMMA PlanCommit ==
  ASSUME RowInv, PlanInv, NEW id \in Ids, Commit(id)
  PROVE  PlanInv'
<1> DEFINE op == task[id].op
           s == task[id].svc
           pc == IF op = "rollback" THEN "end" ELSE "rebuild"
<1>1. /\ Live(id) /\ task[id].pc = "commit" /\ Goto(id, pc)
      /\ committed' = [committed EXCEPT ![s] = [img |-> task[id].img, dep |-> id]]
      /\ UNCHANGED <<managed, holder, override, container, faults, manual>>
  BY DEF Commit, RecordBaseline, Live, bounds
<1>2. /\ OnPlan(task[id], DbImages(managed)) /\ task[id].services = managed
      /\ s \in managed /\ managed \subseteq Services
      /\ committed \in [Services -> [img : Images \cup {Base}, dep : 0 .. MaxOps]]
      /\ op \in {"deploy", "rollback", "recover"}
      /\ task \in [Ids -> Task] /\ task[id] \in Task
  BY <1>1, LiveOnPlan, TypedState, PcOps DEF RowInv, SafeInv, TypeOK
<1> PICK t : t = [task[id] EXCEPT !.pc = pc]
  OBVIOUS
<1>3. /\ task' = [task EXCEPT ![id] = t] /\ t.pc = pc /\ t.op = op /\ t.svc = s
      /\ t.services = managed
  BY <1>1, <1>2 DEF Goto, Task
<1>4. op = "rollback" => override' = DbImages(managed)'
  <2> SUFFICES ASSUME op = "rollback" PROVE override' = DbImages(managed)'
    OBVIOUS
  <2>1. override' = [DbImages(managed) EXCEPT ![s] = task[id].img]
    BY <1>1, <1>2 DEF OnPlan, CandidatePcs
  <2>2. [DbImages(managed) EXCEPT ![s] = task[id].img]
          = [q \in Services |-> IF q \in managed THEN committed'[q].img ELSE Base]
    BY <1>1, <1>2 DEF DbImages
  <2> QED BY <1>1, <2>1, <2>2 DEF DbImages
<1>5. /\ pc \in {"end", "rebuild"} /\ (pc = "end" <=> op = "rollback")
      /\ pc \notin CandidatePcs(op) /\ pc \notin RestoredPcs(op)
      /\ pc \in SettledPcs(op) => op = "rollback" /\ pc = "end"
  BY <1>2 DEF CandidatePcs, RestoredPcs, SettledPcs, HandlerPcs
<1> HIDE DEF pc
<1>6. OnPlan(t, DbImages(managed))'
  BY <1>3, <1>4, <1>5 DEF OnPlan
<1>7. /\ task'[id] = t /\ \A i \in Ids \ {id} : task'[i].pc = "idle"
      /\ holder' = id
  BY <1>1, <1>2, <1>3, OnlyLive DEF RowInv
<1>8. /\ t.services = managed' /\ t.svc \in managed' /\ t.pc \notin StagedPcs
  BY <1>1, <1>2, <1>3, <1>5 DEF StagedPcs
<1> QED BY <1>6, <1>7, <1>8, OnlyPlan

(* When nothing is live, only the resting override matters. *)
LEMMA PlanAtRest ==
  ASSUME \A i \in Ids : task'[i].pc = "idle",
         (faults' = 0 /\ mode' # "down" /\ holder' \in {Free, Refresher}) =>
             override' = DbImages(managed)'
  PROVE  PlanInv'
<1>1. ProjectKept' /\ OverridePlanned'
  BY DEF ProjectKept, OverridePlanned, Live
<1>2. SettledAtRest'
  BY DEF SettledAtRest, Settled
<1>3. RestoreSeen' /\ RestoredOnSuccess'
  BY DEF RestoreSeen, RestoredOnSuccess
<1> QED BY <1>1, <1>2, <1>3 DEF PlanInv

LEMMA PlanStart ==
  ASSUME RowInv, PlanInv,
         \/ \E s \in Services, op \in Operations : Acquire(s, op)
         \/ \E id \in Ids : RecoverBegin(id)
  PROVE  PlanInv'
<1>1. /\ task \in [Ids -> Task] /\ holder = Free /\ mode # "down"
      /\ UNCHANGED <<committed, managed, override, container, faults, manual>>
  BY TypedState DEF RowInv, Acquire, RecoverBegin, TryAcquire, durable, bounds
<1>2. \A i \in Ids : task[i].pc = "idle"
  BY <1>1, FreeMeansIdle DEF RowInv, Live
<1>3. DbImages(managed)' = DbImages(managed)
  BY <1>1 DEF DbImages
<1>4. faults' = 0 => override' = DbImages(managed)'
  BY <1>1, <1>3 DEF PlanInv, SettledAtRest, Settled
<1>5. CASE \E s \in Services, op \in Operations : Acquire(s, op)
  <2>1. PICK s \in Services, op \in Operations : Acquire(s, op)
    BY <1>5
  <2> PICK t : t = task'[nextId]
    OBVIOUS
  <2>2. /\ nextId \in Ids /\ holder' = nextId /\ t.pc = "admit" /\ t.op = op
        /\ t.svc = s /\ s \in managed' /\ t.services = managed'
        /\ \A i \in Ids \ {nextId} : task'[i].pc = "idle"
    BY <1>1, <1>2, <2>1 DEF Acquire, TryAcquire, IdleTask
  <2>3. t.pc \notin CandidatePcs(op) /\ t.pc \notin RestoredPcs(op)
    BY <2>2 DEF CandidatePcs, RestoredPcs
  <2>4. OnPlan(t, DbImages(managed))'
    BY <1>4, <2>2, <2>3 DEF OnPlan
  <2>5. t.pc \notin StagedPcs
    BY <2>2 DEF StagedPcs
  <2> QED BY <2>2, <2>4, <2>5, OnlyPlan
<1>6. CASE \E id \in Ids : RecoverBegin(id)
  <2>1. PICK id \in Ids : RecoverBegin(id)
    BY <1>6
  <2> DEFINE f == RecoverFrom(row[id])
  <2> PICK t : t = task'[id]
    OBVIOUS
  <2>2. /\ f.pc \in {"fail", "inspect"} /\ f.rb # "succeeded"
        /\ f.pc = "inspect" => row[id].svc \in managed
    BY DEF RecoverFrom
  <2>3. /\ holder' = id /\ t.pc = f.pc /\ t.rb = f.rb /\ t.op = "recover"
        /\ t.svc = row[id].svc /\ t.services = managed'
        /\ \A i \in Ids \ {id} : task'[i].pc = "idle"
    BY <1>1, <1>2, <2>1 DEF RecoverBegin, TryAcquire, IdleTask
  <2> HIDE DEF f
  <2>4. t.pc \notin CandidatePcs("recover") /\ t.pc \notin RestoredPcs("recover")
    BY <2>2, <2>3 DEF CandidatePcs, RestoredPcs
  <2>5. OnPlan(t, DbImages(managed))'
    BY <1>4, <2>2, <2>3, <2>4 DEF OnPlan
  <2>6. t.pc \notin StagedPcs /\ (t.pc \notin {"fail", "end"} => t.svc \in managed')
    BY <1>1, <2>2, <2>3 DEF StagedPcs
  <2> QED BY <2>3, <2>5, <2>6, OnlyPlan
<1> QED BY <1>5, <1>6

LEMMA PlanEnd ==
  ASSUME RowInv, PlanInv, NEW id \in Ids, End(id)
  PROVE  PlanInv'
<1>1. /\ task \in [Ids -> Task] /\ Live(id) /\ task[id].pc = "end"
      /\ UNCHANGED <<committed, managed, override, faults>>
  BY TypedState DEF RowInv, End, Live, durable, bounds
<1>2. \A i \in Ids : task'[i].pc = "idle"
  BY <1>1, OnlyLive DEF RowInv, End, IdleTask
<1>3. "end" \in SettledPcs(task[id].op)
  BY DEF SettledPcs, Pcs
<1>4. faults = 0 => override = DbImages(managed)
  BY <1>1, <1>3, LiveOnPlan DEF OnPlan
<1>5. DbImages(managed)' = DbImages(managed)
  BY <1>1 DEF DbImages
<1> QED BY <1>1, <1>2, <1>4, <1>5, PlanAtRest

(* The process ends, starts, serves, or refreshes the project. *)
LEMMA PlanProcess ==
  ASSUME RowInv, PlanInv,
         \/ ProcessEnds \/ Startup \/ Serve
         \/ RefreshBegin \/ RefreshApply \/ RefreshAborts
  PROVE  PlanInv'
<1>1. CASE ProcessEnds
  <2>1. mode' = "down" /\ \A i \in Ids : task'[i].pc = "idle"
    BY <1>1 DEF ProcessEnds, IdleTask
  <2> QED BY <2>1, PlanAtRest
<1>2. ASSUME Startup \/ Serve \/ RefreshBegin \/ RefreshApply \/ RefreshAborts
      PROVE  PlanInv'
  <2>1. task' = task /\ committed' = committed /\ holder \in {Free, Refresher}
    BY <1>2 DEF Startup, Serve, RefreshBegin, RefreshApply, RefreshAborts,
      TryAcquire, RowInv, RecoveryOK, durable
  <2>2. \A i \in Ids : task'[i].pc = "idle"
    BY <2>1, FreeMeansIdle DEF RowInv, Live
  <2>3. \A p \in {managed, candidate, composeFile} :
           managed' = p => DbImages(managed)' = DbImages(p)
    BY <2>1 DEF DbImages
  <2>4. CASE /\ UNCHANGED <<override, managed>> /\ (mode' # "down" => mode # "down")
             /\ faults' = faults
    BY <2>1, <2>2, <2>3, <2>4, PlanAtRest DEF PlanInv, SettledAtRest, Settled
  <2>5. CASE \E p \in {candidate, composeFile} :
                override' = DbImages(p) /\ managed' = p
    BY <2>2, <2>3, <2>5, PlanAtRest
  <2>6. CASE faults' = faults + 1
    BY <2>2, <2>6, FaultsNat, PlanAtRest DEF RowInv
  <2> QED BY <1>2, <2>4, <2>5, <2>6
        DEF Startup, Serve, RefreshBegin, RefreshApply, RefreshAborts, durable, bounds
<1> QED BY <1>1, <1>2

(* What the daemon, the environment and the cleanup of the history change. *)
LEMMA PlanOutside ==
  ASSUME RowInv, PlanInv,
         \/ \E id \in Ids : Daemon(id)
         \/ \E s \in Services : ContainerChanges(s) \/ ManualUp(s)
         \/ EditCompose \/ CleanupHistory \/ UNCHANGED vars
  PROVE  PlanInv'
<1>1. UNCHANGED <<task, override, committed, managed, faults, mode, holder>>
  BY DEF Daemon, ContainerChanges, ManualUp, EditCompose, CleanupHistory, vars,
    durable, volatile, bounds
<1>2. DbImages(managed)' = DbImages(managed)
  BY <1>1 DEF DbImages
<1>3. ProjectKept'
  BY <1>1, <1>2 DEF PlanInv, ProjectKept, Live
<1>4. OverridePlanned'
  BY <1>1, <1>2 DEF PlanInv, OverridePlanned, Live, Settled, Candidate
<1>5. SettledAtRest'
  BY <1>1, <1>2 DEF PlanInv, SettledAtRest, Settled
<1>6. ASSUME manual' = 0, NEW i \in Ids, task[i].pc \in {"restore_check", "fail"},
             task[i].svc \in Services
      PROVE  manual = 0 /\ container'[task[i].svc].img = container[task[i].svc].img
  <2>1. container \in [Services -> [img : References \cup {None},
                                    st : {"ok", "bad", "off"}]]
    BY DEF RowInv, SafeInv, TypeOK
  <2>2. CASE \E id \in Ids : Daemon(id)
    <3>1. PICK id \in Ids : Daemon(id)
      BY <2>2
    <3>2. task[id].pc \in {"up", "restore_up", "stop", "down"}
      BY <3>1 DEF Daemon
    <3>3. i = id
      BY <1>6, <3>2, OnlyLive DEF RowInv, Live
    <3> QED BY <1>6, <3>2, <3>3
  <2>3. CASE \E s \in Services : ContainerChanges(s)
    BY <1>6, <2>1, <2>3 DEF ContainerChanges, bounds
  <2>4. CASE \E s \in Services : ManualUp(s)
    BY <1>6, <2>4 DEF ManualUp, RowInv, SafeInv, TypeOK
  <2>5. CASE UNCHANGED <<container, manual>>
    BY <1>6, <2>5
  <2> QED BY <2>2, <2>3, <2>4, <2>5 DEF EditCompose, CleanupHistory, vars, durable, bounds
<1>7. ASSUME NEW i \in Ids, task[i].pc = "restore_check"
      PROVE  task[i].svc \in Services
  BY <1>7, TypedState DEF RowInv, GoodTask
<1> PICK plan : plan = DbImages(managed)
  OBVIOUS
<1>8. ASSUME manual' = 0, NEW i \in Ids
      PROVE  /\ task[i].pc = "restore_check" =>
                   container'[task[i].svc].img = plan[task[i].svc]
             /\ task[i].pc = "fail" /\ task[i].rb = "succeeded" =>
                   /\ container'[task[i].svc].img = plan[task[i].svc]
                   /\ task[i].svc \in Services
  <2>1. CASE task[i].pc = "restore_check"
    <3>1. manual = 0 /\ container'[task[i].svc].img = container[task[i].svc].img
      BY <1>6, <1>7, <1>8, <2>1
    <3> QED BY <2>1, <3>1 DEF PlanInv, RestoreSeen
  <2>2. CASE task[i].pc = "fail" /\ task[i].rb = "succeeded"
    <3>1. manual = 0
      BY <1>8 DEF ContainerChanges, ManualUp, Daemon, EditCompose, CleanupHistory,
        vars, durable, bounds, RowInv, SafeInv, TypeOK
    <3>2. task[i].svc \in Services /\ container[task[i].svc].img = plan[task[i].svc]
      BY <2>2, <3>1 DEF PlanInv, RestoreSeen, RestoredOnSuccess
    <3>3. container'[task[i].svc].img = container[task[i].svc].img
      BY <1>6, <1>8, <2>2, <3>2
    <3> QED BY <2>2, <3>2, <3>3
  <2> QED BY <2>1, <2>2
<1>9. RestoreSeen' /\ RestoredOnSuccess'
  BY <1>1, <1>2, <1>8 DEF RestoreSeen, RestoredOnSuccess
<1> QED BY <1>3, <1>4, <1>5, <1>9 DEF PlanInv

LEMMA PlanInit == Init => PlanInv
<1> SUFFICES ASSUME Init PROVE PlanInv
  OBVIOUS
<1>1. (\A i \in Ids : task[i].pc = "idle") /\ mode = "down"
  BY DEF Init, IdleTask
<1>2. ProjectKept /\ OverridePlanned /\ SettledAtRest /\ RestoreSeen /\ RestoredOnSuccess
  BY <1>1 DEF ProjectKept, OverridePlanned, SettledAtRest, RestoreSeen,
    RestoredOnSuccess, Live
<1> QED BY <1>2 DEF PlanInv

LEMMA PlanNext == RowInv /\ PlanInv /\ [Next]_vars => PlanInv'
<1> SUFFICES ASSUME RowInv, PlanInv, [Next]_vars PROVE PlanInv'
  OBVIOUS
<1>1. ASSUME NEW id \in Ids, Step(id)
      PROVE  PlanInv'
  BY <1>1, PlanSteps, PlanWrites, PlanUpdates, PlanFails, PlanCommit, PlanEnd
  DEF Step
<1>2. ASSUME Crash \/ \E id \in Ids : RecoveryFails(id)
      PROVE  PlanInv'
  <2>1. ProcessEnds
    BY <1>2 DEF Crash, RecoveryFails
  <2> QED BY <2>1, PlanProcess
<1> QED BY <1>1, <1>2, PlanStart, PlanFails, PlanProcess, PlanOutside DEF Next

-----------------------------------------------------------------------------
(* The size of the history (SizeInv).                                       *)

LEMMA LeastElement ==
  ASSUME NEW T, T \subseteq Nat, T # {}
  PROVE  \E m \in T : \A y \in T : m <= y
<1>1. PICK m \in T : \A y \in T : ~(<<y, m>> \in OpToRel(<, Nat))
  BY NatLessThanWellFounded, WFMin
<1>2. \A y \in T : ~(y < m)
  BY <1>1 DEF OpToRel
<1> QED BY <1>2

(* The pruning of create_deployment keeps at most the newest n. *)
LEMMA NewestAreFew ==
  ASSUME NEW S, S \subseteq Nat, IsFiniteSet(S), NEW n \in Nat
  PROVE  Cardinality({i \in S : Cardinality({j \in S : j > i}) < n}) <= n
<1> DEFINE T == {i \in S : Cardinality({j \in S : j > i}) < n}
<1>1. T \subseteq S /\ IsFiniteSet(T) /\ Cardinality(T) \in Nat
  BY FS_Subset, FS_CardinalityType
<1>2. \A i \in T : Cardinality({j \in S : j > i}) < n
  OBVIOUS
<1> SUFFICES Cardinality(T) <= n
  OBVIOUS
<1> HIDE DEF T
<1>3. CASE T = {}
  BY <1>3, FS_EmptySet
<1>4. CASE T # {}
  <2>1. PICK m \in T : \A y \in T : m <= y
    BY <1>1, <1>4, LeastElement
  <2> DEFINE N == {j \in S : j > m}
  <2>2. IsFiniteSet(N) /\ Cardinality(N) \in Nat /\ Cardinality(N) < n
    BY <1>2, <2>1, FS_Subset, FS_CardinalityType
  <2>3. T \ {m} \subseteq N
    BY <1>1, <2>1
  <2> HIDE DEF N
  <2>4. Cardinality(T \ {m}) <= Cardinality(N)
    BY <2>2, <2>3, FS_Subset
  <2>5. Cardinality(T \ {m}) = Cardinality(T) - 1
    BY <1>1, <2>1, FS_RemoveElement
  <2> QED BY <1>1, <2>2, <2>4, <2>5
<1> QED BY <1>3, <1>4

LEMMA IdSets ==
  ASSUME NEW S, S \subseteq Ids
  PROVE  IsFiniteSet(S) /\ Cardinality(S) \in Nat
<1>1. IsFiniteSet(Ids)
  BY FS_Interval, DeployAssumption DEF Ids
<1> QED BY <1>1, FS_Subset, FS_CardinalityType

LEMMA FewerIds ==
  ASSUME NEW T, T \subseteq Ids, NEW S, S \subseteq T
  PROVE  Cardinality(S) <= Cardinality(T)
BY IdSets, FS_Subset

LEMMA OneMoreId ==
  ASSUME NEW T, T \subseteq Ids, NEW id \in Ids, NEW S, S \subseteq T \cup {id}
  PROVE  Cardinality(S) <= Cardinality(T) + 1
<1>1. /\ Cardinality(T \cup {id}) <= Cardinality(T) + 1
  BY IdSets, FS_AddElement
<1>2. Cardinality(S) <= Cardinality(T \cup {id})
  BY FewerIds
<1> QED BY <1>1, <1>2, IdSets

LEMMA IdUnion ==
  ASSUME NEW S, S \subseteq Ids, NEW T, T \subseteq Ids
  PROVE  Cardinality(S \cup T) <= Cardinality(S) + Cardinality(T)
<1>1. /\ IsFiniteSet(S) /\ Cardinality(S) \in Nat
      /\ IsFiniteSet(T) /\ Cardinality(T) \in Nat
  BY IdSets
<1>2. Cardinality(S \cap T) \in Nat
  <2>1. S \cap T \subseteq Ids
    OBVIOUS
  <2> QED BY <2>1, IdSets
<1>3. Cardinality(S \cup T) = Cardinality(S) + Cardinality(T) - Cardinality(S \cap T)
  BY <1>1, FS_Union
<1> QED BY <1>1, <1>2, <1>3

LEMMA SizeTypes ==
  ASSUME SafeInv
  PROVE  /\ Orphans \subseteq Ids /\ Retained \subseteq Ids
         /\ Cardinality(Orphans) \in Nat /\ Cardinality(Retained) \in Nat
         /\ faults \in Nat /\ crashes \in Nat /\ HistoryLimit \in Nat
<1>1. Orphans \subseteq Ids /\ Retained \subseteq Ids
  BY DEF Orphans, Retained
<1>2. faults \in Nat /\ crashes \in Nat
  BY DeployAssumption DEF SafeInv, TypeOK
<1> QED BY <1>1, <1>2, IdSets, DeployAssumption

LEMMA KeepsSize ==
  ASSUME SizeInv, SafeInv, SafeInv', Orphans' \subseteq Orphans,
         Retained' \subseteq Retained, UNCHANGED <<faults, crashes>>,
         Pruning => Pruning'
  PROVE  SizeInv'
<1>1. /\ Cardinality(Orphans') <= Cardinality(Orphans)
      /\ Cardinality(Retained') <= Cardinality(Retained)
  BY FewerIds, SizeTypes
<1>2. /\ Cardinality(Orphans') \in Nat /\ Cardinality(Retained') \in Nat
  BY IdSets DEF Orphans, Retained
<1> QED BY <1>1, <1>2, SizeTypes DEF SizeInv

(* A fault or a crash leaves one row more that nobody works for. *)
LEMMA OrphanLeft ==
  ASSUME SizeInv, SafeInv, SafeInv', NEW id \in Ids,
         Orphans' \subseteq Orphans \cup {id}, Retained' \subseteq Retained,
         faults' + crashes' = faults + crashes + 1
  PROVE  SizeInv'
<1>1. /\ Cardinality(Orphans') <= Cardinality(Orphans) + 1
      /\ Cardinality(Retained') <= Cardinality(Retained)
  BY OneMoreId, FewerIds, SizeTypes
<1>2. /\ Cardinality(Orphans') \in Nat /\ Cardinality(Retained') \in Nat
      /\ faults' \in Nat /\ crashes' \in Nat
  BY IdSets, DeployAssumption DEF Orphans, Retained, SafeInv, TypeOK
<1> QED BY <1>1, <1>2, SizeTypes DEF SizeInv

Kept(id) == row[id].status \in OpenStatus \cup DoneStatus
Orphan(id) == row[id].status \in OpenStatus /\ task[id].pc \in {"idle", "end"}

LEMMA StepKeepsSize ==
  ASSUME SizeInv, SafeInv, SafeInv', NEW id \in Ids, task[id].pc # "prune",
         UNCHANGED <<faults, crashes>>,
         \A i \in Ids \ {id} : task'[i] = task[i] /\ row'[i] = row[i],
         Kept(id)' => Kept(id), Orphan(id)' => Orphan(id)
  PROVE  SizeInv'
<1>1. Retained' \subseteq Retained
  BY DEF Retained, Kept
<1>2. Orphans' \subseteq Orphans
  BY DEF Orphans, Orphan
<1>3. Pruning => Pruning'
  BY DEF Pruning
<1> QED BY <1>1, <1>2, <1>3, KeepsSize

(* The steps of an operation but the insert of its row and the pruning. *)
LEMMA SizeSteps ==
  ASSUME RowInv, HistoryInv, SizeInv, SafeInv', NEW id \in Ids,
         Step(id), ~Create(id), ~Prune(id)
  PROVE  SizeInv'
<1>1. /\ task \in [Ids -> Task] /\ task[id] \in Task /\ row \in [Ids -> Row]
      /\ row[id] \in Row /\ SafeInv
  BY TypedState DEF RowInv
<1>2. ASSUME NEW pc, Goto(id, pc)
      PROVE  task'[id].pc = pc /\ \A i \in Ids \ {id} : task'[i] = task[i]
  BY <1>1, <1>2 DEF Goto, Task
<1>3. UNCHANGED <<faults, crashes>> /\ task[id].pc # "prune"
  BY DEF Step, Admit, Reject, Create, Prune, MarkRunning, Stage, RecordPhase, Pull,
    RecordTarget, Pin, Up, StopOrDown, Check, Commit, Rebuild, Restore, RestoreCheck,
    FinishSuccess, FinishFailure, End, Inspect, CommandFails, bounds, CommandPcs
<1>4. CASE Reject(id)
  <2>1. row[id] = NoRow
    BY <1>4 DEF Reject, RowInv, FreshIds, SafeInv, TypeOK, Ids
  <2> QED BY <1>1, <1>2, <1>3, <1>4, <2>1, StepKeepsSize
          DEF Reject, durable, Kept, Orphan, NoRow, OpenStatus, DoneStatus
<1>5. CASE MarkRunning(id) \/ RecordPhase(id) \/ RecordTarget(id)
  <2>1. /\ row'[id].status \in OpenStatus => row[id].status \in OpenStatus
        /\ row'[id].status \in DoneStatus => row[id].status \in DoneStatus
        /\ \A i \in Ids \ {id} : row'[i] = row[i]
    BY <1>1, <1>5 DEF MarkRunning, RecordPhase, RecordTarget, Row, OpenStatus, DoneStatus
  <2>2. PICK pc : Goto(id, pc) /\ pc \notin {"idle", "end"}
    <3>1. CASE MarkRunning(id)
      <4>1. task[id].op \in Operations
        BY <1>1, <3>1, PcOps DEF MarkRunning, HandlerPcs, Live
      <4>2. FirstPc(task[id].op) \notin {"idle", "end"}
        BY <4>1 DEF FirstPc, Operations, Lifecycle
      <4> QED BY <3>1, <4>2 DEF MarkRunning
    <3>2. CASE RecordPhase(id)
      <4>1. AfterPhase(task[id].op, task[id].pc) \notin {"idle", "end"}
        BY <3>2 DEF RecordPhase, AfterPhase
      <4> QED BY <3>2, <4>1 DEF RecordPhase
    <3> QED BY <1>5, <3>1, <3>2 DEF RecordTarget
  <2> QED BY <1>1, <1>2, <1>3, <2>1, <2>2, StepKeepsSize DEF Kept, Orphan
<1>6. CASE FinishSuccess(id) \/ FinishFailure(id) \/ Commit(id)
  <2>1. row[id].status \in OpenStatus
    BY <1>6 DEF FinishSuccess, FinishFailure, Commit, RowInv, LiveRowOpen, AfterCommit,
      TaskPcs, StoragePcs
  <2>2. /\ row'[id].status \notin OpenStatus
        /\ \A i \in Ids \ {id} : row'[i] = row[i]
    <3>1. CASE Commit(id)
      BY <1>1, <3>1 DEF Commit, CommittedRow, Row, OpenStatus
    <3>2. CASE FinishSuccess(id) \/ FinishFailure(id)
      BY <1>1, <3>2, FinishRow DEF OpenStatus, DoneStatus
    <3> QED BY <1>6, <3>1, <3>2
  <2>3. \A i \in Ids \ {id} : task'[i] = task[i]
    BY <1>2, <1>6 DEF FinishSuccess, FinishFailure, Commit
  <2> QED BY <1>1, <1>3, <2>1, <2>2, <2>3, StepKeepsSize DEF Kept, Orphan
<1>7. CASE End(id)
  BY <1>1, <1>3, <1>7, StepKeepsSize DEF End, durable, Kept, Orphan
<1>8. CASE Rebuild(id)
  <2>1. row' = row /\ task[id].pc = "rebuild" /\ \A i \in Ids \ {id} : task'[i] = task[i]
    BY <1>2, <1>8 DEF Rebuild
  <2>2. Orphan(id)' => Orphan(id)
    <3>1. CASE task[id].op = "recreate"
      BY <1>2, <1>8, <3>1 DEF Rebuild, Orphan
    <3>2. CASE task[id].op # "recreate"
      BY <2>1, <3>2 DEF HistoryInv, ClosedAtEnd, AfterCommit, Orphan
    <3> QED BY <3>1, <3>2
  <2> QED BY <1>1, <1>3, <2>1, <2>2, StepKeepsSize DEF Kept
<1>9. CASE \/ Stage(id) \/ Pull(id) \/ RestoreCheck(id) \/ Inspect(id) \/ Admit(id)
           \/ Pin(id) \/ Up(id) \/ StopOrDown(id) \/ Check(id) \/ Restore(id)
  <2>1. row' = row /\ \A i \in Ids \ {id} : task'[i] = task[i]
    BY <1>1, <1>9 DEF Stage, Pull, RestoreCheck, Inspect, Admit, Pin, Up, StopOrDown,
      Check, Restore, Goto, durable
  <2>2. task'[id].pc \notin {"idle", "end"}
    <3>1. CASE Stage(id) \/ Pull(id) \/ RestoreCheck(id)
      BY <1>1, <3>1 DEF Stage, Pull, RestoreCheck, Task
    <3>2. CASE Inspect(id)
      BY <1>1, <1>2, <3>2 DEF Inspect, Task
    <3>3. CASE Admit(id)
      BY <1>1, <1>2, <3>3 DEF Admit, Task
    <3>4. CASE Pin(id) \/ Up(id) \/ StopOrDown(id) \/ Check(id) \/ Restore(id)
      <4>1. \E pc : Goto(id, pc) /\ pc \notin {"idle", "end"}
        BY <3>4 DEF Pin, Up, StopOrDown, Check, Restore
      <4> QED BY <1>2, <4>1
    <3> QED BY <1>9, <3>1, <3>2, <3>3, <3>4
  <2> QED BY <1>1, <1>3, <2>1, <2>2, StepKeepsSize DEF Kept, Orphan
<1>10. CASE CommandFails(id)
  <2>1. Handled(task[id].op, task[id].pc).pc \notin {"idle", "end"}
    BY <1>10 DEF CommandFails, Handled, Recourse, RestoreFailed, CommandPcs, HandlerPcs
  <2>2. row' = row /\ \A i \in Ids \ {id} : task'[i] = task[i]
    BY <1>1, <1>10 DEF CommandFails, OnError, durable
  <2>3. task'[id].pc \notin {"idle", "end"}
    BY <1>1, <1>10, <2>1 DEF CommandFails, OnError, Task
  <2> QED BY <1>1, <1>3, <2>2, <2>3, StepKeepsSize DEF Kept, Orphan
<1> QED BY <1>4, <1>5, <1>6, <1>7, <1>8, <1>9, <1>10 DEF Step

LEMMA SizeCreate ==
  ASSUME RowInv, SizeInv, SafeInv', NEW id \in Ids, Create(id)
  PROVE  SizeInv'
<1>1. /\ task \in [Ids -> Task] /\ row \in [Ids -> Row] /\ Live(id)
      /\ SafeInv /\ UNCHANGED <<faults, crashes>>
  BY TypedState DEF RowInv, Create, Live, bounds
<1>2. /\ task'[id].pc = "prune"
      /\ \A i \in Ids \ {id} : task'[i] = task[i] /\ row'[i] = row[i]
  BY <1>1 DEF Create, Goto, Task
<1>3. ~Pruning /\ Pruning'
  BY <1>1, <1>2, OnlyLive DEF Pruning, Create
<1>4. Retained' \subseteq Retained \cup {id}
  BY <1>2 DEF Retained
<1>5. Orphans' \subseteq Orphans
  BY <1>2 DEF Orphans
<1>6. /\ Cardinality(Orphans') <= Cardinality(Orphans)
      /\ Cardinality(Retained') <= Cardinality(Retained) + 1
  BY <1>1, <1>4, <1>5, FewerIds, OneMoreId, SizeTypes
<1>7. /\ Cardinality(Orphans') \in Nat /\ Cardinality(Retained') \in Nat
  BY IdSets DEF Orphans, Retained
<1> QED BY <1>1, <1>3, <1>6, <1>7, SizeTypes DEF SizeInv

(* After the pruning at most history_limit finished rows are left, and the open *)
(* ones are the row of the operation and the orphans.                           *)
LEMMA SizePrune ==
  ASSUME RowInv, SizeInv, SafeInv', NEW id \in Ids, Prune(id)
  PROVE  SizeInv'
<1> DEFINE few == {i \in Finished : Cardinality({j \in Finished : j > i}) < HistoryLimit}
<1>1. /\ task \in [Ids -> Task] /\ row \in [Ids -> Row] /\ Live(id)
      /\ SafeInv /\ UNCHANGED <<faults, crashes>> /\ task[id].pc = "prune"
  BY TypedState DEF RowInv, Prune, Live, bounds
<1>2. /\ task'[id].pc = "queued"
      /\ \A i \in Ids \ {id} : task'[i] = task[i] /\ task[i].pc = "idle"
  BY <1>1, OnlyLive DEF Prune, Goto, Task
<1>3. ~Pruning'
  BY <1>2 DEF Pruning
<1>4. Finished \subseteq Ids /\ few \subseteq Ids /\ Cardinality(few) <= HistoryLimit
  <2>1. Finished \subseteq Ids /\ Finished \subseteq Nat /\ HistoryLimit \in Nat
    BY DeployAssumption DEF Finished, Ids
  <2>2. IsFiniteSet(Finished)
    BY <2>1, IdSets
  <2> QED BY <2>1, <2>2, NewestAreFew
<1>5. \A i \in Ids : row'[i].status \in DoneStatus => i \in few
  <2> SUFFICES ASSUME NEW i \in Ids, row'[i].status \in DoneStatus
               PROVE  i \in few
    OBVIOUS
  <2>1. i \notin Prunable /\ row'[i] = row[i]
    BY DEF Prune, NoRow, DoneStatus
  <2>2. i \in Finished
    BY <2>1 DEF Finished
  <2>3. Cardinality({j \in Finished : j > i}) \in Nat
    BY <1>4, IdSets
  <2> QED BY <2>1, <2>2, <2>3, DeployAssumption DEF Prunable
<1>6. \A i \in Ids : row'[i].status \in OpenStatus => i \in Orphans \cup {id}
  BY <1>2 DEF Prune, NoRow, OpenStatus, Orphans
<1> HIDE DEF few
<1>7. /\ Retained' \subseteq few \cup (Orphans \cup {id})
      /\ Orphans' \subseteq Orphans
  <2>1. Retained' \subseteq few \cup (Orphans \cup {id})
    BY <1>5, <1>6 DEF Retained
  <2>2. Orphans' \subseteq Orphans
    BY <1>2, <1>6 DEF Orphans
  <2> QED BY <2>1, <2>2
<1>8. Cardinality(Retained') <= HistoryLimit + (Cardinality(Orphans) + 1)
  <2>1. /\ Orphans \cup {id} \subseteq Ids /\ Orphans \subseteq Ids
        /\ few \cup (Orphans \cup {id}) \subseteq Ids
    BY <1>4 DEF Orphans
  <2>2. Cardinality(Orphans \cup {id}) <= Cardinality(Orphans) + 1
    BY <2>1, OneMoreId
  <2>3. Cardinality(few \cup (Orphans \cup {id}))
           <= Cardinality(few) + Cardinality(Orphans \cup {id})
    BY <1>4, <2>1, IdUnion
  <2>4. Cardinality(Retained') <= Cardinality(few \cup (Orphans \cup {id}))
    BY <1>7, <2>1, FewerIds
  <2>5. /\ Cardinality(Retained') \in Nat /\ Cardinality(few) \in Nat
        /\ Cardinality(Orphans \cup {id}) \in Nat
        /\ Cardinality(few \cup (Orphans \cup {id})) \in Nat
        /\ HistoryLimit \in Nat /\ Cardinality(Orphans) \in Nat
    <3>1. Retained' \subseteq Ids
      BY DEF Retained
    <3> QED BY <1>4, <2>1, <3>1, IdSets, DeployAssumption
  <2> QED BY <1>4, <2>2, <2>3, <2>4, <2>5
<1>9. Cardinality(Orphans') <= Cardinality(Orphans)
  BY <1>1, <1>7, FewerIds, SizeTypes
<1>10. Cardinality(Orphans') \in Nat /\ Cardinality(Retained') \in Nat
  BY IdSets DEF Orphans, Retained
<1> QED BY <1>1, <1>3, <1>8, <1>9, <1>10, SizeTypes DEF SizeInv

(* A fault, a crash or a failed recovery. *)
LEMMA SizeFaults ==
  ASSUME RowInv, SizeInv, SafeInv',
         Crash \/ \E id \in Ids : StorageFails(id) \/ RecoveryFails(id)
  PROVE  SizeInv'
<1>1. /\ SafeInv /\ row' = row /\ faults \in Nat /\ crashes \in Nat
      /\ faults' + crashes' = faults + crashes + 1
  BY SizeTypes DEF RowInv, Crash, StorageFails, RecoveryFails, ProcessEnds, durable
<1>2. Retained' = Retained
  BY <1>1 DEF Retained
<1>3. Ids = {} \/ \E id \in Ids : Orphans' \subseteq Orphans \cup {id}
  <2>1. CASE \E id \in Ids : StorageFails(id)
    <3>1. PICK id \in Ids : StorageFails(id)
      BY <2>1
    <3>2. \A i \in Ids \ {id} : task'[i] = task[i]
      BY <3>1, TypedState DEF StorageFails, OnError, RowInv
    <3> QED BY <1>1, <3>2 DEF Orphans
  <2>2. CASE Crash \/ \E id \in Ids : RecoveryFails(id)
    <3>1. CASE \E id \in Ids : Live(id)
      <4>1. PICK id \in Ids : Live(id)
        BY <3>1
      <4>2. \A i \in Ids \ {id} : task[i].pc = "idle"
        BY <1>1, <4>1, OnlyLive
      <4> QED BY <1>1, <4>2 DEF Orphans
    <3>2. CASE ~ \E id \in Ids : Live(id)
      BY <1>1, <3>2 DEF Orphans, Live
    <3> QED BY <3>1, <3>2
  <2> QED BY <2>1, <2>2
<1>4. CASE Ids = {}
  <2>1. Orphans' = {} /\ Retained' = {} /\ ~Pruning'
    BY <1>4 DEF Orphans, Retained, Pruning
  <2>2. faults' \in Nat /\ crashes' \in Nat /\ HistoryLimit \in Nat
    BY DeployAssumption DEF SafeInv, TypeOK
  <2> QED BY <2>1, <2>2, FS_EmptySet DEF SizeInv
<1> QED BY <1>1, <1>2, <1>3, <1>4, OrphanLeft

(* Whatever else happens works for no row, or drops finished ones. *)
LEMMA SizeOthers ==
  ASSUME RowInv, SizeInv, SafeInv',
         \/ \E s \in Services, op \in Operations : Acquire(s, op)
         \/ \E id \in Ids : RecoverBegin(id) \/ Daemon(id)
         \/ RefreshBegin \/ RefreshApply \/ CleanupHistory
         \/ Startup \/ Serve \/ EditCompose
         \/ (\E s \in Services : ContainerChanges(s) \/ ManualUp(s))
         \/ UNCHANGED vars
  PROVE  SizeInv'
<1>1. SafeInv /\ UNCHANGED <<faults, crashes>>
  BY DEF RowInv, Acquire, RecoverBegin, Daemon, RefreshBegin, RefreshApply,
    CleanupHistory, Startup, Serve, EditCompose, ContainerChanges, ManualUp, vars, bounds
<1>2. CASE CleanupHistory
  <2>1. task' = task /\ \A i \in Ids : row'[i] = row[i] \/ row'[i] = NoRow
    BY <1>2 DEF CleanupHistory, volatile
  <2>2. Retained' \subseteq Retained
    BY <2>1 DEF Retained, NoRow, OpenStatus, DoneStatus
  <2>3. Orphans' \subseteq Orphans
    BY <2>1 DEF Orphans, NoRow, OpenStatus
  <2>4. Pruning => Pruning'
    BY <2>1 DEF Pruning
  <2> QED BY <1>1, <2>2, <2>3, <2>4, KeepsSize
<1>3. CASE \/ \E s \in Services, op \in Operations : Acquire(s, op)
           \/ \E id \in Ids : RecoverBegin(id)
  <2>1. holder = Free /\ row' = row
    BY <1>3 DEF Acquire, RecoverBegin, TryAcquire, durable
  <2>2. \A i \in Ids : task[i].pc = "idle"
    BY <1>1, <2>1, FreeMeansIdle DEF Live
  <2>3. ~Pruning
    BY <2>2 DEF Pruning
  <2>4. Retained' \subseteq Retained
    BY <2>1 DEF Retained
  <2>5. Orphans' \subseteq Orphans
    BY <2>1, <2>2 DEF Orphans
  <2> QED BY <1>1, <2>3, <2>4, <2>5, KeepsSize
<1>4. CASE UNCHANGED <<row, task>>
  <2>1. Retained' = Retained /\ Orphans' = Orphans /\ (Pruning => Pruning')
    BY <1>4 DEF Retained, Orphans, Pruning
  <2> QED BY <1>1, <2>1, KeepsSize
<1> QED BY <1>2, <1>3, <1>4
        DEF Daemon, RefreshBegin, RefreshApply, Startup, Serve, EditCompose,
            ContainerChanges, ManualUp, vars, volatile, durable

(* A refresh that aborts may be a fault, which leaves no row open. *)
LEMMA SizeAborts ==
  ASSUME RowInv, SizeInv, SafeInv', RefreshAborts
  PROVE  SizeInv'
<1>1. /\ SafeInv /\ UNCHANGED <<row, task, crashes>>
      /\ faults' = faults \/ faults' = faults + 1
  BY DEF RowInv, RefreshAborts
<1>2. Retained' = Retained /\ Orphans' = Orphans /\ (Pruning => Pruning')
  BY <1>1 DEF Retained, Orphans, Pruning
<1>3. CASE faults' = faults
  BY <1>1, <1>2, <1>3, KeepsSize
<1>4. CASE faults' = faults + 1
  BY <1>1, <1>2, <1>4, SizeTypes DEF SizeInv
<1> QED BY <1>1, <1>3, <1>4

LEMMA SizeInit == Init => SizeInv
<1> SUFFICES ASSUME Init PROVE SizeInv
  OBVIOUS
<1>1. Orphans = {} /\ Retained = {} /\ ~Pruning /\ faults = 0 /\ crashes = 0
  BY DEF Init, Orphans, Retained, Pruning, NoRow, IdleTask, OpenStatus, DoneStatus
<1> QED BY <1>1, FS_EmptySet, DeployAssumption DEF SizeInv

LEMMA SizeNext == RowInv /\ HistoryInv /\ SizeInv /\ [Next]_vars => SizeInv'
<1> SUFFICES ASSUME RowInv, HistoryInv, SizeInv, [Next]_vars PROVE SizeInv'
  OBVIOUS
<1>1. SafeInv'
  BY SafeNext DEF RowInv
<1>2. ASSUME NEW id \in Ids, Step(id)
      PROVE  SizeInv'
  BY <1>1, <1>2, SizeSteps, SizeCreate, SizePrune
<1> QED BY <1>1, <1>2, SizeFaults, SizeOthers, SizeAborts DEF Next

-----------------------------------------------------------------------------
(* The invariants of the pipeline.                                          *)

(* The inductive invariant of the pipeline: the control flow, the permit, the  *)
(* rows, the revisions and the override of deployment.rs and storage.rs fit    *)
(* together after every step, crash and fault.                                 *)
THEOREM PipelineFits == Spec => []FullInv
<1>1. Init => FullInv
  BY RowInit, HistoryInit, PlanInit, SizeInit DEF FullInv
<1>2. FullInv /\ [Next]_vars => FullInv'
  BY RowNext, HistoryNext, PlanNext, SizeNext DEF FullInv
<1> QED BY <1>1, <1>2, PTL DEF Spec

(* docker compose up (cmd in compose.rs) never runs on a half-written override: *)
(* the service acted on is at the operation's artifact or at its committed      *)
(* image, and every other managed service at its committed image.               *)
THEOREM UpRunsIsolated == Spec => []UpIsolated
<1>1. FullInv => UpIsolated
  <2> SUFFICES ASSUME FullInv, NEW id \in Ids, task[id].pc \in {"up", "restore_up"}
               PROVE  override = IF /\ task[id].pc = "up"
                                    /\ task[id].op \in {"deploy", "rollback"}
                                 THEN [DbImages(managed) EXCEPT ![task[id].svc] = task[id].img]
                                 ELSE DbImages(managed)
    BY DEF UpIsolated
  <2>1. /\ Live(id)
        /\ task[id].pc = "up" => task[id].op \in {"deploy", "rollback", "recreate"}
    BY PcOps DEF FullInv, RowInv, Live
  <2>2. OnPlan(task[id], DbImages(managed))
    BY <2>1, LiveOnPlan DEF FullInv
  <2> QED BY <2>1, <2>2 DEF OnPlan, CandidatePcs, RestoredPcs
<1> QED BY <1>1, PipelineFits, PTL

(* While the server is idle the override file (write_override in compose.rs)   *)
(* is exactly the committed images of the managed services, unless storage or  *)
(* a file failed.                                                              *)
THEOREM IdleOverrideSettled == Spec => []OverrideSettled
<1>1. FullInv => OverrideSettled
  BY DEF FullInv, PlanInv, SettledAtRest, Settled, OverrideSettled
<1> QED BY <1>1, PipelineFits, PTL

(* rollback_status = succeeded (rollback_outcome in deployment.rs) is true of   *)
(* the container although rollback() passes no expected image ID.               *)
THEOREM RestoreReportedTruly == Spec => []RestoredOnSuccess
<1>1. FullInv => RestoredOnSuccess
  BY DEF FullInv, PlanInv
<1> QED BY <1>1, PipelineFits, PTL

(* Every revision finish_artifact_success records was seen running and healthy *)
(* by the operation that recorded it, a recovered one included.                *)
THEOREM BaselinesVerified == Spec => []VerifiedBaseline
<1>1. FullInv => VerifiedBaseline
  BY DEF FullInv, HistoryInv
<1> QED BY <1>1, PipelineFits, PTL

(* The revisions of a service are in the order its operations started:          *)
(* recover_interrupted commits nothing over something newer.                    *)
THEOREM CommitsInOrder == Spec => []CommitOrder
<1>1. FullInv => CommitOrder
  BY DEF FullInv, HistoryInv
<1> QED BY <1>1, PipelineFits, PTL

(* A row shown as queued or running has a task, or a recovery that will come to *)
(* it, as long as storage does not fail.                                        *)
THEOREM OpenRowsOwned == Spec => []OpenRowOwned
<1>1. FullInv => OpenRowOwned
  BY DEF FullInv, HistoryInv
<1> QED BY <1>1, PipelineFits, PTL

(* However often the pruning of create_deployment is cut off or races with a   *)
(* recovery, the finished rows stay within history_limit, but for one and one  *)
(* for each fault or crash.                                                    *)
THEOREM HistoryStaysBounded == Spec => []HistoryBounded
<1>1. FullInv => HistoryBounded
  <2> SUFFICES ASSUME FullInv
               PROVE  Cardinality(Finished) <= HistoryLimit + 1 + faults + crashes
    BY DEF HistoryBounded, Finished
  <2>1. SafeInv /\ RowInv /\ SizeInv
    BY DEF FullInv, RowInv
  <2>2. Finished \subseteq Retained /\ Finished \subseteq Ids
    BY DEF Finished, Retained
  <2>3. Cardinality(Finished) \in Nat /\ Cardinality(Finished) <= Cardinality(Retained)
    BY <2>1, <2>2, IdSets, FewerIds, SizeTypes
  <2>4. CASE ~Pruning
    BY <2>1, <2>3, <2>4, SizeTypes DEF SizeInv
  <2>5. CASE Pruning
    <3>1. PICK id \in Ids : task[id].pc = "prune"
      BY <2>5 DEF Pruning
    <3>2. row[id].status \in OpenStatus
      BY <2>1, <3>1 DEF RowInv, LiveRowOpen, AfterCommit
    <3>3. Finished \subseteq Retained \ {id} /\ id \in Retained
      BY <2>2, <3>2 DEF Finished, Retained, OpenStatus, DoneStatus
    <3>4. /\ Cardinality(Finished) <= Cardinality(Retained \ {id})
          /\ Cardinality(Retained \ {id}) = Cardinality(Retained) - 1
      BY <2>1, <3>3, IdSets, FewerIds, SizeTypes, FS_RemoveElement
    <3> QED BY <2>1, <2>3, <3>4, SizeTypes DEF SizeInv
  <2> QED BY <2>4, <2>5
<1> QED BY <1>1, PipelineFits, PTL

-----------------------------------------------------------------------------
(* The end of a log that a finished row stores (LogTail).                   *)

LEMMA TextSound ==
  ASSUME NEW text \in Texts
  PROVE  /\ text.len \in Nat
         /\ text.boundaries \subseteq 0 .. text.len
         /\ 0 \in text.boundaries /\ text.len \in text.boundaries
BY TailAssumption DEF Texts, Characters

(* What the loop of truncate_utf8 returns is determined by its own equation. *)
LEMMA AdvanceUnfolds ==
  ASSUME NEW text \in Texts
  PROVE  Advance(text) = [i \in 0 .. text.len |->
                            IF i \in text.boundaries THEN i ELSE Advance(text)[i + 1]]
<1> DEFINE n == text.len
           B == text.boundaries
           Round(f) == [i \in 0 .. n |-> IF i \in B THEN i ELSE f[i + 1]]
           ahead(i) == {y \in B : i <= y}
           first(S) == CHOOSE m \in S : \A y \in S : m <= y
           g == [i \in 0 .. n |-> first(ahead(i))]
<1>1. n \in Nat /\ B \subseteq 0 .. n /\ n \in B
  BY TextSound
<1>2. ASSUME NEW i \in 0 .. n
      PROVE  g[i] = IF i \in B THEN i ELSE g[i + 1]
  <2>1. CASE i \in B
    <3>1. i \in ahead(i) /\ \A y \in ahead(i) : i <= y
      BY <2>1
    <3>2. \A m \in ahead(i) : (\A y \in ahead(i) : m <= y) => m = i
      BY <1>1, <3>1
    <3>3. first(ahead(i)) = i
      BY <3>1, <3>2
    <3> QED BY <2>1, <3>3
  <2>2. CASE i \notin B
    <3>1. i + 1 \in 0 .. n
      BY <1>1, <2>2
    <3>2. ahead(i) = ahead(i + 1)
      BY <1>1, <2>2
    <3> QED BY <2>2, <3>1, <3>2
  <2> QED BY <2>1, <2>2
<1>3. g = Round(g)
  <2>1. g = [i \in 0 .. n |-> g[i]]
    OBVIOUS
  <2> HIDE DEF g
  <2> QED BY <1>2, <2>1
<1>4. Advance(text) = CHOOSE f : f = Round(f)
  BY DEF Advance
<1> HIDE DEF g, Round
<1>5. Advance(text) = Round(Advance(text))
  BY <1>3, <1>4
<1> QED BY <1>5 DEF Round

(* It is the first boundary that is not before the offset it starts from. *)
LEMMA AdvanceFirst ==
  ASSUME NEW text \in Texts, NEW i \in 0 .. text.len
  PROVE  /\ Advance(text)[i] \in text.boundaries
         /\ i <= Advance(text)[i]
         /\ \A b \in text.boundaries : i <= b => Advance(text)[i] <= b
<1> DEFINE n == text.len
           B == text.boundaries
<1>1. PICK f : f = Advance(text)
  OBVIOUS
<1> DEFINE First(j) == f[j] \in B /\ j <= f[j] /\ \A b \in B : j <= b => f[j] <= b
           T == {d \in 0 .. n : ~First(n - d)}
<1>2. n \in Nat /\ B \subseteq 0 .. n /\ n \in B
  BY TextSound
<1>3. \A j \in 0 .. n : f[j] = IF j \in B THEN j ELSE f[j + 1]
  BY <1>1, AdvanceUnfolds
<1>4. ASSUME T # {}
      PROVE  FALSE
  <2>1. PICK d \in T : \A e \in T : d <= e
    <3>1. T \subseteq Nat
      BY <1>2
    <3> HIDE DEF T
    <3> QED BY <1>4, <3>1, LeastElement
  <2>2. PICK j : j = n - d
    OBVIOUS
  <2>3. j \in 0 .. n /\ ~First(j)
    BY <1>2, <2>1, <2>2
  <2>4. j \notin B
    BY <1>2, <1>3, <2>3
  <2>5. j + 1 \in 0 .. n /\ f[j] = f[j + 1]
    BY <1>2, <1>3, <2>3, <2>4
  <2>6. d - 1 \in 0 .. n /\ n - (d - 1) = j + 1 /\ d - 1 \notin T
    BY <1>2, <2>1, <2>2, <2>5
  <2>7. First(j + 1)
    BY <2>6
  <2> QED BY <1>2, <2>3, <2>4, <2>5, <2>7
<1>5. n - i \in 0 .. n /\ n - (n - i) = i
  BY <1>2
<1>6. First(i)
  BY <1>4, <1>5
<1> QED BY <1>1, <1>6

(* truncate_utf8 keeps the longest end that begins at a character and fits. *)
LEMMA CutSound ==
  ASSUME NEW text \in Texts, NEW max \in Limits
  PROVE  /\ truncate_utf8(text, max) \in text.boundaries
         /\ text.len - truncate_utf8(text, max) <= max
         /\ \A b \in text.boundaries :
               b < truncate_utf8(text, max) => text.len - b > max
<1>1. /\ text.len \in Nat /\ text.boundaries \subseteq 0 .. text.len
      /\ 0 \in text.boundaries /\ max \in Nat \ {0}
  BY TextSound, TailAssumption
<1>2. CASE text.len <= max
  BY <1>1, <1>2 DEF truncate_utf8
<1>3. CASE ~(text.len <= max)
  <2>1. text.len - max \in 0 .. text.len
    BY <1>1, <1>3
  <2>2. PICK a : a = Advance(text)[text.len - max]
    OBVIOUS
  <2>3. /\ a \in text.boundaries /\ text.len - max <= a
        /\ \A b \in text.boundaries : text.len - max <= b => a <= b
    BY <2>1, <2>2, AdvanceFirst
  <2>4. truncate_utf8(text, max) = a
    BY <1>3, <2>2 DEF truncate_utf8
  <2> QED BY <1>1, <2>3, <2>4
<1> QED BY <1>2, <1>3

(* truncate_utf8 (storage.rs) keeps as much of the end of a log as it may: for  *)
(* every text, of any length, what a finished row stores begins at a character, *)
(* fits the limit, and no longer end of the log does.                           *)
THEOREM TailIsLongest == Spec => []TailLongest
<1>1. ASSUME NEW cut \in Cuts
      PROVE  /\ Start(cut) \in cut.text.boundaries
             /\ ~(cut.text.len - Start(cut) > cut.max)
             /\ \A b \in cut.text.boundaries :
                   ~(b < Start(cut) /\ cut.text.len - b <= cut.max)
  <2>1. PICK text \in Texts, max \in Limits : cut.text = text /\ cut.max = max
    BY DEF Cuts
  <2>2. PICK start : start = truncate_utf8(text, max)
    OBVIOUS
  <2>3. /\ text.len \in Nat /\ text.boundaries \subseteq 0 .. text.len
        /\ max \in Nat
    BY TextSound, TailAssumption
  <2>4. /\ start \in text.boundaries /\ text.len - start <= max
        /\ \A b \in text.boundaries : b < start => text.len - b > max
    BY <2>2, CutSound
  <2>5. Start(cut) = start
    BY <2>1, <2>2 DEF Start
  <2> QED BY <2>1, <2>3, <2>4, <2>5
<1>2. Misplaced = {} /\ TooShort = {}
  BY <1>1 DEF Misplaced, TooShort
<1>3. TailLongest
  BY <1>2 DEF TailLongest
<1> QED BY <1>3, PTL
=============================================================================
