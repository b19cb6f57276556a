--------------------------- MODULE DeployInvariant ---------------------------
(***************************************************************************)
(* The inductive invariant of Deploy: what the proofs of DeployProofs      *)
(* carry from step to step, each part named for what it says.              *)
(***************************************************************************)
EXTENDS Deploy

RestorePcs  == {"restore", "restore_up", "restore_check"}
ArtifactPcs == {"target", "pin", "starting", "up", "checking", "check",
                "committing", "commit"}

(* The program points an operation of each kind can be at. *)
OpPcs(op) ==
    CASE op = "none"     -> {"idle"}
      [] op = "deploy"   -> HandlerPcs \cup {"queued", "stage", "pulling", "pull"}
                              \cup ArtifactPcs \cup {"rebuild"} \cup RestorePcs
                              \cup {"fail", "end"}
      [] op = "rollback" -> HandlerPcs \cup {"queued"} \cup ArtifactPcs
                              \cup RestorePcs \cup {"fail", "end"}
      [] op = "recreate" -> HandlerPcs \cup {"queued", "rebuild", "up", "check",
                                             "finish", "fail", "end"}
      [] op = "stop"     -> HandlerPcs \cup {"queued", "stop", "finish", "fail",
                                             "end"}
      [] op = "down"     -> HandlerPcs \cup {"queued", "down", "finish", "fail",
                                             "end"}
      [] op = "recover"  -> {"inspect", "commit", "rebuild", "fail", "end"}
                              \cup RestorePcs

(* Where an operation of each kind has its artifact in hand. *)
ImagePcs(op) ==
    CASE op = "deploy"   -> ArtifactPcs
      [] op = "rollback" -> ArtifactPcs \cup {"create", "prune", "queued"}
      [] op = "recover"  -> {"commit"}
      [] OTHER           -> {}

(* The control flow of a task is that of its operation, on a service of the *)
(* project, with an artifact once it has one.                               *)
GoodTask(t) ==
    /\ t.pc \in OpPcs(t.op)
    /\ t.pc \notin {"idle", "fail", "end"} => t.svc \in Services
    /\ t.pc \in ImagePcs(t.op) => t.img \in Images

ControlOK == \A id \in Ids : GoodTask(task[id])

(* Ids are handed out in order; a handler that has no row yet works on the    *)
(* next id, everything else on an older one.                                  *)
FreshIds ==
    /\ \A id \in Ids : id >= nextId => row[id] = NoRow
    /\ \A id \in Ids : task[id].pc \in {"admit", "create"} => id = nextId
    /\ \A s \in Services : \A k \in DOMAIN revs[s] : revs[s][k].dep < nextId

(* Recovery works on rows that its start found open, and only then. *)
RecoveryOK ==
    /\ todo # {} => mode = "recovering"
    /\ mode = "down" => holder = Free
    /\ \A id \in todo : \/ row[id].status \in OpenStatus
                        \/ task[id].pc \in {"rebuild", "end"}
    /\ \A id \in Ids : task[id].op = "recover" => id \in todo
    /\ mode = "recovering" =>
          \A id \in Ids : task[id].op \in {"none", "recover"}

SafeInv ==
    /\ TypeOK
    /\ ControlOK
    /\ PermitExclusive

(* The rows, the ids, recovery and the revisions fit together. *)
RowInv ==
    /\ SafeInv
    /\ FreshIds
    /\ RecoveryOK
    /\ LiveRowOpen
    /\ OpenRowUncommitted
    /\ BaselineIsNewest

-----------------------------------------------------------------------------
(* History: which rows are open, in which order they commit, and what was seen *)
(* running before.                                                             *)

(* A row is closed by the step that commits it, and without faults also before *)
(* its task ends.                                                              *)
ClosedAtEnd ==
    /\ \A id \in Ids : AfterCommit(id) => row[id].status \notin OpenStatus
    /\ faults = 0 =>
          \A id \in Ids : task[id].pc = "end" => row[id].status \notin OpenStatus

(* Without faults only the last operation can be open. *)
OpenIsLast ==
    faults = 0 =>
        \A id \in Ids : row[id].status \in OpenStatus => id = nextId - 1

(* What is about to be committed was seen running and healthy. *)
InHandVerified ==
    \A id \in Ids : task[id].pc \in {"committing", "commit"} =>
        task[id].img \in verified[id]

HistoryInv ==
    /\ OpenRowOwned
    /\ ClosedAtEnd
    /\ OpenIsLast
    /\ CommitOrder
    /\ InHandVerified
    /\ VerifiedBaseline

-----------------------------------------------------------------------------
(* The plan: what the override names at each point of an operation.         *)

Settled == override = DbImages(managed)
Candidate(id) ==
    override = [DbImages(managed) EXCEPT ![task[id].svc] = task[id].img]

(* Where a deploy has staged and not yet pinned, and where the override names  *)
(* the operation's artifact.                                                   *)
StagedPcs == {"pulling", "pull", "target", "pin"}
CandidatePcs(op) ==
    CASE op = "deploy"   -> {"starting", "up", "checking", "check", "committing",
                             "commit"}
      [] op = "rollback" -> {"up", "checking", "check", "committing", "commit"}
      [] OTHER           -> {}

(* Where it names the committed images whatever failed before, and where it    *)
(* does so unless storage or a file failed.                                    *)
RestoredPcs(op) ==
    {"restore_up", "restore_check"} \cup (IF op = "recreate" THEN {"up"} ELSE {})
SettledPcs(op) ==
    CASE op = "deploy"   -> HandlerPcs \cup {"queued", "stage", "fail", "end"}
      [] op = "rollback" -> HandlerPcs \cup {"queued", "starting", "target", "pin",
                                             "fail", "end"}
      [] op = "recover"  -> {"inspect", "commit", "fail", "end"}
      [] OTHER           -> Pcs

(* A task works on the project as the process knows it, and a deploy that has *)
(* staged holds the committed images.                                         *)
ProjectKept ==
    \A id \in Ids : Live(id) =>
        /\ task[id].services = managed
        /\ task[id].pc \notin {"fail", "end"} => task[id].svc \in managed
        /\ task[id].op = "deploy" /\ task[id].pc \in StagedPcs =>
              task[id].images = DbImages(managed)

OverridePlanned ==
    \A id \in Ids : Live(id) =>
        /\ task[id].pc \in CandidatePcs(task[id].op) => Candidate(id)
        /\ task[id].pc \in RestoredPcs(task[id].op) => Settled
        /\ faults = 0 /\ task[id].pc \in SettledPcs(task[id].op) => Settled

SettledAtRest ==
    (faults = 0 /\ mode # "down" /\ holder \in {Free, Refresher}) => Settled

(* A restored service that docker has been asked to bring up runs its          *)
(* committed image, until somebody replaces the container; what is restored is *)
(* a service of the project, even where recovery can close a row without one.  *)
RestoreSeen ==
    manual = 0 =>
        \A id \in Ids :
            /\ task[id].pc = "restore_check" =>
                  container[task[id].svc].img = DbImages(managed)[task[id].svc]
            /\ task[id].pc = "fail" /\ task[id].rb = "succeeded" =>
                  task[id].svc \in Services

PlanInv ==
    /\ ProjectKept
    /\ OverridePlanned
    /\ SettledAtRest
    /\ RestoreSeen
    /\ RestoredOnSuccess

-----------------------------------------------------------------------------
(* The size of the history.                                                   *)

Retained == {id \in Ids : row[id].status \in OpenStatus \cup DoneStatus}

(* Open rows that nothing works for: a fault or a crash left each of them.     *)
Orphans == {id \in Ids : row[id].status \in OpenStatus /\ task[id].pc \in {"idle", "end"}}

Pruning == \E id \in Ids : task[id].pc = "prune"

SizeInv ==
    /\ Cardinality(Orphans) <= faults + crashes
    /\ Cardinality(Retained) <=
          HistoryLimit + 1 + faults + crashes + (IF Pruning THEN 1 ELSE 0)

(* The control flow, the permit, the ids, recovery, the rows, the revisions    *)
(* and the override fit together after every step, crash and fault: a live     *)
(* operation has its open row, an open row has no revision (so that recovery's *)
(* insert never hits the UNIQUE deployment_id and makes every start fail),     *)
(* service_state is the newest revision, what is committed was seen running,   *)
(* and the override is the plan of the point the operation is at.              *)
FullInv ==
    /\ RowInv
    /\ HistoryInv
    /\ PlanInv
    /\ SizeInv

-----------------------------------------------------------------------------
Log == INSTANCE BaselineLog
         WITH next <- nextId, open <- ActiveDeployments, log <- revs

(* The pipeline implements the log of baselines: every step of every action,   *)
(* crash and recovery opens, commits or closes one operation, or changes       *)
(* nothing that BaselineLog can see.                                           *)
ImplementsBaselineLog == Log!AbsSpec
=============================================================================
