------------------------------- MODULE Deploy -------------------------------
(***************************************************************************)
(* One Compose project managed by windplume-deploy: the deployment,        *)
(* rollback and lifecycle pipelines of src/src/deployment.rs, the SQLite   *)
(* rows they write (src/src/storage.rs), the generated image override, the *)
(* containers, the one-permit project lock, and the recovery run at every  *)
(* process start.  A step is one awaited call of the code, so a crash, a   *)
(* storage fault or another handler can fall between any two calls.        *)
(*                                                                         *)
(* An image artifact (image, pinned image, digest and image ID) is one     *)
(* element of Images.  Reference values that are not artifacts:            *)
(*   Base  the image the base Compose files name (no override entry)       *)
(*   Tag   the mutable repository:tag reference written before a pull      *)
(*   None  no artifact recorded / no container                             *)
(***************************************************************************)
EXTENDS Integers, Sequences, FiniteSets

CONSTANTS
    Services,      \* service names of the Compose project
    Images,        \* immutable artifacts (repository@sha256:...)
    Base, Tag, None,
    HistoryLimit,  \* storage.history_limit
    MaxOps,        \* bound: operations created
    MaxCrashes,    \* bound: process deaths
    MaxFaults,     \* bound: storage / file errors and client disconnects
    MaxEdits,      \* bound: edits of the Compose files
    MaxManual      \* bound: containers replaced by hand

ASSUME DeployAssumption ==
    /\ Services # {}
    /\ MaxOps \in Nat /\ HistoryLimit \in Nat
    /\ MaxCrashes \in Nat /\ MaxFaults \in Nat
    /\ MaxEdits \in Nat /\ MaxManual \in Nat
    /\ Base \notin Images /\ Tag \notin Images /\ None \notin Images
    /\ Base # Tag /\ Base # None /\ Tag # None

VARIABLES
    (* durable: SQLite, the override file, the Compose files, containers *)
    row,          \* deployments joined with deployment_artifacts, by id
    nextId,       \* the next operation id (ids follow started_at)
    committed,    \* service_state
    revs,         \* service_revisions of each service, oldest first
    override,     \* compose.deploy.yaml: image reference of each service
    composeFile,  \* services with an image in the user's Compose files
    container,    \* what docker runs for each service
    (* volatile: lost when the process dies *)
    mode,         \* "down", "recovering" or "serving"
    holder,       \* who holds deploy_lock
    task,         \* the request handler and task of each operation
    managed,      \* Compose::cfg services, the process's view of the project
    candidate,    \* what a running Compose refresh resolved
    todo,         \* recover_interrupted: operations not yet examined
    (* bounds and history *)
    crashes, faults, edits, manual,
    verified      \* images each operation saw running and healthy

durable  == <<row, nextId, committed, revs, override, composeFile, container>>
volatile == <<mode, holder, task, managed, candidate, todo>>
bounds   == <<crashes, faults, edits, manual>>
vars     == <<durable, volatile, bounds, verified>>

-----------------------------------------------------------------------------
Ids       == 1 .. MaxOps
Free      == 0          \* deploy_lock has its permit
Refresher == -1         \* refresh_compose holds the permit

Lifecycle   == {"recreate", "stop", "down"}
Operations  == {"deploy", "rollback"} \cup Lifecycle
OpenStatus  == {"queued", "running"}
DoneStatus  == {"succeeded", "failed", "interrupted"}
Outcomes    == {"null", "not_needed", "succeeded", "failed", "unavailable"}
Phases      == {"queued", "pulling", "starting", "checking", "committing",
                "committed"}

HandlerPcs  == {"admit", "create", "prune"}
CommandPcs  == {"pull", "up", "check", "restore_up", "restore_check", "stop",
                "down"}
StoragePcs  == {"queued", "stage", "pulling", "target", "pin", "starting",
                "checking", "committing", "commit", "rebuild", "restore",
                "finish", "fail"}
TaskPcs     == CommandPcs \cup StoragePcs \cup {"inspect"}
Pcs         == HandlerPcs \cup TaskPcs \cup {"idle", "end"}

NoImages    == [s \in Services |-> Base]
NoBaseline  == [img |-> Base, dep |-> 0]
NoRow       == [svc |-> None, op |-> "none", status |-> "absent",
                phase |-> "queued", target |-> None, rb |-> "null"]
IdleTask    == [pc |-> "idle", op |-> "none", svc |-> None, services |-> {},
                images |-> NoImages, img |-> None, rb |-> "null"]

(* Definitions named Faulty... are plausible mistakes in the definition that   *)
(* follows them; nothing uses them except the mutation runs.                   *)
FaultyActiveRunningOnly == {i \in Ids : row[i].status = "running"}
ActiveDeployments == {i \in Ids : row[i].status \in OpenStatus}

Finished == {i \in Ids : row[i].status \in DoneStatus}

Live(id) == task[id].pc # "idle"

(* images_from_db: the committed image of each service the project manages *)
DbImages(services) ==
    [s \in Services |-> IF s \in services THEN committed[s].img ELSE Base]

Dep(s)      == {revs[s][k].dep : k \in DOMAIN revs[s]}
(* previous_revision: positions of the revisions that are not the current one *)
Earlier(s)  == {k \in DOMAIN revs[s] : revs[s][k].dep # committed[s].dep}

FaultyTryAcquire(owner) == holder' = owner
TryAcquire(owner) == holder = Free /\ holder' = owner

Goto(id, pc) == task' = [task EXCEPT ![id].pc = pc]

-----------------------------------------------------------------------------
Init ==
    /\ row = [i \in Ids |-> NoRow] /\ nextId = 1
    /\ committed = [s \in Services |-> NoBaseline]
    /\ revs = [s \in Services |-> <<>>]
    /\ override = NoImages
    /\ composeFile = Services
    /\ \E c \in {[img |-> Base, st |-> "ok"], [img |-> None, st |-> "off"]} :
          container = [s \in Services |-> c]
    /\ mode = "down" /\ holder = Free
    /\ task = [i \in Ids |-> IdleTask]
    /\ managed = {} /\ candidate = {} /\ todo = {}
    /\ crashes = 0 /\ faults = 0 /\ edits = 0 /\ manual = 0
    /\ verified = [i \in Ids |-> {}]

-----------------------------------------------------------------------------
(* Request handlers: enqueue, enqueue_rollback, enqueue_lifecycle.          *)

(* try_acquire_owned, then the project is cloned and the service looked up. *)
Acquire(s, op) ==
    /\ mode = "serving" /\ nextId \in Ids
    /\ TryAcquire(nextId)
    /\ s \in managed
    /\ task' = [task EXCEPT ![nextId] =
                  [IdleTask EXCEPT !.pc = "admit", !.op = op, !.svc = s,
                                   !.services = managed]]
    /\ UNCHANGED <<durable, mode, managed, candidate, todo, bounds, verified>>

(* The version exists / the previous revision is read; otherwise Reject. *)
Admit(id) ==
    /\ task[id].pc = "admit"
    /\ LET s == task[id].svc IN
         IF task[id].op = "rollback"
         THEN /\ committed[s].dep # 0
              /\ \E k \in Earlier(s) :
                    /\ \A j \in Earlier(s) : j <= k
                    /\ task' = [task EXCEPT ![id].pc = "create",
                                            ![id].img = revs[s][k].img]
         ELSE Goto(id, "create")
    /\ UNCHANGED <<durable, mode, holder, managed, candidate, todo, bounds,
                   verified>>

Reject(id) ==
    /\ task[id].pc = "admit"
    /\ task[id].op \notin Lifecycle
    /\ Goto(id, "end")
    /\ UNCHANGED <<durable, mode, holder, managed, candidate, todo, bounds,
                   verified>>

(* create_deployment, its transaction. *)
Create(id) ==
    /\ task[id].pc = "create"
    /\ row' = [row EXCEPT ![id] =
                 [NoRow EXCEPT !.svc = task[id].svc, !.op = task[id].op,
                               !.status = "queued"]]
    /\ nextId' = id + 1
    /\ Goto(id, "prune")
    /\ UNCHANGED <<committed, revs, override, composeFile, container, mode,
                   holder, managed, candidate, todo, bounds, verified>>

(* create_deployment, the prune after the commit; then the task is spawned. *)
FaultyPrunable == {i \in Finished :
                     Cardinality({j \in Finished : j > i}) > HistoryLimit}
Prunable == {i \in Finished :
               Cardinality({j \in Finished : j > i}) >= HistoryLimit}

Prune(id) ==
    /\ task[id].pc = "prune"
    /\ row' = [i \in Ids |-> IF i \in Prunable THEN NoRow ELSE row[i]]
    /\ Goto(id, "queued")
    /\ UNCHANGED <<nextId, committed, revs, override, composeFile, container,
                   mode, holder, managed, candidate, todo, bounds, verified>>

-----------------------------------------------------------------------------
(* Tasks: run, run_revision, run_lifecycle.                                 *)

FirstPc(op) == CASE op = "deploy"   -> "stage"
                 [] op = "rollback" -> "starting"
                 [] op = "recreate" -> "rebuild"
                 [] OTHER           -> op

MarkRunning(id) ==
    /\ task[id].pc = "queued"
    /\ row' = [row EXCEPT ![id].status = IF @ = "queued" THEN "running" ELSE @]
    /\ Goto(id, FirstPc(task[id].op))
    /\ UNCHANGED <<nextId, committed, revs, override, composeFile, container,
                   mode, holder, managed, candidate, todo, bounds, verified>>

(* deploy_candidate writes the override with the mutable tag. *)
Stage(id) ==
    /\ task[id].pc = "stage"
    /\ LET images == DbImages(task[id].services) IN
         /\ override' = [images EXCEPT ![task[id].svc] = Tag]
         /\ task' = [task EXCEPT ![id].pc = "pulling", ![id].images = images]
    /\ UNCHANGED <<row, nextId, committed, revs, composeFile, container, mode,
                   holder, managed, candidate, todo, bounds, verified>>

AfterPhase(op, phase) ==
    CASE phase = "pulling"    -> "pull"
      [] phase = "starting"   -> IF op = "deploy" THEN "up" ELSE "target"
      [] phase = "checking"   -> "check"
      [] phase = "committing" -> "commit"

(* set_phase; the pc is the phase about to be recorded. *)
RecordPhase(id) ==
    /\ task[id].pc \in {"pulling", "starting", "checking", "committing"}
    /\ row' = [row EXCEPT ![id].phase = task[id].pc]
    /\ Goto(id, AfterPhase(task[id].op, task[id].pc))
    /\ UNCHANGED <<nextId, committed, revs, override, composeFile, container,
                   mode, holder, managed, candidate, todo, bounds, verified>>

(* pull and image_artifact: the registry decides what the tag names. *)
Pull(id) ==
    /\ task[id].pc = "pull"
    /\ \E img \in Images :
         task' = [task EXCEPT ![id].pc = "target", ![id].img = img]
    /\ UNCHANGED <<durable, mode, holder, managed, candidate, todo, bounds,
                   verified>>

RecordTarget(id) ==
    /\ task[id].pc = "target"
    /\ row' = [row EXCEPT ![id].target = task[id].img]
    /\ Goto(id, "pin")
    /\ UNCHANGED <<nextId, committed, revs, override, composeFile, container,
                   mode, holder, managed, candidate, todo, bounds, verified>>

(* The override names the immutable artifact; a deploy reuses the images it *)
(* read when it staged, a rollback reads them here.                         *)
Pin(id) ==
    /\ task[id].pc = "pin"
    /\ LET deploy == task[id].op = "deploy"
           images == IF deploy THEN task[id].images
                               ELSE DbImages(task[id].services)
       IN /\ override' = [images EXCEPT ![task[id].svc] = task[id].img]
          /\ Goto(id, IF deploy THEN "starting" ELSE "up")
    /\ UNCHANGED <<row, nextId, committed, revs, composeFile, container, mode,
                   holder, managed, candidate, todo, bounds, verified>>

-----------------------------------------------------------------------------
(* docker compose up / stop / rm.  The daemon acts while the command runs,  *)
(* so a command that fails or is killed may have acted in part.             *)
Daemon(id) ==
    /\ LET s == task[id].svc
           gone == [img |-> None, st |-> "off"]
       IN container' \in
            {[container EXCEPT ![s] = c] : c \in
               CASE task[id].pc \in {"up", "restore_up"} ->
                      IF s \in composeFile \/ override[s] # Base
                      THEN {gone} \cup [img : {override[s]}, st : {"ok", "bad"}]
                      ELSE {}
                 [] task[id].pc = "stop" -> {[container[s] EXCEPT !.st = "off"]}
                 [] task[id].pc = "down" ->
                      {[container[s] EXCEPT !.st = "off"], gone}
                 [] OTHER -> {}}
    /\ UNCHANGED <<row, nextId, committed, revs, override, composeFile,
                   volatile, bounds, verified>>

Up(id) ==
    /\ task[id].pc \in {"up", "restore_up"}
    /\ container[task[id].svc].img = override[task[id].svc]
    /\ container[task[id].svc].st # "off"
    /\ Goto(id, CASE task[id].pc = "restore_up"  -> "restore_check"
                  [] task[id].op = "recreate"    -> "check"
                  [] OTHER                       -> "checking")
    /\ UNCHANGED <<durable, mode, holder, managed, candidate, todo, bounds,
                   verified>>

StopOrDown(id) ==
    /\ task[id].pc \in {"stop", "down"}
    /\ container[task[id].svc].st = "off"
    /\ task[id].pc = "down" => container[task[id].svc].img = None
    /\ Goto(id, "finish")
    /\ UNCHANGED <<durable, mode, holder, managed, candidate, todo, bounds,
                   verified>>

(* wait_healthy_image; only deploy and rollback pass an expected image ID. *)
Check(id) ==
    /\ task[id].pc = "check"
    /\ LET c == container[task[id].svc]
           lifecycle == task[id].op = "recreate"
       IN /\ c.st = "ok"
          /\ lifecycle \/ c.img = task[id].img
          /\ Goto(id, IF lifecycle THEN "finish" ELSE "committing")
          /\ verified' = IF lifecycle \/ c.img \notin Images THEN verified
                         ELSE [verified EXCEPT ![id] = @ \cup {c.img}]
    /\ UNCHANGED <<durable, mode, holder, managed, candidate, todo, bounds>>

(* finish_artifact_success: one transaction over service_state,              *)
(* deployments, deployment_artifacts and service_revisions, whose            *)
(* deployment_id is UNIQUE.                                                  *)
FaultyRecordLatest(s, b) ==
    /\ committed' = [committed EXCEPT ![s] = b]
    /\ revs' = [revs EXCEPT ![s] = <<b>>]
RecordBaseline(s, b) ==
    /\ committed' = [committed EXCEPT ![s] = b]
    /\ revs' = [revs EXCEPT ![s] = Append(@, b)]

FaultyCommittedRow(r) == [r EXCEPT !.phase = "committed", !.rb = "not_needed"]
CommittedRow(r) == [r EXCEPT !.status = "succeeded", !.phase = "committed",
                             !.rb = "not_needed"]

Commit(id) ==
    /\ task[id].pc = "commit"
    /\ \A s \in Services : id \notin Dep(s)
    /\ RecordBaseline(task[id].svc, [img |-> task[id].img, dep |-> id])
    /\ row' = [row EXCEPT ![id] = CommittedRow(@)]
    /\ Goto(id, IF task[id].op = "rollback" THEN "end" ELSE "rebuild")
    /\ UNCHANGED <<nextId, override, composeFile, container, mode, holder,
                   managed, candidate, todo, bounds, verified>>

(* rebuild_project_override: after a deploy or a recovered deploy committed, *)
(* and before a recreate.                                                    *)
Rebuild(id) ==
    /\ task[id].pc = "rebuild"
    /\ override' = DbImages(task[id].services)
    /\ Goto(id, IF task[id].op = "recreate" THEN "up" ELSE "end")
    /\ UNCHANGED <<row, nextId, committed, revs, composeFile, container, mode,
                   holder, managed, candidate, todo, bounds, verified>>

(* rollback(): the committed override, up, and a health check without an     *)
(* expected image ID.  Up above is its middle step.                          *)
Restore(id) ==
    /\ task[id].pc = "restore"
    /\ override' = DbImages(task[id].services)
    /\ Goto(id, "restore_up")
    /\ UNCHANGED <<row, nextId, committed, revs, composeFile, container, mode,
                   holder, managed, candidate, todo, bounds, verified>>

RestoreCheck(id) ==
    /\ task[id].pc = "restore_check"
    /\ container[task[id].svc].st = "ok"
    /\ task' = [task EXCEPT ![id].pc = "fail", ![id].rb = "succeeded"]
    /\ UNCHANGED <<durable, mode, holder, managed, candidate, todo, bounds,
                   verified>>

ClosedRow(r, status, rb) == [r EXCEPT !.status = status, !.rb = rb]

(* finish_operation_success *)
FinishSuccess(id) ==
    /\ task[id].pc = "finish"
    /\ row' = [row EXCEPT ![id] = ClosedRow(@, "succeeded", "not_needed")]
    /\ Goto(id, "end")
    /\ UNCHANGED <<nextId, committed, revs, override, composeFile, container,
                   mode, holder, managed, candidate, todo, bounds, verified>>

(* finish_failure, or finish_interrupted when recovery closes the row. *)
FinishFailure(id) ==
    /\ task[id].pc = "fail"
    /\ LET status == IF task[id].op = "recover" THEN "interrupted" ELSE "failed"
       IN row' = [row EXCEPT ![id] = ClosedRow(@, status, task[id].rb)]
    /\ Goto(id, "end")
    /\ UNCHANGED <<nextId, committed, revs, override, composeFile, container,
                   mode, holder, managed, candidate, todo, bounds, verified>>

(* The handler or task returns and its permit is dropped. *)
FaultyEndKeepsPermit(id) ==
    /\ task[id].pc = "end"
    /\ task' = [task EXCEPT ![id] = IdleTask]
    /\ todo' = todo \ {id}
    /\ UNCHANGED <<durable, mode, holder, managed, candidate, bounds, verified>>

End(id) ==
    /\ task[id].pc = "end"
    /\ task' = [task EXCEPT ![id] = IdleTask]
    /\ holder' = Free
    /\ todo' = todo \ {id}
    /\ UNCHANGED <<durable, mode, managed, candidate, bounds, verified>>

-----------------------------------------------------------------------------
(* Failures of a call.                                                      *)

(* A deploy or rollback that fails before it is committed runs rollback(). *)
FaultyRecourseNone    == [pc |-> "fail", rb |-> "unavailable"]
FaultyRecourseForget  == [pc |-> "end", rb |-> "null"]
FaultyRecourseNoUp    == [pc |-> "restore_check", rb |-> "null"]
FaultyRecourseNoFile  == [pc |-> "restore_up", rb |-> "null"]
FaultyRecourseProceed == [pc |-> "committing", rb |-> "null"]
Recourse == [pc |-> "restore", rb |-> "null"]

(* rollback_outcome *)
FaultyRestoreFailed == [pc |-> "fail", rb |-> "error"]
RestoreFailed == [pc |-> "fail", rb |-> "failed"]

(* Where an error is handled, and the rollback_status it leads to. *)
Handled(op, pc) ==
    IF pc \in HandlerPcs \cup {"queued", "finish", "fail"}
      THEN [pc |-> "end", rb |-> "null"]
    ELSE IF pc \in {"restore", "restore_up", "restore_check"} THEN RestoreFailed
    ELSE IF op \in Lifecycle THEN [pc |-> "fail", rb |-> "unavailable"]
    ELSE IF op = "rollback" /\ pc = "committing" THEN [pc |-> "commit", rb |-> "null"]
    ELSE IF pc = "rebuild" THEN [pc |-> "end", rb |-> "null"]
    ELSE Recourse

OnError(id) ==
    LET h == Handled(task[id].op, task[id].pc)
    IN task' = [task EXCEPT ![id].pc = h.pc, ![id].rb = h.rb]

(* A docker command fails, times out or reports an unusable container. *)
CommandFails(id) ==
    /\ task[id].pc \in CommandPcs
    /\ OnError(id)
    /\ UNCHANGED <<durable, mode, holder, managed, candidate, todo, bounds,
                   verified>>

(* A storage or file error; in a handler also a client that disconnects,     *)
(* which drops the handler's future.  Recovery handles none but rollback()'s. *)
StorageFails(id) ==
    /\ faults < MaxFaults
    /\ task[id].pc \in HandlerPcs \cup StoragePcs
    /\ task[id].op = "recover" => task[id].pc = "restore"
    /\ OnError(id)
    /\ faults' = faults + 1
    /\ UNCHANGED <<durable, mode, holder, managed, candidate, todo, crashes,
                   edits, manual, verified>>

-----------------------------------------------------------------------------
(* refresh_compose                                                          *)

RefreshBegin ==
    /\ mode = "serving"
    /\ TryAcquire(Refresher)
    /\ candidate' = composeFile
    /\ UNCHANGED <<durable, mode, task, managed, todo, bounds, verified>>

RefreshApply ==
    /\ holder = Refresher
    /\ override' = DbImages(candidate)
    /\ managed' = candidate
    /\ holder' = Free /\ candidate' = {}
    /\ UNCHANGED <<row, nextId, committed, revs, composeFile, container, mode,
                   task, todo, bounds, verified>>

(* Resolving fails, or the handler is dropped once the override is renamed. *)
RefreshAborts ==
    /\ holder = Refresher
    /\ \/ UNCHANGED <<override, faults>>
       \/ /\ faults < MaxFaults /\ faults' = faults + 1
          /\ override' = DbImages(candidate)
    /\ holder' = Free /\ candidate' = {}
    /\ UNCHANGED <<row, nextId, committed, revs, composeFile, container, mode,
                   task, managed, todo, crashes, edits, manual, verified>>

(* delete_deployments_before: needs no permit. *)
CleanupHistory ==
    /\ mode = "serving"
    /\ \E cutoff \in Ids :
         LET old == {i \in Finished : i <= cutoff} IN
         /\ old # {}
         /\ row' = [i \in Ids |-> IF i \in old THEN NoRow ELSE row[i]]
    /\ UNCHANGED <<nextId, committed, revs, override, composeFile, container,
                   volatile, bounds, verified>>

-----------------------------------------------------------------------------
(* Process start: main, rebuild_override, recover_interrupted.              *)

Startup ==
    /\ mode = "down"
    /\ managed' = composeFile
    /\ override' = DbImages(composeFile)
    /\ todo' = ActiveDeployments
    /\ mode' = "recovering"
    /\ UNCHANGED <<row, nextId, committed, revs, composeFile, container,
                   holder, task, candidate, bounds, verified>>

(* Where recovery starts for an open row, and the rollback_status it writes   *)
(* when it closes the row without touching the service.                       *)
RecoverFrom(r) ==
    CASE r.svc \notin managed  -> [pc |-> "fail", rb |-> "unavailable"]
      [] r.svc \in managed /\ r.status = "queued" ->
                                  [pc |-> "fail", rb |-> "not_needed"]
      [] r.svc \in managed /\ r.status # "queued" /\ r.op \in Lifecycle ->
                                  [pc |-> "fail", rb |-> "unavailable"]
      [] OTHER                -> [pc |-> "inspect", rb |-> "null"]

RecoverBegin(id) ==
    /\ mode = "recovering"
    /\ id \in todo /\ \A j \in todo : id <= j
    /\ TryAcquire(id)
    /\ LET first == RecoverFrom(row[id]) IN
         task' = [task EXCEPT ![id] =
                    [IdleTask EXCEPT !.pc = first.pc, !.rb = first.rb,
                                     !.op = "recover", !.svc = row[id].svc,
                                     !.services = managed]]
    /\ UNCHANGED <<durable, mode, managed, candidate, todo, bounds, verified>>

(* The candidate is committed if docker still runs it healthy and the        *)
(* interrupted operation had reached its check; otherwise rollback().        *)
CandidateHealthy(id) ==
    LET r == row[id] IN
    /\ r.target # None
    /\ container[r.svc] = [img |-> r.target, st |-> "ok"]
    /\ r.phase \in {"checking", "committing"}

Inspect(id) ==
    /\ task[id].pc = "inspect"
    /\ \/ /\ CandidateHealthy(id)
          /\ task' = [task EXCEPT ![id].pc = "commit",
                                  ![id].img = row[id].target]
          /\ verified' = [verified EXCEPT ![id] = @ \cup {row[id].target}]
       \/ /\ Goto(id, "restore")     \* also when docker cannot be asked
          /\ UNCHANGED verified
    /\ UNCHANGED <<durable, mode, holder, managed, candidate, todo, bounds>>

Serve ==
    /\ mode = "recovering" /\ holder = Free /\ todo = {}
    /\ mode' = "serving"
    /\ UNCHANGED <<durable, holder, task, managed, candidate, todo, bounds,
                   verified>>

ProcessEnds ==
    /\ mode' = "down" /\ holder' = Free
    /\ task' = [i \in Ids |-> IdleTask]
    /\ candidate' = {} /\ todo' = {}
    /\ UNCHANGED <<durable, managed, verified>>

(* Killed, restarted or shut down: tasks are not awaited. *)
Crash ==
    /\ mode # "down" /\ crashes < MaxCrashes
    /\ crashes' = crashes + 1
    /\ ProcessEnds
    /\ UNCHANGED <<faults, edits, manual>>

(* A storage error that recover_interrupted propagates ends main. *)
RecoveryFails(id) ==
    /\ faults < MaxFaults
    /\ task[id].op = "recover" /\ task[id].pc \in {"fail", "commit", "rebuild"}
    /\ faults' = faults + 1
    /\ ProcessEnds
    /\ UNCHANGED <<crashes, edits, manual>>

-----------------------------------------------------------------------------
(* The environment.                                                         *)

(* Health changes, and a container crashes or comes back. *)
ContainerChanges(s) ==
    /\ container[s].st # "off"
    /\ container' = [container EXCEPT ![s].st = IF @ = "ok" THEN "bad" ELSE "ok"]
    /\ UNCHANGED <<row, nextId, committed, revs, override, composeFile,
                   volatile, bounds, verified>>

(* Somebody runs docker compose with the base files only. *)
ManualUp(s) ==
    /\ manual < MaxManual
    /\ manual' = manual + 1
    /\ container' = [container EXCEPT ![s] = [img |-> Base, st |-> "ok"]]
    /\ UNCHANGED <<row, nextId, committed, revs, override, composeFile,
                   volatile, crashes, faults, edits, verified>>

EditCompose ==
    /\ edits < MaxEdits
    /\ edits' = edits + 1
    /\ composeFile' \in (SUBSET Services) \ {{}, composeFile}
    /\ UNCHANGED <<row, nextId, committed, revs, override, container,
                   volatile, crashes, faults, manual, verified>>

-----------------------------------------------------------------------------
(* What the process itself does next for operation id; every call is bounded *)
(* by a timeout, so each of these steps happens or fails.                    *)
Step(id) ==
    \/ Admit(id) \/ Reject(id) \/ Create(id) \/ Prune(id) \/ MarkRunning(id)
    \/ Stage(id) \/ RecordPhase(id) \/ Pull(id) \/ RecordTarget(id) \/ Pin(id)
    \/ Up(id) \/ StopOrDown(id) \/ Check(id) \/ Commit(id) \/ Rebuild(id)
    \/ Restore(id) \/ RestoreCheck(id) \/ FinishSuccess(id)
    \/ FinishFailure(id) \/ End(id) \/ Inspect(id) \/ CommandFails(id)

Next ==
    \/ \E s \in Services, op \in Operations : Acquire(s, op)
    \/ \E id \in Ids : Step(id)
    \/ \E id \in Ids : Daemon(id) \/ StorageFails(id) \/ RecoveryFails(id)
    \/ RefreshBegin \/ RefreshApply \/ RefreshAborts \/ CleanupHistory
    \/ Startup \/ Serve \/ Crash
    \/ \E id \in Ids : RecoverBegin(id)
    \/ \E s \in Services : ContainerChanges(s) \/ ManualUp(s)
    \/ EditCompose

Spec == Init /\ [][Next]_vars

Fairness ==
    /\ WF_vars(\E id \in Ids : Step(id))
    /\ WF_vars(RefreshApply \/ RefreshAborts)
    /\ WF_vars(Startup) /\ WF_vars(\E id \in Ids : RecoverBegin(id)) /\ WF_vars(Serve)

FairSpec == Spec /\ Fairness

-----------------------------------------------------------------------------
(* Properties.                                                              *)

References == Images \cup {Base, Tag}
Row  == [svc : Services \cup {None}, op : Operations \cup {"none"},
         status : OpenStatus \cup DoneStatus \cup {"absent"}, phase : Phases,
         target : Images \cup {None}, rb : Outcomes]
Task == [pc : Pcs, op : Operations \cup {"none", "recover"},
         svc : Services \cup {None}, services : SUBSET Services,
         images : [Services -> Images \cup {Base}],
         img : Images \cup {None}, rb : Outcomes]

(* Every variable keeps its type. *)
TypeOK ==
    /\ row \in [Ids -> Row] /\ nextId \in 1 .. MaxOps + 1
    /\ committed \in [Services -> [img : Images \cup {Base}, dep : 0 .. MaxOps]]
    /\ revs \in [Services -> Seq([img : Images, dep : Ids])]
    /\ override \in [Services -> References]
    /\ composeFile \subseteq Services
    /\ container \in [Services -> [img : References \cup {None},
                                   st : {"ok", "bad", "off"}]]
    /\ mode \in {"down", "recovering", "serving"}
    /\ holder \in Ids \cup {Free, Refresher}
    /\ task \in [Ids -> Task]
    /\ managed \subseteq Services /\ candidate \subseteq Services
    /\ todo \subseteq Ids
    /\ crashes \in 0 .. MaxCrashes /\ faults \in 0 .. MaxFaults
    /\ edits \in 0 .. MaxEdits /\ manual \in 0 .. MaxManual
    /\ verified \in [Ids -> SUBSET Images]

(* Mutual exclusion on the project: whatever runs for an operation (handler, *)
(* task or recovery) owns deploy_lock, so no two of them, and no Compose     *)
(* refresh, ever overlap; the permit travels from the handler to its task.   *)
PermitExclusive ==
    \A id \in Ids : Live(id) => holder = id

(* A task only works for a row that is still open: neither the history       *)
(* pruning of another request nor a cleanup nor recovery closes or deletes   *)
(* the row of an operation in flight.  The one step left after a commit, the *)
(* rebuild of the override, finds its row already closed.                    *)
AfterCommit(id) == task[id].pc = "rebuild" /\ task[id].op # "recreate"

LiveRowOpen ==
    \A id \in Ids :
      (task[id].pc \in TaskPcs \cup {"prune"} /\ ~AfterCommit(id)) =>
        /\ row[id].status \in OpenStatus
        /\ row[id].svc = task[id].svc
        /\ task[id].op \in {row[id].op, "recover"}

(* Without storage faults and disconnects, a row shown as queued or running   *)
(* always has something that will finish it: its task, or the next recovery.  *)
OpenRowOwned ==
    faults = 0 =>
        \A id \in Ids : row[id].status \in OpenStatus =>
            Live(id) \/ id \in todo \/ mode = "down"

(* docker compose up never sees a half-written plan: every other managed      *)
(* service is at its committed image, and the service acted on is at the      *)
(* immutable artifact of the operation or at its own committed image, never   *)
(* at a mutable tag.                                                          *)
UpIsolated ==
    \A id \in Ids : task[id].pc \in {"up", "restore_up"} =>
        LET candidateUp == /\ task[id].pc = "up"
                           /\ task[id].op \in {"deploy", "rollback"}
        IN override = IF candidateUp
                      THEN [DbImages(managed) EXCEPT ![task[id].svc] = task[id].img]
                      ELSE DbImages(managed)

(* When nothing runs, the override file describes exactly the committed       *)
(* images of the managed services, so a manual compose up with it is safe.    *)
OverrideSettled ==
    (faults = 0 /\ mode = "serving" /\ holder = Free) =>
        override = DbImages(managed)

(* No revision, hence no rollback target and no current baseline, that its    *)
(* own operation did not see running and healthy under the recorded image ID. *)
VerifiedBaseline ==
    \A s \in Services : \A k \in DOMAIN revs[s] :
        revs[s][k].img \in verified[revs[s][k].dep]

(* service_state always equals the newest row of service_revisions, which is   *)
(* what makes "newest revision that is not the current one" the previous one.  *)
BaselineIsNewest ==
    \A s \in Services :
        committed[s] = IF revs[s] = <<>> THEN NoBaseline
                       ELSE revs[s][Len(revs[s])]

(* An operation still open has no revision yet, so recovery's insert can never *)
(* hit the UNIQUE deployment_id and make every start fail.                     *)
OpenRowUncommitted ==
    \A id \in Ids : row[id].status \in OpenStatus =>
        \A s \in Services : id \notin Dep(s)

(* Without faults, revisions of a service are in the order their operations    *)
(* started: recovery never commits an old operation over a newer one.          *)
CommitOrder ==
    faults = 0 =>
        \A s \in Services : \A j, k \in DOMAIN revs[s] :
            j < k => revs[s][j].dep < revs[s][k].dep

(* A rollback_status of "succeeded" is reported only when the service really   *)
(* runs its committed image (or the base image if it has none), unless someone *)
(* replaced the container by hand: rollback() checks health, not the image ID. *)
RestoredOnSuccess ==
    manual = 0 =>
        \A id \in Ids :
            (task[id].pc = "fail" /\ task[id].rb = "succeeded") =>
                container[task[id].svc].img = DbImages(managed)[task[id].svc]

(* history_limit bounds the finished rows: one more can be there until the     *)
(* next create prunes, and one for each operation that a fault or a crash cut  *)
(* off between the insert of its row and the pruning that follows it.          *)
HistoryBounded ==
    Cardinality({id \in Ids : row[id].status \in DoneStatus}) <= HistoryLimit + 1 + faults + crashes

(* deploy_lock always comes back: no path of a handler, task, refresh or       *)
(* recovery keeps the permit.                                                  *)
PermitReturned == (holder # Free) ~> (holder = Free)

(* Without faults every operation ends: its row does not stay open for ever.   *)
OperationsFinish ==
    \A id \in Ids : (row[id].status \in OpenStatus)
                        ~> (row[id].status \notin OpenStatus)
=============================================================================
