----------------------------- MODULE SelfUpdate -----------------------------
(***************************************************************************)
(* Self-update: the manager's UpdateManager (src/src/update.rs and         *)
(* start_update of src/src/web.rs) downloads and stages a release; the     *)
(* systemd path unit starts the root helper (src/deploy/                   *)
(* windplume-deploy-update), which verifies, installs, restarts the        *)
(* manager and rolls back.  They share only files: request, candidate,     *)
(* candidate.sig, status.json and the installed binary.                    *)
(***************************************************************************)
EXTENDS Integers, FiniteSets

CONSTANTS
    MaxVersion,  \* versions are 0 .. MaxVersion; 0 is installed at first
    None,
    Mixups,      \* versions that a download may contain instead of its own
    UnitWorks,   \* TRUE if systemd starts the helper when request exists
    MaxEvents    \* bound: updates begun, deaths of the manager that the helper
                 \* does not cause, kills of the helper (TimeoutStartSec, reboot),
                 \* failing commands and file operations, all together

ASSUME UpdateAssumption ==
    /\ MaxVersion \in Nat /\ UnitWorks \in BOOLEAN
    /\ Mixups \subseteq 0 .. MaxVersion
    /\ MaxEvents \in Nat /\ None \notin Nat

VARIABLES
    (* files *)
    binary, backup,          \* versions of the installed and saved binaries
    request, candidate, sig, \* staged files: version, content, signed content
    statusFile,              \* update-status/status.json
    (* the manager process *)
    running,                 \* version of the running manager, None if down
    active, memory,          \* UpdateManager.active and .status
    task,                    \* prepare_and_trigger: [pc, ver]
    permit,                  \* who holds the deploy_lock permits
    op,                      \* an operation's handler and task
    (* the helper *)
    helper,                  \* its variables and copies; signed: they fit,
                             \* trapped: in unexpected_failure, cleaned: it has
                             \* tried to remove the request
    (* the world, history and bounds *)
    healthy,                 \* versions that stay up once started
    verified,                \* candidates the helper verified
    confirmed,               \* version that last passed service_is_stable
    restoreTried,            \* the helper restored the backup since a swap
    gaveUp,                  \* the manager's wait for the helper ran out
    killed,                  \* the helper was killed once
    events

files   == <<binary, backup, request, candidate, sig, statusFile>>
manager == <<running, active, memory, task, permit, op>>
history == <<healthy, verified, confirmed, restoreTried, gaveUp>>
bounds  == <<killed, events>>
vars    == <<files, manager, helper, history, bounds>>

Versions   == 0 .. MaxVersion
Terminal   == {"failed", "rolled_back", "succeeded"}
NoTask     == [pc |-> "none", ver |-> 0]
IdleHelper == [pc |-> "idle", ver |-> 0, cur |-> 0, work |-> None,
               signed |-> FALSE, installed |-> FALSE, trapped |-> FALSE,
               cleaned |-> FALSE]

Init ==
    /\ binary = 0 /\ backup = None
    /\ request = None /\ candidate = None /\ sig = None
    /\ statusFile \in {"none", "succeeded"}   \* an earlier update, or none
    /\ running = 0 /\ active = FALSE /\ memory = "idle"
    /\ task = NoTask /\ permit = "free" /\ op = "none"
    /\ helper = IdleHelper
    /\ healthy \in {h \in SUBSET Versions : 0 \in h}
    /\ verified = {} /\ confirmed = 0 /\ restoreTried = FALSE /\ gaveUp = FALSE
    /\ killed = FALSE /\ events = 0

Counted == events < MaxEvents /\ events' = events + 1

(* Definitions named Faulty... are plausible mistakes, used by the mutation    *)
(* runs only.                                                                  *)
FaultyIsActive == active
IsActive == active \/ request # None

(* status(): the file, if there is one, hides what the process knows. *)
Status == IF statusFile # "none" THEN statusFile ELSE memory

-----------------------------------------------------------------------------
(* start_update and prepare_and_trigger.                                    *)

(* begin(): no request file, and the flag was clear. *)
Begin(v) ==
    /\ running # None /\ v > running /\ Counted
    /\ ~IsActive
    /\ active' = TRUE
    /\ task' = [pc |-> "permits", ver |-> v]
    /\ UNCHANGED <<files, running, memory, permit, op, helper, history,
                   killed>>

(* try_acquire_owned on the projects' locks; cancel() if one is taken. *)
TakePermits ==
    /\ task.pc = "permits"
    /\ IF permit = "free"
       THEN /\ permit' = "update" /\ task' = [task EXCEPT !.pc = "download"]
            /\ UNCHANGED active
       ELSE /\ task' = NoTask /\ active' = FALSE /\ UNCHANGED permit
    /\ UNCHANGED <<files, running, memory, op, helper, history, bounds>>

(* prepare() failed, or the wait is over: status, cancel(), permits dropped. *)
TaskEnds(state) ==
    /\ memory' = state /\ active' = FALSE
    /\ task' = NoTask /\ permit' = "free"

Downloaded ==
    /\ task.pc = "download"
    /\ task' = [task EXCEPT !.pc = "clear"] /\ memory' = "ready"
    /\ UNCHANGED <<files, running, active, permit, op, helper, history, bounds>>

(* Download, SHA-256 or archive checks fail. *)
DownloadFails ==
    /\ task.pc = "download"
    /\ TaskEnds("failed")
    /\ UNCHANGED <<files, running, op, helper, history, bounds>>

(* stage_update, file by file; the request comes last. *)
ClearRequest ==
    /\ task.pc = "clear"
    /\ request' = None /\ task' = [task EXCEPT !.pc = "candidate"]
    /\ UNCHANGED <<binary, backup, candidate, sig, statusFile, running, active,
                   memory, permit, op, helper, history, bounds>>

StageCandidate ==
    /\ task.pc = "candidate"
    /\ candidate' \in {task.ver} \cup Mixups   \* what the archive really contains
    /\ task' = [task EXCEPT !.pc = "sig"]
    /\ UNCHANGED <<binary, backup, request, sig, statusFile, running, active,
                   memory, permit, op, helper, history, bounds>>

StageSignature ==
    /\ task.pc = "sig"
    /\ sig' \in {task.ver} \cup Mixups   \* the content the release key signed
    /\ task' = [task EXCEPT !.pc = "request"]
    /\ UNCHANGED <<binary, backup, request, candidate, statusFile, running,
                   active, memory, permit, op, helper, history, bounds>>

StageRequest ==
    /\ task.pc = "request"
    /\ request' = task.ver /\ task' = [task EXCEPT !.pc = "wait"]
    /\ UNCHANGED <<binary, backup, candidate, sig, statusFile, running, active,
                   memory, permit, op, helper, history, bounds>>

StageFails ==
    /\ task.pc \in {"clear", "candidate", "sig", "request"}
    /\ Counted
    /\ TaskEnds("failed")
    /\ UNCHANGED <<files, running, op, helper, history, killed>>

Answered == Status \in Terminal

(* One of the 90 one-second polls finds a terminal status.  A handler that has *)
(* checked is_active takes its permit without an await, well within a second.  *)
PollEnds ==
    /\ task.pc = "wait" /\ op # "checked"
    /\ Answered
    /\ TaskEnds(Status)
    /\ UNCHANGED <<files, running, op, helper, history, bounds>>

(* 90 polls without one. *)
WaitTimesOut ==
    /\ task.pc = "wait" /\ op # "checked"
    /\ ~Answered
    /\ request' = None /\ gaveUp' = TRUE
    /\ TaskEnds("failed")
    /\ UNCHANGED <<binary, backup, candidate, sig, statusFile, running, op,
                   helper, healthy, verified, confirmed, restoreTried, bounds>>

-----------------------------------------------------------------------------
(* Any handler that needs a project: is_active, then the permit.            *)
CheckActive ==
    /\ running # None /\ op = "none" /\ ~IsActive
    /\ op' = "checked"
    /\ UNCHANGED <<files, running, active, memory, task, permit, helper, history,
                   bounds>>

AcquireProject ==
    /\ op = "checked"
    /\ IF permit = "free" THEN op' = "running" /\ permit' = "operation"
                          ELSE op' = "none" /\ UNCHANGED permit
    /\ UNCHANGED <<files, running, active, memory, task, helper, history, bounds>>

OperationEnds ==
    /\ op = "running"
    /\ op' = "none" /\ permit' = "free"
    /\ UNCHANGED <<files, running, active, memory, task, helper, history, bounds>>

(* The process dies with its memory, and another binary version may start. *)
ProcessBecomes(v) ==
    /\ running' = v
    /\ active' = FALSE /\ memory' = "idle" /\ task' = NoTask
    /\ permit' = "free" /\ op' = "none"

ManagerCrashes ==
    /\ running # None /\ Counted
    /\ ProcessBecomes(None)
    /\ UNCHANGED <<files, helper, history, killed>>

(* Restart=on-failure: a healthy version comes up and stays. *)
ManagerStarts ==
    /\ running = None /\ binary \in healthy
    /\ ProcessBecomes(binary)
    /\ UNCHANGED <<files, helper, history, bounds>>

-----------------------------------------------------------------------------
(* The root helper, one command or group of commands a step.                *)
At(pc)  == helper.pc = pc
Goto(pc) == helper' = [helper EXCEPT !.pc = pc]

(* PathExists starts the helper; it reads the request and the version of the   *)
(* installed binary, and refuses what is incomplete or not newer.              *)
HelperStarts ==
    /\ At("idle") /\ UnitWorks /\ request # None
    /\ helper' = [IdleHelper EXCEPT
                    !.pc = IF candidate # None /\ sig # None /\ request > binary
                           THEN "copy" ELSE "refuse",
                    !.ver = request, !.cur = binary]
    /\ UNCHANGED <<files, manager, history, bounds>>

(* install of candidate, then of candidate.sig, into the root-only work_dir. *)
CopyCandidate ==
    /\ At("copy") /\ candidate # None
    /\ helper' = [helper EXCEPT !.pc = "copysig", !.work = candidate]
    /\ UNCHANGED <<files, manager, history, bounds>>

CopySignature ==
    /\ At("copysig") /\ sig # None
    /\ helper' = [helper EXCEPT !.pc = "verify", !.signed = sig = helper.work]
    /\ UNCHANGED <<files, manager, history, bounds>>

(* openssl on the copies, then the version the copy reports. *)
FaultyAccepts(h) == h.work = h.ver
Accepts(h) == h.signed /\ h.work = h.ver

Verify ==
    /\ At("verify")
    /\ Goto(IF Accepts(helper) THEN "announce" ELSE "refuse")
    /\ verified' = IF helper.signed
                   THEN verified \cup {helper.work} ELSE verified
    /\ UNCHANGED <<files, manager, healthy, confirmed, restoreTried, gaveUp,
                   bounds>>

(* write_status: the state that is written at each point of the script. *)
Statuses == [refuse |-> "failed", announce |-> "installing",
             succeed |-> "succeeded", rolling |-> "rolling_back",
             rolledback |-> "rolled_back", failed |-> "failed"]

WriteStatus(pc, next) ==
    /\ At(pc)
    /\ statusFile' = Statuses[pc]
    /\ Goto(next)
    /\ UNCHANGED <<binary, backup, request, candidate, sig, manager, history,
                   bounds>>

Refuse       == WriteStatus("refuse", "cleanup")
Announce     == WriteStatus("announce", "backup")
Succeed      == WriteStatus("succeed", "cleanup")
AnnounceBack == WriteStatus("rolling", "restore")
RolledBack   == WriteStatus("rolledback", "cleanup")
BothFailed   == WriteStatus("failed", "cleanup")

Previous == binary

Backup ==
    /\ At("backup")
    /\ backup' = Previous
    /\ Goto("swap")
    /\ UNCHANGED <<binary, request, candidate, sig, statusFile, manager, history,
                   bounds>>

Swap ==
    /\ At("swap")
    /\ binary' = helper.work /\ restoreTried' = FALSE
    /\ helper' = [helper EXCEPT !.pc = "restart", !.installed = TRUE]
    /\ UNCHANGED <<backup, request, candidate, sig, statusFile, manager, healthy,
                   verified, confirmed, gaveUp, bounds>>

(* systemctl restart: the old process is stopped; whether the new one stays is *)
(* for service_is_stable to find out.                                          *)
Restart(pc, next) ==
    /\ At(pc)
    /\ ProcessBecomes(IF binary \in healthy THEN binary ELSE None)
    /\ Goto(next)
    /\ UNCHANGED <<files, history, bounds>>

(* service_is_stable: 30 attempts may run out for a version that is only slow. *)
Watch(pc, stable, unstable) ==
    /\ At(pc)
    /\ \/ /\ running = binary
          /\ confirmed' = binary /\ Goto(stable)
       \/ /\ Goto(unstable) /\ UNCHANGED confirmed
    /\ UNCHANGED <<files, manager, healthy, verified, restoreTried, gaveUp, bounds>>

RestartNew == Restart("restart", "watch")
RestartOld == Restart("restartold", "watchold")
WatchNew   == Watch("watch", "succeed", "rolling")

FaultyWatchOld == Watch("watchold", "rolledback", "rolledback")
WatchOld == Watch("watchold", "rolledback", "failed")

(* restore_previous, up to its restart. *)
Restore ==
    /\ At("restore")
    /\ binary' = backup /\ restoreTried' = TRUE
    /\ Goto("restartold")
    /\ UNCHANGED <<backup, request, candidate, sig, statusFile, manager, healthy,
                   verified, confirmed, gaveUp, bounds>>

(* cleanup_staged, one rm -f; then the work_dir goes and the script ends. *)
FaultyKeepsRequest == candidate' = None /\ sig' = None /\ UNCHANGED request
RemoveStaged == request' = None /\ candidate' = None /\ sig' = None

Cleanup ==
    /\ At("cleanup")
    /\ RemoveStaged
    /\ helper' = [helper EXCEPT !.pc = "rmdir", !.cleaned = TRUE]
    /\ UNCHANGED <<binary, backup, statusFile, manager, history, bounds>>

RemoveWork ==
    /\ At("rmdir")
    /\ helper' = IdleHelper
    /\ UNCHANGED <<files, manager, history, bounds>>

-----------------------------------------------------------------------------
(* The ERR trap, unexpected_failure: it is armed until the script ends, takes   *)
(* itself away, and restores if the new binary was put in place, else reports   *)
(* failure.  The errors of its own commands are ignored.                        *)
FaultyOnErr(h) == "refuse"
OnErr(h) == IF h.installed /\ backup # None THEN "restore" ELSE "refuse"

Trapped(h) == [h EXCEPT !.pc = OnErr(h), !.trapped = TRUE]

(* fail_staged_update disarms the trap before it removes the work_dir. *)
CommandErr ==
    /\ \/ helper.pc \in {"copy", "copysig", "verify", "backup", "swap"}
       \/ At("rmdir") /\ helper.installed /\ ~helper.trapped
    /\ Counted
    /\ helper' = Trapped(helper)
    /\ UNCHANGED <<files, manager, history, killed>>

(* write_status fails before its mv or after it; in the trap it goes on to the *)
(* mv, which may put an unreadable file in place.                              *)
WriteErr ==
    /\ helper.pc \in DOMAIN Statuses
    /\ Counted
    /\ \/ /\ ~helper.trapped /\ helper' = Trapped(helper)
          /\ statusFile' \in {statusFile, Statuses[helper.pc]}
       \/ /\ helper.trapped /\ Goto("cleanup")
          /\ statusFile' \in {statusFile, "none"}
    /\ UNCHANGED <<binary, backup, request, candidate, sig, manager, history,
                   killed>>

(* rm leaves one of the staged files at least, and tries the others. *)
CleanupErr ==
    /\ At("cleanup")
    /\ Counted
    /\ request' \in {request, None} /\ candidate' \in {candidate, None}
    /\ sig' \in {sig, None} /\ {request', candidate', sig'} # {None}
    /\ helper' = [(IF helper.trapped THEN [helper EXCEPT !.pc = "rmdir"]
                   ELSE Trapped(helper)) EXCEPT !.cleaned = TRUE]
    /\ UNCHANGED <<binary, backup, statusFile, manager, history, killed>>

(* systemctl restart does not get through to systemd. *)
RestartFails ==
    /\ Counted
    /\ \/ At("restart") /\ Goto("rolling")
       \/ At("restartold") /\ Goto("failed")
    /\ UNCHANGED <<files, manager, history, killed>>

(* restore_previous fails before its restart. *)
RestoreFails ==
    /\ At("restore") /\ Counted
    /\ restoreTried' = TRUE
    /\ Goto("failed")
    /\ UNCHANGED <<files, manager, healthy, verified, confirmed, gaveUp, killed>>

HelperFails ==
    \/ CommandErr \/ WriteErr \/ CleanupErr \/ RestartFails \/ RestoreFails

(* SIGTERM at TimeoutStartSec, or the host goes down: no trap runs. *)
HelperKilled ==
    /\ helper.pc # "idle" /\ Counted /\ killed' = TRUE
    /\ helper' = IdleHelper
    /\ UNCHANGED <<files, manager, history>>

HelperStep ==
    \/ HelperStarts \/ CopyCandidate \/ CopySignature \/ Verify \/ Refuse
    \/ Announce \/ Backup \/ Swap \/ RestartNew \/ WatchNew \/ Succeed
    \/ AnnounceBack \/ Restore \/ RestartOld \/ WatchOld \/ RolledBack
    \/ BothFailed \/ Cleanup \/ RemoveWork

TaskStep ==
    \/ TakePermits \/ Downloaded \/ DownloadFails \/ ClearRequest
    \/ StageCandidate \/ StageSignature \/ StageRequest \/ PollEnds
    \/ WaitTimesOut

Next ==
    \/ \E v \in Versions : Begin(v)
    \/ TaskStep \/ StageFails \/ HelperStep \/ HelperFails \/ HelperKilled
    \/ CheckActive \/ AcquireProject \/ OperationEnds
    \/ ManagerCrashes \/ ManagerStarts

Spec == Init /\ [][Next]_vars

(* The task's awaits are bounded by timeouts, a working unit is retried while  *)
(* request exists, and handlers and operations end.                            *)
Fairness ==
    /\ WF_vars(TaskStep) /\ WF_vars(HelperStep) /\ WF_vars(ManagerStarts)
    /\ WF_vars(AcquireProject) /\ WF_vars(OperationEnds)

FairSpec == Spec /\ Fairness

-----------------------------------------------------------------------------
Task == [pc : {"none", "permits", "download", "clear", "candidate", "sig",
               "request", "wait"}, ver : Versions]
HelperPcs == {"idle", "copy", "copysig", "verify", "refuse", "announce", "backup",
              "swap", "restart", "watch", "succeed", "rolling", "restore",
              "restartold", "watchold", "rolledback", "failed", "cleanup", "rmdir"}
Helper == [pc : HelperPcs, ver : Versions, cur : Versions,
           work : Versions \cup {None}, signed : BOOLEAN,
           installed : BOOLEAN, trapped : BOOLEAN, cleaned : BOOLEAN]

(* Every variable keeps its type. *)
TypeOK ==
    /\ binary \in Versions /\ backup \in Versions \cup {None}
    /\ {request, candidate, sig, running} \subseteq Versions \cup {None}
    /\ statusFile \in {"none", "installing", "rolling_back"} \cup Terminal
    /\ active \in BOOLEAN /\ memory \in {"idle", "ready"} \cup Terminal
    /\ task \in Task
    /\ permit \in {"free", "update", "operation"}
    /\ op \in {"none", "checked", "running"}
    /\ helper \in Helper
    /\ healthy \subseteq Versions /\ verified \subseteq Versions
    /\ confirmed \in Versions /\ {restoreTried, gaveUp} \subseteq BOOLEAN
    /\ killed \in BOOLEAN /\ events \in 0 .. MaxEvents

(* Whatever the manager does to the staged files while a slow helper works on  *)
(* them, only a version whose signature the helper verified gets installed.    *)
InstalledVerified == binary \in verified \cup {0}

(* status.json says succeeded or rolled_back only while the installed binary   *)
(* is the one that last proved to keep running.  One exception: an error after *)
(* success was reported, in the clean-up, makes the trap restore the old       *)
(* binary, and succeeded stands until it writes its own report, if it can.     *)
StatusTruthful ==
    /\ statusFile = "rolled_back" => confirmed = binary
    /\ statusFile = "succeeded" =>
          confirmed = binary \/ (restoreTried /\ binary = backup)

(* Until a swapped-in version has proved itself, the saved binary is the one    *)
(* that ran before, whatever command fails in between.                          *)
BackupIsPrevious ==
    (helper.installed /\ binary = helper.work /\ confirmed # binary) =>
        backup = helper.cur /\ backup # binary

(* What the helper has in its hands, installs and saves fits together after    *)
(* every step of either program, a kill and a crash at any place included.     *)
BinariesSound == TypeOK /\ InstalledVerified /\ BackupIsPrevious

(* While the helper works no operation runs on a project, unless the manager   *)
(* had given up waiting for it: the request file keeps maintenance mode across *)
(* restarts and early polls.  The helper itself ends it with its clean-up, and *)
(* has then only its work_dir to remove; but an error in the clean-up lets the *)
(* trap restore and restart under running operations.                          *)
UpdateExcludesOperations ==
    (op = "running" /\ helper.pc \notin {"idle", "rmdir"}) =>
        gaveUp \/ (helper.trapped /\ helper.cleaned)

(* An error after the swap never leaves a version installed that did not prove *)
(* itself, without the attempt to restore the previous one that README.md:129  *)
(* promises, unless the helper was killed.                                     *)
ErrorsRestore ==
    (~killed /\ helper.pc \in {"refuse", "failed", "cleanup", "rmdir", "idle"}) =>
        binary = confirmed \/ restoreTried

(* With a working helper, maintenance mode always ends.                        *)
MaintenanceEnds == IsActive ~> ~IsActive

(* update.rs:198-199: if the helper does not respond, maintenance mode is      *)
(* released so the running version remains usable.                             *)
ReleasedWithoutHelper == IsActive ~> ~IsActive

=============================================================================
