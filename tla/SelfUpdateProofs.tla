-------------------------- MODULE SelfUpdateProofs --------------------------
(***************************************************************************)
(* Proofs about SelfUpdate for every number of versions, updates, crashes, *)
(* kills and errors: what the helper installs and saves, what status.json  *)
(* says, and when operations and the helper exclude each other.            *)
(***************************************************************************)
EXTENDS SelfUpdate, TLAPS

(* Where the helper has not swapped yet, where the new binary is in place, and *)
(* where the saved one is back.                                                *)
BeforeSwap   == {"copy", "copysig", "verify", "announce", "backup", "swap"}
Swapped      == {"restart", "watch", "succeed", "rolling"}
RestoredBack == {"restartold", "watchold", "rolledback"}

(* What the helper has in its hands at each point of its script. *)
HelperSound ==
    /\ helper.pc \in BeforeSwap =>
          /\ ~helper.installed /\ binary = helper.cur /\ helper.cur < helper.ver
          /\ ~helper.trapped
    /\ helper.pc \in {"copysig", "verify"} => helper.work # None
    /\ helper.pc \in {"announce", "backup", "swap"} =>
          helper.work = helper.ver /\ helper.work \in verified
    /\ helper.pc = "swap" => backup = helper.cur
    /\ helper.pc \in Swapped \cup RestoredBack \cup {"restore", "failed"} =>
          helper.installed
    /\ helper.pc \in Swapped => binary = helper.work /\ ~helper.trapped
    /\ helper.pc \in RestoredBack => binary = helper.cur
    /\ helper.pc \in {"idle", "refuse"} => ~helper.installed
    /\ helper.installed =>
          /\ backup = helper.cur /\ helper.work \in verified
          /\ helper.work # helper.cur /\ binary \in {helper.cur, helper.work}

FilesVerified ==
    /\ InstalledVerified
    /\ backup \in verified \cup {0, None}

(* A new binary in place is announced until it, or the restored one, has been  *)
(* seen to stay up; once a restore is reported, the saved binary is back.      *)
StatusAnnounced ==
    /\ StatusTruthful
    /\ helper.pc \in {"backup", "swap"} \cup Swapped =>
          statusFile \notin {"succeeded", "rolled_back"}
    /\ helper.pc \in {"succeed", "rolledback"} => confirmed = binary
    /\ (helper.installed /\ statusFile = "rolled_back") => binary = helper.cur

(* Who holds the permits, and when the request file is there. *)
Maintenance ==
    /\ task.pc \notin {"none", "permits"} => permit = "update"
    /\ op = "running" => permit = "operation"
    /\ task.pc \notin {"none", "wait"} => request = None
    /\ request # None => op # "running" /\ (op = "checked" => task.pc = "wait")
    /\ (helper.pc # "idle" /\ request = None) => gaveUp \/ helper.cleaned
    /\ helper.cleaned => helper.pc = "rmdir" \/ helper.trapped

RestoreOwed ==
    (~killed /\ helper.pc \notin {"restart", "watch", "rolling", "restore"}) =>
        binary = confirmed \/ restoreTried

Inv ==
    /\ TypeOK
    /\ HelperSound
    /\ FilesVerified
    /\ StatusAnnounced
    /\ Maintenance
    /\ RestoreOwed

-----------------------------------------------------------------------------
LEMMA VersionTypes ==
  /\ 0 \in Versions /\ None \notin Versions /\ \A v \in Versions : v \in Nat
  /\ NoTask \in Task /\ NoTask.pc = "none"
  /\ IdleHelper \in Helper
  /\ IdleHelper.pc = "idle" /\ ~IdleHelper.installed
  /\ ~IdleHelper.trapped /\ ~IdleHelper.cleaned
BY UpdateAssumption DEF Versions, NoTask, Task, IdleHelper, Helper, HelperPcs

LEMMA Moves ==
  ASSUME TypeOK, NEW pc \in HelperPcs, Goto(pc)
  PROVE  /\ helper' \in Helper /\ helper'.pc = pc
         /\ helper'.ver = helper.ver /\ helper'.cur = helper.cur
         /\ helper'.work = helper.work /\ helper'.signed = helper.signed
         /\ helper'.installed = helper.installed
         /\ helper'.trapped = helper.trapped /\ helper'.cleaned = helper.cleaned
BY DEF TypeOK, Goto, Helper

(* The trap takes over: before the swap to a refusal, after it to the restore. *)
LEMMA TrapMoves ==
  ASSUME Inv, helper' = Trapped(helper)
  PROVE  /\ helper' \in Helper /\ helper'.ver = helper.ver /\ helper'.cur = helper.cur
         /\ helper'.work = helper.work /\ helper'.installed = helper.installed
         /\ helper'.trapped /\ helper'.cleaned = helper.cleaned
         /\ helper'.pc = IF helper.installed THEN "restore" ELSE "refuse"
<1>1. helper \in Helper /\ (helper.installed => backup # None)
  BY VersionTypes DEF Inv, TypeOK, HelperSound, Helper
<1>2. OnErr(helper) = (IF helper.installed THEN "restore" ELSE "refuse")
  BY <1>1 DEF OnErr
<1>3. OnErr(helper) \in HelperPcs
  BY <1>2 DEF HelperPcs
<1> QED BY <1>1, <1>2, <1>3 DEF Trapped, Helper

LEMMA TaskEndsType ==
  ASSUME NEW state \in Terminal, TaskEnds(state)
  PROVE  /\ memory' \in {"idle", "ready"} \cup Terminal /\ active' \in BOOLEAN
         /\ task' \in Task /\ permit' \in {"free", "update", "operation"}
BY VersionTypes DEF TaskEnds

LEMMA ProcessType ==
  ASSUME NEW v \in Versions \cup {None}, ProcessBecomes(v)
  PROVE  /\ running' \in Versions \cup {None} /\ active' \in BOOLEAN
         /\ memory' \in {"idle", "ready"} \cup Terminal
         /\ task' \in Task /\ permit' \in {"free", "update", "operation"}
         /\ op' \in {"none", "checked", "running"}
BY VersionTypes DEF ProcessBecomes

LEMMA InitInv == Init => Inv
<1> SUFFICES ASSUME Init PROVE Inv
  OBVIOUS
<1>1. TypeOK
  <2>1. /\ binary \in Versions /\ backup \in Versions \cup {None}
        /\ {request, candidate, sig, running} \subseteq Versions \cup {None}
        /\ task \in Task /\ helper \in Helper /\ confirmed \in Versions
        /\ healthy \subseteq Versions /\ verified \subseteq Versions
    BY VersionTypes DEF Init
  <2>2. /\ active \in BOOLEAN /\ {restoreTried, gaveUp} \subseteq BOOLEAN
        /\ statusFile \in {"none", "installing", "rolling_back"} \cup Terminal
        /\ memory \in {"idle", "ready"} \cup Terminal
    BY Zenon DEF Init, Terminal
  <2>3. killed \in BOOLEAN
    BY Zenon DEF Init
  <2>4. events \in 0 .. MaxEvents
    BY UpdateAssumption DEF Init
  <2> QED BY <2>1, <2>2, <2>3, <2>4 DEF Init, TypeOK
<1>2. HelperSound /\ FilesVerified
  BY VersionTypes DEF Init, HelperSound, FilesVerified, InstalledVerified, BeforeSwap,
    Swapped, RestoredBack
<1>3. StatusAnnounced /\ Maintenance /\ RestoreOwed
  BY VersionTypes DEF Init, StatusAnnounced, StatusTruthful, Maintenance, RestoreOwed,
    Swapped
<1> QED BY <1>1, <1>2, <1>3 DEF Inv

-----------------------------------------------------------------------------
(* The manager's side: the helper's files stay as they are.                 *)

helperVars == <<binary, backup, statusFile, helper, healthy, verified, confirmed,
                restoreTried, killed>>

LEMMA HelperUndisturbed ==
  ASSUME Inv, UNCHANGED helperVars
  PROVE  HelperSound' /\ FilesVerified' /\ StatusAnnounced' /\ RestoreOwed'
<1>1. HelperSound' /\ FilesVerified'
  BY DEF Inv, helperVars, HelperSound, FilesVerified, InstalledVerified
<1>2. StatusAnnounced' /\ RestoreOwed'
  BY DEF Inv, helperVars, StatusAnnounced, StatusTruthful, RestoreOwed
<1> QED BY <1>1, <1>2

(* The preparation of an update, up to its staged files. *)
LEMMA PrepareKeeps ==
  ASSUME Inv,
         \/ \E v \in Versions : Begin(v)
         \/ TakePermits \/ Downloaded \/ DownloadFails \/ ClearRequest
         \/ StageCandidate \/ StageSignature \/ StageRequest \/ StageFails
  PROVE  Inv'
<1>1. UNCHANGED helperVars
  BY DEF Begin, TakePermits, Downloaded, DownloadFails, ClearRequest, StageCandidate,
    StageSignature, StageRequest, StageFails, helperVars, files, history, bounds
<1>2. TypeOK /\ task \in Task
  BY DEF Inv, TypeOK
<1>3. CASE \E v \in Versions : Begin(v)
  <2>1. TypeOK'
    <3>1. task' \in Task
      BY <1>3 DEF Begin, Task
    <3> QED BY <1>2, <1>3, <3>1, UpdateAssumption DEF TypeOK, Begin, Counted, files, history
  <2>2. Maintenance'
    BY <1>3 DEF Inv, Maintenance, Begin, IsActive, files, history
  <2> QED BY <1>1, <2>1, <2>2, HelperUndisturbed DEF Inv
<1>4. CASE TakePermits
  <2>1. TypeOK'
    BY <1>2, <1>4, VersionTypes DEF TypeOK, TakePermits, files, history, bounds, Task
  <2>2. Maintenance'
    BY <1>2, <1>4, VersionTypes DEF Inv, Maintenance, TakePermits, files, history, Task
  <2> QED BY <1>1, <2>1, <2>2, HelperUndisturbed DEF Inv
<1>5. CASE Downloaded
  <2>1. TypeOK'
    BY <1>2, <1>5 DEF TypeOK, Downloaded, files, history, bounds, Task
  <2>2. Maintenance'
    BY <1>2, <1>5 DEF Inv, Maintenance, Downloaded, files, history, Task
  <2> QED BY <1>1, <2>1, <2>2, HelperUndisturbed DEF Inv
<1>6. CASE DownloadFails \/ StageFails
  <2>1. TypeOK'
    <3>1. /\ UNCHANGED <<files, running, op, helper, history, killed>>
          /\ TaskEnds("failed") /\ (events' = events \/ StageFails)
      BY <1>6 DEF DownloadFails, StageFails, bounds
    <3>2. events' \in 0 .. MaxEvents
      BY <1>2, <3>1, UpdateAssumption DEF TypeOK, StageFails, Counted
    <3>3. "failed" \in Terminal
      BY DEF Terminal
    <3> QED BY <1>2, <3>1, <3>2, <3>3, TaskEndsType DEF TypeOK, files, history
  <2>2. Maintenance'
    BY <1>2, <1>6, VersionTypes
    DEF Inv, Maintenance, DownloadFails, StageFails, TaskEnds, files, history
  <2> QED BY <1>1, <2>1, <2>2, HelperUndisturbed DEF Inv
<1>7. CASE ClearRequest \/ StageCandidate \/ StageSignature
  <2>1. TypeOK'
    <3>1. task.ver \in Versions /\ Mixups \subseteq Versions
      BY <1>2, UpdateAssumption DEF Task, Versions
    <3> QED
      BY <1>2, <1>7, <3>1 DEF TypeOK, ClearRequest, StageCandidate, StageSignature,
        history, bounds, Task
  <2>2. Maintenance'
    BY <1>2, <1>7 DEF Inv, Maintenance, ClearRequest, StageCandidate, StageSignature,
      history, Task
  <2> QED BY <1>1, <2>1, <2>2, HelperUndisturbed DEF Inv
<1>8. CASE StageRequest
  <2>1. TypeOK'
    BY <1>2, <1>8 DEF TypeOK, StageRequest, history, bounds, Task
  <2>2. Maintenance'
    BY <1>2, <1>8, VersionTypes DEF Inv, Maintenance, StageRequest, history, Task
  <2> QED BY <1>1, <2>1, <2>2, HelperUndisturbed DEF Inv
<1> QED BY <1>3, <1>4, <1>5, <1>6, <1>7, <1>8

(* The wait for the helper, the operations, and the process. *)
LEMMA ManagerKeeps ==
  ASSUME Inv,
         \/ PollEnds \/ WaitTimesOut \/ CheckActive \/ AcquireProject \/ OperationEnds
         \/ ManagerCrashes \/ ManagerStarts
  PROVE  Inv'
<1>1. UNCHANGED helperVars
  BY DEF PollEnds, WaitTimesOut, CheckActive, AcquireProject, OperationEnds,
    ManagerCrashes, ManagerStarts, helperVars, files, history, bounds
<1>2. TypeOK /\ task \in Task
  BY DEF Inv, TypeOK
<1>3. CASE PollEnds
  <2>1. TypeOK'
    BY <1>2, <1>3, VersionTypes
    DEF TypeOK, PollEnds, Answered, TaskEnds, files, history, bounds
  <2>2. Maintenance'
    BY <1>3, VersionTypes DEF Inv, Maintenance, PollEnds, TaskEnds, files, history
  <2> QED BY <1>1, <2>1, <2>2, HelperUndisturbed DEF Inv
<1>4. CASE WaitTimesOut
  <2>1. TypeOK'
    BY <1>2, <1>4, VersionTypes
    DEF TypeOK, WaitTimesOut, TaskEnds, bounds, Terminal
  <2>2. Maintenance'
    BY <1>4, VersionTypes DEF Inv, Maintenance, WaitTimesOut, TaskEnds
  <2> QED BY <1>1, <2>1, <2>2, HelperUndisturbed DEF Inv
<1>5. CASE CheckActive \/ AcquireProject \/ OperationEnds
  <2>1. TypeOK'
    BY <1>2, <1>5 DEF TypeOK, CheckActive, AcquireProject, OperationEnds, files, history,
      bounds
  <2>2. Maintenance'
    BY <1>5 DEF Inv, Maintenance, CheckActive, AcquireProject, OperationEnds, IsActive,
      files, history
  <2> QED BY <1>1, <2>1, <2>2, HelperUndisturbed DEF Inv
<1>6. CASE ManagerCrashes \/ ManagerStarts
  <2>1. TypeOK'
    <3>1. /\ UNCHANGED <<files, helper, history, killed>>
          /\ \E v \in Versions \cup {None} : ProcessBecomes(v)
      BY <1>2, <1>6 DEF TypeOK, ManagerCrashes, ManagerStarts, bounds
    <3>2. events' \in 0 .. MaxEvents
      BY <1>2, <1>6, UpdateAssumption
      DEF TypeOK, ManagerCrashes, ManagerStarts, Counted, bounds
    <3> QED BY <1>2, <3>1, <3>2, ProcessType DEF TypeOK, files, history
  <2>2. Maintenance'
    BY <1>6, VersionTypes
    DEF Inv, Maintenance, ManagerCrashes, ManagerStarts, ProcessBecomes, files, history
  <2> QED BY <1>1, <2>1, <2>2, HelperUndisturbed DEF Inv
<1> QED BY <1>3, <1>4, <1>5, <1>6

-----------------------------------------------------------------------------
(* The helper's side.                                                       *)

(* While the helper works, what it does to its own files leaves maintenance    *)
(* mode as it is.                                                              *)
LEMMA HelperInMaintenance ==
  ASSUME Inv, UNCHANGED <<request, task, permit, op, gaveUp>>, helper.pc # "idle",
         helper'.cleaned = helper.cleaned,
         helper'.trapped \/ (helper.pc # "rmdir" /\ helper'.trapped = helper.trapped)
  PROVE  Maintenance'
<1>1. helper'.cleaned => helper'.trapped
  BY Zenon DEF Inv, Maintenance
<1> QED BY <1>1 DEF Inv, Maintenance

LEMMA StartKeeps ==
  ASSUME Inv, HelperStarts
  PROVE  Inv'
<1> DEFINE pc == IF candidate # None /\ sig # None /\ request > binary
                 THEN "copy" ELSE "refuse"
<1>1. /\ UNCHANGED <<files, manager, history, bounds>> /\ request # None
      /\ TypeOK /\ helper.pc = "idle" /\ request \in Versions
      /\ helper' = [IdleHelper EXCEPT !.pc = pc, !.ver = request, !.cur = binary]
  BY DEF HelperStarts, At, Inv, TypeOK
<1>2. pc \in {"copy", "refuse"} /\ (pc = "copy" => binary < request)
  BY <1>1, VersionTypes DEF TypeOK
<1> HIDE DEF pc
<1>3. /\ helper'.pc = pc /\ helper'.ver = request /\ helper'.cur = binary
      /\ ~helper'.installed /\ ~helper'.trapped /\ ~helper'.cleaned
  BY <1>1 DEF IdleHelper
<1>4. helper' \in Helper
  BY <1>1, <1>2, VersionTypes DEF Helper, HelperPcs, TypeOK
<1>5. TypeOK'
  BY <1>1, <1>4 DEF TypeOK, files, manager, history, bounds
<1>6. HelperSound' /\ FilesVerified'
  BY <1>1, <1>2, <1>3 DEF Inv, HelperSound, FilesVerified, InstalledVerified, files,
    history, BeforeSwap, Swapped, RestoredBack
<1>7. StatusAnnounced' /\ RestoreOwed'
  BY <1>1, <1>2, <1>3 DEF Inv, StatusAnnounced, StatusTruthful, RestoreOwed, files,
    history, bounds, Swapped
<1>8. Maintenance'
  BY <1>1, <1>2, <1>3 DEF Inv, Maintenance, files, manager, history
<1> QED BY <1>5, <1>6, <1>7, <1>8 DEF Inv

(* The copies and the check of their signature and version. *)
LEMMA CopyKeeps ==
  ASSUME Inv, CopyCandidate \/ CopySignature
  PROVE  Inv'
<1>1. /\ UNCHANGED <<files, manager, history, bounds>> /\ TypeOK
      /\ helper \in Helper /\ helper.pc \in {"copy", "copysig"}
  BY DEF CopyCandidate, CopySignature, At, Inv, TypeOK
<1>2. /\ helper' \in Helper /\ helper'.pc \in {"copysig", "verify"}
      /\ helper'.ver = helper.ver /\ helper'.cur = helper.cur
      /\ helper'.installed = helper.installed /\ helper'.work # None
      /\ helper'.trapped = helper.trapped /\ helper'.cleaned = helper.cleaned
  <2>1. CASE CopyCandidate
    <3>1. candidate \in Versions /\ candidate # None
      BY <1>1, <2>1 DEF CopyCandidate, TypeOK
    <3> QED BY <1>1, <2>1, <3>1 DEF CopyCandidate, Helper, HelperPcs
  <2>2. CASE CopySignature
    <3>1. sig \in Versions /\ helper.work # None
      BY <1>1, <2>2 DEF CopySignature, TypeOK, Inv, HelperSound, At
    <3> QED BY <1>1, <2>2, <3>1 DEF CopySignature, Helper, HelperPcs
  <2> QED BY <2>1, <2>2
<1>3. TypeOK'
  BY <1>1, <1>2 DEF TypeOK, files, manager, history, bounds
<1>4. HelperSound' /\ FilesVerified'
  BY <1>1, <1>2 DEF Inv, HelperSound, FilesVerified, InstalledVerified, files,
    history, BeforeSwap, Swapped, RestoredBack
<1>5. StatusAnnounced' /\ RestoreOwed'
  BY <1>1, <1>2 DEF Inv, StatusAnnounced, StatusTruthful, RestoreOwed, files,
    history, bounds, Swapped
<1>6. Maintenance'
  BY <1>1, <1>2, <1>3, HelperInMaintenance DEF files, manager, history
<1> QED BY <1>3, <1>4, <1>5, <1>6 DEF Inv

LEMMA VerifyKeeps ==
  ASSUME Inv, Verify
  PROVE  Inv'
<1> DEFINE pc == IF Accepts(helper) THEN "announce" ELSE "refuse"
<1>1. /\ UNCHANGED <<files, manager, healthy, confirmed, restoreTried, gaveUp, bounds>>
      /\ TypeOK /\ helper \in Helper /\ helper.pc = "verify" /\ Goto(pc)
      /\ verified \subseteq verified' /\ verified' \subseteq verified \cup {helper.work}
      /\ helper.signed => helper.work \in verified'
  BY DEF Verify, At, Inv, TypeOK
<1>2. /\ pc \in {"announce", "refuse"}
      /\ pc = "announce" => helper.signed /\ helper.work = helper.ver
  BY DEF Accepts
<1> HIDE DEF pc
<1>3. /\ helper' \in Helper /\ helper'.pc = pc /\ helper'.ver = helper.ver
      /\ helper'.cur = helper.cur /\ helper'.work = helper.work
      /\ helper'.installed = helper.installed
      /\ helper'.trapped = helper.trapped /\ helper'.cleaned = helper.cleaned
  BY <1>1, <1>2, Moves DEF HelperPcs
<1>4. TypeOK'
  <2>1. verified' \subseteq Versions
    <3>1. verified' = IF helper.signed
                      THEN verified \cup {helper.work} ELSE verified
      BY DEF Verify
    <3>2. helper.work = None \/ helper.work \in Versions
      BY <1>1 DEF Helper
    <3>3. helper.work # None
      BY <1>1 DEF Inv, HelperSound
    <3> QED BY <1>1, <3>1, <3>2, <3>3 DEF TypeOK
  <2> QED BY <1>1, <1>3, <2>1 DEF TypeOK, files, manager, bounds
<1>5. HelperSound' /\ FilesVerified'
  BY <1>1, <1>2, <1>3 DEF Inv, HelperSound, FilesVerified, InstalledVerified, files,
    BeforeSwap, Swapped, RestoredBack
<1>6. StatusAnnounced' /\ RestoreOwed'
  BY <1>1, <1>2, <1>3 DEF Inv, StatusAnnounced, StatusTruthful, RestoreOwed, files,
    bounds, Swapped
<1>7. Maintenance'
  BY <1>1, <1>2, <1>3, HelperInMaintenance DEF files, manager
<1> QED BY <1>4, <1>5, <1>6, <1>7 DEF Inv

(* write_status. *)
LEMMA WriteKeeps ==
  ASSUME Inv,
         \/ Refuse \/ Announce \/ Succeed \/ AnnounceBack \/ RolledBack \/ BothFailed
  PROVE  Inv'
<1>1. /\ UNCHANGED <<binary, backup, request, candidate, sig, manager, history, bounds>>
      /\ TypeOK /\ helper \in Helper /\ helper.pc # "idle"
  BY DEF Refuse, Announce, Succeed, AnnounceBack, RolledBack, BothFailed, WriteStatus,
    At, Inv, TypeOK
<1>2. PICK pc, state :
         /\ Goto(pc) /\ statusFile' = state
         /\ \/ helper.pc = "refuse" /\ state = "failed" /\ pc = "cleanup"
            \/ helper.pc = "announce" /\ state = "installing" /\ pc = "backup"
            \/ helper.pc = "succeed" /\ state = "succeeded" /\ pc = "cleanup"
            \/ helper.pc = "rolling" /\ state = "rolling_back" /\ pc = "restore"
            \/ helper.pc = "rolledback" /\ state = "rolled_back" /\ pc = "cleanup"
            \/ helper.pc = "failed" /\ state = "failed" /\ pc = "cleanup"
  BY DEF Refuse, Announce, Succeed, AnnounceBack, RolledBack, BothFailed, WriteStatus,
    Statuses, At
<1>3. /\ helper' \in Helper /\ helper'.pc = pc /\ helper'.ver = helper.ver
      /\ helper'.cur = helper.cur /\ helper'.work = helper.work
      /\ helper'.installed = helper.installed
      /\ helper'.trapped = helper.trapped /\ helper'.cleaned = helper.cleaned
  <2>1. pc \in HelperPcs
    BY <1>2 DEF HelperPcs
  <2> QED BY <1>1, <1>2, <2>1, Moves
<1>4. TypeOK'
  <2>1. statusFile' \in {"none", "installing", "rolling_back"} \cup Terminal
    BY <1>2 DEF Terminal
  <2> QED BY <1>1, <1>3, <2>1 DEF TypeOK, manager, history, bounds
<1>5. HelperSound' /\ FilesVerified'
  BY <1>1, <1>2, <1>3 DEF Inv, HelperSound, FilesVerified, InstalledVerified, history,
    BeforeSwap, Swapped, RestoredBack
<1>6. StatusAnnounced'
  <2>1. helper.pc = "rolledback" => binary = helper.cur
    BY DEF Inv, HelperSound, RestoredBack
  <2> QED
    BY <1>1, <1>2, <1>3, <2>1 DEF Inv, StatusAnnounced, StatusTruthful, history, Swapped
<1>7. RestoreOwed'
  BY <1>1, <1>2, <1>3 DEF Inv, RestoreOwed, StatusAnnounced, history, bounds, Swapped
<1>8. Maintenance'
  BY <1>1, <1>2, <1>3, HelperInMaintenance DEF manager, history
<1> QED BY <1>4, <1>5, <1>6, <1>7, <1>8 DEF Inv

(* The saved binary and the swap. *)
LEMMA BackupKeeps ==
  ASSUME Inv, Backup
  PROVE  Inv'
<1>1. /\ UNCHANGED <<binary, request, candidate, sig, statusFile, manager, history, bounds>>
      /\ backup' = binary /\ TypeOK /\ helper \in Helper /\ helper.pc = "backup"
      /\ Goto("swap")
  BY DEF Backup, Previous, At, Inv, TypeOK
<1>2. /\ helper' \in Helper /\ helper'.pc = "swap" /\ helper'.ver = helper.ver
      /\ helper'.cur = helper.cur /\ helper'.work = helper.work
      /\ helper'.installed = helper.installed
      /\ helper'.trapped = helper.trapped /\ helper'.cleaned = helper.cleaned
  BY <1>1, Moves DEF HelperPcs
<1>3. TypeOK'
  BY <1>1, <1>2 DEF TypeOK, manager, history, bounds
<1>4. HelperSound' /\ FilesVerified'
  BY <1>1, <1>2 DEF Inv, HelperSound, FilesVerified, InstalledVerified, history,
    BeforeSwap, Swapped, RestoredBack
<1>5. StatusAnnounced' /\ RestoreOwed'
  BY <1>1, <1>2 DEF Inv, StatusAnnounced, StatusTruthful, RestoreOwed, history, bounds,
    Swapped
<1>6. Maintenance'
  BY <1>1, <1>2, <1>3, HelperInMaintenance DEF manager, history
<1> QED BY <1>3, <1>4, <1>5, <1>6 DEF Inv

LEMMA SwapKeeps ==
  ASSUME Inv, Swap
  PROVE  Inv'
<1>1. /\ UNCHANGED <<backup, request, candidate, sig, statusFile, manager, healthy,
                     verified, confirmed, gaveUp, bounds>>
      /\ binary' = helper.work /\ restoreTried' = FALSE
      /\ TypeOK /\ helper \in Helper /\ helper.pc = "swap"
      /\ helper' = [helper EXCEPT !.pc = "restart", !.installed = TRUE]
  BY DEF Swap, At, Inv, TypeOK
<1>2. /\ helper.work = helper.ver /\ helper.work \in verified
      /\ backup = helper.cur /\ helper.cur < helper.ver
  BY <1>1 DEF Inv, HelperSound, BeforeSwap
<1>3. helper.ver \in Versions /\ helper.cur \in Versions
  BY <1>1 DEF Helper
<1>4. /\ helper' \in Helper /\ helper'.pc = "restart" /\ helper'.installed
      /\ helper'.cur = helper.cur /\ helper'.work = helper.work
      /\ helper'.trapped = helper.trapped /\ helper'.cleaned = helper.cleaned
  BY <1>1 DEF Helper, HelperPcs
<1>5. TypeOK'
  <2>1. {restoreTried', gaveUp'} \subseteq BOOLEAN
    BY <1>1, Zenon DEF TypeOK
  <2> QED BY <1>1, <1>2, <1>3, <1>4, <2>1 DEF TypeOK, manager, bounds
<1>6. HelperSound'
  BY <1>1, <1>2, <1>3, <1>4, VersionTypes
  DEF Inv, HelperSound, BeforeSwap, Swapped, RestoredBack
<1>7. FilesVerified' /\ StatusAnnounced' /\ RestoreOwed'
  BY <1>1, <1>2, <1>4 DEF Inv, FilesVerified, InstalledVerified, StatusAnnounced,
    StatusTruthful, RestoreOwed, bounds, Swapped
<1>8. Maintenance'
  BY <1>1, <1>4, HelperInMaintenance DEF manager
<1> QED BY <1>5, <1>6, <1>7, <1>8 DEF Inv

(* systemctl restart ends the tasks and operations of the old process. *)
LEMMA RestartKeeps ==
  ASSUME Inv, RestartNew \/ RestartOld
  PROVE  Inv'
<1>1. /\ UNCHANGED <<files, history, bounds>> /\ TypeOK /\ helper \in Helper
      /\ \E v \in Versions \cup {None} : ProcessBecomes(v)
  BY DEF RestartNew, RestartOld, Restart, Inv, TypeOK
<1>2. PICK pc : /\ Goto(pc)
                /\ \/ helper.pc = "restart" /\ pc = "watch"
                   \/ helper.pc = "restartold" /\ pc = "watchold"
  BY DEF RestartNew, RestartOld, Restart, At
<1>3. /\ helper' \in Helper /\ helper'.pc = pc /\ helper'.ver = helper.ver
      /\ helper'.cur = helper.cur /\ helper'.work = helper.work
      /\ helper'.installed = helper.installed
      /\ helper'.trapped = helper.trapped /\ helper'.cleaned = helper.cleaned
  <2>1. pc \in HelperPcs
    BY <1>2 DEF HelperPcs
  <2> QED BY <1>1, <1>2, <2>1, Moves
<1>4. TypeOK'
  BY <1>1, <1>3, ProcessType DEF TypeOK, files, history, bounds
<1>5. HelperSound' /\ FilesVerified'
  BY <1>1, <1>2, <1>3 DEF Inv, HelperSound, FilesVerified, InstalledVerified, files,
    history, BeforeSwap, Swapped, RestoredBack
<1>6. StatusAnnounced' /\ RestoreOwed'
  BY <1>1, <1>2, <1>3 DEF Inv, StatusAnnounced, StatusTruthful, RestoreOwed, files,
    history, bounds, Swapped
<1>7. Maintenance'
  BY <1>1, <1>2, <1>3, VersionTypes DEF Inv, Maintenance, ProcessBecomes, files, history
<1> QED BY <1>4, <1>5, <1>6, <1>7 DEF Inv

LEMMA WatchKeeps ==
  ASSUME Inv, WatchNew \/ WatchOld
  PROVE  Inv'
<1>1. /\ UNCHANGED <<files, manager, healthy, verified, restoreTried, gaveUp, bounds>>
      /\ TypeOK /\ helper \in Helper /\ confirmed' \in {confirmed, binary}
  BY DEF WatchNew, WatchOld, Watch, Inv, TypeOK
<1>2. PICK pc : /\ Goto(pc)
                /\ \/ helper.pc = "watch" /\ pc \in {"succeed", "rolling"}
                   \/ helper.pc = "watchold" /\ pc \in {"rolledback", "failed"}
                /\ pc \in {"succeed", "rolledback"} => confirmed' = binary
  BY DEF WatchNew, WatchOld, Watch, At
<1>3. /\ helper' \in Helper /\ helper'.pc = pc /\ helper'.ver = helper.ver
      /\ helper'.cur = helper.cur /\ helper'.work = helper.work
      /\ helper'.installed = helper.installed
      /\ helper'.trapped = helper.trapped /\ helper'.cleaned = helper.cleaned
  <2>1. pc \in HelperPcs
    BY <1>2 DEF HelperPcs
  <2> QED BY <1>1, <1>2, <2>1, Moves
<1>4. TypeOK'
  BY <1>1, <1>3 DEF TypeOK, files, manager, bounds
<1>5. HelperSound' /\ FilesVerified'
  BY <1>1, <1>2, <1>3 DEF Inv, HelperSound, FilesVerified, InstalledVerified, files,
    BeforeSwap, Swapped, RestoredBack
<1>6. StatusAnnounced' /\ RestoreOwed'
  BY <1>1, <1>2, <1>3 DEF Inv, StatusAnnounced, StatusTruthful, RestoreOwed, files,
    bounds, Swapped
<1>7. Maintenance'
  BY <1>1, <1>2, <1>3, HelperInMaintenance DEF files, manager
<1> QED BY <1>4, <1>5, <1>6, <1>7 DEF Inv

(* restore_previous, whether it gets to its restart or not. *)
LEMMA RestoreKeeps ==
  ASSUME Inv, Restore \/ RestoreFails
  PROVE  Inv'
<1>1. /\ UNCHANGED <<backup, request, candidate, sig, statusFile, manager, healthy,
                     verified, confirmed, gaveUp, killed>>
      /\ restoreTried' = TRUE /\ TypeOK /\ helper \in Helper /\ helper.pc = "restore"
      /\ events' \in 0 .. MaxEvents
  BY UpdateAssumption DEF Restore, RestoreFails, Counted, At, Inv, TypeOK, files, bounds
<1>2. PICK pc : /\ Goto(pc)
                /\ \/ pc = "restartold" /\ binary' = backup
                   \/ pc = "failed" /\ binary' = binary
  BY DEF Restore, RestoreFails, files
<1>3. /\ helper' \in Helper /\ helper'.pc = pc /\ helper'.ver = helper.ver
      /\ helper'.cur = helper.cur /\ helper'.work = helper.work
      /\ helper'.installed = helper.installed
      /\ helper'.trapped = helper.trapped /\ helper'.cleaned = helper.cleaned
  <2>1. pc \in HelperPcs
    BY <1>2 DEF HelperPcs
  <2> QED BY <1>1, <1>2, <2>1, Moves
<1>4. helper.installed /\ backup = helper.cur /\ helper.cur \in Versions
  BY <1>1 DEF Inv, HelperSound, Swapped, Helper
<1>5. TypeOK'
  <2>1. {restoreTried', gaveUp'} \subseteq BOOLEAN
    BY <1>1, Zenon DEF TypeOK
  <2>2. binary' \in Versions
    BY <1>1, <1>2, <1>4 DEF TypeOK
  <2> QED BY <1>1, <1>3, <2>1, <2>2 DEF TypeOK, manager
<1>6. HelperSound'
  BY <1>1, <1>2, <1>3, <1>4 DEF Inv, HelperSound, BeforeSwap, Swapped, RestoredBack
<1>7. FilesVerified'
  BY <1>1, <1>2, <1>4, VersionTypes DEF Inv, FilesVerified, InstalledVerified
<1>8. StatusAnnounced' /\ RestoreOwed'
  BY <1>1, <1>2, <1>3, <1>4
  DEF Inv, StatusAnnounced, StatusTruthful, RestoreOwed, Swapped
<1>9. Maintenance'
  BY <1>1, <1>2, <1>3, HelperInMaintenance DEF manager
<1> QED BY <1>5, <1>6, <1>7, <1>8, <1>9 DEF Inv

(* An error that changes no file: the trap takes over. *)
LEMMA ErrKeeps ==
  ASSUME Inv, CommandErr
  PROVE  Inv'
<1>1. /\ UNCHANGED <<files, manager, history, killed>> /\ TypeOK
      /\ helper' = Trapped(helper)
      /\ helper.pc \in {"copy", "copysig", "verify", "backup", "swap", "rmdir"}
      /\ helper.pc = "rmdir" => helper.installed
      /\ events' \in 0 .. MaxEvents
  BY UpdateAssumption DEF CommandErr, Counted, At, Inv, TypeOK
<1>2. /\ helper' \in Helper /\ helper'.trapped /\ helper'.cleaned = helper.cleaned
      /\ helper'.cur = helper.cur /\ helper'.work = helper.work
      /\ helper'.installed = helper.installed /\ helper'.ver = helper.ver
      /\ helper'.pc = IF helper.installed THEN "restore" ELSE "refuse"
  BY <1>1, TrapMoves
<1>3. TypeOK'
  BY <1>1, <1>2 DEF TypeOK, files, manager, history
<1>4. HelperSound' /\ FilesVerified'
  BY <1>1, <1>2 DEF Inv, HelperSound, FilesVerified, InstalledVerified, files, history,
    BeforeSwap, Swapped, RestoredBack
<1>5. StatusAnnounced' /\ RestoreOwed'
  BY <1>1, <1>2 DEF Inv, StatusAnnounced, StatusTruthful, RestoreOwed, files, history,
    Swapped
<1>6. Maintenance'
  BY <1>1, <1>2, HelperInMaintenance DEF files, manager, history
<1> QED BY <1>3, <1>4, <1>5, <1>6 DEF Inv

(* A failing write: the old status, the new one or, in the trap, an unreadable *)
(* one.                                                                        *)
LEMMA WriteErrKeeps ==
  ASSUME Inv, WriteErr
  PROVE  Inv'
<1>1. /\ UNCHANGED <<binary, backup, request, candidate, sig, manager, history, killed>>
      /\ TypeOK /\ helper \in Helper /\ events' \in 0 .. MaxEvents
      /\ helper.pc \in DOMAIN Statuses
  BY UpdateAssumption DEF WriteErr, Counted, Inv, TypeOK
<1>2. /\ helper.pc \in {"refuse", "announce", "succeed", "rolling", "rolledback",
                         "failed"}
      /\ helper.pc = "succeed" => Statuses[helper.pc] = "succeeded"
      /\ helper.pc = "rolledback" => Statuses[helper.pc] = "rolled_back"
      /\ helper.pc \notin {"succeed", "rolledback"} =>
            Statuses[helper.pc] \in {"failed", "installing", "rolling_back"}
  BY <1>1 DEF Statuses
<1>3. CASE ~helper.trapped
  <2>1. /\ helper' = Trapped(helper)
        /\ statusFile' \in {statusFile, Statuses[helper.pc]}
    BY <1>3 DEF WriteErr
  <2>2. /\ helper' \in Helper /\ helper'.trapped /\ helper'.cleaned = helper.cleaned
        /\ helper'.cur = helper.cur /\ helper'.work = helper.work
        /\ helper'.installed = helper.installed
        /\ helper'.pc = IF helper.installed THEN "restore" ELSE "refuse"
    BY <2>1, TrapMoves
  <2>3. TypeOK'
    <3>1. statusFile' \in {"none", "installing", "rolling_back"} \cup Terminal
      BY <1>1, <1>2, <2>1 DEF TypeOK, Terminal
    <3> QED BY <1>1, <2>2, <3>1 DEF TypeOK, manager, history
  <2>4. HelperSound' /\ FilesVerified'
    BY <1>1, <1>2, <2>2 DEF Inv, HelperSound, FilesVerified, InstalledVerified, history,
      BeforeSwap, Swapped, RestoredBack
  <2>5. StatusAnnounced'
    <3>1. helper.pc = "rolledback" => binary = helper.cur
      BY DEF Inv, HelperSound, RestoredBack
    <3> QED
      BY <1>1, <1>2, <2>1, <2>2, <3>1
      DEF Inv, StatusAnnounced, StatusTruthful, history, Swapped
  <2>6. RestoreOwed'
    <3>1. helper.pc = "refuse" => ~helper.installed
      BY DEF Inv, HelperSound
    <3>2. helper.pc = "rolling" => helper.installed
      BY DEF Inv, HelperSound, Swapped
    <3> QED BY <1>1, <1>2, <2>2, <3>1, <3>2 DEF Inv, RestoreOwed, history
  <2>7. Maintenance'
    BY <1>1, <1>2, <2>2, HelperInMaintenance DEF manager, history
  <2> QED BY <2>3, <2>4, <2>5, <2>6, <2>7 DEF Inv
<1>4. CASE helper.trapped
  <2>1. /\ Goto("cleanup") /\ statusFile' \in {statusFile, "none"}
        /\ helper.pc \in {"refuse", "rolledback", "failed"}
    BY <1>2, <1>4 DEF WriteErr, Inv, HelperSound, BeforeSwap, Swapped
  <2>2. /\ helper' \in Helper /\ helper'.pc = "cleanup" /\ helper'.ver = helper.ver
        /\ helper'.cur = helper.cur /\ helper'.work = helper.work
        /\ helper'.installed = helper.installed
        /\ helper'.trapped = helper.trapped /\ helper'.cleaned = helper.cleaned
    BY <1>1, <2>1, Moves DEF HelperPcs
  <2>3. TypeOK'
    BY <1>1, <2>1, <2>2 DEF TypeOK, manager, history
  <2>4. HelperSound' /\ FilesVerified'
    BY <1>1, <2>2 DEF Inv, HelperSound, FilesVerified, InstalledVerified, history,
      BeforeSwap, Swapped, RestoredBack
  <2>5. StatusAnnounced' /\ RestoreOwed'
    BY <1>1, <2>1, <2>2 DEF Inv, StatusAnnounced, StatusTruthful, RestoreOwed, history,
      Swapped
  <2>6. Maintenance'
    BY <1>1, <2>1, <2>2, HelperInMaintenance DEF manager, history
  <2> QED BY <2>3, <2>4, <2>5, <2>6 DEF Inv
<1> QED BY <1>3, <1>4

(* cleanup_staged, complete or in part: the request may be gone, and from here *)
(* on only the trap works without one.                                         *)
LEMMA CleanupKeeps ==
  ASSUME Inv, Cleanup \/ CleanupErr
  PROVE  Inv'
<1>1. /\ UNCHANGED <<binary, backup, statusFile, manager, history, killed>>
      /\ TypeOK /\ helper \in Helper /\ helper.pc = "cleanup"
      /\ request' \in {request, None} /\ candidate' \in {candidate, None}
      /\ sig' \in {sig, None} /\ events' \in 0 .. MaxEvents
  BY UpdateAssumption DEF Cleanup, RemoveStaged, CleanupErr, Counted, At, Inv, TypeOK, bounds
<1>2. /\ helper' \in Helper /\ helper'.cleaned
      /\ helper'.cur = helper.cur /\ helper'.work = helper.work
      /\ helper'.installed = helper.installed
      /\ \/ helper'.pc = "rmdir"
         \/ /\ helper'.trapped
            /\ helper'.pc = IF helper.installed THEN "restore" ELSE "refuse"
  <2>1. CASE Cleanup
    BY <1>1, <2>1 DEF Cleanup, Helper, HelperPcs
  <2>2. CASE CleanupErr /\ helper.trapped
    <3>1. helper' = [[helper EXCEPT !.pc = "rmdir"] EXCEPT !.cleaned = TRUE]
      BY <2>2 DEF CleanupErr
    <3> QED BY <1>1, <3>1 DEF Helper, HelperPcs
  <2>3. CASE CleanupErr /\ ~helper.trapped
    <3>1. helper' = [Trapped(helper) EXCEPT !.cleaned = TRUE]
      BY <2>3 DEF CleanupErr
    <3>2. OnErr(helper) = IF helper.installed THEN "restore" ELSE "refuse"
      BY <1>1, VersionTypes DEF OnErr, Inv, HelperSound, Helper
    <3>3. OnErr(helper) \in HelperPcs
      BY <3>2 DEF HelperPcs
    <3> QED BY <1>1, <3>1, <3>2, <3>3 DEF Trapped, Helper
  <2> QED BY <2>1, <2>2, <2>3
<1>3. TypeOK'
  BY <1>1, <1>2 DEF TypeOK, manager, history
<1>4. HelperSound' /\ FilesVerified'
  BY <1>1, <1>2 DEF Inv, HelperSound, FilesVerified, InstalledVerified, history,
    BeforeSwap, Swapped, RestoredBack
<1>5. StatusAnnounced' /\ RestoreOwed'
  BY <1>1, <1>2 DEF Inv, StatusAnnounced, StatusTruthful, RestoreOwed, history, Swapped
<1>6. Maintenance'
  BY <1>1, <1>2 DEF Inv, Maintenance, manager, history
<1> QED BY <1>3, <1>4, <1>5, <1>6 DEF Inv

(* A restart that does not get through leaves everything as it is. *)
LEMMA RestartFailsKeeps ==
  ASSUME Inv, RestartFails
  PROVE  Inv'
<1>1. /\ UNCHANGED <<files, manager, history, killed>> /\ TypeOK
      /\ helper \in Helper /\ events' \in 0 .. MaxEvents
  BY UpdateAssumption DEF RestartFails, Counted, Inv, TypeOK
<1>2. PICK pc : /\ Goto(pc)
                /\ \/ helper.pc = "restart" /\ pc = "rolling"
                   \/ helper.pc = "restartold" /\ pc = "failed"
  BY DEF RestartFails, At
<1>3. /\ helper' \in Helper /\ helper'.pc = pc /\ helper'.ver = helper.ver
      /\ helper'.cur = helper.cur /\ helper'.work = helper.work
      /\ helper'.installed = helper.installed
      /\ helper'.trapped = helper.trapped /\ helper'.cleaned = helper.cleaned
  <2>1. pc \in HelperPcs
    BY <1>2 DEF HelperPcs
  <2> QED BY <1>1, <1>2, <2>1, Moves
<1>4. TypeOK'
  BY <1>1, <1>3 DEF TypeOK, files, manager, history
<1>5. HelperSound' /\ FilesVerified'
  BY <1>1, <1>2, <1>3 DEF Inv, HelperSound, FilesVerified, InstalledVerified, files,
    history, BeforeSwap, Swapped, RestoredBack
<1>6. StatusAnnounced' /\ RestoreOwed'
  BY <1>1, <1>2, <1>3 DEF Inv, StatusAnnounced, StatusTruthful, RestoreOwed, files,
    history, Swapped
<1>7. Maintenance'
  BY <1>1, <1>2, <1>3, HelperInMaintenance DEF files, manager, history
<1> QED BY <1>4, <1>5, <1>6, <1>7 DEF Inv

(* The script ends, or is killed anywhere. *)
LEMMA HelperEnds ==
  ASSUME Inv, RemoveWork \/ HelperKilled
  PROVE  Inv'
<1>1. /\ UNCHANGED <<files, manager, history>> /\ TypeOK /\ helper' = IdleHelper
      /\ \/ killed' = killed /\ helper.pc = "rmdir"
         \/ killed' = TRUE
      /\ events' \in 0 .. MaxEvents
  BY UpdateAssumption DEF RemoveWork, HelperKilled, Counted, At, Inv, TypeOK, bounds
<1>2. /\ helper' \in Helper /\ helper'.pc = "idle" /\ ~helper'.installed
      /\ ~helper'.trapped /\ ~helper'.cleaned
  BY <1>1, VersionTypes
<1>3. TypeOK'
  <2>1. killed' \in BOOLEAN
    BY <1>1, Zenon DEF TypeOK
  <2> QED BY <1>1, <1>2, <2>1 DEF TypeOK, files, manager, history
<1>4. HelperSound' /\ FilesVerified'
  BY <1>1, <1>2 DEF Inv, HelperSound, FilesVerified, InstalledVerified, files, history,
    BeforeSwap, Swapped, RestoredBack
<1>5. StatusAnnounced'
  BY <1>1, <1>2 DEF Inv, StatusAnnounced, StatusTruthful, files, history, Swapped
<1>6. RestoreOwed'
  BY <1>1, <1>2 DEF Inv, RestoreOwed, files, history
<1>7. Maintenance'
  BY <1>1, <1>2 DEF Inv, Maintenance, files, manager, history
<1> QED BY <1>3, <1>4, <1>5, <1>6, <1>7 DEF Inv

LEMMA NextInv == Inv /\ [Next]_vars => Inv'
<1> SUFFICES ASSUME Inv, [Next]_vars PROVE Inv'
  OBVIOUS
<1>1. CASE UNCHANGED vars
  <2>1. UNCHANGED <<helperVars, files, manager, helper, history, bounds>>
    BY <1>1 DEF vars, helperVars, files, history, bounds
  <2>2. TypeOK' /\ Maintenance'
    BY <2>1 DEF Inv, TypeOK, Maintenance, files, manager, history, bounds
  <2> QED BY <2>1, <2>2, HelperUndisturbed DEF Inv
<1>2. CASE TaskStep \/ StageFails \/ \E v \in Versions : Begin(v)
  BY <1>2, PrepareKeeps, ManagerKeeps DEF TaskStep
<1>3. CASE HelperStep
  BY <1>3, StartKeeps, CopyKeeps, VerifyKeeps, WriteKeeps, BackupKeeps, SwapKeeps,
     RestartKeeps, WatchKeeps, RestoreKeeps, CleanupKeeps, HelperEnds DEF HelperStep
<1>4. CASE HelperFails
  BY <1>4, ErrKeeps, WriteErrKeeps, CleanupKeeps, RestartFailsKeeps, RestoreKeeps
  DEF HelperFails
<1> QED BY <1>1, <1>2, <1>3, <1>4, ManagerKeeps, HelperEnds DEF Next

-----------------------------------------------------------------------------
(* The inductive invariant: what the helper holds, the files it changes, the   *)
(* status it writes and maintenance mode fit together after every step of the  *)
(* manager and the helper, crashes, kills and failed commands included.        *)
THEOREM UpdateFits == Spec => []Inv
<1> QED BY InitInv, NextInv, PTL DEF Spec

(* install_candidate (deploy/windplume-deploy-update): only a version whose     *)
(* signature was verified is ever installed, and until it has proved itself the *)
(* saved binary is the one that ran before.                                     *)
THEOREM BinariesStaySound == Spec => []BinariesSound
<1>1. Inv => BinariesSound
  BY DEF Inv, HelperSound, FilesVerified, BinariesSound, BackupIsPrevious
<1> QED BY <1>1, UpdateFits, PTL

(* status.json (write_status in the helper, read by UpdateManager::status) says *)
(* succeeded or rolled_back only of the binary that last proved to stay up.     *)
THEOREM StatusIsTruthful == Spec => []StatusTruthful
<1>1. Inv => StatusTruthful
  BY DEF Inv, StatusAnnounced
<1> QED BY <1>1, UpdateFits, PTL

(* is_active (update.rs): no project operation overlaps the helper unless the   *)
(* manager had given up waiting for it.                                         *)
THEOREM OperationsExcluded == Spec => []UpdateExcludesOperations
<1>1. Inv => UpdateExcludesOperations
  BY DEF Inv, Maintenance, UpdateExcludesOperations
<1> QED BY <1>1, UpdateFits, PTL

(* The ERR trap of the helper: no error leaves an unproved version installed    *)
(* without a try to restore the previous one, unless the helper was killed.     *)
THEOREM ErrorsAreRestored == Spec => []ErrorsRestore
<1>1. Inv => ErrorsRestore
  BY DEF Inv, RestoreOwed, ErrorsRestore, Swapped
<1> QED BY <1>1, UpdateFits, PTL
=============================================================================
