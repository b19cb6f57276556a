-------------------------- MODULE MaintenanceProofs --------------------------
(***************************************************************************)
(* Cleanup and updates, for all projects, services, images and requests:   *)
(* while one of them works nothing else does, the active flag has one      *)
(* owner, and no image is removed that a managed service needs or that is  *)
(* not of its repositories.  The argument: a request that works has every  *)
(* permit, an operation has its project's, so what a cleanup read under    *)
(* its permits is still so at every removal.                               *)
(***************************************************************************)
EXTENDS Maintenance, TLAPS

OpTyped ==
    \A p \in Projects :
        /\ op[p].pc \in {"begun", "pulled", "up", "committed", "down"}
              => op[p].service \in Services
        /\ op[p].pc \in {"begun", "pulled", "up"} => op[p].image \in Images

OpPermits == \A p \in Projects : op[p].pc # "none" => holder[p] = Op

CleanupPermits ==
    \A r \in Cleanups :
        /\ cleanup[r].pc = "acquiring" =>
              \A p \in Projects \ cleanup[r].left : holder[p] = r
        /\ CleanupWorks(r) => \A p \in Projects : holder[p] = r

UpdatePermits ==
    \A u \in Updates :
        /\ update[u].pc = "acquiring" =>
              \A p \in Projects \ update[u].left : holder[p] = u
        /\ UpdateWorks(u) => \A p \in Projects : holder[p] = u

Needed(s) == {base[s].current, base[s].rollback}

(* What a cleanup has read is still so. *)
Snapshot(r) ==
    LET c == cleanup[r] IN
    /\ c.pc \in {"protecting", "listing", "counting", "removing"}
          => c.services = managed
    /\ c.pc = "protecting" =>
          \A s \in managed : ProjectOf[s] \notin c.left
              => Needed(s) \ {NoImage} \subseteq c.protected
    /\ c.pc = "listing" =>
          \A s \in managed : Needed(s) \ {NoImage} \subseteq c.protected
    /\ c.pc \in {"counting", "removing"} =>
          \A i \in c.candidates :
              /\ \A s \in managed : i \notin Needed(s)
              /\ \E s \in managed : RepositoryOf[s] = RepositoryOf[i]
    /\ c.pc = "removing" => c.requested \subseteq c.candidates

Snapshots == \A r \in Cleanups : Snapshot(r)

Inv ==
    TypeOK /\ OpTyped /\ OpPermits /\ CleanupPermits /\ UpdatePermits
    /\ ActiveOwned /\ Snapshots

WorkingPcs == {"pruning", "protecting", "listing", "counting", "removing"}

-----------------------------------------------------------------------------
LEMMA InitInv == Init => Inv
  <1> SUFFICES ASSUME Init PROVE Inv
    OBVIOUS
  <1> USE MaintenanceAssumption
  <1>1. TypeOK
    <2>1. op \in [Projects -> OpState]
      BY DEF Init, NoOp, OpState
    <2>2. cleanup \in [Cleanups -> CleanupState]
      BY DEF Init, Fresh, CleanupState
    <2>3. holder \in [Projects -> Holders]
      BY DEF Init, Holders
    <2>4. update \in [Updates -> UpdateState]
      BY DEF Init, UpdateState
    <2>5. base \in [Services -> [current : Images \cup {NoImage},
                                rollback : Images \cup {NoImage}]]
      BY DEF Init
    <2>6. /\ container \in [Services \cup {Manual} -> Images \cup {NoImage}]
          /\ managed \subseteq Services /\ present \subseteq Images
          /\ several \subseteq present
      BY DEF Init, docker
    <2>7. ops \in 0 .. MaxOps /\ hands \in 0 .. MaxByHand
      BY DEF Init
    <2>9. active \in BOOLEAN
      BY DEF Init
    <2>8. rank \in [Projects -> 1 .. Cardinality(Projects)]
      BY DEF Init
    <2> QED
      BY <2>1, <2>2, <2>3, <2>4, <2>5, <2>6, <2>7, <2>8, <2>9
      DEF TypeOK
  <1>2. OpTyped /\ OpPermits
    BY DEF Init, OpTyped, OpPermits, NoOp
  <1>3. CleanupPermits /\ UpdatePermits /\ ActiveOwned
    BY DEF Init, CleanupPermits, UpdatePermits, ActiveOwned, CleanupWorks,
           UpdateWorks, Fresh
  <1>4. Snapshots
    BY DEF Init, Snapshots, Snapshot, Fresh
  <1> QED
    BY <1>1, <1>2, <1>3, <1>4 DEF Inv

(* An operation or a refresh runs only where no cleanup and no update works. *)
LEMMA OpExcludes ==
  ASSUME Inv, NEW p \in Projects, op[p].pc # "none"
  PROVE  /\ holder[p] = Op
         /\ \A r \in Cleanups : cleanup[r].pc \notin WorkingPcs
         /\ \A u \in Updates : update[u].pc # "preparing"
  <1>1. holder[p] = Op
    BY DEF Inv, OpPermits
  <1>2. Op \notin Cleanups \cup Updates
    BY MaintenanceAssumption
  <1> QED
    BY <1>1, <1>2 DEF Inv, CleanupPermits, UpdatePermits, CleanupWorks, UpdateWorks,
                      WorkingPcs

-----------------------------------------------------------------------------
(* The types, action by action: what a record of op, cleanup or update becomes *)
(* is one again.                                                               *)
LEMMA TypeStep ==
  ASSUME TypeOK, OpTyped, [Next]_vars
  PROVE  TypeOK' /\ OpTyped'
  <1> USE MaintenanceAssumption
  <1>1. ASSUME NEW p \in Projects, NEW what \in OpState, Begin(p, what),
               /\ what.pc \in {"begun", "pulled", "up", "committed", "down"}
                     => what.service \in Services
               /\ what.pc \in {"begun", "pulled", "up"} => what.image \in Images
        PROVE  TypeOK' /\ OpTyped'
    <2>1. op' \in [Projects -> OpState] /\ OpTyped'
      BY <1>1 DEF Begin, TypeOK, OpTyped
    <2>2. holder' \in [Projects -> Holders]
      BY <1>1 DEF Begin, TypeOK, Holders
    <2>3. ops' \in 0 .. MaxOps
      BY <1>1 DEF Begin, TypeOK
    <2> QED
      BY <1>1, <2>1, <2>2, <2>3 DEF Begin, TypeOK, docker
  <1>2. CASE \E s \in Services : BeginDown(s) \/ \E i \in Images : BeginDeploy(s, i)
    BY <1>1, <1>2 DEF BeginDown, BeginDeploy, OpState
  <1>3. ASSUME NEW p \in Projects, BeginRefresh(p)
        PROVE  TypeOK' /\ OpTyped'
    BY <1>1, <1>3 DEF BeginRefresh, NoOp, OpState
  <1>4. ASSUME NEW p \in Projects, OperationStep(p)
        PROVE  TypeOK' /\ OpTyped'
    <2>1. CASE Pull(p)
      <3>1. op[p] \in OpState /\ op[p].image \in Images
        BY <2>1 DEF Pull, TypeOK, OpTyped
      <3>2. op' \in [Projects -> OpState] /\ OpTyped'
        BY <2>1, <3>1 DEF Pull, TypeOK, OpTyped, OpState
      <3> QED
        BY <2>1, <3>1, <3>2 DEF Pull, TypeOK
    <2>2. CASE Up(p)
      BY <2>2 DEF Up, TypeOK, OpTyped, OpState
    <2>3. CASE Commit(p)
      BY <2>3 DEF Commit, TypeOK, OpTyped, OpState, docker
    <2>4. CASE End(p)
      <3>1. op[p].service \in Services
        BY <2>4 DEF End, OpTyped
      <3>2. Leaves(p) \subseteq Images \cup {NoImage}
        BY <3>1 DEF Leaves, TypeOK
      <3> QED
        BY <2>4, <3>1, <3>2 DEF End, TypeOK, OpTyped, OpState, NoOp, Holders
    <2>5. CASE EndRefresh(p)
      BY <2>5 DEF EndRefresh, TypeOK, OpTyped, OpState, NoOp, Holders, docker, Of
    <2> QED
      BY <1>4, <2>1, <2>2, <2>3, <2>4, <2>5 DEF OperationStep
  <1>5. CASE ByHand
    BY <1>5 DEF ByHand, TypeOK, OpTyped
  <1>6. ASSUME NEW r \in Cleanups, NEW c \in CleanupState, Put(r, c)
        PROVE  cleanup' \in [Cleanups -> CleanupState]
    BY <1>6 DEF Put, TypeOK
  <1>7. ASSUME NEW r \in Cleanups, NEW images \in SUBSET Images,
               StartCleanup(r, images)
        PROVE  TypeOK' /\ OpTyped'
    <2>1. cleanup' \in [Cleanups -> CleanupState]
      BY <1>6, <1>7 DEF StartCleanup, CleanupState, Fresh
    <2> QED
      BY <1>7, <2>1 DEF StartCleanup, TypeOK, OpTyped, docker
  <1>8. ASSUME NEW r \in Cleanups, CleanupStep(r)
        PROVE  TypeOK' /\ OpTyped'
    <2>0. cleanup[r] \in CleanupState
      BY DEF TypeOK
    <2>1. CASE CleanupAcquires(r)
      <3>1. cleanup' \in [Cleanups -> CleanupState]
        BY <1>6, <2>0, <2>1 DEF CleanupAcquires, CleanupState, First, TypeOK
      <3>2. holder' \in [Projects -> Holders]
        BY <2>1 DEF CleanupAcquires, Kept, TypeOK, Holders
      <3> QED
        BY <2>1, <3>1, <3>2 DEF CleanupAcquires, TypeOK, OpTyped, docker
    <2>2. CASE Protect(r)
      <3>1. \A s \in managed : ProtectedOf(s) \subseteq Images
        BY DEF ProtectedOf, TypeOK
      <3>2. cleanup' \in [Cleanups -> CleanupState]
        <4>1. PICK p \in FirstHash(cleanup[r].left) : Put(r, [cleanup[r] EXCEPT
                !.protected = @ \cup UNION {ProtectedOf(s) : s \in managed \cap Of(p)},
                !.left = @ \ {p},
                !.pc = IF cleanup[r].left = {p} THEN "listing" ELSE @])
          BY <2>2 DEF Protect
        <4>2. UNION {ProtectedOf(s) : s \in managed \cap Of(p)} \subseteq Images
          BY <3>1
        <4> DEFINE more == UNION {ProtectedOf(s) : s \in managed \cap Of(p)}
        <4>3. more \subseteq Images
          BY <4>2
        <4> HIDE DEF more
        <4>4. [cleanup[r] EXCEPT !.protected = @ \cup more,
                 !.left = @ \ {p},
                 !.pc = IF cleanup[r].left = {p} THEN "listing" ELSE @] \in CleanupState
          BY <2>0, <4>3 DEF CleanupState
        <4> QED
          BY <1>6, <4>1, <4>4 DEF more
      <3> QED
        BY <2>2, <3>2 DEF Protect, TypeOK, OpTyped, docker
    <2>3. CASE List(r)
      <3>1. cleanup' \in [Cleanups -> CleanupState]
        BY <1>6, <2>0, <2>3 DEF List, Listed, CleanupState, TypeOK
      <3> QED
        BY <2>3, <3>1 DEF List, TypeOK, OpTyped, docker
    <2>4. CASE Count(r)
      <3>1. cleanup' \in [Cleanups -> CleanupState]
        BY <1>6, <2>0, <2>4 DEF Count, CleanupState
      <3> QED
        BY <2>4, <3>1 DEF Count, TypeOK, OpTyped, docker
    <2>5. CASE RemoveImage(r)
      <3>1. cleanup' \in [Cleanups -> CleanupState]
        BY <1>6, <2>0, <2>5 DEF RemoveImage, CleanupState
      <3> QED
        BY <2>5, <3>1 DEF RemoveImage, TypeOK, OpTyped
    <2>6. CASE StopCleanup(r)
      <3>1. cleanup' \in [Cleanups -> CleanupState]
        BY <1>6, <2>0, <2>6 DEF StopCleanup, CleanupState
      <3> QED
        BY <2>6, <3>1 DEF StopCleanup, TypeOK, OpTyped
    <2>7. CASE ReleaseCleanup(r)
      <3>1. cleanup' \in [Cleanups -> CleanupState]
        BY <1>6, <2>0, <2>7 DEF ReleaseCleanup, CleanupState, TypeOK
      <3>2. holder' \in [Projects -> Holders]
        BY <2>7 DEF ReleaseCleanup, TypeOK, Holders
      <3> QED
        BY <2>7, <3>1, <3>2 DEF ReleaseCleanup, TypeOK, OpTyped, docker
    <2> QED
      BY <1>8, <2>1, <2>2, <2>3, <2>4, <2>5, <2>6, <2>7 DEF CleanupStep
  <1>9. ASSUME NEW u \in Updates, StartUpdate(u) \/ UpdateStep(u)
        PROVE  TypeOK' /\ OpTyped'
    <2>0. update[u] \in UpdateState
      BY DEF TypeOK
    <2>1. CASE StartUpdate(u)
      <3>1. update' \in [Updates -> UpdateState]
        BY <2>0, <2>1 DEF StartUpdate, TypeOK, UpdateState
      <3>2. active' \in BOOLEAN
        BY <2>1 DEF StartUpdate, Begins, TypeOK
      <3> QED
        BY <2>1, <3>1, <3>2 DEF StartUpdate, TypeOK, OpTyped, docker
    <2>2. CASE UpdateAcquires(u)
      <3>1. update' \in [Updates -> UpdateState]
        <4>1. \A p \in Projects :
                /\ \A where \in {"preparing", "acquiring"} :
                     [pc |-> where, left |-> update[u].left \ {p}] \in UpdateState
                /\ [update[u] EXCEPT !.pc = "releasing"] \in UpdateState
          BY <2>0 DEF UpdateState
        <4>2. FirstHash(update[u].left) \subseteq Projects
          BY <2>0 DEF FirstHash, UpdateState
        <4>3. \E new \in UpdateState : update' = [update EXCEPT ![u] = new]
          BY <2>2, <4>1, <4>2 DEF UpdateAcquires
        <4> QED
          BY <4>3 DEF TypeOK
      <3>3. active' \in BOOLEAN
        BY <2>2 DEF UpdateAcquires, TypeOK
      <3>2. holder' \in [Projects -> Holders]
        BY <2>2 DEF UpdateAcquires, TypeOK, Holders
      <3> QED
        BY <2>2, <3>1, <3>2, <3>3 DEF UpdateAcquires, TypeOK, OpTyped, docker
    <2>3. CASE EndUpdate(u)
      <3>1. update' \in [Updates -> UpdateState] /\ active' \in BOOLEAN
        BY <2>3 DEF EndUpdate, TypeOK, UpdateState
      <3> QED
        BY <2>3, <3>1 DEF EndUpdate, TypeOK, OpTyped, docker
    <2>4. CASE ReleaseUpdate(u)
      <3>1. update' \in [Updates -> UpdateState]
        BY <2>0, <2>4 DEF ReleaseUpdate, TypeOK, UpdateState
      <3>2. holder' \in [Projects -> Holders]
        BY <2>4 DEF ReleaseUpdate, TypeOK, Holders
      <3> QED
        BY <2>4, <3>1, <3>2 DEF ReleaseUpdate, TypeOK, OpTyped, docker
    <2> QED
      BY <1>9, <2>1, <2>2, <2>3, <2>4 DEF UpdateStep
  <1>10. CASE UNCHANGED vars
    BY <1>10 DEF vars, docker, TypeOK, OpTyped
  <1> QED
    BY <1>2, <1>3, <1>4, <1>5, <1>7, <1>8, <1>9, <1>10 DEF Next

-----------------------------------------------------------------------------
(* Permits: who works has every one, and only the one who has a permit puts it *)
(* back.                                                                       *)
Permits == OpPermits /\ CleanupPermits /\ UpdatePermits

LEMMA PermitStep ==
  ASSUME Inv, [Next]_vars
  PROVE  Permits'
  <1> USE MaintenanceAssumption DEF Permits
  <1>0. /\ cleanup \in [Cleanups -> CleanupState] /\ update \in [Updates -> UpdateState]
        /\ holder \in [Projects -> Holders] /\ op \in [Projects -> OpState]
        /\ OpPermits /\ CleanupPermits /\ UpdatePermits
    BY DEF Inv, TypeOK
  <1>1. ASSUME NEW p \in Projects, NEW what, Begin(p, what)
        PROVE  Permits'
    BY <1>0, <1>1 DEF Begin, OpPermits, CleanupPermits, UpdatePermits, CleanupWorks,
                      UpdateWorks
  <1>2. CASE \E s \in Services : BeginDown(s) \/ \E i \in Images : BeginDeploy(s, i)
    BY <1>1, <1>2 DEF BeginDown, BeginDeploy
  <1>3. ASSUME NEW p \in Projects, BeginRefresh(p)
        PROVE  Permits'
    BY <1>1, <1>3 DEF BeginRefresh
  <1>4. ASSUME NEW p \in Projects, OperationStep(p)
        PROVE  Permits'
    <2>1. holder[p] = Op /\ UNCHANGED <<cleanup, update>>
      BY <1>4, OpExcludes DEF OperationStep, Pull, Up, Commit, End, EndRefresh
    <2>2. /\ \/ holder' = holder
             \/ holder' = [holder EXCEPT ![p] = Free] /\ op'[p].pc = "none"
          /\ \A q \in Projects \ {p} : op'[q] = op[q]
      BY <1>0, <1>4 DEF OperationStep, Pull, Up, Commit, End, EndRefresh, NoOp
    <2>3. Op \notin Cleanups \cup Updates
      OBVIOUS
    <2> QED
      BY <1>0, <2>1, <2>2, <2>3 DEF OpPermits, CleanupPermits, UpdatePermits,
                                    CleanupWorks, UpdateWorks
  <1>5. CASE ByHand
    BY <1>0, <1>5 DEF ByHand, OpPermits, CleanupPermits, UpdatePermits, CleanupWorks,
                      UpdateWorks
  <1>6. ASSUME NEW r \in Cleanups,
               CleanupStep(r) \/ \E images \in SUBSET Images : StartCleanup(r, images)
        PROVE  Permits'
    <2>1. CASE CleanupAcquires(r)
      BY <1>0, <2>1 DEF CleanupAcquires, Kept, First, Put, CleanupState, OpPermits,
                        CleanupPermits, UpdatePermits, CleanupWorks, UpdateWorks
    <2>2. CASE ReleaseCleanup(r)
      BY <1>0, <2>2 DEF ReleaseCleanup, Held, First, Put, CleanupState, OpPermits,
                        CleanupPermits, UpdatePermits, CleanupWorks, UpdateWorks
    <2>3. CASE \E images \in SUBSET Images : StartCleanup(r, images)
      <3>1. /\ UNCHANGED <<holder, op, update>>
            /\ \A q \in Cleanups \ {r} : cleanup'[q] = cleanup[q]
            /\ \/ cleanup'[r].pc = "done"
               \/ cleanup'[r].pc = "acquiring" /\ cleanup'[r].left = Projects
        <4>1. PICK images \in SUBSET Images : StartCleanup(r, images)
          BY <2>3
        <4>2. UNCHANGED <<holder, op, update>>
          BY <4>1 DEF StartCleanup
        <4>3. CASE Put(r, [Fresh EXCEPT !.pc = "done"])
          BY <1>0, <4>2, <4>3 DEF Put, Fresh
        <4>4. CASE Put(r, [Fresh EXCEPT !.pc = "acquiring", !.requested = images,
                                        !.left = Projects])
          BY <1>0, <4>2, <4>4 DEF Put, Fresh
        <4> QED
          BY <4>1, <4>3, <4>4 DEF StartCleanup
      <3> QED
        BY <1>0, <3>1 DEF OpPermits, CleanupPermits, UpdatePermits, CleanupWorks,
                          UpdateWorks
    <2>4. CASE Protect(r) \/ List(r) \/ Count(r) \/ RemoveImage(r) \/ StopCleanup(r)
      <3>1. /\ CleanupWorks(r) /\ UNCHANGED <<holder, op, update>>
            /\ \A q \in Cleanups \ {r} : cleanup'[q] = cleanup[q]
            /\ cleanup'[r].pc # "acquiring"
        <4>1. cleanup[r] \in CleanupState
          BY <1>0
        <4>2. CASE Protect(r)
          BY <1>0, <4>1, <4>2 DEF Protect, Put, CleanupState, CleanupWorks
        <4>3. CASE List(r)
          BY <1>0, <4>1, <4>3 DEF List, Put, CleanupState, CleanupWorks
        <4>4. CASE Count(r)
          BY <1>0, <4>1, <4>4 DEF Count, Put, CleanupState, CleanupWorks
        <4>5. CASE RemoveImage(r)
          BY <1>0, <4>1, <4>5 DEF RemoveImage, Put, CleanupState, CleanupWorks
        <4>6. CASE StopCleanup(r)
          BY <1>0, <4>1, <4>6 DEF StopCleanup, Put, CleanupState, CleanupWorks
        <4> QED
          BY <2>4, <4>2, <4>3, <4>4, <4>5, <4>6
      <3> QED
        BY <1>0, <3>1 DEF OpPermits, CleanupPermits, UpdatePermits, CleanupWorks,
                          UpdateWorks
    <2> QED
      BY <1>6, <2>1, <2>2, <2>3, <2>4 DEF CleanupStep
  <1>7. ASSUME NEW u \in Updates, StartUpdate(u) \/ UpdateStep(u)
        PROVE  Permits'
    <2>1. CASE StartUpdate(u)
      BY <1>0, <2>1 DEF StartUpdate, UpdateState, OpPermits, CleanupPermits,
                        UpdatePermits, CleanupWorks, UpdateWorks
    <2>2. CASE UpdateAcquires(u)
      BY <1>0, <2>2 DEF UpdateAcquires, FirstHash, UpdateState, OpPermits,
                        CleanupPermits, UpdatePermits, CleanupWorks, UpdateWorks
    <2>3. CASE EndUpdate(u)
      BY <1>0, <2>3 DEF EndUpdate, UpdateState, OpPermits, CleanupPermits,
                        UpdatePermits, CleanupWorks, UpdateWorks
    <2>4. CASE ReleaseUpdate(u)
      BY <1>0, <2>4 DEF ReleaseUpdate, Held, FirstHash, UpdateState, OpPermits,
                        CleanupPermits, UpdatePermits, CleanupWorks, UpdateWorks
    <2> QED
      BY <1>7, <2>1, <2>2, <2>3, <2>4 DEF UpdateStep
  <1>8. CASE UNCHANGED vars
    BY <1>0, <1>8 DEF vars, OpPermits, CleanupPermits, UpdatePermits, CleanupWorks,
                      UpdateWorks
  <1> QED
    BY <1>2, <1>3, <1>4, <1>5, <1>6, <1>7, <1>8 DEF Next

-----------------------------------------------------------------------------
(* begin() and cancel(): the flag is set by one request and cleared by it. *)
LEMMA ActiveStep ==
  ASSUME Inv, [Next]_vars
  PROVE  ActiveOwned'
  <1> DEFINE Owns(u) == update[u].pc \in {"acquiring", "preparing"}
  <1>0. /\ update \in [Updates -> UpdateState]
        /\ \A u, v \in Updates : Owns(u) /\ Owns(v) => u = v
        /\ active <=> \E u \in Updates : Owns(u)
    BY DEF Inv, TypeOK, ActiveOwned
  <1>1. SUFFICES /\ \A u, v \in Updates : Owns(u)' /\ Owns(v)' => u = v
                 /\ active' <=> \E u \in Updates : Owns(u)'
    BY DEF ActiveOwned
  <1>2. CASE UNCHANGED <<active, update>>
    BY <1>0, <1>2
  <1>3. ASSUME NEW u \in Updates, StartUpdate(u) \/ UpdateStep(u)
        PROVE  /\ \A v, w \in Updates : Owns(v)' /\ Owns(w)' => v = w
               /\ active' <=> \E v \in Updates : Owns(v)'
    <2>1. \A v \in Updates \ {u} : Owns(v)' <=> Owns(v)
      BY <1>0, <1>3 DEF StartUpdate, UpdateStep, UpdateAcquires, EndUpdate, ReleaseUpdate
    <2>2. \/ ~active /\ active' /\ Owns(u)'
          \/ Owns(u) /\ active' /\ Owns(u)' /\ active
          \/ Owns(u) /\ ~active' /\ ~Owns(u)'
          \/ ~Owns(u) /\ ~Owns(u)' /\ (active' <=> active)
      <3>1. CASE StartUpdate(u)
        <4>1. update[u].pc = "idle"
          BY <3>1 DEF StartUpdate
        <4>2. CASE Begins /\ update' = [update EXCEPT ![u] =
                                         [pc |-> "acquiring", left |-> Projects]]
          <5>1. Owns(u)'
            BY <1>0, <4>2
          <5> QED
            BY <4>2, <5>1 DEF Begins
        <4>3. CASE update' = [update EXCEPT ![u].pc = "done"] /\ UNCHANGED active
          <5>1. ~Owns(u) /\ ~Owns(u)'
            BY <1>0, <4>1, <4>3
          <5> QED
            BY <4>3, <5>1
        <4> QED
          BY <3>1, <4>2, <4>3 DEF StartUpdate
      <3>2. CASE UpdateAcquires(u)
        <4>1. Owns(u)
          BY <3>2 DEF UpdateAcquires
        <4>2. active
          BY <1>0, <4>1
        <4>3. CASE UNCHANGED active
          <5>1. update'[u].pc \in {"acquiring", "preparing"}
            BY <1>0, <3>2, <4>2, <4>3 DEF UpdateAcquires
          <5> QED
            BY <4>1, <4>2, <4>3, <5>1
        <4>4. CASE ~active' /\ update' = [update EXCEPT ![u].pc = "releasing"]
          <5>1. ~Owns(u)'
            BY <1>0, <4>4
          <5> QED
            BY <4>1, <4>4, <5>1
        <4> QED
          BY <3>2, <4>3, <4>4 DEF UpdateAcquires
      <3>3. CASE EndUpdate(u)
        BY <1>0, <3>3 DEF EndUpdate
      <3>4. CASE ReleaseUpdate(u)
        <4>1. ~Owns(u) /\ ~Owns(u)'
          <5>1. update[u].pc = "releasing"
            BY <3>4 DEF ReleaseUpdate
          <5>2. update' = update \/ update' = [update EXCEPT ![u].pc = "done"]
            BY <3>4 DEF ReleaseUpdate
          <5>3. update \in [Updates -> UpdateState]
            BY <1>0
          <5> QED
            BY <5>1, <5>2, <5>3 DEF UpdateState
        <4> QED
          BY <3>4, <4>1 DEF ReleaseUpdate
      <3> QED
        BY <1>3, <3>1, <3>2, <3>3, <3>4 DEF UpdateStep
    <2> HIDE DEF Owns
    <2> QED
      BY <1>0, <2>1, <2>2
  <1>4. CASE UNCHANGED vars
    BY <1>2, <1>4 DEF vars
  <1>5. CASE ~\E u \in Updates : StartUpdate(u) \/ UpdateStep(u)
    <2>1. CASE Next
      BY <1>2, <1>5, <2>1 DEF Next, BeginDown, BeginDeploy, BeginRefresh, Begin,
           OperationStep, Pull, Up, Commit, End, EndRefresh, ByHand, StartCleanup,
           CleanupStep, CleanupAcquires, Protect, List, Count, RemoveImage, StopCleanup,
           ReleaseCleanup
    <2> QED
      BY <1>4, <2>1
  <1> QED
    BY <1>3, <1>5

-----------------------------------------------------------------------------
(* What an operation does to the current and the rollback images, and a        *)
(* refresh to the services, it does while no cleanup works.                    *)
LEMMA BaselineSteady ==
  ASSUME Inv, [Next]_vars, NEW r \in Cleanups, CleanupWorks(r)
  PROVE  managed' = managed /\ base' = base
  <1>1. \A p \in Projects : op[p].pc = "none"
    BY OpExcludes DEF CleanupWorks, WorkingPcs
  <1>2. CASE UNCHANGED vars
    BY <1>2 DEF vars
  <1>3. CASE Next
    BY <1>1, <1>3 DEF Next, BeginDown, BeginDeploy, BeginRefresh, Begin, OperationStep,
         Pull, Up, Commit, End, EndRefresh, ByHand, StartCleanup, CleanupStep,
         CleanupAcquires, Protect, List, Count, RemoveImage, StopCleanup, ReleaseCleanup,
         StartUpdate, UpdateStep, UpdateAcquires, EndUpdate, ReleaseUpdate
  <1> QED
    BY <1>2, <1>3

LEMMA SnapshotStep ==
  ASSUME Inv, [Next]_vars
  PROVE  Snapshots'
  <1> USE MaintenanceAssumption
  <1> SUFFICES ASSUME NEW r \in Cleanups PROVE Snapshot(r)'
    BY DEF Snapshots
  <1>0. /\ cleanup \in [Cleanups -> CleanupState] /\ cleanup[r] \in CleanupState
        /\ Snapshot(r) /\ managed \subseteq Services /\ ProjectOf \in [Services -> Projects]
    BY DEF Inv, TypeOK, Snapshots
  <1>1. CASE cleanup'[r] = cleanup[r]
    <2>1. CASE CleanupWorks(r)
      BY <1>0, <1>1, <2>1, BaselineSteady DEF Snapshot, Needed
    <2>2. CASE ~CleanupWorks(r)
      BY <1>0, <1>1, <2>2 DEF Snapshot, CleanupWorks
    <2> QED
      BY <2>1, <2>2
  <1>2. CASE cleanup'[r].pc \in {"idle", "acquiring", "pruning", "releasing", "done"}
    BY <1>2 DEF Snapshot
  <1>3. CASE CleanupAcquires(r)
    <2>1. \/ cleanup'[r].pc \in {"acquiring", "pruning", "releasing"}
          \/ /\ cleanup'[r].pc = "protecting" /\ cleanup'[r].left = Projects
             /\ cleanup'[r].services = managed /\ managed' = managed
      <3>1. PICK p \in First(cleanup[r].left) :
               \/ Put(r, [cleanup[r] EXCEPT !.left = @ \ {p}])
               \/ Put(r, [cleanup[r] EXCEPT
                           !.pc = IF cleanup[r].requested = {} THEN "pruning"
                                                               ELSE "protecting",
                           !.services = managed, !.left = Projects])
               \/ Put(r, [cleanup[r] EXCEPT !.pc = "releasing"])
        BY <1>3 DEF CleanupAcquires
      <3>2. cleanup[r].pc = "acquiring" /\ managed' = managed
        BY <1>3 DEF CleanupAcquires
      <3>3. CASE Put(r, [cleanup[r] EXCEPT !.left = @ \ {p}])
        BY <1>0, <3>2, <3>3 DEF Put, CleanupState
      <3>4. CASE Put(r, [cleanup[r] EXCEPT
                           !.pc = IF cleanup[r].requested = {} THEN "pruning"
                                                               ELSE "protecting",
                           !.services = managed, !.left = Projects])
        BY <1>0, <3>2, <3>4 DEF Put, CleanupState
      <3>5. CASE Put(r, [cleanup[r] EXCEPT !.pc = "releasing"])
        BY <1>0, <3>5 DEF Put, CleanupState
      <3> QED
        BY <3>1, <3>3, <3>4, <3>5
    <2>2. \A s \in managed : ProjectOf[s] \in Projects
      BY <1>0
    <2> QED
      BY <1>2, <2>1, <2>2 DEF Snapshot
  <1>4. CASE Protect(r)
    <2>1. PICK p \in FirstHash(cleanup[r].left) : Put(r, [cleanup[r] EXCEPT
            !.protected = @ \cup UNION {ProtectedOf(s) : s \in managed \cap Of(p)},
            !.left = @ \ {p},
            !.pc = IF cleanup[r].left = {p} THEN "listing" ELSE @])
      BY <1>4 DEF Protect
    <2>2. cleanup[r].pc = "protecting" /\ UNCHANGED <<managed, base>>
      BY <1>4 DEF Protect
    <2>3. \A s \in managed \cap Of(p) : Needed(s) \ {NoImage} \subseteq
             UNION {ProtectedOf(t) : t \in managed \cap Of(p)}
      BY DEF Needed, ProtectedOf
    <2> DEFINE more == UNION {ProtectedOf(s) : s \in managed \cap Of(p)}
    <2>4. /\ cleanup'[r].protected = cleanup[r].protected \cup more
          /\ cleanup'[r].left = cleanup[r].left \ {p}
          /\ cleanup'[r].services = cleanup[r].services
          /\ \/ cleanup'[r].pc = "listing" /\ cleanup[r].left = {p}
             \/ cleanup'[r].pc = "protecting"
      <3> HIDE DEF more
      <3> QED
        BY <1>0, <2>1, <2>2 DEF Put, CleanupState, more
    <2>5. \A s \in managed : ProjectOf[s] \notin cleanup'[r].left
             => Needed(s) \ {NoImage} \subseteq cleanup'[r].protected
      BY <1>0, <2>2, <2>3, <2>4 DEF Snapshot, Of
    <2> QED
      BY <1>0, <2>2, <2>4, <2>5 DEF Snapshot, Needed
  <1>5. CASE List(r)
    <2>1. /\ cleanup[r].pc = "listing" /\ cleanup'[r].pc = "counting"
          /\ cleanup'[r].candidates = Listed(cleanup[r])
          /\ cleanup'[r].services = managed /\ UNCHANGED <<managed, base>>
      BY <1>0, <1>5 DEF List, Put, CleanupState, Snapshot
    <2>2. NoImage \notin present
      BY DEF Inv, TypeOK
    <2>3. \A i \in Listed(cleanup[r]) :
             /\ \A s \in managed : i \notin Needed(s)
             /\ \E s \in managed : RepositoryOf[s] = RepositoryOf[i]
      BY <1>0, <2>1, <2>2 DEF Listed, Snapshot
    <2> QED
      BY <2>1, <2>3 DEF Snapshot, Needed
  <1>6. CASE Count(r)
    <2>1. /\ cleanup[r].pc = "counting" /\ UNCHANGED <<managed, base>>
          /\ cleanup'[r].services = cleanup[r].services
          /\ cleanup'[r].candidates = cleanup[r].candidates
          /\ \/ cleanup'[r].pc = "releasing"
             \/ /\ cleanup'[r].pc = "removing"
                /\ cleanup'[r].requested \subseteq cleanup[r].candidates
      BY <1>0, <1>6 DEF Count, Put, Accepted, CleanupState
    <2> QED
      BY <1>0, <2>1 DEF Snapshot, Needed
  <1>7. CASE RemoveImage(r)
    <2>1. /\ cleanup[r].pc = "removing" /\ UNCHANGED <<managed, base>>
          /\ cleanup'[r].services = cleanup[r].services
          /\ cleanup'[r].candidates = cleanup[r].candidates
          /\ cleanup'[r].pc \in {"releasing", "removing"}
          /\ cleanup'[r].requested \subseteq cleanup[r].requested
      BY <1>0, <1>7 DEF RemoveImage, Put, CleanupState
    <2> QED
      BY <1>0, <2>1 DEF Snapshot, Needed
  <1>8. CASE StopCleanup(r) \/ ReleaseCleanup(r)
    BY <1>0, <1>1, <1>2, <1>8 DEF StopCleanup, ReleaseCleanup, Put, CleanupState
  <1>9. ASSUME NEW images \in SUBSET Images, StartCleanup(r, images)
        PROVE  Snapshot(r)'
    <2>1. CASE Put(r, [Fresh EXCEPT !.pc = "done"])
      BY <1>0, <1>2, <2>1 DEF Put, Fresh
    <2>2. CASE Put(r, [Fresh EXCEPT !.pc = "acquiring", !.requested = images,
                                    !.left = Projects])
      BY <1>0, <1>2, <2>2 DEF Put, Fresh
    <2> QED
      BY <1>9, <2>1, <2>2 DEF StartCleanup
  <1>10. ASSUME NEW q \in Cleanups \ {r},
                CleanupStep(q) \/ \E images \in SUBSET Images : StartCleanup(q, images)
         PROVE  cleanup'[r] = cleanup[r]
    BY <1>0, <1>10 DEF CleanupStep, CleanupAcquires, Protect, List, Count, RemoveImage,
         StopCleanup, ReleaseCleanup, StartCleanup, Put
  <1>11. CASE UNCHANGED cleanup
    BY <1>1, <1>11
  <1>12. CASE ~\E q \in Cleanups :
             CleanupStep(q) \/ \E images \in SUBSET Images : StartCleanup(q, images)
    BY <1>11, <1>12 DEF Next, vars, BeginDown, BeginDeploy, BeginRefresh, Begin,
         OperationStep, Pull, Up, Commit, End, EndRefresh, ByHand, StartUpdate,
         UpdateStep, UpdateAcquires, EndUpdate, ReleaseUpdate
  <1> QED
    BY <1>1, <1>3, <1>4, <1>5, <1>6, <1>7, <1>8, <1>9, <1>10, <1>12 DEF CleanupStep

-----------------------------------------------------------------------------
(* The inductive invariant. *)
THEOREM SpecInv == Spec => []Inv
  <1>1. Inv /\ [Next]_vars => Inv'
    <2> SUFFICES ASSUME Inv, [Next]_vars PROVE Inv'
      OBVIOUS
    <2>1. TypeOK' /\ OpTyped'
      BY TypeStep DEF Inv
    <2>2. Permits'
      BY PermitStep
    <2> QED
      BY <2>1, <2>2, ActiveStep, SnapshotStep DEF Inv, Permits
  <1> QED
    BY InitInv, <1>1, PTL DEF Spec

(* Every variable keeps its type. *)
THEOREM TypesKept == Spec => []TypeOK
  BY SpecInv, PTL DEF Inv

(* The active flag of an update is never cleared by a request that was refused. *)
THEOREM ActiveOwnedAlways == Spec => []ActiveOwned
  BY SpecInv, PTL DEF Inv

(* While image cleanup, build-cache cleanup or an update works, no operation,  *)
(* refresh, cleanup or other update does, in any project.                      *)
THEOREM MaintenanceExclusiveAlways == Spec => []MaintenanceExclusive
  <1>1. Inv => MaintenanceExclusive
    <2> SUFFICES ASSUME Inv PROVE MaintenanceExclusive
      OBVIOUS
    <2> USE MaintenanceAssumption
    <2>1. \A a \in Working, p \in Projects : holder[p] = a
      BY DEF Inv, CleanupPermits, UpdatePermits, Working
    <2>2. \A a, b \in Working : a = b
      BY <2>1
    <2>3. ASSUME NEW a \in Working, NEW p \in Projects PROVE op[p].pc = "none"
      BY <2>1, <2>3 DEF Inv, OpPermits, Working
    <2> QED
      BY <2>2, <2>3 DEF MaintenanceExclusive
  <1> QED
    BY SpecInv, <1>1, PTL

(* An image is removed only by a cleanup that found no use for it, and what it *)
(* found is still so: none of the images a service needs, and no foreign one.  *)
LEMMA RemovalStep ==
  ASSUME Inv, [Next]_vars, NEW i \in present \ present'
  PROVE  /\ i \notin Used
         /\ \A s \in managed : i \notin Needed(s)
         /\ \E s \in managed : RepositoryOf[s] = RepositoryOf[i]
  <1>1. PICK r \in Cleanups : RemoveImage(r) \/ StopCleanup(r)
    BY DEF Next, vars, docker, BeginDown, BeginDeploy, BeginRefresh, Begin,
       OperationStep, Pull, Up, Commit, End, EndRefresh, ByHand, StartCleanup,
       CleanupStep, CleanupAcquires, Protect, List, Count, ReleaseCleanup,
       StartUpdate, UpdateStep, UpdateAcquires, EndUpdate, ReleaseUpdate
  <1>2. cleanup[r].pc = "removing" /\ i \in cleanup[r].requested \ Used
    BY <1>1 DEF RemoveImage, StopCleanup
  <1> QED
    BY <1>2 DEF Inv, Snapshots, Snapshot

(* Cleanup never removes an image a service runs, falls back to or can roll    *)
(* back to, or that any container uses, nor one of a repository that no        *)
(* managed service uses.                                                       *)
THEOREM UnneededRemoved == Spec => OnlyUnneededRemoved
  <1>1. Inv /\ [Next]_vars =>
           [\A i \in present \ present' :
              /\ i \notin Used
              /\ \A s \in managed : i \notin {base[s].current, base[s].rollback}
              /\ \E s \in managed : RepositoryOf[s] = RepositoryOf[i]]_vars
    BY RemovalStep DEF Needed
  <1> QED
    BY SpecInv, <1>1, PTL DEF Spec, OnlyUnneededRemoved
=============================================================================
