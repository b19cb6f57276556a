----------------------------- MODULE Maintenance -----------------------------
(***************************************************************************)
(* The permits of several projects: image and build-cache cleanup          *)
(* (cleanup_system_images, cleanup_build_cache of src/src/web.rs, with     *)
(* src/src/system.rs) and start_update take the permit of every project,   *)
(* one after the other and without waiting, while operations and Compose   *)
(* refreshes take the one of their project.  Cleanup then reads what is    *)
(* protected, what docker has and what containers use, and removes images  *)
(* one by one.  Inside an operation only what touches images is modelled;  *)
(* the rest is in Deploy, and what an update does in SelfUpdate.           *)
(***************************************************************************)
EXTENDS Naturals, FiniteSets

CONSTANTS
    Projects,       \* their ids, numbered in the ids' order
    Services, ProjectOf,
    Images,
    RepositoryOf,   \* of a service and of an image
    Cleanups,       \* requests, each handled once
    Updates,        \* requests for a self-update
    Op, Free,       \* holder: an operation or a refresh; nobody
    NoImage,
    MaxOps,         \* bound: operations and refreshes
    MaxByHand       \* bound: what is done with docker by hand

ASSUME MaintenanceAssumption ==
    /\ Projects \subseteq Nat /\ Projects # {} /\ IsFiniteSet(Projects)
    /\ ProjectOf \in [Services -> Projects]
    /\ NoImage \notin Images /\ MaxOps \in Nat /\ MaxByHand \in Nat
    /\ Cleanups \cap Updates = {}
    /\ {Op, Free} \cap (Cleanups \cup Updates) = {} /\ Op # Free

VARIABLES
    holder,      \* who has deploy_lock of a project
    active,      \* UpdateManager::active
    rank,        \* the order in which the HashMap of projects is visited
    managed,     \* the services of the resolved Compose projects
    base,        \* per service: the current and the rollback image
    container,   \* per service, and one started by hand: the image it uses
    present,     \* images docker has
    several,     \* those of them with more than one name
    op,          \* the operation or refresh of each project
    ops, hands,
    cleanup, update

docker == <<container, present, several>>
vars == <<holder, active, rank, managed, base, docker, op, ops, hands, cleanup,
          update>>

Manual   == "manual"   \* a container that is not of a managed service
Used     == {container[s] : s \in DOMAIN container} \ {NoImage}
Of(p)    == {s \in Services : ProjectOf[s] = p}
Held(a)  == {p \in Projects : holder[p] = a}
NoOp     == [pc |-> "none", service |-> NoImage, image |-> NoImage]
Fresh    == [pc |-> "idle", requested |-> {}, left |-> {}, services |-> {},
             protected |-> {}, candidates |-> {}]

Init ==
    /\ holder = [p \in Projects |-> Free] /\ active = FALSE
    /\ rank \in [Projects -> 1 .. Cardinality(Projects)]
    /\ \A p, q \in Projects : p # q => rank[p] # rank[q]
    /\ managed = Services
    /\ base = [s \in Services |-> [current |-> NoImage, rollback |-> NoImage]]
    /\ container = [s \in Services \cup {Manual} |-> NoImage]
    /\ present = {} /\ several = {}
    /\ op = [p \in Projects |-> NoOp] /\ ops = 0 /\ hands = 0
    /\ cleanup = [r \in Cleanups |-> Fresh]
    /\ update = [u \in Updates |-> [pc |-> "idle", left |-> {}]]

-----------------------------------------------------------------------------
(* Operations and refreshes of one project, under its permit.  Definitions     *)
(* named Faulty... are plausible mistakes, used by the mutation runs only.     *)
Begin(p, what) ==
    /\ ~active /\ holder[p] = Free /\ ops < MaxOps
    /\ holder' = [holder EXCEPT ![p] = Op]
    /\ op' = [op EXCEPT ![p] = what] /\ ops' = ops + 1
    /\ UNCHANGED <<active, rank, managed, base, docker, hands, cleanup,
                   update>>

BeginDeploy(s, i) ==
    /\ s \in managed /\ RepositoryOf[i] = RepositoryOf[s]
    /\ Begin(ProjectOf[s], [pc |-> "begun", service |-> s, image |-> i])

BeginDown(s) ==
    /\ s \in managed
    /\ Begin(ProjectOf[s], [pc |-> "down", service |-> s, image |-> NoImage])

BeginRefresh(p) == Begin(p, [NoOp EXCEPT !.pc = "refreshing"])

Pull(p) ==
    /\ op[p].pc = "begun"
    /\ op' = [op EXCEPT ![p].pc = "pulled"]
    /\ present' = present \cup {op[p].image}
    /\ UNCHANGED <<holder, active, rank, managed, base, container, several,
                   ops, hands, cleanup, update>>

(* compose up fetches an image that is not there. *)
Up(p) ==
    /\ op[p].pc = "pulled"
    /\ op' = [op EXCEPT ![p].pc = "up"]
    /\ container' = [container EXCEPT ![op[p].service] = op[p].image]
    /\ present' = present \cup {op[p].image}
    /\ UNCHANGED <<holder, active, rank, managed, base, several, ops, hands,
                   cleanup, update>>

(* The commit; from now on the revision before it is the one to roll back to. *)
Commit(p) ==
    LET s == op[p].service IN
    /\ op[p].pc = "up"
    /\ op' = [op EXCEPT ![p].pc = "committed"]
    /\ base' = [base EXCEPT ![s] = [current  |-> op[p].image,
                                    rollback |-> base[s].current]]
    /\ UNCHANGED <<holder, active, rank, managed, docker, ops, hands, cleanup,
                   update>>

(* It ends with its commit, its container removed, or a failure at any call; a *)
(* failure after up lets the committed image run again, or fails to.           *)
Leaves(p) ==
    LET s == op[p].service IN
    CASE op[p].pc = "up"   -> {base[s].current, container[s]}
      [] op[p].pc = "down" -> {NoImage, container[s]}
      [] OTHER             -> {container[s]}

End(p) ==
    /\ op[p].pc \in {"begun", "pulled", "up", "committed", "down"}
    /\ op' = [op EXCEPT ![p] = NoOp]
    /\ holder' = [holder EXCEPT ![p] = Free]
    /\ \E i \in Leaves(p) :
          /\ container' = [container EXCEPT ![op[p].service] = i]
          /\ present' = present \cup ({i} \ {NoImage})
    /\ UNCHANGED <<active, rank, managed, base, several, ops, hands, cleanup,
                   update>>

(* replace_project: other services, or the same ones when the refresh failed. *)
EndRefresh(p) ==
    /\ op[p].pc = "refreshing"
    /\ \E M \in SUBSET Of(p) :
          /\ M # {}
          /\ managed' = (managed \ Of(p)) \cup M
    /\ op' = [op EXCEPT ![p] = NoOp]
    /\ holder' = [holder EXCEPT ![p] = Free]
    /\ UNCHANGED <<active, rank, base, docker, ops, hands, cleanup, update>>

(* Somebody works with docker beside windplume-deploy. *)
ByHand ==
    /\ hands < MaxByHand /\ hands' = hands + 1
    /\ \/ /\ \E i \in present \cup {NoImage} :
                container' = [container EXCEPT ![Manual] = i]
          /\ UNCHANGED several
       \/ /\ several = {}
          /\ \E i \in present : several' = {i}
          /\ UNCHANGED container
    /\ UNCHANGED <<holder, active, rank, managed, base, present, op, ops,
                   cleanup, update>>

-----------------------------------------------------------------------------
(* The project that comes next by id, and in the order of the HashMap. *)
First(S)     == {p \in S : \A q \in S : p <= q}
FirstHash(S) == {p \in S : \A q \in S : rank[p] <= rank[q]}

FaultyRefused(p) == FALSE
(* try_acquire_owned: a permit that is not free is not waited for. *)
Refused(p) == holder[p] # Free

Put(r, c) == cleanup' = [cleanup EXCEPT ![r] = c]

(* acquire_maintenance_permits, after validate_image_ids: images = {} is a     *)
(* request to clean the build cache.                                           *)
StartCleanup(r, images) ==
    /\ cleanup[r].pc = "idle"
    /\ IF active
       THEN Put(r, [Fresh EXCEPT !.pc = "done"])
       ELSE Put(r, [Fresh EXCEPT !.pc = "acquiring", !.requested = images,
                                 !.left = Projects])
    /\ UNCHANGED <<holder, active, rank, managed, base, docker, op, ops, hands,
                   update>>

FaultyKept(r, p) == [q \in Projects |-> IF q = p \/ holder[q] = r THEN Free
                                                                  ELSE holder[q]]
(* All permits are kept for as long as the handler runs. *)
Kept(r, p) == [holder EXCEPT ![p] = r]

CleanupAcquires(r) ==
    LET c == cleanup[r] IN
    /\ c.pc = "acquiring"
    /\ \E p \in First(c.left) :
          \/ /\ holder[p] = Free /\ c.left # {p}
             /\ holder' = [holder EXCEPT ![p] = r]
             /\ Put(r, [c EXCEPT !.left = @ \ {p}])
          \/ /\ holder[p] = Free /\ c.left = {p}
             /\ holder' = Kept(r, p)
             /\ Put(r, [c EXCEPT !.pc = IF c.requested = {} THEN "pruning"
                                                            ELSE "protecting",
                                 !.services = managed, !.left = Projects])
          \/ /\ Refused(p)
             /\ Put(r, [c EXCEPT !.pc = "releasing"])
             /\ UNCHANGED holder
    /\ UNCHANGED <<active, rank, managed, base, docker, op, ops, hands,
                   update>>

FaultyProtectedOf(s) == {base[s].current} \ {NoImage}
ProtectedOf(s) == {base[s].current, base[s].rollback} \ {NoImage}

(* protected_images: two queries for each service of one project after another. *)
Protect(r) ==
    LET c == cleanup[r] IN
    /\ c.pc = "protecting"
    /\ \E p \in FirstHash(c.left) :
          Put(r, [c EXCEPT
             !.protected = @ \cup UNION {ProtectedOf(s) : s \in managed \cap Of(p)},
             !.left = @ \ {p},
             !.pc = IF c.left = {p} THEN "listing" ELSE @])
    /\ UNCHANGED <<holder, active, rank, managed, base, docker, op, ops, hands,
                   update>>

(* parse_images: what belongs to a managed service and has no reason to stay. *)
Listed(c) ==
    {i \in present \ (c.protected \cup several) :
        \E s \in c.services : RepositoryOf[s] = RepositoryOf[i]}

(* docker image ls *)
List(r) ==
    LET c == cleanup[r] IN
    /\ c.pc = "listing"
    /\ Put(r, [c EXCEPT !.pc = "counting", !.candidates = Listed(c)])
    /\ UNCHANGED <<holder, active, rank, managed, base, docker, op, ops, hands,
                   update>>

Accepted(requested, removable) == requested \subseteq removable

(* container_image_counts, and the check of the whole request. *)
Count(r) ==
    LET c == cleanup[r] IN
    /\ c.pc = "counting"
    /\ Put(r, [c EXCEPT !.pc = IF Accepted(c.requested, c.candidates \ Used)
                               THEN "removing" ELSE "releasing"])
    /\ UNCHANGED <<holder, active, rank, managed, base, docker, op, ops, hands,
                   update>>

(* docker image rm by ID: docker refuses while a container uses the image, and *)
(* the command may fail or time out, with or without having removed it.        *)
RemoveImage(r) ==
    LET c == cleanup[r] IN
    /\ c.pc = "removing"
    /\ \E i \in c.requested :
          /\ Put(r, [c EXCEPT !.requested = @ \ {i},
                              !.pc = IF c.requested = {i} THEN "releasing" ELSE @])
          /\ \/ i \notin Used /\ present' = present \ {i} /\ several' = several \ {i}
             \/ UNCHANGED <<present, several>>
    /\ UNCHANGED <<holder, active, rank, managed, base, container, op, ops,
                   hands, update>>

(* The build cache is pruned, a query or command fails, or the client is gone  *)
(* and the handler is dropped; docker image rm may have acted by then.         *)
StopCleanup(r) ==
    LET c == cleanup[r] IN
    /\ c.pc \in {"pruning", "protecting", "listing", "counting", "removing"}
    /\ Put(r, [c EXCEPT !.pc = "releasing"])
    /\ \/ /\ c.pc = "removing"
          /\ \E i \in c.requested \ Used :
                present' = present \ {i} /\ several' = several \ {i}
       \/ UNCHANGED <<present, several>>
    /\ UNCHANGED <<holder, active, rank, managed, base, container, op, ops,
                   hands, update>>

(* The Vec of permits is dropped, one permit after the other. *)
ReleaseCleanup(r) ==
    LET mine == Held(r) IN
    /\ cleanup[r].pc = "releasing"
    /\ IF mine = {}
       THEN /\ Put(r, [cleanup[r] EXCEPT !.pc = "done"]) /\ UNCHANGED holder
       ELSE /\ \E p \in First(mine) : holder' = [holder EXCEPT ![p] = Free]
            /\ UNCHANGED cleanup
    /\ UNCHANGED <<active, rank, managed, base, docker, op, ops, hands,
                   update>>

-----------------------------------------------------------------------------
(* begin(): compare_exchange lets one request through. *)
Begins == ~active /\ active' = TRUE

StartUpdate(u) ==
    /\ update[u].pc = "idle"
    /\ \/ /\ Begins
          /\ update' = [update EXCEPT ![u] = [pc |-> "acquiring", left |-> Projects]]
       \/ /\ active
          /\ update' = [update EXCEPT ![u].pc = "done"]
          /\ UNCHANGED active
    /\ UNCHANGED <<holder, rank, managed, base, docker, op, ops, hands,
                   cleanup>>

UpdateAcquires(u) ==
    /\ update[u].pc = "acquiring"
    /\ \E p \in FirstHash(update[u].left) :
          \/ /\ holder[p] = Free
             /\ holder' = [holder EXCEPT ![p] = u]
             /\ LET rest == update[u].left \ {p} IN
                  update' = [update EXCEPT
                    ![u] = [pc |-> IF rest = {} THEN "preparing" ELSE "acquiring",
                            left |-> rest]]
             /\ UNCHANGED active
          \/ /\ Refused(p)
             /\ active' = FALSE
             /\ update' = [update EXCEPT ![u].pc = "releasing"]
             /\ UNCHANGED holder
    /\ UNCHANGED <<rank, managed, base, docker, op, ops, hands, cleanup>>

(* prepare_and_trigger: cancel(), and then the task drops the permits. *)
EndUpdate(u) ==
    /\ update[u].pc = "preparing"
    /\ active' = FALSE
    /\ update' = [update EXCEPT ![u].pc = "releasing"]
    /\ UNCHANGED <<holder, rank, managed, base, docker, op, ops, hands,
                   cleanup>>

ReleaseUpdate(u) ==
    LET mine == Held(u) IN
    /\ update[u].pc = "releasing"
    /\ IF mine = {}
       THEN update' = [update EXCEPT ![u].pc = "done"] /\ UNCHANGED holder
       ELSE /\ \E p \in FirstHash(mine) : holder' = [holder EXCEPT ![p] = Free]
            /\ UNCHANGED update
    /\ UNCHANGED <<active, rank, managed, base, docker, op, ops, hands,
                   cleanup>>

-----------------------------------------------------------------------------
OperationStep(p) == Pull(p) \/ Up(p) \/ Commit(p) \/ End(p) \/ EndRefresh(p)

CleanupStep(r) ==
    \/ CleanupAcquires(r) \/ Protect(r) \/ List(r) \/ Count(r)
    \/ RemoveImage(r) \/ StopCleanup(r) \/ ReleaseCleanup(r)

UpdateStep(u) == UpdateAcquires(u) \/ EndUpdate(u) \/ ReleaseUpdate(u)

Next ==
    \/ \E s \in Services : BeginDown(s) \/ \E i \in Images : BeginDeploy(s, i)
    \/ \E p \in Projects : BeginRefresh(p) \/ OperationStep(p)
    \/ ByHand
    \/ \E r \in Cleanups :
          CleanupStep(r) \/ \E images \in SUBSET Images : StartCleanup(r, images)
    \/ \E u \in Updates : StartUpdate(u) \/ UpdateStep(u)

Spec == Init /\ [][Next]_vars

(* Every query and command of a handler or a task has a timeout. *)
Fairness ==
    /\ \A p \in Projects : WF_vars(OperationStep(p))
    /\ \A r \in Cleanups : WF_vars(CleanupStep(r))
    /\ \A u \in Updates : WF_vars(UpdateStep(u))

FairSpec == Spec /\ Fairness

-----------------------------------------------------------------------------
OpState == [pc : {"none", "begun", "pulled", "up", "committed", "down",
                  "refreshing"},
            service : Services \cup {NoImage}, image : Images \cup {NoImage}]
Holders == Cleanups \cup Updates \cup {Op, Free}
CleanupState ==
    [pc : {"idle", "acquiring", "pruning", "protecting", "listing", "counting",
           "removing", "releasing", "done"},
     requested : SUBSET Images, left : SUBSET Projects,
     services : SUBSET Services, protected : SUBSET Images,
     candidates : SUBSET Images]

UpdateState == [pc : {"idle", "acquiring", "preparing", "releasing", "done"},
                left : SUBSET Projects]

(* Every variable keeps its type. *)
TypeOK ==
    /\ holder \in [Projects -> Holders] /\ active \in BOOLEAN
    /\ rank \in [Projects -> 1 .. Cardinality(Projects)]
    /\ managed \subseteq Services
    /\ base \in [Services -> [current : Images \cup {NoImage},
                              rollback : Images \cup {NoImage}]]
    /\ container \in [Services \cup {Manual} -> Images \cup {NoImage}]
    /\ present \subseteq Images /\ several \subseteq present
    /\ op \in [Projects -> OpState] /\ ops \in 0 .. MaxOps
    /\ hands \in 0 .. MaxByHand
    /\ cleanup \in [Cleanups -> CleanupState]
    /\ update \in [Updates -> UpdateState]

CleanupWorks(r) == cleanup[r].pc \in {"pruning", "protecting", "listing",
                                      "counting", "removing"}
UpdateWorks(u)  == update[u].pc = "preparing"
Working == {r \in Cleanups : CleanupWorks(r)} \cup {u \in Updates : UpdateWorks(u)}

(* While a cleanup reads or deletes, or an update prepares, nothing else does: *)
(* no operation or refresh of any project, no other cleanup, no update.        *)
MaintenanceExclusive ==
    /\ \A a, b \in Working : a = b
    /\ Working # {} => \A p \in Projects : op[p].pc = "none"

(* No image is removed that a managed service runs, returns to after a failure *)
(* or rolls back to, or that any container uses, at the moment of its removal; *)
(* nor one of a repository that no service managed at that moment uses: the    *)
(* list a page was shown does not count.                                       *)
OnlyUnneededRemoved ==
    [][\A i \in present \ present' :
          /\ i \notin Used
          /\ \A s \in managed : i \notin {base[s].current, base[s].rollback}
          /\ \E s \in managed : RepositoryOf[s] = RepositoryOf[i]]_vars

(* The active flag belongs to one request, from begin() to its cancel(): a     *)
(* request that is refused never clears the flag of another.                   *)
ActiveOwned ==
    LET owners == {u \in Updates : update[u].pc \in {"acquiring", "preparing"}} IN
    /\ \A u, v \in owners : u = v
    /\ active <=> owners # {}

(* Every permit a cleanup or an update took comes back.                        *)
PermitsReturned ==
    \A p \in Projects : holder[p] \in Cleanups \cup Updates ~> holder[p] = Free
=============================================================================
