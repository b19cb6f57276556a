----------------------------- MODULE HealthWait -----------------------------
(***************************************************************************)
(* wait_healthy_image of src/src/compose.rs over a service with several    *)
(* replicas: list the ids, inspect them, conclude, sleep, until a verdict  *)
(* or the deadline, while containers start, stop, restart, change health   *)
(* and are replaced between any two of these steps.                        *)
(***************************************************************************)
EXTENDS Replicas

CONSTANTS
    Slots,          \* containers the service can have
    Wanted,         \* those that compose up created
    Artifacts,      \* [name, id, check]: what a container can run; check is
                    \* "none", "active" or "disabled" (healthcheck: disable)
    ExpectedIds,    \* the verified image id, None when a rollback or a lifecycle
                    \* operation waits
    HealthLimit, CommandLimit, Pause,   \* in ticks
    MaxChanges      \* bound: changes of containers

(* docker gives every container the id of its image. *)
ASSUME WaitAssumption ==
    /\ IsFiniteSet(Slots) /\ Wanted \subseteq Slots /\ MaxChanges \in Nat
    /\ \A a \in Artifacts : a.id # None
    /\ HealthLimit \in Nat \ {0} /\ CommandLimit \in Nat \ {0}
    /\ Pause \in Nat \ {0}

VARIABLES
    world,          \* the containers
    changes,
    expected,       \* expected_image_id of this wait
    pc,             \* "ids", "inspect", "conclude", "sleep" or "done"
    clock, timer,   \* ticks of the wait; of the command or sleep it is in
    listed,         \* ids, as docker compose ps -q answered
    seen,           \* what docker inspect answered for them, or NoAnswer
    verdict,
    steady          \* history: containers that ran all the time since the
                    \* wait began

vars == <<world, changes, expected, pc, clock, timer, listed, seen, verdict, steady>>

NoAnswer == <<>>
Nowhere  == [status |-> "absent", artifact |-> None, health |-> None]
Bound    == HealthLimit + Pause + 2 * CommandLimit
Active(a) == a.check = "active"

Initially(a) == IF Active(a) THEN "starting" ELSE None
Container(status, a, health) == [status |-> status, artifact |-> a, health |-> health]

Runs(r)  == world[r].status \in {"running", "restarting"}
Exact(r) == world[r].status = "running"

(* compose up returned; a container it left alone may be healthy already. *)
Init ==
    /\ \E a \in Artifacts : \E up \in SUBSET Wanted : \E healthy \in BOOLEAN :
          world = [r \in Slots |->
                     IF r \in up
                     THEN Container("running", a, IF healthy /\ Active(a)
                                                  THEN "healthy" ELSE Initially(a))
                     ELSE IF r \in Wanted
                     THEN Container("exited", a, IF Active(a) THEN "unhealthy"
                                                             ELSE None)
                     ELSE Nowhere]
    /\ changes = 0 /\ expected \in ExpectedIds
    /\ pc = "ids" /\ clock = 0 /\ timer = 0
    /\ listed = <<>> /\ seen = NoAnswer /\ verdict = "none"
    /\ steady = {r \in Slots : Exact(r)}

-----------------------------------------------------------------------------
(* What containers do.  A stopped one that has a healthcheck is unhealthy. *)
After(c) ==
    LET a == c.artifact IN
    CASE c.status = "running" ->
             {Container("exited", a, IF Active(a) THEN "unhealthy" ELSE None),
              Container("restarting", a, Initially(a)),
              [Nowhere EXCEPT !.status = "removed"]}
             \cup IF Active(a) THEN {[c EXCEPT !.health = h] :
                                        h \in {"healthy", "unhealthy"}} ELSE {}
      [] c.status \in {"exited", "restarting"} ->
             {Container("running", a, Initially(a)),
              [Nowhere EXCEPT !.status = "removed"]}
      [] c.status = "absent" ->
             {Container("running", b, Initially(b)) : b \in Artifacts}
      [] OTHER -> {}

Change(r) ==
    /\ pc # "done" /\ changes < MaxChanges /\ changes' = changes + 1
    /\ \E c \in After(world[r]) : world' = [world EXCEPT ![r] = c]
    /\ steady' = {q \in steady : Exact(q)'}
    /\ UNCHANGED <<expected, pc, clock, timer, listed, seen, verdict>>

Answer(r) ==
    [image |-> world[r].artifact.name, id |-> world[r].artifact.id,
     healthcheck |-> world[r].artifact.check # "none",
     health |-> world[r].health, status |-> world[r].status]

Go(next) == pc' = next /\ timer' = 0
Finish(v) == Go("done") /\ verdict' = v

-----------------------------------------------------------------------------
(* docker compose ps -q: containers that run, newest or oldest first.  Its     *)
(* failure ends the wait.  Definitions named Faulty... are plausible mistakes, *)
(* used by the mutation runs only.                                             *)
ListIds ==
    /\ pc = "ids"
    /\ \/ /\ listed' \in SetToSeqs({r \in Slots : Runs(r)})
          /\ Go("inspect") /\ UNCHANGED verdict
       \/ Finish("error") /\ UNCHANGED listed
    /\ UNCHANGED <<world, changes, expected, clock, seen, steady>>

Known(r) == world[r].status \notin {"absent", "removed"}

(* docker inspect: fails as a whole when a container is gone or none was listed. *)
Inspect ==
    /\ pc = "inspect" /\ Go("conclude")
    /\ seen' \in
          {NoAnswer} \cup
          IF \A k \in DOMAIN listed : Known(listed[k])
          THEN {[k \in DOMAIN listed |-> Answer(listed[k])]} ELSE {}
    /\ UNCHANGED <<world, changes, expected, clock, listed, verdict, steady>>

FaultyLate == clock > HealthLimit + CommandLimit + Pause
Late == clock >= HealthLimit

(* The deadline counts after an error of docker inspect as well. *)
GivesUp == Late

(* The match in the loop, and the check of the deadline after it. *)
Conclude ==
    LET state == summarize(seen) IN
    /\ pc = "conclude"
    /\ \/ /\ seen # NoAnswer /\ state.ready
          /\ Finish(Verdict(state, expected))
       \/ /\ seen # NoAnswer /\ ~state.ready /\ Abnormal(state)
          /\ Finish("abnormal")
       \/ /\ seen = NoAnswer \/ (~state.ready /\ ~Abnormal(state))
          /\ IF GivesUp THEN Finish("timeout")
                        ELSE Go("sleep") /\ UNCHANGED verdict
    /\ UNCHANGED <<world, changes, expected, clock, listed, seen, steady>>

Wake ==
    /\ pc = "sleep" /\ timer = Pause /\ Go("ids")
    /\ UNCHANGED <<world, changes, expected, clock, listed, seen, verdict, steady>>

(* A command is killed at its limit; concluding takes no time. *)
Tick ==
    /\ \/ pc \in {"ids", "inspect"} /\ timer < CommandLimit
       \/ pc = "sleep" /\ timer < Pause
    /\ clock' = IF clock <= Bound THEN clock + 1 ELSE clock
    /\ timer' = timer + 1
    /\ UNCHANGED <<world, changes, expected, pc, listed, seen, verdict, steady>>

Next ==
    \/ \E r \in Slots : Change(r)
    \/ ListIds \/ Inspect \/ Conclude \/ Wake \/ Tick

Spec == Init /\ [][Next]_vars

(* Commands end or are killed, and time passes. *)
FairSpec == Spec /\ WF_vars(ListIds \/ Inspect \/ Conclude \/ Wake) /\ WF_vars(Tick)

-----------------------------------------------------------------------------
World == [status : {"absent", "removed", "running", "restarting", "exited"},
          artifact : Artifacts \cup {None},
          health : {None, "starting", "healthy", "unhealthy"}]
Values == [image : {a.name : a \in Artifacts}, id : {a.id : a \in Artifacts},
           healthcheck : BOOLEAN,
           health : {None, "starting", "healthy", "unhealthy"},
           status : {"running", "restarting", "exited"}]

(* Every variable keeps its type. *)
TypeOK ==
    /\ world \in [Slots -> World]
    /\ changes \in 0 .. MaxChanges /\ expected \in ExpectedIds
    /\ pc \in {"ids", "inspect", "conclude", "sleep", "done"}
    /\ clock \in 0 .. Bound + 1
    /\ timer \in 0 .. IF pc = "sleep" THEN Pause ELSE CommandLimit
    /\ listed \in Seq(Slots) /\ Len(listed) <= Cardinality(Slots)
    /\ seen \in Seq(Values)
    /\ verdict \in {"none", "ok", "mixed", "wrong", "abnormal", "timeout", "error"}
    /\ steady \subseteq Slots

(* A wait that succeeds saw every replica that ran since before it began: it   *)
(* ran the expected image, and was healthy if it has a healthcheck; and all    *)
(* that it accepted together ran one image.                                    *)
OkCoversRunning ==
    verdict = "ok" =>
        /\ \A r \in steady : \E k \in DOMAIN listed :
              /\ listed[k] = r
              /\ seen[k].id = world[r].artifact.id
              /\ expected # None => world[r].artifact.id = expected
              /\ Active(world[r].artifact) => seen[k].health = "healthy"
        /\ \A k, l \in DOMAIN seen : seen[k].id = seen[l].id

(* The wait is over at most one round of commands after its deadline, however  *)
(* its commands fail or hang.                                                  *)
WaitBounded == TypeOK /\ clock <= Bound

(* What recovery commits after a restart is what the wait would have accepted  *)
(* of the same containers, and nothing else.                                   *)
RecoveryAgrees ==
    seen # NoAnswer =>
        \A id \in {a.id : a \in Artifacts} :
            target_is_healthy(summarize(seen), id)
                <=> summarize(seen).ready /\ Verdict(summarize(seen), id) = "ok"

(* The page says "matched" only if every replica docker listed runs the        *)
(* committed image, whatever names the containers were started with.           *)
MatchedMeansAll ==
    seen # NoAnswer =>
        \A a \in Artifacts :
            image_status(TRUE, TRUE, a.name, a.id, summarize(seen)) = "matched"
                => \A k \in DOMAIN seen : seen[k].id = a.id

(* Recovery, the wait and the page do not judge one docker answer differently. *)
JudgementsAgree == RecoveryAgrees /\ MatchedMeansAll
=============================================================================
