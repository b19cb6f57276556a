------------------------------ MODULE Replicas ------------------------------
(***************************************************************************)
(* What windplume-deploy concludes from docker inspect about the replicas  *)
(* of a service: summarize of src/src/compose.rs and its three readers,    *)
(* the health wait, startup recovery (target_is_healthy) and the page      *)
(* (image_status).  A replica is a record of the inspected fields; ids and *)
(* image names are opaque values.                                          *)
(***************************************************************************)
EXTENDS Naturals, Sequences, FiniteSets, SequencesExt

CONSTANT None   \* an absent id or image name

Only(S) == IF Cardinality(S) = 1 THEN CHOOSE x \in S : TRUE ELSE None

(* A container with a healthcheck that reports no health counts as starting. *)
Health(v) == IF v.health = None THEN "starting" ELSE v.health

(* One round of the loop of summarize: is the replica ready, and what is it     *)
(* reported as if it is the last one that is not?                               *)
Ready(v)    == IF v.healthcheck THEN Health(v) = "healthy" ELSE v.status = "running"
Reported(v) == IF v.healthcheck THEN Health(v) ELSE v.status

FaultyUnready(values) == {k \in DOMAIN values : k = Len(values) /\ ~Ready(values[k])}
Unready(values) == {k \in DOMAIN values : ~Ready(values[k])}

(* worst, after the loop. *)
Worst(values) ==
    IF Unready(values) # {} THEN Reported(values[Max(Unready(values))])
    ELSE IF \E k \in DOMAIN values : ~values[k].healthcheck THEN "running"
    ELSE "healthy"

Mixed(values) ==
    \/ Cardinality({values[k].image : k \in DOMAIN values}) > 1
    \/ Cardinality({values[k].id : k \in DOMAIN values}) > 1

(* summarize: RuntimeState, with the flag "ready" it is returned with. *)
summarize(values) ==
    [actual_image     |-> Only({values[k].image : k \in DOMAIN values}),
     actual_image_id  |-> Only({values[k].id : k \in DOMAIN values}),
     replicas         |-> Len(values),
     mixed_images     |-> Mixed(values),
     container_status |-> Worst(values),
     ready            |-> Unready(values) = {}]

(* wait_healthy_image, of an answer that is ready. *)
Verdict(state, expected) ==
    IF state.mixed_images THEN "mixed"
    ELSE IF expected # None /\ state.actual_image_id # expected THEN "wrong"
    ELSE "ok"

(* ... and of one that is not: these states are not waited out. *)
Abnormal(state) == state.container_status \in {"unhealthy", "exited", "dead"}

FaultyTarget(state, target) ==
    /\ target # None /\ state.actual_image_id = target
    /\ state.container_status \in {"healthy", "running"}

(* recover_interrupted: may the interrupted deployment be committed? *)
target_is_healthy(state, target) ==
    /\ target # None /\ state.actual_image_id = target
    /\ ~state.mixed_images
    /\ state.container_status \in {"healthy", "running"}

(* image_status of src/src/web.rs; a service with a baseline has its image id. *)
image_status(managed, loaded, image, id, state) ==
    IF ~managed THEN "unmanaged"
    ELSE IF ~loaded THEN "unknown"
    ELSE IF state.mixed_images THEN "drift"
    ELSE IF id # None
         THEN IF state.actual_image_id = id THEN "matched" ELSE "drift"
    ELSE IF image # None /\ state.actual_image = image THEN "matched"
    ELSE "drift"
=============================================================================
