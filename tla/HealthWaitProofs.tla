-------------------------- MODULE HealthWaitProofs --------------------------
(***************************************************************************)
(* Proofs about HealthWait and the readers of summarize for any number of  *)
(* containers, any artifacts, limits and changes.                          *)
(***************************************************************************)
EXTENDS HealthWait, TLAPS, FiniteSetTheorems, SequenceTheorems,
        WellFoundedInduction

(* docker knows the image of every container it knows. *)
WorldSound == \A r \in Slots : Known(r) => world[r].artifact \in Artifacts

(* A container that is steady runs, so that docker compose ps -q listed it. *)
SteadyListed ==
    /\ steady \subseteq {r \in Slots : Exact(r)}
    /\ pc \in {"inspect", "conclude"} \/ verdict = "ok" => steady \subseteq ToSet(listed)

(* What docker inspect answered of a steady container is still so, but for its  *)
(* health.                                                                      *)
SeenCurrent ==
    (pc = "conclude" \/ verdict = "ok") /\ seen # NoAnswer =>
        /\ DOMAIN seen = DOMAIN listed
        /\ \A k \in DOMAIN listed : listed[k] \in steady =>
              /\ seen[k].id = world[listed[k]].artifact.id
              /\ seen[k].healthcheck = (world[listed[k]].artifact.check # "none")

(* A wait that succeeded did so on what it saw. *)
Accepted ==
    verdict = "ok" =>
        /\ pc = "done" /\ seen # NoAnswer
        /\ Unready(seen) = {}
        /\ Verdict(summarize(seen), expected) = "ok"

(* How late each step of a round may be. *)
Latest ==
    CASE pc = "ids"      -> HealthLimit + Pause + timer
      [] pc = "inspect"  -> HealthLimit + Pause + CommandLimit + timer
      [] pc = "sleep"    -> HealthLimit + timer
      [] OTHER           -> Bound

InTime == clock < Latest

Inv ==
    /\ TypeOK
    /\ WorldSound
    /\ SteadyListed
    /\ SeenCurrent
    /\ Accepted
    /\ InTime

-----------------------------------------------------------------------------
(* What summarize returns.                                                  *)

LEMMA GreatestElement ==
  ASSUME NEW n \in Nat, NEW S \in SUBSET (1 .. n), S # {}
  PROVE  \E m \in S : \A y \in S : m >= y
<1> DEFINE T == {d \in Nat : \E y \in S : d = n - y}
<1>1. T \subseteq Nat /\ T # {}
  <2>1. PICK y \in S : TRUE
    OBVIOUS
  <2>2. n - y \in T
    BY <2>1
  <2> QED BY <2>2
<1>2. \A y \in S : n - y \in T
  OBVIOUS
<1>3. \A d \in T : \E y \in S : d = n - y
  OBVIOUS
<1> HIDE DEF T
<1>4. PICK d \in T : \A e \in T : ~(<<e, d>> \in OpToRel(<, Nat))
  BY <1>1, NatLessThanWellFounded, WFMin
<1>5. \A e \in T : ~(e < d)
  BY <1>1, <1>4 DEF OpToRel
<1>6. PICK m \in S : d = n - m
  BY <1>3
<1> QED BY <1>2, <1>5, <1>6

LEMMA LastUnready ==
  ASSUME NEW n \in Nat, NEW S \in SUBSET (1 .. n), S # {}
  PROVE  Max(S) \in S
<1>1. PICK m \in S : \A y \in S : m >= y
  BY GreatestElement
<1> QED BY <1>1 DEF Max

(* The container status of a summary is that of a ready service exactly when no *)
(* replica is unready.                                                          *)
LEMMA ReadyStatus ==
  ASSUME NEW values \in Seq(Values)
  PROVE  Worst(values) \in {"healthy", "running"} <=> Unready(values) = {}
<1>1. CASE Unready(values) = {}
  BY <1>1 DEF Worst
<1>2. CASE Unready(values) # {}
  <2>1. DOMAIN values = 1 .. Len(values) /\ Len(values) \in Nat
    OBVIOUS
  <2>2. Unready(values) \in SUBSET (1 .. Len(values))
    BY <2>1 DEF Unready
  <2>3. Max(Unready(values)) \in Unready(values)
    BY <1>2, <2>1, <2>2, LastUnready
  <2>4. PICK v : v = values[Max(Unready(values))]
    OBVIOUS
  <2>5. v \in Values /\ ~Ready(v)
    BY <2>1, <2>3, <2>4 DEF Unready
  <2>6. Worst(values) = Reported(v)
    BY <1>2, <2>4 DEF Worst
  <2>7. /\ v.status \in {"running", "restarting", "exited"}
        /\ v.health \in {None, "starting", "healthy", "unhealthy"}
    BY <2>5 DEF Values
  <2>8. Health(v) \in {"starting", "healthy", "unhealthy"}
    BY <2>7 DEF Health
  <2>9. Reported(v) \notin {"healthy", "running"}
    <3>1. CASE v.healthcheck
      <4>1. Reported(v) = Health(v) /\ Health(v) # "healthy"
        BY <2>5, <3>1, Zenon DEF Ready, Reported
      <4> QED BY <4>1, <2>8
    <3>2. CASE ~v.healthcheck
      <4>1. Reported(v) = v.status /\ v.status # "running"
        BY <2>5, <3>2, Zenon DEF Ready, Reported
      <4> QED BY <4>1, <2>7
    <3> QED BY <3>1, <3>2
  <2> QED BY <1>2, <2>6, <2>9
<1> QED BY <1>1, <1>2

LEMMA IdsFinite ==
  ASSUME NEW values \in Seq(Values)
  PROVE  /\ IsFiniteSet({values[k].id : k \in DOMAIN values})
         /\ Cardinality({values[k].id : k \in DOMAIN values}) \in Nat
<1> DEFINE T == {values[k].id : k \in DOMAIN values}
           f == [k \in DOMAIN values |-> values[k].id]
<1>1. DOMAIN values = 1 .. Len(values) /\ Len(values) \in Nat
  OBVIOUS
<1>2. IsFiniteSet(DOMAIN values)
  BY <1>1, FS_Interval
<1>3. f \in Surjection(DOMAIN values, T)
  BY DEF Surjection
<1>4. IsFiniteSet(T)
  BY <1>2, <1>3, FS_Surjection
<1> QED BY <1>4, FS_CardinalityType

(* The image id of a summary, when it has one, is that of every replica. *)
LEMMA OnlyId ==
  ASSUME NEW values \in Seq(Values), NEW id, id # None,
         Only({values[k].id : k \in DOMAIN values}) = id
  PROVE  \A k \in DOMAIN values : values[k].id = id
<1> DEFINE T == {values[k].id : k \in DOMAIN values}
<1>1. Cardinality(T) = 1
  BY DEF Only
<1>2. PICK x : T = {x}
  BY <1>1, IdsFinite, FS_Singleton
<1>3. id = x
  BY <1>1, <1>2 DEF Only
<1>4. \A k \in DOMAIN values : values[k].id \in T
  OBVIOUS
<1> QED BY <1>2, <1>3, <1>4

(* Replicas that are not mixed run one image. *)
LEMMA OneId ==
  ASSUME NEW values \in Seq(Values), ~Mixed(values)
  PROVE  \A k, l \in DOMAIN values : values[k].id = values[l].id
<1> DEFINE T == {values[k].id : k \in DOMAIN values}
<1>1. IsFiniteSet(T) /\ Cardinality(T) \in Nat /\ ~(Cardinality(T) > 1)
  BY IdsFinite DEF Mixed
<1>2. \A k \in DOMAIN values : values[k].id \in T
  OBVIOUS
<1> HIDE DEF T
<1>3. Cardinality(T) = 0 \/ Cardinality(T) = 1
  BY <1>1
<1>4. CASE Cardinality(T) = 0
  BY <1>1, <1>2, <1>4, FS_EmptySet
<1>5. CASE Cardinality(T) = 1
  <2>1. PICK x : T = {x}
    BY <1>1, <1>5, FS_Singleton
  <2> QED BY <1>2, <2>1
<1> QED BY <1>3, <1>4, <1>5

(* Recovery would commit exactly what the wait accepts. *)
LEMMA RecoveryReads ==
  ASSUME NEW values \in Seq(Values), NEW id, id # None
  PROVE  target_is_healthy(summarize(values), id)
           <=> summarize(values).ready /\ Verdict(summarize(values), id) = "ok"
<1> DEFINE ids == {values[k].id : k \in DOMAIN values}
<1>1. /\ summarize(values).actual_image_id = Only(ids)
      /\ summarize(values).container_status = Worst(values)
  BY DEF summarize
<1>2. summarize(values).ready <=> Unready(values) = {}
  BY Zenon DEF summarize
<1> HIDE DEF ids
<1>3. PICK s : s = summarize(values)
  OBVIOUS
<1>4. s.ready <=> s.container_status \in {"healthy", "running"}
  <2>1. s.ready <=> Unready(values) = {}
    BY <1>2, <1>3, Zenon
  <2>2. s.container_status = Worst(values)
    BY <1>1, <1>3
  <2> QED BY <2>1, <2>2, ReadyStatus, Zenon
<1>5. Verdict(s, id) = "ok" <=> ~s.mixed_images /\ s.actual_image_id = id
  BY Zenon DEF Verdict
<1> QED BY <1>3, <1>4, <1>5, Zenon DEF target_is_healthy

(* The page calls a service with a baseline id matched only if every replica    *)
(* runs that image.                                                             *)
LEMMA PageReads ==
  ASSUME NEW values \in Seq(Values), NEW image, NEW id, id # None,
         image_status(TRUE, TRUE, image, id, summarize(values)) = "matched"
  PROVE  \A k \in DOMAIN values : values[k].id = id
<1>1. summarize(values).actual_image_id = id
  BY Zenon DEF image_status
<1>2. Only({values[k].id : k \in DOMAIN values}) = id
  BY <1>1 DEF summarize
<1> QED BY <1>2, OnlyId

-----------------------------------------------------------------------------
(* What docker compose ps -q and docker inspect answer.                     *)

(* ps -q names every container of the set once, in some order. *)
LEMMA ListsAll ==
  ASSUME NEW S \in SUBSET Slots, NEW s \in SetToSeqs(S)
  PROVE  /\ s \in Seq(Slots) /\ Len(s) <= Cardinality(Slots)
         /\ ToSet(s) = S
<1> DEFINE D == 1 .. Cardinality(S)
<1>1. /\ IsFiniteSet(S) /\ Cardinality(S) \in Nat
      /\ Cardinality(S) <= Cardinality(Slots)
  BY WaitAssumption, FS_Subset, FS_CardinalityType
<1>2. s \in [D -> S] /\ \A i, j \in D : i # j => s[i] # s[j]
  BY DEF SetToSeqs
<1>3. Cardinality(D) = Cardinality(S) /\ IsFiniteSet(D)
  BY <1>1, FS_Interval
<1>4. s \in Injection(D, S)
  BY <1>2 DEF Injection, IsInjective
<1>5. s \in Surjection(D, S)
  BY <1>1, <1>3, <1>4, FS_Injection
<1>6. s \in [1 .. Cardinality(S) -> Slots]
  BY <1>2
<1>7. s \in Seq(Slots)
  BY <1>1, <1>6
<1>8. Len(s) = Cardinality(S)
  BY <1>1, <1>6
<1>9. ToSet(s) = S
  <2>1. \A x \in S : \E i \in D : s[i] = x
    BY <1>5 DEF Surjection
  <2> QED BY <1>2, <2>1 DEF ToSet
<1> QED BY <1>1, <1>7, <1>8, <1>9

(* docker's answer about a container it knows. *)
LEMMA AnswerTyped ==
  ASSUME TypeOK, WorldSound, NEW r \in Slots, Known(r)
  PROVE  Answer(r) \in Values
<1>1. PICK c : c = world[r]
  OBVIOUS
<1>2. /\ c.artifact \in Artifacts
      /\ c.status \in {"running", "restarting", "exited"}
      /\ c.health \in {None, "starting", "healthy", "unhealthy"}
  BY <1>1 DEF TypeOK, WorldSound, Known, World
<1>3. PICK a \in Artifacts : a = c.artifact
  BY <1>2
<1>4. /\ a.name \in {b.name : b \in Artifacts}
      /\ a.id \in {b.id : b \in Artifacts}
  OBVIOUS
<1>5. (a.check # "none") \in BOOLEAN
  OBVIOUS
<1>6. Answer(r) = [image |-> a.name, id |-> a.id, healthcheck |-> a.check # "none",
                   health |-> c.health, status |-> c.status]
  BY <1>1, <1>3 DEF Answer
<1>7. PICK h : h = (a.check # "none")
  OBVIOUS
<1>8. h \in BOOLEAN
  BY <1>5, <1>7
<1>9. Answer(r) = [image |-> a.name, id |-> a.id, healthcheck |-> h,
                   health |-> c.health, status |-> c.status]
  BY <1>6, <1>7, Zenon
<1> QED BY <1>2, <1>4, <1>8, <1>9 DEF Values

(* docker's answer about all the containers of a list. *)
LEMMA AnswersTyped ==
  ASSUME TypeOK, WorldSound, \A k \in DOMAIN listed : Known(listed[k])
  PROVE  [k \in DOMAIN listed |-> Answer(listed[k])] \in Seq(Values)
<1>1. /\ Len(listed) \in Nat /\ DOMAIN listed = 1 .. Len(listed)
      /\ \A k \in DOMAIN listed : listed[k] \in Slots
  BY LenProperties, ElementOfSeq DEF TypeOK
<1>2. \A k \in DOMAIN listed : Answer(listed[k]) \in Values
  BY <1>1, AnswerTyped
<1> DEFINE f == [k \in DOMAIN listed |-> Answer(listed[k])]
<1>3. f \in [1 .. Len(listed) -> Values]
  BY <1>1, <1>2
<1> HIDE DEF f
<1>4. f \in Seq(Values)
  BY <1>1, <1>3
<1> QED BY <1>4 DEF f

-----------------------------------------------------------------------------
(* Init, and the steps that keep the containers as they are.                *)

LEMMA Limits ==
  /\ HealthLimit \in Nat \ {0} /\ CommandLimit \in Nat \ {0} /\ Pause \in Nat \ {0}
  /\ MaxChanges \in Nat /\ Bound \in Nat
  /\ Bound = HealthLimit + Pause + 2 * CommandLimit
BY WaitAssumption DEF Bound

(* Every container that compose up left is of the artifact, or nowhere. *)
LEMMA InitWorld ==
  ASSUME Init
  PROVE  world \in [Slots -> World] /\ WorldSound
<1>1. PICK a \in Artifacts, up \in SUBSET Wanted, healthy \in BOOLEAN :
        world = [r \in Slots |->
                   IF r \in up
                   THEN Container("running", a, IF healthy /\ Active(a)
                                                THEN "healthy" ELSE Initially(a))
                   ELSE IF r \in Wanted
                   THEN Container("exited", a, IF Active(a) THEN "unhealthy"
                                                           ELSE None)
                   ELSE Nowhere]
  BY DEF Init
<1>2. /\ Initially(a) \in {None, "starting"}
      /\ (IF healthy /\ Active(a) THEN "healthy" ELSE Initially(a))
           \in {None, "starting", "healthy", "unhealthy"}
      /\ (IF Active(a) THEN "unhealthy" ELSE None)
           \in {None, "starting", "healthy", "unhealthy"}
  BY DEF Initially
<1>3. \A r \in Slots :
        /\ world[r] \in World
        /\ world[r].status # "absent" => world[r].artifact = a
  BY <1>1, <1>2 DEF Container, Nowhere, World
<1> QED BY <1>1, <1>3 DEF WorldSound, Known

LEMMA InitInv ==
  ASSUME Init
  PROVE  Inv
<1> USE Limits
<1>1. /\ changes = 0 /\ expected \in ExpectedIds
      /\ pc = "ids" /\ clock = 0 /\ timer = 0
      /\ listed = <<>> /\ seen = <<>> /\ verdict = "none"
      /\ steady = {r \in Slots : Exact(r)}
  BY Zenon DEF Init, NoAnswer
<1>2. IsFiniteSet(Slots) /\ Cardinality(Slots) \in Nat
  BY WaitAssumption, FS_CardinalityType
<1>3. TypeOK
  BY <1>1, <1>2, InitWorld DEF TypeOK
<1>4. SteadyListed
  BY <1>1 DEF SteadyListed
<1> QED BY <1>1, <1>3, <1>4, InitWorld
        DEF Inv, SeenCurrent, Accepted, InTime, Latest, NoAnswer

LEMMA WorldKept ==
  ASSUME WorldSound, world' = world
  PROVE  WorldSound'
BY DEF WorldSound, Known


LEMMA ListIdsKeeps ==
  ASSUME Inv, ListIds
  PROVE  Inv'
<1> USE Limits
<1>1. /\ UNCHANGED <<world, changes, expected, clock, seen, steady>>
      /\ pc = "ids" /\ timer' = 0
  BY DEF ListIds, Go, Finish
<1>2. verdict # "ok"
  BY <1>1 DEF Inv, Accepted
<1>3. WorldSound'
  BY <1>1, WorldKept DEF Inv
<1>4. clock < HealthLimit + Pause + CommandLimit
  BY <1>1 DEF Inv, TypeOK, InTime, Latest
<1>5. \A r \in Slots : Exact(r) => Runs(r)
  BY DEF Exact, Runs
<1>6. CASE /\ listed' \in SetToSeqs({r \in Slots : Runs(r)})
           /\ Go("inspect") /\ UNCHANGED verdict
  <2>1. /\ listed' \in Seq(Slots) /\ Len(listed') <= Cardinality(Slots)
        /\ ToSet(listed') = {r \in Slots : Runs(r)}
    BY <1>6, ListsAll
  <2>2. pc' = "inspect" /\ verdict' = verdict
    BY <1>6 DEF Go
  <2>3. TypeOK'
    BY <1>1, <2>1, <2>2 DEF Inv, TypeOK
  <2>4. SteadyListed'
    BY <1>1, <1>5, <2>1 DEF Inv, SteadyListed, Exact
  <2>5. SeenCurrent' /\ Accepted'
    BY <1>2, <2>2 DEF SeenCurrent, Accepted
  <2>6. Latest' = HealthLimit + Pause + CommandLimit + 0 /\ clock' = clock /\ clock \in Nat
    BY <1>1, <2>2 DEF Latest, Inv, TypeOK
  <2>7. InTime'
    BY <1>4, <2>6 DEF InTime
  <2> QED BY <1>3, <2>3, <2>4, <2>5, <2>7 DEF Inv
<1>7. CASE Finish("error") /\ UNCHANGED listed
  <2>1. pc' = "done" /\ verdict' = "error" /\ listed' = listed
    BY <1>7 DEF Finish, Go
  <2>2. TypeOK'
    BY <1>1, <2>1 DEF Inv, TypeOK
  <2>3. SteadyListed'
    BY <1>1, <2>1 DEF Inv, SteadyListed, Exact
  <2> QED BY <1>1, <1>3, <1>4, <2>1, <2>2, <2>3
          DEF Inv, SeenCurrent, Accepted, InTime, Latest, TypeOK
<1> QED BY <1>6, <1>7 DEF ListIds

LEMMA InspectKeeps ==
  ASSUME Inv, Inspect
  PROVE  Inv'
<1> USE Limits
<1>1. /\ UNCHANGED <<world, changes, expected, clock, listed, verdict, steady>>
      /\ pc = "inspect" /\ pc' = "conclude" /\ timer' = 0
  BY DEF Inspect, Go
<1>2. verdict # "ok"
  BY <1>1 DEF Inv, Accepted
<1>3. WorldSound'
  BY <1>1, WorldKept DEF Inv
<1>4. clock < Bound
  BY <1>1 DEF Inv, TypeOK, InTime, Latest
<1>5. \/ seen' = NoAnswer
      \/ /\ \A k \in DOMAIN listed : Known(listed[k])
         /\ seen' = [k \in DOMAIN listed |-> Answer(listed[k])]
  BY DEF Inspect
<1>6. seen' \in Seq(Values)
  <2>1. NoAnswer \in Seq(Values)
    BY DEF NoAnswer
  <2>2. TypeOK /\ WorldSound
    BY DEF Inv
  <2> QED BY <1>5, <2>1, <2>2, AnswersTyped
<1>7. TypeOK'
  BY <1>1, <1>6 DEF Inv, TypeOK
<1>8. SteadyListed'
  BY <1>1 DEF Inv, SteadyListed, Exact
<1>9. SeenCurrent'
  <2>1. CASE seen' = NoAnswer
    BY <2>1 DEF SeenCurrent, NoAnswer
  <2>2. CASE seen' = [k \in DOMAIN listed |-> Answer(listed[k])]
    <3>1. DOMAIN seen' = DOMAIN listed
      BY <2>2
    <3>2. ASSUME NEW k \in DOMAIN listed
          PROVE  /\ seen'[k].id = world[listed[k]].artifact.id
                 /\ seen'[k].healthcheck = (world[listed[k]].artifact.check # "none")
      <4>1. PICK v : v = seen'[k]
        OBVIOUS
      <4>2. v = Answer(listed[k])
        BY <2>2, <4>1
      <4>3. v.id = world[listed[k]].artifact.id
        BY <4>2 DEF Answer
      <4>4. v.healthcheck = (world[listed[k]].artifact.check # "none")
        BY <4>2, Zenon DEF Answer
      <4> QED BY <4>1, <4>3, <4>4
    <3> QED BY <1>1, <3>1, <3>2 DEF SeenCurrent
  <2> QED BY <1>5, <2>1, <2>2
<1> QED BY <1>1, <1>2, <1>3, <1>4, <1>7, <1>8, <1>9
        DEF Inv, Accepted, InTime, Latest

LEMMA ConcludeKeeps ==
  ASSUME Inv, Conclude
  PROVE  Inv'
<1> USE Limits
<1>1. /\ UNCHANGED <<world, changes, expected, clock, listed, seen, steady>>
      /\ pc = "conclude" /\ timer' = 0
  BY DEF Conclude, Finish, Go
<1>2. verdict # "ok"
  BY <1>1 DEF Inv, Accepted
<1>3. WorldSound'
  BY <1>1, WorldKept DEF Inv
<1>4. clock < Bound
  BY <1>1 DEF Inv, TypeOK, InTime, Latest
<1>5. PICK s : s = summarize(seen)
  OBVIOUS
<1>6. s.ready <=> Unready(seen) = {}
  BY <1>5, Zenon DEF summarize
<1>7. Verdict(s, expected) \in {"ok", "mixed", "wrong"}
  BY DEF Verdict
<1>8. \/ /\ pc' = "done" /\ verdict' = Verdict(s, expected)
         /\ seen # NoAnswer /\ Unready(seen) = {}
      \/ pc' = "done" /\ verdict' \in {"abnormal", "timeout"}
      \/ pc' = "sleep" /\ verdict' = verdict /\ ~Late
  BY <1>5, <1>6, Zenon DEF Conclude, Finish, Go, GivesUp
<1>9. pc' \in {"done", "sleep"}
  BY <1>8
<1>10. verdict' \in {"ok", "mixed", "wrong", "abnormal", "timeout"} \/ verdict' = verdict
  BY <1>7, <1>8
<1>11. TypeOK'
  BY <1>1, <1>9, <1>10 DEF Inv, TypeOK
<1>12. SteadyListed'
  BY <1>1 DEF Inv, SteadyListed, Exact
<1>13. SeenCurrent'
  BY <1>1 DEF Inv, SeenCurrent
<1>14. Accepted'
  <2>1. verdict' = "ok" => pc' = "done" /\ seen # NoAnswer /\ Unready(seen) = {}
                           /\ Verdict(s, expected) = "ok"
    BY <1>2, <1>8
  <2>2. expected' = expected /\ seen' = seen /\ NoAnswer' = NoAnswer
    BY <1>1 DEF NoAnswer
  <2> QED BY <1>5, <2>1, <2>2 DEF Accepted
<1>15. InTime'
  <2>1. CASE pc' = "done"
    BY <1>1, <1>4, <2>1 DEF InTime, Latest
  <2>2. CASE pc' = "sleep"
    <3>1. ~(clock >= HealthLimit)
      BY <1>8, <2>2 DEF Late
    <3>2. clock \in Nat
      BY DEF Inv, TypeOK
    <3> QED BY <1>1, <2>2, <3>1, <3>2 DEF InTime, Latest
  <2> QED BY <1>9, <2>1, <2>2
<1> QED BY <1>3, <1>11, <1>12, <1>13, <1>14, <1>15 DEF Inv

LEMMA WakeKeeps ==
  ASSUME Inv, Wake
  PROVE  Inv'
<1> USE Limits
<1>1. /\ UNCHANGED <<world, changes, expected, clock, listed, seen, verdict, steady>>
      /\ pc = "sleep" /\ pc' = "ids" /\ timer = Pause /\ timer' = 0
  BY DEF Wake, Go
<1>2. verdict # "ok"
  BY <1>1 DEF Inv, Accepted
<1>3. WorldSound'
  BY <1>1, WorldKept DEF Inv
<1>4. TypeOK'
  BY <1>1 DEF Inv, TypeOK
<1>5. SteadyListed'
  BY <1>1, <1>2 DEF Inv, SteadyListed, Exact
<1>6. InTime'
  BY <1>1 DEF Inv, TypeOK, InTime, Latest
<1> QED BY <1>1, <1>2, <1>3, <1>4, <1>5, <1>6 DEF Inv, SeenCurrent, Accepted

LEMMA TickKeeps ==
  ASSUME Inv, Tick
  PROVE  Inv'
<1> USE Limits
<1>1. /\ UNCHANGED <<world, changes, expected, pc, listed, seen, verdict, steady>>
      /\ timer' = timer + 1
      /\ \/ pc \in {"ids", "inspect"} /\ timer < CommandLimit
         \/ pc = "sleep" /\ timer < Pause
      /\ clock' = IF clock <= Bound THEN clock + 1 ELSE clock
  BY DEF Tick
<1>2. verdict # "ok"
  BY <1>1 DEF Inv, Accepted
<1>3. WorldSound'
  BY <1>1, WorldKept DEF Inv
<1>4. clock \in Nat /\ timer \in Nat
  BY DEF Inv, TypeOK
<1>5. clock < Bound /\ clock < Latest
  BY <1>1, <1>4 DEF Inv, InTime, Latest
<1>6. clock' = clock + 1
  BY <1>1, <1>4, <1>5
<1>7. TypeOK'
  BY <1>1, <1>4, <1>5, <1>6 DEF Inv, TypeOK
<1>8. SteadyListed'
  BY <1>1, <1>2 DEF Inv, SteadyListed, Exact
<1>9. InTime'
  BY <1>1, <1>4, <1>5, <1>6 DEF InTime, Latest
<1> QED BY <1>1, <1>2, <1>3, <1>7, <1>8, <1>9 DEF Inv, SeenCurrent, Accepted

(* A container that stays running stays itself. *)
LEMMA AfterRunning ==
  ASSUME NEW c \in World, c.status = "running", NEW d \in After(c),
         d.status = "running"
  PROVE  d.artifact = c.artifact
<1>1. \/ d = Container("exited", c.artifact,
                       IF Active(c.artifact) THEN "unhealthy" ELSE None)
      \/ d = Container("restarting", c.artifact, Initially(c.artifact))
      \/ d = [Nowhere EXCEPT !.status = "removed"]
      \/ \E h \in {"healthy", "unhealthy"} : d = [c EXCEPT !.health = h]
  BY Zenon DEF After
<1>2. \A h \in {"healthy", "unhealthy"} : [c EXCEPT !.health = h].artifact = c.artifact
  BY DEF World
<1>3. [Nowhere EXCEPT !.status = "removed"].status = "removed"
  BY DEF Nowhere
<1>4. \E h \in {"healthy", "unhealthy"} : d = [c EXCEPT !.health = h]
  <2>1. \A s, a, h : Container(s, a, h).status = s
    BY DEF Container
  <2>2. "exited" # "running" /\ "restarting" # "running" /\ "removed" # "running"
    OBVIOUS
  <2>3. \A x, h : d # Container("exited", x, h) /\ d # Container("restarting", x, h)
    BY <2>1, <2>2, Zenon
  <2>4. d # [Nowhere EXCEPT !.status = "removed"]
    BY <1>3, <2>2, Zenon
  <2> QED BY <1>1, <2>3, <2>4, Zenon
<1> QED BY <1>2, <1>4

(* What becomes of a container is a container, of its artifact if docker knows *)
(* it still.                                                                   *)
LEMMA AfterSound ==
  ASSUME NEW c \in World, NEW d \in After(c),
         c.status \notin {"absent", "removed"} => c.artifact \in Artifacts
  PROVE  /\ d \in World
         /\ d.status \notin {"absent", "removed"} => d.artifact \in Artifacts
<1>1. \A a : Initially(a) \in {None, "starting"}
  BY DEF Initially
<1>2. \A a : (IF Active(a) THEN "unhealthy" ELSE None) \in {None, "unhealthy"}
  OBVIOUS
<1>3. [Nowhere EXCEPT !.status = "removed"]
         = [status |-> "removed", artifact |-> None, health |-> None]
  BY DEF Nowhere
<1>4. CASE c.status = "running"
  <2>1. c.artifact \in Artifacts
    BY <1>4
  <2>2. \/ d = Container("exited", c.artifact,
                         IF Active(c.artifact) THEN "unhealthy" ELSE None)
        \/ d = Container("restarting", c.artifact, Initially(c.artifact))
        \/ d = [Nowhere EXCEPT !.status = "removed"]
        \/ \E h \in {"healthy", "unhealthy"} : d = [c EXCEPT !.health = h]
    BY <1>4, Zenon DEF After
  <2>3. \A h \in {"healthy", "unhealthy"} :
          /\ [c EXCEPT !.health = h] \in World
          /\ [c EXCEPT !.health = h].artifact = c.artifact
    BY DEF World
  <2> QED BY <1>1, <1>2, <1>3, <2>1, <2>2, <2>3 DEF Container, World
<1>5. CASE c.status \in {"exited", "restarting"}
  <2>1. c.artifact \in Artifacts
    BY <1>5
  <2>2. \/ d = Container("running", c.artifact, Initially(c.artifact))
        \/ d = [Nowhere EXCEPT !.status = "removed"]
    BY <1>5 DEF After
  <2> QED BY <1>1, <1>3, <2>1, <2>2 DEF Container, World
<1>6. CASE c.status = "absent"
  <2>1. \E b \in Artifacts : d = Container("running", b, Initially(b))
    BY <1>6 DEF After
  <2> QED BY <1>1, <2>1 DEF Container, World
<1>7. CASE c.status = "removed"
  <2>1. After(c) = {}
    BY <1>7 DEF After
  <2> QED BY <2>1
<1> QED BY <1>4, <1>5, <1>6, <1>7 DEF World

LEMMA ChangeKeeps ==
  ASSUME Inv, NEW r \in Slots, Change(r)
  PROVE  Inv'
<1> USE Limits
<1>1. /\ UNCHANGED <<expected, pc, clock, timer, listed, seen, verdict>>
      /\ pc # "done" /\ changes < MaxChanges /\ changes' = changes + 1
      /\ steady' = {q \in steady : Exact(q)'}
  BY DEF Change
<1>2. PICK d \in After(world[r]) : world' = [world EXCEPT ![r] = d]
  BY DEF Change
<1>3. PICK c : c = world[r]
  OBVIOUS
<1>4. c \in World /\ d \in After(c)
  BY <1>2, <1>3 DEF Inv, TypeOK
<1>5. c.status \notin {"absent", "removed"} => c.artifact \in Artifacts
  BY <1>3 DEF Inv, WorldSound, Known
<1>6. d \in World /\ (d.status \notin {"absent", "removed"} => d.artifact \in Artifacts)
  BY <1>4, <1>5, AfterSound
<1>7. world \in [Slots -> World]
  BY DEF Inv, TypeOK
<1>8. world' \in [Slots -> World] /\ world'[r] = d
      /\ \A q \in Slots : q # r => world'[q] = world[q]
  BY <1>2, <1>6, <1>7
<1>9. WorldSound'
  BY <1>6, <1>8 DEF Inv, WorldSound, Known
<1>10. verdict # "ok"
  BY <1>1 DEF Inv, Accepted
<1>11. steady' \subseteq steady /\ steady \subseteq Slots
       /\ \A q \in steady' : world'[q].status = "running"
  BY <1>1 DEF Inv, TypeOK, Exact
<1>12. TypeOK'
  BY <1>1, <1>8, <1>11 DEF Inv, TypeOK
<1>13. SteadyListed'
  BY <1>1, <1>10, <1>11 DEF Inv, SteadyListed, Exact
<1>14. \A q \in steady' : world'[q].artifact = world[q].artifact
  <2> SUFFICES ASSUME NEW q \in steady'
               PROVE  world'[q].artifact = world[q].artifact
    OBVIOUS
  <2>1. CASE q = r
    <3>1. c.status = "running"
      BY <1>3, <1>11, <2>1 DEF Inv, SteadyListed, Exact
    <3>2. d.status = "running"
      BY <1>8, <1>11, <2>1
    <3>3. d.artifact = c.artifact
      BY <1>4, <3>1, <3>2, AfterRunning
    <3> QED BY <1>3, <1>8, <2>1, <3>3
  <2>2. CASE q # r
    BY <1>8, <1>11, <2>2
  <2> QED BY <2>1, <2>2
<1>15. SeenCurrent'
  BY <1>1, <1>10, <1>11, <1>14 DEF Inv, SeenCurrent, NoAnswer
<1>16. InTime'
  BY <1>1 DEF Inv, InTime, Latest
<1> QED BY <1>1, <1>9, <1>10, <1>12, <1>13, <1>15, <1>16 DEF Inv, Accepted

LEMMA NextKeeps ==
  ASSUME Inv, [Next]_vars
  PROVE  Inv'
<1>1. CASE Next
  BY <1>1, ChangeKeeps, ListIdsKeeps, InspectKeeps, ConcludeKeeps, WakeKeeps,
     TickKeeps DEF Next
<1>2. CASE UNCHANGED vars
  <2>1. WorldSound'
    BY <1>2, WorldKept DEF Inv, vars
  <2>2. TypeOK'
    BY <1>2 DEF Inv, TypeOK, vars
  <2>3. SteadyListed' /\ SeenCurrent' /\ Accepted' /\ InTime'
    BY <1>2 DEF Inv, SteadyListed, SeenCurrent, Accepted, InTime, Latest, Exact,
                NoAnswer, vars
  <2> QED BY <2>1, <2>2, <2>3 DEF Inv
<1> QED BY <1>1, <1>2

-----------------------------------------------------------------------------
(* The theorems.                                                            *)

(* Every reachable state of the wait is one where the list it holds names all   *)
(* the containers that never stopped, and what it saw of them still holds.      *)
THEOREM WaitFits == Spec => []Inv
BY InitInv, NextKeeps, PTL DEF Spec

(* The wait ends at most one round of commands after its deadline, however its  *)
(* commands fail or hang (WaitBounded).                                         *)
THEOREM WaitIsBounded == Spec => []WaitBounded
<1>1. ASSUME Inv
      PROVE  WaitBounded
  <2>1. clock \in Nat /\ timer \in Nat /\ clock < Latest
    BY <1>1 DEF Inv, TypeOK, InTime
  <2>2. Latest <= Bound
    BY <1>1, Limits DEF Inv, TypeOK, Latest
  <2>3. Latest \in Nat
    BY <2>1, Limits DEF Latest
  <2> QED BY <1>1, <2>1, <2>2, <2>3, Limits DEF Inv, WaitBounded
<1> QED BY <1>1, WaitFits, PTL

(* A wait that succeeds covers every container that ran all the time: each runs *)
(* the expected image and was healthy, and all that docker showed run one image *)
(* (OkCoversRunning).                                                           *)
THEOREM OkIsOfAll == Spec => []OkCoversRunning
<1>1. ASSUME Inv
      PROVE  OkCoversRunning
  <2> SUFFICES ASSUME verdict = "ok" PROVE OkCoversRunning
    BY DEF OkCoversRunning
  <2>1. seen \in Seq(Values) /\ seen # NoAnswer /\ Unready(seen) = {}
    BY <1>1 DEF Inv, TypeOK, Accepted
  <2>2. PICK s : s = summarize(seen)
    OBVIOUS
  <2>3. Verdict(s, expected) = "ok"
    BY <1>1, <2>2 DEF Inv, Accepted
  <2>4. /\ ~s.mixed_images
        /\ expected # None => s.actual_image_id = expected
    BY <2>3, Zenon DEF Verdict
  <2>5. ~Mixed(seen)
    BY <2>2, <2>4, Zenon DEF summarize
  <2>6. \A k, l \in DOMAIN seen : seen[k].id = seen[l].id
    BY <2>1, <2>5, OneId
  <2>7. ASSUME expected # None
        PROVE  \A k \in DOMAIN seen : seen[k].id = expected
    <3>1. Only({seen[k].id : k \in DOMAIN seen}) = expected
      BY <2>2, <2>4, <2>7 DEF summarize
    <3> QED BY <2>1, <2>7, <3>1, OnlyId
  <2>8. /\ DOMAIN seen = DOMAIN listed
        /\ \A k \in DOMAIN listed : listed[k] \in steady =>
              /\ seen[k].id = world[listed[k]].artifact.id
              /\ seen[k].healthcheck = (world[listed[k]].artifact.check # "none")
    BY <1>1, <2>1 DEF Inv, SeenCurrent
  <2>9. ASSUME NEW r \in steady
        PROVE  \E k \in DOMAIN listed :
                  /\ listed[k] = r
                  /\ seen[k].id = world[r].artifact.id
                  /\ expected # None => world[r].artifact.id = expected
                  /\ Active(world[r].artifact) => seen[k].health = "healthy"
    <3>1. PICK k \in DOMAIN listed : listed[k] = r
      BY <1>1 DEF Inv, SteadyListed, ToSet
    <3>2. seen[k].id = world[r].artifact.id
      BY <2>8, <3>1
    <3>3. expected # None => world[r].artifact.id = expected
      BY <2>7, <2>8, <3>1, <3>2
    <3>4. PICK v : v = seen[k]
      OBVIOUS
    <3>5. Ready(v)
      BY <2>1, <2>8, <3>1, <3>4 DEF Unready
    <3>6. ASSUME Active(world[r].artifact)
          PROVE  v.health = "healthy"
      <4>1. world[r].artifact.check # "none"
        BY <3>6 DEF Active
      <4>2. v.healthcheck
        BY <2>8, <3>1, <3>4, <4>1, Zenon
      <4>3. Health(v) = "healthy"
        BY <3>5, <4>2, Zenon DEF Ready
      <4> QED BY <4>3 DEF Health
    <3> QED BY <3>1, <3>2, <3>3, <3>4, <3>6
  <2> QED BY <2>6, <2>9 DEF OkCoversRunning
<1> QED BY <1>1, WaitFits, PTL

(* The wait, startup recovery and the page do not judge one docker answer       *)
(* differently (JudgementsAgree).                                               *)
THEOREM JudgementsSound == Spec => []JudgementsAgree
<1>1. ASSUME Inv
      PROVE  JudgementsAgree
  <2>1. seen \in Seq(Values)
    BY <1>1 DEF Inv, TypeOK
  <2>2. \A a \in Artifacts : a.id # None
    BY WaitAssumption
  <2>3. RecoveryAgrees
    <3> SUFFICES ASSUME NEW a \in Artifacts
                 PROVE  target_is_healthy(summarize(seen), a.id)
                          <=> summarize(seen).ready
                              /\ Verdict(summarize(seen), a.id) = "ok"
      BY Zenon DEF RecoveryAgrees
    <3>1. a.id # None
      BY <2>2
    <3> QED BY <2>1, <3>1, RecoveryReads
  <2>4. MatchedMeansAll
    <3> SUFFICES ASSUME NEW a \in Artifacts,
                        image_status(TRUE, TRUE, a.name, a.id, summarize(seen))
                          = "matched"
                 PROVE  \A k \in DOMAIN seen : seen[k].id = a.id
      BY Zenon DEF MatchedMeansAll
    <3>1. a.id # None
      BY <2>2
    <3> QED BY <2>1, <3>1, PageReads
  <2> QED BY <2>3, <2>4 DEF JudgementsAgree
<1> QED BY <1>1, WaitFits, PTL
=============================================================================
