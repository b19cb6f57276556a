------------------------ MODULE RegistryCacheProofs ------------------------
(***************************************************************************)
(* Proofs about RegistryCache for any number of page requests, registries, *)
(* versions, lifetimes and timeouts: what a deployment is admitted on and  *)
(* how stale an answer can be.                                             *)
(***************************************************************************)
EXTENDS VersionList, TLAPS, FiniteSetTheorems

(* A handler that waits asks a registry, and has not waited for longer than its *)
(* list is old; what is no longer the service's registry was so until the last  *)
(* refresh, which saw the query or has not invalidated yet.                     *)
GoodQuery(q) ==
    IF q.pc = "idle" THEN q = NoQuery
    ELSE /\ q.source \in Sources
         /\ q.taken <= q.elapsed
         /\ q.source # source => changed <= q.elapsed /\ (raced \/ lock = Refresher)

QueriesGood == \A h \in Handlers : GoodQuery(query[h])

(* The deploy request has the permit, so its registry is the service's own, and *)
(* whatever it finds there was offered while it asked.                          *)
DeployCurrent ==
    query[Deploy].pc # "idle" =>
        /\ lock = Deploy
        /\ query[Deploy].source = source
        /\ query[Deploy].pc = "asking" => published[source] \subseteq query[Deploy].offered
        /\ query[Deploy].pc = "taken" =>
              query[Deploy].versions \subseteq query[Deploy].offered

(* The entry that is still served. *)
EntryCurrent ==
    Fresh =>
        /\ cache.from \in Sources
        /\ cache.taken <= cache.at + QueryLimit
        /\ cache.from # source =>
              changed <= cache.at + QueryLimit /\ (raced \/ lock = Refresher)

Inv ==
    /\ TypeOK
    /\ QueriesGood
    /\ DeployCurrent
    /\ EntryCurrent
    /\ AdmittedExists
    /\ AnswerCurrent

-----------------------------------------------------------------------------
LEMMA Consts ==
  /\ TTL \in Nat /\ QueryLimit \in Nat /\ TTL > 0 /\ QueryLimit > 0
  /\ Oldest = TTL + QueryLimit /\ Oldest \in Nat
  /\ NoQuery \in Query /\ NoEntry \in Entry /\ Silence \in Answer /\ Nothing \in Admission
<1>1. /\ TTL \in Nat /\ QueryLimit \in Nat /\ TTL > 0 /\ QueryLimit > 0
      /\ Oldest = TTL + QueryLimit /\ Oldest \in Nat
  BY RegistryAssumption DEF Oldest
<1>2. NoQuery \in Query /\ NoEntry \in Entry /\ Nothing \in Admission
  BY <1>1 DEF NoQuery, Query, NoEntry, Entry, Nothing, Admission
<1>3. Silence \in Answer
  BY <1>1 DEF Silence, Answer
<1> QED BY <1>1, <1>2, <1>3

LEMMA OneLater ==
  ASSUME NEW n \in 0 .. Oldest
  PROVE  Later(n) \in 0 .. Oldest /\ Later(n) <= n + 1
BY Consts DEF Later

LEMMA SilentAnswer ==
  ASSUME NoAnswer
  PROVE  /\ answer' \in Answer /\ AnswerCurrent'
         /\ (answer.from = NoSource <=> answer.asked = NoSource)'
BY Consts DEF NoAnswer, Silence, AnswerCurrent

LEMMA NothingAdmitted ==
  ASSUME NoAdmission
  PROVE  admitted' \in Admission /\ AdmittedExists'
BY Consts DEF NoAdmission, Nothing, AdmittedExists

LEMMA OtherQuery ==
  ASSUME QueriesGood, NEW i \in Handlers, query'[i] = query[i],
         UNCHANGED <<source, changed, raced, lock>>
  PROVE  GoodQuery(query[i])'
BY DEF QueriesGood, GoodQuery

LEMMA IdleQuery ==
  ASSUME NEW i, query'[i] = NoQuery
  PROVE  GoodQuery(query[i])'
BY DEF GoodQuery, NoQuery

LEMMA NewQuery ==
  ASSUME TypeOK
  PROVE  /\ Asked \in Query /\ Asked.pc = "asking" /\ Asked.source = source
         /\ Asked.taken = 0 /\ Asked.elapsed = 0
BY Consts DEF TypeOK, Asked, NoQuery, Query

LEMMA InitInv == Init => Inv
<1> SUFFICES ASSUME Init PROVE Inv
  OBVIOUS
<1>1. query \in [Handlers -> Query] /\ \A h \in Handlers : query[h] = NoQuery
  BY Consts DEF Init
<1>2. answer \in Answer /\ admitted \in Admission /\ cache \in Entry
  BY Consts DEF Init
<1>3. raced \in BOOLEAN
  BY Zenon DEF Init
<1>4. answer.from = NoSource <=> answer.asked = NoSource
  BY DEF Init, Silence
<1>5. TypeOK
  BY <1>1, <1>2, <1>3, <1>4, Consts, RegistryAssumption DEF Init, TypeOK
<1>6. QueriesGood
  BY <1>1 DEF QueriesGood, GoodQuery, NoQuery
<1>7. DeployCurrent
  BY <1>1 DEF DeployCurrent, NoQuery, Handlers
<1>8. EntryCurrent
  BY Consts DEF Init, EntryCurrent, Fresh, NoEntry
<1>9. AdmittedExists /\ AnswerCurrent
  BY Consts DEF Init, AdmittedExists, Nothing, AnswerCurrent, Silence
<1> QED BY <1>5, <1>6, <1>7, <1>8, <1>9 DEF Inv

-----------------------------------------------------------------------------
(* Pages.                                                                   *)

LEMMA AskVersionsKeeps ==
  ASSUME Inv, NEW h \in Pages, NEW refresh \in BOOLEAN, AskVersions(h, refresh)
  PROVE  Inv'
<1>1. /\ h \in Handlers /\ h # Deploy /\ TypeOK /\ query \in [Handlers -> Query]
      /\ cache \in Entry
      /\ NoAdmission
      /\ UNCHANGED <<source, published, cache, lock, changed, raced, refreshes,
                     publications, cuts>>
  BY RegistryAssumption DEF Handlers, Inv, TypeOK, AskVersions
<1>2. EntryCurrent'
  BY <1>1 DEF Inv, EntryCurrent, Fresh
<1>3. CASE Hit(refresh) /\ UNCHANGED query
  <2>1. answer' = [from |-> cache.from, asked |-> source, age |-> cache.taken,
                   changed |-> changed, raced |-> raced \/ lock = Refresher]
    BY <1>3 DEF AskVersions, Hit
  <2>2. Fresh
    BY <1>3 DEF Hit
  <2>3. /\ cache.from \in Sources /\ cache.taken <= cache.at + QueryLimit
        /\ cache.taken \in 0 .. Oldest /\ cache.at \in Nat /\ cache.at < TTL
        /\ changed \in 0 .. Oldest
        /\ cache.from # source =>
              changed <= cache.at + QueryLimit /\ (raced \/ lock = Refresher)
    BY <1>1, <2>2 DEF Inv, EntryCurrent, Entry, TypeOK, Fresh
  <2>4. answer'.raced \in BOOLEAN
    BY <2>1, Zenon
  <2>5. answer' \in Answer
    <3>1. /\ answer' = [from |-> cache.from, asked |-> source, age |-> cache.taken,
                        changed |-> changed, raced |-> answer'.raced]
          /\ source \in Sources
      BY <1>1, <2>1, Zenon DEF TypeOK
    <3> QED BY <2>3, <2>4, <3>1 DEF Answer
  <2>6. AnswerCurrent'
    <3>1. /\ answer'.age = cache.taken /\ answer'.changed = changed
          /\ answer'.from = cache.from /\ answer'.asked = source
      BY <2>1
    <3>2. answer'.raced = (raced \/ lock = Refresher)
      BY <2>1, Zenon
    <3>3. cache.from # source => answer'.raced
      BY <2>3, <3>2, Zenon
    <3> QED BY <2>3, <3>1, <3>3, Consts DEF AnswerCurrent
  <2>7. (answer.from = NoSource <=> answer.asked = NoSource)'
    BY <1>1, <2>1, <2>3, RegistryAssumption DEF TypeOK
  <2>8. TypeOK'
    BY <1>1, <1>3, <2>5, <2>7, NothingAdmitted DEF TypeOK
  <2>9. QueriesGood' /\ DeployCurrent'
    BY <1>1, <1>3, OtherQuery DEF Inv, QueriesGood, DeployCurrent
  <2> QED BY <1>1, <1>2, <2>6, <2>8, <2>9, NothingAdmitted DEF Inv
<1>4. CASE query' = [query EXCEPT ![h] = Asked] /\ NoAnswer
  <2>1. /\ query' \in [Handlers -> Query] /\ query'[h] = Asked
        /\ \A i \in Handlers \ {h} : query'[i] = query[i]
    BY <1>1, <1>4, NewQuery
  <2>2. TypeOK'
    BY <1>1, <1>4, <2>1, SilentAnswer, NothingAdmitted DEF TypeOK
  <2>3. GoodQuery(query[h])'
    BY <1>1, <2>1, NewQuery DEF GoodQuery, TypeOK
  <2>4. QueriesGood'
    BY <1>1, <2>1, <2>3, OtherQuery DEF Inv, QueriesGood
  <2>5. DeployCurrent'
    BY <1>1, <2>1 DEF Inv, DeployCurrent, Handlers
  <2> QED BY <1>1, <1>2, <1>4, <2>2, <2>4, <2>5, SilentAnswer, NothingAdmitted DEF Inv
<1> QED BY <1>3, <1>4 DEF AskVersions

LEMMA TakeKeeps ==
  ASSUME Inv, NEW h \in Handlers, Take(h)
  PROVE  Inv'
<1>1. /\ TypeOK /\ query \in [Handlers -> Query] /\ query[h] \in Query
      /\ query[h].pc = "asking" /\ query[h].source \in Sources
      /\ NoAnswer /\ NoAdmission /\ published \in [Sources -> SUBSET Versions]
      /\ UNCHANGED <<source, published, cache, lock, changed, raced, refreshes,
                     publications, cuts>>
  BY DEF Inv, TypeOK, Take, QueriesGood, GoodQuery
<1>2. PICK T \in FirstPages(published[query[h].source]) :
         query' = [query EXCEPT ![h].pc = "taken", ![h].versions = T]
  BY DEF Take
<1>3. T \subseteq published[query[h].source] /\ T \subseteq Versions
  BY <1>1, <1>2 DEF FirstPages
<1>4. /\ query' \in [Handlers -> Query]
      /\ query'[h].pc = "taken" /\ query'[h].source = query[h].source
      /\ query'[h].versions = T /\ query'[h].taken = query[h].taken
      /\ query'[h].elapsed = query[h].elapsed /\ query'[h].offered = query[h].offered
      /\ \A i \in Handlers \ {h} : query'[i] = query[i]
  BY <1>1, <1>2, <1>3 DEF Query
<1>5. TypeOK'
  BY <1>1, <1>4, SilentAnswer, NothingAdmitted DEF TypeOK
<1>6. GoodQuery(query[h])'
  BY <1>1, <1>4 DEF Inv, QueriesGood, GoodQuery
<1>7. QueriesGood'
  BY <1>1, <1>4, <1>6, OtherQuery DEF Inv, QueriesGood
<1>8. DeployCurrent'
  BY <1>1, <1>3, <1>4 DEF Inv, DeployCurrent, Handlers
<1>9. EntryCurrent'
  BY <1>1 DEF Inv, EntryCurrent, Fresh
<1> QED BY <1>1, <1>5, <1>7, <1>8, <1>9, SilentAnswer, NothingAdmitted DEF Inv

(* store_versions: what a query stores is as current as the query. *)
LEMMA StoreCurrent ==
  ASSUME Inv, NEW h \in Handlers, query[h].pc = "taken", Store(h),
         UNCHANGED <<source, changed, raced>>,
         query[h].source # source => raced \/ lock' = Refresher
  PROVE  cache' \in Entry /\ EntryCurrent'
<1>1. query[h] \in Query /\ GoodQuery(query[h])
  BY DEF Inv, TypeOK, QueriesGood
<1>2. /\ query[h].source \in Sources /\ query[h].taken <= query[h].elapsed
      /\ query[h].taken \in 0 .. Oldest /\ query[h].elapsed \in 0 .. QueryLimit
      /\ query[h].versions \subseteq Versions
      /\ query[h].source # source => changed <= query[h].elapsed
  BY <1>1 DEF GoodQuery, Query
<1>3. cache' = [versions |-> query[h].versions, from |-> query[h].source, at |-> 0,
                taken |-> query[h].taken]
  BY DEF Store
<1>4. cache' \in Entry
  BY <1>2, <1>3, Consts DEF Entry
<1>5. changed \in Nat
  BY Consts DEF Inv, TypeOK
<1>6. EntryCurrent'
  BY <1>2, <1>3, <1>5, Consts DEF EntryCurrent
<1> QED BY <1>4, <1>6

LEMMA AnswerPageKeeps ==
  ASSUME Inv, NEW h \in Handlers, AnswerPage(h)
  PROVE  Inv'
<1>1. /\ h # Deploy /\ TypeOK /\ query \in [Handlers -> Query] /\ query[h] \in Query
      /\ query[h].pc = "taken" /\ Store(h) /\ GoodQuery(query[h])
      /\ NoAdmission /\ query' = [query EXCEPT ![h] = NoQuery]
      /\ UNCHANGED <<source, published, lock, changed, raced, refreshes,
                     publications, cuts>>
  BY RegistryAssumption DEF Inv, TypeOK, AnswerPage, QueriesGood
<1>2. /\ query[h].source \in Sources /\ query[h].taken <= query[h].elapsed
      /\ query[h].taken \in 0 .. Oldest /\ query[h].elapsed \in 0 .. QueryLimit
      /\ query[h].source # source => raced \/ lock = Refresher
  BY <1>1 DEF GoodQuery, Query
<1>3. cache' \in Entry /\ EntryCurrent'
  BY <1>1, <1>2, StoreCurrent
<1>4. answer' = [from |-> query[h].source, asked |-> query[h].source,
                 age |-> query[h].taken, changed |-> changed, raced |-> FALSE]
  BY DEF AnswerPage
<1>5. answer' \in Answer
  <2>1. changed \in 0 .. Oldest
    BY <1>1 DEF TypeOK
  <2> QED BY <1>2, <1>4, <2>1 DEF Answer
<1>6. AnswerCurrent'
  BY <1>2, <1>4, Consts DEF AnswerCurrent
<1>7. (answer.from = NoSource <=> answer.asked = NoSource)'
  BY <1>4
<1>8. /\ query' \in [Handlers -> Query] /\ query'[h] = NoQuery
      /\ \A i \in Handlers \ {h} : query'[i] = query[i]
  BY <1>1, Consts
<1>9. TypeOK'
  BY <1>1, <1>3, <1>5, <1>7, <1>8, NothingAdmitted DEF TypeOK
<1>10. QueriesGood' /\ DeployCurrent'
  BY <1>1, <1>8, OtherQuery, IdleQuery DEF Inv, QueriesGood, DeployCurrent, Handlers
<1> QED BY <1>1, <1>3, <1>6, <1>9, <1>10, NothingAdmitted DEF Inv

-----------------------------------------------------------------------------
(* The deploy request.                                                      *)

LEMMA AskDeployKeeps ==
  ASSUME Inv, NEW v \in Versions, AskDeploy(v)
  PROVE  Inv'
<1>1. /\ TypeOK /\ query \in [Handlers -> Query] /\ Deploy \in Handlers
      /\ source \in Sources /\ published[source] \subseteq Versions
      /\ lock = Free /\ lock' = Deploy /\ NoAnswer /\ NoAdmission
      /\ UNCHANGED <<source, published, cache, changed, raced, refreshes,
                     publications, cuts>>
  BY DEF Inv, TypeOK, AskDeploy, Handlers
<1>2. query' = [query EXCEPT ![Deploy] = [Asked EXCEPT !.want = {v},
                                                       !.offered = published[source]]]
  BY DEF AskDeploy, Hit
<1>3. /\ query'[Deploy] \in Query
      /\ query'[Deploy].pc = "asking" /\ query'[Deploy].source = source
      /\ query'[Deploy].taken = 0 /\ query'[Deploy].elapsed = 0
      /\ query'[Deploy].offered = published[source]
      /\ \A i \in Handlers \ {Deploy} : query'[i] = query[i]
      /\ query' \in [Handlers -> Query]
  <2>1. /\ Asked \in Query /\ Asked.pc = "asking" /\ Asked.source = source
        /\ Asked.taken = 0 /\ Asked.elapsed = 0
    BY <1>1, NewQuery
  <2> DEFINE q == [Asked EXCEPT !.want = {v}, !.offered = published[source]]
  <2>2. /\ q \in Query /\ q.pc = "asking" /\ q.source = source
        /\ q.taken = 0 /\ q.elapsed = 0 /\ q.offered = published[source]
    BY <1>1, <2>1 DEF Query
  <2> HIDE DEF q
  <2>3. query' = [query EXCEPT ![Deploy] = q]
    BY <1>2 DEF q
  <2> QED BY <1>1, <2>2, <2>3
<1>4. Deploy # Refresher /\ Free # Refresher
  BY RegistryAssumption
<1>5. TypeOK'
  BY <1>1, <1>3, SilentAnswer, NothingAdmitted DEF TypeOK
<1>6. GoodQuery(query[Deploy])'
  BY <1>1, <1>3 DEF GoodQuery
<1>7. ASSUME NEW i \in Handlers \ {Deploy} PROVE GoodQuery(query[i])'
  BY <1>1, <1>3, <1>4 DEF Inv, QueriesGood, GoodQuery
<1>8. QueriesGood'
  BY <1>6, <1>7 DEF QueriesGood
<1>9. DeployCurrent'
  BY <1>1, <1>3 DEF DeployCurrent
<1>10. EntryCurrent'
  BY <1>1, <1>4 DEF Inv, EntryCurrent, Fresh
<1> QED BY <1>1, <1>5, <1>8, <1>9, <1>10, SilentAnswer, NothingAdmitted DEF Inv

LEMMA DecideDeployKeeps ==
  ASSUME Inv, DecideDeploy
  PROVE  Inv'
<1>1. /\ TypeOK /\ query \in [Handlers -> Query] /\ Deploy \in Handlers
      /\ query[Deploy] \in Query /\ query[Deploy].pc = "taken" /\ Store(Deploy)
      /\ query' = [query EXCEPT ![Deploy] = NoQuery]
      /\ lock' = Free /\ NoAnswer /\ source \in Sources
      /\ UNCHANGED <<source, published, changed, raced, refreshes, publications,
                     cuts>>
  BY DEF Inv, TypeOK, DecideDeploy, Handlers
<1>2. /\ lock = Deploy /\ query[Deploy].source = source
      /\ query[Deploy].versions \subseteq query[Deploy].offered
  BY <1>1 DEF Inv, DeployCurrent
<1>3. cache' \in Entry /\ EntryCurrent'
  BY <1>1, <1>2, StoreCurrent
<1>4. /\ query' \in [Handlers -> Query] /\ query'[Deploy] = NoQuery
      /\ \A i \in Handlers \ {Deploy} : query'[i] = query[i]
  BY <1>1, Consts
<1>5. admitted' \in Admission /\ AdmittedExists'
  <2>1. CASE query[Deploy].want \subseteq query[Deploy].versions
    <3>1. admitted' = [want |-> query[Deploy].want, offered |-> query[Deploy].offered,
                       from |-> query[Deploy].source, asked |-> source]
      BY <2>1 DEF DecideDeploy
    <3> QED BY <1>1, <1>2, <2>1, <3>1 DEF Admission, Query, AdmittedExists
  <2>2. CASE ~(query[Deploy].want \subseteq query[Deploy].versions)
    BY <2>2, Consts DEF DecideDeploy, AdmittedExists, Nothing
  <2> QED BY <2>1, <2>2
<1>6. TypeOK'
  BY <1>1, <1>3, <1>4, <1>5, SilentAnswer DEF TypeOK
<1>7. ASSUME NEW i \in Handlers \ {Deploy} PROVE GoodQuery(query[i])'
  BY <1>1, <1>2, <1>4, RegistryAssumption DEF Inv, QueriesGood, GoodQuery
<1>8. QueriesGood'
  BY <1>4, <1>7, IdleQuery DEF QueriesGood
<1>9. DeployCurrent'
  BY <1>4 DEF DeployCurrent, NoQuery
<1> QED BY <1>1, <1>3, <1>5, <1>6, <1>8, <1>9, SilentAnswer DEF Inv

LEMMA FailKeeps ==
  ASSUME Inv, NEW h \in Handlers, Fail(h)
  PROVE  Inv'
<1>1. /\ TypeOK /\ query \in [Handlers -> Query] /\ query[h].pc # "idle"
      /\ query' = [query EXCEPT ![h] = NoQuery]
      /\ lock' = IF h = Deploy THEN Free ELSE lock
      /\ NoAnswer /\ NoAdmission
      /\ UNCHANGED <<source, published, cache, changed, raced, refreshes,
                     publications, cuts>>
  BY DEF Inv, TypeOK, Fail
<1>2. lock = Refresher => lock' = Refresher
  BY <1>1, RegistryAssumption DEF Inv, DeployCurrent
<1>3. /\ query' \in [Handlers -> Query] /\ query'[h] = NoQuery
      /\ \A i \in Handlers \ {h} : query'[i] = query[i]
  BY <1>1, Consts
<1>4. TypeOK'
  BY <1>1, <1>3, SilentAnswer, NothingAdmitted DEF TypeOK
<1>5. ASSUME NEW i \in Handlers \ {h} PROVE GoodQuery(query[i])'
  BY <1>1, <1>2, <1>3 DEF Inv, QueriesGood, GoodQuery
<1>6. QueriesGood'
  BY <1>3, <1>5, IdleQuery DEF QueriesGood
<1>7. DeployCurrent'
  BY <1>1, <1>3 DEF Inv, DeployCurrent, NoQuery, Handlers
<1>8. EntryCurrent'
  BY <1>1, <1>2 DEF Inv, EntryCurrent, Fresh
<1> QED BY <1>1, <1>4, <1>6, <1>7, <1>8, SilentAnswer, NothingAdmitted DEF Inv

-----------------------------------------------------------------------------
(* Refreshes.                                                               *)

LEMMA ReplaceProjectKeeps ==
  ASSUME Inv, ReplaceProject
  PROVE  Inv'
<1>1. /\ TypeOK /\ query \in [Handlers -> Query] /\ cache \in Entry
      /\ lock = Free /\ lock' = Refresher /\ changed' = 0
      /\ source' \in Sources /\ refreshes' \in 0 .. MaxRefreshes
      /\ NoAnswer /\ NoAdmission
      /\ UNCHANGED <<published, cache, query, raced, publications, cuts>>
  BY RegistryAssumption DEF Inv, TypeOK, ReplaceProject
<1>2. TypeOK'
  BY <1>1, Consts, SilentAnswer, NothingAdmitted DEF TypeOK
<1>3. query[Deploy].pc = "idle"
  BY <1>1, RegistryAssumption DEF Inv, DeployCurrent
<1>4. DeployCurrent'
  BY <1>1, <1>3 DEF DeployCurrent
<1>5. QueriesGood'
  <2> SUFFICES ASSUME NEW i \in Handlers PROVE GoodQuery(query[i])'
    BY DEF QueriesGood
  <2>1. query'[i] = query[i] /\ GoodQuery(query[i]) /\ query[i].elapsed \in Nat
    BY <1>1, Consts DEF Inv, QueriesGood, Query
  <2> QED BY <1>1, <2>1 DEF GoodQuery
<1>6. EntryCurrent'
  <2>1. cache.at \in Nat
    BY <1>1, Consts DEF Entry
  <2> QED BY <1>1, <2>1, Consts DEF Inv, EntryCurrent, Fresh
<1> QED BY <1>1, <1>2, <1>4, <1>5, <1>6, SilentAnswer, NothingAdmitted DEF Inv

LEMMA InvalidateKeeps ==
  ASSUME Inv, Invalidate
  PROVE  Inv'
<1>1. /\ TypeOK /\ query \in [Handlers -> Query]
      /\ lock = Refresher /\ lock' = Free /\ NoAnswer /\ NoAdmission
      /\ UNCHANGED <<source, published, query, changed, refreshes, publications>>
  BY DEF Inv, TypeOK, Invalidate
<1>2. query[Deploy].pc = "idle"
  BY <1>1, RegistryAssumption DEF Inv, DeployCurrent
<1>3. /\ raced \in BOOLEAN
      /\ \/ /\ cache' = NoEntry
            /\ raced' = (raced \/ \E h \in Pages :
                                     query[h].source \in Sources \ {source})
            /\ cuts' = cuts
         \/ raced' = TRUE /\ cache' = cache /\ cuts' \in 0 .. MaxCuts
  <2>1. raced \in BOOLEAN
    BY <1>1, Zenon DEF TypeOK
  <2>2. cuts < MaxCuts /\ cuts' = cuts + 1 => cuts' \in 0 .. MaxCuts
    BY <1>1, RegistryAssumption DEF TypeOK
  <2> QED BY <2>1, <2>2, Zenon DEF Invalidate, Invalidated
<1>4. raced' \in BOOLEAN
  BY <1>3, Zenon
<1>5. cache' \in Entry
  BY <1>1, <1>3, Consts DEF TypeOK
<1>6. cuts' \in 0 .. MaxCuts
  BY <1>1, <1>3 DEF TypeOK
<1>7. TypeOK'
  <2>1. lock' \in {Deploy, Refresher, Free}
    BY <1>1
  <2> QED BY <1>1, <1>4, <1>5, <1>6, <2>1, SilentAnswer, NothingAdmitted DEF TypeOK
<1>8. QueriesGood'
  <2> SUFFICES ASSUME NEW i \in Handlers PROVE GoodQuery(query[i])'
    BY DEF QueriesGood
  <2>1. query'[i] = query[i] /\ GoodQuery(query[i])
    BY <1>1 DEF Inv, QueriesGood
  <2>2. CASE query[i].pc = "idle"
    BY <2>1, <2>2 DEF GoodQuery
  <2>3. CASE query[i].pc # "idle"
    <3>1. i \in Pages
      BY <1>2, <2>3 DEF Handlers
    <3>2. query[i].source \in Sources
      BY <2>1, <2>3 DEF GoodQuery
    <3>3. query[i].source # source => raced'
      BY <1>3, <3>1, <3>2, Zenon
    <3> QED BY <1>1, <2>1, <2>3, <3>3 DEF GoodQuery
  <2> QED BY <2>2, <2>3
<1>9. DeployCurrent'
  BY <1>1, <1>2 DEF DeployCurrent
<1>10. EntryCurrent'
  <2>1. CASE cache' = NoEntry
    BY <2>1, Consts DEF EntryCurrent, Fresh, NoEntry
  <2>2. CASE raced' = TRUE /\ cache' = cache
    BY <1>1, <2>2 DEF Inv, EntryCurrent, Fresh
  <2> QED BY <1>3, <2>1, <2>2
<1> QED BY <1>1, <1>7, <1>8, <1>9, <1>10, SilentAnswer, NothingAdmitted DEF Inv

-----------------------------------------------------------------------------
(* The registries and time.                                                 *)

LEMMA PublishKeeps ==
  ASSUME Inv, Publish
  PROVE  Inv'
<1>1. /\ TypeOK /\ query \in [Handlers -> Query] /\ Deploy \in Handlers
      /\ query[Deploy] \in Query /\ published \in [Sources -> SUBSET Versions]
      /\ publications' \in 0 .. MaxPublications /\ NoAnswer /\ NoAdmission
      /\ UNCHANGED <<source, cache, lock, changed, raced, refreshes, cuts>>
  BY RegistryAssumption DEF Inv, TypeOK, Publish, Handlers
<1>2. published' \in [Sources -> SUBSET Versions]
  <2>1. PICK s \in Sources, v \in Versions :
           published' = [published EXCEPT ![s] = IF v \in @ THEN @ \ {v}
                                                            ELSE @ \cup {v}]
    BY DEF Publish
  <2> QED BY <1>1, <2>1
<1>3. PICK o : o = IF query[Deploy].pc = "idle" THEN {}
                   ELSE query[Deploy].offered \cup published'[query[Deploy].source]
  OBVIOUS
<1>4. query' = [query EXCEPT ![Deploy].offered = o]
  BY <1>1, <1>3 DEF Publish
<1>5. o \subseteq Versions
  BY <1>1, <1>2, <1>3 DEF Query, Inv, QueriesGood, GoodQuery
<1>6. /\ query' \in [Handlers -> Query]
      /\ query'[Deploy] = [query[Deploy] EXCEPT !.offered = o]
      /\ \A i \in Handlers \ {Deploy} : query'[i] = query[i]
  BY <1>1, <1>4, <1>5 DEF Query
<1>7. TypeOK'
  BY <1>1, <1>2, <1>6, SilentAnswer, NothingAdmitted DEF TypeOK
<1>8. GoodQuery(query[Deploy])'
  <2>1. GoodQuery(query[Deploy])
    BY <1>1 DEF Inv, QueriesGood
  <2>2. CASE query[Deploy].pc = "idle"
    <3>1. o = {} /\ query[Deploy] = NoQuery
      BY <1>3, <2>1, <2>2 DEF GoodQuery
    <3> QED BY <1>6, <3>1, IdleQuery DEF NoQuery
  <2>3. CASE query[Deploy].pc # "idle"
    <3>1. /\ query'[Deploy].pc = query[Deploy].pc
          /\ query'[Deploy].source = query[Deploy].source
          /\ query'[Deploy].taken = query[Deploy].taken
          /\ query'[Deploy].elapsed = query[Deploy].elapsed
      BY <1>1, <1>6 DEF Query
    <3> QED BY <1>1, <2>1, <2>3, <3>1 DEF GoodQuery
  <2> QED BY <2>2, <2>3
<1>9. QueriesGood'
  BY <1>1, <1>6, <1>8, OtherQuery DEF QueriesGood, Inv
<1>10. DeployCurrent'
  <2>1. /\ query'[Deploy].pc = query[Deploy].pc
        /\ query'[Deploy].source = query[Deploy].source
        /\ query'[Deploy].versions = query[Deploy].versions
        /\ query'[Deploy].offered = o
    BY <1>1, <1>6 DEF Query
  <2> QED BY <1>1, <1>3, <2>1 DEF Inv, DeployCurrent
<1>11. EntryCurrent'
  BY <1>1 DEF Inv, EntryCurrent, Fresh
<1> QED BY <1>1, <1>7, <1>9, <1>10, <1>11, SilentAnswer, NothingAdmitted DEF Inv

LEMMA TickKeeps ==
  ASSUME Inv, Tick
  PROVE  Inv'
<1>1. /\ TypeOK /\ query \in [Handlers -> Query] /\ cache \in Entry
      /\ \A h \in Handlers : query[h] \in Query /\ query[h].elapsed < QueryLimit
      /\ changed \in 0 .. Oldest /\ changed' = Later(changed)
      /\ NoAnswer /\ NoAdmission
      /\ UNCHANGED <<source, published, lock, raced, refreshes, publications, cuts>>
  BY DEF Inv, TypeOK, Tick
<1>2. changed' \in 0 .. Oldest /\ changed' <= changed + 1
  BY <1>1, OneLater
<1>3. PICK a, n : /\ a = IF cache.at < TTL THEN cache.at + 1 ELSE cache.at
                  /\ n = IF cache.at < TTL THEN Later(cache.taken) ELSE cache.taken
  OBVIOUS
<1>4. cache' = [cache EXCEPT !.at = a, !.taken = n]
  BY <1>1, <1>3 DEF Tick, Entry
<1>5. /\ cache.at \in 0 .. TTL /\ cache.taken \in 0 .. Oldest
      /\ Later(cache.taken) \in 0 .. Oldest /\ Later(cache.taken) <= cache.taken + 1
  BY <1>1, OneLater DEF Entry
<1>6. a \in 0 .. TTL /\ n \in 0 .. Oldest
  BY <1>3, <1>5, Consts
<1>7. cache' \in Entry /\ cache'.from = cache.from /\ cache'.at = a /\ cache'.taken = n
  BY <1>1, <1>4, <1>6 DEF Entry
<1>8. ASSUME NEW h \in Handlers
      PROVE  /\ query'[h] \in Query
             /\ query'[h].pc = query[h].pc
             /\ query[h].pc = "idle" => query'[h] = NoQuery
             /\ query[h].pc # "idle" =>
                   /\ query'[h].source = query[h].source
                   /\ query'[h].versions = query[h].versions
                   /\ query'[h].offered = query[h].offered
                   /\ query'[h].elapsed = query[h].elapsed + 1
                   /\ query'[h].taken <= query[h].taken + 1
  <2>1. query[h] \in Query /\ query[h].elapsed < QueryLimit
    BY <1>1
  <2>2. query[h].taken \in 0 .. Oldest /\ query[h].elapsed \in 0 .. QueryLimit
    BY <2>1 DEF Query
  <2>3. PICK e : e = query[h].elapsed + 1
    OBVIOUS
  <2>4. PICK m : m = Later(query[h].taken)
    OBVIOUS
  <2>5. e \in 0 .. QueryLimit /\ m \in 0 .. Oldest /\ m <= query[h].taken + 1
    BY <2>1, <2>2, <2>3, <2>4, Consts, OneLater
  <2>6. CASE query[h].pc = "idle"
    <3>1. query'[h] = NoQuery
      BY <2>6 DEF Tick
    <3> QED BY <2>6, <3>1, Consts DEF NoQuery
  <2>7. CASE query[h].pc = "asking"
    <3>1. query'[h] = [query[h] EXCEPT !.elapsed = e]
      BY <2>1, <2>3, <2>7 DEF Tick, Query
    <3> QED BY <2>1, <2>2, <2>3, <2>5, <2>7, <3>1 DEF Query
  <2>8. CASE query[h].pc \notin {"idle", "asking"}
    <3>1. query'[h] = [query[h] EXCEPT !.elapsed = e, !.taken = m]
      BY <2>1, <2>3, <2>4, <2>8 DEF Tick, Query
    <3> QED BY <2>1, <2>2, <2>3, <2>5, <2>8, <3>1 DEF Query
  <2> QED BY <2>6, <2>7, <2>8
<1>9. query' \in [Handlers -> Query]
  <2>1. query' = [h \in Handlers |-> query'[h]]
    BY DEF Tick
  <2> QED BY <1>8, <2>1
<1>10. TypeOK'
  BY <1>1, <1>2, <1>7, <1>9, SilentAnswer, NothingAdmitted DEF TypeOK
<1>11. QueriesGood'
  <2> SUFFICES ASSUME NEW h \in Handlers PROVE GoodQuery(query[h])'
    BY DEF QueriesGood
  <2>1. CASE query[h].pc = "idle"
    BY <1>8, <2>1, IdleQuery
  <2>2. CASE query[h].pc # "idle"
    <3>1. /\ query[h].source \in Sources /\ query[h].taken <= query[h].elapsed
          /\ query[h].source # source =>
                changed <= query[h].elapsed /\ (raced \/ lock = Refresher)
      BY <2>2 DEF Inv, QueriesGood, GoodQuery
    <3>2. query[h].taken \in Nat /\ query[h].elapsed \in Nat
      BY <1>1, Consts DEF Query
    <3>3. query'[h].taken \in Nat /\ query'[h].elapsed \in Nat
      BY <1>8, Consts DEF Query
    <3> QED BY <1>1, <1>2, <1>8, <2>2, <3>1, <3>2, <3>3, Consts DEF GoodQuery
  <2> QED BY <2>1, <2>2
<1>12. DeployCurrent'
  <2>1. Deploy \in Handlers
    BY DEF Handlers
  <2> QED BY <1>1, <1>8, <2>1 DEF Inv, DeployCurrent
<1>13. EntryCurrent'
  <2> SUFFICES ASSUME Fresh' PROVE EntryCurrent'
    BY DEF EntryCurrent
  <2>1. Fresh /\ a = cache.at + 1 /\ n <= cache.taken + 1
    BY <1>3, <1>5, <1>7, Consts DEF Fresh
  <2>2. changed \in Nat /\ changed' \in Nat
    BY <1>1, <1>2, Consts
  <2> QED BY <1>1, <1>2, <1>5, <1>6, <1>7, <2>1, <2>2, Consts DEF Inv, EntryCurrent
<1> QED BY <1>1, <1>10, <1>11, <1>12, <1>13, SilentAnswer, NothingAdmitted DEF Inv

LEMMA StutterKeeps ==
  ASSUME Inv, UNCHANGED vars
  PROVE  Inv'
<1>1. TypeOK'
  BY DEF Inv, TypeOK, vars
<1>2. QueriesGood' /\ DeployCurrent'
  BY DEF Inv, QueriesGood, GoodQuery, DeployCurrent, vars
<1>3. EntryCurrent'
  BY DEF Inv, EntryCurrent, Fresh, vars
<1>4. AdmittedExists' /\ AnswerCurrent'
  BY DEF Inv, AdmittedExists, AnswerCurrent, vars
<1> QED BY <1>1, <1>2, <1>3, <1>4 DEF Inv

LEMMA NextInv == Inv /\ [Next]_vars => Inv'
<1> SUFFICES ASSUME Inv, [Next]_vars PROVE Inv'
  OBVIOUS
<1>1. ASSUME NEW h \in Pages, NEW refresh \in BOOLEAN, AskVersions(h, refresh)
      PROVE  Inv'
  BY <1>1, AskVersionsKeeps
<1>2. ASSUME NEW h \in Handlers, Take(h) \/ AnswerPage(h) \/ Fail(h)
      PROVE  Inv'
  BY <1>2, TakeKeeps, AnswerPageKeeps, FailKeeps
<1>3. ASSUME NEW v \in Versions, AskDeploy(v)
      PROVE  Inv'
  BY <1>3, AskDeployKeeps
<1>4. CASE DecideDeploy \/ ReplaceProject \/ Invalidate \/ Publish \/ Tick
  BY <1>4, DecideDeployKeeps, ReplaceProjectKeeps, InvalidateKeeps, PublishKeeps, TickKeeps
<1>5. CASE UNCHANGED vars
  BY <1>5, StutterKeeps
<1> QED BY <1>1, <1>2, <1>3, <1>4, <1>5 DEF Next

(* Queries, the cached list, the deploy request's permit and what was last     *)
(* answered and admitted fit together after every step.                        *)
THEOREM CacheFits == Spec => []Inv
BY InitInv, NextInv, PTL DEF Spec

(* enqueue accepts a version only if the registry of the service as resolved   *)
(* at that moment offered it while the request asked, for any number of pages, *)
(* refreshes and changes of the registries.                                    *)
THEOREM AdmissionsSound == Spec => []AdmissionSound
<1>1. Inv => AdmissionSound
  BY DEF Inv, AdmissionSound
<1> QED BY <1>1, CacheFits, PTL

(* No page is shown a list older than the cache's lifetime and one query; one  *)
(* of an image the service no longer has only within that time of the refresh, *)
(* and only if the refresh was overtaken or cut off.                           *)
THEOREM AnswersCurrent == Spec => []AnswerCurrent
<1>1. Inv => AnswerCurrent
  BY DEF Inv
<1> QED BY <1>1, CacheFits, PTL

-----------------------------------------------------------------------------
(* The list of versions (VersionList).                                      *)

LEMMA HigherOrder ==
  ASSUME NEW v \in Nat \X {0, 1}, NEW w \in Nat \X {0, 1}, NEW x \in Nat \X {0, 1}
  PROVE  /\ ~Higher(v, v)
         /\ v # w => (Higher(v, w) <=> ~Higher(w, v))
         /\ Higher(v, w) /\ Higher(w, x) => Higher(v, x)
<1>1. PICK a \in Nat, b \in {0, 1} : v = <<a, b>>
  OBVIOUS
<1>2. PICK c \in Nat, d \in {0, 1} : w = <<c, d>>
  OBVIOUS
<1>3. PICK e \in Nat, f \in {0, 1} : x = <<e, f>>
  OBVIOUS
<1> QED BY <1>1, <1>2, <1>3 DEF Higher

(* The comparison of sort_by, by the two kinds of tags. *)
LEMMA PrecedesCases ==
  ASSUME NEW t \in Tags, NEW u \in Tags
  PROVE  /\ t.text \in Nat /\ u.text \in Nat
         /\ IsSemver(t) => t.semver \in Nat \X {0, 1}
         /\ t # u => t.text # u.text /\ (IsSemver(t) => t.semver # u.semver)
         /\ IsSemver(t) /\ IsSemver(u) =>
               (Precedes(t, u) <=> Higher(t.semver, u.semver))
         /\ IsSemver(t) /\ ~IsSemver(u) => Precedes(t, u)
         /\ ~IsSemver(t) /\ IsSemver(u) => ~Precedes(t, u)
         /\ ~IsSemver(t) /\ ~IsSemver(u) => (Precedes(t, u) <=> t.text > u.text)
<1>1. /\ t.text \in Nat /\ u.text \in Nat
      /\ IsSemver(t) => t.semver \in Nat \X {0, 1}
      /\ t # u => t.text # u.text /\ (IsSemver(t) => t.semver # u.semver)
  BY VersionAssumption DEF IsSemver
<1>2. CASE IsSemver(t) /\ IsSemver(u)
  BY <1>1, <1>2, Zenon DEF Precedes
<1>3. CASE IsSemver(t) /\ ~IsSemver(u)
  BY <1>1, <1>3 DEF Precedes
<1>4. CASE ~IsSemver(t) /\ IsSemver(u)
  BY <1>1, <1>4 DEF Precedes
<1>5. CASE ~IsSemver(t) /\ ~IsSemver(u)
  <2>1. ~(IsSemver(t) # IsSemver(u)) /\ ~(IsSemver(t) /\ IsSemver(u))
    BY <1>5 DEF IsSemver
  <2>2. Precedes(t, u) <=> t.text > u.text
    BY <2>1, Zenon DEF Precedes
  <2> QED BY <1>1, <1>5, <2>2
<1> QED BY <1>1, <1>2, <1>3, <1>4, <1>5

(* It is a strict total order of the tags. *)
LEMMA PrecedesOrder ==
  ASSUME NEW t \in Tags, NEW u \in Tags, NEW w \in Tags
  PROVE  /\ ~Precedes(t, t)
         /\ t # u => (Precedes(t, u) <=> ~Precedes(u, t))
         /\ Precedes(t, u) /\ Precedes(u, w) => Precedes(t, w)
<1>1. ~Precedes(t, t)
  <2>1. CASE IsSemver(t)
    BY <2>1, PrecedesCases, HigherOrder
  <2>2. CASE ~IsSemver(t)
    BY <2>2, PrecedesCases
  <2> QED BY <2>1, <2>2
<1>2. ASSUME t # u
      PROVE  Precedes(t, u) <=> ~Precedes(u, t)
  <2>1. CASE IsSemver(t) /\ IsSemver(u)
    BY <1>2, <2>1, PrecedesCases, HigherOrder
  <2>2. CASE ~IsSemver(t) /\ ~IsSemver(u)
    BY <1>2, <2>2, PrecedesCases
  <2>3. CASE IsSemver(t) # IsSemver(u)
    <3>1. \/ IsSemver(t) /\ ~IsSemver(u)
          \/ ~IsSemver(t) /\ IsSemver(u)
      BY <2>3 DEF IsSemver
    <3> QED BY <3>1, PrecedesCases, Zenon
  <2> QED BY <2>1, <2>2, <2>3, Zenon
<1>3. ASSUME Precedes(t, u), Precedes(u, w)
      PROVE  Precedes(t, w)
  <2>1. CASE ~IsSemver(t)
    <3>1. ~IsSemver(u) /\ ~IsSemver(w)
      BY <1>3, <2>1, PrecedesCases
    <3> QED BY <1>3, <2>1, <3>1, PrecedesCases
  <2>2. CASE IsSemver(t) /\ ~IsSemver(w)
    BY <2>2, PrecedesCases
  <2>3. CASE IsSemver(t) /\ IsSemver(w)
    <3>1. IsSemver(u)
      BY <1>3, <2>3, PrecedesCases
    <3> QED BY <1>3, <2>3, <3>1, PrecedesCases, HigherOrder
  <2> QED BY <2>1, <2>2, <2>3
<1> QED BY <1>1, <1>2, <1>3

LEMMA BeforeGrows ==
  ASSUME NEW S \in SUBSET Tags, IsFiniteSet(S), NEW t \in S
  PROVE  /\ Cardinality(Before(S, t)) \in 0 .. Cardinality(S) - 1
         /\ \A u \in S : Precedes(t, u) =>
               Cardinality(Before(S, t)) < Cardinality(Before(S, u))
<1>1. ASSUME NEW u \in S
      PROVE  /\ Before(S, u) \in SUBSET S /\ IsFiniteSet(Before(S, u))
             /\ Cardinality(Before(S, u)) \in Nat
             /\ Cardinality(Before(S, u)) <= Cardinality(S)
             /\ Cardinality(Before(S, u)) # Cardinality(S)
  <2>1. Before(S, u) \in SUBSET S /\ u \notin Before(S, u)
    BY PrecedesOrder DEF Before
  <2> QED BY <2>1, FS_Subset, FS_CardinalityType
<1>2. Cardinality(S) \in Nat
  BY FS_CardinalityType
<1>3. ASSUME NEW u \in S, Precedes(t, u)
      PROVE  Cardinality(Before(S, t)) < Cardinality(Before(S, u))
  <2>1. Before(S, t) \in SUBSET Before(S, u)
    BY <1>3, PrecedesOrder DEF Before
  <2>2. t \in Before(S, u) /\ t \notin Before(S, t)
    BY <1>3, PrecedesOrder DEF Before
  <2>3. /\ Cardinality(Before(S, t)) <= Cardinality(Before(S, u))
        /\ Cardinality(Before(S, t)) # Cardinality(Before(S, u))
    BY <1>1, <2>1, <2>2, FS_Subset
  <2> QED BY <1>1, <2>3
<1> QED BY <1>1, <1>2, <1>3

(* Every place of the list has its tag. *)
LEMMA RankTaken ==
  ASSUME NEW S \in SUBSET Tags, IsFiniteSet(S), NEW k \in 1 .. Cardinality(S)
  PROVE  \E t \in S : Cardinality(Before(S, t)) = k - 1
<1> DEFINE D == 1 .. Cardinality(S)
           rank == [t \in S |-> Cardinality(Before(S, t)) + 1]
<1>1. Cardinality(S) \in Nat
  BY FS_CardinalityType
<1>2. IsFiniteSet(D) /\ Cardinality(D) = Cardinality(S)
  BY <1>1, FS_Interval
<1>3. \A t \in S : Cardinality(Before(S, t)) \in 0 .. Cardinality(S) - 1
  BY BeforeGrows
<1>4. rank \in [S -> D]
  BY <1>1, <1>3
<1>5. ASSUME NEW t \in S, NEW u \in S, rank[t] = rank[u]
      PROVE  t = u
  <2>1. Cardinality(Before(S, t)) = Cardinality(Before(S, u))
    BY <1>3, <1>5
  <2>2. ~Precedes(t, u) /\ ~Precedes(u, t)
    BY <1>3, <2>1, BeforeGrows
  <2> QED BY <2>2, PrecedesOrder
<1>6. rank \in Injection(S, D)
  BY <1>4, <1>5 DEF Injection, IsInjective
<1>7. rank \in Surjection(S, D)
  BY <1>2, <1>6, FS_Injection
<1>8. PICK t \in S : rank[t] = k
  BY <1>7 DEF Surjection
<1> QED BY <1>1, <1>3, <1>8

(* The list names every tag once, in the order of the comparison. *)
LEMMA SortedLists ==
  ASSUME NEW S \in SUBSET Tags, IsFiniteSet(S)
  PROVE  /\ DOMAIN Sorted(S) = 1 .. Cardinality(S) /\ Len(Sorted(S)) = Cardinality(S)
         /\ Cardinality(S) \in Nat
         /\ ToSet(Sorted(S)) = S
         /\ \A i, j \in 1 .. Cardinality(S) :
               /\ Sorted(S)[i] \in S
               /\ i < j => Precedes(Sorted(S)[i], Sorted(S)[j])
<1> DEFINE n == Cardinality(S)
<1>1. PICK list : list = Sorted(S)
  OBVIOUS
<1>2. n \in Nat
  BY FS_CardinalityType
<1>3. DOMAIN list = 1 .. n
  BY <1>1 DEF Sorted
<1>4. ASSUME NEW k \in 1 .. n
      PROVE  list[k] \in S /\ Cardinality(Before(S, list[k])) = k - 1
  <2>1. list[k] = CHOOSE t \in S : Cardinality(Before(S, t)) = k - 1
    BY <1>1 DEF Sorted
  <2> QED BY <2>1, RankTaken
<1>5. list = [k \in 1 .. n |-> list[k]]
  BY <1>1 DEF Sorted
<1>6. list \in [1 .. n -> S]
  BY <1>4, <1>5
<1>7. list \in Seq(S) /\ Len(list) = n
  BY <1>2, <1>6
<1>8. ASSUME NEW i \in 1 .. n, NEW j \in 1 .. n, i < j
      PROVE  Precedes(list[i], list[j])
  <2>1. list[i] # list[j]
    BY <1>2, <1>4, <1>8
  <2>2. ~Precedes(list[j], list[i])
    BY <1>2, <1>4, <1>8, BeforeGrows
  <2> QED BY <1>4, <2>1, <2>2, PrecedesOrder
<1>9. ASSUME NEW t \in S
      PROVE  \E k \in 1 .. n : list[k] = t
  <2>1. PICK k : k = Cardinality(Before(S, t)) + 1
    OBVIOUS
  <2>2. k \in 1 .. n /\ Cardinality(Before(S, t)) = k - 1
    BY <1>2, <2>1, BeforeGrows
  <2>3. Cardinality(Before(S, list[k])) = Cardinality(Before(S, t))
    BY <1>4, <2>2
  <2>4. ~Precedes(list[k], t) /\ ~Precedes(t, list[k])
    BY <1>4, <2>2, <2>3, BeforeGrows
  <2> QED BY <1>4, <2>2, <2>4, PrecedesOrder
<1>10. ToSet(list) = S
  BY <1>3, <1>4, <1>9 DEF ToSet
<1> QED BY <1>1, <1>2, <1>3, <1>4, <1>7, <1>8, <1>10

(* The first x.y.z of the list is the highest release. *)
LEMMA LatestHighest ==
  ASSUME NEW S \in SUBSET Tags, IsFiniteSet(S)
  PROVE  Latest(Sorted(S)) =
           {t \in S : Plain(t) /\ \A u \in S : Plain(u) => ~Higher(u.semver, t.semver)}
<1> DEFINE n == Cardinality(S)
<1>1. PICK list : list = Sorted(S)
  OBVIOUS
<1>2. /\ DOMAIN list = 1 .. n /\ n \in Nat
      /\ \A i, j \in 1 .. n : list[i] \in S /\ (i < j => Precedes(list[i], list[j]))
  BY <1>1, SortedLists
<1>3. \A t \in S : \E k \in 1 .. n : list[k] = t
  BY <1>1, <1>2, SortedLists DEF ToSet
<1>4. ASSUME NEW t \in S, NEW u \in S, Plain(t), Plain(u), Precedes(t, u)
      PROVE  Higher(t.semver, u.semver) /\ ~Higher(u.semver, t.semver)
  <2>1. IsSemver(t) /\ IsSemver(u)
    BY <1>4, Zenon DEF Plain
  <2>2. Higher(t.semver, u.semver)
    BY <1>4, <2>1, PrecedesCases
  <2>3. t # u
    BY <1>4, PrecedesOrder
  <2>4. /\ t.semver \in Nat \X {0, 1} /\ u.semver \in Nat \X {0, 1}
        /\ t.semver # u.semver
    BY <2>1, <2>3, PrecedesCases
  <2> QED BY <2>2, <2>4, HigherOrder
<1>5. ASSUME NEW k \in 1 .. n, Plain(list[k]), \A i \in 1 .. k - 1 : ~Plain(list[i]),
             NEW u \in S, Plain(u)
      PROVE  ~Higher(u.semver, list[k].semver)
  <2>1. PICK j \in 1 .. n : list[j] = u
    BY <1>3
  <2>2. ~(j < k)
    BY <1>2, <1>5, <2>1
  <2>3. CASE j = k
    <3>1. IsSemver(u)
      BY <1>5, Zenon DEF Plain
    <3>2. u.semver \in Nat \X {0, 1}
      BY <3>1, PrecedesCases
    <3> QED BY <2>1, <2>3, <3>2, HigherOrder
  <2>4. CASE k < j
    <3>1. Precedes(list[k], u) /\ list[k] \in S
      BY <1>2, <2>1, <2>4
    <3> QED BY <1>4, <1>5, <3>1
  <2> QED BY <1>2, <2>2, <2>3, <2>4
<1>6. ASSUME NEW t \in S, Plain(t),
             \A u \in S : Plain(u) => ~Higher(u.semver, t.semver),
             NEW k \in 1 .. n, list[k] = t, NEW i \in 1 .. k - 1
      PROVE  ~Plain(list[i])
  <2>1. i \in 1 .. n /\ i < k
    BY <1>2
  <2>2. list[i] \in S /\ Precedes(list[i], t)
    BY <1>2, <1>6, <2>1
  <2> QED BY <1>4, <1>6, <2>2
<1>7. Latest(list) \subseteq
        {t \in S : Plain(t) /\ \A u \in S : Plain(u) => ~Higher(u.semver, t.semver)}
  BY <1>2, <1>5 DEF Latest
<1>8. {t \in S : Plain(t) /\ \A u \in S : Plain(u) => ~Higher(u.semver, t.semver)}
        \subseteq Latest(list)
  BY <1>2, <1>3, <1>6 DEF Latest
<1> QED BY <1>1, <1>7, <1>8

LEMMA AnswerTags ==
  ASSUME NEW raw \in RawAnswers
  PROVE  /\ Matching(raw) \in SUBSET Tags /\ IsFiniteSet(Matching(raw))
         /\ Matching(raw) = ToSet(raw) \ {EmptyTag}
<1>1. PICK m \in Nat : raw \in [1 .. m -> Tags \cup {EmptyTag}]
  BY VersionAssumption DEF RawAnswers, BoundedSeq, SeqOf
<1>2. raw \in Surjection(1 .. m, ToSet(raw))
  BY <1>1 DEF Surjection, ToSet
<1>3. IsFiniteSet(ToSet(raw))
  BY <1>2, FS_Interval, FS_Surjection
<1>4. ToSet(raw) \subseteq Tags \cup {EmptyTag}
  BY <1>1 DEF ToSet
<1>5. Matching(raw) = ToSet(raw) \ {EmptyTag}
  BY DEF Matching
<1> QED BY <1>3, <1>4, <1>5, FS_Subset

(* normalize (registry.rs) and selectService (app.js): for answers of any       *)
(* length, in any order and with any repetitions, sort_by has a total order,    *)
(* the list names every tag once, and the version offered is the highest        *)
(* release.                                                                     *)
THEOREM ListIsSound == Spec => []ListSound
<1>1. ComparisonTotal
  BY PrecedesOrder DEF ComparisonTotal
<1>2. ASSUME NEW raw \in RawAnswers
      PROVE  /\ ToSet(normalize(raw)) = ToSet(raw) \ {EmptyTag}
             /\ Len(normalize(raw)) = Cardinality(ToSet(normalize(raw)))
             /\ Latest(normalize(raw)) =
                   {t \in ToSet(raw) \ {EmptyTag} :
                       /\ Plain(t)
                       /\ \A u \in ToSet(raw) \ {EmptyTag} :
                             Plain(u) => ~Higher(u.semver, t.semver)}
  BY AnswerTags, SortedLists, LatestHighest DEF normalize
<1>3. Incomplete = {}
  BY <1>2 DEF Incomplete
<1>4. Misleading = {}
  BY <1>2 DEF Misleading
<1>5. ListSound
  BY <1>1, <1>3, <1>4 DEF ListSound
<1> QED BY <1>5, PTL
=============================================================================
