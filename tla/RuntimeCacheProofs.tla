------------------------- MODULE RuntimeCacheProofs -------------------------
(***************************************************************************)
(* Proofs about RuntimeCache for every value of its constants.  A query's  *)
(* answer is never newer than docker nor older than what is shown, and it  *)
(* is no older than the query itself; SingleQuery makes these inductive.   *)
(***************************************************************************)
EXTENDS RuntimeCache, TLAPS

AnswersAge == \A q \in Slots : query[q].age <= query[q].elapsed

AnswersOrdered ==
    /\ states # NoStates => states <= world
    /\ \A q \in Slots : Listed(q) =>
          /\ query[q].val <= world
          /\ states # NoStates => states <= query[q].val

CacheInv ==
    /\ TypeOK /\ SingleQuery /\ BoundedStaleness
    /\ AnswersAge /\ AnswersOrdered

(* The part of TypeOK that is about numbers. *)
Numbers ==
    /\ world \in 0 .. MaxChanges /\ ended \in 0 .. MaxChanges
    /\ states \in 0 .. MaxChanges \cup {NoStates}
    /\ attempt \in 0 .. MaxAge \cup {Never} /\ sampled \in 0 .. Oldest
    /\ errors \in 0 .. MaxErrors /\ clears \in 0 .. MaxClears

-----------------------------------------------------------------------------
LEMMA NumbersTyped == TypeOK => Numbers
BY Zenon DEF TypeOK, Numbers

LEMMA QueryFields ==
  ASSUME CacheInv, NEW q \in Slots
  PROVE  /\ query \in [Slots -> Query] /\ query[q] \in Query
         /\ query[q].pc \in {"none", "asked", "listed", "answered"}
         /\ query[q].elapsed \in 0 .. QueryLimit /\ query[q].age \in 0 .. QueryLimit
         /\ query[q].val \in 0 .. MaxChanges
         /\ query[q].age <= query[q].elapsed
<1>1. query \in [Slots -> Query] /\ query[q] \in Query
  BY DEF CacheInv, TypeOK
<1>2. query[q].age <= query[q].elapsed
  BY DEF CacheInv, AnswersAge
<1> QED BY <1>1, <1>2 DEF Query

LEMMA NoQueryType == NoQuery \in Query
BY CacheAssumption DEF NoQuery, Query

LEMMA InitCache == Init => CacheInv
<1> SUFFICES ASSUME Init PROVE CacheInv
  OBVIOUS
<1>1. query \in [Slots -> Query] /\ \A q \in Slots : query[q] = NoQuery
  BY NoQueryType DEF Init
<1>2. TypeOK
  <2>1. page \in Page
    BY CacheAssumption DEF Init, Page
  <2>2. Numbers
    BY CacheAssumption DEF Init, Numbers, Oldest
  <2> QED
    BY <1>1, <2>1, <2>2, Zenon DEF Init, TypeOK, Numbers
<1>3. SingleQuery /\ AnswersAge /\ AnswersOrdered
  BY <1>1 DEF Init, SingleQuery, Running, NoQuery, AnswersAge,
    AnswersOrdered, Listed
<1>4. BoundedStaleness
  BY DEF Init, BoundedStaleness
<1> QED BY <1>2, <1>3, <1>4 DEF CacheInv

LEMMA SnapshotCache ==
  ASSUME CacheInv, Snapshot
  PROVE  CacheInv'
<1>1. page' \in Page
  BY DEF CacheInv, TypeOK, Snapshot, Page
<1>2. CASE Starts
  <2>1. PICK q \in Slots \ Running : query' = [query EXCEPT ![q].pc = "asked"]
    BY <1>2 DEF Snapshot
  <2> DEFINE r == [query[q] EXCEPT !.pc = "asked"]
  <2>2. /\ r \in Query /\ r.pc = "asked" /\ r.age <= r.elapsed
    BY <2>1, QueryFields DEF Query
  <2>3. /\ query' \in [Slots -> Query] /\ query'[q] = r
        /\ \A p \in Slots \ {q} : query'[p] = query[p]
    BY <2>1, <2>2, QueryFields
  <2> HIDE DEF r
  <2>4. Running = {}
    BY <1>2 DEF Starts, CacheInv, SingleQuery
  <2>5. Running' = {q}
    BY <2>1, <2>2, <2>3, <2>4 DEF Running
  <2>6. refreshing' = TRUE /\ attempt' = 0
    BY <1>2 DEF Snapshot
  <2>7. TypeOK'
    BY <1>1, <2>3, <2>6, CacheAssumption DEF CacheInv, TypeOK, Snapshot
  <2>8. SingleQuery' /\ BoundedStaleness'
    BY <2>5, <2>6 DEF SingleQuery, BoundedStaleness
  <2>9. AnswersAge' /\ AnswersOrdered'
    BY <2>2, <2>3 DEF CacheInv, AnswersAge, AnswersOrdered, Snapshot, Listed
  <2> QED BY <2>7, <2>8, <2>9 DEF CacheInv
<1>3. CASE ~Starts
  <2>1. UNCHANGED <<refreshing, attempt, query, states, sampled, error, world>>
    BY <1>3 DEF Snapshot
  <2>2. TypeOK'
    BY <1>1, <2>1 DEF CacheInv, TypeOK, Snapshot
  <2> QED
    BY <2>1, <2>2 DEF CacheInv, SingleQuery, Running, BoundedStaleness, Expired,
      AnswersAge, AnswersOrdered, Listed
<1> QED BY <1>2, <1>3

(* A query that returns, with an answer or an error, leaves none running. *)
LEMMA QueryReturns ==
  ASSUME CacheInv, NEW q \in Running, query' = [query EXCEPT ![q] = NoQuery]
  PROVE  /\ query' \in [Slots -> Query] /\ Running' = {}
         /\ \A p \in Slots : query'[p].pc = "none" /\ query'[p].age <= query'[p].elapsed
<1>1. Running = {q} /\ q \in Slots
  BY DEF CacheInv, SingleQuery, Running
<1>2. /\ query' \in [Slots -> Query] /\ query'[q] = NoQuery
      /\ \A p \in Slots \ {q} : query'[p] = query[p]
  BY <1>1, QueryFields, NoQueryType
<1>3. \A p \in Slots : query'[p].pc = "none"
  BY <1>1, <1>2 DEF Running, NoQuery
<1>4. \A p \in Slots : query'[p].age <= query'[p].elapsed
  BY <1>2, QueryFields DEF NoQuery
<1> QED BY <1>2, <1>3, <1>4 DEF Running

LEMMA CompleteCache ==
  ASSUME CacheInv, NEW q \in Slots, Complete(q)
  PROVE  CacheInv'
<1>1. q \in Running /\ query' = [query EXCEPT ![q] = NoQuery]
  BY DEF Complete, Running
<1>2. /\ states' = query[q].val /\ sampled' = query[q].age /\ attempt' = 0
      /\ refreshing' = FALSE /\ error' = FALSE
      /\ UNCHANGED <<world, op, ended, raced, page, errors, clears>>
  BY DEF Complete
<1>3. query[q].val \in 0 .. MaxChanges /\ query[q].val <= world
      /\ query[q].age \in 0 .. QueryLimit
  BY QueryFields DEF Complete, CacheInv, AnswersOrdered, Listed
<1>4. TypeOK'
  <2>1. Numbers'
    BY <1>2, <1>3, NumbersTyped, CacheAssumption DEF CacheInv, Numbers, Oldest
  <2>2. query' \in [Slots -> Query]
    BY <1>1, QueryReturns
  <2> QED
    BY <1>2, <2>1, <2>2, Zenon DEF CacheInv, TypeOK, Numbers
<1>5. SingleQuery' /\ AnswersAge'
  BY <1>1, <1>2, QueryReturns DEF SingleQuery, AnswersAge
<1>6. BoundedStaleness'
  BY <1>2, <1>3, CacheAssumption DEF BoundedStaleness
<1>7. AnswersOrdered'
  BY <1>1, <1>2, <1>3, QueryReturns DEF AnswersOrdered, Listed
<1> QED BY <1>4, <1>5, <1>6, <1>7 DEF CacheInv

LEMMA QueryFailsCache ==
  ASSUME CacheInv, NEW q \in Slots, QueryFails(q)
  PROVE  CacheInv'
<1>1. q \in Running /\ query' = [query EXCEPT ![q] = NoQuery]
  BY DEF QueryFails
<1>2. /\ attempt' = 0 /\ refreshing' = FALSE /\ error' = TRUE
      /\ errors' = errors + 1 /\ errors < MaxErrors
      /\ UNCHANGED <<world, op, ended, states, sampled, raced, page, clears>>
  BY DEF QueryFails, RecordError
<1>3. TypeOK'
  <2>1. Numbers'
    BY <1>2, NumbersTyped, CacheAssumption DEF CacheInv, Numbers
  <2>2. query' \in [Slots -> Query]
    BY <1>1, QueryReturns
  <2> QED
    BY <1>2, <2>1, <2>2, Zenon DEF CacheInv, TypeOK, Numbers
<1>4. SingleQuery' /\ AnswersAge' /\ BoundedStaleness'
  BY <1>1, <1>2, QueryReturns DEF SingleQuery, AnswersAge, BoundedStaleness
<1>5. AnswersOrdered'
  BY <1>1, <1>2, QueryReturns DEF CacheInv, AnswersOrdered, Listed
<1> QED BY <1>3, <1>4, <1>5 DEF CacheInv

LEMMA ListCache ==
  ASSUME CacheInv, NEW q \in Slots, List(q)
  PROVE  CacheInv'
<1>1. PICK pc \in {"listed", "answered"} :
        query' = [query EXCEPT ![q].pc = pc, ![q].val = world, ![q].age = 0]
  BY DEF List
<1> DEFINE r == [query[q] EXCEPT !.pc = pc, !.val = world, !.age = 0]
<1>2. query' = [query EXCEPT ![q] = r]
  BY <1>1, QueryFields
<1>3. world \in 0 .. MaxChanges /\ 0 \in 0 .. QueryLimit
  BY CacheAssumption DEF CacheInv, TypeOK
<1>4. r \in Query /\ r.pc = pc /\ r.val = world /\ r.age <= r.elapsed
  <2>1. r \in Query /\ r.pc = pc /\ r.val = world
    BY <1>3, QueryFields DEF Query
  <2>2. r.age = 0 /\ r.elapsed = query[q].elapsed
    BY QueryFields DEF Query
  <2> HIDE DEF r
  <2> QED BY <2>1, <2>2, QueryFields, CacheAssumption
<1> HIDE DEF r
<1>5. /\ query' \in [Slots -> Query] /\ query'[q] = r
      /\ \A p \in Slots \ {q} : query'[p] = query[p]
  BY <1>2, <1>4, QueryFields
<1>6. Running' = Running
  BY <1>4, <1>5 DEF Running, List
<1>7. UNCHANGED <<world, op, ended, cache, page, errors, clears>> /\ raced' = FALSE
  BY DEF List
<1>8. TypeOK'
  BY <1>5, <1>7 DEF CacheInv, TypeOK, cache
<1>9. SingleQuery' /\ BoundedStaleness'
  BY <1>6, <1>7 DEF CacheInv, SingleQuery, BoundedStaleness, Expired, cache
<1>10. AnswersAge' /\ AnswersOrdered'
  BY <1>3, <1>4, <1>5, <1>7 DEF CacheInv, AnswersAge, AnswersOrdered, Listed, cache
<1> QED BY <1>8, <1>9, <1>10 DEF CacheInv

LEMMA InspectCache ==
  ASSUME CacheInv, NEW q \in Slots, Inspect(q)
  PROVE  CacheInv'
<1> DEFINE r == [query[q] EXCEPT !.pc = "answered"]
<1>1. /\ query' = [query EXCEPT ![q] = r] /\ query[q].pc = "listed"
      /\ UNCHANGED <<world, op, ended, cache, raced, page, errors, clears>>
  BY QueryFields DEF Inspect
<1>2. /\ r \in Query /\ r.pc = "answered" /\ r.val = query[q].val
      /\ r.age <= r.elapsed
  BY QueryFields DEF Query
<1> HIDE DEF r
<1>3. /\ query' \in [Slots -> Query] /\ query'[q] = r
      /\ \A p \in Slots \ {q} : query'[p] = query[p]
  BY <1>1, <1>2, QueryFields
<1>4. Running' = Running
  BY <1>1, <1>2, <1>3 DEF Running
<1>5. TypeOK'
  BY <1>1, <1>3 DEF CacheInv, TypeOK, cache
<1>6. SingleQuery' /\ BoundedStaleness'
  BY <1>1, <1>4 DEF CacheInv, SingleQuery, BoundedStaleness, Expired, cache
<1>7. AnswersAge' /\ AnswersOrdered'
  BY <1>1, <1>2, <1>3 DEF CacheInv, AnswersAge, AnswersOrdered, Listed, cache
<1> QED BY <1>5, <1>6, <1>7 DEF CacheInv

LEMMA TickCache ==
  ASSUME CacheInv, Tick
  PROVE  CacheInv'
<1>1. UNCHANGED <<world, op, ended, states, refreshing, error, raced, page, errors,
                  clears>>
  BY DEF Tick
<1>2. ASSUME NEW q \in Slots
      PROVE  /\ query'[q] \in Query /\ query'[q].age <= query'[q].elapsed
             /\ query'[q].pc = query[q].pc
             /\ Listed(q) => query'[q].val = query[q].val
  <2>1. CASE q \in Running
    <3> DEFINE a == IF Listed(q) THEN query[q].age + 1 ELSE 0
               r == [query[q] EXCEPT !.elapsed = query[q].elapsed + 1, !.age = a]
    <3>1. query'[q] = r
      BY <2>1, QueryFields DEF Tick
    <3>2. query[q].elapsed < QueryLimit
      BY <2>1 DEF Tick
    <3>3. /\ query[q].elapsed + 1 \in 0 .. QueryLimit
          /\ a \in 0 .. QueryLimit /\ a <= query[q].elapsed + 1
      BY <3>2, QueryFields, CacheAssumption
    <3> HIDE DEF a
    <3>4. /\ r \in Query /\ r.age = a /\ r.elapsed = query[q].elapsed + 1
          /\ r.pc = query[q].pc /\ r.val = query[q].val
      BY <3>3, QueryFields DEF Query
    <3> HIDE DEF r
    <3> QED BY <3>1, <3>3, <3>4
  <2>2. CASE q \notin Running
    <3>1. query'[q] = NoQuery
      BY <2>2 DEF Tick
    <3> QED BY <2>2, <3>1, NoQueryType DEF Running, NoQuery, Listed
  <2> QED BY <2>1, <2>2
<1>3. query' \in [Slots -> Query]
  <2>1. query' = [q \in Slots |-> query'[q]]
    BY DEF Tick
  <2> QED BY <1>2, <2>1
<1>4. Running' = Running
  BY <1>2 DEF Running
<1>5. /\ attempt' \in 0 .. MaxAge \cup {Never} /\ sampled' \in 0 .. Oldest
      /\ sampled' <= sampled + 1
      /\ attempt' = IF Expired THEN attempt ELSE attempt + 1
  <2>1. /\ attempt' = IF Expired THEN attempt ELSE attempt + 1
        /\ sampled' = Later(sampled)
    BY DEF Tick
  <2>2. /\ attempt \in 0 .. MaxAge \cup {Never} /\ sampled \in 0 .. Oldest
        /\ Oldest \in Nat
    BY NumbersTyped, CacheAssumption DEF CacheInv, Numbers, Oldest
  <2>3. sampled' \in 0 .. Oldest /\ sampled' <= sampled + 1
    BY <2>1, <2>2 DEF Later
  <2>4. attempt' \in 0 .. MaxAge \cup {Never}
    <3>1. CASE Expired
      BY <2>1, <2>2, <3>1
    <3>2. CASE ~Expired
      <4>1. attempt \in 0 .. MaxAge - 1
        BY <3>2 DEF Expired
      <4>2. attempt' = attempt + 1
        BY <2>1, <3>2
      <4> QED BY <4>1, <4>2, CacheAssumption
    <3> QED BY <3>1, <3>2
  <2> QED BY <2>1, <2>3, <2>4
<1>6. TypeOK'
  BY <1>1, <1>3, <1>5 DEF CacheInv, TypeOK
<1>7. SingleQuery'
  BY <1>1, <1>4 DEF CacheInv, SingleQuery
<1>8. BoundedStaleness'
  <2>1. CASE Expired
    BY <1>5, <2>1 DEF BoundedStaleness, Expired
  <2>2. CASE ~Expired
    BY <1>1, <1>5, <2>2, CacheAssumption
    DEF CacheInv, TypeOK, BoundedStaleness, Expired, Oldest
  <2> QED BY <2>1, <2>2
<1>9. AnswersAge' /\ AnswersOrdered'
  BY <1>1, <1>2 DEF CacheInv, AnswersAge, AnswersOrdered, Listed
<1> QED BY <1>6, <1>7, <1>8, <1>9 DEF CacheInv

LEMMA OtherCache ==
  ASSUME CacheInv,
         OperationBegins \/ OperationReports \/ OperationEnds \/ ClearCache
         \/ DockerChanges \/ UNCHANGED vars
  PROVE  CacheInv'
<1>1. UNCHANGED <<query, refreshing>>
  BY DEF OperationBegins, OperationReports, OperationEnds, ClearCache,
    DockerChanges, vars, cache
<1>2. SingleQuery' /\ AnswersAge'
  BY <1>1 DEF CacheInv, SingleQuery, AnswersAge, Running
<1>3. TypeOK'
  <2>1. Numbers'
    BY NumbersTyped, CacheAssumption DEF CacheInv, Numbers, OperationBegins,
      OperationReports, OperationEnds, Invalidate, ClearCache, Cleared, DockerChanges, vars, cache
  <2>2. /\ op' \in {"idle", "running", "reported"} /\ error' \in BOOLEAN
        /\ raced' \in BOOLEAN
        /\ UNCHANGED <<query, page, refreshing>>
    BY Zenon DEF AnswerUnderWay, CacheInv, TypeOK, OperationBegins, OperationReports,
      OperationEnds, Invalidate, ClearCache, Cleared, DockerChanges, vars, cache
  <2> QED
    BY <2>1, <2>2, Zenon DEF CacheInv, TypeOK, Numbers
<1>4. BoundedStaleness'
  BY CacheAssumption DEF CacheInv, BoundedStaleness, Expired, OperationBegins,
    OperationReports, OperationEnds, Invalidate, ClearCache, Cleared, DockerChanges, vars, cache
<1>5. AnswersOrdered'
  <2>1. /\ states' \in {states, NoStates} /\ world' >= world
        /\ world \in Nat
    BY DEF CacheInv, TypeOK, OperationBegins, OperationReports,
      OperationEnds, Invalidate, ClearCache, Cleared, DockerChanges, vars, cache
  <2>2. states \in Nat \cup {NoStates} /\ world' \in Nat
    BY <1>3 DEF CacheInv, TypeOK
  <2>3. \A q \in Slots : query[q].val \in Nat
    BY QueryFields
  <2> QED BY <1>1, <2>1, <2>2, <2>3 DEF CacheInv, AnswersOrdered, Listed
<1> QED BY <1>2, <1>3, <1>4, <1>5 DEF CacheInv

LEMMA CacheNext == CacheInv /\ [Next]_vars => CacheInv'
BY SnapshotCache, CompleteCache, QueryFailsCache, ListCache, InspectCache, TickCache, OtherCache
DEF Next

LEMMA CacheInductive == Spec => []CacheInv
BY InitCache, CacheNext, PTL DEF Spec

-----------------------------------------------------------------------------
(* What follows the end of an operation.  Unless an answer raced with it, the  *)
(* answer on its way, and the states that count as current, are from after it. *)
AnswersAfterEnd ==
    (op # "reported" /\ ~raced) =>
        \A q \in Slots : Listed(q) => query[q].val >= ended

StatesAfterEnd ==
    (/\ op # "reported" /\ ~raced /\ attempt # Never
     /\ ~error /\ ~refreshing /\ states # NoStates) => states >= ended

EndInv == ended <= world /\ AnswersAfterEnd /\ StatesAfterEnd /\ RereadUnlessRaced

LEMMA InitEnd == Init => EndInv
BY DEF Init, EndInv, AnswersAfterEnd, StatesAfterEnd, RereadUnlessRaced, NoQuery,
  Listed

LEMMA SnapshotEnd ==
  ASSUME CacheInv, EndInv, Snapshot
  PROVE  EndInv'
<1>1. UNCHANGED <<world, op, ended, states, error, raced>>
  BY DEF Snapshot
<1>2. AnswersAfterEnd'
  <2> SUFFICES ASSUME op # "reported", ~raced, NEW q \in Slots, Listed(q)'
               PROVE  query'[q].val >= ended
    BY <1>1 DEF AnswersAfterEnd
  <2>1. query'[q] = query[q]
    BY QueryFields DEF Snapshot, Query, Listed
  <2> QED BY <2>1 DEF EndInv, AnswersAfterEnd, Listed
<1>3. StatesAfterEnd' /\ RereadUnlessRaced'
  <2>1. CASE Starts
    <3>1. refreshing' = TRUE /\ page'.refreshing = TRUE
      BY <2>1 DEF Snapshot
    <3> QED BY <3>1 DEF StatesAfterEnd, RereadUnlessRaced
  <2>2. CASE ~Starts
    <3>1. UNCHANGED <<refreshing, attempt>>
      BY <2>2 DEF Snapshot
    <3>2. ~refreshing => attempt # Never
      BY <2>2, CacheAssumption DEF Starts, Expired
    <3>3. /\ page'.states = states /\ page'.refreshing = refreshing
          /\ page'.error = error /\ page'.ended = ended
          /\ page'.early = (raced \/ op = "reported")
      BY <3>1 DEF Snapshot
    <3> QED
      BY <1>1, <3>1, <3>2, <3>3 DEF EndInv, StatesAfterEnd, RereadUnlessRaced
  <2> QED BY <2>1, <2>2
<1> QED BY <1>1, <1>2, <1>3 DEF EndInv

LEMMA CompleteEnd ==
  ASSUME CacheInv, EndInv, NEW q \in Slots, Complete(q)
  PROVE  EndInv'
<1>1. q \in Running /\ query' = [query EXCEPT ![q] = NoQuery]
  BY DEF Complete, Running
<1>2. states' = query[q].val /\ UNCHANGED <<world, op, ended, raced, page>>
  BY DEF Complete
<1>3. AnswersAfterEnd'
  BY <1>1, QueryReturns DEF AnswersAfterEnd, Listed
<1>4. StatesAfterEnd'
  BY <1>2 DEF Complete, EndInv, AnswersAfterEnd, StatesAfterEnd,
    Listed
<1> QED BY <1>2, <1>3, <1>4 DEF EndInv, RereadUnlessRaced

LEMMA QueryFailsEnd ==
  ASSUME CacheInv, EndInv, NEW q \in Slots, QueryFails(q)
  PROVE  EndInv'
<1>1. q \in Running /\ query' = [query EXCEPT ![q] = NoQuery]
  BY DEF QueryFails
<1>2. error' = TRUE /\ UNCHANGED <<world, op, ended, raced, page>>
  BY DEF QueryFails, RecordError
<1>3. AnswersAfterEnd' /\ StatesAfterEnd'
  BY <1>1, <1>2, QueryReturns DEF AnswersAfterEnd, StatesAfterEnd, Listed
<1> QED BY <1>2, <1>3 DEF EndInv, RereadUnlessRaced

LEMMA ListEnd ==
  ASSUME CacheInv, EndInv, NEW q \in Slots, List(q)
  PROVE  EndInv'
<1>1. UNCHANGED <<world, op, ended, page, states, attempt, error, refreshing>>
  BY DEF List, cache
<1>2. Running = {q} /\ refreshing
  BY DEF CacheInv, SingleQuery, List, Running
<1>3. AnswersAfterEnd'
  <2> SUFFICES ASSUME NEW p \in Slots, Listed(p)'
               PROVE  query'[p].val >= ended
    BY <1>1 DEF AnswersAfterEnd
  <2>1. CASE p = q
    <3>1. query'[q].val = world
      BY QueryFields DEF List, Query
    <3> QED BY <1>1, <2>1, <3>1, NumbersTyped DEF CacheInv, Numbers, EndInv
  <2>2. CASE p # q
    <3>1. query'[p] = query[p]
      BY <2>2, QueryFields DEF List
    <3> QED BY <1>2, <2>2, <3>1 DEF Running, Listed
  <2> QED BY <2>1, <2>2
<1>4. StatesAfterEnd'
  BY <1>1, <1>2 DEF StatesAfterEnd
<1> QED BY <1>1, <1>3, <1>4 DEF EndInv, RereadUnlessRaced

LEMMA InspectEnd ==
  ASSUME CacheInv, EndInv, NEW q \in Slots, Inspect(q)
  PROVE  EndInv'
<1>1. /\ query' = [query EXCEPT ![q].pc = "answered"] /\ Listed(q)
      /\ UNCHANGED <<world, op, ended, page, states, attempt, error, refreshing, raced>>
  BY DEF Inspect, cache, Listed
<1>2. \A p \in Slots : Listed(p)' => Listed(p) /\ query'[p].val = query[p].val
  BY <1>1, QueryFields DEF Listed, Query
<1> QED
  BY <1>1, <1>2 DEF EndInv, AnswersAfterEnd, StatesAfterEnd, RereadUnlessRaced

LEMMA TickEnd ==
  ASSUME CacheInv, EndInv, Tick
  PROVE  EndInv'
<1>1. UNCHANGED <<world, op, ended, states, refreshing, error, raced, page>>
  BY DEF Tick
<1>2. \A q \in Slots : Listed(q)' => Listed(q) /\ query'[q].val = query[q].val
  <2> SUFFICES ASSUME NEW q \in Slots, Listed(q)'
               PROVE  Listed(q) /\ query'[q].val = query[q].val
    OBVIOUS
  <2>1. q \in Running
    BY DEF Tick, NoQuery, Listed
  <2> QED BY <2>1, QueryFields DEF Tick, Query, Listed
<1>3. attempt' # Never => attempt # Never
  <2>1. attempt' = IF Expired THEN attempt ELSE attempt + 1
    BY DEF Tick
  <2>2. attempt = Never => Expired
    BY CacheAssumption DEF Expired
  <2> QED BY <2>1, <2>2
<1> QED
  BY <1>1, <1>2, <1>3 DEF EndInv, AnswersAfterEnd, StatesAfterEnd, RereadUnlessRaced

LEMMA OperationEnd ==
  ASSUME CacheInv, EndInv, OperationBegins \/ OperationReports \/ OperationEnds
  PROVE  EndInv'
<1>1. UNCHANGED <<world, query, states, error, refreshing, page>>
  BY DEF OperationBegins, OperationReports, OperationEnds, cache
<1>2. ended' <= world'
  BY NumbersTyped DEF CacheInv, EndInv, Numbers, OperationBegins, OperationReports,
    OperationEnds
<1>3. RereadUnlessRaced'
  BY <1>1 DEF EndInv, RereadUnlessRaced
<1>4. AnswersAfterEnd' /\ StatesAfterEnd'
  <2>1. CASE OperationBegins
    BY <1>1, <2>1 DEF EndInv, AnswersAfterEnd, StatesAfterEnd, OperationBegins, Listed, cache
  <2>2. CASE OperationReports
    BY <2>2 DEF AnswersAfterEnd, StatesAfterEnd, OperationReports
  <2>3. CASE OperationEnds
    <3>1. attempt' = Never /\ raced' = AnswerUnderWay
      BY <2>3 DEF OperationEnds, Invalidate
    <3>2. StatesAfterEnd'
      BY <3>1 DEF StatesAfterEnd
    <3>3. AnswersAfterEnd'
      BY <1>1, <3>1, Zenon DEF AnswersAfterEnd, AnswerUnderWay, Listed
    <3> QED BY <3>2, <3>3
  <2> QED BY <2>1, <2>2, <2>3
<1> QED BY <1>2, <1>3, <1>4 DEF EndInv

LEMMA OtherEnd ==
  ASSUME CacheInv, EndInv, ClearCache \/ DockerChanges \/ UNCHANGED vars
  PROVE  EndInv'
<1>1. UNCHANGED <<op, ended, raced, query, page>>
  BY DEF ClearCache, DockerChanges, vars, cache
<1>2. ended' <= world'
  BY NumbersTyped DEF CacheInv, EndInv, Numbers, ClearCache, DockerChanges, vars
<1>3. StatesAfterEnd'
  BY <1>1 DEF EndInv, StatesAfterEnd, ClearCache, Cleared, DockerChanges, vars, cache
<1> QED
  BY <1>1, <1>2, <1>3 DEF EndInv, AnswersAfterEnd, RereadUnlessRaced, Listed

LEMMA EndNext == CacheInv /\ EndInv /\ [Next]_vars => EndInv'
BY SnapshotEnd, CompleteEnd, QueryFailsEnd, ListEnd, InspectEnd, TickEnd, OperationEnd, OtherEnd
DEF Next

-----------------------------------------------------------------------------
(* Every reachable state of the cache is well typed. *)
THEOREM CacheTypeCorrect == Spec => []TypeOK
<1>1. CacheInv => TypeOK
  BY DEF CacheInv
<1> QED BY <1>1, CacheInductive, PTL

(* However many slots, operations and clears there are, at most one docker     *)
(* query runs, exactly while the cache says so.                                *)
THEOREM OneQuery == Spec => []SingleQuery
<1>1. CacheInv => SingleQuery
  BY DEF CacheInv
<1> QED BY <1>1, CacheInductive, PTL

(* For every maximum age and every timeout, what is served as current is no    *)
(* older than the two together.                                                *)
THEOREM StalenessBounded == Spec => []BoundedStaleness
<1>1. CacheInv => BoundedStaleness
  BY DEF CacheInv
<1> QED BY <1>1, CacheInductive, PTL

(* Wherever an operation ends, in whatever state the cache and its query are,  *)
(* only an answer that raced with the end hides it from the page.              *)
THEOREM EndIsReread == Spec => []RereadUnlessRaced
<1>1. EndInv => RereadUnlessRaced
  BY DEF EndInv
<1> QED BY <1>1, CacheInductive, InitEnd, EndNext, PTL DEF Spec

(* The page never goes back to an earlier state of docker. *)
THEOREM AnswersNeverBackwards == Spec => NeverBackwards
<1>1. CacheInv /\ [Next]_vars =>
        [states # NoStates /\ states' # NoStates => states' >= states]_vars
  <2> SUFFICES ASSUME CacheInv, Next, states # NoStates, states' # NoStates
               PROVE  states' >= states
    BY DEF CacheInv
  <2>1. states \in Nat
    BY DEF CacheInv, TypeOK
  <2>2. CASE \E q \in Slots : Complete(q)
    <3>1. PICK q \in Slots : Complete(q)
      BY <2>2
    <3> QED
      BY <2>1, <3>1, QueryFields DEF Complete, CacheInv, AnswersOrdered, Listed
  <2>3. CASE ~\E q \in Slots : Complete(q)
    <3>1. states' \in {states, NoStates}
      BY <2>3 DEF Next, Snapshot, List, Inspect, QueryFails, OperationBegins,
        OperationReports, OperationEnds, Invalidate, ClearCache, Cleared, DockerChanges, Tick,
        cache
    <3> QED BY <2>1, <3>1
  <2> QED BY <2>2, <2>3
<1> QED BY <1>1, CacheInductive, PTL DEF Spec, NeverBackwards
=============================================================================
