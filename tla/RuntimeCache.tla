---------------------------- MODULE RuntimeCache ----------------------------
(***************************************************************************)
(* The container states shown on the deployment page: RuntimeStateCache of *)
(* src/src/state.rs, its one background docker query at a time, the        *)
(* operations that invalidate it when they end, refresh_compose, which     *)
(* clears it, and the page that polls it.  Docker's state is a counter, so *)
(* "stale" is "smaller"; time passes in ticks.  An answer is as old as its *)
(* list of containers, whatever docker inspect says of them later.         *)
(***************************************************************************)
EXTENDS Integers, FiniteSets

CONSTANTS
    Slots,       \* background queries that could be running at once
    MaxAge,      \* RUNTIME_CACHE_MAX_AGE, in ticks
    QueryLimit,  \* the timeouts of the two docker calls of a query, in ticks
    Never,       \* last_attempt is None
    NoStates,    \* states is None
    MaxChanges,  \* bound: changes of docker's state
    MaxErrors,   \* bound: failed queries
    MaxClears    \* bound: Compose refreshes

ASSUME CacheAssumption ==
    /\ MaxAge \in Nat \ {0} /\ QueryLimit \in Nat \ {0}
    /\ MaxChanges \in Nat /\ MaxErrors \in Nat /\ MaxClears \in Nat
    /\ Never \notin Nat /\ NoStates \notin Nat

VARIABLES
    world,       \* what docker runs
    op,          \* "idle", "running" or "reported": an operation of the project
    ended,       \* docker's state when the last operation reported its end
    states, attempt, refreshing, error,     \* RuntimeStateCacheInner
    sampled,     \* ticks since docker listed the containers of states
    query,       \* the background queries
    raced,       \* an answer older than the last operation's end may be stored
    page,        \* the answer the page got last
    errors, clears

cache == <<states, attempt, refreshing, error, sampled>>
vars  == <<world, op, ended, cache, query, raced, page, errors, clears>>

NoQuery  == [pc |-> "none", elapsed |-> 0, val |-> 0, age |-> 0]
Oldest   == MaxAge + QueryLimit
Running  == {q \in Slots : query[q].pc # "none"}
Later(n) == IF n < Oldest THEN n + 1 ELSE n

Init ==
    /\ world = 0 /\ op = "idle" /\ ended = 0
    /\ states = NoStates /\ attempt = Never /\ sampled = 0
    /\ refreshing = FALSE /\ error = FALSE
    /\ query = [q \in Slots |-> NoQuery] /\ raced = FALSE
    /\ page = [states |-> NoStates, refreshing |-> FALSE, error |-> FALSE,
               ended |-> 0, early |-> FALSE]
    /\ errors = 0 /\ clears = 0

-----------------------------------------------------------------------------
Expired == attempt \notin 0 .. MaxAge - 1

Starts == Expired /\ ~refreshing

(* GET /api/projects: snapshot, and the query it may start.  Definitions named *)
(* Faulty... are plausible mistakes, used by the mutation runs only.           *)
Snapshot ==
    /\ \/ /\ Starts
          /\ refreshing' = TRUE /\ attempt' = 0
          /\ \E q \in Slots \ Running :
                query' = [query EXCEPT ![q].pc = "asked"]
       \/ /\ ~Starts
          /\ UNCHANGED <<refreshing, attempt, query>>
    /\ page' = [states |-> states, refreshing |-> refreshing', error |-> error,
                ended |-> ended, early |-> raced \/ op = "reported"]
    /\ UNCHANGED <<world, op, ended, states, error, sampled, raced, errors, clears>>

(* Compose::runtimes, first call: docker compose ps -q lists the containers.   *)
(* Those that start from here on are not in the answer; an empty list is one.  *)
List(q) ==
    /\ query[q].pc = "asked"
    /\ \E pc \in {"listed", "answered"} :
          query' = [query EXCEPT ![q].pc = pc, ![q].val = world, ![q].age = 0]
    /\ raced' = FALSE
    /\ UNCHANGED <<world, op, ended, cache, page, errors, clears>>

(* Second call: docker inspect describes the containers listed; the answer is  *)
(* on its way back while docker moves on.                                      *)
Inspect(q) ==
    /\ query[q].pc = "listed"
    /\ query' = [query EXCEPT ![q].pc = "answered"]
    /\ UNCHANGED <<world, op, ended, cache, raced, page, errors, clears>>

(* complete(Ok(states)) *)
Complete(q) ==
    /\ query[q].pc = "answered"
    /\ states' = query[q].val /\ sampled' = query[q].age
    /\ attempt' = 0 /\ refreshing' = FALSE /\ error' = FALSE
    /\ query' = [query EXCEPT ![q] = NoQuery]
    /\ UNCHANGED <<world, op, ended, raced, page, errors, clears>>

(* complete(Err(error)): the old states stay, with the error beside them. *)
FaultyErrorStuck  == error' = TRUE /\ attempt' = 0 /\ UNCHANGED refreshing
FaultyErrorHidden == attempt' = 0 /\ refreshing' = FALSE /\ UNCHANGED error
RecordError       == error' = TRUE /\ attempt' = 0 /\ refreshing' = FALSE

QueryFails(q) ==
    /\ q \in Running
    /\ errors < MaxErrors /\ errors' = errors + 1
    /\ RecordError
    /\ query' = [query EXCEPT ![q] = NoQuery]
    /\ UNCHANGED <<world, op, ended, states, sampled, raced, page, clears>>

-----------------------------------------------------------------------------
(* An operation holds the project's permit.  It stores its result, which the   *)
(* page sees, some awaits (the rebuild of the override) before it returns and  *)
(* drops RuntimeCacheInvalidator and then the permit.                          *)
OperationBegins ==
    /\ op = "idle" /\ op' = "running"
    /\ UNCHANGED <<world, ended, cache, query, raced, page, errors, clears>>

OperationReports ==
    /\ op = "running" /\ op' = "reported"
    /\ ended' = world
    /\ UNCHANGED <<world, cache, query, raced, page, errors, clears>>

Listed(q) == query[q].pc \in {"listed", "answered"}

AnswerUnderWay == \E q \in Slots : Listed(q)

FaultyInvalidate == UNCHANGED attempt
Invalidate == attempt' = Never

OperationEnds ==
    /\ op = "reported" /\ op' = "idle"
    /\ Invalidate
    /\ raced' = AnswerUnderWay
    /\ UNCHANGED <<world, ended, states, refreshing, error, sampled, query, page,
                   errors, clears>>

(* refresh_compose: clear() forgets the states, but not a running query. *)
Cleared == states' = NoStates /\ attempt' = Never /\ error' = FALSE

ClearCache ==
    /\ op = "idle" /\ clears < MaxClears
    /\ clears' = clears + 1
    /\ Cleared
    /\ UNCHANGED <<world, op, ended, refreshing, sampled, query, raced, page,
                   errors>>

(* A container starts, stops or changes health, in an operation or by itself. *)
DockerChanges ==
    /\ world < MaxChanges
    /\ world' = world + 1
    /\ UNCHANGED <<op, ended, cache, query, raced, page, errors, clears>>

(* Time passes; a query cannot outlive its timeouts. *)
Tick ==
    /\ \A q \in Running : query[q].elapsed < QueryLimit
    /\ attempt' = IF Expired THEN attempt ELSE attempt + 1
    /\ sampled' = Later(sampled)
    /\ query' = [q \in Slots |->
                   IF q \in Running
                   THEN [query[q] EXCEPT !.elapsed = @ + 1,
                                         !.age = IF Listed(q) THEN @ + 1 ELSE 0]
                   ELSE NoQuery]
    /\ UNCHANGED <<world, op, ended, states, refreshing, error, raced, page,
                   errors, clears>>

Next ==
    \/ Snapshot \/ OperationBegins \/ OperationReports \/ OperationEnds
    \/ ClearCache \/ DockerChanges \/ Tick
    \/ \E q \in Slots : List(q) \/ Inspect(q) \/ Complete(q) \/ QueryFails(q)

Spec == Init /\ [][Next]_vars

(* The open page polls, time passes, and a query answers or fails in time. *)
Fairness ==
    /\ WF_vars(Snapshot) /\ WF_vars(Tick)
    /\ WF_vars(\E q \in Slots : List(q))
    /\ WF_vars(\E q \in Slots : Inspect(q))
    /\ WF_vars(\E q \in Slots : Complete(q))

FairSpec == Spec /\ Fairness

-----------------------------------------------------------------------------
Query == [pc : {"none", "asked", "listed", "answered"},
          elapsed : 0 .. QueryLimit, val : 0 .. MaxChanges,
          age : 0 .. QueryLimit]
Page  == [states : 0 .. MaxChanges \cup {NoStates}, refreshing : BOOLEAN,
          error : BOOLEAN, ended : 0 .. MaxChanges, early : BOOLEAN]

(* Every variable keeps its type. *)
TypeOK ==
    /\ world \in 0 .. MaxChanges /\ ended \in 0 .. MaxChanges
    /\ op \in {"idle", "running", "reported"}
    /\ states \in 0 .. MaxChanges \cup {NoStates}
    /\ attempt \in 0 .. MaxAge \cup {Never} /\ sampled \in 0 .. Oldest
    /\ refreshing \in BOOLEAN /\ error \in BOOLEAN
    /\ query \in [Slots -> Query] /\ raced \in BOOLEAN /\ page \in Page
    /\ errors \in 0 .. MaxErrors /\ clears \in 0 .. MaxClears

(* At most one docker query per project, and refreshing says exactly whether   *)
(* it runs: invalidating or clearing the cache under a running query neither   *)
(* starts a second one nor leaves the page waiting for none.                   *)
SingleQuery ==
    IF refreshing THEN \E q \in Slots : Running = {q} ELSE Running = {}

(* States that are served as current, without a refresh and without an error,  *)
(* were listed by docker at most MaxAge plus one query ago.                    *)
BoundedStaleness ==
    (~Expired /\ ~refreshing /\ ~error /\ states # NoStates)
        => sampled <= attempt + QueryLimit

(* An answer never takes the page back in time: docker's lists are stored in   *)
(* the order docker gave them.                                                 *)
NeverBackwards ==
    [][states # NoStates /\ states' # NoStates => states' >= states]_vars

(* Once docker stops changing, the polling page comes to show what it runs,    *)
(* whatever was in flight, invalidated, cleared or failed before.              *)
CatchesUp == <>[](page.states = world)

(* README.md:70-71 promises that states are re-read once an operation has      *)
(* ended.  A page that is told neither of a refresh nor of an error shows      *)
(* containers listed after that end, with two exceptions: a query in flight at *)
(* the end had listed them before, inspected or not, or the page asked between *)
(* the result and the invalidation of the cache.                               *)
RereadUnlessRaced ==
    (page.states # NoStates /\ ~page.refreshing /\ ~page.error)
        => page.states >= page.ended \/ page.early
=============================================================================
