---------------------------- MODULE RegistryCache ----------------------------
(***************************************************************************)
(* The version lists of one service: RegistryClient of src/src/registry.rs *)
(* with its cache, the page that asks for them, enqueue, which asks the    *)
(* registry before a deployment, and refresh_compose, which may give the   *)
(* service another image and drops the cached list.  A registry is a set   *)
(* of tags that changes while queries are in flight; time passes in ticks. *)
(***************************************************************************)
EXTENDS Naturals, FiniteSets

CONSTANTS
    Pages,          \* page requests that can be in flight at once
    Deploy,         \* the deploy request: one at a time, it has the permit
    Refresher, Free,
    Sources, NoSource,
    Versions,
    PageSize,       \* ?n=1000: the tags of one registry answer
    TTL,            \* registries.cache_seconds, in ticks
    QueryLimit,     \* the timeouts of a query's requests, in ticks
    MaxRefreshes, MaxPublications, MaxCuts   \* bounds: refreshes, changes of the
                    \* registries, refreshes whose client is gone too early

ASSUME RegistryAssumption ==
    /\ Deploy \notin Pages /\ NoSource \notin Sources
    /\ Deploy # Refresher /\ Deploy # Free /\ Refresher # Free
    /\ PageSize \in Nat \ {0} /\ TTL \in Nat \ {0} /\ QueryLimit \in Nat \ {0}
    /\ {MaxRefreshes, MaxPublications, MaxCuts} \subseteq Nat

VARIABLES
    source,         \* the version source of the service, as now resolved
    published,      \* what each registry has
    cache,          \* the entry of the service; its ghosts say from where and
                    \* how many ticks ago the list was taken
    lock,           \* deploy_lock
    query,          \* requests waiting for a registry
    answer,         \* what the last step answered to a page
    admitted,       \* the deployment the last step accepted
    changed,        \* ticks since the source changed
    raced,          \* a query or an entry of the old source outlived a refresh
    refreshes, publications, cuts

vars == <<source, published, cache, lock, query, answer, admitted, changed, raced,
          refreshes, publications, cuts>>

Handlers == Pages \cup {Deploy}
NoEntry  == [versions |-> {}, from |-> NoSource, at |-> TTL, taken |-> 0]
NoQuery  == [pc |-> "idle", source |-> NoSource, versions |-> {}, taken |-> 0,
             elapsed |-> 0, want |-> {}, offered |-> {}]
Silence  == [from |-> NoSource, asked |-> NoSource, age |-> 0, changed |-> 0,
             raced |-> FALSE]
Nothing  == [want |-> {}, offered |-> {}, from |-> NoSource, asked |-> NoSource]
Oldest   == TTL + QueryLimit
Later(n) == IF n < Oldest THEN n + 1 ELSE n

Init ==
    /\ source \in Sources /\ published \in [Sources -> SUBSET Versions]
    /\ cache = NoEntry /\ lock = Free
    /\ query = [h \in Handlers |-> NoQuery]
    /\ answer = Silence /\ admitted = Nothing
    /\ changed = Oldest /\ raced = FALSE
    /\ refreshes = 0 /\ publications = 0 /\ cuts = 0

-----------------------------------------------------------------------------
FaultyExpiry == cache.from # NoSource /\ cache.at <= TTL
Fresh == cache.at < TTL

FaultyHit(refresh) == Fresh
(* cached_versions.  Definitions named Faulty... are plausible mistakes, used  *)
(* by the mutation runs only.                                                  *)
Hit(refresh) == ~refresh /\ Fresh

NoAnswer    == answer' = Silence
NoAdmission == admitted' = Nothing

Asked == [NoQuery EXCEPT !.pc = "asking", !.source = source]

(* GET versions *)
AskVersions(h, refresh) ==
    /\ query[h].pc = "idle"
    /\ \/ /\ Hit(refresh)
          /\ answer' = [from |-> cache.from, asked |-> source, age |-> cache.taken,
                        changed |-> changed, raced |-> raced \/ lock = Refresher]
          /\ UNCHANGED query
       \/ /\ ~Hit(refresh)
          /\ query' = [query EXCEPT ![h] = Asked]
          /\ NoAnswer
    /\ NoAdmission
    /\ UNCHANGED <<source, published, cache, lock, changed, raced, refreshes,
                   publications, cuts>>

(* enqueue, up to its forced query *)
AskDeploy(v) ==
    /\ lock = Free /\ lock' = Deploy
    /\ query' = [query EXCEPT ![Deploy] =
          [(IF Hit(TRUE)
            THEN [Asked EXCEPT !.pc = "taken", !.source = cache.from,
                               !.versions = cache.versions, !.taken = cache.taken]
            ELSE Asked)
           EXCEPT !.want = {v}, !.offered = published[source]]]
    /\ NoAnswer /\ NoAdmission
    /\ UNCHANGED <<source, published, cache, changed, raced, refreshes,
                   publications, cuts>>

(* The registry answers with the first page of its tags; its order is unknown. *)
FirstPages(S) == {T \in SUBSET S : Cardinality(T) = PageSize}
                 \cup {T \in {S} : Cardinality(T) <= PageSize}

Take(h) ==
    /\ query[h].pc = "asking"
    /\ \E T \in FirstPages(published[query[h].source]) :
          query' = [query EXCEPT ![h].pc = "taken", ![h].versions = T]
    /\ NoAnswer /\ NoAdmission
    /\ UNCHANGED <<source, published, cache, lock, changed, raced, refreshes,
                   publications, cuts>>

(* store_versions, under the key of the service whatever its source is by now. *)
Store(h) ==
    cache' = [versions |-> query[h].versions, from |-> query[h].source, at |-> 0,
              taken |-> query[h].taken]

AnswerPage(h) ==
    /\ h \in Pages /\ query[h].pc = "taken"
    /\ Store(h)
    /\ answer' = [from |-> query[h].source, asked |-> query[h].source,
                  age |-> query[h].taken, changed |-> changed, raced |-> FALSE]
    /\ query' = [query EXCEPT ![h] = NoQuery]
    /\ NoAdmission
    /\ UNCHANGED <<source, published, lock, changed, raced, refreshes,
                   publications, cuts>>

(* enqueue accepts the version if it is in the list, else VersionNotFound; the *)
(* operation that follows is in Deploy.                                        *)
DecideDeploy ==
    LET q == query[Deploy] IN
    /\ q.pc = "taken" /\ Store(Deploy)
    /\ admitted' = IF q.want \subseteq q.versions
                   THEN [want |-> q.want, offered |-> q.offered, from |-> q.source,
                         asked |-> source]
                   ELSE Nothing
    /\ query' = [query EXCEPT ![Deploy] = NoQuery]
    /\ lock' = Free
    /\ NoAnswer
    /\ UNCHANGED <<source, published, changed, raced, refreshes, publications,
                   cuts>>

(* An error, or a client that is gone: the entry stays what it was. *)
Fail(h) ==
    /\ query[h].pc # "idle"
    /\ query' = [query EXCEPT ![h] = NoQuery]
    /\ lock' = IF h = Deploy THEN Free ELSE lock
    /\ NoAnswer /\ NoAdmission
    /\ UNCHANGED <<source, published, cache, changed, raced, refreshes,
                   publications, cuts>>

-----------------------------------------------------------------------------
(* refresh_compose: replace_project, and after an await the invalidation. *)
ReplaceProject ==
    /\ lock = Free /\ lock' = Refresher
    /\ refreshes < MaxRefreshes /\ refreshes' = refreshes + 1
    /\ source' \in Sources \ {source} /\ changed' = 0
    /\ NoAnswer /\ NoAdmission
    /\ UNCHANGED <<published, cache, query, raced, publications, cuts>>

(* invalidate_project: retain drops the project's entries, not its queries; a  *)
(* handler that is dropped while it waits for the cache does neither.          *)
Invalidated == NoEntry

Invalidate ==
    /\ lock = Refresher /\ lock' = Free
    /\ \/ /\ cache' = Invalidated
          /\ raced' = (raced \/ \E h \in Pages :
                                   query[h].source \in Sources \ {source})
          /\ UNCHANGED cuts
       \/ /\ cuts < MaxCuts /\ cuts' = cuts + 1
          /\ raced' = TRUE /\ UNCHANGED cache
    /\ NoAnswer /\ NoAdmission
    /\ UNCHANGED <<source, published, query, changed, refreshes, publications>>

(* Tags are pushed to and deleted from the registries. *)
Publish ==
    /\ publications < MaxPublications /\ publications' = publications + 1
    /\ \E s \in Sources, v \in Versions :
          published' = [published EXCEPT ![s] = IF v \in @ THEN @ \ {v}
                                                           ELSE @ \cup {v}]
    /\ query' = [query EXCEPT ![Deploy].offered =
                    IF query[Deploy].pc = "idle" THEN {}
                    ELSE @ \cup published'[query[Deploy].source]]
    /\ NoAnswer /\ NoAdmission
    /\ UNCHANGED <<source, cache, lock, changed, raced, refreshes, cuts>>

Tick ==
    /\ \A h \in Handlers : query[h].elapsed < QueryLimit
    /\ cache' = [cache EXCEPT !.at = IF @ < TTL THEN @ + 1 ELSE @,
                              !.taken = IF cache.at < TTL THEN Later(@) ELSE @]
    /\ query' = [h \in Handlers |->
                   CASE query[h].pc = "idle"   -> NoQuery
                     [] query[h].pc = "asking" -> [query[h] EXCEPT !.elapsed = @ + 1]
                     [] OTHER -> [query[h] EXCEPT !.elapsed = @ + 1,
                                                  !.taken = Later(@)]]
    /\ changed' = Later(changed)
    /\ NoAnswer /\ NoAdmission
    /\ UNCHANGED <<source, published, lock, raced, refreshes, publications,
                   cuts>>

Next ==
    \/ \E h \in Pages, refresh \in BOOLEAN : AskVersions(h, refresh)
    \/ \E h \in Handlers : Take(h) \/ AnswerPage(h) \/ Fail(h)
    \/ \E v \in Versions : AskDeploy(v)
    \/ DecideDeploy \/ ReplaceProject \/ Invalidate \/ Publish \/ Tick

Spec == Init /\ [][Next]_vars

-----------------------------------------------------------------------------
Entry == [versions : SUBSET Versions, from : Sources \cup {NoSource}, at : 0 .. TTL,
          taken : 0 .. Oldest]
Query == [pc : {"idle", "asking", "taken"}, source : Sources \cup {NoSource},
          versions : SUBSET Versions, taken : 0 .. Oldest,
          elapsed : 0 .. QueryLimit, want : SUBSET Versions,
          offered : SUBSET Versions]

Answer == [from : Sources \cup {NoSource}, asked : Sources \cup {NoSource},
           age : 0 .. Oldest, changed : 0 .. Oldest, raced : BOOLEAN]
Admission == [want : SUBSET Versions, offered : SUBSET Versions,
              from : Sources \cup {NoSource}, asked : Sources \cup {NoSource}]

(* Every variable keeps its type; an answer always is of some registry. *)
TypeOK ==
    /\ source \in Sources /\ published \in [Sources -> SUBSET Versions]
    /\ cache \in Entry /\ lock \in {Deploy, Refresher, Free}
    /\ query \in [Handlers -> Query]
    /\ answer \in Answer /\ admitted \in Admission
    /\ answer.from = NoSource <=> answer.asked = NoSource
    /\ changed \in 0 .. Oldest /\ raced \in BOOLEAN
    /\ refreshes \in 0 .. MaxRefreshes /\ publications \in 0 .. MaxPublications
    /\ cuts \in 0 .. MaxCuts

(* A version is accepted for deployment only if the registry of the service,   *)
(* as resolved at that moment, had it at some time during the request: no      *)
(* cached list and no list of an earlier image decides.                        *)
AdmittedExists ==
    admitted.want \subseteq admitted.offered /\ admitted.from = admitted.asked

(* The type invariant with it: what the cache, the queries and the last answer *)
(* are made of.                                                                *)
AdmissionSound == TypeOK /\ AdmittedExists

(* A page is never shown a list that is older than the cache's lifetime and    *)
(* one query, however queries, failures and refreshes interleave; the list of  *)
(* an image the service no longer has disappears in the same time, and is      *)
(* shown only if something of the old image was still in flight when the       *)
(* refresh dropped the cached lists, or the refresh was cut off.               *)
AnswerCurrent ==
    /\ answer.age < TTL + QueryLimit
    /\ answer.from # answer.asked =>
          answer.raced /\ answer.changed < TTL + QueryLimit
=============================================================================
