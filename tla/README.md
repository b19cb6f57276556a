# Verification of windplume-deploy

TLA+ models of windplume-deploy, a single-process Rust service that deploys,
rolls back and supervises the services of Docker Compose projects, keeps its
state in SQLite and a generated Compose override, and updates itself through a
root helper. Paths below are relative to the repository root; code locations
of every definition are in `PROJECT.json` ("map").

## 1. Inventory

| component | state | operations | talks to |
|---|---|---|---|
| deployment pipeline, `src/deployment.rs` | one spawned task per operation; the permit it owns | `enqueue`, `enqueue_rollback`, `enqueue_lifecycle`, `run`, `run_revision`, `run_lifecycle`, `rollback`, `recover_interrupted`, `rebuild_override` | storage, compose, registry, runtime cache |
| storage, `src/storage.rs`, `migrations/` | `service_state`, `deployments`, `deployment_artifacts`, `service_revisions` | create (and prune), phases, target, commit, failure, interruption, success, cleanup | SQLite |
| compose, `src/compose.rs` | `compose.deploy.yaml`; `cfg` (the process's view of the project) | pull, up, stop, rm, inspect, health wait, `write_image_override`, `resolve_candidate`, `replace_project` | docker CLI |
| runtime cache, `src/state.rs` | states, last attempt, refreshing, error | snapshot, complete, invalidate, clear | `GET /api/projects`, every operation's end |
| web handlers, `src/web.rs` | CSRF token | HTTP routes; `refresh_compose`, maintenance, `start_update` | everything above |
| update manager, `src/update.rs` | `active`, in-memory status, `update/request`, `candidate`, `candidate.sig` | begin, cancel, status, prepare, stage, wait | GitHub, files |
| update helper, `deploy/windplume-deploy-update` and units | `status.json`, the binary and its backup, a work directory | verify, install, restart, watch, restore | systemd, openssl |
| process, `src/main.rs`, `deploy/windplume-deploy.service` | — | start order, death, restart | systemd |
| system, `src/system.rs` | the permits of all projects while a cleanup runs | overview, image list, image removal, build cache pruning | docker CLI, /proc |
| registry, `src/registry.rs` | version cache | versions, normalize, invalidate | OCI registries |
| config, `src/config.rs`; errors, `src/error.rs` | read once | parse, validate, split image names | files |
| page, `src/assets/app.js` | shown projects, selection, offered version, the operation it polls | load, select, confirm, poll | HTTP |
| `install.sh`, `tests/update-helper.sh` | — | run by hand / in CI | |

**What makes it hard.** An operation is a long chain of awaited calls (SQL,
file renames, docker commands with timeouts) that may die between any two of
them; docker acts in part; the task outlives its request and the process does
not await it. History pruning and cleanup run without the project's lock. The
runtime cache is completed by a background query that knows nothing of the
operations that invalidate the cache. The update is a protocol over files
between two programs, each of which kills, outlives or times out the other.
Replicas change between the two docker commands that observe them. Maintenance
takes the permits of all projects, in two different orders. A start meets what
another process left behind, under files that may have been renamed since. The
page has several requests under way whose answers arrive in any order.

**What makes it correct**, per component:

- pipeline: mutual exclusion on the project; `compose up` never sees a
  half-written plan; only artifacts seen healthy under their image ID become
  baselines; baselines are in order and the newest is the current one; a
  recovery closes every open row exactly once; every operation ends;
- storage: pruning never removes a row in flight; a published result is never
  rewritten; history is bounded;
- runtime cache: one query at a time, bounded staleness, no step back in time,
  the page catches up;
- self-update: only verified versions get installed; the status tells the
  truth about the binary; the backup is the version that ran before; no
  operation runs while the helper swaps binaries; maintenance mode ends;
- maintenance: it excludes everything else, removes no image that somebody
  needs or that is not of the managed repositories, and gives its permits back;
- health wait: a success covers every replica that ran, all run one image, and
  the wait ends in time; recovery and the page judge the same answer alike;
- registry: a version that is deployed existed; what is shown is not too old;
  the list is complete and in one order;
- configuration and start: no project has two owners; nothing of an earlier
  process stays open when the first request is served; the override names what
  the process manages; names are read as docker means them;
- page: the version that is confirmed is one of the confirmed service; the page
  catches up, and polling ends.

The hazards behind these, each at its line, are in `PROJECT.json` ("hazards").

## 2. Plan

| module | what | state |
|---|---|---|
| `Deploy`, `BaselineLog`, `DeployInvariant`, `DeployProofs`, `LogTail` | the pipeline with storage, override, containers, lock, recovery; its abstract log of baselines; the end of a log that is stored | modelled, checked, safety and refinement proved |
| `RuntimeCache`, `RuntimeCacheProofs` | the container-state cache | modelled, checked, safety proved |
| `SelfUpdate`, `SelfUpdateProofs` | manager, helper, systemd, files | modelled, checked, safety proved |
| `Maintenance`, `MaintenanceProofs` | permits over several projects: cleanup of images and build cache, updates; what images are protected | modelled, checked, safety proved |
| `Replicas`, `HealthWait`, `HealthWaitProofs` | `summarize` with its three readers; `wait_healthy_image` over several replicas | modelled, checked, safety proved |
| `RegistryCache`, `VersionList`, `RegistryCacheProofs` | version queries in flight against `invalidate_project`; `normalize` | modelled, checked, safety proved |
| `Startup`, `ImageNames`, `StartupProofs` | the start of the process over edited files, refreshes; `service_from_image`, `repositories_match`, `image_artifact` | modelled, checked, safety proved |
| `Page`, `PageProofs` | the deployment tab of `app.js` | modelled, checked, safety proved |

Composition: `Maintenance` and `Startup` abstract the operation that `Deploy`
has step by step, `HealthWait` opens up `Deploy`'s one step `Check`,
`Maintenance` opens up the one permit of `SelfUpdate`, `RegistryCache` the
version that an operation of `Deploy` begins with. `LogTail`, `VersionList` and
`ImageNames` are pure functions and extend the module of the component that
calls them.

What a theorem could still add: that `Maintenance` and `Startup`, which take an
operation in one or two steps, agree with `Deploy`, which has all of them. The
composition is informal so far.

## 3. Deploy

One Compose project. A step is one awaited call, so that a crash (`Crash`), a
fault (`StorageFails`) or another handler can fall between any two calls.

| TLA+ | code |
|---|---|
| `row` | `deployments` joined with `deployment_artifacts`; ids follow `started_at` |
| `committed`, `revs` | `service_state`, `service_revisions` |
| `override` | `compose.deploy.yaml`: `Base` means no entry, `Tag` the mutable `repository:tag` |
| `managed`, `candidate`, `composeFile` | `Compose::cfg`, the project a refresh resolved, the user's files |
| `container` | image and condition of the service's container |
| `holder` | `deploy_lock`: an operation's id, `Refresher`, or `Free` |
| `task[id]` | the handler, then the spawned task, then recovery of an operation; `pc` is the next call |
| `mode`, `todo` | down, recovering (`recover_interrupted` over `todo`), serving |
| `verified` | history: artifacts each operation saw healthy |

An *artifact* (image, pinned image, digest, image ID) is one element of
`Images`. Deploy runs `stage, pulling, pull, target, pin, starting, up,
checking, check, committing, commit, rebuild`; rollback runs `starting, target,
pin, up, checking, check, committing, commit`; recreate `rebuild, up, check,
finish`; stop and down one command and `finish`. `Handled` says where the error
of each call goes; `Recourse` is `rollback()`. `Daemon` lets docker act while a
command runs, so a command that then fails has acted or not. `Up` returns
success only once the daemon has acted.

Abstractions:

- one project and one container per service; the health wait is one step that
  succeeds on a healthy container with the right image (or fails at any time);
  section 7 has its rounds and its replicas;
- a SQL statement or transaction is one step: `prune` follows `create` as the
  separate statement it is, while the statements inside one transaction, and
  the list of open rows that recovery reads, are atomic;
- the action `Startup` is one step that succeeds (section 9 has the others); a
  CLI killed at its timeout has no daemon activity left after its operation
  moved on;
- logs, versions, messages and time stamps are left out, and so is appending
  container logs to a failed operation;
- a client that disconnects drops the handler's future: it counts as a fault of
  the handler's steps. `is_active()` belongs to `SelfUpdate`;
- `README.md:99-100` says recovery commits a healthy candidate; the code
  requires the phase `checking` or `committing` as well, and so does the model.

| run | bounds | checks |
|---|---|---|
| isolation | 2 services, 1 artifact, 2 operations, 1 crash, 1 edit of the Compose files | `TypeOK`, `PermitExclusive`, `UpIsolated`, `OverrideSettled`, `FullInv` |
| history | 1 service, 2 artifacts, 3 operations, history limit 1, 1 crash, 1 fault | `CommitOrder`, `OpenRowOwned`, `VerifiedBaseline`, `RestoredOnSuccess`, `HistoryBounded`, `ImplementsBaselineLog` |
| live | 1 service, 2 artifacts, 2 operations, 1 crash, 1 manual replacement; texts of 8 bytes | `PermitReturned`, `OperationsFinish`, `TailLongest` |

Why these bounds: interference between services needs two; a wrong baseline
needs two artifacts to tell apart and a rollback needs two commits before it,
hence three operations; history pruning with a limit of one already meets
finished, open and fresh rows at once. A crash and a fault combine in `history`.
Its artifacts are symmetric (`ImageSymmetry`); the run has no fairness.

`FullInv` (module `DeployInvariant`) is the inductive invariant of section 12.
TLC checks it on the instance `isolation`, which has no storage faults and prunes
little, so that for faults and for pruning it rests on the proof: `RowInv` (control
flow, permit, ids, recovery and revisions), `HistoryInv` (which rows are open,
in which order they commit, what was seen before), `PlanInv` (what the override
names at each point of an operation) and `SizeInv` (how many rows there are, and
how many of them nobody works for). Three parts matter by themselves. A live
operation has its open row (`LiveRowOpen`), so no pruning and no cleanup takes it
away; an open row has no revision (`OpenRowUncommitted`), so recovery's insert
never hits the UNIQUE `deployment_id`; `service_state` is the newest revision
(`BaselineIsNewest`), which `previous_revision` relies on.

`FairSpec`: every command has a timeout (`ProcessRunner::run`), so the next step
of a task, a refresh and recovery happens or fails; systemd restarts a dead
process (`Restart=on-failure`) and it comes to serve. There is no fairness on
users, docker, the environment or crashes. `OperationsFinish` is checked without
faults: the code logs a failing last write and leaves the row to the next start.

`BaselineLog` is the abstract specification: each service has an append-only log
of baselines; an operation opens once and ends once, by appending one baseline or
without a trace. `DeployInvariant` maps `next` to `nextId`, `open` to the rows that
`active_deployments` lists, and `log` to the revisions; history pruning, the
override, containers and permits are stutters.

What the properties leave out, because the code does: with a storage fault or a
disconnect a queued row may stay open without a task until the next start, and a
newer operation may then commit first; `OpenRowOwned`, `CommitOrder` and
`OverrideSettled` therefore assume `faults = 0`. `RestoredOnSuccess` assumes that
nobody replaced the container by hand, since `rollback()` does not compare image
IDs.

`LogTail` is `truncate_utf8`, which every final write of an operation goes
through: a text is its length and its character boundaries, and all texts of at
most eight bytes, with characters of one to four bytes, are cut under every
limit from one to five. That reaches a cut at each place inside a character, a
limit below the width of a character, and texts that fit.

## 4. RuntimeCache

Docker's state is a counter, so that staleness is arithmetic. `Snapshot` is the
whole of `RuntimeStateCache::snapshot` with the query `projects` may spawn;
`List` and `Inspect` are the two docker calls of `Compose::runtimes`, of which the
first decides which containers the answer has, so that an answer counts as of
then; `Complete` and `QueryFails` are `complete`; `OperationReports` is the end that the page can see,
`OperationEnds` the later drop of `RuntimeCacheInvalidator`; `ClearCache` is
`refresh_compose`. `Tick` is time; a query ends within `QueryLimit`, the two
timeouts of its docker calls. `Slots` has two places so that a second query
could run if the code let it.

`raced` records that a query whose containers were already listed was under way
when the last operation ended; it is forgotten when docker lists anew.
`RereadUnlessRaced` says that, without such a race, what a page is told is current
was read after the operation's end.

Run `cache`: `BoundedStaleness` and `RereadUnlessRaced` (`TypeOK`, `SingleQuery`
and `NeverBackwards` are proved, section 12), and `CatchesUp` with fairness of the
polling page, of time and of a query's three steps; an error is not fair and
bounded. Maximum age 2, query limit 2, two changes of docker, so that a query can
outlast a change, a clear and an expiry, with one error and one clear. No symmetry, because of fairness.

## 5. SelfUpdate

The manager's task (`task`), any operation that needs a project (`op`), the
process (`running`), the helper (`helper.pc`, one command or group of commands a
step) and the files. Versions are numbers; `candidate` and `sig` hold the
content of a file and the content its signature belongs to, so that a
signature is valid when they are equal and a download may contain anything.
`healthy` is chosen at the start: the versions that stay up. `running` is
`None` while the process is down; an unhealthy binary never stays up.

| run | bounds | checks |
|---|---|---|
| update | versions 0..2, 3 events in all: updates, crashes, kills, failing commands; archives hold what they should or the old version; working unit | `BinariesSound` (`TypeOK`, `InstalledVerified`, `BackupIsPrevious`), `StatusTruthful`, `UpdateExcludesOperations`, `ErrorsRestore`, `MaintenanceEnds` |
| update_silent | 1 update, unit that never starts the helper | `ReleasedWithoutHelper` (violated) |

The ERR trap of the helper is armed until the work directory is gone
(`fail_staged_update` disarms it just before): `CommandErr`,
`WriteErr` and `CleanupErr` are failing commands between any two steps, the
clean-up after `succeeded` included, and lead to `unexpected_failure` (`Trapped`,
`OnErr`), whose own errors are ignored. Those of `restore_previous` and of
`systemctl restart` are tested by the script (`RestoreFails`, `RestartFails`).
`trapped` and `cleaned` say whether the trap has gone off and whether the removal of
the request was tried. A failing `rm` leaves any of the files it did not remove.

Three events are an update with any two accidents, or two updates, the second of
which meets the files of the first, with one; three versions let the second be
newer than the first. Deadlock is not checked: with an unhealthy binary in
place, or all bounds used, the system does stop.

`FairSpec`: the task's awaits have timeouts, `PathExists` starts the helper again
as long as the request exists, the manager is restarted, handlers and operations
end (section 3). There is no fairness on users, crashes, kills and failures.

Assumptions: between a handler's `is_active()` and its permit there is no await,
so the two happen within one of the manager's one-second polls; release
metadata, checksum and archive checks are one step that succeeds or fails;
`latest` and its cache are left out; startup recovery of the manager that the
helper restarted is section 3's and is not composed with this module. The status
that the manager writes is in memory only; the status *file* has one writer, the
helper.

## 6. Maintenance

The permits of several projects at once. `holder` is the `deploy_lock` of each
project; `active` the flag of `UpdateManager`; `rank` an arbitrary order for the
`HashMap` that `start_update` and `protected_images` visit, while
`acquire_maintenance_permits` goes by id. Nobody waits: `Refused` is
`try_acquire_owned`. A cleanup is `StartCleanup`, one `CleanupAcquires` a project,
one `Protect` a project (the current and the rollback image of its services),
`List`, `Count` (which also checks the request of the user against what is
removable now), one `RemoveImage` an image, `ReleaseCleanup`; a request without
images prunes the build cache. `StopCleanup` is an error or a client that is gone,
with the image it was removing gone or not. An update is `StartUpdate`,
`UpdateAcquires`, `EndUpdate`, `ReleaseUpdate`. `ByHand` is an administrator who
starts a container or adds a tag.

Abstractions: of an operation only what touches images is modelled, and a
failure after `up` lets the committed image run again or does not; `is_active()`
is the flag only, since the request file is in `SelfUpdate`; the process does not
crash here (a crash frees all permits and removes nothing); the user does not
pull or remove images with docker. A service that a refresh drops is no longer
protected: that is the code's intent (`web.rs:541`, services of the project).

| run | bounds | checks |
|---|---|---|
| maintenance | 2 projects, 1 cleanup, 2 updates, 1 operation or refresh, 1 image | `MaintenanceExclusive`, `PermitsReturned` (`TypeOK` and `ActiveOwned` are proved) |
| maintenance_images | 2 services, 3 images of 2 repositories, 1 cleanup, 3 operations or refreshes, 1 thing done by hand | `OnlyUnneededRemoved` |

Two projects are the fewest on which two orders differ; two updates are needed
for one to clear the other's flag. A rollback image needs two deployments of one
service, and a foreign image a refresh after one, hence three. `FairSpec`: every
query and command of a handler has a timeout; users do not have to do anything.

## 7. Replicas and HealthWait

`Replicas` is `summarize` of the inspected containers (the set of those that are
not ready, the last of which is the one reported), and its three readers: `Verdict` and `Abnormal` (the health wait), `target_is_healthy`
(recovery), `image_status` (the page). `HealthWait` is the loop of
`wait_healthy_image`: `ListIds` (`docker compose ps -q`, any order, running
containers only), `Inspect` (fails when a listed container is gone), `Conclude`,
`Wake`. `Change` lets a container exit, restart, become healthy or unhealthy,
vanish, or be created with any image between any two of these. `clock` counts
ticks; a command takes up to `CommandLimit`, a sleep `Pause`.

Run `wait`: three containers of which compose created two, three artifacts (the
verified image under its pinned name and under its tag, and an older one without
a healthcheck), waits with and without an expected image id, two changes,
a limit of three ticks; `OkCoversRunning`, `WaitBounded` (with
`TypeOK`), and `JudgementsAgree`, that is `RecoveryAgrees` (recovery and the wait)
and `MatchedMeansAll` (the page). Two changes can
replace a replica, or change one replica in each of two rounds; three containers
allow a third one to appear beside two. The limit lets the wait go through a
second round. `OkCoversRunning` is about replicas that ran all the time: others
may have stopped after they were inspected, and one that exited before the wait
is not listed at all (section 11). `WaitBounded` says that time cannot pass the
deadline by more than one round; `FairSpec` (commands end or are killed, and time
passes) is what makes the wait end then.

## 8. RegistryCache and VersionList

One service: the versions a registry has of it (`published`), its cache entry, the
page's queries (`AskVersions`, `Take`, `AnswerPage`), the forced query of
`enqueue` (`AskDeploy`, `DecideDeploy`), and `refresh_compose`, which replaces the
project's `source` and drops the entries after another await (`ReplaceProject`,
`Invalidate`; a client that is gone cuts it off). Registries change at any time.
A query takes up to `QueryLimit` ticks; an entry lives for `TTL` and carries the
age of the answer it was made of. `FirstPages` is `?n=1000`.

`VersionList` is `normalize` and the latest version that `app.js` offers. A tag is
its place in the order of texts and, if it is a semantic version, its precedence.
The list is said by ranks: its k-th tag is the one that k - 1 others precede.
`VersionAssumption` says that different tags have different texts and are
different versions; the registry answers no build metadata, which is no part of a
tag, and `semver` refuses leading zeros.

Run `registry`: two registries, one version, two page queries, one refresh, one
publication, one cut, `TTL` 2, `QueryLimit` 1: `AdmissionSound` (`TypeOK` and
`AdmittedExists`) and `AnswerCurrent`. Two queries let an
old answer overwrite a new one; two ticks of lifetime have a tick before, at and
after the limit. The page's queries are symmetric. The same run lists every
answer of up to five tags out of six (three releases and pre-releases of
different digits, tags that are no versions, the empty tag), with repetitions:
`ListSound` (the comparison is total, the list complete, its latest version the
highest release). Five tags contain every
triple for which an order could fail to be one, and a repetition.

## 9. Startup and ImageNames

`main` for several entries of `config.yaml`: `Load`, `Resolve` (one entry after the
other), `Validate`, `RebuildOverride`, `ListOpen`, `RecoverRow`, `Serve`; each can
end the process, which systemd starts again. While it serves, operations begin
and end (`Enqueue`, `Begin`, `Finish`), with or without an override of their own,
and `refresh_compose` runs in its three steps or is dropped between them
(`RefreshAborts`). `unsettled` marks an entry whose last writer was cut short: a
refresh dropped after the rename of the override and before `replace_project`, or
an operation whose rollback failed before it wrote. `EditConfig` and `EditFile` change the files at any time: another name,
other services, none, or a file that docker refuses. `open` are the rows in
flight, `based` the services with a baseline, `override` the services each
override names, `key` the name under which `main` put the entry's runtime. A file
that docker refuses and an entry not resolved yet are contents named "broken" and
"unresolved", which no project is (`StartupAssumption`).

Abstractions: what an operation does and how recovery decides is section 3's, so
here recovery commits, restores or closes; a storage error in `enqueue` or in an
operation's own row belongs to section 3 as well, and one during the start is
`Crash`; the checks of
`validate` on limits and paths are the one condition that there is a project.

`ImageNames` is `service_from_image`, `repositories_match` and `image_artifact` on
names that are sequences of words and separators. What docker takes a name for
(`SourceOf`), how it shows it in `RepoDigests` (`Familiar`) and its grammar
(`IsReference`) are external. Every digest is a sha256 one; the filter for others
(`compose.rs:261`) is left out. The grammar leaves out a host that is one only by its
capital letters, and names of one word with a dot in it (section 11).

Run `startup`: two entries, two names, two services, and three events in all,
edits, crashes, stops and operations: `OwnersSound` (`TypeOK` and `OneOwner`), `RecoveredBeforeServing`,
`OverrideCurrent` (`OverrideResolved` and `OverrideIsBaseline`) and
`EventuallyServes`. Two edits can swap the names of two entries, or break a file
and repair it, with a third event before, between or after; an operation, a crash
and an edit leave a row of a project that is no more. `OverrideCurrent` speaks of
the entries that are not `unsettled`. The same run reads 84 names (seven
kinds of host, three paths, with and without tag and digest) and all lists of two
`RepoDigests`: `NamesReadAsDocker` (`SourceOfImage`, `MatchIsSameSource`,
`PinnedInRepository`). Deadlock is not checked: an
unsound configuration, with all events used, does stop it. `FairSpec`: systemd
starts a failed process and `main` waits for no request; nobody has to send one,
to edit a file or to start a stopped service.

## 10. Page

The deployment tab for one project. `server` counts three steps an operation: its
start, its row's last status (`RowEnds`) and the return of its permit
(`PermitReturned`), so that a load in between shows an ended operation and a busy
project; `projects` is the count the shown answer is of. The row that `poll` asks
for may be pruned (`Prune`), or stay without its last status until the next start
(`Recovered`). `LoadProjects`, `AnswerProjects`, `ShowProjects`, `LoadFails` are
`loadProjects` with its flag `projectsLoading`; `SelectService`, `ShowVersions`,
`VersionsFail` are `selectService`; `OpenDialog`, `Confirm` are `confirmDeploy`, whose
dialog is modal, so that meanwhile only timers, answers and `poll` go on;
`PollEnded`, `PollReloads`, `PollSelects` are the rounds of `poll` that change
something. Other users start operations too (`OtherStarts`).

Run `page`: two services, two version queries at once, one operation, one failing
request: `PollSound` (`TypeOK` and `RereadUnlessSkipped`), `OfferWithoutOverlap`,
`PageCatchesUp`, `PollEnds`. Two services and two queries are what it takes for
answers to be confused; one operation has a load before, during and after it.
`PollEnds` excepts the two rows that `poll` waits for in vain (`Lost`).
`FairSpec`: the page is in view, so that its timers run, requests are answered or
fail, and operations end (section 3). A query of `poll` is strongly fair because
the bound on queries, not the code, makes it wait. Failures are bounded: a page
whose every request fails shows nothing new.

## 11. Divergences

Shown by a run:

- `update_silent`: the comment at `update.rs:198-199` promises that maintenance
  mode is released if the helper does not respond. With a `status.json` of an
  earlier update in place the wait ends at its first poll and leaves the request
  file, which keeps maintenance mode on (`update.rs:203-209`).

Met while modelling. Each is a behaviour of the models above that a property had
to exclude:

- README.md:70-71 promises that states are re-read at once after an operation. A
  docker query that has listed the containers when the operation ends
  (`compose.rs:365`) inspects those and completes afterwards, and marks states
  without the new container fresh for up to 55 s (`state.rs:56-67`); and the result
  is visible to the page before the cache is invalidated (`deployment.rs:397-399`).
  `RereadUnlessRaced` therefore excludes a listing under way (`raced`).
- README.md:129-130 promises an attempt to restore a candidate that does not keep
  running. `TimeoutStartSec=120` of the helper's unit is shorter than
  `service_is_stable` may take, a killed helper runs no trap, and its next run
  refuses the already installed version and cleans up (`windplume-deploy-update:186`).
  `ErrorsRestore` therefore assumes that the helper was not killed.
- The same trap undoes an update that has succeeded: it stays armed, with
  `installed=true`, while the helper cleans up (`windplume-deploy-update:215-218`),
  and a failing `rm` there restores the old binary and restarts it
  (`108-121`). `status.json` says `succeeded` meanwhile, and if the request was
  removed before the error, operations are admitted and cut off by that restart.
  `StatusTruthful` and `UpdateExcludesOperations` except this path, and only this.
- README.md:73 says that a refresh re-reads the project. Its handler may be dropped
  with the client between the rename of the override (`compose.rs:114`) and
  `replace_project` (`web.rs:483`): the file is the new project's, the process has
  the old one, and the permit is free. The next deploy, rollback, recreate, refresh
  or start ends it. The same holds after an operation whose rollback could not
  write. `OverrideCurrent` and `OverrideSettled` except both.
- README.md:87 says that all replicas are waited for. `docker compose ps -q`
  (`compose.rs:321-337`) lists running containers only: a replica that exited at
  once is not seen and the wait succeeds on the others. `OkCoversRunning` is
  therefore about replicas that ran.
- README.md:87 says that without a healthcheck running is enough. `healthcheck:
  disable: true` is a `Config.Healthcheck` without a `State.Health`, which
  `compose.rs:433-438` counts as starting until the deployment times out and is
  rolled back.
- README.md:73 says that a refresh recognises images anew. A version query to the
  old repository that is in flight stores its answer after `invalidate_project`
  (`registry.rs:112`), and it is offered for up to the cache's lifetime;
  `AnswerCurrent` shows that there is no other way, `AdmittedExists` that
  nothing is deployed by it.
- README.md:67 says that tags which are no x.y.z can still be selected. Only the
  first page of 1000 tags is read (`registry.rs:159`) and `enqueue` accepts
  nothing else.
- README.md:66 says that services with an `image:` are shown. A name of one word
  with a dot in it, which docker takes for a repository of Docker Hub or a local
  image, is refused (`config.rs:235-239`), and its project with it.
- `app.js:411` heads the list with the selected service. The late answer of a
  service selected before replaces the list and the version that is then
  confirmed for the selected one (`app.js:422-440`); the log dialog guards
  against this (`app.js:647`), the versions do not. `OfferWithoutOverlap`
  assumes that queries do not overlap.
- `poll()` takes every error of `GET /api/deployments/{id}` for a passing one
  (`app.js:570-573`). If the row is pruned between two rounds, by enough requests to
  any projects (`storage.rs:287-299`; `history_limit` may be 1), the answer is 404
  (`web.rs:780-790`) and it asks for ever; a row whose last status could not be
  written says running until the next start. Either way the page confirms nothing
  more until it is loaded anew. `PollEnds` excepts both.
- README.md:71 again, on the page: `poll()` awaits a `loadProjects()` that returns
  at once if another load is under way (`app.js:342`), and then goes on with
  projects read before the end. `RereadUnlessSkipped` records it as `skipped`.

## 12. Proofs

`tlapm` checks every obligation of the eight proof modules; nothing is assumed
beyond the named assumptions on constants (`DeployAssumption`,
`TailAssumption`, `CacheAssumption`, `UpdateAssumption`,
`MaintenanceAssumption`, `WaitAssumption`, `RegistryAssumption`,
`VersionAssumption`, `StartupAssumption`, `ImageNamesAssumption`,
`PageAssumption`), which TLC evaluates in the runs. They type the constants, keep
the special values out of the sets of real ones, and say of tags and image names
what sections 8 and 9 do. Each theorem is about any number of services,
artifacts, versions, entries or replicas, and about any bound on crashes, faults,
edits and requests, so that the bounds of the runs limit none of them. Most
modules have one lemma per action; where an invariant has several
parts, one per action and part.

**DeployProofs** goes in five layers, each inductive given those before it.

1. `SafeInv`: `TypeCorrect` and `PermitIsExclusive`. Neither is inductive: whether
   `Commit` writes a well-typed baseline depends on the task having an artifact,
   and whether a step of a task frees the permit under another one depends on
   its owning it. `ControlOK` says so: each task is at a program point of its own
   kind of operation, works on a service of the project, and has its artifact
   from the point where the code does.
2. `RowInv` adds that ids are fresh, what recovery has left to do, and that a
   live operation has its row.
3. `HistoryInv`: `OpenRowsOwned`, `CommitsInOrder`, `BaselinesVerified`. Without
   faults the open row is the last one (`OpenIsLast`), so a commit is always of
   the highest id so far; what is in hand at the commit was seen healthy.
4. `PlanInv`: `UpRunsIsolated`, `IdleOverrideSettled`, `RestoreReportedTruly`. The
   override is what the baselines make of the project, or that with one entry
   exchanged for the candidate, and the program point of the holder says which;
   a project is replaced only by a refresh, which holds the permit.
5. `SizeInv`: `HistoryStaysBounded`. Pruning leaves the newest `HistoryLimit`
   finished rows and cannot touch open ones. Every open row belongs to a task or
   is an orphan, every orphan cost a fault or a crash, and one task at a time has
   created a row it has not pruned after.

`PipelineFits` is their conjunction `FullInv`. `PipelineImplementsLog` is the
refinement: under `RowInv` a `Create` opens, a `Commit` and a recovering commit
append one baseline and close, every other closing step closes without a trace,
and the rest, `Crash` and the pruning of history included, is a stutter of
`BaselineLog`.

`TailIsLongest` is `truncate_utf8`. The loop is a recursive function, so first a
witness shows that a function with its equation exists; then the least offset at
which its result is no next boundary is refuted, since the loop at that offset
either stops or goes on one byte later.

**RuntimeCacheProofs.** All five safety properties, for any maximum age, timeout
and number of slots, from `CacheInv`: besides the properties themselves, a
query's answer is no older than the query (`AnswersAge`) and lies between what
is shown and what docker runs (`AnswersOrdered`). `NeverBackwards` needs
`SingleQuery`: with two queries the answers could arrive in either order.
`EndIsReread` needs a second invariant, `EndInv`: unless a listing was under way
when the last operation ended, everything that docker has listed since, and
every state stored since then and not expired, is at least as new as that end.

**MaintenanceProofs.** `TypeOK`, `MaintenanceExclusive`, `ActiveOwned` and
`OnlyUnneededRemoved`, from `Inv`. A request owns the permits of the projects it
has left behind (`CleanupPermits`, `UpdatePermits`), an operation the one of its
project (`OpPermits`), so a request at work excludes all others. Hence what a
cleanup has read under its permits is still so (`Snapshots`): the protected set
covers the baselines of every project already visited, the candidates are
disjoint from every baseline and belong to managed repositories, and the
requested images are candidates at every removal.

**SelfUpdateProofs.** `BinariesStaySound`, `StatusIsTruthful`,
`OperationsExcluded`, `ErrorsAreRestored`. `HelperSound` says what the helper has
in its hands before and after the swap: the work copy is verified before it is
announced, the backup is the binary that runs, and the binary is one of the
two. `StatusAnnounced` says that a swapped binary is always behind a status that
announces no success, until the trap of a failed clean-up has put the backup back.
`Maintenance` connects permit, request file and handler: while there is a request
no operation runs, and the helper works without one only after the manager gave up
or after its own clean-up, when it has only its work directory to remove or is in
the trap. `RestoreOwed` says that without a kill the binary is a confirmed one, or
a restore was tried, except between the swap and the script's own trap.

**RegistryCacheProofs.** `AdmissionsSound` and `AnswersCurrent`: a query is never
older than what it has taken, an entry never older than its lifetime and one
query (`EntryCurrent`), and what is no longer of the service's registry was so
until the last refresh, which saw the query under way or still has the permit
(`GoodQuery`). The forced query of a deployment holds the permit
(`DeployCurrent`), so no refresh replaces its registry. `ListIsSound` is about
`normalize`: a comparison that is a total order gives each tag of a finite set
its own number of predecessors, and these are all of 0 .. n - 1 because there
are n of them; the first release in that order is then the highest.

**StartupProofs.** `OwnersAreSound`, `ServesRecovered`, `OverridesCurrent`.
Permits are held only while the process serves, and by what belongs to the
project as it was when they were taken (`HoldersSound`); what recovery has left
is all that is open (`AllListed`); the override of an entry whose last writer came
to its end is what the baselines make of the project, with the service that is
being deployed, or of the candidate whose override a refresh has already written
(`EntriesCurrent`).

`NamesReadSoundly` is about names of any length. A word of a path is no separator,
so the first "@" ends the repository and its tag, and a ":" after the last "/"
is the tag's. Both `repositories_match` and docker give a repository of Docker
Hub one normal form (`NormalForm`), whichever of the four hosts it is written
with, and two names have the same normal form exactly when they have the same
source (`SameForm`): a registry's name has a dot, a port or is `localhost`, which
the first word of a path on Docker Hub is not.

**PageProofs.** `PollIsSound` and `OffersMatch`. Whatever is under way is about a
service; the polled row runs exactly as long as its operation, and a load that
`poll` began was begun after the end it waits for (`LoadInv`); and without an overlap there is one query, of the service selected
(`OneCall`). The selection and the polling are two invariants over disjoint
variables.

**HealthWaitProofs.** `WaitIsBounded`, `OkIsOfAll`, `JudgementsSound`. The last two
rest on lemmas about `summarize`: what its flag, its one image and its status say
of each replica. `SteadyListed` and `SeenCurrent` carry what was listed and
inspected of a replica that ran all the time to the end of the wait; `InTime`
bounds how late each step of a round can be.

Attempts at these proofs changed the models twice. `Handled` of `Deploy` and
`Source` of `ImageNames` were CASE expressions whose guards overlapped: TLC takes
the first, TLA+ any. They are IF chains now, like the code. And what the provers
could not see through was said in another way: `normalize` by ranks instead of
TLC's `SortSeq`, `summarize` by the set of unready replicas instead of a fold,
`image_artifact` by the least place instead of `SelectSeq`.

**Only model-checked:** the liveness properties (`PermitReturned`,
`OperationsFinish`, `CatchesUp`, `MaintenanceEnds`, `PermitsReturned`,
`EventuallyServes`, `PageCatchesUp`, `PollEnds`), since fairness and ENABLED are out
of the prover's reach. `ReleasedWithoutHelper` is refuted, not proved.

## 13. Not modelled

HTTP, authentication and CSRF (a token of one process; a refused request changes
nothing), views, log reading and the log dialog, the overview of `system.rs` (df,
/proc and docker output parsed without state), release metadata and its cache,
error mapping, the tabs of the page that only display an answer, and
installation. What docker, the registries, systemd and GitHub do is modelled
from how the code uses them.

## 14. Running

    tlc -workers 2 -config MCDeployHistory.cfg MCDeploy
    tlapm DeployProofs.tla

`Faulty...` definitions are plausible mistakes (a dropped guard, a forgotten
rollback, an off-by-one); each property is shown to fail with one of them in
place of the definition that follows it. Nothing else uses them.
