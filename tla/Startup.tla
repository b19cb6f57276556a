------------------------------- MODULE Startup -------------------------------
(***************************************************************************)
(* The life of the process with several Compose projects: main of          *)
(* src/src/main.rs resolves the entries of config.yaml, validates them,    *)
(* rebuilds the override files, recovers the operations of the process     *)
(* before, and only then serves; systemd starts it again when it fails.    *)
(* The administrator may edit config.yaml and the Compose files at any     *)
(* time: a project that had an operation open may have another name,       *)
(* other services or be gone.  Deploy has the steps of one operation; here *)
(* an operation begins, and ends with or without a new baseline, or its    *)
(* last write of the override fails.                                       *)
(***************************************************************************)
EXTENDS Naturals, FiniteSets

CONSTANTS
    Entries,     \* the lists of compose_files config.yaml may have
    Names,       \* Compose project names
    Services,
    MaxEvents    \* bound: edits of config.yaml and Compose files, crashes, stops
                 \* and storage errors that end main, and operations, together

(* The marks of an entry without a resolution are no Compose project names.  *)
ASSUME StartupAssumption ==
    /\ Names # {} /\ Services # {} /\ MaxEvents \in Nat
    /\ "broken" \notin Names /\ "unresolved" \notin Names

VARIABLES
    config,    \* the entries in config.yaml
    file,      \* what docker compose config says of an entry's files
    open,      \* deployments rows that are queued or running
    based,     \* service_states: <<name, service>> with a baseline
    override,  \* the services each compose.deploy.yaml gives an image
    pc,        \* where main is
    project,   \* Compose.cfg: the resolved entries of this process
    key,       \* the name main put the entry's ProjectRuntime under
    todo,      \* entries, or rows, that the loop main is in has left
    op,        \* what holds the entry's deploy_lock
    unsettled, \* entries whose last writer, an operation or a refresh, was
               \* cut short: their override is not what it should have left
    events

durable == <<config, file, open, based, override>>
vars    == <<durable, pc, project, key, todo, op, unsettled, events>>

Counted == events < MaxEvents /\ events' = events + 1

Begun      == {"deploying", "lifecycle"}   \* running: deploy and rollback; others
Contents   == [name : Names, services : SUBSET Services]
Broken     == [name |-> "broken", services |-> {}]   \* compose config fails
Unresolved == [name |-> "unresolved", services |-> {}]
Row        == [name : Names, service : Services,
               status : {"queued"} \cup Begun]
Idle       == [kind |-> "none"]
Task(r)    == [kind |-> "task", row |-> r]
Refreshing(kind, c) == [kind |-> kind, candidate |-> c]
Holders == {Idle} \cup {Task(r) : r \in open}
           \cup {Refreshing(k, c) : k \in {"resolved", "written"}, c \in Contents}

TypeOK ==
    /\ config \subseteq Entries /\ file \in [Entries -> Contents \cup {Broken}]
    /\ open \subseteq Row /\ based \subseteq Names \X Services
    /\ override \in [Names -> SUBSET Services]
    /\ pc \in {"down", "resolving", "rebuilding", "recovering", "serving", "stopped"}
    /\ project \in [Entries -> Contents \cup {Unresolved}]
    /\ key \in [Entries -> Names \cup {"unresolved"}]
    /\ todo \subseteq IF pc = "recovering" THEN open ELSE Entries
    /\ op \in [Entries -> Holders]
    /\ unsettled \subseteq Entries

Loaded == {e \in Entries : project[e] # Unresolved}

Init ==
    /\ config \in SUBSET Entries /\ file \in [Entries -> Contents]
    /\ open = {} /\ based = {} /\ override = [n \in Names |-> {}]
    /\ pc = "down" /\ todo = {}
    /\ project = [e \in Entries |-> Unresolved]
    /\ key = [e \in Entries |-> "unresolved"]
    /\ op = [e \in Entries |-> Idle] /\ unsettled = {}
    /\ events = 0

(* The process is gone, and its tasks with it; systemd may start another.   *)
Ends(where) ==
    /\ pc' = where /\ todo' = {}
    /\ project' = [e \in Entries |-> Unresolved]
    /\ key' = [e \in Entries |-> "unresolved"]
    /\ op' = [e \in Entries |-> Idle] /\ unsettled' = {}

-----------------------------------------------------------------------------
(* main, up to the listener.                                                *)

(* Config::load; a config.yaml without projects ends main at once. *)
Load ==
    /\ pc = "down" /\ config # {}
    /\ pc' = "resolving" /\ todo' = config
    /\ UNCHANGED <<durable, project, key, op, unsettled, events>>

(* resolve_project *)
Resolve(e) ==
    /\ pc = "resolving" /\ e \in todo
    /\ \/ /\ file[e] # Broken
          /\ project' = [project EXCEPT ![e] = file[e]]
          /\ todo' = todo \ {e}
          /\ UNCHANGED <<pc, key, op, unsettled>>
       \/ file[e] = Broken /\ Ends("down")
    /\ UNCHANGED <<durable, events>>

(* validate_resolved *)
Valid(entries, p) ==
    \A e \in entries :
        /\ p[e].services # {}
        /\ \A f \in entries \ {e} : p[e].name # p[f].name

Validate ==
    /\ pc = "resolving" /\ todo = {}
    /\ \/ /\ Valid(Loaded, project)
          /\ key' = [e \in Entries |-> project[e].name]
          /\ todo' = Loaded /\ pc' = "rebuilding"
          /\ UNCHANGED <<project, op, unsettled>>
       \/ ~Valid(Loaded, project) /\ Ends("down")
    /\ UNCHANGED <<durable, events>>

(* images_from_db: the baselines of the services the project still has. *)
Images(p, state) == {s \in p.services : <<p.name, s>> \in state}

Write(p, services) == override' = [override EXCEPT ![p.name] = services]

(* rebuild_override, one file at a time *)
FaultyRebuildOverride(e) ==
    /\ pc = "rebuilding" /\ e \in todo
    /\ todo' = todo \ {e}
    /\ UNCHANGED <<durable, pc, project, key, op, unsettled, events>>
RebuildOverride(e) ==
    /\ pc = "rebuilding" /\ e \in todo
    /\ Write(project[e], Images(project[e], based))
    /\ todo' = todo \ {e}
    /\ UNCHANGED <<config, file, open, based, pc, project, key, op, unsettled, events>>

(* active_deployments *)
FaultyListOpen ==
    /\ pc = "rebuilding" /\ todo = {}
    /\ pc' = "recovering" /\ todo' = {r \in open : r.status \in Begun}
    /\ UNCHANGED <<durable, project, key, op, unsettled, events>>
ListOpen ==
    /\ pc = "rebuilding" /\ todo = {}
    /\ pc' = "recovering" /\ todo' = open
    /\ UNCHANGED <<durable, project, key, op, unsettled, events>>

Close(r) == open' = open \ {r} /\ todo' = todo \ {r}

(* The entry whose ProjectRuntime the row is of, if its project still exists.  *)
Owners(r) == {e \in Loaded : key[e] = r.name}

Recovered(e, r, state) ==
    /\ based' = state
    /\ Write(project[e], Images(project[e], state))
    /\ Close(r)

(* An operation that had begun is committed or rolled back, and a lifecycle    *)
(* operation only closed; a queued one never touched its service.              *)
FaultyVanished(r) == FALSE
Vanished(r) == \A e \in Owners(r) : r.service \notin project[e].services

RecoverRow(r) ==
    /\ pc = "recovering" /\ r \in todo
    /\ \/ /\ Vanished(r) \/ r.status \in {"queued", "lifecycle"}
          /\ Close(r) /\ UNCHANGED <<based, override>>
       \/ /\ ~Vanished(r) /\ r.status = "deploying"
          /\ \E e \in Owners(r) :
                \/ Recovered(e, r, based)
                \/ Recovered(e, r, based \cup {<<r.name, r.service>>})
                \/ Close(r) /\ UNCHANGED <<based, override>>
    /\ UNCHANGED <<config, file, pc, project, key, op, unsettled, events>>

Serve ==
    /\ pc = "recovering" /\ todo = {}
    /\ pc' = "serving"
    /\ UNCHANGED <<durable, project, key, todo, op, unsettled, events>>

Main == Load \/ Validate \/ ListOpen \/ Serve
        \/ \E e \in Entries : Resolve(e) \/ RebuildOverride(e)
        \/ \E r \in todo : RecoverRow(r)

-----------------------------------------------------------------------------
(* Requests, while the process serves.                                      *)

(* An operation of an entry's project: enqueue and its siblings. *)
Enqueue(e, s) ==
    LET r == [name |-> key[e], service |-> s, status |-> "queued"] IN
    /\ pc = "serving" /\ op[e] = Idle /\ s \in project[e].services
    /\ Counted
    /\ open' = open \cup {r}
    /\ op' = [op EXCEPT ![e] = Task(r)]
    /\ UNCHANGED <<config, file, based, override, pc, project, key, todo, unsettled>>

(* The override of an entry that is written to the end. *)
Settle(e, services) == Write(project[e], services) /\ unsettled' = unsettled \ {e}

(* mark_running, and the override with the image of the operation; of the     *)
(* lifecycle operations recreate rebuilds it, stop and down leave it alone.   *)
Begin(e) ==
    /\ op[e].kind = "task" /\ op[e].row.status = "queued"
    /\ \E status \in Begun :
         LET r == [op[e].row EXCEPT !.status = status] IN
         /\ open' = (open \ {op[e].row}) \cup {r}
         /\ op' = [op EXCEPT ![e] = Task(r)]
         /\ \/ /\ status = "deploying"
               /\ Settle(e, Images(project[e], based) \cup {r.service})
            \/ /\ status = "lifecycle"
               /\ Settle(e, Images(project[e], based)) \/ UNCHANGED <<override, unsettled>>
    /\ UNCHANGED <<config, file, based, pc, project, key, todo, events>>

(* The operation ends, with a new baseline or without: the override is that of *)
(* the baselines, or the rollback fails before it has written it.             *)
Finish(e) ==
    /\ op[e].kind = "task" /\ op[e].row.status \in Begun
    /\ open' = open \ {op[e].row}
    /\ \/ /\ op[e].row.status = "deploying"
          /\ based' \in {based, based \cup {<<op[e].row.name, op[e].row.service>>}}
          /\ Settle(e, Images(project[e], based'))
       \/ /\ op[e].row.status = "deploying"
          /\ unsettled' = unsettled \cup {e}
          /\ UNCHANGED <<based, override>>
       \/ /\ op[e].row.status = "lifecycle"
          /\ UNCHANGED <<based, override, unsettled>>
    /\ op' = [op EXCEPT ![e] = Idle]
    /\ UNCHANGED <<config, file, pc, project, key, todo, events>>

(* refresh_compose takes the permit and resolves the files again ...          *)
FaultyAccepted(e, c) == c # Broken /\ c.services # {}
Accepted(e, c) == c # Broken /\ c.services # {} /\ c.name = project[e].name

RefreshResolve(e) ==
    /\ pc = "serving" /\ op[e] = Idle /\ Accepted(e, file[e])
    /\ op' = [op EXCEPT ![e] = Refreshing("resolved", file[e])]
    /\ UNCHANGED <<durable, pc, project, key, todo, unsettled, events>>

(* ... writes the override of what it found ...                               *)
RefreshWrite(e) ==
    /\ op[e].kind = "resolved"
    /\ Write(op[e].candidate, Images(op[e].candidate, based))
    /\ op' = [op EXCEPT ![e].kind = "written"]
    /\ UNCHANGED <<config, file, open, based, pc, project, key, todo, unsettled, events>>

(* ... and only then has every handler see it.                                *)
RefreshReplace(e) ==
    /\ op[e].kind = "written"
    /\ project' = [project EXCEPT ![e] = op[e].candidate]
    /\ op' = [op EXCEPT ![e] = Idle] /\ unsettled' = unsettled \ {e}
    /\ UNCHANGED <<durable, pc, key, todo, events>>

(* The write fails, or the client is gone and the handler is dropped at an     *)
(* await: before the rename nothing has changed, after it the new override     *)
(* stays beside the old project.                                              *)
RefreshAborts(e) ==
    /\ op[e].kind \in {"resolved", "written"}
    /\ op' = [op EXCEPT ![e] = Idle]
    /\ unsettled' = IF op[e].kind = "written" THEN unsettled \cup {e} ELSE unsettled
    /\ UNCHANGED <<durable, pc, project, key, todo, events>>

Requests == \E e \in Entries :
    (\E s \in Services : Enqueue(e, s)) \/ RefreshResolve(e)

Tasks == \E e \in Entries :
    Begin(e) \/ Finish(e) \/ RefreshWrite(e) \/ RefreshReplace(e) \/ RefreshAborts(e)

-----------------------------------------------------------------------------
(* The administrator and the machine.                                       *)

EditConfig ==
    /\ Counted
    /\ config' \in SUBSET Entries \ {config}
    /\ UNCHANGED <<file, open, based, override, pc, project, key, todo, op, unsettled>>

EditFile(e) ==
    /\ Counted
    /\ \E c \in (Contents \cup {Broken}) \ {file[e]} : file' = [file EXCEPT ![e] = c]
    /\ UNCHANGED <<config, open, based, override, pc, project, key, todo, op, unsettled>>

(* Killed, or a storage error ends main: Restart=on-failure starts it again. *)
Crash ==
    /\ pc \notin {"down", "stopped"}
    /\ Counted
    /\ Ends("down")
    /\ UNCHANGED durable

(* SIGTERM: main returns without waiting for the tasks.                      *)
Stop ==
    /\ pc = "serving"
    /\ Counted
    /\ Ends("stopped")
    /\ UNCHANGED durable

SystemctlStart ==
    /\ pc = "stopped" /\ pc' = "down"
    /\ UNCHANGED <<durable, project, key, todo, op, unsettled, events>>

Environment == EditConfig \/ Crash \/ Stop \/ SystemctlStart
               \/ \E e \in Entries : EditFile(e)

Next == Main \/ Requests \/ Tasks \/ Environment

Spec == Init /\ [][Next]_vars

(* systemd's Restart=on-failure, and main never waits for a request; nobody   *)
(* has to send one, to edit a file, or to start a stopped service.            *)
FairSpec == Spec /\ WF_vars(Main)

-----------------------------------------------------------------------------
(* Two entries never drive the same Compose project: no project has two       *)
(* permits, two override writers or two recoveries, however the files are     *)
(* renamed before a start or before a refresh.                                *)
OneOwner ==
    pc # "resolving" =>
        \A e \in Loaded :
            /\ key[e] = project[e].name
            /\ \A f \in Loaded \ {e} : project[e].name # project[f].name

(* The type invariant with it: no loop of main, row or task is left over.      *)
OwnersSound == TypeOK /\ OneOwner

(* A request is never served while an operation of an earlier process is      *)
(* open: its project may be renamed or gone and its service removed, still    *)
(* the row is closed first.  Otherwise the page shows it running for ever.    *)
RecoveredBeforeServing ==
    pc = "serving" => \A r \in open : \E e \in Entries : op[e] = Task(r)

(* Once an entry's override was rebuilt it names services of the Compose files *)
(* as resolved only, and no service that a refresh or a restart found gone.    *)
OverrideResolved ==
    \A e \in Loaded \ unsettled :
        pc \in {"recovering", "serving"} /\ op[e].kind # "written"
            => override[project[e].name] \subseteq project[e].services

(* A service that is not being operated on has an image in the override       *)
(* exactly if it has a baseline: nothing is left of an operation that did not  *)
(* commit, nor of a process that died.                                        *)
OverrideIsBaseline ==
    pc = "serving" =>
        \A e \in Loaded \ unsettled : op[e] = Idle =>
            override[project[e].name] = Images(project[e], based)

(* Whatever is edited, refreshed, renamed or cut off by the death of the       *)
(* process, the override files are what the projects and the baselines make of *)
(* them.  The exceptions end with the entry's next deploy, rollback, recreate, *)
(* refresh or start: a refresh that was dropped between the rename of the      *)
(* override and replace_project (web.rs:479-483), and an operation whose       *)
(* rollback could not write.                                                   *)
OverrideCurrent == OverrideResolved /\ OverrideIsBaseline

Configured == config # {} /\ Valid(config, file) /\ \A e \in config : file[e] # Broken

(* If the configuration stays sound the process comes to serve, whatever the  *)
(* one before left behind: nothing it left can make every start fail.         *)
EventuallyServes == []<>(~Configured \/ pc \in {"serving", "stopped"})
=============================================================================
