---------------------------- MODULE StartupProofs ----------------------------
(***************************************************************************)
(* Proofs about Startup for any entries, Compose projects and services, and *)
(* any number of edits, crashes and operations, and about the image names   *)
(* that it reads, for any names and registries.                             *)
(***************************************************************************)
EXTENDS ImageNames, TLAPS, SequenceTheorems, WellFoundedInduction

Refreshes(e) == op[e].kind \in {"resolved", "written"}

(* Permits are taken only while the process serves; what holds one is of the   *)
(* project as it was when it was taken, which only its own refresh replaces.   *)
HoldersSound ==
    \A e \in Entries : op[e] # Idle =>
        /\ pc = "serving" /\ e \in Loaded
        /\ op[e].kind = "task" => /\ op[e].row.name = key[e]
                                  /\ op[e].row.service \in project[e].services
        /\ Refreshes(e) => op[e].candidate.name = project[e].name

(* recover_interrupted goes through every row that is open. *)
AllListed == pc = "recovering" => todo = open

(* Once main has rebuilt the override of an entry it is what the baselines make *)
(* of the project, or of the candidate whose override a refresh has written; a  *)
(* deploy adds its own service.  Only a writer that was cut short leaves an     *)
(* entry that is not so.                                                        *)
Rebuilt(e) == pc \in {"recovering", "serving"} \/ (pc = "rebuilding" /\ e \notin todo)

Deploying(e) == op[e].kind = "task" /\ op[e].row.status = "deploying"

EntryCurrent(e) ==
    LET p == project[e] IN
    /\ op[e].kind = "written" => override[p.name] = Images(op[e].candidate, based)
    /\ op[e].kind # "written" /\ e \notin unsettled =>
          IF Deploying(e) THEN override[p.name] \subseteq p.services
                          ELSE override[p.name] = Images(p, based)

EntriesCurrent == \A e \in Loaded : Rebuilt(e) => EntryCurrent(e)

Inv ==
    /\ TypeOK
    /\ OneOwner
    /\ HoldersSound
    /\ AllListed
    /\ RecoveredBeforeServing
    /\ EntriesCurrent

-----------------------------------------------------------------------------
(* What holds a permit, and what an entry is resolved to.                   *)

LEMMA Shapes ==
  /\ Idle.kind = "none"
  /\ \A r : Task(r).kind = "task" /\ Task(r).row = r
  /\ \A k, c : Refreshing(k, c).kind = k /\ Refreshing(k, c).candidate = c
BY DEF Idle, Task, Refreshing

LEMMA Resolutions ==
  /\ Unresolved \notin Contents /\ Broken \notin Contents
  /\ Unresolved.services = {} /\ Unresolved.name \notin Names
  /\ \A c \in Contents : c.name \in Names /\ c.services \subseteq Services
BY StartupAssumption DEF Unresolved, Broken, Contents

LEMMA LoadedContents ==
  ASSUME TypeOK, NEW e \in Entries
  PROVE  /\ e \in Loaded <=> project[e] \in Contents
         /\ e \in Loaded => project[e].name \in Names
         /\ \A s \in project[e].services : e \in Loaded /\ s \in Services
         /\ project[e].name \in Names => e \in Loaded
BY Resolutions DEF TypeOK, Loaded

LEMMA HolderKinds ==
  ASSUME TypeOK, NEW e \in Entries
  PROVE  /\ op[e].kind \in {"none", "task", "resolved", "written"}
         /\ op[e].kind = "none" <=> op[e] = Idle
         /\ op[e].kind = "task" => op[e].row \in open /\ op[e] = Task(op[e].row)
         /\ Refreshes(e) => /\ op[e].candidate \in Contents
                            /\ op[e] = Refreshing(op[e].kind, op[e].candidate)
<1>1. op[e] \in Holders
  BY DEF TypeOK
<1>2. CASE op[e] = Idle
  BY <1>2, Shapes DEF Refreshes
<1>3. ASSUME NEW r \in open, op[e] = Task(r)
      PROVE  op[e].kind = "task" /\ op[e].row = r
  BY <1>3, Shapes
<1>4. ASSUME NEW k \in {"resolved", "written"}, NEW c \in Contents,
             op[e] = Refreshing(k, c)
      PROVE  op[e].kind = k /\ op[e].candidate = c
  BY <1>4, Shapes
<1> QED BY <1>1, <1>2, <1>3, <1>4, Shapes DEF Holders, Refreshes

LEMMA NoneHeld ==
  ASSUME Inv, pc # "serving", NEW e \in Entries
  PROVE  op[e] = Idle /\ op[e].kind = "none"
BY Shapes DEF Inv, HoldersSound

LEMMA HoldersOf ==
  ASSUME NEW r \in open
  PROVE  Task(r) \in Holders
BY DEF Holders

(* Holders, while rows come and go. *)
LEMMA HoldersKept ==
  ASSUME TypeOK, NEW e \in Entries,
         op[e].kind = "task" => op[e].row \in open'
  PROVE  op[e] \in Holders'
BY HolderKinds DEF Holders, Refreshes, Contents

LEMMA InitInv == Init => Inv
<1> SUFFICES ASSUME Init PROVE Inv
  OBVIOUS
<1>1. \A e \in Entries : op[e] = Idle /\ project[e] = Unresolved
  BY DEF Init
<1>2. TypeOK
  <2>1. op \in [Entries -> Holders]
    BY DEF Init, Holders
  <2>2. override \in [Names -> SUBSET Services]
    BY DEF Init
  <2> QED BY <2>1, <2>2 DEF Init, TypeOK
<1>3. Loaded = {}
  BY <1>1 DEF Loaded
<1> QED BY <1>1, <1>2, <1>3 DEF Init, Inv, OneOwner, HoldersSound, AllListed,
           RecoveredBeforeServing, EntriesCurrent

LEMMA EndsKeeps ==
  ASSUME Inv, NEW where \in {"down", "stopped"}, Ends(where), UNCHANGED durable
  PROVE  Inv'
<1>1. /\ TypeOK /\ pc' = where /\ todo' = {}
      /\ project' = [e \in Entries |-> Unresolved]
      /\ key' = [e \in Entries |-> "unresolved"]
      /\ op' = [e \in Entries |-> Idle] /\ unsettled' = {}
      /\ UNCHANGED <<config, file, open, based, override>>
  BY DEF Inv, Ends, durable
<1>2. TypeOK'
  <2>1. op' \in [Entries -> Holders']
    BY <1>1 DEF Holders
  <2>2. project' \in [Entries -> Contents \cup {Unresolved}]
    BY <1>1
  <2> QED BY <1>1, <2>1, <2>2 DEF TypeOK, Row, Contents, Broken, Unresolved
<1>3. Loaded' = {}
  BY <1>1 DEF Loaded
<1> QED BY <1>1, <1>2, <1>3 DEF Inv, OneOwner, HoldersSound, AllListed,
           RecoveredBeforeServing, EntriesCurrent

-----------------------------------------------------------------------------
(* main, up to the listener: no permit is taken.                            *)

LEMMA NoneTaken ==
  ASSUME Inv, pc # "serving", UNCHANGED op
  PROVE  /\ op' \in [Entries -> Holders'] /\ HoldersSound'
         /\ \A e \in Entries : op'[e] = Idle /\ op'[e].kind = "none"
<1>1. \A e \in Entries : op'[e] = Idle /\ op'[e].kind = "none"
  BY NoneHeld
<1>2. op' \in [Entries -> Holders']
  BY <1>1 DEF Inv, TypeOK, Holders
<1>3. HoldersSound'
  BY <1>1 DEF HoldersSound
<1> QED BY <1>1, <1>2, <1>3

LEMMA LoadKeeps ==
  ASSUME Inv, Load
  PROVE  Inv'
<1>1. /\ TypeOK /\ pc = "down" /\ pc' = "resolving" /\ todo' = config
      /\ UNCHANGED <<config, file, open, based, override, project, key, op, unsettled>>
  BY DEF Inv, Load, durable
<1>2. op' \in [Entries -> Holders'] /\ HoldersSound'
  BY <1>1, NoneTaken
<1>3. TypeOK'
  BY <1>1, <1>2 DEF TypeOK
<1> QED BY <1>1, <1>2, <1>3 DEF Inv, OneOwner, AllListed, RecoveredBeforeServing,
           EntriesCurrent, Rebuilt

LEMMA ResolveKeeps ==
  ASSUME Inv, NEW e \in Entries, Resolve(e)
  PROVE  Inv'
<1>1. TypeOK /\ pc = "resolving" /\ UNCHANGED durable
  BY DEF Inv, Resolve
<1>2. CASE /\ file[e] # Broken
           /\ project' = [project EXCEPT ![e] = file[e]]
           /\ todo' = todo \ {e}
           /\ UNCHANGED <<pc, key, op, unsettled>>
  <2>1. UNCHANGED <<config, file, open, based, override>>
    BY <1>1 DEF durable
  <2>2. op' \in [Entries -> Holders'] /\ HoldersSound'
    BY <1>1, <1>2, <2>1, NoneTaken
  <2>3. file[e] \in Contents
    BY <1>1, <1>2 DEF TypeOK
  <2>4. project' \in [Entries -> Contents \cup {Unresolved}]
    BY <1>1, <1>2, <2>3 DEF TypeOK
  <2>5. TypeOK'
    BY <1>1, <1>2, <2>1, <2>2, <2>4 DEF TypeOK
  <2> QED BY <1>1, <1>2, <2>1, <2>2, <2>5 DEF Inv, OneOwner, AllListed,
             RecoveredBeforeServing, EntriesCurrent, Rebuilt
<1>3. CASE Ends("down")
  BY <1>1, <1>3, EndsKeeps
<1> QED BY <1>2, <1>3 DEF Resolve

LEMMA ValidateKeeps ==
  ASSUME Inv, Validate
  PROVE  Inv'
<1>1. TypeOK /\ pc = "resolving" /\ UNCHANGED durable
  BY DEF Inv, Validate
<1>2. CASE /\ Valid(Loaded, project)
           /\ key' = [e \in Entries |-> project[e].name]
           /\ todo' = Loaded /\ pc' = "rebuilding"
           /\ UNCHANGED <<project, op, unsettled>>
  <2>1. UNCHANGED <<config, file, open, based, override>>
    BY <1>1 DEF durable
  <2>2. op' \in [Entries -> Holders'] /\ HoldersSound'
    BY <1>1, <1>2, <2>1, NoneTaken
  <2>3. key' \in [Entries -> Names \cup {"unresolved"}]
    <3>1. \A e \in Entries : project[e].name \in Names \cup {"unresolved"}
      BY <1>1, LoadedContents DEF Unresolved, Loaded
    <3> QED BY <1>2, <3>1
  <2>4. Loaded \subseteq Entries /\ Loaded' = Loaded
    BY <1>2 DEF Loaded
  <2>5. TypeOK'
    BY <1>1, <1>2, <2>1, <2>2, <2>3, <2>4 DEF TypeOK
  <2>6. OneOwner'
    BY <1>2, <2>4 DEF OneOwner, Valid
  <2>7. EntriesCurrent'
    BY <1>2, <2>4 DEF EntriesCurrent, Rebuilt
  <2> QED BY <1>2, <2>2, <2>5, <2>6, <2>7 DEF Inv, AllListed, RecoveredBeforeServing
<1>3. CASE Ends("down")
  BY <1>1, <1>3, EndsKeeps
<1> QED BY <1>2, <1>3 DEF Validate

LEMMA ImagesServices ==
  ASSUME NEW p, NEW state
  PROVE  Images(p, state) \subseteq p.services
BY DEF Images

(* write_image_override changes the override of one project. *)
LEMMA WriteOne ==
  ASSUME TypeOK, NEW p, p.name \in Names, NEW S \in SUBSET Services, Write(p, S)
  PROVE  /\ override' \in [Names -> SUBSET Services]
         /\ override'[p.name] = S
         /\ \A n \in Names \ {p.name} : override'[n] = override[n]
BY DEF TypeOK, Write

LEMMA RebuildOverrideKeeps ==
  ASSUME Inv, NEW e \in Entries, RebuildOverride(e)
  PROVE  Inv'
<1>1. /\ TypeOK /\ pc = "rebuilding" /\ e \in todo /\ todo' = todo \ {e}
      /\ Write(project[e], Images(project[e], based))
      /\ UNCHANGED <<config, file, open, based, pc, project, key, op, unsettled>>
  BY DEF Inv, RebuildOverride
<1>2. op' \in [Entries -> Holders'] /\ HoldersSound'
      /\ \A f \in Entries : op[f].kind = "none"
  BY <1>1, NoneTaken, NoneHeld
<1>3. Loaded' = Loaded /\ Loaded \subseteq Entries
  BY <1>1 DEF Loaded
<1>4. CASE e \in Loaded
  <2>1. project[e].name \in Names /\ Images(project[e], based) \in SUBSET Services
    BY <1>1, <1>4, LoadedContents, ImagesServices
  <2>2. /\ override' \in [Names -> SUBSET Services]
        /\ override'[project[e].name] = Images(project[e], based)
        /\ \A n \in Names \ {project[e].name} : override'[n] = override[n]
    BY <1>1, <2>1, WriteOne
  <2>3. TypeOK'
    BY <1>1, <1>2, <2>2 DEF TypeOK
  <2>4. OneOwner'
    BY <1>1, <1>3 DEF Inv, OneOwner
  <2>5. EntriesCurrent'
    <3> SUFFICES ASSUME NEW f \in Loaded, Rebuilt(f)'
                 PROVE  EntryCurrent(f)'
      BY <1>3 DEF EntriesCurrent
    <3>1. CASE f = e
      BY <1>1, <1>2, <1>3, <2>2, <3>1 DEF EntryCurrent, Deploying
    <3>2. CASE f # e
      <4>1. Rebuilt(f) /\ EntryCurrent(f)
        BY <1>1, <3>2 DEF Rebuilt, Inv, EntriesCurrent
      <4>2. project[f].name \in Names \ {project[e].name}
        BY <1>1, <1>3, <1>4, <3>2, LoadedContents DEF Inv, OneOwner
      <4> QED BY <1>1, <1>2, <1>3, <2>2, <4>1, <4>2 DEF EntryCurrent, Deploying
    <3> QED BY <3>1, <3>2
  <2> QED BY <1>1, <1>2, <2>3, <2>4, <2>5 DEF Inv, AllListed, RecoveredBeforeServing
<1>5. CASE e \notin Loaded
  <2>1. override' = override
    BY <1>1, <1>5, Resolutions DEF Write, Loaded, TypeOK
  <2>2. TypeOK'
    BY <1>1, <1>2, <2>1 DEF TypeOK
  <2>3. OneOwner'
    BY <1>1, <1>3 DEF Inv, OneOwner
  <2>4. EntriesCurrent'
    BY <1>1, <1>3, <1>5, <2>1 DEF Inv, EntriesCurrent, Rebuilt, EntryCurrent, Deploying
  <2> QED BY <1>1, <1>2, <2>2, <2>3, <2>4 DEF Inv, AllListed, RecoveredBeforeServing
<1> QED BY <1>4, <1>5

LEMMA ListOpenKeeps ==
  ASSUME Inv, ListOpen
  PROVE  Inv'
<1>1. /\ TypeOK /\ pc = "rebuilding" /\ todo = {} /\ pc' = "recovering" /\ todo' = open
      /\ UNCHANGED <<config, file, open, based, override, project, key, op, unsettled>>
  BY DEF Inv, ListOpen, durable
<1>2. op' \in [Entries -> Holders'] /\ HoldersSound'
  BY <1>1, NoneTaken
<1>3. Loaded' = Loaded
  BY <1>1 DEF Loaded
<1>4. TypeOK'
  BY <1>1, <1>2 DEF TypeOK
<1>5. OneOwner'
  BY <1>1, <1>3 DEF Inv, OneOwner
<1>6. EntriesCurrent'
  BY <1>1, <1>3 DEF Inv, EntriesCurrent, Rebuilt, EntryCurrent, Deploying
<1> QED BY <1>1, <1>2, <1>4, <1>5, <1>6 DEF Inv, AllListed, RecoveredBeforeServing

(* The override of an entry's project is written anew, with its baselines.  *)
LEMMA OthersCurrent ==
  ASSUME Inv, NEW e \in Loaded, pc \in {"recovering", "serving"},
         NEW p, p.name = project[e].name, NEW S \in SUBSET Services, Write(p, S),
         \E s : based' \in {based, based \cup {<<p.name, s>>}},
         UNCHANGED <<pc, project>>,
         \A g \in Entries \ {e} : op'[g] = op[g],
         unsettled \subseteq unsettled' \cup {e},
         NEW f \in Loaded \ {e}
  PROVE  EntryCurrent(f)'
<1>1. /\ TypeOK /\ e \in Entries /\ f \in Entries /\ Rebuilt(f)
      /\ project[e].name \in Names /\ project[f].name \in Names
  BY LoadedContents DEF Inv, Loaded, Rebuilt
<1>2. project[f].name # p.name
  BY <1>1 DEF Inv, OneOwner
<1>3. override'[project[f].name] = override[project[f].name]
  BY <1>1, <1>2, WriteOne
<1>4. Images(project[f], based') = Images(project[f], based)
  BY <1>2 DEF Images
<1>5. Refreshes(f) => op[f].candidate.name = project[f].name
  BY <1>1, HolderKinds, Shapes DEF Inv, HoldersSound, Refreshes
<1>6. Refreshes(f) => Images(op[f].candidate, based') = Images(op[f].candidate, based)
  BY <1>2, <1>5 DEF Images
<1>7. EntryCurrent(f) /\ op'[f] = op[f] /\ project' = project
  BY <1>1 DEF Inv, EntriesCurrent
<1> QED BY <1>3, <1>4, <1>6, <1>7 DEF EntryCurrent, Deploying, Refreshes, Images

LEMMA RecoverRowKeeps ==
  ASSUME Inv, NEW r \in todo, RecoverRow(r)
  PROVE  Inv'
<1>1. /\ TypeOK /\ pc = "recovering" /\ todo = open /\ r \in open /\ Close(r)
      /\ UNCHANGED <<config, file, pc, project, key, op, unsettled>>
  BY DEF Inv, AllListed, RecoverRow, Recovered
<1>2. op' \in [Entries -> Holders'] /\ HoldersSound'
      /\ \A f \in Entries : op'[f] = op[f] /\ op[f].kind = "none"
  BY <1>1, NoneTaken, NoneHeld
<1>3. /\ Loaded' = Loaded /\ Loaded \subseteq Entries
      /\ open' = open \ {r} /\ todo' = open'
  BY <1>1 DEF Loaded, Close
<1>4. OneOwner'
  BY <1>1, <1>3 DEF Inv, OneOwner
<1>5. CASE UNCHANGED <<based, override>>
  <2>1. TypeOK'
    BY <1>1, <1>2, <1>3, <1>5 DEF TypeOK
  <2>2. EntriesCurrent'
    BY <1>1, <1>3, <1>5 DEF Inv, EntriesCurrent, Rebuilt, EntryCurrent, Deploying
  <2> QED BY <1>1, <1>2, <1>3, <1>4, <2>1, <2>2 DEF Inv, AllListed, RecoveredBeforeServing
<1>6. ASSUME NEW e \in Owners(r), NEW state, Recovered(e, r, state),
             state \in {based, based \cup {<<r.name, r.service>>}}
      PROVE  Inv'
  <2>1. /\ e \in Loaded /\ e \in Entries /\ project[e].name = r.name
        /\ project[e].name \in Names
    BY <1>1, LoadedContents DEF Owners, Loaded, Inv, OneOwner
  <2>2. /\ based' = state /\ r \in Row
        /\ Write(project[e], Images(project[e], state))
        /\ Images(project[e], state) \in SUBSET Services
    BY <1>1, <1>6, <2>1, LoadedContents, ImagesServices DEF Recovered, TypeOK
  <2>3. /\ override' \in [Names -> SUBSET Services]
        /\ override'[project[e].name] = Images(project[e], state)
    BY <1>1, <2>1, <2>2, WriteOne
  <2>4. based' \subseteq Names \X Services
    BY <1>1, <1>6, <2>2 DEF TypeOK, Row
  <2>5. TypeOK'
    BY <1>1, <1>2, <1>3, <2>3, <2>4 DEF TypeOK
  <2>6. EntryCurrent(e)'
    BY <1>1, <1>2, <2>1, <2>2, <2>3 DEF EntryCurrent, Deploying, Images
  <2>7. ASSUME NEW f \in Loaded \ {e} PROVE EntryCurrent(f)'
    <3> DEFINE p == project[e]
               S == Images(p, state)
    <3>1. /\ p.name = project[e].name /\ S \in SUBSET Services /\ Write(p, S)
          /\ \E s : based' \in {based, based \cup {<<p.name, s>>}}
          /\ UNCHANGED <<pc, project, unsettled>> /\ pc \in {"recovering", "serving"}
          /\ \A g \in Entries \ {e} : op'[g] = op[g]
      BY <1>1, <1>2, <1>6, <2>1, <2>2
    <3> HIDE DEF p, S
    <3> QED BY <2>1, <3>1, OthersCurrent
  <2>8. EntriesCurrent'
    BY <1>3, <2>6, <2>7 DEF EntriesCurrent
  <2> QED BY <1>1, <1>2, <1>3, <1>4, <2>5, <2>8 DEF Inv, AllListed, RecoveredBeforeServing
<1> QED BY <1>5, <1>6 DEF RecoverRow

LEMMA ServeKeeps ==
  ASSUME Inv, Serve
  PROVE  Inv'
<1>1. /\ TypeOK /\ pc = "recovering" /\ todo = {} /\ open = {} /\ pc' = "serving"
      /\ UNCHANGED <<config, file, open, based, override, project, key, todo, op, unsettled>>
  BY DEF Inv, AllListed, Serve, durable
<1>2. op' \in [Entries -> Holders'] /\ HoldersSound'
  BY <1>1, NoneTaken
<1>3. Loaded' = Loaded
  BY <1>1 DEF Loaded
<1>4. TypeOK'
  BY <1>1, <1>2 DEF TypeOK
<1>5. OneOwner'
  BY <1>1, <1>3 DEF Inv, OneOwner
<1>6. EntriesCurrent'
  BY <1>1, <1>3 DEF Inv, EntriesCurrent, Rebuilt, EntryCurrent, Deploying
<1> QED BY <1>1, <1>2, <1>4, <1>5, <1>6 DEF Inv, AllListed, RecoveredBeforeServing

-----------------------------------------------------------------------------
(* Requests and the tasks they start: one entry's permit each.              *)

LEMMA RowsApart ==
  ASSUME Inv, NEW e \in Entries, op[e].kind = "task",
         NEW g \in Entries \ {e}, op[g].kind = "task"
  PROVE  op[g].row # op[e].row
<1>1. op[e] # Idle /\ op[g] # Idle
  BY Shapes
<1>2. /\ pc = "serving" /\ e \in Loaded /\ g \in Loaded
      /\ op[e].row.name = key[e] /\ op[g].row.name = key[g]
  BY <1>1 DEF Inv, HoldersSound
<1> QED BY <1>2 DEF Inv, OneOwner

(* A step that only changes what holds the permit of one entry, and its row.  *)
LEMMA OneHolder ==
  ASSUME Inv, NEW e \in Entries, NEW h \in Holders',
         op' = [op EXCEPT ![e] = h],
         \A g \in Entries \ {e} : op[g].kind = "task" => op[g].row \in open'
  PROVE  /\ op' \in [Entries -> Holders'] /\ op'[e] = h
         /\ \A g \in Entries \ {e} : op'[g] = op[g]
<1>1. op \in [Entries -> Holders] /\ TypeOK
  BY DEF Inv, TypeOK
<1>2. \A g \in Entries \ {e} : op[g] \in Holders'
  BY <1>1, HoldersKept
<1> QED BY <1>1, <1>2

LEMMA EnqueueKeeps ==
  ASSUME Inv, NEW e \in Entries, NEW s \in Services, Enqueue(e, s)
  PROVE  Inv'
<1> DEFINE r == [name |-> key[e], service |-> s, status |-> "queued"]
<1>1. /\ TypeOK /\ pc = "serving" /\ op[e] = Idle /\ s \in project[e].services
      /\ open' = open \cup {r} /\ op' = [op EXCEPT ![e] = Task(r)]
      /\ UNCHANGED <<config, file, based, override, pc, project, key, todo, unsettled>>
  BY DEF Inv, Enqueue
<1>2. /\ e \in Loaded /\ key[e] = project[e].name /\ key[e] \in Names
  BY <1>1, LoadedContents DEF Inv, OneOwner
<1>3. r \in Row /\ r.name = key[e] /\ r.service = s
  BY <1>2 DEF Row
<1> HIDE DEF r
<1>4. /\ op' \in [Entries -> Holders'] /\ op'[e] = Task(r)
      /\ \A g \in Entries \ {e} : op'[g] = op[g]
  <2>1. Task(r) \in Holders'
    BY <1>1 DEF Holders
  <2>2. \A g \in Entries : op[g].kind = "task" => op[g].row \in open'
    BY <1>1, HolderKinds
  <2> QED BY <1>1, <2>1, <2>2, OneHolder
<1>5. TypeOK'
  BY <1>1, <1>3, <1>4 DEF TypeOK
<1>6. Loaded' = Loaded /\ Loaded \subseteq Entries
  BY <1>1 DEF Loaded
<1>7. OneOwner'
  BY <1>1, <1>6 DEF Inv, OneOwner
<1>8. op'[e].kind = "task" /\ op'[e].row = r
  BY <1>4, Shapes
<1>9. HoldersSound'
  BY <1>1, <1>2, <1>3, <1>4, <1>6, <1>8 DEF Inv, HoldersSound, Refreshes
<1>10. RecoveredBeforeServing'
  <2> SUFFICES ASSUME NEW q \in open' PROVE \E f \in Entries : op'[f] = Task(q)
    BY DEF RecoveredBeforeServing
  <2>1. CASE q = r
    BY <1>4, <2>1
  <2>2. CASE q \in open
    <3>1. PICK f \in Entries : op[f] = Task(q)
      BY <1>1, <2>2 DEF Inv, RecoveredBeforeServing
    <3>2. f # e
      BY <1>1, <3>1, Shapes
    <3> QED BY <1>4, <3>1, <3>2
  <2> QED BY <1>1, <2>1, <2>2
<1>11. EntriesCurrent'
  <2> SUFFICES ASSUME NEW f \in Loaded PROVE EntryCurrent(f)'
    BY <1>6 DEF EntriesCurrent
  <2>1. EntryCurrent(f)
    BY <1>1 DEF Inv, EntriesCurrent, Rebuilt
  <2>2. CASE f = e
    <3>1. e \in unsettled \/ override[project[e].name] = Images(project[e], based)
      BY <1>1, <2>1, <2>2, Shapes DEF EntryCurrent, Deploying
    <3> QED BY <1>1, <1>8, <2>2, <3>1, ImagesServices DEF EntryCurrent, Deploying
  <2>3. CASE f # e
    BY <1>1, <1>4, <1>6, <2>1, <2>3 DEF EntryCurrent, Deploying, Images
  <2> QED BY <2>2, <2>3
<1> QED BY <1>1, <1>5, <1>7, <1>9, <1>10, <1>11 DEF Inv, AllListed

(* The task of an entry, with its row. *)
LEMMA RunningTask ==
  ASSUME Inv, NEW e \in Entries, op[e].kind = "task"
  PROVE  /\ pc = "serving" /\ e \in Loaded
         /\ op[e].row \in open /\ op[e].row \in Row
         /\ op[e].row.name = project[e].name /\ project[e].name = key[e]
         /\ op[e].row.service \in project[e].services
         /\ project[e].name \in Names /\ project[e].services \subseteq Services
         /\ \A q \in open \ {op[e].row} : \E f \in Entries \ {e} : op[f] = Task(q)
<1>1. TypeOK /\ op[e] # Idle
  BY Shapes DEF Inv
<1>2. /\ pc = "serving" /\ e \in Loaded /\ op[e].row.name = key[e]
      /\ op[e].row.service \in project[e].services
  BY <1>1 DEF Inv, HoldersSound
<1>3. op[e].row \in open /\ op[e].row \in Row /\ op[e] = Task(op[e].row)
  BY <1>1, HolderKinds DEF TypeOK
<1>4. project[e].name = key[e]
  BY <1>2 DEF Inv, OneOwner
<1>5. project[e].name \in Names /\ project[e].services \subseteq Services
  BY <1>1, <1>2, LoadedContents
<1>6. ASSUME NEW q \in open \ {op[e].row}
      PROVE  \E f \in Entries \ {e} : op[f] = Task(q)
  <2>1. PICK f \in Entries : op[f] = Task(q)
    BY <1>2 DEF Inv, RecoveredBeforeServing
  <2>2. f # e
    BY <2>1, Shapes
  <2> QED BY <2>1, <2>2
<1> QED BY <1>2, <1>3, <1>4, <1>5, <1>6

LEMMA BeginKeeps ==
  ASSUME Inv, NEW e \in Entries, Begin(e)
  PROVE  Inv'
<1> DEFINE S == Images(project[e], based)
<1>1. PICK status, r :
         /\ status \in Begun /\ r = [op[e].row EXCEPT !.status = status]
         /\ open' = (open \ {op[e].row}) \cup {r} /\ op' = [op EXCEPT ![e] = Task(r)]
         /\ \/ Settle(e, IF status = "deploying" THEN S \cup {r.service} ELSE S)
            \/ UNCHANGED <<override, unsettled>> /\ status # "deploying"
  BY DEF Begin
<1>2. /\ TypeOK /\ op[e].kind = "task" /\ op[e].row.status = "queued"
      /\ UNCHANGED <<config, file, based, pc, project, key, todo>>
  BY DEF Inv, Begin
<1>3. /\ pc = "serving" /\ e \in Loaded
      /\ op[e].row \in open /\ op[e].row \in Row
      /\ op[e].row.name = project[e].name /\ project[e].name = key[e]
      /\ op[e].row.service \in project[e].services
      /\ project[e].name \in Names /\ project[e].services \subseteq Services
  BY <1>2, RunningTask
<1>4. r \in Row /\ r.name = key[e] /\ r.service = op[e].row.service
  BY <1>1, <1>3 DEF Row
<1>5. S \subseteq project[e].services /\ S \cup {r.service} \subseteq project[e].services
  BY <1>3, <1>4, ImagesServices
<1> HIDE DEF S
<1>6. /\ op' \in [Entries -> Holders'] /\ op'[e] = Task(r)
      /\ \A g \in Entries \ {e} : op'[g] = op[g]
  <2>1. Task(r) \in Holders'
    BY <1>1 DEF Holders
  <2>2. \A g \in Entries \ {e} : op[g].kind = "task" => op[g].row \in open'
    BY <1>1, <1>2, HolderKinds, RowsApart
  <2> QED BY <1>1, <2>1, <2>2, OneHolder
<1>7. op'[e].kind = "task" /\ op'[e].row = r /\ r.status = status
  BY <1>1, <1>3, <1>6, Shapes DEF Row
<1>8. /\ override' \in [Names -> SUBSET Services]
      /\ unsettled' \subseteq Entries /\ EntryCurrent(e)'
      /\ \A f \in Loaded \ {e} : EntryCurrent(f)'
  <2>1. CASE Settle(e, IF status = "deploying" THEN S \cup {r.service} ELSE S)
    <3>1. PICK T : T = IF status = "deploying" THEN S \cup {r.service} ELSE S
      OBVIOUS
    <3>2. /\ Write(project[e], T) /\ unsettled' = unsettled \ {e}
          /\ T \subseteq project[e].services /\ T \in SUBSET Services
      BY <1>3, <1>5, <2>1, <3>1 DEF Settle
    <3>3. override' \in [Names -> SUBSET Services] /\ override'[project[e].name] = T
      BY <1>2, <1>3, <3>2, WriteOne
    <3>4. EntryCurrent(e)'
      BY <1>2, <1>7, <3>1, <3>2, <3>3 DEF EntryCurrent, Deploying, S, Images
    <3>5. ASSUME NEW f \in Loaded \ {e} PROVE EntryCurrent(f)'
      <4>1. PICK p : p = project[e]
        OBVIOUS
      <4>2. /\ p.name = project[e].name /\ Write(p, T)
            /\ \E s : based' \in {based, based \cup {<<p.name, s>>}}
        BY <1>2, <3>2, <4>1
      <4> QED BY <1>2, <1>3, <1>6, <3>2, <4>2, OthersCurrent
    <3> QED BY <1>2, <3>2, <3>3, <3>4, <3>5 DEF TypeOK
  <2>2. CASE UNCHANGED <<override, unsettled>> /\ status # "deploying"
    <3>1. \A f \in Loaded : EntryCurrent(f)
      BY <1>3 DEF Inv, EntriesCurrent, Rebuilt
    <3>2. EntryCurrent(e)'
      BY <1>2, <1>3, <1>7, <2>2, <3>1 DEF EntryCurrent, Deploying, Images
    <3>3. ASSUME NEW f \in Loaded \ {e} PROVE EntryCurrent(f)'
      <4>1. f \in Entries /\ op'[f] = op[f] /\ EntryCurrent(f)
        BY <1>6, <3>1 DEF Loaded
      <4> QED BY <1>2, <2>2, <4>1 DEF EntryCurrent, Deploying, Images
    <3> QED BY <1>2, <2>2, <3>2, <3>3 DEF TypeOK
  <2> QED BY <1>1, <2>1, <2>2
<1>9. TypeOK'
  BY <1>1, <1>2, <1>3, <1>4, <1>6, <1>8 DEF TypeOK
<1>10. Loaded' = Loaded /\ Loaded \subseteq Entries
  BY <1>2 DEF Loaded
<1>11. OneOwner'
  BY <1>2, <1>10 DEF Inv, OneOwner
<1>12. HoldersSound'
  BY <1>2, <1>3, <1>4, <1>6, <1>7, <1>10 DEF Inv, HoldersSound, Refreshes
<1>13. RecoveredBeforeServing'
  <2> SUFFICES ASSUME NEW q \in open' PROVE \E f \in Entries : op'[f] = Task(q)
    BY DEF RecoveredBeforeServing
  <2>1. CASE q = r
    BY <1>6, <2>1
  <2>2. CASE q \in open \ {op[e].row}
    BY <1>2, <1>6, <2>2, RunningTask
  <2> QED BY <1>1, <2>1, <2>2
<1>14. EntriesCurrent'
  BY <1>8, <1>10 DEF EntriesCurrent
<1> QED BY <1>2, <1>3, <1>9, <1>11, <1>12, <1>13, <1>14 DEF Inv, AllListed

LEMMA FinishKeeps ==
  ASSUME Inv, NEW e \in Entries, Finish(e)
  PROVE  Inv'
<1>1. PICK r, S : r = op[e].row /\ S = Images(project[e], based')
  OBVIOUS
<1>2. /\ TypeOK /\ op[e].kind = "task" /\ op[e].kind # "written"
      /\ open' = open \ {r} /\ op' = [op EXCEPT ![e] = Idle]
      /\ UNCHANGED <<config, file, pc, project, key, todo>>
  BY <1>1 DEF Inv, Finish
<1>3. \/ based' \in {based, based \cup {<<r.name, r.service>>}} /\ Settle(e, S)
      \/ UNCHANGED <<based, override>> /\ unsettled' = unsettled \cup {e}
      \/ UNCHANGED <<based, override, unsettled>> /\ ~Deploying(e)
  BY <1>1 DEF Finish, Deploying
<1>4. /\ pc = "serving" /\ e \in Loaded /\ r \in Row
      /\ r.name = project[e].name
      /\ project[e].name \in Names /\ project[e].services \subseteq Services
  BY <1>1, <1>2, RunningTask
<1>5. S \subseteq project[e].services /\ S \in SUBSET Services
  BY <1>1, <1>4, ImagesServices
<1>6. /\ op' \in [Entries -> Holders'] /\ op'[e] = Idle /\ op'[e].kind = "none"
      /\ \A g \in Entries \ {e} : op'[g] = op[g]
  <2>1. Idle \in Holders'
    BY DEF Holders
  <2>2. \A g \in Entries \ {e} : op[g].kind = "task" => op[g].row \in open'
    BY <1>1, <1>2, HolderKinds, RowsApart
  <2> QED BY <1>2, <2>1, <2>2, OneHolder, Shapes
<1>7. /\ based' \subseteq Names \X Services
      /\ \E s : based' \in {based, based \cup {<<project[e].name, s>>}}
  <2>1. based' \in {based, based \cup {<<r.name, r.service>>}}
    BY <1>3
  <2> QED BY <1>2, <1>4, <2>1 DEF TypeOK, Row
<1>8. /\ override' \in [Names -> SUBSET Services]
      /\ unsettled' \subseteq Entries /\ EntryCurrent(e)'
      /\ \A f \in Loaded \ {e} : EntryCurrent(f)'
  <2>1. CASE Settle(e, S)
    <3>1. Write(project[e], S) /\ unsettled' = unsettled \ {e}
      BY <2>1 DEF Settle
    <3>2. override' \in [Names -> SUBSET Services] /\ override'[project[e].name] = S
      BY <1>2, <1>4, <1>5, <3>1, WriteOne
    <3>3. EntryCurrent(e)'
      BY <1>1, <1>2, <1>6, <3>2 DEF EntryCurrent, Deploying, Images
    <3>4. ASSUME NEW f \in Loaded \ {e} PROVE EntryCurrent(f)'
      <4>1. PICK p : p = project[e]
        OBVIOUS
      <4>2. /\ p.name = project[e].name /\ Write(p, S)
            /\ \E s : based' \in {based, based \cup {<<p.name, s>>}}
        BY <1>7, <3>1, <4>1
      <4> QED BY <1>2, <1>4, <1>5, <1>6, <3>1, <4>2, OthersCurrent
    <3> QED BY <1>2, <3>1, <3>2, <3>3, <3>4 DEF TypeOK
  <2>2. CASE UNCHANGED <<based, override>> /\
             (unsettled' = unsettled \cup {e} \/ (unsettled' = unsettled /\ ~Deploying(e)))
    <3>1. \A f \in Loaded : EntryCurrent(f)
      BY <1>4 DEF Inv, EntriesCurrent, Rebuilt
    <3>2. EntryCurrent(e)'
      BY <1>2, <1>4, <1>6, <2>2, <3>1 DEF EntryCurrent, Deploying, Images
    <3>3. ASSUME NEW f \in Loaded \ {e} PROVE EntryCurrent(f)'
      <4>1. f \in Entries /\ op'[f] = op[f] /\ EntryCurrent(f) /\ (f \in unsettled' <=> f \in unsettled)
        BY <1>6, <2>2, <3>1 DEF Loaded
      <4> QED BY <1>2, <2>2, <4>1 DEF EntryCurrent, Deploying, Images
    <3> QED BY <1>2, <2>2, <3>2, <3>3 DEF TypeOK
  <2> QED BY <1>3, <2>1, <2>2
<1>9. TypeOK'
  BY <1>2, <1>4, <1>6, <1>7, <1>8 DEF TypeOK
<1>10. Loaded' = Loaded /\ Loaded \subseteq Entries
  BY <1>2 DEF Loaded
<1>11. OneOwner'
  BY <1>2, <1>10 DEF Inv, OneOwner
<1>12. HoldersSound'
  BY <1>2, <1>6, <1>10 DEF Inv, HoldersSound, Refreshes
<1>13. RecoveredBeforeServing'
  <2> SUFFICES ASSUME NEW q \in open' PROVE \E f \in Entries : op'[f] = Task(q)
    BY DEF RecoveredBeforeServing
  <2>1. PICK f \in Entries \ {e} : op[f] = Task(q)
    BY <1>1, <1>2, RunningTask
  <2> QED BY <1>6, <2>1
<1>14. EntriesCurrent'
  BY <1>8, <1>10 DEF EntriesCurrent
<1> QED BY <1>2, <1>4, <1>9, <1>11, <1>12, <1>13, <1>14 DEF Inv, AllListed

-----------------------------------------------------------------------------
(* refresh_compose.                                                         *)

LEMMA RefreshResolveKeeps ==
  ASSUME Inv, NEW e \in Entries, RefreshResolve(e)
  PROVE  Inv'
<1> DEFINE h == Refreshing("resolved", file[e])
<1>1. /\ TypeOK /\ pc = "serving" /\ op[e] = Idle
      /\ file[e] \in Contents /\ file[e].name = project[e].name
      /\ op' = [op EXCEPT ![e] = h]
      /\ UNCHANGED <<config, file, open, based, override, pc, project, key, todo, unsettled>>
  BY DEF Inv, TypeOK, RefreshResolve, Accepted, durable
<1>2. e \in Loaded
  BY <1>1, LoadedContents, Resolutions
<1>3. h.kind = "resolved" /\ h.candidate = file[e] /\ h \in Holders'
  BY <1>1, Shapes DEF Holders, Contents
<1> HIDE DEF h
<1>4. /\ op' \in [Entries -> Holders'] /\ op'[e] = h
      /\ \A g \in Entries \ {e} : op'[g] = op[g]
  <2>1. \A g \in Entries : op[g].kind = "task" => op[g].row \in open'
    BY <1>1, HolderKinds
  <2> QED BY <1>1, <1>3, <2>1, OneHolder
<1>5. TypeOK'
  BY <1>1, <1>4 DEF TypeOK
<1>6. Loaded' = Loaded /\ Loaded \subseteq Entries
  BY <1>1 DEF Loaded
<1>7. OneOwner'
  BY <1>1, <1>6 DEF Inv, OneOwner
<1>8. HoldersSound'
  BY <1>1, <1>2, <1>3, <1>4, <1>6 DEF Inv, HoldersSound, Refreshes
<1>9. RecoveredBeforeServing'
  <2> SUFFICES ASSUME NEW q \in open PROVE \E f \in Entries : op'[f] = Task(q)
    BY <1>1 DEF RecoveredBeforeServing
  <2>1. PICK f \in Entries : op[f] = Task(q)
    BY <1>1 DEF Inv, RecoveredBeforeServing
  <2> QED BY <1>1, <1>4, <2>1, Shapes
<1>10. EntriesCurrent'
  <2> SUFFICES ASSUME NEW f \in Loaded PROVE EntryCurrent(f)'
    BY <1>6 DEF EntriesCurrent
  <2>1. EntryCurrent(f)
    BY <1>1 DEF Inv, EntriesCurrent, Rebuilt
  <2>2. op'[f] = op[f] \/ (f = e /\ op'[f] = h)
    BY <1>4, <1>6
  <2>3. CASE op'[f] = op[f]
    BY <1>1, <2>1, <2>3 DEF EntryCurrent, Deploying, Images
  <2>4. CASE f = e /\ op'[f] = h
    <3>1. e \in unsettled \/ override[project[e].name] = Images(project[e], based)
      BY <1>1, <2>1, <2>4, Shapes DEF EntryCurrent, Deploying
    <3> QED BY <1>1, <1>3, <2>4, <3>1 DEF EntryCurrent, Deploying, Images
  <2> QED BY <2>2, <2>3, <2>4
<1> QED BY <1>1, <1>5, <1>7, <1>8, <1>9, <1>10 DEF Inv, AllListed

LEMMA RefreshWriteKeeps ==
  ASSUME Inv, NEW e \in Entries, RefreshWrite(e)
  PROVE  Inv'
<1>1. PICK c, h, S : /\ c = op[e].candidate /\ h = Refreshing("written", c)
                     /\ S = Images(c, based)
  OBVIOUS
<1>2. /\ TypeOK /\ op[e].kind = "resolved" /\ op[e] # Idle /\ Refreshes(e)
      /\ op[e] = Refreshing("resolved", c) /\ c \in Contents
      /\ Write(c, S)
      /\ op' = [op EXCEPT ![e].kind = "written"]
      /\ UNCHANGED <<config, file, open, based, pc, project, key, todo, unsettled>>
  BY <1>1, HolderKinds, Shapes DEF Inv, RefreshWrite, Refreshes
<1>3. op' = [op EXCEPT ![e] = h]
  <2>1. op' = [op EXCEPT ![e] = [op[e] EXCEPT !.kind = "written"]]
    BY <1>2
  <2>2. op[e] = [kind |-> "resolved", candidate |-> c]
    BY <1>2 DEF Refreshing
  <2>3. [op[e] EXCEPT !.kind = "written"] = h
    BY <1>1, <2>2 DEF Refreshing
  <2> QED BY <2>1, <2>3
<1>4. pc = "serving" /\ e \in Loaded /\ c.name = project[e].name
  BY <1>1, <1>2 DEF Inv, HoldersSound
<1>5. h.kind = "written" /\ h.candidate = c /\ h \in Holders'
  BY <1>1, <1>2, Shapes DEF Holders, Contents
<1>6. S \in SUBSET Services /\ c.name \in Names
  BY <1>1, <1>2, Resolutions, ImagesServices
<1>7. /\ op' \in [Entries -> Holders'] /\ op'[e] = h
      /\ \A g \in Entries \ {e} : op'[g] = op[g]
  <2>1. \A g \in Entries : op[g].kind = "task" => op[g].row \in open'
    BY <1>2, HolderKinds
  <2> QED BY <1>3, <1>5, <2>1, OneHolder
<1>8. override' \in [Names -> SUBSET Services] /\ override'[c.name] = S
  BY <1>2, <1>6, WriteOne
<1>9. TypeOK'
  BY <1>2, <1>7, <1>8 DEF TypeOK
<1>10. Loaded' = Loaded /\ Loaded \subseteq Entries
  BY <1>2 DEF Loaded
<1>11. OneOwner'
  BY <1>2, <1>10 DEF Inv, OneOwner
<1>12. HoldersSound'
  BY <1>2, <1>4, <1>5, <1>7, <1>10 DEF Inv, HoldersSound, Refreshes
<1>13. RecoveredBeforeServing'
  <2> SUFFICES ASSUME NEW q \in open PROVE \E f \in Entries : op'[f] = Task(q)
    BY <1>2 DEF RecoveredBeforeServing
  <2>1. PICK f \in Entries : op[f] = Task(q)
    BY <1>4 DEF Inv, RecoveredBeforeServing
  <2> QED BY <1>2, <1>7, <2>1, Shapes
<1>14. EntryCurrent(e)'
  <2>1. Images(c, based)' = S
    BY <1>1, <1>2 DEF Images
  <2> QED BY <1>2, <1>4, <1>5, <1>7, <1>8, <2>1 DEF EntryCurrent, Deploying, Images
<1>15. ASSUME NEW f \in Loaded \ {e} PROVE EntryCurrent(f)'
  BY <1>2, <1>4, <1>6, <1>7, OthersCurrent
<1>16. EntriesCurrent'
  BY <1>10, <1>14, <1>15 DEF EntriesCurrent
<1> QED BY <1>2, <1>4, <1>9, <1>11, <1>12, <1>13, <1>16 DEF Inv, AllListed

LEMMA RefreshReplaceKeeps ==
  ASSUME Inv, NEW e \in Entries, RefreshReplace(e)
  PROVE  Inv'
<1>1. PICK c : c = op[e].candidate
  OBVIOUS
<1>2. /\ TypeOK /\ op[e].kind = "written" /\ op[e] # Idle /\ Refreshes(e)
      /\ c \in Contents
      /\ project' = [project EXCEPT ![e] = c]
      /\ op' = [op EXCEPT ![e] = Idle] /\ unsettled' = unsettled \ {e}
      /\ UNCHANGED <<config, file, open, based, override, pc, key, todo>>
  BY <1>1, HolderKinds, Shapes DEF Inv, RefreshReplace, Refreshes, durable
<1>3. pc = "serving" /\ e \in Loaded /\ c.name = project[e].name
  BY <1>1, <1>2 DEF Inv, HoldersSound
<1>4. /\ op' \in [Entries -> Holders'] /\ op'[e] = Idle
      /\ \A g \in Entries \ {e} : op'[g] = op[g]
  <2>1. \A g \in Entries : op[g].kind = "task" => op[g].row \in open'
    BY <1>2, HolderKinds
  <2>2. Idle \in Holders'
    BY DEF Holders
  <2> QED BY <1>2, <2>1, <2>2, OneHolder
<1>5. /\ project' \in [Entries -> Contents \cup {Unresolved}]
      /\ project'[e] = c /\ \A g \in Entries \ {e} : project'[g] = project[g]
  BY <1>2 DEF TypeOK
<1>6. TypeOK'
  BY <1>2, <1>4, <1>5 DEF TypeOK
<1>7. Loaded' = Loaded /\ Loaded \subseteq Entries
  BY <1>2, <1>3, <1>5, Resolutions DEF Loaded
<1>8. \A g \in Entries : project'[g].name = project[g].name
  BY <1>3, <1>5
<1>9. OneOwner'
  BY <1>2, <1>7, <1>8 DEF Inv, OneOwner
<1>10. HoldersSound'
  BY <1>2, <1>4, <1>5, <1>7 DEF Inv, HoldersSound, Refreshes
<1>11. RecoveredBeforeServing'
  <2> SUFFICES ASSUME NEW q \in open PROVE \E f \in Entries : op'[f] = Task(q)
    BY <1>2 DEF RecoveredBeforeServing
  <2>1. PICK f \in Entries : op[f] = Task(q)
    BY <1>3 DEF Inv, RecoveredBeforeServing
  <2> QED BY <1>2, <1>4, <2>1, Shapes
<1>12. EntriesCurrent'
  <2> SUFFICES ASSUME NEW f \in Loaded PROVE EntryCurrent(f)'
    BY <1>7 DEF EntriesCurrent
  <2>1. EntryCurrent(f)
    BY <1>3 DEF Inv, EntriesCurrent, Rebuilt
  <2>2. CASE f = e
    <3>1. override[c.name] = Images(c, based)
      BY <1>1, <1>2, <1>3, <2>1, <2>2 DEF EntryCurrent, Deploying
    <3> QED BY <1>2, <1>4, <1>5, <2>2, <3>1, Shapes DEF EntryCurrent, Deploying, Images
  <2>3. CASE f # e
    BY <1>2, <1>4, <1>5, <1>7, <2>1, <2>3 DEF EntryCurrent, Deploying, Images
  <2> QED BY <2>2, <2>3
<1> QED BY <1>2, <1>3, <1>6, <1>9, <1>10, <1>11, <1>12 DEF Inv, AllListed

LEMMA RefreshAbortsKeeps ==
  ASSUME Inv, NEW e \in Entries, RefreshAborts(e)
  PROVE  Inv'
<1>1. /\ TypeOK /\ op[e].kind \in {"resolved", "written"} /\ op[e] # Idle
      /\ op' = [op EXCEPT ![e] = Idle]
      /\ unsettled \subseteq unsettled' /\ unsettled' \subseteq unsettled \cup {e}
      /\ op[e].kind = "written" => e \in unsettled'
      /\ UNCHANGED <<config, file, open, based, override, pc, project, key, todo>>
  BY Shapes DEF Inv, RefreshAborts, durable
<1>2. pc = "serving" /\ e \in Loaded
  BY <1>1 DEF Inv, HoldersSound
<1>3. /\ op' \in [Entries -> Holders'] /\ op'[e] = Idle
      /\ \A g \in Entries \ {e} : op'[g] = op[g]
  <2>1. \A g \in Entries : op[g].kind = "task" => op[g].row \in open'
    BY <1>1, HolderKinds
  <2>2. Idle \in Holders'
    BY DEF Holders
  <2> QED BY <1>1, <2>1, <2>2, OneHolder
<1>4. TypeOK'
  BY <1>1, <1>3 DEF TypeOK
<1>5. Loaded' = Loaded /\ Loaded \subseteq Entries
  BY <1>1 DEF Loaded
<1>6. OneOwner'
  BY <1>1, <1>5 DEF Inv, OneOwner
<1>7. HoldersSound'
  BY <1>1, <1>3, <1>5 DEF Inv, HoldersSound, Refreshes
<1>8. RecoveredBeforeServing'
  <2> SUFFICES ASSUME NEW q \in open PROVE \E f \in Entries : op'[f] = Task(q)
    BY <1>1 DEF RecoveredBeforeServing
  <2>1. PICK f \in Entries : op[f] = Task(q)
    BY <1>2 DEF Inv, RecoveredBeforeServing
  <2> QED BY <1>1, <1>3, <2>1, Shapes
<1>9. EntriesCurrent'
  <2> SUFFICES ASSUME NEW f \in Loaded PROVE EntryCurrent(f)'
    BY <1>5 DEF EntriesCurrent
  <2>1. EntryCurrent(f)
    BY <1>2 DEF Inv, EntriesCurrent, Rebuilt
  <2>2. CASE f = e
    BY <1>1, <1>3, <2>1, <2>2, Shapes DEF EntryCurrent, Deploying, Images
  <2>3. CASE f # e
    <3>1. op'[f] = op[f] /\ (f \in unsettled' <=> f \in unsettled)
      BY <1>1, <1>3, <1>5, <2>3
    <3> QED BY <1>1, <2>1, <3>1 DEF EntryCurrent, Deploying, Images
  <2> QED BY <2>2, <2>3
<1> QED BY <1>1, <1>2, <1>4, <1>6, <1>7, <1>8, <1>9 DEF Inv, AllListed

-----------------------------------------------------------------------------
(* The administrator and the machine.                                       *)

(* What is edited is read by the next start, or the next refresh. *)
LEMMA EditKeeps ==
  ASSUME Inv, config' \subseteq Entries,
         file' \in [Entries -> Contents \cup {Broken}],
         UNCHANGED <<open, based, override, pc, project, key, todo, op, unsettled>>
  PROVE  Inv'
<1>1. TypeOK'
  BY DEF Inv, TypeOK, Row, Contents, Unresolved, Holders
<1>2. OneOwner' /\ HoldersSound' /\ AllListed' /\ RecoveredBeforeServing'
  BY DEF Inv, OneOwner, HoldersSound, AllListed, RecoveredBeforeServing, Refreshes, Loaded
<1>3. EntriesCurrent'
  BY DEF Inv, EntriesCurrent, Rebuilt, EntryCurrent, Deploying, Loaded, Images
<1> QED BY <1>1, <1>2, <1>3 DEF Inv

LEMMA EditConfigKeeps ==
  ASSUME Inv, EditConfig
  PROVE  Inv'
<1>1. /\ config' \subseteq Entries /\ file' \in [Entries -> Contents \cup {Broken}]
      /\ UNCHANGED <<open, based, override, pc, project, key, todo, op, unsettled>>
  BY DEF EditConfig, Inv, TypeOK
<1> QED BY <1>1, EditKeeps

LEMMA EditFileKeeps ==
  ASSUME Inv, NEW e \in Entries, EditFile(e)
  PROVE  Inv'
<1>1. PICK c \in Contents \cup {Broken} : file' = [file EXCEPT ![e] = c]
  BY DEF EditFile
<1>2. /\ config' \subseteq Entries /\ file' \in [Entries -> Contents \cup {Broken}]
      /\ UNCHANGED <<open, based, override, pc, project, key, todo, op, unsettled>>
  BY <1>1 DEF EditFile, Inv, TypeOK
<1> QED BY <1>2, EditKeeps

LEMMA SystemctlStartKeeps ==
  ASSUME Inv, SystemctlStart
  PROVE  Inv'
<1>1. /\ TypeOK /\ pc = "stopped" /\ pc' = "down"
      /\ UNCHANGED <<config, file, open, based, override, project, key, todo, op, unsettled>>
  BY DEF Inv, SystemctlStart, durable
<1>2. op' \in [Entries -> Holders'] /\ HoldersSound'
  BY <1>1, NoneTaken
<1>3. TypeOK'
  BY <1>1, <1>2 DEF TypeOK
<1>4. OneOwner'
  BY <1>1 DEF Inv, OneOwner, Loaded
<1> QED BY <1>1, <1>2, <1>3, <1>4 DEF Inv, AllListed, RecoveredBeforeServing,
           EntriesCurrent, Rebuilt

LEMMA NextInv == Inv /\ [Next]_vars => Inv'
<1> SUFFICES ASSUME Inv, [Next]_vars PROVE Inv'
  OBVIOUS
<1>1. CASE Main
  BY <1>1, LoadKeeps, ValidateKeeps, ListOpenKeeps, ServeKeeps, ResolveKeeps,
     RebuildOverrideKeeps, RecoverRowKeeps DEF Main
<1>2. CASE Requests
  BY <1>2, EnqueueKeeps, RefreshResolveKeeps DEF Requests
<1>3. CASE Tasks
  BY <1>3, BeginKeeps, FinishKeeps, RefreshWriteKeeps, RefreshReplaceKeeps,
     RefreshAbortsKeeps DEF Tasks
<1>4. CASE Environment
  <2>1. CASE Crash \/ Stop
    BY <2>1, EndsKeeps DEF Crash, Stop
  <2>2. CASE EditConfig \/ SystemctlStart \/ \E e \in Entries : EditFile(e)
    BY <2>2, EditConfigKeeps, SystemctlStartKeeps, EditFileKeeps
  <2> QED BY <1>4, <2>1, <2>2 DEF Environment
<1>5. CASE UNCHANGED vars
  <2>1. /\ config' \subseteq Entries /\ file' \in [Entries -> Contents \cup {Broken}]
        /\ UNCHANGED <<open, based, override, pc, project, key, todo, op, unsettled>>
    BY <1>5 DEF Inv, TypeOK, vars, durable
  <2> QED BY <2>1, EditKeeps
<1> QED BY <1>1, <1>2, <1>3, <1>4, <1>5 DEF Next

(* The permits, the rows, the loops of main and the override files fit         *)
(* together after every step: edits, refreshes that are dropped at any await,   *)
(* operations whose rollback fails, crashes and storage errors of main.         *)
THEOREM StartupFits == Spec => []Inv
BY InitInv, NextInv, PTL DEF Spec

(* No two entries ever drive the same Compose project, for any number of       *)
(* entries, renames, refreshes and restarts.                                   *)
THEOREM OwnersAreSound == Spec => []OwnersSound
<1>1. Inv => OwnersSound
  BY DEF Inv, OwnersSound
<1> QED BY <1>1, StartupFits, PTL

(* While requests are served every open row belongs to a task of this process: *)
(* recover_interrupted has closed all the earlier ones, of projects and        *)
(* services that are gone as well.                                             *)
THEOREM ServesRecovered == Spec => []RecoveredBeforeServing
<1>1. Inv => RecoveredBeforeServing
  BY DEF Inv
<1> QED BY <1>1, StartupFits, PTL

(* The override of every project names services it has, and without a deploy   *)
(* exactly those with a baseline, from the rebuild of the start on; except      *)
(* while a refresh has written but not replaced the project, and after a writer *)
(* was cut short (a refresh dropped there, a rollback that could not write).    *)
THEOREM OverridesCurrent == Spec => []OverrideCurrent
<1>1. Inv => OverrideCurrent
  <2> SUFFICES ASSUME Inv PROVE OverrideCurrent
    OBVIOUS
  <2>1. ASSUME NEW e \in Loaded, pc \in {"recovering", "serving"}
        PROVE  /\ e \in Entries /\ EntryCurrent(e)
               /\ op[e].kind \in {"none", "task", "resolved", "written"}
    BY <2>1, HolderKinds DEF Inv, EntriesCurrent, Rebuilt, Loaded
  <2>2. OverrideResolved
    BY <2>1, ImagesServices DEF OverrideResolved, EntryCurrent, Deploying
  <2>3. OverrideIsBaseline
    BY <2>1, Shapes DEF OverrideIsBaseline, EntryCurrent, Deploying
  <2> QED BY <2>2, <2>3 DEF OverrideCurrent
<1> QED BY <1>1, StartupFits, PTL

-----------------------------------------------------------------------------
(* The names of images (ImageNames): places of separators.                  *)

LEMMA GreatestPlace ==
  ASSUME NEW n \in Nat, NEW S \in SUBSET (0 .. n), S # {}
  PROVE  Max(S) \in S /\ \A y \in S : y <= Max(S)
<1> DEFINE T == {d \in Nat : \E y \in S : d = n - y}
<1>1. T \subseteq Nat /\ T # {}
  <2>1. PICK y \in S : TRUE
    OBVIOUS
  <2>2. n - y \in T
    BY <2>1
  <2> QED BY <2>2
<1>2. \A y \in S : n - y \in T
  OBVIOUS
<1>3. \A d \in T : \E y \in S : d = n - y
  OBVIOUS
<1> HIDE DEF T
<1>4. PICK d \in T : \A e \in T : ~(<<e, d>> \in OpToRel(<, Nat))
  BY <1>1, NatLessThanWellFounded, WFMin
<1>5. \A e \in T : ~(e < d)
  BY <1>1, <1>4 DEF OpToRel
<1>6. PICK m \in S : d = n - m
  BY <1>3
<1>7. \A y \in S : m >= y
  BY <1>2, <1>5, <1>6
<1> QED BY <1>7 DEF Max

LEMMA LeastPlace ==
  ASSUME NEW S \in SUBSET Nat, NEW m \in S, \A y \in S : m <= y
  PROVE  Min(S) = m
<1>1. Min(S) \in S /\ \A y \in S : Min(S) <= y
  BY DEF Min
<1>2. PICK k \in S : k = Min(S)
  BY <1>1
<1>3. k <= m /\ m <= k /\ k \in Nat /\ m \in Nat
  BY <1>1, <1>2
<1> QED BY <1>2, <1>3

LEMMA FirstIsFirst ==
  ASSUME NEW s \in Seq(Words), NEW sep, NEW k \in 1 .. Len(s), s[k] = sep,
         \A j \in 1 .. k - 1 : s[j] # sep
  PROVE  FirstAt(s, sep) = k
<1> DEFINE S == Places(s, sep) \cup {Len(s) + 1}
<1>1. DOMAIN s = 1 .. Len(s) /\ Len(s) \in Nat
  BY LenProperties
<1>2. S \in SUBSET Nat /\ k \in S
  BY <1>1 DEF Places
<1>3. \A y \in S : k <= y
  BY <1>1 DEF Places
<1> HIDE DEF S
<1>4. Min(S) = k
  BY <1>2, <1>3, LeastPlace
<1> QED BY <1>4 DEF S, FirstAt

LEMMA NoFirst ==
  ASSUME NEW s \in Seq(Words), NEW sep, \A j \in 1 .. Len(s) : s[j] # sep
  PROVE  /\ FirstAt(s, sep) = Len(s) + 1 /\ UpTo(s, FirstAt(s, sep)) = s
         /\ LastAt(s, sep) = 0
<1>1. DOMAIN s = 1 .. Len(s) /\ Len(s) \in Nat
  BY LenProperties
<1>2. Places(s, sep) = {}
  BY <1>1 DEF Places
<1>3. FirstAt(s, sep) = Len(s) + 1
  <2>1. Min({Len(s) + 1}) = Len(s) + 1
    BY <1>1, LeastPlace
  <2> QED BY <1>2, <2>1 DEF FirstAt
<1>4. UpTo(s, Len(s) + 1) = s
  BY <1>1, SubSeqFull DEF UpTo
<1>5. LastAt(s, sep) = 0
  <2>1. Max({0}) = 0
    BY DEF Max
  <2> QED BY <1>2, <2>1 DEF LastAt
<1> QED BY <1>3, <1>4, <1>5

LEMMA LastPlace ==
  ASSUME NEW s \in Seq(Words), NEW sep
  PROVE  /\ LastAt(s, sep) \in 0 .. Len(s)
         /\ LastAt(s, sep) # 0 => s[LastAt(s, sep)] = sep
         /\ \A k \in 1 .. Len(s) : s[k] = sep => k <= LastAt(s, sep)
<1> DEFINE S == Places(s, sep) \cup {0}
<1>1. DOMAIN s = 1 .. Len(s) /\ Len(s) \in Nat
  BY LenProperties
<1>2. S \in SUBSET (0 .. Len(s)) /\ S # {}
  BY <1>1 DEF Places
<1>3. \A k \in 1 .. Len(s) : s[k] = sep => k \in S
  BY <1>1 DEF Places
<1>4. \A k \in S : k = 0 \/ s[k] = sep
  BY DEF Places
<1> HIDE DEF S
<1>5. Max(S) \in S /\ \A y \in S : y <= Max(S)
  BY <1>1, <1>2, GreatestPlace
<1>6. LastAt(s, sep) = Max(S)
  BY DEF S, LastAt
<1> QED BY <1>2, <1>3, <1>4, <1>5, <1>6

LEMMA OneWord ==
  ASSUME NEW w \in Words
  PROVE  <<w>> \in Seq(Words) /\ Len(<<w>>) = 1 /\ <<w>>[1] = w
<1>1. <<w>>[1] = w /\ Len(<<w>>) = 1
  OBVIOUS
<1>2. <<w>> = [i \in 1 .. 1 |-> w]
  OBVIOUS
<1>3. \A i \in 1 .. 1 : w \in Words
  OBVIOUS
<1>4. <<w>> \in [1 .. 1 -> Words]
  BY <1>2
<1>5. <<w>> \in Seq(Words)
  BY <1>4, SeqDef
<1> QED BY <1>1, <1>5

LEMMA TwoWords ==
  ASSUME NEW v \in Words, NEW w \in Words
  PROVE  <<v>> \o <<w>> = <<v, w>>
<1>1. PICK s : s = <<v, w>>
  OBVIOUS
<1>2. PICK t : t = <<v>> \o <<w>>
  OBVIOUS
<1>3. s \in Seq(Words) /\ Len(s) = 2 /\ s[1] = v /\ s[2] = w
  <2>1. s = [i \in 1 .. 2 |-> IF i = 1 THEN v ELSE w]
    BY <1>1
  <2>2. s \in [1 .. 2 -> Words]
    BY <2>1
  <2>3. s \in Seq(Words)
    BY <2>2, SeqDef
  <2> QED BY <1>1, <2>3
<1>4. /\ <<v>> \in Seq(Words) /\ Len(<<v>>) = 1 /\ <<v>>[1] = v
      /\ <<w>> \in Seq(Words) /\ Len(<<w>>) = 1 /\ <<w>>[1] = w
  BY OneWord
<1>5. t \in Seq(Words) /\ Len(t) = 2 /\ t[1] = v /\ t[2] = w
  BY <1>2, <1>4, ConcatProperties
<1>6. \A i \in 1 .. 2 : s[i] = t[i]
  BY <1>3, <1>5
<1>7. s = t
  BY <1>3, <1>5, <1>6, SeqEqual
<1> QED BY <1>1, <1>2, <1>7

(* Two sequences put together. *)
LEMMA Joined ==
  ASSUME NEW s \in Seq(Words), NEW t \in Seq(Words)
  PROVE  /\ s \o t \in Seq(Words) /\ Len(s \o t) = Len(s) + Len(t)
         /\ Len(s) \in Nat /\ Len(t) \in Nat
         /\ \A i \in 1 .. Len(s) : (s \o t)[i] = s[i]
         /\ \A i \in 1 .. Len(t) : (s \o t)[Len(s) + i] = t[i]
         /\ UpTo(s \o t, Len(s) + 1) = s
<1>1. /\ s \o t \in Seq(Words) /\ Len(s \o t) = Len(s) + Len(t)
      /\ Len(s) \in Nat /\ Len(t) \in Nat
      /\ \A i \in 1 .. Len(s) + Len(t) :
            (s \o t)[i] = IF i <= Len(s) THEN s[i] ELSE t[i - Len(s)]
  BY ConcatProperties, LenProperties
<1>2. \A i \in 1 .. Len(s) : (s \o t)[i] = s[i]
  BY <1>1
<1>3. \A i \in 1 .. Len(t) : (s \o t)[Len(s) + i] = t[i]
  BY <1>1
<1>4. UpTo(s \o t, Len(s) + 1) = s
  <2>1. PICK u : u = SubSeq(s \o t, 1, Len(s))
    OBVIOUS
  <2>2. \A i \in 1 .. Len(s) : (s \o t)[i] \in Words
    BY <1>2, ElementOfSeq
  <2>3. /\ u \in Seq(Words) /\ Len(u) = Len(s)
        /\ \A i \in 1 .. Len(s) : u[i] = (s \o t)[i]
    BY <1>1, <2>1, <2>2, SubSeqProperties
  <2>4. u = s
    BY <1>2, <2>3, SeqEqual
  <2> QED BY <1>1, <2>1, <2>4 DEF UpTo
<1> QED BY <1>1, <1>2, <1>3, <1>4

(* ... with a separator between them. *)
LEMMA Separated ==
  ASSUME NEW s \in Seq(Words), NEW sep \in Words, NEW t \in Seq(Words)
  PROVE  /\ (s \o <<sep>>) \o t = s \o (<<sep>> \o t)
         /\ (s \o <<sep>>) \o t \in Seq(Words)
         /\ Len((s \o <<sep>>) \o t) = Len(s) + 1 + Len(t)
         /\ Len(s) \in Nat /\ Len(t) \in Nat
         /\ \A i \in 1 .. Len(s) : ((s \o <<sep>>) \o t)[i] = s[i]
         /\ ((s \o <<sep>>) \o t)[Len(s) + 1] = sep
         /\ \A i \in 1 .. Len(t) : ((s \o <<sep>>) \o t)[Len(s) + 1 + i] = t[i]
         /\ UpTo((s \o <<sep>>) \o t, Len(s) + 1) = s
         /\ Beyond((s \o <<sep>>) \o t, Len(s) + 1) = t
<1>1. <<sep>> \in Seq(Words) /\ Len(<<sep>>) = 1 /\ <<sep>>[1] = sep
  BY OneWord
<1>2. PICK a : a = s \o <<sep>>
  OBVIOUS
<1>3. /\ a \in Seq(Words) /\ Len(a) = Len(s) + 1
      /\ \A i \in 1 .. Len(s) : a[i] = s[i]
      /\ a[Len(s) + 1] = sep
  BY <1>1, <1>2, Joined
<1>4. PICK j : j = a \o t
  OBVIOUS
<1>5. /\ j \in Seq(Words) /\ Len(j) = Len(s) + 1 + Len(t)
      /\ Len(s) \in Nat /\ Len(t) \in Nat
      /\ \A i \in 1 .. Len(s) + 1 : j[i] = a[i]
      /\ \A i \in 1 .. Len(t) : j[Len(s) + 1 + i] = t[i]
  <2>1. /\ j \in Seq(Words) /\ Len(j) = Len(a) + Len(t)
        /\ Len(t) \in Nat
        /\ \A i \in 1 .. Len(a) : j[i] = a[i]
        /\ \A i \in 1 .. Len(t) : j[Len(a) + i] = t[i]
    BY <1>3, <1>4, Joined
  <2>2. Len(s) \in Nat
    BY LenProperties
  <2> QED BY <1>3, <2>1, <2>2
<1>6. /\ \A i \in 1 .. Len(s) : j[i] = s[i]
      /\ j[Len(s) + 1] = sep
  BY <1>3, <1>5
<1>7. j = s \o (<<sep>> \o t)
  BY <1>1, <1>2, <1>4, ConcatAssociative
<1>8. <<sep>> \o t \in Seq(Words)
  BY <1>1, Joined
<1>9. UpTo(j, Len(s) + 1) = s
  BY <1>7, <1>8, Joined
<1>10. Beyond(j, Len(s) + 1) = t
  <2>1. PICK u : u = SubSeq(j, Len(s) + 2, Len(j))
    OBVIOUS
  <2>2. \A i \in Len(s) + 2 .. Len(j) : j[i] \in Words
    BY <1>5, ElementOfSeq
  <2>3. /\ u \in Seq(Words)
        /\ Len(u) = IF Len(s) + 2 <= Len(j) THEN Len(j) - (Len(s) + 2) + 1 ELSE 0
        /\ \A i \in 1 .. Len(j) - (Len(s) + 2) + 1 : u[i] = j[Len(s) + 2 + i - 1]
    BY <1>5, <2>1, <2>2, SubSeqProperties
  <2>4. /\ Len(u) = Len(t)
        /\ \A i \in 1 .. Len(t) : u[i] = t[i]
    <3>1. Len(j) - (Len(s) + 2) + 1 = Len(t)
      BY <1>5
    <3>2. Len(u) = Len(t)
      BY <1>5, <2>3, <3>1
    <3>3. \A i \in 1 .. Len(t) : Len(s) + 2 + i - 1 = Len(s) + 1 + i
      BY <1>5
    <3> QED BY <1>5, <2>3, <3>1, <3>2, <3>3
  <2>5. u = t
    BY <2>3, <2>4, SeqEqual
  <2> QED BY <1>5, <2>1, <2>5 DEF Beyond
<1> QED BY <1>2, <1>4, <1>5, <1>6, <1>7, <1>9, <1>10

LEMMA CutAtFirst ==
  ASSUME NEW s \in Seq(Words), NEW sep \in Words, NEW t \in Seq(Words),
         \A j \in 1 .. Len(s) : s[j] # sep
  PROVE  /\ FirstAt((s \o <<sep>>) \o t, sep) = Len(s) + 1
         /\ UpTo((s \o <<sep>>) \o t, FirstAt((s \o <<sep>>) \o t, sep)) = s
         /\ Beyond((s \o <<sep>>) \o t, FirstAt((s \o <<sep>>) \o t, sep)) = t
<1>1. PICK j : j = (s \o <<sep>>) \o t
  OBVIOUS
<1>2. /\ j \in Seq(Words) /\ Len(j) = Len(s) + 1 + Len(t)
      /\ Len(s) \in Nat /\ Len(t) \in Nat
      /\ \A i \in 1 .. Len(s) : j[i] = s[i]
      /\ j[Len(s) + 1] = sep
      /\ UpTo(j, Len(s) + 1) = s /\ Beyond(j, Len(s) + 1) = t
  BY <1>1, Separated
<1>3. Len(s) + 1 \in 1 .. Len(j) /\ \A i \in 1 .. (Len(s) + 1) - 1 : j[i] # sep
  BY <1>2
<1>4. FirstAt(j, sep) = Len(s) + 1
  BY <1>2, <1>3, FirstIsFirst
<1> QED BY <1>1, <1>2, <1>4

-----------------------------------------------------------------------------
(* What the grammar of references says of the places of separators.         *)

LEMMA HostShape ==
  ASSUME NEW h \in Seq(Words), IsHost(h)
  PROVE  /\ Len(h) \in {1, 3} /\ h # <<>>
         /\ \A j \in 1 .. Len(h) : h[j] # "/" /\ h[j] # "@"
         /\ \A j \in 1 .. Len(h) : h[j] = ":" => j = 2
         /\ Len(h) = 3 => h[2] = ":"
         /\ has_registry(h)
<1>1. DOMAIN h = 1 .. Len(h) /\ Len(h) \in Nat
  BY LenProperties
<1>2. Dotted \cap {"/", ":", "@"} = {} /\ "localhost" \notin {"/", ":", "@"}
  BY ImageNamesAssumption DEF Separators
<1>3. CASE Len(h) = 1 /\ h[1] \in Dotted \cup {"localhost"}
  <2>1. h[1] \notin {"/", ":", "@"} /\ h # <<>>
    BY <1>2, <1>3
  <2>2. has_registry(h)
    <3>1. CASE h[1] \in Dotted
      BY <1>1, <1>3, <3>1 DEF has_registry, ToSet
    <3>2. CASE h[1] = "localhost"
      <4>1. h = <<"localhost">>
        <5>1. <<"localhost">> \in Seq(Words) /\ Len(<<"localhost">>) = 1
              /\ <<"localhost">>[1] = "localhost"
          BY ImageNamesAssumption, OneWord
        <5> QED BY <1>3, <3>2, <5>1, SeqEqual
      <4> QED BY <4>1 DEF has_registry
    <3> QED BY <1>3, <3>1, <3>2
  <2> QED BY <1>3, <2>1, <2>2
<1>4. CASE Len(h) = 3 /\ h[2] = ":" /\ {h[1], h[3]} \cap Separators = {}
  <2>1. h[1] \notin {"/", ":", "@"} /\ h[3] \notin {"/", ":", "@"} /\ h # <<>>
    <3>1. h[1] \notin Separators /\ h[3] \notin Separators
      BY <1>4
    <3>2. h # <<>>
      BY <1>4
    <3> QED BY <3>1, <3>2 DEF Separators
  <2>2. \A j \in 1 .. Len(h) : j = 1 \/ j = 2 \/ j = 3
    BY <1>4
  <2>3. has_registry(h)
    BY <1>1, <1>4 DEF has_registry, ToSet
  <2>4. \A j \in 1 .. Len(h) : h[j] # "/" /\ h[j] # "@"
    BY <1>4, <2>1, <2>2
  <2>5. \A j \in 1 .. Len(h) : h[j] = ":" => j = 2
    BY <1>4, <2>1, <2>2
  <2> QED BY <1>4, <2>1, <2>3, <2>4, <2>5
<1> QED BY <1>3, <1>4 DEF IsHost

LEMMA PathShape ==
  ASSUME NEW r, IsReference(r)
  PROVE  /\ r.path \in Seq(Words) /\ Len(r.path) \in Nat /\ Len(r.path) >= 1
         /\ Len(r.path) # 2
         /\ \A j \in 1 .. Len(r.path) : r.path[j] # "@" /\ r.path[j] # ":"
         /\ r.path[1] # "/"
         /\ Len(r.path) >= 2 => r.path[2] = "/"
         /\ Len(r.path) >= 3 => r.path[3] # "/"
         /\ Len(r.path) = 1 => ~Contains(r.path, "/")
         /\ Len(r.path) # 1 => Contains(r.path, "/")
<1>1. r.path \in Seq(Words) /\ Len(r.path) % 2 = 1
  BY DEF IsReference
<1>2. Len(r.path) \in Nat /\ Len(r.path) # 0 /\ Len(r.path) # 2
  <2>1. PICK n : n = Len(r.path)
    OBVIOUS
  <2>2. n \in Nat /\ n % 2 = 1
    BY <1>1, <2>1, LenProperties
  <2>3. n # 0
    <3>1. 0 % 2 = 0
      OBVIOUS
    <3> QED BY <2>2, <3>1
  <2>4. n # 2
    <3>1. 2 % 2 = 0
      OBVIOUS
    <3> QED BY <2>2, <3>1
  <2> QED BY <2>1, <2>2, <2>3, <2>4
<1>3. \A k \in 1 .. Len(r.path) :
        IF k % 2 = 0 THEN r.path[k] = "/" ELSE r.path[k] \notin {"/", ":", "@"}
  BY DEF IsReference, Separators
<1>4. \A j \in 1 .. Len(r.path) : r.path[j] # "@" /\ r.path[j] # ":"
  BY <1>3
<1>5. r.path[1] # "/" /\ (Len(r.path) >= 2 => r.path[2] = "/")
      /\ (Len(r.path) >= 3 => r.path[3] # "/")
  <2>1. 1 % 2 = 1 /\ 2 % 2 = 0 /\ 3 % 2 = 1
    OBVIOUS
  <2> QED BY <1>2, <1>3, <2>1
<1>6. Len(r.path) = 1 => ~Contains(r.path, "/")
  BY <1>5 DEF Contains
<1>7. Len(r.path) # 1 => Contains(r.path, "/")
  <2>1. PICK n : n = Len(r.path)
    OBVIOUS
  <2>2. SUFFICES ASSUME n # 1
                 PROVE  Contains(r.path, "/")
    BY <2>1
  <2>3. n >= 2 /\ 2 \in 1 .. n
    <3>1. n \in Nat /\ n # 0
      BY <1>2, <2>1
    <3> QED BY <2>2, <3>1
  <2>4. r.path[2] = "/"
    BY <1>5, <2>1, <2>3
  <2> QED BY <2>1, <2>3, <2>4 DEF Contains
<1> QED BY <1>1, <1>2, <1>4, <1>5, <1>6, <1>7

(* The text of a reference up to its tag. *)
LEMMA RepositoryShape ==
  ASSUME NEW r, IsReference(r)
  PROVE  /\ Repository(r) \in Seq(Words) /\ Len(Repository(r)) \in Nat
         /\ Repository(r) # <<>>
         /\ r.host = NoName => Repository(r) = r.path
         /\ r.host # NoName =>
              /\ r.host \in Seq(Words) /\ IsHost(r.host)
              /\ Repository(r) = (r.host \o <<"/">>) \o r.path
              /\ Len(Repository(r)) = Len(r.host) + 1 + Len(r.path)
              /\ \A i \in 1 .. Len(r.host) : Repository(r)[i] = r.host[i]
              /\ Repository(r)[Len(r.host) + 1] = "/"
              /\ \A i \in 1 .. Len(r.path) :
                    Repository(r)[Len(r.host) + 1 + i] = r.path[i]
         /\ \A j \in 1 .. Len(Repository(r)) : Repository(r)[j] # "@"
         /\ \A j \in 1 .. Len(Repository(r)) : Repository(r)[j] = ":" =>
              \E k \in 1 .. Len(Repository(r)) : k > j /\ Repository(r)[k] = "/"
<1>1. PICK p : p = r.path
  OBVIOUS
<1>2. /\ p \in Seq(Words) /\ Len(p) \in Nat /\ Len(p) >= 1
      /\ \A j \in 1 .. Len(p) : p[j] # "@" /\ p[j] # ":"
  BY <1>1, PathShape
<1>3. CASE r.host = NoName
  <2>1. Repository(r) = p
    BY <1>1, <1>2, <1>3, ConcatEmptySeq DEF Repository
  <2>2. p # <<>>
    BY <1>2, EmptySeq
  <2> QED BY <1>1, <1>2, <1>3, <2>1, <2>2
<1>4. CASE r.host # NoName
  <2>1. PICK h : h = r.host
    OBVIOUS
  <2>2. h \in Seq(Words) /\ IsHost(h)
    BY <1>4, <2>1 DEF IsReference
  <2>3. /\ Len(h) \in {1, 3}
        /\ \A j \in 1 .. Len(h) : h[j] # "/" /\ h[j] # "@"
        /\ \A j \in 1 .. Len(h) : h[j] = ":" => j = 2
    BY <2>2, HostShape
  <2>4. PICK s : s = (h \o <<"/">>) \o p
    OBVIOUS
  <2>5. Repository(r) = s
    BY <1>1, <1>4, <2>1, <2>4 DEF Repository
  <2>6. "/" \in Words
    BY ImageNamesAssumption DEF Separators
  <2>7. /\ s \in Seq(Words)
        /\ Len(s) = Len(h) + 1 + Len(p)
        /\ \A i \in 1 .. Len(h) : s[i] = h[i]
        /\ s[Len(h) + 1] = "/"
        /\ \A i \in 1 .. Len(p) : s[Len(h) + 1 + i] = p[i]
    BY <1>2, <2>2, <2>4, <2>6, Separated
  <2>8. Len(s) \in Nat /\ s # <<>>
    <3>1. Len(s) \in Nat /\ Len(s) # 0
      BY <1>2, <2>3, <2>7
    <3> QED BY <3>1
  <2>9. \A j \in 1 .. Len(s) : \/ j \in 1 .. Len(h) /\ s[j] = h[j]
                               \/ j = Len(h) + 1 /\ s[j] = "/"
                               \/ \E i \in 1 .. Len(p) : s[j] = p[i]
    <3>1. TAKE j \in 1 .. Len(s)
    <3>2. j \in 1 .. Len(h) \/ j = Len(h) + 1 \/ j - (Len(h) + 1) \in 1 .. Len(p)
      BY <1>2, <2>3, <2>7
    <3>3. ASSUME j - (Len(h) + 1) \in 1 .. Len(p)
          PROVE  s[j] = p[j - (Len(h) + 1)]
      <4>1. s[Len(h) + 1 + (j - (Len(h) + 1))] = p[j - (Len(h) + 1)]
        BY <2>7, <3>3
      <4>2. Len(h) + 1 + (j - (Len(h) + 1)) = j
        BY <2>3
      <4> QED BY <4>1, <4>2
    <3> QED BY <2>7, <3>2, <3>3
  <2>10. \A j \in 1 .. Len(s) : s[j] # "@"
    BY <1>2, <2>3, <2>9
  <2>11. \A j \in 1 .. Len(s) : s[j] = ":" => j \in 1 .. Len(h)
    BY <1>2, <2>9
  <2>12. Len(h) + 1 \in 1 .. Len(s) /\ \A j \in 1 .. Len(h) : Len(h) + 1 > j
    BY <1>2, <2>3, <2>7
  <2>13. \A j \in 1 .. Len(s) : s[j] = ":" =>
            \E k \in 1 .. Len(s) : k > j /\ s[k] = "/"
    BY <2>7, <2>11, <2>12
  <2>14. /\ h \in Seq(Words) /\ IsHost(h)
         /\ s = (h \o <<"/">>) \o p
         /\ Len(s) = Len(h) + 1 + Len(p)
         /\ \A i \in 1 .. Len(h) : s[i] = h[i]
         /\ s[Len(h) + 1] = "/"
         /\ \A i \in 1 .. Len(p) : s[Len(h) + 1 + i] = p[i]
    BY <2>2, <2>4, <2>7
  <2>15. s \in Seq(Words) /\ Len(s) \in Nat /\ s # <<>>
    BY <2>7, <2>8
  <2>16. /\ r.host \in Seq(Words) /\ IsHost(r.host)
         /\ Repository(r) = (r.host \o <<"/">>) \o r.path
         /\ Len(Repository(r)) = Len(r.host) + 1 + Len(r.path)
    BY Zenon, <1>1, <2>1, <2>5, <2>14
  <2>17. /\ \A i \in 1 .. Len(r.host) : Repository(r)[i] = r.host[i]
         /\ Repository(r)[Len(r.host) + 1] = "/"
         /\ \A i \in 1 .. Len(r.path) :
                Repository(r)[Len(r.host) + 1 + i] = r.path[i]
    BY Zenon, <1>1, <2>1, <2>5, <2>14
  <2>18. /\ Repository(r) \in Seq(Words) /\ Len(Repository(r)) \in Nat
         /\ Repository(r) # <<>>
         /\ \A k \in 1 .. Len(Repository(r)) : Repository(r)[k] # "@"
    BY Zenon, <2>5, <2>10, <2>15
  <2>19. \A k \in 1 .. Len(Repository(r)) : Repository(r)[k] = ":" =>
            \E l \in 1 .. Len(Repository(r)) : l > k /\ Repository(r)[l] = "/"
    BY Zenon, <2>5, <2>13
  <2> QED BY Zenon, <1>4, <2>16, <2>17, <2>18, <2>19
<1> QED BY <1>3, <1>4
-----------------------------------------------------------------------------
(* service_from_image inverts the text of a reference.                      *)

LEMMA WithoutDigest ==
  ASSUME NEW r, IsReference(r)
  PROVE  Undigested(Text(r)) =
            IF r.tag = NoName THEN Repository(r) ELSE (Repository(r) \o <<":">>) \o r.tag
<1> DEFINE s == IF r.tag = NoName THEN Repository(r) ELSE (Repository(r) \o <<":">>) \o r.tag
<1>1. PICK b, g, d : b = Repository(r) /\ g = r.tag /\ d = r.digest
  OBVIOUS
<1>2. /\ b \in Seq(Words) /\ Len(b) \in Nat
      /\ \A j \in 1 .. Len(b) : b[j] # "@"
  BY <1>1, RepositoryShape
<1>3. /\ g \in Seq(Words) /\ d \in Seq(Words) /\ ToSet(g) \cap Separators = {}
  BY <1>1 DEF IsReference
<1>4. ":" \in Words /\ "@" \in Words /\ <<":">> \in Seq(Words) /\ <<"@">> \in Seq(Words)
  BY ImageNamesAssumption, OneWord DEF Separators
<1>5. \A j \in 1 .. Len(g) : g[j] # "@" /\ g[j] # "/" /\ g[j] # ":"
  <2>1. DOMAIN g = 1 .. Len(g)
    BY <1>3, LenProperties
  <2> QED BY <1>3, <2>1 DEF ToSet, Separators
<1>6. s \in Seq(Words) /\ \A j \in 1 .. Len(s) : s[j] # "@"
  <2>1. CASE g = NoName
    BY <1>1, <1>2, <2>1
  <2>2. CASE g # NoName
    <3>1. PICK u : u = (b \o <<":">>) \o g
      OBVIOUS
    <3>2. /\ u \in Seq(Words) /\ Len(u) = Len(b) + 1 + Len(g)
          /\ Len(g) \in Nat
          /\ \A i \in 1 .. Len(b) : u[i] = b[i]
          /\ u[Len(b) + 1] = ":"
          /\ \A i \in 1 .. Len(g) : u[Len(b) + 1 + i] = g[i]
      BY <1>2, <1>3, <1>4, <3>1, Separated
    <3>3. \A j \in 1 .. Len(u) : u[j] # "@"
      <4>1. TAKE j \in 1 .. Len(u)
      <4>2. CASE j \in 1 .. Len(b)
        BY <1>2, <3>2, <4>2
      <4>3. CASE j = Len(b) + 1
        BY <3>2, <4>3
      <4>4. CASE j > Len(b) + 1
        <5>1. PICK i : i = j - (Len(b) + 1)
          OBVIOUS
        <5>2. i \in 1 .. Len(g) /\ Len(b) + 1 + i = j
          BY <1>2, <3>2, <4>4, <5>1
        <5> QED BY <1>5, <3>2, <5>2
      <4> QED BY <1>2, <3>2, <4>2, <4>3, <4>4
    <3>4. s = u
      BY <1>1, <2>2, <3>1
    <3> QED BY <3>2, <3>3, <3>4
  <2> QED BY <2>1, <2>2
<1>7. Text(r) = IF d = NoName THEN s ELSE (s \o <<"@">>) \o d
  <2>1. b \o (IF g = NoName THEN <<>> ELSE <<":">> \o g) = s
    <3>1. CASE g = NoName
      BY <1>1, <1>2, <3>1, ConcatEmptySeq
    <3>2. CASE g # NoName
      <4>1. b \o (<<":">> \o g) = (b \o <<":">>) \o g
        BY <1>2, <1>3, <1>4, ConcatAssociative
      <4> QED BY <1>1, <3>2, <4>1
    <3> QED BY <3>1, <3>2
  <2>2. Text(r) = s \o (IF d = NoName THEN <<>> ELSE <<"@">> \o d)
    BY <1>1, <2>1 DEF Text
  <2>3. CASE d = NoName
    <3>1. Text(r) = s \o <<>>
      BY <2>2, <2>3
    <3> HIDE DEF s
    <3> QED BY <1>6, <2>3, <3>1, ConcatEmptySeq
  <2>4. CASE d # NoName
    <3> HIDE DEF s
    <3>1. s \o (<<"@">> \o d) = (s \o <<"@">>) \o d
      BY <1>3, <1>4, <1>6, ConcatAssociative
    <3> QED BY <2>2, <2>4, <3>1
  <2> QED BY <2>3, <2>4
<1>8. Undigested(Text(r)) = s
  <2> HIDE DEF s
  <2>1. CASE d = NoName
    BY <1>6, <1>7, <2>1, NoFirst DEF Undigested
  <2>2. CASE d # NoName
    <3>1. \A j \in 1 .. Len(s) : s[j] # "@"
      BY <1>6
    <3>2. UpTo((s \o <<"@">>) \o d, FirstAt((s \o <<"@">>) \o d, "@")) = s
      BY <1>3, <1>4, <1>6, <3>1, CutAtFirst
    <3> QED BY <1>7, <2>2, <3>2 DEF Undigested
  <2> QED BY <2>1, <2>2
<1> QED BY <1>8

LEMMA WithoutTag ==
  ASSUME NEW r, IsReference(r)
  PROVE  Untagged(Text(r)) = Repository(r)
<1>1. PICK b, g : b = Repository(r) /\ g = r.tag
  OBVIOUS
<1>2. /\ b \in Seq(Words) /\ Len(b) \in Nat
      /\ \A j \in 1 .. Len(b) : b[j] = ":" => \E k \in 1 .. Len(b) : k > j /\ b[k] = "/"
  <2>1. Repository(r) \in Seq(Words) /\ Len(Repository(r)) \in Nat
    BY RepositoryShape
  <2>2. \A j \in 1 .. Len(Repository(r)) : Repository(r)[j] = ":" =>
            \E k \in 1 .. Len(Repository(r)) : k > j /\ Repository(r)[k] = "/"
    BY RepositoryShape
  <2> QED BY Zenon, <1>1, <2>1, <2>2
<1>3. g \in Seq(Words) /\ ToSet(g) \cap Separators = {} /\ ":" \in Words
  BY <1>1, ImageNamesAssumption DEF IsReference, Separators
<1>4. PICK s : s = Undigested(Text(r))
  OBVIOUS
<1>5. s = IF g = NoName THEN b ELSE (b \o <<":">>) \o g
  BY <1>1, <1>4, WithoutDigest
<1>6. CASE g = NoName
  <2>1. PICK c : c = LastAt(b, ":")
    OBVIOUS
  <2>2. PICK l : l = LastAt(b, "/")
    OBVIOUS
  <2>3. c \in 0 .. Len(b) /\ (c # 0 => b[c] = ":")
    BY <1>2, <2>1, LastPlace
  <2>4. l \in 0 .. Len(b) /\ \A k \in 1 .. Len(b) : b[k] = "/" => k <= l
    BY <1>2, <2>2, LastPlace
  <2>5. ~(c > l)
    <3>1. ASSUME c # 0
          PROVE  c < l
      <4>1. PICK k \in 1 .. Len(b) : k > c /\ b[k] = "/"
        BY <1>2, <2>3, <3>1
      <4> QED BY <1>2, <2>3, <2>4, <4>1
    <3> QED BY <1>2, <2>3, <2>4, <3>1
  <2> QED BY <1>1, <1>4, <1>5, <1>6, <2>1, <2>2, <2>5 DEF Untagged
<1>7. CASE g # NoName
  <2>1. /\ s \in Seq(Words) /\ Len(s) = Len(b) + 1 + Len(g) /\ Len(g) \in Nat
        /\ \A i \in 1 .. Len(b) : s[i] = b[i]
        /\ s[Len(b) + 1] = ":"
        /\ \A i \in 1 .. Len(g) : s[Len(b) + 1 + i] = g[i]
        /\ UpTo(s, Len(b) + 1) = b
    BY <1>2, <1>3, <1>5, <1>7, Separated
  <2>2. \A j \in 1 .. Len(g) : g[j] # "/" /\ g[j] # ":"
    <3>1. DOMAIN g = 1 .. Len(g)
      BY <1>3, LenProperties
    <3> QED BY <1>3, <3>1 DEF ToSet, Separators
  <2>3. \A j \in 1 .. Len(s) : s[j] = ":" \/ s[j] = "/" => j <= Len(b) + 1
    <3>1. TAKE j \in 1 .. Len(s)
    <3>2. CASE j > Len(b) + 1
      <4>1. PICK i : i = j - (Len(b) + 1)
        OBVIOUS
      <4>2. i \in 1 .. Len(g) /\ Len(b) + 1 + i = j
        BY <1>2, <2>1, <3>2, <4>1
      <4> QED BY <2>1, <2>2, <4>2
    <3> QED BY <1>2, <3>2
  <2>4. PICK c : c = LastAt(s, ":")
    OBVIOUS
  <2>5. PICK l : l = LastAt(s, "/")
    OBVIOUS
  <2>6. /\ c \in 0 .. Len(s) /\ (c # 0 => s[c] = ":")
        /\ \A k \in 1 .. Len(s) : s[k] = ":" => k <= c
    BY <2>1, <2>4, LastPlace
  <2>7. l \in 0 .. Len(s) /\ (l # 0 => s[l] = "/")
    BY <2>1, <2>5, LastPlace
  <2>8. c = Len(b) + 1
    <3>1. Len(b) + 1 \in 1 .. Len(s)
      BY <1>2, <2>1
    <3>2. Len(b) + 1 <= c
      BY <2>1, <2>6, <3>1
    <3>3. c \in 1 .. Len(s) /\ s[c] = ":"
      BY <1>2, <2>1, <2>6, <3>2
    <3>4. c <= Len(b) + 1
      BY <2>3, <3>3
    <3> QED BY <1>2, <3>2, <3>3, <3>4
  <2>9. l < c
    <3>1. CASE l = 0
      BY <1>2, <2>8, <3>1
    <3>2. CASE l # 0
      <4>1. l \in 1 .. Len(s) /\ s[l] = "/"
        BY <1>2, <2>1, <2>7, <3>2
      <4>2. l <= Len(b) + 1 /\ l # Len(b) + 1
        BY <2>1, <2>3, <4>1
      <4> QED BY <1>2, <2>1, <2>8, <4>1, <4>2
    <3> QED BY <3>1, <3>2
  <2>10. c > l /\ UpTo(s, c) = b
    BY <1>2, <2>1, <2>7, <2>8, <2>9
  <2> QED BY <1>1, <1>4, <2>4, <2>5, <2>10 DEF Untagged
<1> QED BY <1>6, <1>7
LEMMA OneWordOnly ==
  ASSUME NEW s \in Seq(Words), NEW w
  PROVE  s = <<w>> <=> Len(s) = 1 /\ s[1] = w
<1>1. ASSUME s = <<w>>
      PROVE  Len(s) = 1 /\ s[1] = w
  BY <1>1
<1>2. ASSUME Len(s) = 1, s[1] = w
      PROVE  s = <<w>>
  <2>1. w \in Words
    BY <1>2, ElementOfSeq
  <2>2. <<w>> \in Seq(Words) /\ Len(<<w>>) = 1 /\ <<w>>[1] = w
    BY <2>1, OneWord
  <2> QED BY <1>2, <2>2, SeqEqual
<1> QED BY <1>1, <1>2

(* The first word of a path, and what a path is on Docker Hub. *)
LEMMA PathCut ==
  ASSUME NEW r, IsReference(r)
  PROVE  /\ FirstAt(r.path, "/") = 2
         /\ UpTo(r.path, 2) = <<r.path[1]>>
         /\ Beyond(r.path, 2) = SubSeq(r.path, 3, Len(r.path))
<1>1. PICK p : p = r.path
  OBVIOUS
<1>2. /\ p \in Seq(Words) /\ Len(p) \in Nat /\ Len(p) >= 1
      /\ p[1] # "/"
      /\ Len(p) >= 2 => p[2] = "/"
  BY <1>1, PathShape
<1>3. FirstAt(p, "/") = 2
  <2>1. CASE Len(p) = 1
    <3>1. \A j \in 1 .. Len(p) : p[j] # "/"
      BY <1>2, <2>1
    <3>2. FirstAt(p, "/") = Len(p) + 1
      BY <1>2, <3>1, NoFirst
    <3> QED BY <2>1, <3>2
  <2>2. CASE Len(p) # 1
    <3>1. Len(p) >= 2
      BY <1>2, <2>2
    <3>2. 2 \in 1 .. Len(p) /\ p[2] = "/" /\ \A j \in 1 .. 2 - 1 : p[j] # "/"
      BY <1>2, <3>1
    <3> QED BY <1>2, <3>2, FirstIsFirst
  <2> QED BY <2>1, <2>2
<1>4. UpTo(p, 2) = <<p[1]>>
  <2>1. PICK u : u = SubSeq(p, 1, 1)
    OBVIOUS
  <2>2. \A i \in 1 .. 1 : p[i] \in Words
    BY <1>2, ElementOfSeq
  <2>3. u \in Seq(Words) /\ Len(u) = 1 /\ u[1] = p[1]
    <3>1. /\ SubSeq(p, 1, 1) \in Seq(Words)
          /\ Len(SubSeq(p, 1, 1)) = IF 1 <= 1 THEN 1 - 1 + 1 ELSE 0
          /\ \A i \in 1 .. 1 - 1 + 1 : SubSeq(p, 1, 1)[i] = p[1 + i - 1]
      BY <2>2, SubSeqProperties
    <3> QED BY <2>1, <3>1
  <2>4. u = <<p[1]>>
    BY <2>3, OneWordOnly
  <2>5. UpTo(p, 2) = SubSeq(p, 1, 1)
    <3>1. 2 - 1 = 1
      OBVIOUS
    <3> QED BY <3>1 DEF UpTo
  <2> QED BY <2>1, <2>4, <2>5
<1>5. Beyond(p, 2) = SubSeq(p, 3, Len(p))
  BY DEF Beyond
<1> QED BY <1>1, <1>3, <1>4, <1>5

LEMMA LibraryPath ==
  ASSUME NEW r, IsReference(r), Len(r.path) = 1
  PROVE  /\ HubPath(r) = <<"library", "/">> \o r.path
         /\ HubPath(r) \in Seq(Words) /\ Len(HubPath(r)) = 3
         /\ HubPath(r)[1] = "library" /\ HubPath(r)[2] = "/"
         /\ HubPath(r)[3] = r.path[1]
         /\ SubSeq(HubPath(r), 3, 3) = r.path
<1>1. PICK p : p = r.path
  OBVIOUS
<1>2. p \in Seq(Words) /\ Len(p) = 1 /\ ~Contains(p, "/")
  BY <1>1, PathShape
<1>3. "library" \in Words /\ "/" \in Words /\ <<"library">> \in Seq(Words)
      /\ Len(<<"library">>) = 1 /\ <<"library">>[1] = "library"
  BY ImageNamesAssumption, OneWord DEF Separators
<1>4. PICK l : l = <<"library">>
  OBVIOUS
<1>5. PICK s : s = (l \o <<"/">>) \o p
  OBVIOUS
<1>6. /\ s \in Seq(Words) /\ Len(s) = Len(l) + 1 + Len(p)
      /\ \A i \in 1 .. Len(l) : s[i] = l[i]
      /\ s[Len(l) + 1] = "/"
      /\ \A i \in 1 .. Len(p) : s[Len(l) + 1 + i] = p[i]
      /\ Beyond(s, Len(l) + 1) = p
  <2>1. l \in Seq(Words) /\ p \in Seq(Words) /\ "/" \in Words
    BY <1>2, <1>3, <1>4
  <2> QED BY <1>5, <2>1, Separated
<1>7. Len(s) = 3 /\ s[1] = "library" /\ s[2] = "/" /\ s[3] = p[1]
  BY <1>2, <1>3, <1>4, <1>6
<1>8. SubSeq(s, 3, 3) = p
  <2>1. Len(l) + 1 = 2 /\ 2 + 1 = 3
    BY <1>3, <1>4
  <2>2. Beyond(s, 2) = p
    BY <1>6, <2>1
  <2> QED BY <1>7, <2>1, <2>2 DEF Beyond
<1>9. <<"library">> \o <<"/">> = <<"library", "/">>
  BY <1>3, TwoWords
<1>10. HubPath(r) = s /\ HubPath(r) = <<"library", "/">> \o r.path
  BY <1>1, <1>2, <1>4, <1>5, <1>9 DEF HubPath
<1> QED BY <1>1, <1>6, <1>7, <1>8, <1>10

LEMMA DeepPath ==
  ASSUME NEW r, IsReference(r), Len(r.path) # 1
  PROVE  HubPath(r) = r.path /\ Len(r.path) >= 3
<1>1. PICK n : n = Len(r.path)
  OBVIOUS
<1>2. n \in Nat /\ n >= 1 /\ n # 2 /\ n # 1
  BY <1>1, PathShape
<1>3. n >= 3
  BY <1>2
<1>4. Contains(r.path, "/")
  BY PathShape
<1> QED BY <1>1, <1>3, <1>4 DEF HubPath

LEMMA HubSource ==
  ASSUME NEW r, IsReference(r)
  PROVE  docker_hub_source(r.path) =
            [kind |-> "docker_hub", namespace |-> <<HubPath(r)[1]>>,
             repository |-> SubSeq(HubPath(r), 3, Len(HubPath(r)))]
<1>1. /\ r.path \in Seq(Words) /\ Len(r.path) \in Nat /\ Len(r.path) >= 1
      /\ Len(r.path) = 1 => ~Contains(r.path, "/")
      /\ Len(r.path) # 1 => Contains(r.path, "/")
  BY PathShape
<1>2. CASE Len(r.path) = 1
  <2>1. /\ <<"library">> # <<>> /\ r.path # <<>> /\ ~Contains(r.path, "/")
    <3>1. <<"library">> # <<>>
      OBVIOUS
    <3>2. Len(<<>>) = 0
      OBVIOUS
    <3>3. r.path # <<>>
      BY <1>2, <3>2
    <3> QED BY <1>1, <1>2, <3>1, <3>3
  <2>2. docker_hub_source(r.path) =
            [kind |-> "docker_hub", namespace |-> <<"library">>, repository |-> r.path]
    BY <2>1 DEF docker_hub_source
  <2> QED BY <1>2, <2>2, LibraryPath
<1>3. CASE Len(r.path) # 1
  <2>1. HubPath(r) = r.path /\ Len(r.path) >= 3 /\ Contains(r.path, "/")
    BY <1>1, <1>3, DeepPath
  <2>2. PICK u : u = SubSeq(r.path, 3, Len(r.path))
    OBVIOUS
  <2>3. u # <<>>
    <3>1. \A i \in 3 .. Len(r.path) : r.path[i] \in Words
      BY <1>1, ElementOfSeq
    <3>2. Len(u) = IF 3 <= Len(r.path) THEN Len(r.path) - 3 + 1 ELSE 0
      BY <1>1, <2>2, <3>1, SubSeqProperties
    <3>3. Len(u) # 0
      <4>1. PICK n : n = Len(r.path)
        OBVIOUS
      <4>2. n \in Nat /\ n >= 3 /\ Len(u) = IF 3 <= n THEN n - 3 + 1 ELSE 0
        BY <1>1, <2>1, <3>2, <4>1
      <4> QED BY <4>2
    <3> QED BY <3>3
  <2>4. UpTo(r.path, FirstAt(r.path, "/")) = <<r.path[1]>>
        /\ Beyond(r.path, FirstAt(r.path, "/")) = u
    BY <2>2, PathCut
  <2>5. docker_hub_source(r.path) =
            [kind |-> "docker_hub", namespace |-> <<r.path[1]>>, repository |-> u]
    BY <2>1, <2>3, <2>4 DEF docker_hub_source
  <2> QED BY <2>1, <2>2, <2>5
<1> QED BY <1>2, <1>3

LEMMA SourceIs ==
  ASSUME NEW r, IsReference(r)
  PROVE  service_from_image(Text(r)) =
            [image |-> Repository(r), version_source |-> SourceOf(r)]
<1>1. PICK b : b = Repository(r)
  OBVIOUS
<1>2. Untagged(Text(r)) = b /\ b # <<>>
  BY <1>1, WithoutTag, RepositoryShape
<1>3. PICK i : i = FirstAt(b, "/")
  OBVIOUS
<1>4. Source(Text(r)) =
        IF ~has_registry(UpTo(b, i)) THEN docker_hub_source(b)
        ELSE IF ~Contains(b, "/") THEN NoName
        ELSE IF \E h \in Hubs : UpTo(b, i) = <<h>> THEN docker_hub_source(Beyond(b, i))
        ELSE [kind |-> "oci_registry", registry |-> UpTo(b, i), repository |-> Beyond(b, i)]
  BY <1>2, <1>3 DEF Source
<1>5. CASE r.host = NoName
  <2>1. b = r.path
    BY <1>1, <1>5, RepositoryShape
  <2>2. UpTo(b, i) = <<r.path[1]>>
    BY <1>3, <2>1, PathCut
  <2>3. OnHub(r)
    BY <1>5 DEF OnHub
  <2>4. ~has_registry(<<r.path[1]>>)
    <3>1. /\ r.path[1] \notin Dotted /\ r.path[1] # "localhost"
          /\ r.path[1] # ":"
      <4>1. r.path[1] \notin Dotted \cup {"localhost"}
        BY <2>3 DEF IsReference
      <4> QED BY <4>1, PathShape
    <3>2. PICK w : w = r.path[1]
      OBVIOUS
    <3>3. <<w>> # <<"localhost">> /\ ToSet(<<w>>) = {w}
      BY <3>1, <3>2 DEF ToSet
    <3>4. {w} \cap (Dotted \cup {":"}) = {}
      BY <3>1, <3>2
    <3> QED BY <3>2, <3>3, <3>4 DEF has_registry
  <2>5. Source(Text(r)) = docker_hub_source(r.path)
    BY <1>4, <2>1, <2>2, <2>4
  <2>6. Source(Text(r)) = SourceOf(r)
    BY <2>3, <2>5, HubSource DEF SourceOf
  <2> QED BY <1>1, <1>2, <2>6 DEF service_from_image
<1>6. CASE r.host # NoName
  <2>1. /\ r.host \in Seq(Words) /\ IsHost(r.host)
        /\ b = (r.host \o <<"/">>) \o r.path
        /\ Len(b) = Len(r.host) + 1 + Len(r.path)
        /\ b[Len(r.host) + 1] = "/"
    BY <1>1, <1>6, RepositoryShape
  <2>2. /\ \A j \in 1 .. Len(r.host) : r.host[j] # "/"
        /\ has_registry(r.host) /\ Len(r.host) \in {1, 3}
    BY <2>1, HostShape
  <2>3. /\ r.path \in Seq(Words) /\ Len(r.path) \in Nat
        /\ "/" \in Words
    BY PathShape, ImageNamesAssumption DEF Separators
  <2>4. UpTo(b, i) = r.host /\ Beyond(b, i) = r.path
    <3>1. PICK h, p : h = r.host /\ p = r.path
      OBVIOUS
    <3>2. /\ h \in Seq(Words) /\ p \in Seq(Words) /\ b = (h \o <<"/">>) \o p
          /\ \A j \in 1 .. Len(h) : h[j] # "/"
      BY <2>1, <2>2, <2>3, <3>1
    <3> QED BY <1>3, <2>3, <3>1, <3>2, CutAtFirst
  <2>5. Contains(b, "/")
    <3>1. Len(r.host) + 1 \in 1 .. Len(b)
      <4>1. PICK m, n : m = Len(r.host) /\ n = Len(r.path)
        OBVIOUS
      <4>2. m \in {1, 3} /\ n \in Nat /\ Len(b) = m + 1 + n
        BY <2>1, <2>2, <2>3, <4>1
      <4>3. m + 1 \in 1 .. Len(b)
        BY <4>2
      <4> QED BY <4>1, <4>3
    <3> QED BY <2>1, <3>1 DEF Contains
  <2>6. (\E h \in Hubs : r.host = <<h>>) <=> OnHub(r)
    <3>1. \A h \in Hubs : r.host = <<h>> <=> Len(r.host) = 1 /\ r.host[1] = h
      BY <2>1, OneWordOnly
    <3> QED BY <1>6, <3>1 DEF OnHub
  <2>7. Source(Text(r)) =
          IF OnHub(r) THEN docker_hub_source(r.path)
          ELSE [kind |-> "oci_registry", registry |-> r.host, repository |-> r.path]
    BY <1>4, <2>2, <2>4, <2>5, <2>6
  <2>8. Source(Text(r)) = SourceOf(r)
    BY <2>7, HubSource DEF SourceOf
  <2> QED BY <1>1, <1>2, <2>8 DEF service_from_image
<1> QED BY <1>5, <1>6
-----------------------------------------------------------------------------
(* repositories_match compares the sources of two names.                    *)

Starts(s, host) == Len(s) >= 2 /\ s[1] = host /\ s[2] = "/"

LEMMA TrimIs ==
  ASSUME NEW s \in Seq(Words), NEW host, NEW k \in Nat, 2 * k <= Len(s),
         \A i \in 1 .. k : s[2 * i - 1] = host /\ s[2 * i] = "/",
         ~(2 * k + 2 <= Len(s) /\ s[2 * k + 1] = host /\ s[2 * k + 2] = "/")
  PROVE  Trim(s, host) = SubSeq(s, 2 * k + 1, Len(s))
<1> DEFINE Leading(j) == \A i \in 1 .. j : s[2 * i - 1] = host /\ s[2 * i] = "/"
           half == Len(s) \div 2
           Longest(j) == Leading(j) /\ \A l \in 0 .. half : Leading(l) => l <= j
<1>1. Len(s) \in Nat
  BY LenProperties
<1>2. PICK n : n = half
  OBVIOUS
<1>3. n \in Nat /\ 2 * n <= Len(s) /\ Len(s) < 2 * n + 2
  BY <1>1, <1>2
<1>4. k \in 0 .. n
  BY <1>1, <1>3
<1>5. \A j \in 0 .. n : Leading(j) => j <= k
  <2>1. ASSUME NEW j \in 0 .. n, Leading(j), j > k
        PROVE  FALSE
    <3>1. k + 1 \in 1 .. j /\ 2 * k + 2 <= Len(s)
      BY <1>1, <1>3, <2>1
    <3>2. s[2 * (k + 1) - 1] = host /\ s[2 * (k + 1)] = "/"
      BY <2>1, <3>1
    <3>3. 2 * (k + 1) - 1 = 2 * k + 1 /\ 2 * (k + 1) = 2 * k + 2
      OBVIOUS
    <3> QED BY <3>1, <3>2, <3>3
  <2> HIDE DEF Leading
  <2> QED BY <1>3, <2>1
<1>6. Leading(k)
  OBVIOUS
<1> HIDE DEF Leading
<1>7. Longest(k)
  BY <1>2, <1>5, <1>6
<1>8. PICK m : m = CHOOSE j \in 0 .. half : Longest(j)
  OBVIOUS
<1>9. m \in 0 .. half /\ Longest(m)
  <2> HIDE DEF Longest
  <2> QED BY <1>2, <1>4, <1>7, <1>8
<1>10. m = k
  BY <1>2, <1>3, <1>4, <1>5, <1>6, <1>9
<1>11. Trim(s, host) = SubSeq(s, 2 * m + 1, Len(s))
  BY <1>8 DEF Trim, Leading
<1> QED BY <1>10, <1>11

LEMMA TrimNone ==
  ASSUME NEW s \in Seq(Words), NEW host, ~Starts(s, host)
  PROVE  Trim(s, host) = s
<1>1. Len(s) \in Nat
  BY LenProperties
<1>2. /\ 2 * 0 <= Len(s)
      /\ \A i \in 1 .. 0 : s[2 * i - 1] = host /\ s[2 * i] = "/"
      /\ ~(2 * 0 + 2 <= Len(s) /\ s[2 * 0 + 1] = host /\ s[2 * 0 + 2] = "/")
  <2>1. 2 * 0 = 0 /\ 2 * 0 + 2 = 2 /\ 2 * 0 + 1 = 1
    OBVIOUS
  <2> QED BY <1>1, <2>1 DEF Starts
<1>3. Trim(s, host) = SubSeq(s, 2 * 0 + 1, Len(s))
  BY <1>2, TrimIs
<1>4. 2 * 0 + 1 = 1
  OBVIOUS
<1> QED BY <1>3, <1>4, SubSeqFull

LEMMA TrimOne ==
  ASSUME NEW host \in Words, NEW t \in Seq(Words), ~Starts(t, host)
  PROVE  Trim((<<host>> \o <<"/">>) \o t, host) = t
<1>1. PICK h : h = <<host>>
  OBVIOUS
<1>2. h \in Seq(Words) /\ Len(h) = 1 /\ h[1] = host /\ "/" \in Words
  BY <1>1, OneWord, ImageNamesAssumption DEF Separators
<1>3. PICK s : s = (h \o <<"/">>) \o t
  OBVIOUS
<1>4. /\ s \in Seq(Words) /\ Len(s) = Len(h) + 1 + Len(t) /\ Len(t) \in Nat
      /\ \A i \in 1 .. Len(h) : s[i] = h[i]
      /\ s[Len(h) + 1] = "/"
      /\ \A i \in 1 .. Len(t) : s[Len(h) + 1 + i] = t[i]
      /\ Beyond(s, Len(h) + 1) = t
  <2>1. h \in Seq(Words) /\ "/" \in Words
    BY <1>2
  <2> QED BY <1>3, <2>1, Separated
<1>5. /\ Len(s) = 2 + Len(t) /\ s[1] = host /\ s[2] = "/"
      /\ \A i \in 1 .. Len(t) : s[2 + i] = t[i]
      /\ Beyond(s, 2) = t
  BY <1>2, <1>4
<1>6. ~(2 * 1 + 2 <= Len(s) /\ s[2 * 1 + 1] = host /\ s[2 * 1 + 2] = "/")
  <2>1. SUFFICES ASSUME 4 <= Len(s), s[3] = host, s[4] = "/"
                 PROVE  FALSE
    <3>1. 2 * 1 + 2 = 4 /\ 2 * 1 + 1 = 3
      OBVIOUS
    <3> QED BY <3>1
  <2>2. 1 \in 1 .. Len(t) /\ 2 \in 1 .. Len(t) /\ Len(t) >= 2
    BY <1>4, <1>5, <2>1
  <2>3. t[1] = s[2 + 1] /\ t[2] = s[2 + 2]
    BY <1>5, <2>2
  <2>4. 2 + 1 = 3 /\ 2 + 2 = 4
    OBVIOUS
  <2> QED BY <2>1, <2>2, <2>3, <2>4 DEF Starts
<1>7. \A i \in 1 .. 1 : s[2 * i - 1] = host /\ s[2 * i] = "/"
  <2>1. \A i \in 1 .. 1 : 2 * i - 1 = 1 /\ 2 * i = 2
    OBVIOUS
  <2> QED BY <1>5, <2>1
<1>8. 2 * 1 <= Len(s)
  BY <1>4, <1>5
<1>9. Trim(s, host) = SubSeq(s, 2 * 1 + 1, Len(s))
  <2>1. PICK k \in Nat : k = 1
    OBVIOUS
  <2>2. /\ 2 * k <= Len(s)
        /\ \A i \in 1 .. k : s[2 * i - 1] = host /\ s[2 * i] = "/"
        /\ ~(2 * k + 2 <= Len(s) /\ s[2 * k + 1] = host /\ s[2 * k + 2] = "/")
    BY <1>6, <1>7, <1>8, <2>1
  <2>3. Trim(s, host) = SubSeq(s, 2 * k + 1, Len(s))
    BY <1>4, <2>2, TrimIs
  <2> QED BY <2>1, <2>3
<1>10. SubSeq(s, 2 * 1 + 1, Len(s)) = t
  <2>1. 2 * 1 + 1 = 2 + 1
    OBVIOUS
  <2> QED BY <1>5, <2>1 DEF Beyond
<1> QED BY <1>1, <1>3, <1>9, <1>10

Trimmed(s) == Trim(Trim(Trim(s, "docker.io"), "index.docker.io"), "registry-1.docker.io")

LEMMA TrimmedNone ==
  ASSUME NEW s \in Seq(Words), \A h \in Hubs : ~Starts(s, h)
  PROVE  Trimmed(s) = s
<1>1. /\ ~Starts(s, "docker.io") /\ ~Starts(s, "index.docker.io")
      /\ ~Starts(s, "registry-1.docker.io")
  BY DEF Hubs
<1> QED BY <1>1, TrimNone DEF Trimmed

LEMMA TrimmedHub ==
  ASSUME NEW t \in Seq(Words), \A h \in Hubs : ~Starts(t, h), NEW host \in Hubs
  PROVE  Trimmed((<<host>> \o <<"/">>) \o t) = t
<1>1. PICK s : s = (<<host>> \o <<"/">>) \o t
  OBVIOUS
<1>2. host \in Words /\ "/" \in Words
  BY ImageNamesAssumption DEF Separators
<1>3. s \in Seq(Words) /\ Trim(s, host) = t
  <2>1. Trim(s, host) = t
    BY <1>1, <1>2, TrimOne
  <2>2. <<host>> \in Seq(Words)
    BY <1>2, OneWord
  <2> QED BY <1>1, <1>2, <2>1, <2>2, Separated
<1>4. s[1] = host
  <2>1. <<host>> \in Seq(Words) /\ Len(<<host>>) = 1 /\ <<host>>[1] = host
    BY <1>2, OneWord
  <2>2. \A i \in 1 .. Len(<<host>>) : s[i] = <<host>>[i]
    BY <1>1, <1>2, <2>1, Separated
  <2> QED BY <2>1, <2>2
<1>5. \A h \in Hubs : h # host => Trim(s, h) = s
  BY <1>3, <1>4, TrimNone DEF Starts
<1>6. \A h \in Hubs : Trim(t, h) = t
  BY TrimNone
<1>7. /\ "docker.io" \in Hubs /\ "index.docker.io" \in Hubs
      /\ "registry-1.docker.io" \in Hubs
  BY DEF Hubs
<1>8. CASE host = "docker.io"
  BY <1>1, <1>3, <1>6, <1>7, <1>8 DEF Trimmed
<1>9. CASE host = "index.docker.io"
  <2>1. Trim(s, "docker.io") = s
    BY <1>5, <1>7, <1>9
  <2> QED BY <1>1, <1>3, <1>6, <1>7, <1>9, <2>1 DEF Trimmed
<1>10. CASE host = "registry-1.docker.io"
  <2>1. Trim(s, "docker.io") = s
    BY <1>5, <1>7, <1>10
  <2>2. Trim(s, "index.docker.io") = s
    BY <1>5, <1>7, <1>10
  <2> QED BY <1>1, <1>3, <1>10, <2>1, <2>2 DEF Trimmed
<1> QED BY <1>8, <1>9, <1>10 DEF Hubs
(* What repositories_match compares. *)
NormalForm(r) == IF OnHub(r) THEN HubPath(r) ELSE Repository(r)

LEMMA NormalizedPath ==
  ASSUME NEW r, IsReference(r), OnHub(r)
  PROVE  Normalized(r.path) = HubPath(r)
<1>1. r.path[1] \notin Hubs
  BY ImageNamesAssumption DEF IsReference
<1>2. r.path \in Seq(Words) /\ \A h \in Hubs : ~Starts(r.path, h)
  BY <1>1, PathShape DEF Starts
<1>3. Trimmed(r.path) = r.path
  BY <1>2, TrimmedNone
<1> QED BY <1>3 DEF Normalized, Trimmed, HubPath

LEMMA NormalizedRepository ==
  ASSUME NEW r, IsReference(r)
  PROVE  Normalized(Repository(r)) = NormalForm(r)
<1>1. CASE r.host = NoName
  <2>1. Repository(r) = r.path /\ OnHub(r)
    BY <1>1, RepositoryShape DEF OnHub
  <2> QED BY <2>1, NormalizedPath DEF NormalForm
<1>2. CASE r.host # NoName /\ OnHub(r)
  <2>1. /\ r.host \in Seq(Words)
        /\ Repository(r) = (r.host \o <<"/">>) \o r.path
    BY <1>2, RepositoryShape
  <2>2. r.host[1] \in Hubs /\ r.host = <<r.host[1]>>
    BY <1>2, <2>1, OneWordOnly DEF OnHub
  <2>3. r.path[1] \notin Hubs
    BY <1>2, ImageNamesAssumption DEF IsReference
  <2>4. r.path \in Seq(Words) /\ \A h \in Hubs : ~Starts(r.path, h)
    BY <2>3, PathShape DEF Starts
  <2>5. Trimmed(Repository(r)) = r.path
    <3>1. PICK h \in Hubs : h = r.host[1]
      BY <2>2
    <3>2. Trimmed((<<h>> \o <<"/">>) \o r.path) = r.path
      BY <2>4, TrimmedHub
    <3> QED BY <2>1, <2>2, <3>1, <3>2
  <2> QED BY <1>2, <2>5 DEF Normalized, Trimmed, HubPath, NormalForm
<1>3. CASE r.host # NoName /\ ~OnHub(r)
  <2>1. PICK h, s : h = r.host /\ s = Repository(r)
    OBVIOUS
  <2>2. /\ h \in Seq(Words) /\ IsHost(h) /\ s \in Seq(Words)
        /\ \A i \in 1 .. Len(h) : s[i] = h[i]
        /\ s[Len(h) + 1] = "/" /\ Len(s) = Len(h) + 1 + Len(r.path)
    BY <1>3, <2>1, RepositoryShape
  <2>3. Len(h) \in {1, 3} /\ (Len(h) = 3 => h[2] = ":")
    BY <2>2, HostShape
  <2>4. \A u \in Hubs : ~Starts(s, u)
    <3>1. CASE Len(h) = 1
      <4>1. h[1] \notin Hubs /\ s[1] = h[1]
        BY <1>3, <2>1, <2>2, <3>1 DEF OnHub
      <4> QED BY <4>1 DEF Starts
    <3>2. CASE Len(h) = 3
      <4>1. s[2] = ":"
        BY <2>2, <2>3, <3>2
      <4> QED BY <4>1 DEF Starts
    <3> QED BY <2>3, <3>1, <3>2
  <2>5. Trimmed(s) = s
    BY <2>2, <2>4, TrimmedNone
  <2>6. Contains(s, "/")
    <3>1. PICK m, n : m = Len(h) /\ n = Len(r.path)
      OBVIOUS
    <3>2. m \in {1, 3} /\ n \in Nat /\ Len(s) = m + 1 + n /\ s[m + 1] = "/"
      BY <2>2, <2>3, <3>1, PathShape
    <3>3. m + 1 \in 1 .. Len(s)
      BY <3>2
    <3> QED BY <3>2, <3>3 DEF Contains
  <2>7. Normalized(s) = s
    BY <2>5, <2>6 DEF Normalized, Trimmed
  <2> QED BY <1>3, <2>1, <2>7 DEF NormalForm
<1> QED BY <1>1, <1>2, <1>3

LEMMA NormalizedFamiliar ==
  ASSUME NEW r, IsReference(r)
  PROVE  Normalized(Familiar(r)) = NormalForm(r)
<1>1. CASE r.host \notin {NoName, <<"docker.io">>, <<"index.docker.io">>}
  <2>1. Familiar(r) = Repository(r)
    BY <1>1 DEF Familiar
  <2> QED BY <2>1, NormalizedRepository
<1>2. CASE r.host \in {NoName, <<"docker.io">>, <<"index.docker.io">>}
  <2>1. OnHub(r) /\ NormalForm(r) = HubPath(r)
    <3>1. \A h \in Hubs : Len(<<h>>) = 1 /\ <<h>>[1] = h
      OBVIOUS
    <3>2. "docker.io" \in Hubs /\ "index.docker.io" \in Hubs
      BY DEF Hubs
    <3>3. OnHub(r)
      BY <1>2, <3>1, <3>2 DEF OnHub
    <3> QED BY <3>3 DEF NormalForm
  <2>2. CASE Len(r.path) = 3 /\ r.path[1] = "library"
    <3>1. PICK p, w : p = r.path /\ w = r.path[3]
      OBVIOUS
    <3>2. /\ p \in Seq(Words) /\ Len(p) = 3 /\ p[1] = "library" /\ p[2] = "/"
          /\ p[3] = w /\ w # "/" /\ w \in Words
      <4>1. p[2] = "/" /\ p[3] # "/" /\ p \in Seq(Words)
        <5>1. Len(p) >= 2 /\ Len(p) >= 3
          BY <2>2, <3>1
        <5> QED BY <3>1, <5>1, PathShape
      <4>2. p[3] \in Words
        BY <2>2, <3>1, <4>1, ElementOfSeq
      <4> QED BY <2>2, <3>1, <4>1, <4>2
    <3>3. PICK s : s = <<w>>
      OBVIOUS
    <3>4. s \in Seq(Words) /\ Len(s) = 1 /\ s[1] = w
      BY <3>2, <3>3, OneWord
    <3>5. Trimmed(s) = s
      <4>1. \A h \in Hubs : ~Starts(s, h)
        BY <3>4 DEF Starts
      <4> QED BY <3>4, <4>1, TrimmedNone
    <3>6. ~Contains(s, "/")
      BY <3>2, <3>4 DEF Contains
    <3>7. Normalized(s) = <<"library", "/">> \o s
      BY <3>5, <3>6 DEF Normalized, Trimmed
    <3>8. "library" \in Words /\ "/" \in Words
      BY ImageNamesAssumption DEF Separators
    <3>9. PICK l : l = <<"library", "/">>
      OBVIOUS
    <3>10. l \in Seq(Words) /\ Len(l) = 2 /\ l[1] = "library" /\ l[2] = "/"
      <4>1. l = <<"library">> \o <<"/">>
        BY <3>8, <3>9, TwoWords
      <4>2. l \in Seq(Words)
        BY <3>8, <4>1, OneWord, ConcatProperties
      <4> QED BY <3>9, <4>2
    <3>11. PICK t : t = l \o s
      OBVIOUS
    <3>12. /\ t \in Seq(Words) /\ Len(t) = Len(l) + Len(s)
           /\ \A i \in 1 .. Len(l) : t[i] = l[i]
           /\ \A i \in 1 .. Len(s) : t[Len(l) + i] = s[i]
      BY <3>4, <3>10, <3>11, Joined
    <3>13. Len(t) = 3 /\ t[1] = p[1] /\ t[2] = p[2] /\ t[3] = p[3]
      BY <3>2, <3>4, <3>10, <3>12
    <3>14. \A i \in 1 .. Len(t) : t[i] = p[i]
      BY <3>13
    <3>15. t = p
      BY <3>2, <3>12, <3>13, <3>14, SeqEqual
    <3>16. HubPath(r) = p
      <4>1. Len(r.path) # 1
        BY <2>2
      <4> QED BY <3>1, <4>1, DeepPath
    <3>17. Familiar(r) = s
      BY <1>2, <2>2, <3>1, <3>3 DEF Familiar
    <3> QED BY <2>1, <3>7, <3>9, <3>11, <3>15, <3>16, <3>17
  <2>3. CASE ~(Len(r.path) = 3 /\ r.path[1] = "library")
    <3>1. Familiar(r) = r.path
      BY <1>2, <2>3 DEF Familiar
    <3> QED BY <2>1, <3>1, NormalizedPath
  <2> QED BY <2>2, <2>3
<1> QED BY <1>1, <1>2
LEMMA HubPathShape ==
  ASSUME NEW r, IsReference(r), OnHub(r)
  PROVE  /\ HubPath(r) \in Seq(Words) /\ Len(HubPath(r)) \in Nat /\ Len(HubPath(r)) >= 3
         /\ HubPath(r)[1] \notin Dotted /\ HubPath(r)[1] # "localhost"
         /\ HubPath(r)[2] = "/"
<1>1. CASE Len(r.path) = 1
  <2>1. HubPath(r) \in Seq(Words) /\ Len(HubPath(r)) = 3
        /\ HubPath(r)[1] = "library" /\ HubPath(r)[2] = "/"
    BY <1>1, LibraryPath
  <2>2. "library" \notin Dotted
    BY ImageNamesAssumption
  <2> QED BY <2>1, <2>2
<1>2. CASE Len(r.path) # 1
  <2>1. HubPath(r) = r.path /\ Len(r.path) >= 3
    BY <1>2, DeepPath
  <2>2. r.path[1] \notin Dotted \cup {"localhost"}
    BY DEF IsReference
  <2>3. r.path \in Seq(Words) /\ Len(r.path) \in Nat
    BY PathShape
  <2>4. r.path[2] = "/"
    <3>1. Len(r.path) >= 2
      BY <2>1, <2>3
    <3> QED BY <3>1, PathShape
  <2> QED BY <2>1, <2>2, <2>3, <2>4
<1> QED BY <1>1, <1>2

LEMMA SameTail ==
  ASSUME NEW s \in Seq(Words), NEW t \in Seq(Words), Len(s) >= 3, Len(t) >= 3,
         s[1] = t[1], s[2] = t[2], SubSeq(s, 3, Len(s)) = SubSeq(t, 3, Len(t))
  PROVE  s = t
<1>1. PICK m, n : m = Len(s) /\ n = Len(t)
  OBVIOUS
<1>2. m \in Nat /\ n \in Nat /\ m >= 3 /\ n >= 3
  BY <1>1, LenProperties
<1>3. PICK u : u = SubSeq(s, 3, m)
  OBVIOUS
<1>4. u = SubSeq(t, 3, n)
  BY <1>1, <1>3
<1>5. /\ Len(u) = m - 3 + 1
      /\ \A i \in 1 .. m - 3 + 1 : u[i] = s[3 + i - 1]
  <2>1. \A i \in 3 .. m : s[i] \in Words
    BY <1>1, <1>2, ElementOfSeq
  <2> QED BY <1>2, <1>3, <2>1, SubSeqProperties
<1>6. /\ Len(u) = n - 3 + 1
      /\ \A i \in 1 .. n - 3 + 1 : u[i] = t[3 + i - 1]
  <2>1. \A i \in 3 .. n : t[i] \in Words
    BY <1>1, <1>2, ElementOfSeq
  <2> QED BY <1>2, <1>4, <2>1, SubSeqProperties
<1>7. m = n
  BY <1>2, <1>5, <1>6
<1>8. \A i \in 1 .. m : s[i] = t[i]
  <2>1. TAKE i \in 1 .. m
  <2>2. CASE i >= 3
    <3>1. PICK j : j = i - 2
      OBVIOUS
    <3>2. j \in 1 .. m - 3 + 1 /\ 3 + j - 1 = i
      BY <1>2, <2>2, <3>1
    <3> QED BY <1>5, <1>6, <1>7, <3>2
  <2>3. CASE i < 3
    <3>1. i = 1 \/ i = 2
      BY <2>3
    <3> QED BY <3>1
  <2> QED BY <2>2, <2>3
<1> QED BY <1>1, <1>7, <1>8, SeqEqual

(* On a registry of its own, a repository names the registry and the path. *)
LEMMA ForeignRepository ==
  ASSUME NEW r, IsReference(r), ~OnHub(r)
  PROVE  /\ r.host # NoName /\ Repository(r) = (r.host \o <<"/">>) \o r.path
         /\ r.host \in Seq(Words) /\ r.path \in Seq(Words)
         /\ UpTo(Repository(r), FirstAt(Repository(r), "/")) = r.host
         /\ Beyond(Repository(r), FirstAt(Repository(r), "/")) = r.path
         /\ Repository(r)[2] = "/" =>
              Repository(r)[1] \in Dotted \cup {"localhost"}
<1>1. r.host # NoName
  BY DEF OnHub
<1>2. PICK h, p, s : h = r.host /\ p = r.path /\ s = Repository(r)
  OBVIOUS
<1>3. /\ h \in Seq(Words) /\ IsHost(h) /\ s = (h \o <<"/">>) \o p
      /\ \A i \in 1 .. Len(h) : s[i] = h[i]
  BY <1>1, <1>2, RepositoryShape
<1>4. p \in Seq(Words) /\ "/" \in Words
  BY <1>2, PathShape, ImageNamesAssumption DEF Separators
<1>5. Len(h) \in {1, 3} /\ \A j \in 1 .. Len(h) : h[j] # "/"
  BY <1>3, HostShape
<1>6. UpTo(s, FirstAt(s, "/")) = h /\ Beyond(s, FirstAt(s, "/")) = p
  BY <1>3, <1>4, <1>5, CutAtFirst
<1>7. s[2] = "/" => s[1] \in Dotted \cup {"localhost"}
  <2>1. CASE Len(h) = 1
    BY <1>3, <2>1 DEF IsHost
  <2>2. CASE Len(h) = 3
    <3>1. s[2] = h[2] /\ h[2] # "/"
      BY <1>3, <1>5, <2>2
    <3> QED BY <3>1
  <2> QED BY <1>5, <2>1, <2>2
<1> QED BY <1>1, <1>2, <1>3, <1>4, <1>6, <1>7

LEMMA SameForm ==
  ASSUME NEW q, NEW r, IsReference(q), IsReference(r)
  PROVE  NormalForm(q) = NormalForm(r) <=> SourceOf(q) = SourceOf(r)
<1>1. ASSUME NEW a, NEW b, IsReference(a), IsReference(b), OnHub(a), ~OnHub(b)
      PROVE  NormalForm(a) # NormalForm(b) /\ SourceOf(a) # SourceOf(b)
  <2>1. /\ HubPath(a)[2] = "/"
        /\ HubPath(a)[1] \notin Dotted /\ HubPath(a)[1] # "localhost"
    BY <1>1, HubPathShape
  <2>2. Repository(b)[2] = "/" => Repository(b)[1] \in Dotted \cup {"localhost"}
    BY <1>1, ForeignRepository
  <2>3. NormalForm(a) # NormalForm(b)
    BY <1>1, <2>1, <2>2 DEF NormalForm
  <2>4. SourceOf(a).kind = "docker_hub" /\ SourceOf(b).kind = "oci_registry"
    BY <1>1 DEF SourceOf
  <2> QED BY <2>3, <2>4
<1>2. CASE OnHub(q) /\ OnHub(r)
  <2>1. /\ NormalForm(q) = HubPath(q) /\ NormalForm(r) = HubPath(r)
        /\ SourceOf(q) = [kind |-> "docker_hub", namespace |-> <<HubPath(q)[1]>>,
                          repository |-> SubSeq(HubPath(q), 3, Len(HubPath(q)))]
        /\ SourceOf(r) = [kind |-> "docker_hub", namespace |-> <<HubPath(r)[1]>>,
                          repository |-> SubSeq(HubPath(r), 3, Len(HubPath(r)))]
    BY <1>2 DEF NormalForm, SourceOf
  <2>2. ASSUME SourceOf(q) = SourceOf(r)
        PROVE  HubPath(q) = HubPath(r)
    <3>1. PICK s, t : s = HubPath(q) /\ t = HubPath(r)
      OBVIOUS
    <3>2. /\ s \in Seq(Words) /\ Len(s) >= 3 /\ s[2] = "/"
          /\ t \in Seq(Words) /\ Len(t) >= 3 /\ t[2] = "/"
      BY <1>2, <3>1, HubPathShape
    <3>3. SourceOf(q).namespace = <<s[1]>> /\ SourceOf(r).namespace = <<t[1]>>
          /\ SourceOf(q).repository = SubSeq(s, 3, Len(s))
          /\ SourceOf(r).repository = SubSeq(t, 3, Len(t))
      BY <2>1, <3>1
    <3>4. <<s[1]>> = <<t[1]>> /\ SubSeq(s, 3, Len(s)) = SubSeq(t, 3, Len(t))
      BY <2>2, <3>3
    <3>5. s[1] = t[1]
      BY <3>4
    <3> QED BY <3>1, <3>2, <3>4, <3>5, SameTail
  <2> QED BY <2>1, <2>2
<1>3. CASE ~OnHub(q) /\ ~OnHub(r)
  <2>1. /\ NormalForm(q) = Repository(q) /\ NormalForm(r) = Repository(r)
        /\ SourceOf(q) = [kind |-> "oci_registry", registry |-> q.host,
                          repository |-> q.path]
        /\ SourceOf(r) = [kind |-> "oci_registry", registry |-> r.host,
                          repository |-> r.path]
    BY <1>3 DEF NormalForm, SourceOf
  <2>2. ASSUME SourceOf(q) = SourceOf(r)
        PROVE  Repository(q) = Repository(r)
    <3>1. q.host = r.host /\ q.path = r.path
      BY <2>1, <2>2
    <3> QED BY <3>1 DEF Repository
  <2>3. ASSUME Repository(q) = Repository(r)
        PROVE  SourceOf(q) = SourceOf(r)
    <3>1. q.host = r.host /\ q.path = r.path
      BY <1>3, <2>3, ForeignRepository
    <3> QED BY <2>1, <3>1
  <2> QED BY <2>1, <2>2, <2>3
<1> QED BY <1>1, <1>2, <1>3

LEMMA RepositoryNames ==
  ASSUME NEW r \in Repositories
  PROVE  IsReference(r) /\ Text(r) = Repository(r)
<1>1. PICK q \in References : r = [q EXCEPT !.tag = NoName, !.digest = NoName]
  BY DEF Repositories
<1>2. IsReference(q)
  BY ImageNamesAssumption
<1>3. <<>> \in Seq(Words)
  BY EmptySeq
<1>4. /\ r \in [host : Seq(Words), path : Seq(Words), tag : Seq(Words), digest : Seq(Words)]
      /\ r.host = q.host /\ r.path = q.path /\ r.tag = NoName /\ r.digest = NoName
  BY <1>1, <1>2, <1>3 DEF IsReference, NoName
<1>5. OnHub(r) <=> OnHub(q)
  BY <1>4 DEF OnHub
<1>6. ToSet(r.tag) \cap Separators = {}
  <2>1. ToSet(<<>>) = {}
    BY DEF ToSet
  <2> QED BY <1>4, <2>1 DEF NoName
<1>7. IsReference(r)
  BY <1>2, <1>4, <1>5, <1>6 DEF IsReference
<1>8. Text(r) = Repository(r)
  <2>1. PICK s : s = Repository(r)
    OBVIOUS
  <2>2. s \in Seq(Words)
    BY <1>7, <2>1, RepositoryShape
  <2>3. (s \o <<>>) \o <<>> = s
    BY <2>2, ConcatEmptySeq
  <2> QED BY <1>4, <2>1, <2>3 DEF Text
<1> QED BY <1>7, <1>8

LEMMA MatchSource ==
  ASSUME NEW q \in Repositories, NEW r \in Repositories
  PROVE  /\ repositories_match(Familiar(q), Text(r)) <=> SourceOf(q) = SourceOf(r)
         /\ service_from_image(Text(r)).version_source = SourceOf(r)
<1>1. IsReference(q) /\ IsReference(r) /\ Text(r) = Repository(r)
  BY RepositoryNames
<1>2. Normalized(Familiar(q)) = NormalForm(q) /\ Normalized(Text(r)) = NormalForm(r)
  BY <1>1, NormalizedFamiliar, NormalizedRepository
<1>3. repositories_match(Familiar(q), Text(r)) <=> NormalForm(q) = NormalForm(r)
  BY <1>2 DEF repositories_match
<1>4. service_from_image(Text(r)).version_source = SourceOf(r)
  BY <1>1, SourceIs
<1> QED BY <1>1, <1>3, <1>4, SameForm

LEMMA MinIn ==
  ASSUME NEW S \in SUBSET Nat, S # {}
  PROVE  Min(S) \in S
<1>1. PICK m \in S : \A e \in S : ~(<<e, m>> \in OpToRel(<, Nat))
  BY NatLessThanWellFounded, WFMin
<1>2. \A e \in S : ~(e < m)
  BY <1>1 DEF OpToRel
<1>3. \A e \in S : m <= e
  BY <1>2
<1> QED BY <1>3, LeastPlace

LEMMA PinnedIsOwn ==
  ASSUME NEW image \in Repositories, NEW recorded \in RepoDigests
  PROVE  LET own     == {Familiar(r) : r \in {q \in Repositories :
                                                SourceOf(q) = SourceOf(image)}}
             digests == {d.digest : d \in {e \in ToSet(recorded) : e.repo \in own}}
             pinned  == image_artifact(recorded, Text(image))
         IN  IF digests = {} THEN pinned = NoName ELSE pinned \in digests
<1> DEFINE own     == {Familiar(r) : r \in {q \in Repositories :
                                               SourceOf(q) = SourceOf(image)}}
           digests == {d.digest : d \in {e \in ToSet(recorded) : e.repo \in own}}
           pinned  == image_artifact(recorded, Text(image))
           found   == {k \in DOMAIN recorded :
                          repositories_match(recorded[k].repo, Text(image))}
<1>1. PICK n \in Nat : recorded \in [1 .. n -> Recorded]
  <2>1. recorded \in UNION {[1 .. m -> Recorded] : m \in 0 .. MaxDigests}
    BY DEF RepoDigests, BoundedSeq, SeqOf
  <2> QED BY <2>1, ImageNamesAssumption
<1>2. \A k \in DOMAIN recorded :
        repositories_match(recorded[k].repo, Text(image)) <=> recorded[k].repo \in own
  <2>1. TAKE k \in DOMAIN recorded
  <2>2. PICK q \in Repositories : recorded[k].repo = Familiar(q)
    BY <1>1 DEF Recorded
  <2>3. \A r \in Repositories :
           repositories_match(Familiar(r), Text(image)) <=> SourceOf(r) = SourceOf(image)
    BY MatchSource
  <2> QED BY <2>2, <2>3
<1>3. found = {k \in DOMAIN recorded : recorded[k].repo \in own}
  BY <1>2
<1>4. \A k \in found : recorded[k].digest \in digests
  <2> HIDE DEF own
  <2> QED BY <1>3 DEF ToSet
<1>5. digests # {} => found # {}
  <2> HIDE DEF own
  <2> QED BY <1>3 DEF ToSet
<1>6. pinned = IF found = {} THEN NoName ELSE recorded[Min(found)].digest
  BY DEF image_artifact
<1>7. found # {} => Min(found) \in found
  <2>1. found \in SUBSET Nat
    BY <1>1
  <2> HIDE DEF found
  <2> QED BY <2>1, MinIn
<1> HIDE DEF found, digests, own, pinned
<1>8. IF digests = {} THEN pinned = NoName ELSE pinned \in digests
  BY <1>4, <1>5, <1>6, <1>7
<1> QED BY <1>8 DEF digests, own, pinned

(* Whatever images the Compose files name and docker knows: they are split as   *)
(* docker splits them, local images are paired with the services of the same    *)
(* repository, and the digest that is pinned is one of that repository.         *)
THEOREM NamesReadSoundly == Spec => []NamesReadAsDocker
<1>1. SourceOfImage
  BY SourceIs, ImageNamesAssumption DEF SourceOfImage, WronglySplit
<1>2. MatchIsSameSource
  BY MatchSource DEF MatchIsSameSource, WronglyMatched
<1>3. PinnedInRepository
  <2>1. ASSUME NEW p \in [image : Repositories, recorded : RepoDigests]
        PROVE  LET own     == {Familiar(r) : r \in {q \in Repositories :
                                                       SourceOf(q) = SourceOf(p.image)}}
                   digests == {d.digest : d \in {e \in ToSet(p.recorded) : e.repo \in own}}
                   pinned  == image_artifact(p.recorded, Text(p.image))
               IN  IF digests = {} THEN pinned = NoName ELSE pinned \in digests
    <3>1. p.image \in Repositories /\ p.recorded \in RepoDigests
      OBVIOUS
    <3> QED BY <3>1, PinnedIsOwn
  <2> QED BY Zenon, <2>1 DEF PinnedInRepository, WronglyPinned
<1>4. NamesReadAsDocker
  BY <1>1, <1>2, <1>3 DEF NamesReadAsDocker
<1> QED BY <1>4, PTL
=============================================================================
