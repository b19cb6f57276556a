--------------------------------- MODULE Page ---------------------------------
(***************************************************************************)
(* The deployment tab of src/src/assets/app.js, for one project: the       *)
(* requests it has under way, what their answers do to the state of the    *)
(* page, in whatever order they arrive, and what the user is then offered  *)
(* and told.  The server is one number, three for each operation: it runs, *)
(* its row has ended, its permit is returned.  Waiting for a request never *)
(* blocks the user, timers, or another request.                            *)
(***************************************************************************)
EXTENDS Naturals

CONSTANTS
    Services, None,
    Calls,         \* bound: version queries that are under way at once
    MaxOps,        \* bound: operations
    MaxFailures    \* bound: requests that fail

ASSUME PageAssumption == None \notin Services /\ {MaxOps, MaxFailures} \subseteq Nat

Statuses == {"succeeded", "failed", "interrupted"}

(* What a page may wait for in vain: a row that is gone, or one whose last write *)
(* failed, so that it says running though the operation is over.                 *)
Lost == {"pruned", "stranded"}

VARIABLES
    server,        \* steps of the project's operations so far
    projects,      \* the server that the shown projects are an answer of
    load,          \* loadProjects: projectsLoading, and the answer on its way
    selected,      \* the service whose name heads the list of versions
    calls,         \* selectService: the queries under way
    offer,         \* latestVersion: of which service it is
    dialog,        \* the confirmation: its service, and of which the version is
    poll,          \* poll() of the operation this page started, and the row
                   \* of that operation, as the server has it, while it asks
    skipped,       \* poll() has found projectsLoading set
    overlapped,    \* a service was selected while a query was under way
    failures

vars == <<server, projects, load, selected, calls, offer, dialog, poll,
          skipped, overlapped, failures>>

Running(n) == n % 3 = 1   \* the row is queued or running
Busy(n)    == n % 3 # 0   \* the permit is held
NoLoad     == [pc |-> "idle", seen |-> 0]
NoCall     == [service |-> None, busy |-> FALSE, poll |-> FALSE]
NoOffer    == [of |-> None, enabled |-> FALSE]
NoDialog   == [service |-> None, version |-> None]
NoPoll     == [pc |-> "idle", service |-> None, end |-> 0, row |-> "none"]

Load   == [pc : {"idle", "asked", "answered"}, seen : 0 .. server]
Call   == [service : Services \cup {None}, busy : BOOLEAN, poll : BOOLEAN]
Offer  == [of : Services \cup {None}, enabled : BOOLEAN]
Dialog == [service : Services \cup {None}, version : Services \cup {None}]
Poll   == [pc : {"idle", "asking", "ended", "reloading", "reselect", "showing"},
           service : Services \cup {None}, end : 0 .. 3 * MaxOps,
           row : {"none", "running"} \cup Statuses \cup Lost]

TypeOK ==
    /\ server \in 0 .. 3 * MaxOps /\ projects \in 0 .. server
    /\ load \in Load /\ poll \in Poll
    /\ selected \in Services \cup {None} /\ calls \in [Calls -> Call]
    /\ offer \in Offer /\ dialog \in Dialog
    /\ skipped \in BOOLEAN /\ overlapped \in BOOLEAN
    /\ failures \in 0 .. MaxFailures

Init ==
    /\ server = 0 /\ projects = 0 /\ load = NoLoad
    /\ selected = None /\ calls = [c \in Calls |-> NoCall]
    /\ offer = NoOffer /\ dialog = NoDialog /\ poll = NoPoll
    /\ skipped = FALSE /\ overlapped = FALSE /\ failures = 0

-----------------------------------------------------------------------------
(* The server; somebody else may use it as well.                             *)
OtherStarts ==
    /\ ~Busy(server) /\ server < 3 * MaxOps /\ server' = server + 1
    /\ UNCHANGED <<projects, load, selected, calls, offer, dialog, poll, skipped,
                   overlapped, failures>>

(* The row gets its last status, if it can be written ...                    *)
RowEnds ==
    /\ Running(server) /\ server' = server + 1
    /\ \E status \in Statuses \cup {"stranded"} :
         poll' = [poll EXCEPT !.row = IF @ = "running" THEN status ELSE @]
    /\ UNCHANGED <<projects, load, selected, calls, offer, dialog, skipped, overlapped,
                   failures>>

(* ... and then the task rebuilds the override and returns its permit.       *)
PermitReturned ==
    /\ Busy(server) /\ ~Running(server) /\ server' = server + 1
    /\ UNCHANGED <<projects, load, selected, calls, offer, dialog, poll, skipped,
                   overlapped, failures>>

(* prune: a request to any project deletes the ended rows that history_limit   *)
(* newer ones have followed; a row that poll() still asks for is among them.   *)
Prune ==
    /\ poll.pc = "asking" /\ poll.row \in Statuses
    /\ poll' = [poll EXCEPT !.row = "pruned"]
    /\ UNCHANGED <<server, projects, load, selected, calls, offer, dialog, skipped,
                   overlapped, failures>>

(* The next start of the server ends a row that was left running. *)
Recovered ==
    /\ poll.row = "stranded"
    /\ poll' = [poll EXCEPT !.row = "interrupted"]
    /\ UNCHANGED <<server, projects, load, selected, calls, offer, dialog, skipped,
                   overlapped, failures>>

-----------------------------------------------------------------------------
(* loadProjects: by a timer, when the page is shown again, or by poll().     *)
LoadProjects ==
    /\ load.pc = "idle" /\ load' = [load EXCEPT !.pc = "asked"]
    /\ UNCHANGED <<server, projects, selected, calls, offer, dialog, poll,
                   skipped, overlapped, failures>>

AnswerProjects ==
    /\ load.pc = "asked" /\ load' = [pc |-> "answered", seen |-> server]
    /\ UNCHANGED <<server, projects, selected, calls, offer, dialog, poll,
                   skipped, overlapped, failures>>

FaultyCleared == [load EXCEPT !.pc = IF @ = "asked" THEN "failed" ELSE "idle"]
Cleared == NoLoad      \* finally: projectsLoading = false

(* poll() goes on when the load that it awaits is over. *)
Awaited == IF poll.pc = "reloading" THEN [poll EXCEPT !.pc = "reselect"] ELSE poll

ShowProjects ==
    /\ load.pc = "answered"
    /\ projects' = load.seen /\ load' = Cleared /\ poll' = Awaited
    /\ UNCHANGED <<server, selected, calls, offer, dialog, skipped, overlapped,
                   failures>>

Kept == projects       \* a load that fails replaces only what is displayed

LoadFails ==
    /\ load.pc = "asked" /\ failures < MaxFailures /\ failures' = failures + 1
    /\ projects' = Kept
    /\ load' = Cleared /\ poll' = Awaited
    /\ skipped' = (skipped \/ poll.pc = "reloading")
    /\ UNCHANGED <<server, selected, calls, offer, dialog, overlapped>>

-----------------------------------------------------------------------------
FaultyForgotten == offer
Forgotten == NoOffer   \* latestVersion = null, #deploy-latest is disabled

(* selectService, up to its query; it keeps the project and service it found. *)
Ask(c, s, byPoll) ==
    /\ calls[c] = NoCall
    /\ selected' = s /\ offer' = Forgotten
    /\ calls' = [calls EXCEPT ![c] = [service |-> s, busy |-> Busy(projects), poll |-> byPoll]]
    /\ overlapped' = (overlapped \/ \E d \in Calls : calls[d] # NoCall)

SelectService(c, s) ==
    /\ dialog = NoDialog /\ Ask(c, s, FALSE)
    /\ UNCHANGED <<server, projects, load, dialog, poll, skipped, failures>>

(* The rest of selectService, whichever service is selected by then. *)
Shown(c) ==
    /\ calls' = [calls EXCEPT ![c] = NoCall]
    /\ poll' = IF calls[c].poll THEN NoPoll ELSE poll

ShowVersions(c) ==
    /\ calls[c] # NoCall /\ Shown(c)
    /\ offer' = [of |-> calls[c].service, enabled |-> ~calls[c].busy]
    /\ UNCHANGED <<server, projects, load, selected, dialog, skipped,
                   overlapped, failures>>

VersionsFail(c) ==
    /\ calls[c] # NoCall /\ Shown(c)
    /\ failures < MaxFailures /\ failures' = failures + 1
    /\ UNCHANGED <<server, projects, load, selected, offer, dialog, skipped,
                   overlapped>>

(* refreshCompose hides the list of versions. *)
RefreshCompose ==
    /\ dialog = NoDialog
    /\ selected # None /\ selected' = None /\ offer' = NoOffer
    /\ UNCHANGED <<server, projects, load, calls, dialog, poll, skipped,
                   overlapped, failures>>

-----------------------------------------------------------------------------
(* confirmDeploy: the dialog is modal, the user can do nothing else. *)
OpenDialog ==
    /\ dialog = NoDialog /\ selected # None /\ offer.enabled
    /\ dialog' = [service |-> selected, version |-> offer.of]
    /\ UNCHANGED <<server, projects, load, selected, calls, offer, poll,
                   skipped, overlapped, failures>>

Cancel ==
    /\ dialog # NoDialog /\ dialog' = NoDialog
    /\ UNCHANGED <<server, projects, load, selected, calls, offer, poll,
                   skipped, overlapped, failures>>

(* #confirm-go is disabled from a click until poll() is over; a project that is *)
(* busy refuses, and an answer that is lost is taken for a refusal.             *)
Confirm ==
    /\ dialog # NoDialog /\ poll = NoPoll
    /\ ~Busy(server) /\ server < 3 * MaxOps /\ server' = server + 1
    /\ \/ /\ dialog' = NoDialog
          /\ poll' = [pc |-> "asking", service |-> dialog.service, end |-> server + 2,
                      row |-> "running"]
          /\ skipped' = FALSE /\ UNCHANGED failures
       \/ /\ failures < MaxFailures /\ failures' = failures + 1
          /\ UNCHANGED <<dialog, poll, skipped>>
    /\ UNCHANGED <<projects, load, selected, calls, offer, overlapped>>

FaultyTerminal == {"succeeded", "failed"}
Terminal == {"succeeded", "failed", "interrupted"}

(* A round of poll() that finds the operation ended; the other rounds, those  *)
(* whose request fails and those that are answered with 404, because the row  *)
(* is gone, change nothing here.                                              *)
PollEnded ==
    /\ poll.pc = "asking" /\ poll.row \in Terminal
    /\ poll' = [poll EXCEPT !.pc = "ended", !.row = "none"]
    /\ UNCHANGED <<server, projects, load, selected, calls, offer, dialog,
                   skipped, overlapped, failures>>

FaultyPollReloads ==
    /\ poll.pc = "ended"
    /\ poll' = [poll EXCEPT !.pc = "reselect"]
    /\ UNCHANGED <<server, projects, load, selected, calls, offer, dialog,
                   skipped, overlapped, failures>>
(* await loadProjects() returns at once if a load is under way. *)
PollReloads ==
    /\ poll.pc = "ended"
    /\ \/ /\ load.pc = "idle"
          /\ load' = [load EXCEPT !.pc = "asked"]
          /\ poll' = [poll EXCEPT !.pc = "reloading"] /\ UNCHANGED skipped
       \/ /\ load.pc # "idle"
          /\ poll' = [poll EXCEPT !.pc = "reselect"] /\ skipped' = TRUE
          /\ UNCHANGED load
    /\ UNCHANGED <<server, projects, selected, calls, offer, dialog,
                   overlapped, failures>>

PollSelects(c) ==
    /\ poll.pc = "reselect" /\ Ask(c, poll.service, TRUE)
    /\ poll' = [poll EXCEPT !.pc = "showing"]
    /\ UNCHANGED <<server, projects, load, dialog, skipped, failures>>

-----------------------------------------------------------------------------
Answers == ShowProjects \/ LoadFails \/ AnswerProjects
PollStep == PollEnded \/ PollReloads \/ \E c \in Calls : PollSelects(c)
User ==
    \/ \E c \in Calls, s \in Services : SelectService(c, s)
    \/ RefreshCompose \/ OpenDialog \/ Cancel \/ Confirm

Next ==
    \/ OtherStarts \/ RowEnds \/ PermitReturned \/ Prune \/ Recovered
    \/ LoadProjects \/ Answers \/ PollStep \/ User
    \/ \E c \in Calls : ShowVersions(c) \/ VersionsFail(c)

Spec == Init /\ [][Next]_vars

(* The page is in view, so that its timers run; requests are answered or      *)
(* fail; operations end (Deploy).  The user has to do nothing.  A query is    *)
(* strongly fair because the bound Calls, not the code, makes it wait.        *)
Fairness ==
    /\ WF_vars(RowEnds) /\ WF_vars(PermitReturned)
    /\ WF_vars(LoadProjects) /\ WF_vars(Answers)
    /\ WF_vars(PollEnded \/ PollReloads)
    /\ SF_vars(\E c \in Calls : PollSelects(c))
    /\ \A c \in Calls : WF_vars(ShowVersions(c) \/ VersionsFail(c))

FairSpec == Spec /\ Fairness

-----------------------------------------------------------------------------
(* As long as no service is selected before the versions of the one before     *)
(* have come, the version that is offered is one of the service that heads the *)
(* list (app.js:411), and the version in the confirmation is one of the        *)
(* service to be confirmed, however reloads, polls and failures interleave.    *)
OfferWithoutOverlap ==
    ~overlapped => /\ offer.of \in {selected, None} \/ selected = None
                   /\ dialog.version = dialog.service

(* README.md:71: states are re-read as soon as an operation has ended, unless  *)
(* a load was under way, or failed: poll() then goes on with the projects it   *)
(* has.                                                                        *)
RereadUnlessSkipped ==
    poll.pc \in {"reselect", "showing"} => projects >= poll.end \/ skipped

(* The type invariant with it: the page is never ahead of the server.          *)
PollSound == TypeOK /\ RereadUnlessSkipped

(* The page comes to show the server's state, whatever failed and whatever    *)
(* was skipped: no failure stops the loads that follow.                       *)
PageCatchesUp == <>[](projects = server)

(* poll() ends after the operation, whatever its outcome: until then the      *)
(* confirmation of every other operation stays disabled.  Two exceptions: the *)
(* row is pruned before the round that would have found it ended, and poll()  *)
(* asks for it for ever; or its last status could not be written, and poll()  *)
(* waits for the next start of the server.                                    *)
PollEnds == poll # NoPoll ~> poll = NoPoll \/ poll.row \in Lost
=============================================================================
