----------------------------- MODULE PageProofs -----------------------------
(***************************************************************************)
(* Proofs about Page for any services, any number of queries under way, of *)
(* operations and of failures.                                             *)
(***************************************************************************)
EXTENDS Page, TLAPS

Waiting(c) == calls[c] # NoCall

(* Everything that is under way is about a service. *)
Named ==
    /\ \A c \in Calls : Waiting(c) => calls[c].service \in Services
    /\ offer.enabled => offer.of \in Services
    /\ dialog # NoDialog => dialog.service \in Services

PollNamed == poll.pc # "idle" => poll.service \in Services

(* The loads come one after the other, and one that poll() began was begun     *)
(* after the operation's row had ended.                                        *)
LoadInv ==
    /\ poll.row = "running" => poll.pc = "asking" /\ Running(server) /\ poll.end = server + 1
    /\ poll.row \in Statuses \cup Lost => poll.pc = "asking" /\ poll.end <= server
    /\ load.pc = "answered" => projects <= load.seen
    /\ poll.pc \in {"ended", "reloading"} => poll.end <= server
    /\ poll.pc = "reloading" =>
          load.pc # "idle" /\ (load.pc = "answered" => poll.end <= load.seen)

(* Without an overlap there is one query, of the service that is selected.     *)
OneCall ==
    ~overlapped =>
        /\ \A c, d \in Calls : Waiting(c) /\ Waiting(d) => c = d
        /\ \A c \in Calls : Waiting(c) => calls[c].service = selected \/ selected = None

Inv ==
    /\ TypeOK
    /\ Named /\ PollNamed
    /\ LoadInv
    /\ OneCall
    /\ RereadUnlessSkipped
    /\ OfferWithoutOverlap

(* The selection: what the user sees and the queries that may change it.    *)
Selection == <<selected, calls, offer, dialog, overlapped>>

SelectionTypes ==
    /\ selected \in Services \cup {None} /\ calls \in [Calls -> Call]
    /\ offer \in Offer /\ dialog \in Dialog /\ overlapped \in BOOLEAN

SelectionInv == SelectionTypes /\ Named /\ OneCall /\ OfferWithoutOverlap

(* The rest: the loads and poll(). *)
PollTypes ==
    /\ server \in 0 .. 3 * MaxOps /\ projects \in 0 .. server
    /\ load \in Load /\ poll \in Poll
    /\ skipped \in BOOLEAN /\ failures \in 0 .. MaxFailures

PollInv == PollTypes /\ PollNamed /\ LoadInv /\ RereadUnlessSkipped

-----------------------------------------------------------------------------
LEMMA Parts == Inv <=> SelectionInv /\ PollInv
BY Zenon DEF Inv, TypeOK, SelectionInv, SelectionTypes, PollInv, PollTypes

LEMMA NextParts == SelectionInv' /\ PollInv' => Inv'
BY Zenon DEF Inv, TypeOK, SelectionInv, SelectionTypes, PollInv, PollTypes

LEMMA Nothing ==
  /\ NoLoad.pc = "idle" /\ NoLoad.seen = 0
  /\ NoOffer.of = None /\ ~NoOffer.enabled /\ NoOffer \in Offer
  /\ NoDialog.service = None /\ NoDialog.version = None /\ NoDialog \in Dialog
  /\ NoPoll.pc = "idle" /\ NoPoll.row = "none" /\ NoCall.service = None
  /\ NoCall \in Call /\ NoPoll \in Poll
  /\ "none" \notin {"running"} \cup Statuses \cup Lost
  /\ Terminal = Statuses /\ "running" \notin Statuses \cup Lost
<1>1. NoOffer \in Offer /\ NoCall \in Call
  BY DEF NoOffer, Offer, NoCall, Call
<1>2. NoPoll \in Poll
  BY PageAssumption DEF NoPoll, Poll
<1> QED BY <1>1, <1>2 DEF NoLoad, NoOffer, NoDialog, Dialog, NoPoll, NoCall, Statuses, Lost,
    Terminal

LEMMA SelectionKept ==
  ASSUME SelectionInv, UNCHANGED Selection
  PROVE  SelectionInv'
<1>1. UNCHANGED <<selected, calls, offer, dialog, overlapped>>
  BY DEF Selection
<1>2. SelectionTypes'
  BY <1>1, Zenon DEF SelectionInv, SelectionTypes
<1>3. Named' /\ OneCall' /\ OfferWithoutOverlap'
  BY <1>1 DEF SelectionInv, Named, OneCall, OfferWithoutOverlap, Waiting
<1> QED BY <1>2, <1>3 DEF SelectionInv

LEMMA PollKept ==
  ASSUME PollInv, UNCHANGED <<server, projects, load, poll, skipped>>,
         failures' \in 0 .. MaxFailures
  PROVE  PollInv'
<1>1. skipped' \in BOOLEAN
  BY Zenon DEF PollInv, PollTypes
<1>2. PollTypes'
  BY <1>1 DEF PollInv, PollTypes, Load
<1>3. PollNamed' /\ LoadInv' /\ RereadUnlessSkipped'
  BY DEF PollInv, PollNamed, LoadInv, RereadUnlessSkipped
<1> QED BY <1>2, <1>3 DEF PollInv

(* poll() is over. *)
LEMMA PollOver ==
  ASSUME PollInv, UNCHANGED <<server, projects, load, skipped>>, poll' = NoPoll,
         failures' \in 0 .. MaxFailures
  PROVE  PollInv'
<1>1. skipped' \in BOOLEAN
  BY Zenon DEF PollInv, PollTypes
<1>2. PollTypes'
  BY <1>1, Nothing DEF PollInv, PollTypes, Load
<1>3. PollNamed' /\ LoadInv' /\ RereadUnlessSkipped'
  BY Nothing DEF PollInv, PollNamed, LoadInv, RereadUnlessSkipped
<1> QED BY <1>2, <1>3 DEF PollInv

LEMMA InitInv == Init => Inv
<1> SUFFICES ASSUME Init PROVE SelectionInv /\ PollInv
  BY Parts
<1>1. \A c \in Calls : calls[c] = NoCall
  BY DEF Init
<1>2. SelectionTypes
  <2>1. overlapped \in BOOLEAN
    BY Zenon DEF Init
  <2>2. calls \in [Calls -> Call]
    BY Nothing DEF Init
  <2> QED BY <2>1, <2>2, Nothing DEF Init, SelectionTypes
<1>3. Named /\ OneCall /\ OfferWithoutOverlap
  BY <1>1, Nothing DEF Init, Named, OneCall, OfferWithoutOverlap, Waiting
<1>4. PollTypes
  <2>1. skipped \in BOOLEAN
    BY Zenon DEF Init
  <2>2. server \in 0 .. 3 * MaxOps /\ failures \in 0 .. MaxFailures
    BY PageAssumption DEF Init
  <2>3. load \in Load
    BY DEF Init, NoLoad, Load
  <2> QED BY <2>1, <2>2, <2>3, Nothing DEF Init, PollTypes
<1>5. PollNamed /\ LoadInv /\ RereadUnlessSkipped
  BY Nothing DEF Init, PollNamed, LoadInv, RereadUnlessSkipped
<1> QED BY <1>2, <1>3, <1>4, <1>5 DEF SelectionInv, PollInv

-----------------------------------------------------------------------------
(* The server.                                                              *)

(* It takes a step, and the row with it, or the row takes one alone. *)
LEMMA ServerStep ==
  ASSUME Inv, server' \in {server, server + 1}, server' \in 0 .. 3 * MaxOps,
         poll' \in Poll, poll'.pc = poll.pc, poll'.end = poll.end,
         poll'.service = poll.service,
         poll'.row = "running" => Running(server') /\ poll.end = server' + 1,
         poll'.row \in Statuses \cup Lost => poll.pc = "asking" /\ poll.end <= server',
         poll'.row = "running" => poll.pc = "asking",
         UNCHANGED <<projects, load, skipped, failures, Selection>>
  PROVE  Inv'
<1>1. PollInv /\ SelectionInv'
  BY Parts, SelectionKept
<1>2. skipped' \in BOOLEAN
  BY <1>1, Zenon DEF PollInv, PollTypes
<1>3. server \in Nat /\ 0 .. server \subseteq 0 .. server'
  BY <1>1, PageAssumption DEF PollInv, PollTypes
<1>4. PollTypes'
  BY <1>1, <1>2, <1>3 DEF PollInv, PollTypes, Load
<1>5. poll.end \in Nat
  BY <1>1, PageAssumption DEF PollInv, PollTypes, Poll
<1>6. LoadInv'
  BY <1>1, <1>3, <1>5 DEF PollInv, LoadInv
<1>7. PollNamed' /\ RereadUnlessSkipped'
  BY <1>1, <1>3, <1>5 DEF PollInv, PollNamed, RereadUnlessSkipped
<1> QED BY <1>1, <1>4, <1>6, <1>7, NextParts DEF PollInv

(* What a step of the server starts from. *)
LEMMA ServerTypes ==
  ASSUME Inv
  PROVE  /\ server \in Nat /\ server <= 3 * MaxOps /\ MaxOps \in Nat
         /\ poll \in Poll /\ poll.end \in Nat /\ LoadInv
BY PageAssumption, Parts DEF PollInv, PollTypes, Poll

LEMMA OtherStartsKeeps ==
  ASSUME Inv, OtherStarts
  PROVE  Inv'
<1>1. /\ server' = server + 1 /\ server < 3 * MaxOps /\ ~Busy(server)
      /\ UNCHANGED <<projects, load, poll, skipped, failures, Selection>>
  BY DEF OtherStarts, Selection
<1>2. poll.row # "running"
  BY <1>1, ServerTypes DEF LoadInv, Busy, Running
<1>3. server' \in 0 .. 3 * MaxOps
  BY <1>1, ServerTypes
<1>4. poll.row \in Statuses \cup Lost => poll.pc = "asking" /\ poll.end <= server'
  BY <1>1, ServerTypes DEF LoadInv
<1> QED BY <1>1, <1>2, <1>3, <1>4, ServerTypes, ServerStep

LEMMA RowEndsKeeps ==
  ASSUME Inv, RowEnds
  PROVE  Inv'
<1>1. PICK status \in Statuses \cup {"stranded"} :
        poll' = [poll EXCEPT !.row = IF @ = "running" THEN status ELSE @]
  BY DEF RowEnds
<1>2. /\ Running(server) /\ server' = server + 1
      /\ UNCHANGED <<projects, load, skipped, failures, Selection>>
  BY DEF RowEnds, Selection
<1>3. server' \in 0 .. 3 * MaxOps
  BY <1>2, ServerTypes DEF Running
<1>4. /\ poll' \in Poll /\ poll'.pc = poll.pc /\ poll'.end = poll.end
      /\ poll'.service = poll.service
      /\ poll'.row = IF poll.row = "running" THEN status ELSE poll.row
  BY <1>1, ServerTypes DEF Poll, Lost
<1>5. status # "running" /\ status \in Statuses \cup Lost
  BY Nothing DEF Lost
<1>6. poll'.row \in Statuses \cup Lost => poll.pc = "asking" /\ poll.end <= server'
  BY <1>2, <1>4, ServerTypes DEF LoadInv
<1> QED BY <1>2, <1>3, <1>4, <1>5, <1>6, ServerStep

LEMMA PermitReturnedKeeps ==
  ASSUME Inv, PermitReturned
  PROVE  Inv'
<1>1. /\ server' = server + 1 /\ Busy(server) /\ ~Running(server)
      /\ UNCHANGED <<projects, load, poll, skipped, failures, Selection>>
  BY DEF PermitReturned, Selection
<1>2. server' \in 0 .. 3 * MaxOps
  BY <1>1, ServerTypes DEF Busy
<1>3. poll.row # "running"
  BY <1>1, ServerTypes DEF LoadInv
<1>4. poll.row \in Statuses \cup Lost => poll.pc = "asking" /\ poll.end <= server'
  BY <1>1, ServerTypes DEF LoadInv
<1> QED BY <1>1, <1>2, <1>3, <1>4, ServerTypes, ServerStep

(* The row is deleted, or ended by the next start. *)
LEMMA RowKeeps ==
  ASSUME Inv, Prune \/ Recovered
  PROVE  Inv'
<1>1. PICK row \in Statuses \cup Lost : poll' = [poll EXCEPT !.row = row]
  <2>1. "pruned" \in Statuses \cup Lost /\ "interrupted" \in Statuses \cup Lost
    BY DEF Statuses, Lost
  <2> QED BY <2>1 DEF Prune, Recovered
<1>2. UNCHANGED <<server, projects, load, skipped, failures, Selection>>
  BY DEF Prune, Recovered, Selection
<1>3. poll.row \in Statuses \cup Lost
  BY DEF Prune, Recovered, Lost
<1>4. /\ poll' \in Poll /\ poll'.pc = poll.pc /\ poll'.end = poll.end
      /\ poll'.service = poll.service /\ poll'.row = row
  BY <1>1, ServerTypes DEF Poll
<1>5. server' \in 0 .. 3 * MaxOps
  BY <1>2, ServerTypes
<1>6. poll.pc = "asking" /\ poll.end <= server' /\ row # "running"
  BY <1>2, <1>3, ServerTypes, Nothing DEF LoadInv
<1> QED BY <1>2, <1>4, <1>5, <1>6, ServerStep

-----------------------------------------------------------------------------
(* loadProjects and poll().                                                 *)

(* The load and poll() take a step, and projects may be replaced. *)
LEMMA LoadStep ==
  ASSUME Inv, projects' \in 0 .. server, load' \in Load, poll' \in Poll,
         skipped' \in BOOLEAN, failures' \in 0 .. MaxFailures,
         UNCHANGED <<server, Selection>>,
         PollNamed', LoadInv', RereadUnlessSkipped'
  PROVE  Inv'
<1>1. PollInv /\ SelectionInv'
  BY Parts, SelectionKept
<1>2. PollTypes'
  BY <1>1 DEF PollInv, PollTypes, Load
<1> QED BY <1>1, <1>2, NextParts DEF PollInv

(* What the steps of a load start from. *)
LEMMA LoadTypes ==
  ASSUME Inv
  PROVE  /\ PollInv /\ server \in Nat /\ projects \in 0 .. server
         /\ load \in Load /\ load.seen \in 0 .. server
         /\ poll \in Poll /\ poll.end \in Nat /\ failures \in 0 .. MaxFailures
         /\ skipped \in BOOLEAN
<1>1. PollInv
  BY Parts
<1>2. skipped \in BOOLEAN
  BY <1>1, Zenon DEF PollInv, PollTypes
<1> QED BY <1>1, <1>2, PageAssumption DEF PollInv, PollTypes, Load, Poll

(* poll() after the load it awaits, or untouched. *)
LEMMA AwaitedPoll ==
  ASSUME Inv
  PROVE  /\ Awaited \in Poll /\ Awaited.service = poll.service /\ Awaited.end = poll.end
         /\ Awaited.row = poll.row
         /\ Awaited.pc = IF poll.pc = "reloading" THEN "reselect" ELSE poll.pc
BY LoadTypes DEF Awaited, Poll

LEMMA LoadProjectsKeeps ==
  ASSUME Inv, LoadProjects
  PROVE  Inv'
<1>1. /\ load.pc = "idle" /\ load' = [load EXCEPT !.pc = "asked"]
      /\ UNCHANGED <<server, projects, poll, skipped, failures, Selection>>
  BY DEF LoadProjects, Selection
<1>2. load' \in Load /\ load'.pc = "asked"
  BY <1>1, LoadTypes DEF Load
<1>3. skipped' \in BOOLEAN
  BY <1>1, LoadTypes, Zenon
<1>4. PollNamed' /\ LoadInv' /\ RereadUnlessSkipped'
  BY <1>1, <1>2, LoadTypes DEF PollInv, PollNamed, LoadInv, RereadUnlessSkipped
<1> QED BY <1>1, <1>2, <1>3, <1>4, LoadTypes, LoadStep

LEMMA AnswerProjectsKeeps ==
  ASSUME Inv, AnswerProjects
  PROVE  Inv'
<1>1. /\ load.pc = "asked" /\ load' = [pc |-> "answered", seen |-> server]
      /\ UNCHANGED <<server, projects, poll, skipped, failures, Selection>>
  BY DEF AnswerProjects, Selection
<1>2. load' \in Load /\ load'.pc = "answered" /\ load'.seen = server
  BY <1>1, LoadTypes DEF Load
<1>3. skipped' \in BOOLEAN
  BY <1>1, LoadTypes, Zenon
<1>4. PollNamed' /\ LoadInv' /\ RereadUnlessSkipped'
  BY <1>1, <1>2, LoadTypes DEF PollInv, PollNamed, LoadInv, RereadUnlessSkipped
<1> QED BY <1>1, <1>2, <1>3, <1>4, LoadTypes, LoadStep

LEMMA ShowProjectsKeeps ==
  ASSUME Inv, ShowProjects
  PROVE  Inv'
<1>1. /\ load.pc = "answered" /\ projects' = load.seen
      /\ load' = NoLoad /\ poll' = Awaited
      /\ UNCHANGED <<server, skipped, failures, Selection>>
  BY DEF ShowProjects, Cleared, Selection
<1>2. load' \in Load /\ load'.pc = "idle"
  BY <1>1, LoadTypes DEF Load, NoLoad
<1>3. skipped' \in BOOLEAN
  BY <1>1, LoadTypes, Zenon
<1>4. PollNamed' /\ LoadInv' /\ RereadUnlessSkipped'
  BY <1>1, <1>2, LoadTypes, AwaitedPoll DEF PollInv, PollNamed, LoadInv, RereadUnlessSkipped
<1> QED BY <1>1, <1>2, <1>3, <1>4, LoadTypes, AwaitedPoll, LoadStep

LEMMA LoadFailsKeeps ==
  ASSUME Inv, LoadFails
  PROVE  Inv'
<1>1. /\ load.pc = "asked" /\ projects' = projects
      /\ load' = NoLoad /\ poll' = Awaited
      /\ failures < MaxFailures /\ failures' = failures + 1
      /\ UNCHANGED <<server, Selection>>
  BY DEF LoadFails, Cleared, Kept, Selection
<1>2. load' \in Load /\ load'.pc = "idle"
  BY <1>1, LoadTypes DEF Load, NoLoad
<1>3. skipped' \in BOOLEAN
  BY LoadTypes, Zenon DEF LoadFails
<1>4. skipped \/ poll.pc = "reloading" => skipped'
  BY Zenon DEF LoadFails
<1>5. PollNamed' /\ LoadInv' /\ RereadUnlessSkipped'
  BY <1>1, <1>2, <1>4, LoadTypes, AwaitedPoll
  DEF PollInv, PollNamed, LoadInv, RereadUnlessSkipped
<1>6. failures' \in 0 .. MaxFailures
  BY <1>1, LoadTypes, PageAssumption
<1> QED BY <1>1, <1>2, <1>3, <1>5, <1>6, LoadTypes, AwaitedPoll, LoadStep

LEMMA PollEndedKeeps ==
  ASSUME Inv, PollEnded
  PROVE  Inv'
<1>1. /\ poll.pc = "asking" /\ server >= poll.end
      /\ poll' = [poll EXCEPT !.pc = "ended", !.row = "none"]
      /\ UNCHANGED <<server, projects, load, skipped, failures, Selection>>
  BY Nothing, LoadTypes DEF PollEnded, Selection, PollInv, LoadInv
<1>2. /\ poll' \in Poll /\ poll'.pc = "ended" /\ poll'.end = poll.end
      /\ poll'.service = poll.service /\ poll'.row = "none"
  BY <1>1, LoadTypes DEF Poll
<1>3. skipped' \in BOOLEAN
  BY <1>1, LoadTypes, Zenon
<1>4. PollNamed' /\ LoadInv' /\ RereadUnlessSkipped'
  BY <1>1, <1>2, Nothing, LoadTypes
  DEF PollInv, PollNamed, LoadInv, RereadUnlessSkipped
<1> QED BY <1>1, <1>2, <1>3, <1>4, LoadTypes, LoadStep

LEMMA PollReloadsKeeps ==
  ASSUME Inv, PollReloads
  PROVE  Inv'
<1>1. /\ poll.pc = "ended"
      /\ UNCHANGED <<server, projects, failures, Selection>>
  BY DEF PollReloads, Selection
<1>2. CASE /\ load.pc = "idle"
           /\ load' = [load EXCEPT !.pc = "asked"]
           /\ poll' = [poll EXCEPT !.pc = "reloading"] /\ UNCHANGED skipped
  <2>1. /\ poll' \in Poll /\ poll'.pc = "reloading" /\ poll'.end = poll.end
        /\ poll'.service = poll.service /\ poll'.row = poll.row
    BY <1>2, LoadTypes DEF Poll
  <2>2. load' \in Load /\ load'.pc = "asked"
    BY <1>2, LoadTypes DEF Load
  <2>3. skipped' \in BOOLEAN
    BY <1>2, LoadTypes, Zenon
  <2>4. PollNamed' /\ LoadInv' /\ RereadUnlessSkipped'
    BY <1>1, <2>1, <2>2, LoadTypes DEF PollInv, PollNamed, LoadInv, RereadUnlessSkipped
  <2> QED BY <1>1, <2>1, <2>2, <2>3, <2>4, LoadTypes, LoadStep
<1>3. CASE /\ load.pc # "idle"
           /\ poll' = [poll EXCEPT !.pc = "reselect"] /\ skipped' = TRUE
           /\ UNCHANGED load
  <2>1. /\ poll' \in Poll /\ poll'.pc = "reselect" /\ poll'.end = poll.end
        /\ poll'.service = poll.service /\ poll'.row = poll.row
    BY <1>3, LoadTypes DEF Poll
  <2>2. skipped' \in BOOLEAN
    BY <1>3, Zenon
  <2>3. PollNamed' /\ LoadInv' /\ RereadUnlessSkipped'
    BY <1>1, <1>3, <2>1, LoadTypes DEF PollInv, PollNamed, LoadInv, RereadUnlessSkipped
  <2> QED BY <1>1, <1>3, <2>1, <2>2, <2>3, LoadTypes, LoadStep
<1> QED BY <1>2, <1>3 DEF PollReloads

-----------------------------------------------------------------------------
(* selectService.                                                           *)

LEMMA SelectionFacts ==
  ASSUME Inv
  PROVE  /\ SelectionInv /\ calls \in [Calls -> Call] /\ offer \in Offer
         /\ selected \in Services \cup {None} /\ dialog \in Dialog
         /\ overlapped \in BOOLEAN
<1>1. SelectionInv
  BY Parts
<1>2. overlapped \in BOOLEAN
  BY <1>1, Zenon DEF SelectionInv, SelectionTypes
<1> QED BY <1>1, <1>2 DEF SelectionInv, SelectionTypes

LEMMA AskKeeps ==
  ASSUME Inv, NEW c \in Calls, NEW s \in Services, NEW byPoll \in BOOLEAN,
         Ask(c, s, byPoll), UNCHANGED dialog
  PROVE  SelectionInv'
<1>1. PICK q : q = [service |-> s, busy |-> Busy(projects), poll |-> byPoll]
  OBVIOUS
<1>2. /\ calls[c] = NoCall /\ selected' = s /\ offer' = NoOffer
      /\ calls' = [calls EXCEPT ![c] = q]
  BY <1>1 DEF Ask, Forgotten
<1>3. q \in Call /\ q.service = s /\ q # NoCall
  <2>1. Busy(projects) \in BOOLEAN
    BY Zenon DEF Busy
  <2>2. q.service = s
    BY <1>1
  <2>3. q \in Call
    BY <1>1, <2>1, Zenon DEF Call
  <2> QED BY <2>2, <2>3, Nothing, PageAssumption
<1>4. /\ calls' \in [Calls -> Call] /\ calls'[c] = q
      /\ \A d \in Calls \ {c} : calls'[d] = calls[d]
  BY <1>2, <1>3, SelectionFacts
<1>5. overlapped' \in BOOLEAN
  BY Zenon DEF Ask
<1>6. ~overlapped' => ~overlapped /\ \A d \in Calls : calls[d] = NoCall
  BY Zenon DEF Ask
<1>7. SelectionTypes'
  BY <1>2, <1>4, <1>5, Nothing, SelectionFacts DEF SelectionTypes
<1>8. Named'
  BY <1>2, <1>3, <1>4, Nothing, SelectionFacts DEF SelectionInv, Named, Waiting
<1>9. OneCall'
  BY <1>2, <1>3, <1>4, <1>6 DEF OneCall, Waiting
<1>10. OfferWithoutOverlap'
  BY <1>2, <1>6, Nothing, SelectionFacts DEF SelectionInv, OfferWithoutOverlap
<1> QED BY <1>7, <1>8, <1>9, <1>10 DEF SelectionInv

LEMMA SelectServiceKeeps ==
  ASSUME Inv, NEW c \in Calls, NEW s \in Services, SelectService(c, s)
  PROVE  Inv'
<1>1. SelectionInv'
  <2>1. Ask(c, s, FALSE) /\ UNCHANGED dialog
    BY Zenon DEF SelectService
  <2> QED BY <2>1, AskKeeps
<1>2. PollInv'
  <2>1. UNCHANGED <<server, projects, load, poll, skipped, failures>>
    BY DEF SelectService
  <2> QED BY <2>1, LoadTypes, PollKept
<1> QED BY <1>1, <1>2, NextParts

LEMMA PollSelectsKeeps ==
  ASSUME Inv, NEW c \in Calls, PollSelects(c)
  PROVE  Inv'
<1>1. /\ poll.pc = "reselect" /\ poll' = [poll EXCEPT !.pc = "showing"]
      /\ UNCHANGED <<server, projects, load, dialog, skipped, failures>>
  BY DEF PollSelects
<1>2. poll.service \in Services
  BY <1>1, LoadTypes DEF PollInv, PollNamed
<1>3. SelectionInv'
  <2>1. Ask(c, poll.service, TRUE)
    BY Zenon DEF PollSelects
  <2>2. PICK s \in Services : s = poll.service
    BY <1>2
  <2> QED BY <1>1, <2>1, <2>2, AskKeeps
<1>4. /\ poll' \in Poll /\ poll'.pc = "showing" /\ poll'.end = poll.end
      /\ poll'.service = poll.service /\ poll'.row = poll.row
  BY <1>1, LoadTypes DEF Poll
<1>5. skipped' \in BOOLEAN
  BY <1>1, LoadTypes, Zenon
<1>6. PollTypes'
  BY <1>1, <1>4, <1>5, LoadTypes DEF PollInv, PollTypes, Load
<1>7. PollNamed' /\ LoadInv' /\ RereadUnlessSkipped'
  BY <1>1, <1>4, LoadTypes DEF PollInv, PollNamed, LoadInv, RereadUnlessSkipped
<1> QED BY <1>3, <1>6, <1>7, NextParts DEF PollInv

(* A query that is over leaves the others as they are. *)
LEMMA ShownCall ==
  ASSUME Inv, NEW c \in Calls, Shown(c)
  PROVE  /\ calls' \in [Calls -> Call] /\ calls'[c] = NoCall
         /\ \A d \in Calls \ {c} : calls'[d] = calls[d]
         /\ poll' \in {NoPoll, poll}
<1>1. calls' = [calls EXCEPT ![c] = NoCall] /\ poll' \in {NoPoll, poll}
  BY DEF Shown
<1> QED BY <1>1, Nothing, SelectionFacts

LEMMA ShownKeepsPoll ==
  ASSUME Inv, NEW c \in Calls, Shown(c), failures' \in 0 .. MaxFailures,
         UNCHANGED <<server, projects, load, skipped>>
  PROVE  PollInv'
BY ShownCall, LoadTypes, PollKept, PollOver

LEMMA ShowVersionsKeeps ==
  ASSUME Inv, NEW c \in Calls, ShowVersions(c)
  PROVE  Inv'
<1>1. /\ Waiting(c) /\ Shown(c)
      /\ UNCHANGED <<server, projects, load, selected, dialog, skipped,
                     overlapped, failures>>
  BY Zenon DEF ShowVersions, Waiting
<1>2. PollInv'
  <2>1. failures' \in 0 .. MaxFailures
    BY <1>1, LoadTypes
  <2> QED BY <1>1, <2>1, ShownKeepsPoll
<1>3. calls[c] \in Call /\ calls[c].service \in Services
  BY <1>1, SelectionFacts DEF SelectionInv, Named
<1>4. /\ calls' \in [Calls -> Call] /\ calls'[c] = NoCall
      /\ \A d \in Calls \ {c} : calls'[d] = calls[d]
  BY <1>1, ShownCall
<1>5. offer' \in Offer /\ offer'.of = calls[c].service
  <2>1. PICK b : b = ~calls[c].busy
    OBVIOUS
  <2>2. b \in BOOLEAN
    BY <2>1, Zenon
  <2>3. offer' = [of |-> calls[c].service, enabled |-> b]
    BY <2>1 DEF ShowVersions
  <2> QED BY <1>3, <2>2, <2>3 DEF Offer
<1>6. overlapped' \in BOOLEAN
  BY <1>1, SelectionFacts, Zenon
<1>7. SelectionTypes'
  BY <1>1, <1>4, <1>5, <1>6, SelectionFacts DEF SelectionTypes
<1>8. Named'
  BY <1>1, <1>3, <1>4, <1>5, SelectionFacts DEF SelectionInv, Named, Waiting
<1>9. OneCall'
  BY <1>1, <1>4, SelectionFacts DEF SelectionInv, OneCall, Waiting
<1>10. OfferWithoutOverlap'
  BY <1>1, <1>5, SelectionFacts DEF SelectionInv, OneCall, OfferWithoutOverlap
<1> QED BY <1>2, <1>7, <1>8, <1>9, <1>10, NextParts DEF SelectionInv

LEMMA VersionsFailKeeps ==
  ASSUME Inv, NEW c \in Calls, VersionsFail(c)
  PROVE  Inv'
<1>1. /\ Waiting(c) /\ Shown(c) /\ failures < MaxFailures /\ failures' = failures + 1
      /\ UNCHANGED <<server, projects, load, selected, offer, dialog, skipped,
                     overlapped>>
  BY Zenon DEF VersionsFail, Waiting
<1>2. PollInv'
  <2>1. failures' \in 0 .. MaxFailures
    BY <1>1, LoadTypes, PageAssumption
  <2> QED BY <1>1, <2>1, ShownKeepsPoll
<1>3. /\ calls' \in [Calls -> Call] /\ calls'[c] = NoCall
      /\ \A d \in Calls \ {c} : calls'[d] = calls[d]
  BY <1>1, ShownCall
<1>4. overlapped' \in BOOLEAN
  BY <1>1, SelectionFacts, Zenon
<1>5. SelectionTypes'
  BY <1>1, <1>3, <1>4, SelectionFacts DEF SelectionTypes
<1>6. Named'
  BY <1>1, <1>3, SelectionFacts DEF SelectionInv, Named, Waiting
<1>7. OneCall' /\ OfferWithoutOverlap'
  BY <1>1, <1>3, SelectionFacts DEF SelectionInv, OneCall, OfferWithoutOverlap, Waiting
<1> QED BY <1>2, <1>5, <1>6, <1>7, NextParts DEF SelectionInv

-----------------------------------------------------------------------------
(* The user.                                                                *)

LEMMA RefreshComposeKeeps ==
  ASSUME Inv, RefreshCompose
  PROVE  Inv'
<1>1. /\ selected' = None /\ offer' = NoOffer
      /\ UNCHANGED <<server, projects, load, calls, dialog, poll, skipped,
                     overlapped, failures>>
  BY DEF RefreshCompose
<1>2. PollInv'
  BY <1>1, LoadTypes, PollKept
<1>3. overlapped' \in BOOLEAN
  BY <1>1, SelectionFacts, Zenon
<1>4. SelectionTypes'
  BY <1>1, <1>3, Nothing, SelectionFacts DEF SelectionTypes
<1>5. Named' /\ OneCall' /\ OfferWithoutOverlap'
  BY <1>1, Nothing, SelectionFacts
  DEF SelectionInv, Named, OneCall, OfferWithoutOverlap, Waiting
<1> QED BY <1>2, <1>4, <1>5, NextParts DEF SelectionInv

LEMMA DialogKeeps ==
  ASSUME Inv, OpenDialog \/ Cancel
  PROVE  Inv'
<1>1. UNCHANGED <<server, projects, load, selected, calls, offer, poll,
                  skipped, overlapped, failures>>
  BY DEF OpenDialog, Cancel
<1>2. PollInv'
  BY <1>1, LoadTypes, PollKept
<1>3. overlapped' \in BOOLEAN
  BY <1>1, SelectionFacts, Zenon
<1>4. /\ dialog' \in Dialog
      /\ dialog' # NoDialog => dialog'.service \in Services
      /\ ~overlapped => dialog'.version = dialog'.service
  <2>1. CASE OpenDialog
    <3>1. /\ selected \in Services /\ offer.of \in Services
          /\ dialog' = [service |-> selected, version |-> offer.of]
      BY <2>1, SelectionFacts DEF OpenDialog, SelectionInv, Named
    <3>2. ~overlapped => offer.of = selected
      BY <3>1, SelectionFacts, PageAssumption DEF SelectionInv, OfferWithoutOverlap
    <3> QED BY <3>1, <3>2 DEF Dialog
  <2>2. CASE Cancel
    BY <2>2, Nothing DEF Cancel
  <2> QED BY <2>1, <2>2
<1>5. SelectionTypes'
  BY <1>1, <1>3, <1>4, SelectionFacts DEF SelectionTypes
<1>6. Named' /\ OneCall' /\ OfferWithoutOverlap'
  BY <1>1, <1>4, SelectionFacts
  DEF SelectionInv, Named, OneCall, OfferWithoutOverlap, Waiting
<1> QED BY <1>2, <1>5, <1>6, NextParts DEF SelectionInv

LEMMA ConfirmKeeps ==
  ASSUME Inv, Confirm
  PROVE  Inv'
<1>1. /\ dialog # NoDialog /\ poll = NoPoll
      /\ ~Busy(server) /\ server < 3 * MaxOps /\ server' = server + 1
      /\ UNCHANGED <<projects, load, selected, calls, offer, overlapped>>
  BY DEF Confirm
<1>2. server' \in 0 .. 3 * MaxOps
  BY <1>1, LoadTypes, PageAssumption DEF PollInv, PollTypes
<1>3. CASE /\ dialog' = NoDialog
           /\ poll' = [pc |-> "asking", service |-> dialog.service, end |-> server + 2,
                       row |-> "running"]
           /\ skipped' = FALSE /\ UNCHANGED failures
  <2>1. server + 2 \in 0 .. 3 * MaxOps
    BY <1>1, LoadTypes, PageAssumption DEF Busy
  <2>2. dialog.service \in Services
    BY <1>1, SelectionFacts DEF SelectionInv, Named
  <2>3. /\ poll' \in Poll /\ poll'.pc = "asking" /\ poll'.service \in Services
        /\ poll'.row = "running" /\ poll'.end = server' + 1 /\ Running(server')
    BY <1>1, <1>3, <2>1, <2>2, LoadTypes DEF Poll, Busy, Running
  <2>4. skipped' \in BOOLEAN
    BY <1>3, Zenon
  <2>5. 0 .. server \subseteq 0 .. server'
    BY <1>1, LoadTypes
  <2>6. PollTypes'
    BY <1>1, <1>2, <1>3, <2>3, <2>4, <2>5, LoadTypes DEF PollTypes, Load
  <2>7. PollNamed' /\ LoadInv' /\ RereadUnlessSkipped'
    BY <1>1, <2>3, Nothing, LoadTypes DEF PollInv, PollNamed, LoadInv, RereadUnlessSkipped
  <2>8. overlapped' \in BOOLEAN
    BY <1>1, SelectionFacts, Zenon
  <2>9. SelectionTypes'
    BY <1>1, <1>3, <2>8, Nothing, SelectionFacts DEF SelectionTypes
  <2>10. Named' /\ OneCall' /\ OfferWithoutOverlap'
    BY <1>1, <1>3, Nothing, SelectionFacts
    DEF SelectionInv, Named, OneCall, OfferWithoutOverlap, Waiting
  <2> QED BY <2>6, <2>7, <2>9, <2>10, NextParts DEF SelectionInv, PollInv
<1>4. CASE /\ failures < MaxFailures /\ failures' = failures + 1
           /\ UNCHANGED <<dialog, poll, skipped>>
  <2>1. UNCHANGED Selection
    BY <1>1, <1>4 DEF Selection
  <2>2. SelectionInv'
    BY <2>1, SelectionFacts, SelectionKept
  <2>3. failures' \in 0 .. MaxFailures
    BY <1>4, LoadTypes, PageAssumption
  <2>4. skipped' \in BOOLEAN
    BY <1>4, LoadTypes, Zenon
  <2>5. 0 .. server \subseteq 0 .. server'
    BY <1>1, LoadTypes
  <2>6. PollTypes'
    BY <1>1, <1>2, <1>4, <2>3, <2>4, <2>5, LoadTypes DEF PollTypes, Load
  <2>7. PollNamed' /\ LoadInv' /\ RereadUnlessSkipped'
    BY <1>1, <1>4, Nothing, LoadTypes DEF PollInv, PollNamed, LoadInv, RereadUnlessSkipped
  <2> QED BY <2>2, <2>6, <2>7, NextParts DEF PollInv
<1> QED BY <1>3, <1>4 DEF Confirm

LEMMA NextInv == Inv /\ [Next]_vars => Inv'
<1> SUFFICES ASSUME Inv, [Next]_vars PROVE Inv'
  OBVIOUS
<1>1. CASE OtherStarts \/ RowEnds \/ PermitReturned \/ Prune \/ Recovered
  BY <1>1, OtherStartsKeeps, RowEndsKeeps, PermitReturnedKeeps, RowKeeps
<1>2. CASE LoadProjects \/ Answers
  BY <1>2, LoadProjectsKeeps, ShowProjectsKeeps, LoadFailsKeeps, AnswerProjectsKeeps
  DEF Answers
<1>3. CASE PollStep
  BY <1>3, PollEndedKeeps, PollReloadsKeeps, PollSelectsKeeps DEF PollStep
<1>4. CASE User
  BY <1>4, SelectServiceKeeps, RefreshComposeKeeps, DialogKeeps, ConfirmKeeps DEF User
<1>5. ASSUME NEW c \in Calls, ShowVersions(c) \/ VersionsFail(c)
      PROVE  Inv'
  BY <1>5, ShowVersionsKeeps, VersionsFailKeeps
<1>6. CASE UNCHANGED vars
  <2>1. UNCHANGED Selection
        /\ UNCHANGED <<server, projects, load, poll, skipped, failures>>
    BY <1>6 DEF vars, Selection
  <2>2. PollInv' /\ SelectionInv'
    BY <2>1, LoadTypes, PollKept, SelectionFacts, SelectionKept
  <2> QED BY <2>2, NextParts
<1> QED BY <1>1, <1>2, <1>3, <1>4, <1>5, <1>6 DEF Next

(* The loads, the queries, the confirmation and poll() fit together after     *)
(* every step, in whatever order answers arrive.                              *)
THEOREM PageFits == Spec => []Inv
BY InitInv, NextInv, PTL DEF Spec

(* The page is never ahead of the server, and poll() goes on only with the     *)
(* projects as they were after the operation, or knowing that a load was       *)
(* under way or failed.                                                        *)
THEOREM PollIsSound == Spec => []PollSound
<1>1. Inv => PollSound
  BY DEF Inv, PollSound
<1> QED BY <1>1, PageFits, PTL

(* Unless a service is selected while a query is under way, the version that   *)
(* is offered, and the one to be confirmed, is of the service it is shown for. *)
THEOREM OffersMatch == Spec => []OfferWithoutOverlap
<1>1. Inv => OfferWithoutOverlap
  BY DEF Inv
<1> QED BY <1>1, PageFits, PTL
=============================================================================
