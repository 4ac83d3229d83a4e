----------------------------- MODULE ClubEvents -----------------------------
(***************************************************************************)
(* One club event: answers to its invitation, the seats they take, staff   *)
(* confirming and checking in members, staff editing or cancelling the     *)
(* event, and the link to its official results.                            *)
(*                                                                         *)
(* Answers and confirmations lock the event row (SELECT ... FOR UPDATE),   *)
(* decide, and write at their commit.  An edit or a cancellation is one    *)
(* UPDATE at READ COMMITTED: it reads answers in the snapshot in which it  *)
(* began, waits for the row, and rechecks the row only if a newer version  *)
(* of it was committed, never the answers.  So it is two steps here.       *)
(*                                                                         *)
(* Clocks are abstracted to the moments they pass the event's times:       *)
(* DeadlinePasses, EventStarts, EventEnds.                                 *)
(***************************************************************************)
EXTENDS Naturals, FiniteSets

CONSTANTS
  Members,      \* active accounts; a guardian answers in the member's name
  Groups,       \* programmes and teams
  GroupsOf,     \* [Members -> SUBSET Groups]: current memberships
  Capacities, NoLimit,
  HasDocument,  \* the event was created with an official document
  Links, NoLink,
  Requests,
  MaxRev,       \* bound: edits and cancellations
  MaxLinkRev    \* bound: results_version

ASSUME ConstantsAssumption ==
  /\ GroupsOf \in [Members -> SUBSET Groups]
  /\ IsFiniteSet(Members)
  /\ Capacities \subseteq Nat \ {0} /\ NoLimit \notin Nat
  /\ HasDocument \in BOOLEAN
  /\ NoLink \notin Links
  /\ MaxRev \in Nat /\ MaxLinkRev \in Nat

VARIABLES
  event,      \* the events row, but for its times; rev stands for updated_at
  phase,      \* where the clock is between starts_at and ends_at
  accepting,  \* response_deadline is null or has not passed
  link,       \* official_results_url and results_version
  reply,      \* event_responses.status, NONE while there is no row
  present,    \* event_responses.checked_in_at is set
  lock,       \* requests whose transaction locks the event row: at most one
  req         \* local state of each request

vars == <<event, phase, accepting, link, reply, present, lock, req>>

Types  == {"GENERAL", "COMPETITION"}
Limits == Capacities \cup {NoLimit}
Details == [type : Types, capacity : Limits, audience : SUBSET Groups]

Events == [status : {"ACTIVE", "CANCELLED"}, type : Types, capacity : Limits,
           audience : SUBSET Groups, rev : 0..MaxRev]
ResultsLinks == [url : Links \cup {NoLink}, version : 0..MaxLinkRev]

Idle == [step |-> "idle"]
Answering  == [step : {"answering"}, member : Members, wantsGoing : BOOLEAN]
Decided    == [step : {"answered"}, member : Members,
               status : {"Going", "NotGoing", "Waitlisted"}]
Confirming == [step : {"confirming"}, member : Members]
Forms      == [step : {"form"}, shown : Events]
Editing    == [step : {"submitted", "updating"}, shown : Events, new : Details]
Cancelling == [step : {"cancelling"}, shown : Events]
LinkForms  == [step : {"link"}, shown : ResultsLinks]

TypeOK ==
  /\ event \in Events
  /\ phase \in {"ahead", "on", "over"}
  /\ accepting \in BOOLEAN
  /\ link \in ResultsLinks
  /\ reply \in [Members -> {"NONE", "Going", "NotGoing", "Waitlisted"}]
  /\ present \in [Members -> BOOLEAN]
  /\ lock \in SUBSET Requests
  /\ req \in [Requests -> {Idle} \cup Answering \cup Decided \cup Confirming
                \cup Forms \cup Editing \cup Cancelling \cup LinkForms]

\* An event as Create leaves it, its times ahead.
Init ==
  /\ event \in [status : {"ACTIVE"}, type : Types, capacity : Limits,
                audience : SUBSET Groups, rev : {0}]
  /\ HasDocument => event.type = "COMPETITION"
  /\ phase = "ahead" /\ accepting = TRUE
  /\ link = [url |-> NoLink, version |-> 0]
  /\ reply = [m \in Members |-> "NONE"]
  /\ present = [m \in Members |-> FALSE]
  /\ lock = {}
  /\ req = [r \in Requests |-> Idle]

-----------------------------------------------------------------------------
Going    == {m \in Members : reply[m] = "Going"}
Answered == {m \in Members : reply[m] # "NONE"}

Invited(m) == event.audience = {} \/ GroupsOf[m] \cap event.audience # {}

HasRoom  == event.capacity # NoLimit => Cardinality(Going) < event.capacity
Seats(c) == c # NoLimit => Cardinality(Going) <= c

\* Mutant: the row is read without FOR UPDATE.
NotLocked == TRUE

\* GetEventForResponse: the row lock is free.
RowFree == lock = {}

Goto(r, state) == req' = [req EXCEPT ![r] = state]
Finish(r)      == Goto(r, Idle)

\* The transaction of r commits or rolls back.
Release(r) == lock' = lock \ {r} /\ Finish(r)

-----------------------------------------------------------------------------
(* Answering an invitation: Events.Respond. *)

\* The checks before the transaction.
Respond(r, m, wants) ==
  /\ req[r] = Idle
  /\ Invited(m) /\ event.status = "ACTIVE" /\ phase # "over"
  /\ Goto(r, [step |-> "answering", member |-> m, wantsGoing |-> wants])
  /\ UNCHANGED <<event, phase, accepting, link, reply, present, lock>>

\* Mutant: the audience is not looked up again.
InTime(m) == phase # "over" /\ accepting

\* What is checked again once the row is locked.
MayAnswer(m) == Invited(m) /\ phase # "over" /\ accepting

\* Mutants: no row is written for a first refusal; the count includes one's own seat.
UnlessFirst(m, wants) ==
  IF ~wants THEN reply[m] ELSE IF HasRoom THEN "Going" ELSE "Waitlisted"
ByCount(m, wants) ==
  IF ~wants THEN "NotGoing" ELSE IF HasRoom THEN "Going" ELSE "Waitlisted"

\* A member who is Going keeps the seat; others need a free one.
Decision(m, wants) ==
  IF ~wants THEN "NotGoing"
  ELSE IF reply[m] = "Going" \/ HasRoom THEN "Going" ELSE "Waitlisted"

AnswerRefused(r) ==
  /\ req[r].step = "answering" /\ RowFree
  /\ event.status # "ACTIVE" \/ ~MayAnswer(req[r].member)
  /\ Finish(r)
  /\ UNCHANGED <<event, phase, accepting, link, reply, present, lock>>

Decide(r) ==
  /\ req[r].step = "answering" /\ RowFree
  /\ event.status = "ACTIVE" /\ MayAnswer(req[r].member)
  /\ lock' = lock \cup {r}
  /\ Goto(r, [step |-> "answered", member |-> req[r].member,
              status |-> Decision(req[r].member, req[r].wantsGoing)])
  /\ UNCHANGED <<event, phase, accepting, link, reply, present>>

\* Mutant: an answer leaves the check-in.
SaveStatusOnly(r) ==
  /\ req[r].step = "answered"
  /\ reply' = [reply EXCEPT ![req[r].member] = req[r].status]
  /\ Release(r)
  /\ UNCHANGED <<event, phase, accepting, link, present>>

\* A new answer also withdraws a check-in.
SaveEventResponse(r) ==
  /\ req[r].step = "answered"
  /\ reply' = [reply EXCEPT ![req[r].member] = req[r].status]
  /\ present' = [present EXCEPT ![req[r].member] = FALSE]
  /\ Release(r)
  /\ UNCHANGED <<event, phase, accepting, link>>

-----------------------------------------------------------------------------
(* Staff confirm a waiting member and check members in: Events.staffAction. *)

Confirm(r, m) ==
  /\ req[r] = Idle
  /\ RowFree /\ event.status = "ACTIVE" /\ HasRoom
  /\ lock' = lock \cup {r}
  /\ Goto(r, [step |-> "confirming", member |-> m])
  /\ UNCHANGED <<event, phase, accepting, link, reply, present>>

ConfirmWaitlistedResponse(r) ==
  /\ req[r].step = "confirming"
  /\ reply' = [reply EXCEPT ![req[r].member] = IF @ = "Waitlisted" THEN "Going" ELSE @]
  /\ Release(r)
  /\ UNCHANGED <<event, phase, accepting, link, present>>

\* Mutant: the event may have been cancelled.
CheckInAnyway(r, m) ==
  /\ req[r] = Idle
  /\ RowFree /\ phase # "ahead"
  /\ reply[m] = "Going" /\ ~present[m]
  /\ present' = [present EXCEPT ![m] = TRUE]
  /\ UNCHANGED <<event, phase, accepting, link, reply, lock, req>>

CheckIn(r, m) ==
  /\ req[r] = Idle
  /\ RowFree /\ event.status = "ACTIVE" /\ phase # "ahead"
  /\ reply[m] = "Going" /\ ~present[m]
  /\ present' = [present EXCEPT ![m] = TRUE]
  /\ UNCHANGED <<event, phase, accepting, link, reply, lock, req>>

-----------------------------------------------------------------------------
(* Editing and cancelling the event: Events.Edit, Update and Cancel. *)

Edit(r) ==
  /\ req[r] = Idle
  /\ event.status = "ACTIVE" /\ phase = "ahead"
  /\ Goto(r, [step |-> "form", shown |-> event])
  /\ UNCHANGED <<event, phase, accepting, link, reply, present, lock>>

KeepsItsKind(new) == new.type = "COMPETITION" \/ (~HasDocument /\ link.url = NoLink)
AudienceKept(new) == new.audience = event.audience \/ Answered = {}

\* What the handler and, later, the snapshot of UpdateEvent require.
Acceptable(new) == KeepsItsKind(new) /\ AudienceKept(new) /\ Seats(new.capacity)

\* The handler validates the form against unlocked reads.
Update(r, new) ==
  /\ req[r].step = "form"
  /\ Acceptable(new)
  /\ Goto(r, [step |-> "submitted", shown |-> req[r].shown, new |-> new])
  /\ UNCHANGED <<event, phase, accepting, link, reply, present, lock>>

\* Mutant: expected_updated_at is ignored.
IsActive(r) == event.status = "ACTIVE"

\* The row part of the WHERE clause, but for the time.
IsAsShown(r) == event.status = "ACTIVE" /\ event.rev = req[r].shown.rev

\* The UPDATE evaluates its WHERE clause in its own snapshot.
UpdateBegins(r) ==
  /\ req[r].step = "submitted"
  /\ IF IsAsShown(r) /\ phase = "ahead" /\ Acceptable(req[r].new)
     THEN Goto(r, [req[r] EXCEPT !.step = "updating"])
     ELSE Finish(r)
  /\ UNCHANGED <<event, phase, accepting, link, reply, present, lock>>

\* It holds the row, whose present version is checked.
Matches(r) == IsAsShown(r) /\ KeepsItsKind(req[r].new)

UpdateEvent(r) ==
  /\ req[r].step = "updating" /\ RowFree
  /\ Matches(r) /\ event.rev < MaxRev
  /\ LET new == req[r].new IN
       event' = [event EXCEPT !.type = new.type, !.capacity = new.capacity,
                              !.audience = new.audience, !.rev = @ + 1]
  /\ phase' \in {"ahead", "on", "over"}    \* new times may be in the past
  /\ accepting' \in BOOLEAN
  /\ Finish(r)
  /\ UNCHANGED <<link, reply, present, lock>>

CancelBegins(r) ==
  /\ req[r].step = "form"
  /\ IF IsAsShown(r) /\ phase = "ahead"
     THEN Goto(r, [step |-> "cancelling", shown |-> req[r].shown])
     ELSE Finish(r)
  /\ UNCHANGED <<event, phase, accepting, link, reply, present, lock>>

CancelEvent(r) ==
  /\ req[r].step = "cancelling" /\ RowFree
  /\ IsAsShown(r) /\ event.rev < MaxRev
  /\ event' = [event EXCEPT !.status = "CANCELLED", !.rev = @ + 1]
  /\ Finish(r)
  /\ UNCHANGED <<phase, accepting, link, reply, present, lock>>

ChangedMeanwhile(r) ==
  /\ RowFree
  /\ \/ req[r].step = "updating" /\ ~Matches(r)
     \/ req[r].step = "cancelling" /\ ~IsAsShown(r)
  /\ Finish(r)
  /\ UNCHANGED <<event, phase, accepting, link, reply, present, lock>>

-----------------------------------------------------------------------------
(* The link to the official results: Events.resultsLink. *)

ResultsLink(r) ==
  /\ req[r] = Idle
  /\ event.type = "COMPETITION"
  /\ Goto(r, [step |-> "link", shown |-> link])
  /\ UNCHANGED <<event, phase, accepting, link, reply, present, lock>>

LinkMatches(r) ==
  event.type = "COMPETITION" /\ link.version = req[r].shown.version

UpdateEventResultsLink(r, url) ==
  /\ req[r].step = "link" /\ RowFree
  /\ LinkMatches(r) /\ link.version < MaxLinkRev
  /\ link' = [url |-> url, version |-> link.version + 1]
  /\ Finish(r)
  /\ UNCHANGED <<event, phase, accepting, reply, present, lock>>

-----------------------------------------------------------------------------
\* A request times out, fails or is given up: its transaction rolls back.
Abort(r) ==
  /\ req[r] # Idle
  /\ Release(r)
  /\ UNCHANGED <<event, phase, accepting, link, reply, present>>

\* A deadline is not after starts_at: once started, accepting means no deadline.
DeadlinePasses ==
  /\ phase = "ahead" /\ accepting
  /\ accepting' = FALSE
  /\ UNCHANGED <<event, phase, link, reply, present, lock, req>>

EventStarts ==
  /\ phase = "ahead"
  /\ phase' = "on" /\ accepting' \in {accepting, FALSE}
  /\ UNCHANGED <<event, link, reply, present, lock, req>>

EventEnds ==
  /\ phase = "on"
  /\ phase' = "over"
  /\ UNCHANGED <<event, accepting, link, reply, present, lock, req>>

RequestStep(r) ==
  \/ \E m \in Members : \/ \E wants \in BOOLEAN : Respond(r, m, wants)
                        \/ Confirm(r, m)
                        \/ CheckIn(r, m)
  \/ Decide(r) \/ AnswerRefused(r) \/ SaveEventResponse(r)
  \/ ConfirmWaitlistedResponse(r)
  \/ Edit(r) \/ UpdateBegins(r) \/ UpdateEvent(r)
  \/ \E new \in Details : Update(r, new)
  \/ CancelBegins(r) \/ CancelEvent(r) \/ ChangedMeanwhile(r)
  \/ ResultsLink(r)
  \/ \E url \in Links \cup {NoLink} : UpdateEventResultsLink(r, url)
  \/ Abort(r)

Clock == DeadlinePasses \/ EventStarts \/ EventEnds

Next == Clock \/ \E r \in Requests : RequestStep(r)

Spec == Init /\ [][Next]_vars

-----------------------------------------------------------------------------
\* Nobody is given a seat beyond the capacity in force: count and write are
\* under one row lock, against other answers, confirmations and edits.
SeatsAreGranted ==
  [][(Going' \ Going) # {} => Seats(event.capacity)']_vars

\* An answer never takes away the seat its member holds and asks to keep, even
\* when the event is full; who is Going is never put on the waiting list.
SeatsAreKept ==
  [][\A m \in Members : reply[m] = "Going" => reply'[m] # "Waitlisted"]_vars

\* Whoever is checked in is Going: an answer that follows a check-in undoes it.
PresentAreGoing == \A m \in Members : present[m] => reply[m] = "Going"

\* A cancelled event stays so and takes no answer, confirmation or check-in,
\* although each may have passed its first checks before the cancellation.
CancelledIsFrozen ==
  [][event.status = "CANCELLED"
       => event' = event /\ reply' = reply /\ present' = present]_vars

\* A first answer comes from someone the event invites at that moment, although
\* an edit may have changed the audience after the handler's first check.
AnswersAreInvited ==
  [][\A m \in Members : reply[m] = "NONE" /\ reply'[m] # "NONE" => Invited(m)]_vars

\* What a save replaces is what its form showed: two people with the same page
\* open cannot overwrite each other, though a link does not move updated_at.
SavesReplaceWhatTheyShowed ==
  [][/\ event' # event => \E r \in Requests :
          req[r].step \in {"updating", "cancelling"} /\ req[r].shown = event
            /\ req'[r] = Idle
     /\ link' # link => \E r \in Requests :
          req[r].step = "link" /\ req[r].shown = link /\ req'[r] = Idle]_vars

\* Only a competition links to results or has an official document: the link
\* and the kind of event are saved from different pages under different versions.
LinksOnCompetitions ==
  link.url # NoLink \/ HasDocument => event.type = "COMPETITION"

-----------------------------------------------------------------------------
(* Refinement: the abstract event has no requests, versions or clock.      *)

\* The members by their answer.
Who(status) == {m \in Members : reply[m] = status}

TermsOf(row) == [type |-> row.type, capacity |-> row.capacity, audience |-> row.audience]

AsPromised == INSTANCE Attendance
                WITH open <- event.status = "ACTIVE", terms <- TermsOf(event),
                     results <- link.url, going <- Going,
                     waiting <- Who("Waitlisted"), declined <- Who("NotGoing"),
                     present <- {m \in Members : present[m]}

\* Every request acts at one instant, by the state of that instant, although it
\* reads, waits, decides and writes in steps between those of the others: who is
\* put on the waiting list is invited, holds no seat and finds none when the
\* answer is written.
ImplementsAttendance == AsPromised!Spec

-----------------------------------------------------------------------------
\* "A lotacao nao pode ser inferior ao numero de participantes confirmados."
\* (events.go:245) and "Os destinatarios nao podem ser alterados depois da
\* primeira resposta." (events.go:236): UpdateEvent evaluates both in its
\* snapshot; an answer may commit before it has the row, and neither is
\* evaluated again.
EditsMeetTheirConditions ==
  [][event'.rev # event.rev /\ event'.status = "ACTIVE" =>
       AudienceKept(event') /\ Seats(event'.capacity)]_vars
=============================================================================
