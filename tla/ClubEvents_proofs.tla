------------------------- MODULE ClubEvents_proofs -------------------------
(***************************************************************************)
(* Theorems of ClubEvents, for any members, groups, capacities, requests   *)
(* and bounds.                                                             *)
(***************************************************************************)
EXTENDS ClubEvents, FiniteSetTheorems, TLAPS

\* What the guard of a request's step says of its record.
LEMMA RequestKinds ==
  ASSUME TypeOK, NEW r \in Requests
  PROVE  /\ req[r].step = "answering" => req[r] \in Answering
         /\ req[r].step = "answered" => req[r] \in Decided
         /\ req[r].step = "confirming" => req[r] \in Confirming
         /\ req[r].step = "form" => req[r] \in Forms
         /\ req[r].step \in {"submitted", "updating"} => req[r] \in Editing
         /\ req[r].step = "cancelling" => req[r] \in Cancelling
         /\ req[r].step = "link" => req[r] \in LinkForms
BY DEF TypeOK, Idle, Answering, Decided, Confirming, Forms, Editing,
       Cancelling, LinkForms

\* The states a request may be in.
Locals == {Idle} \cup Answering \cup Decided \cup Confirming \cup Forms
            \cup Editing \cup Cancelling \cup LinkForms

\* Moving a request to a typed state keeps the type of req.
LEMMA GotoTyped ==
  ASSUME TypeOK, NEW r \in Requests, NEW state \in Locals, Goto(r, state)
  PROVE  req' \in [Requests -> Locals]
BY DEF TypeOK, Goto, Locals

\* A request's own step keeps the types.
LEMMA RequestTyping ==
  ASSUME TypeOK, NEW r \in Requests, RequestStep(r)
  PROVE  TypeOK'
<1> USE ConstantsAssumption
<1> DEFINE Unwritten == UNCHANGED <<event, phase, accepting, link, reply, present>>
<1>1. ASSUME req' \in [Requests -> Locals], lock' \in SUBSET Requests, Unwritten
      PROVE  TypeOK'
  BY <1>1 DEF TypeOK, Locals
<1>2. ASSUME NEW state \in Locals, Goto(r, state), UNCHANGED lock, Unwritten PROVE TypeOK'
  <2>1. req' \in [Requests -> Locals] BY <1>2, GotoTyped
  <2> QED BY <1>1, <1>2, <2>1 DEF TypeOK
<1>3. ASSUME Finish(r) PROVE req' \in [Requests -> Locals]
  <2>1. Idle \in Locals BY DEF Locals
  <2> QED BY <1>3, <2>1, GotoTyped DEF Finish
<1>4. ASSUME Finish(r), UNCHANGED lock, Unwritten PROVE TypeOK'
  BY <1>1, <1>3, <1>4 DEF TypeOK
<1>5. ASSUME Release(r) PROVE req' \in [Requests -> Locals] /\ lock' \in SUBSET Requests
  BY <1>3, <1>5 DEF Release, TypeOK
<1>6. ASSUME NEW m \in Members, NEW wants \in BOOLEAN, Respond(r, m, wants) PROVE TypeOK'
  <2>1. [step |-> "answering", member |-> m, wantsGoing |-> wants] \in Locals
    BY DEF Locals, Answering
  <2> QED BY <1>2, <1>6, <2>1 DEF Respond
<1>7. ASSUME NEW m \in Members, Confirm(r, m) PROVE TypeOK'
  <2>1. [step |-> "confirming", member |-> m] \in Locals BY DEF Locals, Confirming
  <2>2. lock' \in SUBSET Requests BY <1>7 DEF Confirm, TypeOK
  <2> QED BY <1>1, <1>7, <2>1, <2>2, GotoTyped DEF Confirm
<1>8. ASSUME NEW m \in Members, CheckIn(r, m) PROVE TypeOK'
  BY <1>8 DEF CheckIn, TypeOK
<1>9. CASE Decide(r)
  <2>1. req[r] \in Answering BY <1>9, RequestKinds DEF Decide
  <2>2. Decision(req[r].member, req[r].wantsGoing) \in {"Going", "NotGoing", "Waitlisted"}
    BY DEF Decision
  <2>3. [step |-> "answered", member |-> req[r].member,
         status |-> Decision(req[r].member, req[r].wantsGoing)] \in Locals
    BY <2>1, <2>2 DEF Locals, Decided, Answering
  <2>4. lock' \in SUBSET Requests BY <1>9 DEF Decide, TypeOK
  <2> QED BY <1>1, <1>9, <2>3, <2>4, GotoTyped DEF Decide
<1>10. CASE AnswerRefused(r)
  BY <1>4, <1>10 DEF AnswerRefused
<1>11. CASE SaveEventResponse(r)
  <2>1. req[r] \in Decided BY <1>11, RequestKinds DEF SaveEventResponse
  <2>2. /\ reply' \in [Members -> {"NONE", "Going", "NotGoing", "Waitlisted"}]
        /\ present' \in [Members -> BOOLEAN]
    BY <1>11, <2>1 DEF SaveEventResponse, TypeOK, Decided
  <2>3. req' \in [Requests -> Locals] /\ lock' \in SUBSET Requests
    BY <1>5, <1>11 DEF SaveEventResponse
  <2>4. UNCHANGED <<event, phase, accepting, link>> BY <1>11 DEF SaveEventResponse
  <2> QED BY <2>2, <2>3, <2>4 DEF TypeOK, Locals
<1>12. CASE ConfirmWaitlistedResponse(r)
  <2>1. reply' \in [Members -> {"NONE", "Going", "NotGoing", "Waitlisted"}]
    BY <1>12 DEF ConfirmWaitlistedResponse, TypeOK
  <2>2. req' \in [Requests -> Locals] /\ lock' \in SUBSET Requests
    BY <1>5, <1>12 DEF ConfirmWaitlistedResponse
  <2>3. UNCHANGED <<event, phase, accepting, link, present>>
    BY <1>12 DEF ConfirmWaitlistedResponse
  <2> QED BY <2>1, <2>2, <2>3 DEF TypeOK, Locals
<1>13. CASE Edit(r)
  <2>1. [step |-> "form", shown |-> event] \in Locals BY DEF Locals, Forms, TypeOK
  <2> QED BY <1>2, <1>13, <2>1 DEF Edit
<1>14. ASSUME NEW new \in Details, Update(r, new) PROVE TypeOK'
  <2>1. req[r] \in Forms BY <1>14, RequestKinds DEF Update
  <2>2. [step |-> "submitted", shown |-> req[r].shown, new |-> new] \in Locals
    BY <2>1 DEF Locals, Forms, Editing
  <2> QED BY <1>2, <1>14, <2>2 DEF Update
<1>15. CASE UpdateBegins(r)
  <2>1. req[r] \in Editing BY <1>15, RequestKinds DEF UpdateBegins
  <2>2. [req[r] EXCEPT !.step = "updating"] \in Locals BY <2>1 DEF Locals, Editing
  <2> QED BY <1>2, <1>4, <1>15, <2>2 DEF UpdateBegins
<1>16. CASE UpdateEvent(r)
  <2>1. req[r] \in Editing BY <1>16, RequestKinds DEF UpdateEvent
  <2>2. req[r].new \in Details BY <2>1 DEF Editing
  <2>3. event.rev \in Nat /\ event.rev + 1 \in 0..MaxRev
    BY <1>16 DEF UpdateEvent, TypeOK, Events
  <2>4. event' \in Events
    <3> DEFINE new == req[r].new
    <3>1. /\ new.type \in Types /\ new.capacity \in Limits
          /\ new.audience \in SUBSET Groups
      BY <2>2 DEF Details
    <3> HIDE DEF new
    <3>2. \A k \in 0..MaxRev :
            [event EXCEPT !.type = new.type, !.capacity = new.capacity,
                          !.audience = new.audience, !.rev = k] \in Events
      BY <3>1 DEF TypeOK, Events
    <3>3. event' = [event EXCEPT !.type = new.type, !.capacity = new.capacity,
                                 !.audience = new.audience, !.rev = event.rev + 1]
      BY <1>16 DEF UpdateEvent, new, TypeOK, Events
    <3> QED BY <2>3, <3>2, <3>3
  <2>5. phase' \in {"ahead", "on", "over"} /\ accepting' \in BOOLEAN
    BY <1>16 DEF UpdateEvent
  <2>6. req' \in [Requests -> Locals] BY <1>3, <1>16 DEF UpdateEvent
  <2>7. UNCHANGED <<link, reply, present, lock>> BY <1>16 DEF UpdateEvent
  <2> QED BY <2>4, <2>5, <2>6, <2>7 DEF TypeOK, Locals
<1>17. CASE CancelBegins(r)
  <2>1. req[r] \in Forms BY <1>17, RequestKinds DEF CancelBegins
  <2>2. [step |-> "cancelling", shown |-> req[r].shown] \in Locals
    BY <2>1 DEF Locals, Forms, Cancelling
  <2> QED BY <1>2, <1>4, <1>17, <2>2 DEF CancelBegins
<1>18. CASE CancelEvent(r)
  <2>1. event.rev + 1 \in 0..MaxRev BY <1>18 DEF CancelEvent, TypeOK, Events
  <2>2. event' \in Events
    <3>1. \A k \in 0..MaxRev :
            [event EXCEPT !.status = "CANCELLED", !.rev = k] \in Events
      BY DEF TypeOK, Events
    <3> QED BY <1>18, <2>1, <3>1 DEF CancelEvent, TypeOK, Events
  <2>3. req' \in [Requests -> Locals] BY <1>3, <1>18 DEF CancelEvent
  <2>4. UNCHANGED <<phase, accepting, link, reply, present, lock>>
    BY <1>18 DEF CancelEvent
  <2> QED BY <2>2, <2>3, <2>4 DEF TypeOK, Locals
<1>19. CASE ChangedMeanwhile(r)
  BY <1>4, <1>19 DEF ChangedMeanwhile
<1>20. CASE ResultsLink(r)
  <2>1. [step |-> "link", shown |-> link] \in Locals BY DEF Locals, LinkForms, TypeOK
  <2> QED BY <1>2, <1>20, <2>1 DEF ResultsLink
<1>21. ASSUME NEW url \in Links \cup {NoLink}, UpdateEventResultsLink(r, url) PROVE TypeOK'
  <2>1. link.version + 1 \in 0..MaxLinkRev
    BY <1>21 DEF UpdateEventResultsLink, TypeOK, ResultsLinks
  <2>2. link' \in ResultsLinks BY <1>21, <2>1 DEF UpdateEventResultsLink, ResultsLinks
  <2>3. req' \in [Requests -> Locals] BY <1>3, <1>21 DEF UpdateEventResultsLink
  <2>4. UNCHANGED <<event, phase, accepting, reply, present, lock>>
    BY <1>21 DEF UpdateEventResultsLink
  <2> QED BY <2>2, <2>3, <2>4 DEF TypeOK, Locals
<1>22. CASE Abort(r)
  BY <1>1, <1>5, <1>22 DEF Abort
<1> QED BY <1>6, <1>7, <1>8, <1>9, <1>10, <1>11, <1>12, <1>13, <1>14, <1>15, <1>16,
           <1>17, <1>18, <1>19, <1>20, <1>21, <1>22 DEF RequestStep

\* Type correctness: the variables keep their types for any parameters.
THEOREM Typing == Spec => []TypeOK
<1>1. Init => TypeOK
  BY ConstantsAssumption DEF Init, TypeOK, Events, ResultsLinks, Types, Limits
<1>2. TypeOK /\ [Next]_vars => TypeOK'
  <2> SUFFICES ASSUME TypeOK, [Next]_vars PROVE TypeOK'
    OBVIOUS
  <2>1. CASE Clock
    BY <2>1 DEF Clock, DeadlinePasses, EventStarts, EventEnds, TypeOK
  <2>2. ASSUME NEW r \in Requests, RequestStep(r) PROVE TypeOK'
    BY <2>2, RequestTyping
  <2>3. CASE UNCHANGED vars BY <2>3 DEF vars, TypeOK
  <2> QED BY <2>1, <2>2, <2>3 DEF Next
<1> QED BY <1>1, <1>2, PTL DEF Spec

-----------------------------------------------------------------------------
(* The row lock.  Only an answer or a confirmation that has decided holds   *)
(* it, one at a time, and what it decided from stays true while it does.    *)

Holding == {"answered", "confirming"}

\* What a decision was taken from, and the lock keeps so.
AnswerStands(r) ==
  /\ event.status = "ACTIVE"
  /\ reply[req[r].member] = "NONE" => Invited(req[r].member)
  /\ reply[req[r].member] = "Going" => req[r].status # "Waitlisted"
  /\ reply[req[r].member] # "Going" /\ req[r].status = "Going" => HasRoom

LockInv ==
  /\ \A r \in Requests : r \in lock <=> req[r].step \in Holding
  /\ \A r, s \in lock : r = s
  /\ \A r \in Requests :
       /\ req[r].step = "answered" => AnswerStands(r)
       /\ req[r].step = "confirming" => event.status = "ACTIVE" /\ HasRoom

\* Steps that neither take nor give back the lock, nor write what it guards.
LEMMA Bystander ==
  ASSUME TypeOK, LockInv, NEW r \in Requests, NEW state, Goto(r, state),
         UNCHANGED <<event, reply, lock>>,
         req[r].step \notin Holding, state.step \notin Holding
  PROVE  LockInv'
<1>1. \A s \in Requests : IF s = r THEN req'[s] = state ELSE req'[s] = req[s]
  BY DEF Goto, TypeOK
<1>2. \A s \in Requests : req[s].step \in Holding => req'[s] = req[s]
  BY <1>1
<1>3. \A s \in Requests : req'[s].step \in Holding => req'[s] = req[s]
  BY <1>1
<1>4. \A s \in Requests : s \in lock' <=> req'[s].step \in Holding
  BY <1>2, <1>3 DEF LockInv
<1>5. \A s, t \in lock' : s = t BY DEF LockInv
<1>6. ASSUME NEW s \in Requests, req'[s] = req[s]
      PROVE  /\ req'[s].step = "answered" => AnswerStands(s)'
             /\ req'[s].step = "confirming" => event'.status = "ACTIVE" /\ HasRoom'
  BY <1>6 DEF LockInv, AnswerStands, Invited, HasRoom, Going
<1>7. \A s \in Requests :
        /\ req'[s].step = "answered" => AnswerStands(s)'
        /\ req'[s].step = "confirming" => event'.status = "ACTIVE" /\ HasRoom'
  BY <1>3, <1>6 DEF Holding
<1> QED BY <1>4, <1>5, <1>7 DEF LockInv

\* A transaction that ends leaves the row free, or as it was if it had no lock.
LEMMA Releasing ==
  ASSUME TypeOK, LockInv, NEW r \in Requests, Release(r),
         req[r].step \in Holding \/ UNCHANGED <<event, reply>>
  PROVE  LockInv'
<1>1. \A s \in Requests : IF s = r THEN req'[s] = Idle ELSE req'[s] = req[s]
  BY DEF Release, Finish, Goto, TypeOK
<1>2. Idle.step \notin Holding BY DEF Idle, Holding
<1>3. CASE req[r].step \in Holding
  <2>1. lock = {r} BY <1>3 DEF LockInv, TypeOK
  <2>2. lock' = {} BY <2>1 DEF Release
  <2>3. \A s \in Requests : req'[s].step \notin Holding
    BY <1>1, <1>2, <2>1 DEF LockInv
  <2> QED BY <2>2, <2>3 DEF LockInv, Holding
<1>4. CASE req[r].step \notin Holding
  <2>1. UNCHANGED lock BY <1>4 DEF Release, LockInv
  <2>2. Goto(r, Idle) BY DEF Release, Finish
  <2> QED BY <1>2, <1>4, <2>1, <2>2, Bystander
<1> QED BY <1>3, <1>4

\* While the row is free nothing is decided, so the event may change.
LEMMA FreeRow ==
  ASSUME TypeOK, LockInv, NEW r \in Requests, RowFree, Finish(r), UNCHANGED lock
  PROVE  LockInv'
<1>1. \A s \in Requests : req[s].step \notin Holding BY DEF LockInv, RowFree
<1>2. \A s \in Requests : req'[s] \in {Idle, req[s]} BY DEF Finish, Goto, TypeOK
<1>3. \A s \in Requests : req'[s].step \notin Holding
  BY <1>1, <1>2 DEF Idle, Holding
<1> QED BY <1>3 DEF LockInv, RowFree, Holding

\* Taking the lock with a decision.
LEMMA Locking ==
  ASSUME TypeOK, LockInv, NEW r \in Requests, RowFree, lock' = lock \cup {r},
         NEW state, Goto(r, state), state.step \in Holding,
         (state.step = "answered" => AnswerStands(r))',
         (state.step = "confirming" => event.status = "ACTIVE" /\ HasRoom)'
  PROVE  LockInv'
<1>1. lock' = {r} BY DEF RowFree
<1>2. \A s \in Requests : req[s].step \notin Holding BY DEF LockInv, RowFree
<1>3. \A s \in Requests : IF s = r THEN req'[s] = state ELSE req'[s] = req[s]
  BY DEF Goto, TypeOK
<1>4. \A s \in Requests : req'[s].step \in Holding <=> s = r
  BY <1>2, <1>3
<1>5. \A s \in Requests : s \in lock' <=> req'[s].step \in Holding
  BY <1>1, <1>4
<1>6. \A s \in Requests :
        /\ req'[s].step = "answered" => AnswerStands(s)'
        /\ req'[s].step = "confirming" => event'.status = "ACTIVE" /\ HasRoom'
  BY <1>3, <1>4 DEF Holding
<1> QED BY <1>1, <1>5, <1>6 DEF LockInv

\* The decision of an answer stands when it is taken.
LEMMA DecideLocks ==
  ASSUME TypeOK, LockInv, NEW r \in Requests, Decide(r)
  PROVE  LockInv'
<1> DEFINE m == req[r].member
           status == Decision(m, req[r].wantsGoing)
           state == [step |-> "answered", member |-> m, status |-> status]
<1>1. req'[r] = state BY DEF Decide, Goto, TypeOK
<1>2. /\ event.status = "ACTIVE" /\ Invited(m)
      /\ UNCHANGED <<event, reply>>
  BY DEF Decide, MayAnswer
<1>3. /\ reply[m] = "Going" => status # "Waitlisted"
      /\ reply[m] # "Going" /\ status = "Going" => HasRoom
  BY DEF Decision
<1>4. AnswerStands(r)'
  BY <1>1, <1>2, <1>3 DEF AnswerStands, Invited, HasRoom, Going
<1>5. RowFree /\ lock' = lock \cup {r} /\ Goto(r, state) BY DEF Decide
<1>6. state.step = "answered" OBVIOUS
<1> HIDE DEF state
<1> QED BY <1>4, <1>5, <1>6, Locking DEF Holding

\* A confirmation found a free seat when it took the lock.
LEMMA ConfirmLocks ==
  ASSUME TypeOK, LockInv, NEW r \in Requests, NEW m \in Members, Confirm(r, m)
  PROVE  LockInv'
<1> DEFINE state == [step |-> "confirming", member |-> m]
<1>1. RowFree /\ lock' = lock \cup {r} /\ Goto(r, state) BY DEF Confirm
<1>2. (event.status = "ACTIVE" /\ HasRoom)' BY DEF Confirm, HasRoom, Going
<1>3. state.step = "confirming" OBVIOUS
<1> HIDE DEF state
<1> QED BY <1>1, <1>2, <1>3, Locking DEF Holding

LEMMA LockStep ==
  ASSUME TypeOK, LockInv, NEW r \in Requests, RequestStep(r)
  PROVE  LockInv'
<1>1. ASSUME NEW state, Goto(r, state), state.step \notin Holding,
             UNCHANGED <<event, reply, lock>>, req[r].step \notin Holding
      PROVE  LockInv'
  BY <1>1, Bystander
<1>2. Idle.step \notin Holding BY DEF Idle, Holding
<1>3. ASSUME Finish(r), UNCHANGED <<event, reply, lock>>, req[r].step \notin Holding
      PROVE  LockInv'
  BY <1>1, <1>2, <1>3 DEF Finish
<1>4. ASSUME NEW m \in Members, NEW wants \in BOOLEAN, Respond(r, m, wants) PROVE LockInv'
  BY <1>1, <1>2, <1>4 DEF Respond, Holding
<1>5. ASSUME NEW m \in Members, Confirm(r, m) PROVE LockInv'
  BY <1>5, ConfirmLocks
<1>6. ASSUME NEW m \in Members, CheckIn(r, m) PROVE LockInv'
  BY <1>6 DEF CheckIn, LockInv, AnswerStands, Invited, HasRoom, Going
<1>7. CASE Decide(r) BY <1>7, DecideLocks
<1>8. CASE AnswerRefused(r) BY <1>3, <1>8 DEF AnswerRefused, Holding
<1>9. CASE SaveEventResponse(r) \/ ConfirmWaitlistedResponse(r)
  BY <1>9, Releasing DEF SaveEventResponse, ConfirmWaitlistedResponse, Holding
<1>10. CASE Abort(r) BY <1>10, Releasing DEF Abort
<1>11. CASE Edit(r) BY <1>1, <1>2, <1>11 DEF Edit, Holding
<1>12. ASSUME NEW new \in Details, Update(r, new) PROVE LockInv'
  BY <1>1, <1>12 DEF Update, Holding
<1>13. CASE UpdateBegins(r)
  <2>1. req[r] \in Editing BY <1>13, RequestKinds DEF UpdateBegins
  <2>2. [req[r] EXCEPT !.step = "updating"].step = "updating" BY <2>1 DEF Editing
  <2> QED BY <1>1, <1>3, <1>13, <2>2 DEF UpdateBegins, Holding
<1>14. CASE CancelBegins(r) BY <1>1, <1>3, <1>14 DEF CancelBegins, Holding
<1>15. CASE UpdateEvent(r) \/ CancelEvent(r)
  BY <1>15, FreeRow DEF UpdateEvent, CancelEvent
<1>16. CASE ChangedMeanwhile(r) BY <1>16, FreeRow DEF ChangedMeanwhile
<1>17. CASE ResultsLink(r) BY <1>1, <1>2, <1>17 DEF ResultsLink, Holding
<1>18. ASSUME NEW url \in Links \cup {NoLink}, UpdateEventResultsLink(r, url) PROVE LockInv'
  BY <1>18, FreeRow DEF UpdateEventResultsLink
<1> QED BY <1>4, <1>5, <1>6, <1>7, <1>8, <1>9, <1>10, <1>11, <1>12, <1>13, <1>14,
           <1>15, <1>16, <1>17, <1>18 DEF RequestStep

\* The lock discipline is an invariant.
THEOREM LockDiscipline == Spec => []LockInv
<1>1. Init => LockInv
  BY DEF Init, LockInv, Idle, Holding
<1>2. TypeOK /\ LockInv /\ [Next]_vars => LockInv'
  <2> SUFFICES ASSUME TypeOK, LockInv, [Next]_vars PROVE LockInv'
    OBVIOUS
  <2>1. CASE Clock \/ UNCHANGED vars
    <3>1. UNCHANGED <<event, reply, lock, req>>
      BY <2>1 DEF Clock, DeadlinePasses, EventStarts, EventEnds, vars
    <3> QED BY <3>1 DEF LockInv, AnswerStands, Invited, HasRoom, Going
  <2>2. ASSUME NEW r \in Requests, RequestStep(r) PROVE LockInv'
    BY <2>2, LockStep
  <2> QED BY <2>1, <2>2 DEF Next
<1> QED BY <1>1, <1>2, Typing, PTL DEF Spec

-----------------------------------------------------------------------------
(* Who writes what. *)

LEMMA Writers ==
  ASSUME [Next]_vars
  PROVE  /\ reply' # reply =>
              \E r \in Requests : SaveEventResponse(r) \/ ConfirmWaitlistedResponse(r)
         /\ event' # event =>
              \E r \in Requests : UpdateEvent(r) \/ CancelEvent(r)
         /\ present' # present =>
              \E r \in Requests : \/ SaveEventResponse(r)
                                  \/ \E m \in Members : CheckIn(r, m)
         /\ link' # link =>
              \E r \in Requests, url \in Links \cup {NoLink} : UpdateEventResultsLink(r, url)
<1>1. CASE Clock \/ UNCHANGED vars
  BY <1>1 DEF Clock, DeadlinePasses, EventStarts, EventEnds, vars
<1>2. ASSUME NEW r \in Requests, RequestStep(r)
      PROVE  \/ SaveEventResponse(r)
             \/ UNCHANGED <<event, link, present>> /\ ConfirmWaitlistedResponse(r)
             \/ UNCHANGED <<event, link, reply>> /\ \E m \in Members : CheckIn(r, m)
             \/ UNCHANGED <<link, reply, present>> /\ (UpdateEvent(r) \/ CancelEvent(r))
             \/ /\ UNCHANGED <<event, reply, present>>
                /\ \E url \in Links \cup {NoLink} : UpdateEventResultsLink(r, url)
             \/ UNCHANGED <<event, link, reply, present>>
  BY <1>2 DEF RequestStep, Respond, Confirm, CheckIn, Decide, AnswerRefused,
       ConfirmWaitlistedResponse, Edit, UpdateBegins, UpdateEvent, Update, CancelBegins,
       CancelEvent, ChangedMeanwhile, ResultsLink, UpdateEventResultsLink, Abort
<1>3. \A r \in Requests : SaveEventResponse(r) => UNCHANGED <<event, link>>
  BY DEF SaveEventResponse
<1>4. CASE UNCHANGED <<event, link, reply, present>> BY <1>4
<1>5. ASSUME NEW r \in Requests, RequestStep(r), ~UNCHANGED <<event, link, reply, present>>
      PROVE  /\ reply' # reply => SaveEventResponse(r) \/ ConfirmWaitlistedResponse(r)
             /\ event' # event => UpdateEvent(r) \/ CancelEvent(r)
             /\ present' # present => \/ SaveEventResponse(r)
                                     \/ \E m \in Members : CheckIn(r, m)
             /\ link' # link =>
                  \E url \in Links \cup {NoLink} : UpdateEventResultsLink(r, url)
  BY <1>2, <1>3, <1>5
<1> QED BY <1>1, <1>4, <1>5, Zenon DEF Next

\* A write to the answers changes one member's, as its transaction decided.
LEMMA ReplyWrite ==
  ASSUME TypeOK, LockInv, NEW r \in Requests,
         SaveEventResponse(r) \/ ConfirmWaitlistedResponse(r)
  PROVE  \E m \in Members :
           /\ \A n \in Members \ {m} : reply'[n] = reply[n]
           /\ reply'[m] \in {"Going", "NotGoing", "Waitlisted"} \/ reply'[m] = reply[m]
           /\ reply[m] # "Going" /\ reply'[m] = "Going" => HasRoom
           /\ reply[m] = "Going" => reply'[m] # "Waitlisted"
           /\ reply[m] = "NONE" /\ reply'[m] # "NONE" => Invited(m)
           /\ event.status = "ACTIVE" /\ UNCHANGED event
<1>1. CASE SaveEventResponse(r)
  <2>1. req[r] \in Decided BY <1>1, RequestKinds DEF SaveEventResponse
  <2>2. req[r].member \in Members BY <2>1 DEF Decided
  <2>3. reply' = [reply EXCEPT ![req[r].member] = req[r].status] /\ UNCHANGED event
    BY <1>1 DEF SaveEventResponse
  <2>4. AnswerStands(r) BY <1>1 DEF SaveEventResponse, LockInv
  <2>5. req[r].status \in {"Going", "NotGoing", "Waitlisted"} BY <2>1 DEF Decided
  <2>6. reply'[req[r].member] = req[r].status BY <2>2, <2>3 DEF TypeOK
  <2>7. \A n \in Members \ {req[r].member} : reply'[n] = reply[n]
    BY <2>3 DEF TypeOK
  <2> QED BY <2>2, <2>3, <2>4, <2>5, <2>6, <2>7 DEF AnswerStands
<1>2. CASE ConfirmWaitlistedResponse(r)
  <2>1. req[r] \in Confirming BY <1>2, RequestKinds DEF ConfirmWaitlistedResponse
  <2> DEFINE m == req[r].member
  <2>2. m \in Members BY <2>1 DEF Confirming
  <2>3. event.status = "ACTIVE" /\ HasRoom
    BY <1>2 DEF ConfirmWaitlistedResponse, LockInv
  <2>4. /\ reply'[m] = IF reply[m] = "Waitlisted" THEN "Going" ELSE reply[m]
        /\ \A n \in Members \ {m} : reply'[n] = reply[n]
        /\ UNCHANGED event
    BY <1>2, <2>2 DEF ConfirmWaitlistedResponse, TypeOK
  <2> HIDE DEF m
  <2> QED BY <2>2, <2>3, <2>4
<1> QED BY <1>1, <1>2

\* One more seat fits where there is room.
LEMMA OneMoreSeat ==
  ASSUME TypeOK, HasRoom, NEW m \in Members, m \notin Going,
         Going' \subseteq Going \cup {m}, UNCHANGED event
  PROVE  Seats(event.capacity)'
<1> USE ConstantsAssumption
<1>1. IsFiniteSet(Going) BY FS_Subset DEF Going
<1>2. /\ IsFiniteSet(Going \cup {m})
      /\ Cardinality(Going \cup {m}) = Cardinality(Going) + 1
  BY <1>1, FS_AddElement
<1>3. Cardinality(Going') <= Cardinality(Going \cup {m})
  BY <1>2, FS_Subset
<1>4. Cardinality(Going') \in Nat /\ Cardinality(Going) \in Nat
  BY <1>1, <1>2, FS_Subset, FS_CardinalityType
<1>5. ASSUME event.capacity # NoLimit PROVE Cardinality(Going') <= event.capacity
  <2>1. event.capacity \in Nat BY <1>5 DEF TypeOK, Events, Limits
  <2>2. Cardinality(Going) < event.capacity BY <1>5 DEF HasRoom
  <2>3. Cardinality(Going) + 1 <= event.capacity BY <1>4, <2>1, <2>2
  <2>4. Cardinality(Going') <= Cardinality(Going) + 1 BY <1>2, <1>3
  <2>5. \A i, j, k \in Nat : i <= j + 1 /\ j + 1 <= k => i <= k OBVIOUS
  <2> QED BY <1>4, <2>1, <2>3, <2>4, <2>5
<1> QED BY <1>5 DEF Seats

\* Nobody is given a seat beyond the capacity in force, for any capacity and
\* any number of answers, confirmations and edits at once.
THEOREM SeatsGranted == Spec => SeatsAreGranted
<1>1. ASSUME TypeOK, LockInv, [Next]_vars, (Going' \ Going) # {}
      PROVE  Seats(event.capacity)'
  <2>1. PICK r \in Requests : SaveEventResponse(r) \/ ConfirmWaitlistedResponse(r)
    BY <1>1, Writers DEF Going
  <2>2. PICK m \in Members :
          /\ \A n \in Members \ {m} : reply'[n] = reply[n]
          /\ reply[m] # "Going" /\ reply'[m] = "Going" => HasRoom
          /\ UNCHANGED event
    BY <1>1, <2>1, ReplyWrite
  <2>3. Going' \subseteq Going \cup {m} BY <2>2 DEF Going
  <2>4. m \notin Going /\ reply'[m] = "Going" BY <1>1, <2>2, <2>3 DEF Going
  <2>5. HasRoom BY <2>2, <2>4 DEF Going
  <2> QED BY <1>1, <2>2, <2>3, <2>4, <2>5, OneMoreSeat
<1>2. TypeOK /\ LockInv /\ [Next]_vars
        => [(Going' \ Going) # {} => Seats(event.capacity)']_vars
  BY <1>1
<1> QED BY <1>2, Typing, LockDiscipline, PTL DEF Spec, SeatsAreGranted

\* An answer never trades a held seat for a place on the waiting list.
THEOREM SeatsKept == Spec => SeatsAreKept
<1>1. TypeOK /\ LockInv /\ [Next]_vars
        => [\A m \in Members : reply[m] = "Going" => reply'[m] # "Waitlisted"]_vars
  <2> SUFFICES ASSUME TypeOK, LockInv, [Next]_vars, NEW m \in Members, reply[m] = "Going"
               PROVE  reply'[m] # "Waitlisted"
    OBVIOUS
  <2>1. CASE reply' = reply BY <2>1
  <2>2. ASSUME NEW r \in Requests, SaveEventResponse(r) \/ ConfirmWaitlistedResponse(r)
        PROVE  reply'[m] # "Waitlisted"
    BY <2>2, ReplyWrite
  <2> QED BY <2>1, <2>2, Writers
<1> QED BY <1>1, Typing, LockDiscipline, PTL DEF Spec, SeatsAreKept

\* A first answer comes from someone the event invites when it is written.
THEOREM Invitations == Spec => AnswersAreInvited
<1>1. TypeOK /\ LockInv /\ [Next]_vars
        => [\A m \in Members : reply[m] = "NONE" /\ reply'[m] # "NONE" => Invited(m)]_vars
  <2> SUFFICES ASSUME TypeOK, LockInv, [Next]_vars, NEW m \in Members,
                      reply[m] = "NONE", reply'[m] # "NONE"
               PROVE  Invited(m)
    OBVIOUS
  <2>1. PICK r \in Requests : SaveEventResponse(r) \/ ConfirmWaitlistedResponse(r)
    BY Writers
  <2> QED BY <2>1, ReplyWrite
<1> QED BY <1>1, Typing, LockDiscipline, PTL DEF Spec, AnswersAreInvited

\* A cancelled event stays cancelled and takes no answer, confirmation or
\* check-in, whatever had started before the cancellation.
THEOREM CancelledFrozen == Spec => CancelledIsFrozen
<1>1. TypeOK /\ LockInv /\ [Next]_vars
        => [event.status = "CANCELLED"
              => event' = event /\ reply' = reply /\ present' = present]_vars
  <2> SUFFICES ASSUME TypeOK, LockInv, [Next]_vars, event.status = "CANCELLED"
               PROVE  event' = event /\ reply' = reply /\ present' = present
    OBVIOUS
  <2>1. \A r \in Requests : ~UpdateEvent(r) /\ ~CancelEvent(r)
    BY DEF UpdateEvent, CancelEvent, Matches, IsAsShown
  <2>2. \A r \in Requests : ~SaveEventResponse(r) /\ ~ConfirmWaitlistedResponse(r)
    BY ReplyWrite
  <2>3. \A r \in Requests, m \in Members : ~CheckIn(r, m) BY DEF CheckIn
  <2> QED BY <2>1, <2>2, <2>3, Writers
<1> QED BY <1>1, Typing, LockDiscipline, PTL DEF Spec, CancelledIsFrozen

\* Whoever is checked in is Going.
THEOREM PresentGoing == Spec => []PresentAreGoing
<1>1. Init => PresentAreGoing BY DEF Init, PresentAreGoing
<1>2. TypeOK /\ LockInv /\ PresentAreGoing /\ [Next]_vars => PresentAreGoing'
  <2> SUFFICES ASSUME TypeOK, PresentAreGoing, [Next]_vars, NEW n \in Members, present'[n]
               PROVE  reply'[n] = "Going"
    BY DEF PresentAreGoing
  <2>1. ASSUME NEW r \in Requests, SaveEventResponse(r) PROVE reply'[n] = "Going"
    <3>1. req[r] \in Decided BY <2>1, RequestKinds DEF SaveEventResponse
    <3>2. n # req[r].member /\ present[n] BY <2>1, <3>1 DEF SaveEventResponse, TypeOK, Decided
    <3> QED BY <2>1, <3>2 DEF SaveEventResponse, TypeOK, PresentAreGoing
  <2>2. ASSUME NEW r \in Requests, ConfirmWaitlistedResponse(r) PROVE reply'[n] = "Going"
    BY <2>2 DEF ConfirmWaitlistedResponse, PresentAreGoing, TypeOK
  <2>3. ASSUME NEW r \in Requests, NEW m \in Members, CheckIn(r, m) PROVE reply'[n] = "Going"
    BY <2>3 DEF CheckIn, PresentAreGoing, TypeOK
  <2>4. CASE UNCHANGED <<reply, present>> BY <2>4 DEF PresentAreGoing
  <2> QED BY <2>1, <2>2, <2>3, <2>4, Writers
<1> QED BY <1>1, <1>2, Typing, LockDiscipline, PTL DEF Spec

\* Only a competition links to results or has an official document.
THEOREM CompetitionLinks == Spec => []LinksOnCompetitions
<1>1. Init => LinksOnCompetitions BY DEF Init, LinksOnCompetitions
<1>2. TypeOK /\ LinksOnCompetitions /\ [Next]_vars => LinksOnCompetitions'
  <2> SUFFICES ASSUME TypeOK, LinksOnCompetitions, [Next]_vars PROVE LinksOnCompetitions'
    OBVIOUS
  <2>1. ASSUME NEW r \in Requests, UpdateEvent(r) PROVE LinksOnCompetitions'
    <3>1. KeepsItsKind(req[r].new) /\ UNCHANGED link BY <2>1 DEF UpdateEvent, Matches
    <3>2. event'.type = req[r].new.type BY <2>1 DEF UpdateEvent, TypeOK, Events
    <3> QED BY <3>1, <3>2 DEF KeepsItsKind, LinksOnCompetitions
  <2>2. ASSUME NEW r \in Requests, CancelEvent(r) PROVE LinksOnCompetitions'
    <3>1. event'.type = event.type /\ UNCHANGED link
      BY <2>2 DEF CancelEvent, TypeOK, Events
    <3> QED BY <3>1 DEF LinksOnCompetitions
  <2>3. ASSUME NEW r \in Requests, NEW url \in Links \cup {NoLink},
               UpdateEventResultsLink(r, url)
        PROVE  LinksOnCompetitions'
    BY <2>3 DEF UpdateEventResultsLink, LinkMatches, LinksOnCompetitions
  <2>4. CASE UNCHANGED <<event, link>> BY <2>4 DEF LinksOnCompetitions
  <2> QED BY <2>1, <2>2, <2>3, <2>4, Writers
<1> QED BY <1>1, <1>2, Typing, PTL DEF Spec

-----------------------------------------------------------------------------
(* Optimistic concurrency: a version identifies what a form showed.         *)

OfEvent == {"form", "submitted", "updating", "cancelling"}

EventShown(shown) == shown.rev <= event.rev /\ (shown.rev = event.rev => shown = event)
LinkShown(shown)  ==
  shown.version <= link.version /\ (shown.version = link.version => shown = link)

FormInv ==
  \A r \in Requests :
    /\ req[r].step \in OfEvent => EventShown(req[r].shown)
    /\ req[r].step = "link" => LinkShown(req[r].shown)

\* A step of a request leaves the others' forms, and its own shows what it did
\* or the present row.
LEMMA FormKept ==
  ASSUME TypeOK, NEW r \in Requests, RequestStep(r)
  PROVE  /\ \A s \in Requests \ {r} : req'[s] = req[s]
         /\ req'[r].step \in OfEvent =>
              \/ req[r].step \in OfEvent /\ req'[r].shown = req[r].shown
              \/ req'[r].shown = event
         /\ req'[r].step = "link" => req'[r] = req[r] \/ req'[r].shown = link
<1> DEFINE Kept == /\ req'[r].step \in OfEvent =>
                        \/ req[r].step \in OfEvent /\ req'[r].shown = req[r].shown
                        \/ req'[r].shown = event
                   /\ req'[r].step = "link" => req'[r] = req[r] \/ req'[r].shown = link
<1>1. ASSUME NEW state, Goto(r, state)
      PROVE  (\A s \in Requests \ {r} : req'[s] = req[s]) /\ req'[r] = state
  BY <1>1 DEF Goto, TypeOK
<1>2. ASSUME NEW state, Goto(r, state), state.step \notin OfEvent \cup {"link"}
      PROVE  (\A s \in Requests \ {r} : req'[s] = req[s]) /\ Kept
  BY <1>1, <1>2
<1>3. ASSUME Finish(r) PROVE (\A s \in Requests \ {r} : req'[s] = req[s]) /\ Kept
  BY <1>2, <1>3 DEF Finish, Idle, OfEvent
<1>4. ASSUME NEW m \in Members,
             \/ Confirm(r, m)
             \/ \E wants \in BOOLEAN : Respond(r, m, wants)
      PROVE  (\A s \in Requests \ {r} : req'[s] = req[s]) /\ Kept
  BY <1>2, <1>4 DEF Confirm, Respond, OfEvent
<1>5. ASSUME NEW m \in Members, CheckIn(r, m)
      PROVE  (\A s \in Requests \ {r} : req'[s] = req[s]) /\ Kept
  BY <1>5 DEF CheckIn
<1>6. CASE Decide(r) BY <1>2, <1>6 DEF Decide, OfEvent
<1>7. CASE \/ AnswerRefused(r) \/ SaveEventResponse(r) \/ ConfirmWaitlistedResponse(r)
           \/ UpdateEvent(r) \/ CancelEvent(r) \/ ChangedMeanwhile(r) \/ Abort(r)
           \/ \E url \in Links \cup {NoLink} : UpdateEventResultsLink(r, url)
  BY <1>3, <1>7 DEF AnswerRefused, SaveEventResponse, ConfirmWaitlistedResponse,
       UpdateEvent, CancelEvent, ChangedMeanwhile, UpdateEventResultsLink, Abort, Release
<1>8. CASE Edit(r) \/ ResultsLink(r)
  BY <1>1, <1>8 DEF Edit, ResultsLink, OfEvent
<1>9. ASSUME NEW new \in Details, Update(r, new)
      PROVE  (\A s \in Requests \ {r} : req'[s] = req[s]) /\ Kept
  BY <1>1, <1>9 DEF Update, OfEvent
<1>10. CASE UpdateBegins(r)
  <2>1. req[r] \in Editing BY <1>10, RequestKinds DEF UpdateBegins
  <2>2. /\ [req[r] EXCEPT !.step = "updating"].shown = req[r].shown
        /\ [req[r] EXCEPT !.step = "updating"].step = "updating"
    BY <2>1 DEF Editing
  <2>3. CASE Goto(r, [req[r] EXCEPT !.step = "updating"])
    BY <1>1, <1>10, <2>2, <2>3 DEF UpdateBegins, OfEvent
  <2> QED BY <1>3, <1>10, <2>3 DEF UpdateBegins
<1>11. CASE CancelBegins(r)
  BY <1>1, <1>3, <1>11 DEF CancelBegins, OfEvent
<1> QED BY <1>4, <1>5, <1>6, <1>7, <1>8, <1>9, <1>10, <1>11 DEF RequestStep

\* Every write to the event or its link moves the version it is known by.
LEMMA VersionsMove ==
  ASSUME TypeOK, [Next]_vars
  PROVE  /\ event' = event \/ event'.rev = event.rev + 1
         /\ link' = link \/ link'.version = link.version + 1
<1>1. ASSUME NEW r \in Requests, UpdateEvent(r) \/ CancelEvent(r)
      PROVE  event'.rev = event.rev + 1
  BY <1>1 DEF UpdateEvent, CancelEvent, TypeOK, Events
<1>2. ASSUME NEW r \in Requests, NEW url \in Links \cup {NoLink},
             UpdateEventResultsLink(r, url)
      PROVE  link'.version = link.version + 1
  BY <1>2 DEF UpdateEventResultsLink
<1> QED BY <1>1, <1>2, Writers

\* What a request keeps of the event or of the link has a version.
LEMMA ShownTyped ==
  ASSUME TypeOK, NEW r \in Requests
  PROVE  /\ req[r].step \in OfEvent => req[r].shown \in Events
         /\ req[r].step = "link" => req[r].shown \in ResultsLinks
BY RequestKinds DEF OfEvent, Forms, Editing, Cancelling, LinkForms

\* A version is at most the present one, and equal only to what it identifies.
THEOREM FormsAreVersioned == Spec => []FormInv
<1>1. Init => FormInv BY DEF Init, FormInv, Idle, OfEvent
<1>2. TypeOK /\ FormInv /\ [Next]_vars => FormInv'
  <2> SUFFICES ASSUME TypeOK, FormInv, [Next]_vars PROVE FormInv'
    OBVIOUS
  <2>1. event.rev \in Nat /\ link.version \in Nat
    BY ConstantsAssumption DEF TypeOK, Events, ResultsLinks
  <2> DEFINE EventStillShown(shown) ==
               shown.rev <= event'.rev /\ (shown.rev = event'.rev => shown = event')
             LinkStillShown(shown) ==
               shown.version <= link'.version /\ (shown.version = link'.version => shown = link')
  <2>2. ASSUME NEW shown \in Events, EventShown(shown) PROVE EventStillShown(shown)
    <3>1. shown.rev \in Nat BY <2>2, ConstantsAssumption DEF Events
    <3>2. CASE event' = event BY <2>2, <3>2 DEF EventShown
    <3>3. CASE event'.rev = event.rev + 1
      <4>1. shown.rev < event'.rev BY <2>1, <2>2, <3>1, <3>3 DEF EventShown
      <4> QED BY <2>1, <3>1, <3>3, <4>1 DEF EventShown
    <3> QED BY <3>2, <3>3, VersionsMove
  <2>3. ASSUME NEW shown \in ResultsLinks, LinkShown(shown) PROVE LinkStillShown(shown)
    <3>1. shown.version \in Nat BY <2>3, ConstantsAssumption DEF ResultsLinks
    <3>2. CASE link' = link BY <2>3, <3>2 DEF LinkShown
    <3>3. CASE link'.version = link.version + 1
      <4>1. shown.version < link'.version BY <2>1, <2>3, <3>1, <3>3 DEF LinkShown
      <4> QED BY <2>1, <3>1, <3>3, <4>1 DEF LinkShown
    <3> QED BY <3>2, <3>3, VersionsMove
  <2>4. EventShown(event) /\ LinkShown(link) BY <2>1 DEF EventShown, LinkShown
  <2>5. event \in Events /\ link \in ResultsLinks BY DEF TypeOK
  <2>6. CASE Clock \/ UNCHANGED vars
    <3>1. UNCHANGED <<event, link, req>>
      BY <2>6 DEF Clock, DeadlinePasses, EventStarts, EventEnds, vars
    <3> QED BY <3>1 DEF FormInv, EventShown, LinkShown
  <2>7. ASSUME NEW r \in Requests, RequestStep(r), NEW s \in Requests
        PROVE  /\ req'[s].step \in OfEvent => EventStillShown(req'[s].shown)
               /\ req'[s].step = "link" => LinkStillShown(req'[s].shown)
    <3>1. CASE req'[s] = req[s]
      <4>1. req[s].step \in OfEvent =>
              req[s].shown \in Events /\ EventShown(req[s].shown)
        BY ShownTyped DEF FormInv
      <4>2. req[s].step = "link" =>
              req[s].shown \in ResultsLinks /\ LinkShown(req[s].shown)
        BY ShownTyped DEF FormInv
      <4> HIDE DEF EventStillShown, LinkStillShown
      <4> QED BY <2>2, <2>3, <3>1, <4>1, <4>2
    <3>2. CASE s = r
      <4>1. /\ req'[r].step \in OfEvent =>
                 req'[r].shown \in Events /\ EventShown(req'[r].shown)
            /\ req'[r].step = "link" =>
                 req'[r].shown \in ResultsLinks /\ LinkShown(req'[r].shown)
        BY <2>4, <2>5, <2>7, FormKept, ShownTyped DEF FormInv
      <4> HIDE DEF EventStillShown, LinkStillShown
      <4> QED BY <2>2, <2>3, <3>2, <4>1
    <3> QED BY <2>7, <3>1, <3>2, FormKept
  <2>8. ASSUME NEW r \in Requests, RequestStep(r) PROVE FormInv'
    BY <2>7, <2>8 DEF FormInv, EventShown, LinkShown
  <2> QED BY <2>6, <2>8 DEF Next
<1> QED BY <1>1, <1>2, Typing, PTL DEF Spec

\* A save replaces exactly what its form showed, however many pages are open.
THEOREM NothingIsOverwritten == Spec => SavesReplaceWhatTheyShowed
<1> DEFINE Replaced ==
      /\ event' # event => \E r \in Requests :
           req[r].step \in {"updating", "cancelling"} /\ req[r].shown = event
             /\ req'[r] = Idle
      /\ link' # link => \E r \in Requests :
           req[r].step = "link" /\ req[r].shown = link /\ req'[r] = Idle
<1>1. TypeOK /\ FormInv /\ [Next]_vars => [Replaced]_vars
  <2> SUFFICES ASSUME TypeOK, FormInv, [Next]_vars PROVE Replaced
    OBVIOUS
  <2>1. ASSUME NEW r \in Requests, UpdateEvent(r) \/ CancelEvent(r)
        PROVE  req[r].step \in {"updating", "cancelling"} /\ req[r].shown = event
                 /\ req'[r] = Idle
    <3>1. req[r].step \in {"updating", "cancelling"} /\ IsAsShown(r) /\ req'[r] = Idle
      BY <2>1 DEF UpdateEvent, CancelEvent, Matches, Finish, Goto, TypeOK
    <3>2. EventShown(req[r].shown) BY <3>1 DEF FormInv, OfEvent
    <3> QED BY <3>1, <3>2 DEF IsAsShown, EventShown
  <2>2. ASSUME NEW r \in Requests, NEW url \in Links \cup {NoLink},
               UpdateEventResultsLink(r, url)
        PROVE  req[r].step = "link" /\ req[r].shown = link /\ req'[r] = Idle
    <3>1. req[r].step = "link" /\ LinkMatches(r) /\ req'[r] = Idle
      BY <2>2 DEF UpdateEventResultsLink, Finish, Goto, TypeOK
    <3>2. LinkShown(req[r].shown) BY <3>1 DEF FormInv
    <3> QED BY <3>1, <3>2 DEF LinkMatches, LinkShown
  <2> QED BY <2>1, <2>2, Writers
<1> QED BY <1>1, Typing, FormsAreVersioned, PTL DEF Spec, SavesReplaceWhatTheyShowed

-----------------------------------------------------------------------------
(* Refinement of Attendance: answers and confirmations take effect when they *)
(* are written, and what they decided is what they would decide then.        *)

\* While a request holds the row, its decision is the one the answers call for.
DecisionStands(r) ==
  /\ Invited(req[r].member)
  /\ \E wants \in BOOLEAN : req[r].status = Decision(req[r].member, wants)

DecisionInv == \A r \in Requests : req[r].step = "answered" => DecisionStands(r)

\* A request comes to have decided in one way only.
LEMMA DecidedByDecide ==
  ASSUME TypeOK, [Next]_vars, NEW r \in Requests, req'[r].step = "answered"
  PROVE  req'[r] = req[r] \/ Decide(r)
<1>1. ASSUME NEW s \in Requests, NEW state, Goto(s, state), state.step # "answered"
      PROVE  req'[r] = req[r]
  BY <1>1 DEF Goto, TypeOK
<1>2. ASSUME NEW s \in Requests, Finish(s) PROVE req'[r] = req[r]
  BY <1>1, <1>2 DEF Finish, Idle
<1>3. ASSUME NEW s \in Requests, RequestStep(s), ~Decide(s) PROVE req'[r] = req[r]
  <2>1. CASE UpdateBegins(s)
    <3>1. req[s] \in Editing BY <2>1, RequestKinds DEF UpdateBegins
    <3>2. [req[s] EXCEPT !.step = "updating"].step = "updating" BY <3>1 DEF Editing
    <3> QED BY <1>1, <1>2, <2>1, <3>2 DEF UpdateBegins
  <2>2. CASE \/ AnswerRefused(s) \/ SaveEventResponse(s) \/ ConfirmWaitlistedResponse(s)
             \/ UpdateEvent(s) \/ CancelEvent(s) \/ ChangedMeanwhile(s) \/ Abort(s)
             \/ \E url \in Links \cup {NoLink} : UpdateEventResultsLink(s, url)
    BY <1>2, <2>2 DEF AnswerRefused, SaveEventResponse, ConfirmWaitlistedResponse,
         UpdateEvent, CancelEvent, ChangedMeanwhile, Abort, UpdateEventResultsLink, Release
  <2>3. CASE \/ Edit(s) \/ CancelBegins(s) \/ ResultsLink(s)
             \/ \E new \in Details : Update(s, new)
    BY <1>1, <1>2, <2>3 DEF Edit, CancelBegins, ResultsLink, Update
  <2>4. ASSUME NEW m \in Members,
               \/ Confirm(s, m) \/ CheckIn(s, m)
               \/ \E wants \in BOOLEAN : Respond(s, m, wants)
        PROVE  req'[r] = req[r]
    BY <1>1, <2>4 DEF Confirm, CheckIn, Respond
  <2> QED BY <1>3, <2>1, <2>2, <2>3, <2>4 DEF RequestStep
<1>4. ASSUME NEW s \in Requests, Decide(s) PROVE req'[r] = req[r] \/ Decide(r)
  BY <1>4 DEF Decide, Goto, TypeOK
<1>5. CASE Clock \/ UNCHANGED vars
  BY <1>5 DEF Clock, DeadlinePasses, EventStarts, EventEnds, vars
<1> QED BY <1>3, <1>4, <1>5 DEF Next

\* Nobody else writes the event or an answer while a request holds the row.
LEMMA HeldRow ==
  ASSUME TypeOK, LockInv, [Next]_vars, NEW r \in Requests,
         req[r].step = "answered", req'[r] = req[r]
  PROVE  UNCHANGED <<event, reply>>
<1>1. r \in lock BY DEF LockInv, Holding
<1>2. ASSUME NEW s \in Requests, UpdateEvent(s) \/ CancelEvent(s) PROVE FALSE
  BY <1>1, <1>2 DEF UpdateEvent, CancelEvent, RowFree
<1>3. ASSUME NEW s \in Requests, SaveEventResponse(s) \/ ConfirmWaitlistedResponse(s)
      PROVE  FALSE
  <2>1. s \in lock BY <1>3 DEF SaveEventResponse, ConfirmWaitlistedResponse, LockInv, Holding
  <2>2. s = r BY <1>1, <2>1 DEF LockInv
  <2>3. req'[r] = Idle
    BY <1>3, <2>2 DEF SaveEventResponse, ConfirmWaitlistedResponse, Release, Finish, Goto, TypeOK
  <2> QED BY <2>3 DEF Idle
<1> QED BY <1>2, <1>3, Writers

\* What a request has decided is what the answers and the event call for, until
\* it writes.
THEOREM DecisionsStand == Spec => []DecisionInv
<1>1. Init => DecisionInv BY DEF Init, DecisionInv, Idle
<1>2. TypeOK /\ LockInv /\ DecisionInv /\ [Next]_vars => DecisionInv'
  <2> SUFFICES ASSUME TypeOK, LockInv, DecisionInv, [Next]_vars, NEW r \in Requests,
                      req'[r].step = "answered"
               PROVE  DecisionStands(r)'
    BY DEF DecisionInv
  <2>1. CASE req'[r] = req[r]
    <3>1. UNCHANGED <<event, reply>> BY <2>1, HeldRow
    <3>2. DecisionStands(r) BY <2>1 DEF DecisionInv
    <3> QED BY <2>1, <3>1, <3>2 DEF DecisionStands, Decision, Invited, HasRoom, Going
  <2>2. CASE Decide(r)
    <3>1. req[r] \in Answering BY <2>2, RequestKinds DEF Decide
    <3>2. req[r].wantsGoing \in BOOLEAN BY <3>1 DEF Answering
    <3>3. /\ UNCHANGED <<event, reply>>
          /\ req'[r] = [step |-> "answered", member |-> req[r].member,
                        status |-> Decision(req[r].member, req[r].wantsGoing)]
          /\ Invited(req[r].member)
      BY <2>2 DEF Decide, Goto, TypeOK, MayAnswer
    <3>4. req'[r].status = Decision(req'[r].member, req[r].wantsGoing) BY <3>3
    <3>5. \A m, wants : Decision(m, wants)' = Decision(m, wants)
      BY <3>3 DEF Decision, HasRoom, Going
    <3> QED BY <3>2, <3>3, <3>4, <3>5 DEF DecisionStands, Invited
  <2> QED BY <2>1, <2>2, DecidedByDecide
<1> QED BY <1>1, <1>2, Typing, LockDiscipline, PTL DEF Spec

\* What one written answer does to the members by their answers.
LEMMA AnswerMoves ==
  ASSUME TypeOK, NEW m \in Members, NEW status,
         reply' = [reply EXCEPT ![m] = status]
  PROVE  \A other : Who(other)' = IF other = status THEN Who(other) \cup {m}
                                  ELSE Who(other) \ {m}
<1>1. \A n \in Members : reply'[n] = IF n = m THEN status ELSE reply[n]
  BY DEF TypeOK
<1> QED BY <1>1 DEF Who

\* An answer that is written is an answer at that instant.
LEMMA AnswersAtOnce ==
  ASSUME TypeOK, LockInv, DecisionInv, NEW r \in Requests, SaveEventResponse(r)
  PROVE  \E m \in Members : AsPromised!Answer(m)
<1> DEFINE m == req[r].member
           status == req[r].status
<1>1. req[r] \in Decided BY RequestKinds DEF SaveEventResponse
<1>2. m \in Members BY <1>1 DEF Decided
<1>3. /\ reply' = [reply EXCEPT ![m] = status]
      /\ present' = [present EXCEPT ![m] = FALSE]
      /\ UNCHANGED <<event, link>>
  BY DEF SaveEventResponse
<1>4. event.status = "ACTIVE" BY DEF SaveEventResponse, LockInv, AnswerStands
<1>5. DecisionStands(r) BY DEF SaveEventResponse, DecisionInv
<1>6. PICK wants \in BOOLEAN : status = Decision(m, wants) BY <1>5 DEF DecisionStands
<1>7. Invited(m) BY <1>5 DEF DecisionStands
<1> HIDE DEF m, status
<1>8. AsPromised!Invited(m) BY <1>7 DEF Invited, AsPromised!Invited, TermsOf
<1>9. HasRoom <=> AsPromised!SeatFree
  BY DEF HasRoom, AsPromised!SeatFree, TermsOf, Cardinality, AsPromised!Cardinality
<1>10. \A other : Who(other)' = IF other = status THEN Who(other) \cup {m}
                                ELSE Who(other) \ {m}
  BY <1>2, <1>3, AnswerMoves
<1>11. Going = Who("Going") /\ Going' = Who("Going")' BY DEF Going, Who
<1>12. {n \in Members : present'[n]} = {n \in Members : present[n]} \ {m}
  BY <1>2, <1>3 DEF TypeOK
<1>13. reply[m] = "Going" <=> m \in Going BY <1>2 DEF Going
<1>14. \/ AsPromised!Decline(m) \/ AsPromised!TakeSeat(m) \/ AsPromised!Queue(m)
  <2>1. CASE ~wants
    <3>1. status = "NotGoing" BY <1>6, <2>1 DEF Decision
    <3> QED BY <1>10, <1>11, <3>1 DEF AsPromised!Decline
  <2>2. CASE wants /\ (m \in Going \/ HasRoom)
    <3>1. status = "Going" BY <1>6, <1>13, <2>2 DEF Decision
    <3> QED BY <1>9, <1>10, <1>11, <2>2, <3>1 DEF AsPromised!TakeSeat
  <2>3. CASE wants /\ ~(m \in Going \/ HasRoom)
    <3>1. status = "Waitlisted" BY <1>6, <1>13, <2>3 DEF Decision
    <3>2. Going' = Going BY <1>10, <1>11, <2>3, <3>1
    <3> QED BY <1>9, <1>10, <2>3, <3>1, <3>2 DEF AsPromised!Queue
  <2> QED BY <2>1, <2>2, <2>3
<1> QED BY <1>2, <1>3, <1>4, <1>8, <1>12, <1>14 DEF AsPromised!Answer

\* A confirmation that is written gives a free seat to somebody who waits, or
\* changes nothing.
LEMMA ConfirmsAtOnce ==
  ASSUME TypeOK, LockInv, NEW r \in Requests, ConfirmWaitlistedResponse(r)
  PROVE  \/ UNCHANGED <<event, link, reply, present>>
         \/ \E m \in Members : AsPromised!Confirm(m)
<1> DEFINE m == req[r].member
<1>1. m \in Members
  BY RequestKinds DEF ConfirmWaitlistedResponse, Confirming
<1>2. /\ reply' = [reply EXCEPT ![m] = IF @ = "Waitlisted" THEN "Going" ELSE @]
      /\ UNCHANGED <<event, link, present>>
  BY DEF ConfirmWaitlistedResponse
<1>3. event.status = "ACTIVE" /\ HasRoom BY DEF ConfirmWaitlistedResponse, LockInv
<1> HIDE DEF m
<1>4. CASE reply[m] = "Waitlisted"
  <2>1. reply' = [reply EXCEPT ![m] = "Going"] BY <1>1, <1>2, <1>4 DEF TypeOK
  <2>2. \A other : Who(other)' = IF other = "Going" THEN Who(other) \cup {m}
                                 ELSE Who(other) \ {m}
    BY <1>1, <2>1, AnswerMoves
  <2>3. Going = Who("Going") /\ Going' = Who("Going")' BY DEF Going, Who
  <2>4. m \in Who("Waitlisted") /\ m \notin Who("NotGoing") BY <1>1, <1>4 DEF Who
  <2>5. Going' = Going \cup {m} /\ Who("Waitlisted")' = Who("Waitlisted") \ {m}
          /\ Who("NotGoing")' = Who("NotGoing")
    BY <2>2, <2>3, <2>4
  <2>6. AsPromised!SeatFree
    BY <1>3 DEF HasRoom, AsPromised!SeatFree, TermsOf, Cardinality, AsPromised!Cardinality
  <2> QED BY <1>1, <1>2, <1>3, <2>4, <2>5, <2>6 DEF AsPromised!Confirm
<1>5. CASE reply[m] # "Waitlisted"
  <2>1. reply' = reply BY <1>1, <1>2, <1>5 DEF TypeOK
  <2> QED BY <1>2, <2>1
<1> QED BY <1>4, <1>5

\* Edits, cancellations, check-ins and results links are single steps already.
LEMMA OthersAtOnce ==
  ASSUME TypeOK, NEW r \in Requests
  PROVE  /\ \A m \in Members : CheckIn(r, m) => AsPromised!CheckIn(m)
         /\ UpdateEvent(r) => \E new \in AsPromised!Terms : AsPromised!Edit(new)
         /\ CancelEvent(r) => AsPromised!Cancel
         /\ \A url : UpdateEventResultsLink(r, url) => AsPromised!LinkResults(url)
<1>1. ASSUME NEW m \in Members, CheckIn(r, m) PROVE AsPromised!CheckIn(m)
  <2>1. {n \in Members : present'[n]} = {n \in Members : present[n]} \cup {m}
    BY <1>1 DEF CheckIn, TypeOK
  <2>2. UNCHANGED <<event, link, reply>> /\ event.status = "ACTIVE" /\ m \in Going
    BY <1>1 DEF CheckIn, Going
  <2> QED BY <2>1, <2>2 DEF AsPromised!CheckIn, Who, Going
<1>2. ASSUME UpdateEvent(r) PROVE \E new \in AsPromised!Terms : AsPromised!Edit(new)
  <2> DEFINE new == req[r].new
  <2>1. req[r] \in Editing BY <1>2, RequestKinds DEF UpdateEvent
  <2>2. new \in Details BY <2>1 DEF Editing
  <2>3. new \in AsPromised!Terms /\ TermsOf(new) = new
    BY <2>2 DEF Details, AsPromised!Terms, TermsOf, Types
  <2>4. /\ event'.type = new.type /\ event'.capacity = new.capacity
        /\ event'.audience = new.audience /\ event'.status = event.status
    BY <1>2 DEF UpdateEvent, TypeOK, Events
  <2>5. TermsOf(event') = new BY <2>3, <2>4 DEF TermsOf
  <2>6. /\ event.status = "ACTIVE" /\ KeepsItsKind(new)
        /\ UNCHANGED <<link, reply, present>>
    BY <1>2 DEF UpdateEvent, Matches, IsAsShown
  <2> HIDE DEF new
  <2>7. AsPromised!Edit(new)
    BY <2>4, <2>5, <2>6 DEF AsPromised!Edit, KeepsItsKind, Who, Going
  <2> QED BY <2>3, <2>7
<1>3. ASSUME CancelEvent(r) PROVE AsPromised!Cancel
  <2>1. event' = [event EXCEPT !.status = "CANCELLED", !.rev = @ + 1]
          /\ UNCHANGED <<link, reply, present>> /\ event.status = "ACTIVE"
    BY <1>3 DEF CancelEvent, IsAsShown
  <2>2. event'.status = "CANCELLED" /\ TermsOf(event') = TermsOf(event)
    BY <2>1 DEF TypeOK, Events, TermsOf
  <2> QED BY <2>1, <2>2 DEF AsPromised!Cancel, Who, Going
<1>4. ASSUME NEW url, UpdateEventResultsLink(r, url) PROVE AsPromised!LinkResults(url)
  <2>1. /\ event.type = "COMPETITION" /\ link'.url = url
        /\ UNCHANGED <<event, reply, present>>
    BY <1>4 DEF UpdateEventResultsLink, LinkMatches
  <2> QED BY <2>1 DEF AsPromised!LinkResults, TermsOf, Who, Going
<1> QED BY <1>1, <1>2, <1>3, <1>4

\* Every request acts at one instant, by the state of that instant, whatever
\* the others do between its steps: ClubEvents implements Attendance.
THEOREM AttendanceIsKept == Spec => ImplementsAttendance
<1>1. Init => AsPromised!Init
  BY DEF Init, AsPromised!Init, AsPromised!Terms, TermsOf, Types, Who, Going
<1>2. TypeOK /\ LockInv /\ DecisionInv /\ [Next]_vars => [AsPromised!Next]_(AsPromised!vars)
  <2> SUFFICES ASSUME TypeOK, LockInv, DecisionInv, [Next]_vars
               PROVE  AsPromised!Next \/ UNCHANGED AsPromised!vars
    OBVIOUS
  <2>1. ASSUME NEW r \in Requests, SaveEventResponse(r) PROVE AsPromised!Next
    BY <2>1, AnswersAtOnce DEF AsPromised!Next
  <2>2. CASE UNCHANGED <<event, link, reply, present>>
    BY <2>2 DEF AsPromised!vars, TermsOf, Who, Going
  <2>3. ASSUME NEW r \in Requests, ConfirmWaitlistedResponse(r)
        PROVE  AsPromised!Next \/ UNCHANGED AsPromised!vars
    BY <2>2, <2>3, ConfirmsAtOnce DEF AsPromised!Next
  <2>4. ASSUME NEW r \in Requests,
               \/ UpdateEvent(r) \/ CancelEvent(r)
               \/ \E m \in Members : CheckIn(r, m)
               \/ \E url \in Links \cup {NoLink} : UpdateEventResultsLink(r, url)
        PROVE  AsPromised!Next
    BY <2>4, OthersAtOnce DEF AsPromised!Next
  <2> QED BY <2>1, <2>2, <2>3, <2>4, Writers
<1> QED BY <1>1, <1>2, Typing, LockDiscipline, DecisionsStand, PTL
      DEF Spec, ImplementsAttendance, AsPromised!Spec
=============================================================================
