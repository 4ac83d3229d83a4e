------------------------ MODULE TrainingPublication ------------------------
(***************************************************************************)
(* The publication of structured training: a coach previews a week (a      *)
(* training plan of one group), submits the form that carries the plan's   *)
(* updated_at, the handler assembles the prescriptions by four queries     *)
(* outside any transaction, and the store publishes them in a SERIALIZABLE *)
(* one that locks the plan and the memberships.  Meanwhile sessions are    *)
(* edited, moved to another week and cancelled, variations are made and    *)
(* retired, the calendar advances, the competitions that crews train for   *)
(* are given other days, and memberships are shortened by two writers: the *)
(* transition of the dated-participation service (SERIALIZABLE) and the    *)
(* end of the member page (READ COMMITTED).                                *)
(*                                                                         *)
(* PostgreSQL is modelled by what the code relies on: row locks, snapshots *)
(* and the abort of one of two transactions in a deadlock or a             *)
(* read/write cycle.  Every member is in the group, has started, and has   *)
(* no outcome; a session has one segment, the subject of its variations.   *)
(***************************************************************************)
EXTENDS Integers, Sequences, FiniteSets

CONSTANTS
  Plans,        \* the weeks of one training group
  Sessions,
  Booked,       \* the week and the day each session was made for
  Members,      \* memberships of the group
  Variations,
  SubjectOf,    \* the session whose segment a variation changes
  TargetsOf,    \* the memberships a variation is for
  Crews,        \* the variations whose target is a group of memberships
  From,         \* the first day of the group: effective_from
  Until,        \* its last day, or the competition that ends it
  Competitions,
  Scheduled,    \* the day each competition is announced for
  Coaches,
  None,         \* no plan, no variation
  Retired,      \* a variation no longer active
  LastDay,      \* the end of the season, and of the calendar
  MaxClock,     \* bound on the changes that touch a plan
  MaxRevisions  \* bound on the publications of a plan

ASSUME TargetsAssumption ==
  /\ Booked \in [Sessions -> [plan : Plans, day : 1 .. LastDay]]
  /\ SubjectOf \in [Variations -> Sessions]
  /\ TargetsOf \in [Variations -> SUBSET Members]
  /\ Crews \subseteq Variations
  /\ \A v \in Variations \ Crews : \E m \in Members : TargetsOf[v] = {m}
ASSUME CrewsAssumption ==
  /\ From \in [Crews -> 1 .. LastDay]
  /\ Until \in [Crews -> (1 .. LastDay) \cup Competitions]
  /\ Scheduled \in [Competitions -> 1 .. LastDay]
  /\ Competitions \cap 1 .. LastDay = {}
ASSUME FinitenessAssumption == IsFiniteSet(Members) /\ IsFiniteSet(Variations)
ASSUME NamesAssumption == {None, Retired} \cap Plans = {} /\ None \notin Variations
ASSUME BoundsAssumption ==
  LastDay \in Nat \ {0} /\ MaxClock \in Nat /\ MaxRevisions \in Nat

VARIABLES
  today,      \* the Lisbon calendar day
  clock,      \* the last clock_timestamp() given to a plan
  stamp,      \* training_plans.updated_at
  session,    \* training_sessions
  race,       \* the day of events.starts_at, for the competitions
  ends,       \* user_memberships.ends_on
  variation,  \* training_variations: the plan it is active in, None, Retired
  published,  \* training_plan_publications with their prescriptions
  draft,      \* the publication each coach has under way
  closing     \* the transaction that shortens each membership

vars == <<today, clock, stamp, session, race, ends, variation, published, draft, closing>>

Days == 1 .. LastDay
Calendars == [Competitions -> Days]
Rows == [plan : Plans, day : Days, text : 0 .. 1, active : BOOLEAN]
Items == [session : Sessions, member : Members, text : 0 .. 1, day : Days,
          varied : Variations \cup {None}]

NoDraft == [pc |-> "idle", plan |-> None, form |-> 0, due |-> {}, seen |-> Scheduled,
            week |-> <<>>, recipients |-> {}, items |-> {}, used |-> Scheduled,
            had |-> <<>>, shares |-> {}]
Open == [pc |-> "idle", end |-> 0, transition |-> FALSE, outdated |-> FALSE, edited |-> {}]

Init ==
  /\ today = 1 /\ clock = 0
  /\ stamp = [p \in Plans |-> 0]
  /\ session = [s \in Sessions |-> [plan |-> Booked[s].plan, day |-> Booked[s].day,
                                     text |-> 0, active |-> TRUE]]
  /\ race = Scheduled
  /\ ends = [m \in Members |-> LastDay]
  /\ variation = [v \in Variations |-> None]
  /\ published = [p \in Plans |-> <<>>]
  /\ draft = [c \in Coaches |-> NoDraft]
  /\ closing = [m \in Members |-> Open]

-----------------------------------------------------------------------------
(* What the queries of a publication return, from the sessions "ss" and    *)
(* the days "cal" of the competitions.                                     *)

\* The sessions of the week and what they say.
Week(ss, p) == [s \in {x \in Sessions : ss[x].plan = p} |-> [text |-> ss[s].text, day |-> ss[s].day]]

\* The membership is open today and on the day of the session.
Eligible(ss, s, m) == today <= ends[m] /\ ss[s].day <= ends[m]

Recipients(ss, p) == {r \in Sessions \X Members : ss[r[1]].plan = p /\ Eligible(ss, r[1], r[2])}

\* The last day of a group: its own, or that of its competition.
LastOf(v, cal) == IF Until[v] \in Competitions THEN cal[Until[v]] ELSE Until[v]
InWindow(v, day, cal) == v \in Crews => From[v] <= day /\ day <= LastOf(v, cal)

\* The variations of the plan that apply to a membership in a session.
Matches(ss, cal, p) == {r \in Variations \X Members :
  /\ variation[r[1]] = p /\ ss[SubjectOf[r[1]]].plan = p
  /\ r[2] \in TargetsOf[r[1]]
  /\ ss[SubjectOf[r[1]]].day <= ends[r[2]]
  /\ InWindow(r[1], ss[SubjectOf[r[1]]].day, cal)}

Priority(v) == IF v \in Crews THEN 1 ELSE 2

\* The variations of highest priority for a membership in a session.
Best(matches, s, m) ==
  LET found == {v \in Variations : SubjectOf[v] = s /\ <<v, m>> \in matches}
  IN  {v \in found : \A w \in found : Priority(w) <= Priority(v)}

Tied(matches) == \E s \in Sessions, m \in Members : Cardinality(Best(matches, s, m)) > 1

Varied(matches, s, m) ==
  LET best == Best(matches, s, m) IN IF best = {} THEN None ELSE CHOOSE v \in best : TRUE

\* One prescription for each recipient whose session is in the week.
Prescriptions(week, recipients, matches) ==
  {[session |-> r[1], member |-> r[2], text |-> week[r[1]].text, day |-> week[r[1]].day,
    varied |-> Varied(matches, r[1], r[2])] : r \in {x \in recipients : x[1] \in DOMAIN week}}

\* What a publication of the plan made in one instant would contain.
Candidates(ss, cal, p) == Prescriptions(Week(ss, p), Recipients(ss, p), Matches(ss, cal, p))

Latest(p) == published[p][Len(published[p])]
Current(p) == published[p] # <<>> /\ Latest(p).source = stamp[p]

-----------------------------------------------------------------------------
(* The plan row: locked by a publication, touched by every trigger.        *)

Locking == {c \in Coaches : draft[c].pc = "locked"}
Locked(p) == \E c \in Locking : draft[c].plan = p

\* The trigger waits for the rows it updates.
Touch(ps) ==
  /\ \A p \in ps : ~Locked(p)
  /\ clock' = clock + 1
  /\ stamp' = [p \in Plans |-> IF p \in ps THEN clock + 1 ELSE stamp[p]]

\* The bound on the clock leaves room for the closings already begun.
Room == clock + Cardinality({m \in Members : closing[m].pc # "idle"}) < MaxClock

-----------------------------------------------------------------------------
(* The plan changes.                                                       *)

NextDay ==
  /\ today < LastDay
  /\ today' = today + 1
  /\ UNCHANGED <<clock, stamp, session, race, ends, variation, published, draft, closing>>

\* A segment or a block is added, moved or filled in.
EditContent(s) ==
  /\ Room
  /\ session' = [session EXCEPT ![s] = [@ EXCEPT !.text = 1 - session[s].text]]
  /\ Touch({session[s].plan})
  /\ UNCHANGED <<today, race, ends, variation, published, draft, closing>>

\* Mutant: the trigger touches the plan the session leaves.
UpdateTouchingOld(s, p, d) ==
  /\ Room
  /\ session[s].active /\ session[s].day >= today
  /\ session[s].plan # p \/ session[s].day # d
  /\ session' = [session EXCEPT ![s] = [@ EXCEPT !.plan = p, !.day = d]]
  /\ Touch({session[s].plan})
  /\ closing' = [m \in Members |-> IF closing[m].pc = "idle" THEN closing[m]
                                   ELSE [closing[m] EXCEPT !.edited = @ \cup {s}]]
  /\ UNCHANGED <<today, race, ends, variation, published, draft>>

\* The session's own form: its day and its plan.  Only the plan it goes to
\* is touched.
UpdateSession(s, p, d) ==
  /\ Room
  /\ session[s].active /\ session[s].day >= today
  /\ session[s].plan # p \/ session[s].day # d
  /\ session' = [session EXCEPT ![s] = [@ EXCEPT !.plan = p, !.day = d]]
  /\ Touch({p})
  /\ closing' = [m \in Members |-> IF closing[m].pc = "idle" THEN closing[m]
                                   ELSE [closing[m] EXCEPT !.edited = @ \cup {s}]]
  /\ UNCHANGED <<today, race, ends, variation, published, draft>>

CancelSession(s) ==
  /\ Room
  /\ session[s].active /\ session[s].day >= today
  /\ session' = [session EXCEPT ![s] = [@ EXCEPT !.active = FALSE]]
  /\ Touch({session[s].plan})
  /\ UNCHANGED <<today, race, ends, variation, published, draft, closing>>

\* One active variation for each target and subject in a plan.
CreateVariation(v) ==
  LET p == session[SubjectOf[v]].plan IN
  /\ Room
  /\ variation[v] = None
  /\ v \notin Crews => \A m \in TargetsOf[v] : session[SubjectOf[v]].day <= ends[m]
  /\ v \notin Crews => \A w \in Variations \ Crews :
       variation[w] = p => SubjectOf[w] # SubjectOf[v] \/ TargetsOf[w] # TargetsOf[v]
  /\ variation' = [variation EXCEPT ![v] = p]
  /\ Touch({p})
  /\ UNCHANGED <<today, session, race, ends, published, draft, closing>>

RetireVariation(v) ==
  /\ Room
  /\ variation[v] \in Plans
  /\ variation' = [variation EXCEPT ![v] = Retired]
  /\ Touch({variation[v]})
  /\ UNCHANGED <<today, session, race, ends, published, draft, closing>>

\* An edit of the event, which may give it any day and touches no plan.
MoveCompetition(e, d) ==
  /\ race[e] >= today /\ race[e] # d
  /\ race' = [race EXCEPT ![e] = d]
  /\ UNCHANGED <<today, clock, stamp, session, ends, variation, published, draft, closing>>

-----------------------------------------------------------------------------
(* The publication.                                                        *)

Step(c, d) == draft' = [draft EXCEPT ![c] = d]
Unpublished == UNCHANGED <<today, clock, stamp, session, race, ends, variation, published, closing>>
Drop(c) == Step(c, NoDraft) /\ Unpublished

\* The page that offers the form reads the plan's version into it.  "due" is
\* what the plan then asks for and "seen" where the competitions are, kept for
\* the properties.  A request not yet in its transaction may have been given up.
PreviewPlan(c, p) ==
  /\ c \notin Locking
  /\ Step(c, [NoDraft EXCEPT !.pc = "page", !.plan = p, !.form = stamp[p],
                             !.due = Candidates(session, race, p),
                             !.seen = race])
  /\ Unpublished

\* Mutant: the version of the form is not compared.
SubmitAnyVersion(c) ==
  /\ draft[c].pc = "page"
  /\ Step(c, [draft[c] EXCEPT !.pc = "week", !.form = stamp[draft[c].plan]])
  /\ Unpublished

\* The form is accepted if the plan still has the version it carries.
SubmitPlan(c) ==
  /\ draft[c].pc = "page"
  /\ IF stamp[draft[c].plan] = draft[c].form
       THEN Step(c, [draft[c] EXCEPT !.pc = "week"])
       ELSE Step(c, NoDraft)
  /\ Unpublished

ReadWeek(c) ==
  /\ draft[c].pc = "week"
  /\ Step(c, [draft[c] EXCEPT !.pc = "recipients", !.week = Week(session, draft[c].plan)])
  /\ Unpublished

ReadRecipients(c) ==
  /\ draft[c].pc = "recipients"
  /\ Step(c, [draft[c] EXCEPT !.pc = "matches",
                              !.recipients = Recipients(session, draft[c].plan)])
  /\ Unpublished

\* Tied variations refuse the publication, and so does an empty one that
\* would withdraw nothing.  "used" is history too: the days of the competitions
\* that decided which variations apply.
BuildPublication(c) ==
  LET p == draft[c].plan
      matches == Matches(session, race, p)
      items == Prescriptions(draft[c].week, draft[c].recipients, matches)
      nothing == items = {} /\ (published[p] = <<>> \/ Latest(p).items = {})
  IN
  /\ draft[c].pc = "matches"
  /\ IF Tied(matches) \/ nothing
       THEN Step(c, NoDraft)
       ELSE Step(c, [draft[c] EXCEPT !.pc = "built", !.week = <<>>, !.recipients = {},
                                     !.items = items, !.used = race])
  /\ Unpublished

\* The snapshot of the transaction is taken before it waits for the plan.
BeginPublication(c) ==
  /\ draft[c].pc = "built"
  /\ Step(c, [draft[c] EXCEPT !.pc = "begun", !.had = session])
  /\ Unpublished

\* Mutant: the transaction does not compare the version again.
LockUnchecked(c) ==
  /\ draft[c].pc = "begun" /\ ~Locked(draft[c].plan)
  /\ Step(c, [draft[c] EXCEPT !.pc = "locked"])
  /\ Unpublished

\* A plan touched since then, or since the form, refuses it.
LockPlan(c) ==
  /\ draft[c].pc = "begun" /\ ~Locked(draft[c].plan)
  /\ IF stamp[draft[c].plan] = draft[c].form
       THEN Step(c, [draft[c] EXCEPT !.pc = "locked"])
       ELSE Step(c, NoDraft)
  /\ Unpublished

Prescribed(c) == {i.member : i \in draft[c].items}

\* FOR SHARE takes the rows one by one and waits for a membership that is
\* being shortened.
LockMembership(c, m) ==
  /\ draft[c].pc = "locked" /\ m \in Prescribed(c) \ draft[c].shares
  /\ closing[m].pc # "written"
  /\ Step(c, [draft[c] EXCEPT !.shares = @ \cup {m}])
  /\ Unpublished

HoldsAll(c) == draft[c].pc = "locked" /\ draft[c].shares = Prescribed(c)

\* Each prescription is inserted only if the snapshot still has its session
\* in the plan and its membership is open; one publication per version.
Accepted(c) ==
  /\ \A k \in 1 .. Len(published[draft[c].plan]) :
       published[draft[c].plan][k].source # stamp[draft[c].plan]
  /\ \A i \in draft[c].items :
       draft[c].had[i.session].plan = draft[c].plan /\ Eligible(draft[c].had, i.session, i.member)

Publish(c) ==
  LET p == draft[c].plan IN
  /\ HoldsAll(c) /\ Accepted(c)
  /\ Len(published[p]) < MaxRevisions
  /\ published' = [published EXCEPT
       ![p] = Append(@, [source |-> stamp[p], items |-> draft[c].items, used |-> draft[c].used])]
  /\ closing' = [m \in Members |->
       IF closing[m].pc # "idle" /\ m \in Prescribed(c)
         THEN [closing[m] EXCEPT !.outdated = TRUE] ELSE closing[m]]
  /\ Step(c, NoDraft)
  /\ UNCHANGED <<today, clock, stamp, session, race, ends, variation>>

\* Mutant: the refused transaction is left open.
RefuseWithoutRollback(c) ==
  /\ HoldsAll(c)
  /\ ~Accepted(c) \/ Len(published[draft[c].plan]) = MaxRevisions
  /\ UNCHANGED vars

\* A refused insert rolls the transaction back.  MaxRevisions refuses too.
RefusePublication(c) ==
  /\ HoldsAll(c)
  /\ ~Accepted(c) \/ Len(published[draft[c].plan]) = MaxRevisions
  /\ Drop(c)

\* The request is cancelled, or PostgreSQL aborts its transaction.
AbandonPublication(c) == c \in Locking /\ Drop(c)

-----------------------------------------------------------------------------
(* A membership is shortened.                                              *)

\* The trigger's guard: a published session of the membership after its end.
CutsPublished(m, end) ==
  \E p \in Plans : \E k \in 1 .. Len(published[p]) : \E i \in published[p][k].items :
    i.member = m /\ session[i.session].day > end

Sharing(m) == \E c \in Coaches : m \in draft[c].shares
Close(m, r) == closing' = [closing EXCEPT ![m] = r]
NotClosed == UNCHANGED <<today, clock, stamp, session, race, ends, variation, published, draft>>

\* The transition's snapshot, all that its guard will see.
BeginTransition(m) ==
  /\ Room
  /\ closing[m].pc = "idle"
  /\ ends[m] > today
  /\ ~CutsPublished(m, today)
  /\ Close(m, [Open EXCEPT !.pc = "begun", !.transition = TRUE, !.end = today])
  /\ NotClosed

\* Its update waits for those who share the row.
WriteTransition(m) ==
  /\ closing[m].pc = "begun" /\ ~Sharing(m)
  /\ Close(m, [closing[m] EXCEPT !.pc = "written"])
  /\ NotClosed

\* Mutant: the last day is counted twice.
EndTwoDaysAgo(m) ==
  /\ Room
  /\ closing[m].pc = "idle" /\ ~Sharing(m)
  /\ ends[m] >= today
  /\ ~CutsPublished(m, today - 2)
  /\ Close(m, [Open EXCEPT !.pc = "written", !.end = today - 2])
  /\ NotClosed

\* The end of the member page: one statement, whose guard sees all that is
\* committed when it has the row.
EndMembership(m) ==
  /\ Room
  /\ closing[m].pc = "idle" /\ ~Sharing(m)
  /\ ends[m] >= today
  /\ ~CutsPublished(m, today - 1)
  /\ Close(m, [Open EXCEPT !.pc = "written", !.end = today - 1])
  /\ NotClosed

\* Mutant: the transition is not SERIALIZABLE.
NeverConflicts(m) == FALSE

\* A transition that does not see a publication which read the membership
\* closes a read/write cycle: PostgreSQL aborts it.
Conflicts(m) == closing[m].transition /\ closing[m].outdated

\* The trigger that touches the group's plans waits for their publications.
CommitClosing(m) ==
  /\ closing[m].pc = "written" /\ ~Conflicts(m)
  /\ Touch(Plans)
  /\ ends' = [ends EXCEPT ![m] = closing[m].end]
  /\ Close(m, Open)
  /\ UNCHANGED <<today, session, race, variation, published, draft>>

AbortClosing(m) ==
  /\ closing[m].pc = "written" /\ Conflicts(m)
  /\ Close(m, Open)
  /\ NotClosed

AbandonClosing(m) == closing[m].pc # "idle" /\ Close(m, Open) /\ NotClosed

\* The publication waits for the membership and the closing for the plan:
\* PostgreSQL aborts one of them.
BreakDeadlock(c, m) ==
  /\ draft[c].pc = "locked" /\ m \in Prescribed(c) \ draft[c].shares /\ closing[m].pc = "written"
  /\ \/ Drop(c)
     \/ Close(m, Open) /\ NotClosed

-----------------------------------------------------------------------------
PlanStep ==
  \/ NextDay
  \/ \E s \in Sessions : EditContent(s) \/ CancelSession(s)
  \/ \E s \in Sessions, p \in Plans, d \in Days : UpdateSession(s, p, d)
  \/ \E v \in Variations : CreateVariation(v) \/ RetireVariation(v)
  \/ \E e \in Competitions, d \in Days : MoveCompetition(e, d)
CoachStep(c) ==
  \/ \E p \in Plans : PreviewPlan(c, p)
  \/ SubmitPlan(c) \/ ReadWeek(c) \/ ReadRecipients(c) \/ BuildPublication(c)
  \/ BeginPublication(c) \/ LockPlan(c) \/ (\E m \in Members : LockMembership(c, m))
  \/ Publish(c) \/ RefusePublication(c) \/ AbandonPublication(c)
ClosingStep(m) ==
  \/ BeginTransition(m) \/ WriteTransition(m) \/ EndMembership(m)
  \/ CommitClosing(m) \/ AbortClosing(m) \/ AbandonClosing(m)
Next ==
  \/ PlanStep
  \/ \E c \in Coaches : CoachStep(c)
  \/ \E m \in Members : ClosingStep(m)
  \/ \E c \in Coaches, m \in Members : BreakDeadlock(c, m)

Spec == Init /\ [][Next]_vars

\* A transaction that holds locks goes on: PostgreSQL serves the waiters of a
\* row in turn, breaks deadlocks and ends what conflicts.  Nothing else is
\* assumed to happen.
Finish(c) == (\E m \in Members : LockMembership(c, m)) \/ Publish(c) \/ RefusePublication(c)
Conclude(m) == CommitClosing(m) \/ AbortClosing(m)
Fairness ==
  /\ \A c \in Coaches : SF_vars(Finish(c))
  /\ \A m \in Members : SF_vars(Conclude(m))
  /\ WF_vars(\E c \in Coaches, m \in Members : BreakDeadlock(c, m))
FairSpec == Spec /\ Fairness
-----------------------------------------------------------------------------
(* Properties.                                                             *)

Weeks == UNION {[D -> [text : 0 .. 1, day : Days]] : D \in SUBSET Sessions}
Drafts == [pc : {"idle", "page", "week", "recipients", "matches", "built", "begun", "locked"},
           plan : Plans \cup {None}, form : 0 .. MaxClock, due : SUBSET Items,
           seen : Calendars, week : Weeks,
           recipients : SUBSET (Sessions \X Members), items : SUBSET Items, used : Calendars,
           had : [Sessions -> Rows] \cup {<<>>},
           shares : SUBSET Members]
Closings == [pc : {"idle", "begun", "written"}, end : 0 .. LastDay, transition : BOOLEAN,
             outdated : BOOLEAN, edited : SUBSET Sessions]

\* The state keeps its types, and no plan has a version the clock has not given.
TypeOK ==
  /\ today \in Days /\ clock \in 0 .. MaxClock
  /\ stamp \in [Plans -> 0 .. clock]
  /\ session \in [Sessions -> Rows]
  /\ race \in Calendars
  /\ ends \in [Members -> 0 .. LastDay]
  /\ variation \in [Variations -> Plans \cup {None, Retired}]
  /\ \A p \in Plans :
       /\ Len(published[p]) <= MaxRevisions
       /\ \A k \in 1 .. Len(published[p]) :
            published[p][k] \in [source : 0 .. clock, items : SUBSET Items, used : Calendars]
  /\ \A c \in Coaches : draft[c] \in Drafts
  /\ \A m \in Members : closing[m] \in Closings

\* A coach whose transaction commits publishes; he alone adds a revision.
Publishes(c, p) == draft[c].plan = p /\ c \in Locking /\ published'[p] # published[p]

\* What is published is what the plan asked for in one instant, that of the
\* transaction's snapshot, though it was assembled by queries of four
\* instants, with the competitions where they were when the last of these
\* looked: no prescription is mixed, missing or left over, and none settles a
\* tie between two variations (buildStructuredPublication and the checks of
\* PublishStructuredTrainingPlan).
PublicationsAreExact ==
  [][\A c \in Coaches, p \in Plans : Publishes(c, p) =>
       /\ Latest(p)'.items = Candidates(draft[c].had, draft[c].used, p)
       /\ ~Tied(Matches(draft[c].had, draft[c].used, p))]_vars

\* Two prescriptions of one session to one member say the same, except that
\* the variation of one is a crew's whose last day is another in the other's
\* calendar.
SameButForRaces(i, j, cal1, cal2) ==
  /\ i = [j EXCEPT !.varied = i.varied]
  /\ i.varied # j.varied =>
       \E v \in {i.varied, j.varied} \cap Crews : LastOf(v, cal1) # LastOf(v, cal2)

\* Nothing is published that the plan did not ask for when the coach's page
\* read its version, and all it asked for that still can be is published (the
\* source_updated_at of the form).  Only which variation applies may be another,
\* and only by a crew whose competition was moved in between: that is the one
\* thing the version does not cover.
PublishesWhatThePageShowed ==
  [][\A c \in Coaches, p \in Plans : Publishes(c, p) =>
       /\ \A i \in Latest(p)'.items : \E j \in draft[c].due :
            SameButForRaces(i, j, draft[c].used, draft[c].seen)
       /\ \A j \in draft[c].due :
            \/ \E i \in Latest(p)'.items : SameButForRaces(i, j, draft[c].used, draft[c].seen)
            \/ draft[c].had[j.session].plan # p \/ today > ends[j.member]]_vars

\* A plan shown as published without pending changes lacks no prescription:
\* everything it asks for now is in its latest revision, as it is now (every
\* trigger that touches training_plans.updated_at), but for the variations of
\* crews whose competition was moved since.
CurrentMissesNothing ==
  \A p \in Plans : Current(p) =>
    \A i \in Candidates(session, race, p) : \E j \in Latest(p).items :
      SameButForRaces(i, j, race, Latest(p).used)

\* What the label "Publicado - sem alteracoes pendentes" says: everything the
\* plan asks for now is in its latest revision, as it is now, the variations of
\* crews included (structuredPublicationStates).
CurrentHasNoChanges ==
  \A p \in Plans : Current(p) => Candidates(session, race, p) \subseteq Latest(p).items

\* Shortening a membership never cuts off a session already published for
\* it, whichever of the two writers does it and however it meets a
\* publication; a session given another day meanwhile is the session form's
\* doing (prevent_dated_participation_rewrite).
ClosingKeepsWhatWasPublished ==
  [][\A m \in Members : ends'[m] < ends[m] =>
       \A p \in Plans : \A k \in 1 .. Len(published[p]) : \A i \in published[p][k].items :
         i.member = m => session[i.session].day <= ends'[m] \/ i.session \in closing[m].edited]_vars

\* A publication that holds the plan's row and a closing that holds a
\* membership's never wait for each other, or for a third, for ever.
LocksAreReleased ==
  /\ \A c \in Coaches : c \in Locking ~> c \notin Locking
  /\ \A m \in Members : closing[m].pc = "written" ~> closing[m].pc # "written"

=============================================================================
