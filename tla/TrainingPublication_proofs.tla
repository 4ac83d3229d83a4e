--------------------- MODULE TrainingPublication_proofs ---------------------
(***************************************************************************)
(* Theorems of TrainingPublication, for any finite number of memberships,  *)
(* any plans, sessions, variations and coaches, and any bounds.            *)
(***************************************************************************)
EXTENDS TrainingPublication, SequenceTheorems, FiniteSetTheorems, TLAPS

-----------------------------------------------------------------------------
(* Types.                                                                  *)

Entries == [source : Nat, items : SUBSET Items, used : Calendars]
Begun == {m \in Members : closing[m].pc # "idle"}

\* The bound on the clock leaves room for what is under way, and no form
\* carries a version the clock has not given, or is for no plan.
Spare == clock + Cardinality(Begun) <= MaxClock
Sane(d) == d.form <= clock /\ (d.pc # "idle" => d.plan \in Plans)
Forms == \A c \in Coaches : Sane(draft[c])

TypeInv ==
  /\ TypeOK /\ Spare /\ Forms
  /\ published \in [Plans -> Seq(Entries)]
  /\ draft \in [Coaches -> Drafts]
  /\ closing \in [Members -> Closings]

\* A week and its prescriptions are made of the plan's sessions and memberships.
LEMMA WeekTyping ==
  ASSUME NEW ss \in [Sessions -> Rows], NEW p
  PROVE  /\ Week(ss, p) \in Weeks
         /\ Recipients(ss, p) \in SUBSET (Sessions \X Members)
<1> DEFINE D == {x \in Sessions : ss[x].plan = p}
<1>1. \A s \in D : [text |-> ss[s].text, day |-> ss[s].day] \in [text : 0 .. 1, day : Days]
  BY DEF Rows
<1>2. Week(ss, p) \in [D -> [text : 0 .. 1, day : Days]] BY <1>1 DEF Week
<1>3. D \in SUBSET Sessions OBVIOUS
<1>4. Recipients(ss, p) \in SUBSET (Sessions \X Members) BY DEF Recipients
<1> HIDE DEF D
<1> QED BY <1>2, <1>3, <1>4 DEF Weeks

LEMMA ItemsTyping ==
  ASSUME NEW week \in Weeks, NEW recipients \in SUBSET (Sessions \X Members), NEW matches
  PROVE  Prescriptions(week, recipients, matches) \in SUBSET Items
<1>1. PICK D \in SUBSET Sessions : week \in [D -> [text : 0 .. 1, day : Days]] BY DEF Weeks
<1>2. ASSUME NEW s \in Sessions, NEW m \in Members
      PROVE  Varied(matches, s, m) \in Variations \cup {None}
  BY DEF Varied, Best
<1>3. ASSUME NEW r \in recipients, r[1] \in DOMAIN week
      PROVE  [session |-> r[1], member |-> r[2], text |-> week[r[1]].text, day |-> week[r[1]].day,
              varied |-> Varied(matches, r[1], r[2])] \in Items
  <2>1. r[1] \in Sessions /\ r[2] \in Members OBVIOUS
  <2>2. week[r[1]] \in [text : 0 .. 1, day : Days] BY <1>1, <1>3
  <2> QED BY <1>2, <2>1, <2>2 DEF Items
<1> QED BY <1>3 DEF Prescriptions

LEMMA CandidatesTyping ==
  ASSUME NEW ss \in [Sessions -> Rows], NEW cal, NEW p
  PROVE  Candidates(ss, cal, p) \in SUBSET Items
BY WeekTyping, ItemsTyping DEF Candidates

\* The empty sequence of the idle draft is the empty week.
LEMMA NoDraftTyping == NoDraft \in Drafts /\ Open \in Closings
<1>1. <<>> \in Weeks
  <2>1. <<>> \in [1 .. 0 -> [text : 0 .. 1, day : Days]]
    BY EmptySeq, LenProperties
  <2>2. 1 .. 0 \in SUBSET Sessions OBVIOUS
  <2> QED BY <2>1, <2>2 DEF Weeks
<1>2. Scheduled \in Calendars BY CrewsAssumption DEF Calendars, Days
<1>3. NoDraft \in Drafts BY <1>1, <1>2, BoundsAssumption DEF NoDraft, Drafts
<1>4. Open \in Closings BY BoundsAssumption DEF Open, Closings
<1> QED BY <1>3, <1>4

-----------------------------------------------------------------------------
(* What the steps do, by the variables they write.                         *)

\* The sessions change together with the plan's version, or by leaving it.
LEMMA RowWrites ==
  ASSUME TypeOK, NEW s \in Sessions, NEW r \in Rows, session' = [session EXCEPT ![s] = r]
  PROVE  session' \in [Sessions -> Rows] /\ session'[s] = r
         /\ \A x \in Sessions \ {s} : session'[x] = session[x]
BY DEF TypeOK

\* The bound on the clock holds after each kind of step.
LEMMA SpareKept ==
  ASSUME TypeInv,
         \/ clock' = clock /\ Begun' \subseteq Begun
         \/ clock' = clock + 1 /\ Room /\ Begun' = Begun
         \/ clock' = clock /\ Room /\ \E m \in Members : Begun' = Begun \cup {m}
         \/ clock' = clock + 1 /\ \E m \in Begun : Begun' = Begun \ {m}
  PROVE  Spare' /\ clock' \in 0 .. MaxClock
<1>1. IsFiniteSet(Begun) /\ Cardinality(Begun) \in Nat /\ clock \in Nat
  BY FinitenessAssumption, FS_Subset, FS_CardinalityType DEF Begun, TypeInv, TypeOK
<1>2. Room => clock + Cardinality(Begun) < MaxClock BY DEF Room, Begun
<1>3. CASE clock' = clock /\ Begun' \subseteq Begun
  <2>1. IsFiniteSet(Begun') /\ Cardinality(Begun') <= Cardinality(Begun)
    BY <1>1, <1>3, FS_Subset
  <2>2. Cardinality(Begun') \in Nat BY <2>1, FS_CardinalityType
  <2> QED BY <1>1, <1>3, <2>1, <2>2, BoundsAssumption DEF TypeInv, Spare
<1>4. CASE clock' = clock + 1 /\ Room /\ Begun' = Begun
  BY <1>1, <1>2, <1>4, BoundsAssumption DEF Spare
<1>5. CASE clock' = clock /\ Room /\ \E m \in Members : Begun' = Begun \cup {m}
  <2>1. Cardinality(Begun') \in {Cardinality(Begun), Cardinality(Begun) + 1}
    BY <1>1, <1>5, FS_AddElement
  <2> QED BY <1>1, <1>2, <1>5, <2>1, BoundsAssumption DEF Spare
<1>6. CASE clock' = clock + 1 /\ \E m \in Begun : Begun' = Begun \ {m}
  <2>1. Cardinality(Begun') = Cardinality(Begun) - 1
    BY <1>1, <1>6, FS_RemoveElement
  <2>2. Cardinality(Begun') \in Nat
    BY <1>1, <1>6, FS_RemoveElement, FS_CardinalityType
  <2> QED BY <1>1, <1>6, <2>1, <2>2, BoundsAssumption DEF TypeInv, Spare
<1> QED BY <1>3, <1>4, <1>5, <1>6

\* A touch moves the version of the plans it names to a new moment.
LEMMA TouchTyping ==
  ASSUME TypeInv, NEW ps \in SUBSET Plans, Touch(ps)
  PROVE  clock' = clock + 1 /\ stamp' \in [Plans -> 0 .. clock']
BY DEF Touch, TypeInv, TypeOK

\* A change of the plans: everything but the drafts, the publications and the
\* closings that are under way.
LEMMA PlanTyping ==
  ASSUME TypeInv, PlanStep
  PROVE  /\ today' \in Days /\ session' \in [Sessions -> Rows] /\ race' \in Calendars
         /\ variation' \in [Variations -> Plans \cup {None, Retired}]
         /\ closing' \in [Members -> Closings] /\ Begun' = Begun
         /\ UNCHANGED <<ends, published, draft>>
         /\ \/ clock' = clock /\ stamp' = stamp
            \/ /\ clock' = clock + 1 /\ Room
               /\ stamp' \in [Plans -> 0 .. clock']
<1>t. TypeOK /\ closing \in [Members -> Closings] BY DEF TypeInv
<1>1. CASE NextDay BY <1>1, <1>t, BoundsAssumption DEF NextDay, TypeOK, Days, Begun
<1>2. ASSUME NEW s \in Sessions, EditContent(s) \/ CancelSession(s)
      PROVE  /\ session' \in [Sessions -> Rows] /\ Touch({session[s].plan}) /\ Room
             /\ UNCHANGED <<today, race, ends, variation, published, draft, closing>>
             /\ session[s].plan \in Plans
  <2>1. session[s] \in Rows BY <1>t DEF TypeOK
  <2>2. /\ [session[s] EXCEPT !.text = 1 - session[s].text] \in Rows
        /\ [session[s] EXCEPT !.active = FALSE] \in Rows
    <3>1. session[s].text \in 0 .. 1 /\ 1 - session[s].text \in 0 .. 1 BY <2>1 DEF Rows
    <3> QED BY <2>1, <3>1 DEF Rows
  <2>3. PICK r \in Rows : session' = [session EXCEPT ![s] = r]
    BY <1>2, <2>2 DEF EditContent, CancelSession
  <2>4. session' \in [Sessions -> Rows] BY <1>t, <2>3, RowWrites
  <2> QED BY <1>2, <2>1, <2>4 DEF EditContent, CancelSession, Rows
<1>3. ASSUME NEW s \in Sessions, NEW p \in Plans, NEW d \in Days, UpdateSession(s, p, d)
      PROVE  /\ session' \in [Sessions -> Rows] /\ Touch({p}) /\ Room
             /\ UNCHANGED <<today, race, ends, variation, published, draft>>
             /\ closing' \in [Members -> Closings] /\ Begun' = Begun
  <2>1. session[s] \in Rows BY <1>t DEF TypeOK
  <2>2. [session[s] EXCEPT !.plan = p, !.day = d] \in Rows BY <2>1 DEF Rows
  <2>3. session' = [session EXCEPT ![s] = [session[s] EXCEPT !.plan = p, !.day = d]]
    BY <1>3 DEF UpdateSession
  <2>4. session' \in [Sessions -> Rows] BY <1>t, <2>2, <2>3, RowWrites
  <2>5. \A m \in Members :
          /\ [closing[m] EXCEPT !.edited = @ \cup {s}] \in Closings
          /\ [closing[m] EXCEPT !.edited = @ \cup {s}].pc = closing[m].pc
    BY <1>t DEF Closings
  <2>6. closing' = [m \in Members |-> IF closing[m].pc = "idle" THEN closing[m]
                                      ELSE [closing[m] EXCEPT !.edited = @ \cup {s}]]
    BY <1>3 DEF UpdateSession
  <2>7. closing' \in [Members -> Closings] /\ Begun' = Begun
    BY <1>t, <2>5, <2>6 DEF Begun
  <2> QED BY <1>3, <2>4, <2>7 DEF UpdateSession
<1>4. ASSUME NEW v \in Variations, CreateVariation(v) \/ RetireVariation(v)
      PROVE  /\ variation' \in [Variations -> Plans \cup {None, Retired}] /\ Room
             /\ \E p \in Plans : Touch({p})
             /\ UNCHANGED <<today, session, race, ends, published, draft, closing>>
  <2>1. session[SubjectOf[v]].plan \in Plans BY <1>t, TargetsAssumption DEF TypeOK, Rows
  <2> QED BY <1>4, <1>t, <2>1 DEF CreateVariation, RetireVariation, TypeOK
<1>5. ASSUME NEW ps \in SUBSET Plans, Touch(ps)
      PROVE  clock' = clock + 1 /\ stamp' \in [Plans -> 0 .. clock']
  BY <1>5, TouchTyping
<1>6. CASE \E s \in Sessions : EditContent(s) \/ CancelSession(s)
  BY <1>2, <1>5, <1>6, <1>t DEF TypeOK, Begun
<1>7. CASE \E s \in Sessions, p \in Plans, d \in Days : UpdateSession(s, p, d)
  BY <1>3, <1>5, <1>7, <1>t DEF TypeOK
<1>8. CASE \E v \in Variations : CreateVariation(v) \/ RetireVariation(v)
  BY <1>4, <1>5, <1>8, <1>t DEF TypeOK, Begun
<1>9. CASE \E e \in Competitions, d \in Days : MoveCompetition(e, d)
  BY <1>9, <1>t DEF MoveCompetition, TypeOK, Calendars, Begun
<1> QED BY <1>1, <1>6, <1>7, <1>8, <1>9 DEF PlanStep

\* A step of a coach: his draft, and when he publishes the log and the
\* closings under way.
LEMMA CoachTyping ==
  ASSUME TypeInv, NEW c \in Coaches, CoachStep(c)
  PROVE  /\ UNCHANGED <<today, clock, stamp, session, race, ends, variation>>
         /\ \E d \in Drafts : Sane(d) /\ draft' = [draft EXCEPT ![c] = d]
         /\ closing' \in [Members -> Closings] /\ Begun' = Begun
         /\ \/ published' = published
            \/ \E p \in Plans, e \in [source : 0 .. clock, items : SUBSET Items, used : Calendars] :
                 /\ Len(published[p]) < MaxRevisions
                 /\ published' = [published EXCEPT ![p] = Append(@, e)]
<1> DEFINE d == draft[c]
<1>t. TypeOK /\ closing \in [Members -> Closings] BY DEF TypeInv
<1>d. d \in Drafts /\ Sane(d) /\ clock \in 0 .. MaxClock BY DEF TypeInv, Forms, TypeOK
<1>n. NoDraft \in Drafts /\ Sane(NoDraft)
  BY <1>d, NoDraftTyping, BoundsAssumption DEF NoDraft, Sane
<1>s. session \in [Sessions -> Rows] /\ race \in Calendars BY <1>t DEF TypeOK
<1> HIDE DEF d
<1> DEFINE Drafted == \E x \in Drafts : Sane(x) /\ Step(c, x) /\ Unpublished
<1>b. ASSUME NEW x \in Drafts, Sane(x), Step(c, x), Unpublished PROVE Drafted
  BY <1>b
<1> HIDE DEF Drafted
<1>1. ASSUME NEW p \in Plans, PreviewPlan(c, p) PROVE Drafted
  <2> DEFINE x == [NoDraft EXCEPT !.pc = "page", !.plan = p, !.form = stamp[p],
                                  !.due = Candidates(session, race, p), !.seen = race]
  <2>1. Candidates(session, race, p) \in SUBSET Items BY <1>s, CandidatesTyping
  <2>2. stamp[p] \in 0 .. MaxClock /\ stamp[p] <= clock BY <1>t, BoundsAssumption DEF TypeOK
  <2>3. x \in Drafts /\ Sane(x) BY <1>n, <1>s, <2>1, <2>2 DEF Drafts, Sane
  <2>4. Step(c, x) /\ Unpublished BY <1>1 DEF PreviewPlan
  <2> HIDE DEF x
  <2> QED BY <1>b, <2>3, <2>4
<1>2. ASSUME SubmitPlan(c) PROVE Drafted
  <2>1. d.pc = "page" /\ (Step(c, [d EXCEPT !.pc = "week"]) \/ Step(c, NoDraft)) /\ Unpublished
    BY <1>2 DEF SubmitPlan, d
  <2>2. [d EXCEPT !.pc = "week"] \in Drafts /\ Sane([d EXCEPT !.pc = "week"])
    BY <1>d, <2>1 DEF Drafts, Sane
  <2> QED BY <1>b, <1>n, <2>1, <2>2
<1>3. ASSUME ReadWeek(c) PROVE Drafted
  <2> DEFINE x == [d EXCEPT !.pc = "recipients", !.week = Week(session, d.plan)]
  <2>1. d.pc = "week" /\ Step(c, x) /\ Unpublished BY <1>3 DEF ReadWeek, d
  <2>2. Week(session, d.plan) \in Weeks BY <1>s, WeekTyping
  <2>3. x \in Drafts /\ Sane(x) BY <1>d, <2>1, <2>2 DEF Drafts, Sane
  <2> HIDE DEF x
  <2> QED BY <1>b, <2>1, <2>3
<1>4. ASSUME ReadRecipients(c) PROVE Drafted
  <2> DEFINE x == [d EXCEPT !.pc = "matches", !.recipients = Recipients(session, d.plan)]
  <2>1. d.pc = "recipients" /\ Step(c, x) /\ Unpublished BY <1>4 DEF ReadRecipients, d
  <2>2. Recipients(session, d.plan) \in SUBSET (Sessions \X Members) BY <1>s, WeekTyping
  <2>3. x \in Drafts /\ Sane(x) BY <1>d, <2>1, <2>2 DEF Drafts, Sane
  <2> HIDE DEF x
  <2> QED BY <1>b, <2>1, <2>3
<1>5. ASSUME BuildPublication(c) PROVE Drafted
  <2> DEFINE items == Prescriptions(d.week, d.recipients, Matches(session, race, d.plan))
             x == [d EXCEPT !.pc = "built", !.week = <<>>, !.recipients = {}, !.items = items,
                            !.used = race]
  <2>1. d.pc = "matches" /\ (Step(c, NoDraft) \/ Step(c, x)) /\ Unpublished
    BY <1>5 DEF BuildPublication, d
  <2>2. d.week \in Weeks /\ d.recipients \in SUBSET (Sessions \X Members) BY <1>d DEF Drafts
  <2>3. items \in SUBSET Items BY <2>2, ItemsTyping
  <2>4. <<>> \in Weeks BY NoDraftTyping DEF NoDraft, Drafts
  <2> HIDE DEF items
  <2>5. x \in Drafts /\ Sane(x) BY <1>d, <1>s, <2>1, <2>3, <2>4 DEF Drafts, Sane
  <2> HIDE DEF x
  <2> QED BY <1>b, <1>n, <2>1, <2>5
<1>6. ASSUME BeginPublication(c) PROVE Drafted
  <2> DEFINE x == [d EXCEPT !.pc = "begun", !.had = session]
  <2>1. d.pc = "built" /\ Step(c, x) /\ Unpublished BY <1>6 DEF BeginPublication, d
  <2>2. x \in Drafts /\ Sane(x) BY <1>d, <1>s, <2>1 DEF Drafts, Sane
  <2> HIDE DEF x
  <2> QED BY <1>b, <2>1, <2>2
<1>7. ASSUME LockPlan(c) PROVE Drafted
  <2>1. d.pc = "begun" /\ (Step(c, [d EXCEPT !.pc = "locked"]) \/ Step(c, NoDraft)) /\ Unpublished
    BY <1>7 DEF LockPlan, d
  <2>2. [d EXCEPT !.pc = "locked"] \in Drafts /\ Sane([d EXCEPT !.pc = "locked"])
    BY <1>d, <2>1 DEF Drafts, Sane
  <2> QED BY <1>b, <1>n, <2>1, <2>2
<1>8. ASSUME NEW m \in Members, LockMembership(c, m) PROVE Drafted
  <2> DEFINE x == [d EXCEPT !.shares = @ \cup {m}]
  <2>1. d.pc = "locked" /\ Step(c, x) /\ Unpublished BY <1>8 DEF LockMembership, d
  <2>2. x \in Drafts /\ Sane(x) BY <1>d, <2>1 DEF Drafts, Sane
  <2> HIDE DEF x
  <2> QED BY <1>b, <2>1, <2>2
<1>9. ASSUME RefusePublication(c) \/ AbandonPublication(c) PROVE Drafted
  BY <1>9, <1>b, <1>n DEF RefusePublication, AbandonPublication, Drop
<1>10. ASSUME Drafted
       PROVE  /\ UNCHANGED <<today, clock, stamp, session, race, ends, variation, published>>
              /\ \E y \in Drafts : Sane(y) /\ draft' = [draft EXCEPT ![c] = y]
              /\ closing' \in [Members -> Closings] /\ Begun' = Begun
  BY <1>10, <1>t DEF Drafted, Step, Unpublished, Begun
<1>11. CASE Publish(c)
  <2> DEFINE e == [source |-> stamp[d.plan], items |-> d.items, used |-> d.used]
  <2>1. d.pc = "locked" BY <1>11 DEF Publish, HoldsAll, d
  <2>2. d.plan \in Plans /\ d.items \in SUBSET Items /\ d.used \in Calendars
    BY <1>d, <2>1 DEF Sane, Drafts
  <2>3. e \in [source : 0 .. clock, items : SUBSET Items, used : Calendars] BY <1>t, <2>2 DEF TypeOK
  <2>4. /\ Len(published[d.plan]) < MaxRevisions
        /\ published' = [published EXCEPT ![d.plan] = Append(@, e)]
        /\ draft' = [draft EXCEPT ![c] = NoDraft]
        /\ UNCHANGED <<today, clock, stamp, session, race, ends, variation>>
    BY <1>11 DEF Publish, Step, d
  <2>5. \A m \in Members : /\ [closing[m] EXCEPT !.outdated = TRUE] \in Closings
                           /\ [closing[m] EXCEPT !.outdated = TRUE].pc = closing[m].pc
    BY <1>t DEF Closings
  <2>6. closing' = [m \in Members |->
          IF closing[m].pc # "idle" /\ m \in Prescribed(c)
          THEN [closing[m] EXCEPT !.outdated = TRUE] ELSE closing[m]]
    BY <1>11 DEF Publish
  <2>7. closing' \in [Members -> Closings] /\ Begun' = Begun BY <1>t, <2>5, <2>6 DEF Begun
  <2> HIDE DEF e
  <2> QED BY <1>n, <2>2, <2>3, <2>4, <2>7
<1> QED BY <1>1, <1>2, <1>3, <1>4, <1>5, <1>6, <1>7, <1>8, <1>9, <1>10, <1>11 DEF CoachStep

\* A step of a closing, or the end of a deadlock.
LEMMA ClosingTyping ==
  ASSUME TypeInv, NEW m \in Members,
         ClosingStep(m) \/ \E c \in Coaches : BreakDeadlock(c, m)
  PROVE  /\ UNCHANGED <<today, session, race, variation, published>>
         /\ \/ draft' = draft
            \/ \E c \in Coaches : draft' = [draft EXCEPT ![c] = NoDraft]
         /\ ends' \in [Members -> 0 .. LastDay]
         /\ closing' \in [Members -> Closings]
         /\ \/ UNCHANGED <<clock, stamp, ends>> /\ Begun' \subseteq Begun
            \/ UNCHANGED <<clock, stamp, ends>> /\ Room /\ Begun' = Begun \cup {m}
            \/ Touch(Plans) /\ m \in Begun /\ Begun' = Begun \ {m}
<1>t. TypeOK /\ closing \in [Members -> Closings] /\ closing[m] \in Closings
  BY DEF TypeInv
<1>o. Open \in Closings /\ Open.pc = "idle" BY NoDraftTyping DEF Open
<1>1. CASE BeginTransition(m) \/ EndMembership(m)
  <2>1. today \in Days BY <1>t DEF TypeOK
  <2>2. /\ [Open EXCEPT !.pc = "begun", !.transition = TRUE, !.end = today] \in Closings
        /\ [Open EXCEPT !.pc = "written", !.end = today - 1] \in Closings
    <3>1. today \in 0 .. LastDay /\ today - 1 \in 0 .. LastDay
      BY <2>1, BoundsAssumption DEF Days
    <3> QED BY <3>1 DEF Open, Closings
  <2>3. PICK x \in Closings : Close(m, x) /\ x.pc # "idle"
    BY <1>1, <2>2 DEF BeginTransition, EndMembership, Open
  <2>4. closing' \in [Members -> Closings] /\ Begun' = Begun \cup {m}
    BY <1>t, <2>3 DEF Close, Begun
  <2> QED BY <1>1, <1>t, <2>4 DEF BeginTransition, EndMembership, NotClosed, TypeOK
<1>2. CASE WriteTransition(m)
  <2>1. [closing[m] EXCEPT !.pc = "written"] \in Closings
        /\ [closing[m] EXCEPT !.pc = "written"].pc # "idle"
    BY <1>t DEF Closings
  <2>2. closing' \in [Members -> Closings] /\ Begun' \subseteq Begun
    BY <1>2, <1>t, <2>1 DEF WriteTransition, Close, Begun
  <2> QED BY <1>2, <1>t, <2>2 DEF WriteTransition, NotClosed, TypeOK
<1>3. CASE AbortClosing(m) \/ AbandonClosing(m) \/ (Close(m, Open) /\ NotClosed)
  <2>1. Close(m, Open) /\ NotClosed BY <1>3 DEF AbortClosing, AbandonClosing
  <2>2. closing' \in [Members -> Closings] /\ Begun' \subseteq Begun
    BY <1>t, <1>o, <2>1 DEF Close, Begun
  <2> QED BY <1>t, <2>1, <2>2 DEF NotClosed, TypeOK
<1>4. CASE CommitClosing(m)
  <2>1. Close(m, Open) /\ Touch(Plans) /\ closing[m].pc = "written"
        /\ ends' = [ends EXCEPT ![m] = closing[m].end]
        /\ UNCHANGED <<today, session, race, variation, published, draft>>
    BY <1>4 DEF CommitClosing
  <2>2. closing' \in [Members -> Closings] /\ Begun' = Begun \ {m} /\ m \in Begun
    BY <1>t, <1>o, <2>1 DEF Close, Begun
  <2>3. ends' \in [Members -> 0 .. LastDay] BY <1>t, <2>1 DEF TypeOK, Closings
  <2> QED BY <2>1, <2>2, <2>3
<1>5. ASSUME NEW c \in Coaches, BreakDeadlock(c, m), ~(Close(m, Open) /\ NotClosed)
      PROVE  /\ UNCHANGED <<today, session, race, variation, published, closing, clock, stamp, ends>>
             /\ draft' = [draft EXCEPT ![c] = NoDraft]
  BY <1>5 DEF BreakDeadlock, Drop, Step, Unpublished
<1>6. CASE \E c \in Coaches : BreakDeadlock(c, m) /\ ~(Close(m, Open) /\ NotClosed)
  <2>1. ends \in [Members -> 0 .. LastDay] BY <1>t DEF TypeOK
  <2> QED BY <1>5, <1>6, <1>t, <2>1 DEF Begun
<1> QED BY <1>1, <1>2, <1>3, <1>4, <1>6 DEF ClosingStep

LEMMA TypingStep == TypeInv /\ [Next]_vars => TypeInv'
<1> SUFFICES ASSUME TypeInv, [Next]_vars PROVE TypeInv'
  OBVIOUS
<1>t. TypeOK BY DEF TypeInv
<1>p. published \in [Plans -> Seq(Entries)] /\ draft \in [Coaches -> Drafts] BY DEF TypeInv
<1>1. CASE UNCHANGED vars
  <2>1. Begun' = Begun BY <1>1 DEF vars, Begun, Sane
  <2>2. Spare' BY <1>1, <2>1 DEF vars, TypeInv, Spare
  <2> QED BY <1>1, <2>2 DEF vars, TypeInv, TypeOK, Forms, Sane
<1>2. ASSUME TypeOK', Spare', Forms', published' \in [Plans -> Seq(Entries)],
             draft' \in [Coaches -> Drafts], closing' \in [Members -> Closings]
      PROVE  TypeInv'
  BY <1>2 DEF TypeInv
<1>3. ASSUME UNCHANGED published, clock' \in 0 .. MaxClock, clock <= clock'
      PROVE  \A p \in Plans :
               /\ Len(published'[p]) <= MaxRevisions
               /\ \A k \in 1 .. Len(published'[p]) :
                    published'[p][k] \in [source : 0 .. clock', items : SUBSET Items, used : Calendars]
  BY <1>3, <1>t DEF TypeOK
<1>4. ASSUME UNCHANGED draft, clock' \in 0 .. MaxClock, clock <= clock' PROVE Forms'
  BY <1>4, <1>t, <1>p DEF Forms, Sane, TypeInv, TypeOK, Drafts
<1>5. CASE PlanStep
  <2>1. /\ today' \in Days /\ session' \in [Sessions -> Rows] /\ race' \in Calendars
        /\ variation' \in [Variations -> Plans \cup {None, Retired}]
        /\ closing' \in [Members -> Closings] /\ Begun' = Begun
        /\ UNCHANGED <<ends, published, draft>>
        /\ \/ clock' = clock /\ stamp' = stamp
           \/ /\ clock' = clock + 1 /\ Room
              /\ stamp' \in [Plans -> 0 .. clock']
    BY <1>5, PlanTyping
  <2>2. Spare' /\ clock' \in 0 .. MaxClock BY <2>1, SpareKept
  <2>3. clock <= clock' BY <1>t, <2>1 DEF TypeOK
  <2>4. TypeOK' BY <1>3, <1>t, <2>1, <2>2, <2>3 DEF TypeOK
  <2> QED BY <1>2, <1>4, <1>p, <2>1, <2>2, <2>3, <2>4
<1>6. ASSUME NEW c \in Coaches, CoachStep(c) PROVE TypeInv'
  <2>1. /\ UNCHANGED <<today, clock, stamp, session, race, ends, variation>>
        /\ closing' \in [Members -> Closings] /\ Begun' = Begun
    BY <1>6, CoachTyping
  <2>2. PICK d \in Drafts : Sane(d) /\ draft' = [draft EXCEPT ![c] = d] BY <1>6, CoachTyping
  <2>3. draft' \in [Coaches -> Drafts] /\ Forms'
    BY <1>p, <2>1, <2>2 DEF TypeInv, Forms, Sane
  <2>4. Spare' /\ clock' \in 0 .. MaxClock BY <2>1, SpareKept
  <2>5. /\ published' \in [Plans -> Seq(Entries)]
        /\ \A p \in Plans :
             /\ Len(published'[p]) <= MaxRevisions
             /\ \A k \in 1 .. Len(published'[p]) :
                  published'[p][k] \in [source : 0 .. clock', items : SUBSET Items, used : Calendars]
    <3>1. CASE published' = published
      BY <1>3, <1>p, <1>t, <2>1, <2>4, <3>1 DEF TypeOK
    <3>2. CASE published' # published
      <4>1. PICK p \in Plans, e \in [source : 0 .. clock, items : SUBSET Items, used : Calendars] :
              /\ Len(published[p]) < MaxRevisions
              /\ published' = [published EXCEPT ![p] = Append(@, e)]
        BY <1>6, <3>2, CoachTyping
      <4>2. e \in Entries BY <1>t DEF Entries, TypeOK
      <4>3. published[p] \in Seq(Entries) BY <1>p
      <4>4. /\ Append(published[p], e) \in Seq(Entries)
            /\ Len(Append(published[p], e)) = Len(published[p]) + 1
            /\ \A k \in 1 .. Len(published[p]) : Append(published[p], e)[k] = published[p][k]
            /\ Append(published[p], e)[Len(published[p]) + 1] = e
        BY <4>2, <4>3, AppendProperties
      <4>5. Len(published[p]) \in Nat BY <4>3, LenProperties
      <4>6. /\ published' \in [Plans -> Seq(Entries)]
            /\ published'[p] = Append(published[p], e)
            /\ \A x \in Plans \ {p} : published'[x] = published[x]
        BY <1>p, <4>1, <4>4
      <4>7. ASSUME NEW k \in 1 .. Len(published'[p])
            PROVE  published'[p][k] \in [source : 0 .. clock', items : SUBSET Items, used : Calendars]
        <5>1. k \in 1 .. Len(published[p]) \/ k = Len(published[p]) + 1 BY <4>4, <4>5, <4>6
        <5> QED BY <1>t, <2>1, <4>4, <4>6, <5>1 DEF TypeOK
      <4>8. Len(published'[p]) <= MaxRevisions BY <4>1, <4>4, <4>5, <4>6, BoundsAssumption
      <4> QED BY <1>t, <2>1, <4>6, <4>7, <4>8 DEF TypeOK
    <3> QED BY <3>1, <3>2
  <2>6. TypeOK' BY <1>t, <2>1, <2>3, <2>5 DEF TypeOK
  <2> QED BY <1>2, <2>1, <2>3, <2>4, <2>5, <2>6
<1>7. ASSUME NEW m \in Members, ClosingStep(m) \/ \E c \in Coaches : BreakDeadlock(c, m)
      PROVE  TypeInv'
  <2>1. /\ UNCHANGED <<today, session, race, variation, published>>
        /\ \/ draft' = draft
           \/ \E c \in Coaches : draft' = [draft EXCEPT ![c] = NoDraft]
        /\ ends' \in [Members -> 0 .. LastDay]
        /\ closing' \in [Members -> Closings]
        /\ \/ UNCHANGED <<clock, stamp, ends>> /\ Begun' \subseteq Begun
           \/ UNCHANGED <<clock, stamp, ends>> /\ Room /\ Begun' = Begun \cup {m}
           \/ Touch(Plans) /\ m \in Begun /\ Begun' = Begun \ {m}
    BY <1>7, ClosingTyping
  <2>2. Touch(Plans) => clock' = clock + 1 /\ stamp' \in [Plans -> 0 .. clock'] BY TouchTyping
  <2>3. Spare' /\ clock' \in 0 .. MaxClock BY <2>1, <2>2, SpareKept
  <2>4. clock <= clock' /\ stamp' \in [Plans -> 0 .. clock'] BY <1>t, <2>1, <2>2 DEF TypeOK
  <2>5. draft' \in [Coaches -> Drafts] BY <1>p, <2>1, NoDraftTyping
  <2>6. Forms'
    <3>1. \A c \in Coaches : draft'[c] = draft[c] \/ draft'[c] = NoDraft BY <1>p, <2>1
    <3>2. \A c \in Coaches : draft[c].form \in Nat /\ Sane(draft[c])
      BY <1>p, <1>t DEF Drafts, TypeInv, Forms
    <3> QED BY <1>t, <2>3, <2>4, <3>1, <3>2 DEF Forms, Sane, NoDraft, TypeOK
  <2>7. TypeOK' BY <1>3, <1>t, <2>1, <2>3, <2>4, <2>5 DEF TypeOK
  <2> QED BY <1>2, <1>p, <2>1, <2>3, <2>5, <2>6, <2>7
<1> QED BY <1>1, <1>5, <1>6, <1>7 DEF Next

LEMMA TypeInvInit == Init => TypeInv
<1> SUFFICES ASSUME Init PROVE TypeInv
  OBVIOUS
<1>1. Begun = {} BY DEF Init, Begun, Open
<1>2. Spare BY <1>1, FS_EmptySet, BoundsAssumption DEF Spare, Init
<1>3. \A s \in Sessions : [plan |-> Booked[s].plan, day |-> Booked[s].day, text |-> 0, active |-> TRUE] \in Rows
  BY TargetsAssumption DEF Rows, Days
<1>4. published \in [Plans -> Seq(Entries)] /\ \A p \in Plans : Len(published[p]) = 0
  BY EmptySeq DEF Init
<1>5. draft \in [Coaches -> Drafts] /\ closing \in [Members -> Closings] BY NoDraftTyping DEF Init
<1>6. Forms BY DEF Init, Forms, Sane, NoDraft
<1>7. race \in Calendars BY CrewsAssumption DEF Init, Calendars, Days
<1>8. TypeOK BY <1>3, <1>4, <1>5, <1>7, BoundsAssumption DEF TypeOK, Init, Days
<1> QED BY <1>2, <1>4, <1>5, <1>6, <1>8 DEF TypeInv

\* The types of all variables (TypeOK), and with them that the calendar of
\* versions is never ahead of its clock.
THEOREM Typing == Spec => []TypeOK
<1>1. TypeInv => TypeOK BY DEF TypeInv
<1> QED BY <1>1, TypeInvInit, TypingStep, PTL DEF Spec

-----------------------------------------------------------------------------
(* What a plan asks for, as a function of the tables it is read from, so    *)
(* that it can be compared between two states.                             *)

MatchesOf(var, en, cal, ss, p) == {r \in Variations \X Members :
  /\ var[r[1]] = p /\ ss[SubjectOf[r[1]]].plan = p
  /\ r[2] \in TargetsOf[r[1]]
  /\ ss[SubjectOf[r[1]]].day <= en[r[2]]
  /\ InWindow(r[1], ss[SubjectOf[r[1]]].day, cal)}
CalledFor(en, td, ss, p, s, m) == ss[s].plan = p /\ td <= en[m] /\ ss[s].day <= en[m]
Prescription(var, en, cal, ss, p, s, m) ==
  [session |-> s, member |-> m, text |-> ss[s].text, day |-> ss[s].day,
   varied |-> Varied(MatchesOf(var, en, cal, ss, p), s, m)]
Wanted(var, en, cal, td, ss, p) ==
  {i \in Items : /\ CalledFor(en, td, ss, p, i.session, i.member)
                 /\ i = Prescription(var, en, cal, ss, p, i.session, i.member)}

\* A set that has all a plan asks for, and of the sessions and memberships it
\* still asks for nothing else.
Covers(S, var, en, cal, td, ss, p) ==
  /\ Wanted(var, en, cal, td, ss, p) \subseteq S
  /\ \A i \in S : CalledFor(en, td, ss, p, i.session, i.member) => i \in Wanted(var, en, cal, td, ss, p)

\* Which variation applies is a function of the best ones.
LEMMA VariedOfBest ==
  ASSUME NEW a, NEW b, NEW s, NEW m, Best(a, s, m) = Best(b, s, m)
  PROVE  Varied(a, s, m) = Varied(b, s, m)
<1> DEFINE F(best) == IF best = {} THEN None ELSE CHOOSE v \in best : TRUE
<1>1. Varied(a, s, m) = F(Best(a, s, m)) /\ Varied(b, s, m) = F(Best(b, s, m))
  BY DEF Varied
<1> HIDE DEF F
<1> QED BY <1>1

LEMMA PrescriptionTyping ==
  ASSUME NEW var, NEW en, NEW cal, NEW ss \in [Sessions -> Rows], NEW p, NEW s \in Sessions, NEW m \in Members
  PROVE  /\ Prescription(var, en, cal, ss, p, s, m) \in Items
         /\ Prescription(var, en, cal, ss, p, s, m).session = s
         /\ Prescription(var, en, cal, ss, p, s, m).member = m
         /\ Prescription(var, en, cal, ss, p, s, m).day = ss[s].day
<1>1. Varied(MatchesOf(var, en, cal, ss, p), s, m) \in Variations \cup {None} BY DEF Varied, Best
<1>2. ss[s].text \in 0 .. 1 /\ ss[s].day \in Days BY DEF Rows
<1> QED BY <1>1, <1>2 DEF Prescription, Items

LEMMA WantedMembers ==
  ASSUME NEW var, NEW en, NEW cal, NEW td, NEW ss \in [Sessions -> Rows], NEW p,
         NEW s \in Sessions, NEW m \in Members, CalledFor(en, td, ss, p, s, m)
  PROVE  Prescription(var, en, cal, ss, p, s, m) \in Wanted(var, en, cal, td, ss, p)
BY PrescriptionTyping DEF Wanted

\* The prescriptions made of a week and recipients read earlier, if both still
\* have at least what is asked for now.
LEMMA Assembly ==
  ASSUME NEW var, NEW en, NEW cal, NEW td, NEW ss \in [Sessions -> Rows], NEW p,
         NEW week \in Weeks, NEW recipients \in SUBSET (Sessions \X Members),
         \A s \in Sessions : ss[s].plan = p =>
           s \in DOMAIN week /\ week[s] = [text |-> ss[s].text, day |-> ss[s].day],
         \A s \in Sessions, m \in Members : CalledFor(en, td, ss, p, s, m) => <<s, m>> \in recipients
  PROVE  Covers(Prescriptions(week, recipients, MatchesOf(var, en, cal, ss, p)), var, en, cal, td, ss, p)
<1> DEFINE M == MatchesOf(var, en, cal, ss, p)
           S == Prescriptions(week, recipients, M)
           Item(r) == [session |-> r[1], member |-> r[2], text |-> week[r[1]].text,
                       day |-> week[r[1]].day, varied |-> Varied(M, r[1], r[2])]
<1>1. S \in SUBSET Items BY ItemsTyping
<1>2. ASSUME NEW s \in Sessions, NEW m \in Members, ss[s].plan = p
      PROVE  Item(<<s, m>>) = Prescription(var, en, cal, ss, p, s, m)
  <2>1. week[s].text = ss[s].text /\ week[s].day = ss[s].day
    <3>1. week[s] = [text |-> ss[s].text, day |-> ss[s].day] BY <1>2
    <3> QED BY <3>1
  <2> HIDE DEF M
  <2>2. Item(<<s, m>>) = [session |-> s, member |-> m, text |-> week[s].text,
                          day |-> week[s].day, varied |-> Varied(M, s, m)]
    OBVIOUS
  <2>3. Prescription(var, en, cal, ss, p, s, m)
          = [session |-> s, member |-> m, text |-> ss[s].text,
             day |-> ss[s].day, varied |-> Varied(M, s, m)]
    BY DEF Prescription, M
  <2> QED BY <2>1, <2>2, <2>3
<1>3. S = {Item(r) : r \in {x \in recipients : x[1] \in DOMAIN week}} BY DEF Prescriptions
<1>4. ASSUME NEW i \in Wanted(var, en, cal, td, ss, p) PROVE i \in S
  <2>1. i.session \in Sessions /\ i.member \in Members /\ CalledFor(en, td, ss, p, i.session, i.member)
        /\ i = Prescription(var, en, cal, ss, p, i.session, i.member)
    BY DEF Wanted, Items
  <2>2. <<i.session, i.member>> \in recipients /\ ss[i.session].plan = p /\ i.session \in DOMAIN week
    BY <2>1 DEF CalledFor
  <2>3. i = Item(<<i.session, i.member>>) BY <1>2, <2>1, <2>2
  <2> HIDE DEF Item, S
  <2>4. <<i.session, i.member>>[1] \in DOMAIN week BY <2>2
  <2> QED BY <1>3, <2>2, <2>3, <2>4
<1>5. ASSUME NEW i \in S, CalledFor(en, td, ss, p, i.session, i.member)
      PROVE  i \in Wanted(var, en, cal, td, ss, p)
  <2>1. PICK r \in recipients : i = Item(r) BY <1>3
  <2>2. r[1] \in Sessions /\ r[2] \in Members /\ r = <<r[1], r[2]>> OBVIOUS
  <2>3. i.session = r[1] /\ i.member = r[2] BY <2>1
  <2>4. ss[r[1]].plan = p BY <1>5, <2>3 DEF CalledFor
  <2>5. i = Prescription(var, en, cal, ss, p, r[1], r[2]) BY <1>2, <2>1, <2>2, <2>4
  <2> QED BY <1>5, <2>2, <2>3, <2>5, WantedMembers
<1> HIDE DEF S
<1>6. Covers(S, var, en, cal, td, ss, p) BY <1>4, <1>5 DEF Covers
<1> QED BY <1>6 DEF S

\* The operators of the module, of the present tables.
LEMMA PlanAsks ==
  ASSUME TypeOK, NEW ss \in [Sessions -> Rows], NEW cal, NEW p
  PROVE  /\ Candidates(ss, cal, p) = Wanted(variation, ends, cal, today, ss, p)
         /\ Matches(ss, cal, p) = MatchesOf(variation, ends, cal, ss, p)
         /\ \A s \in Sessions, m \in Members :
              /\ <<s, m>> \in Recipients(ss, p) <=> CalledFor(ends, today, ss, p, s, m)
              /\ ss[s].plan = p /\ Eligible(ss, s, m) <=> CalledFor(ends, today, ss, p, s, m)
<1>1. Matches(ss, cal, p) = MatchesOf(variation, ends, cal, ss, p) BY DEF Matches, MatchesOf
<1>2. \A s \in Sessions, m \in Members :
        /\ <<s, m>> \in Recipients(ss, p) <=> CalledFor(ends, today, ss, p, s, m)
        /\ ss[s].plan = p /\ Eligible(ss, s, m) <=> CalledFor(ends, today, ss, p, s, m)
  BY DEF Recipients, Eligible, CalledFor
<1>3. Week(ss, p) \in Weeks /\ Recipients(ss, p) \in SUBSET (Sessions \X Members) BY WeekTyping
<1>4. \A s \in Sessions : ss[s].plan = p =>
        s \in DOMAIN Week(ss, p) /\ Week(ss, p)[s] = [text |-> ss[s].text, day |-> ss[s].day]
  BY DEF Week
<1>5. Covers(Candidates(ss, cal, p), variation, ends, cal, today, ss, p)
  BY <1>1, <1>2, <1>3, <1>4, Assembly DEF Candidates
<1>6. ASSUME NEW i \in Candidates(ss, cal, p)
      PROVE  CalledFor(ends, today, ss, p, i.session, i.member)
  <2>1. PICK r \in Recipients(ss, p) : i.session = r[1] /\ i.member = r[2]
    BY DEF Candidates, Prescriptions
  <2>2. r[1] \in Sessions /\ r[2] \in Members /\ r = <<r[1], r[2]>> BY <1>3
  <2> QED BY <1>2, <2>1, <2>2
<1>7. Candidates(ss, cal, p) = Wanted(variation, ends, cal, today, ss, p) BY <1>5, <1>6 DEF Covers
<1> QED BY <1>1, <1>2, <1>7

\* Sessions of a plan may leave it, and what stays is as it was.
Keeps(ss, tt, p) ==
  \A s \in Sessions : tt[s].plan = p =>
    ss[s].plan = p /\ ss[s].text = tt[s].text /\ ss[s].day = tt[s].day

\* As long as sessions only leave, the day advances and variations and
\* memberships stay, less is asked for, and what is still asked for is the same.
LEMMA Narrowing ==
  ASSUME NEW var1 \in [Variations -> Plans \cup {None, Retired}],
         NEW var2 \in [Variations -> Plans \cup {None, Retired}],
         NEW en \in [Members -> Nat], NEW cal, NEW td1 \in Nat, NEW td2 \in Nat,
         NEW ss \in [Sessions -> Rows], NEW tt \in [Sessions -> Rows], NEW p \in Plans,
         Keeps(ss, tt, p), td1 <= td2, \A v \in Variations : var1[v] = p <=> var2[v] = p
  PROVE  /\ \A s \in Sessions, m \in Members : CalledFor(en, td2, tt, p, s, m) =>
              /\ CalledFor(en, td1, ss, p, s, m)
              /\ Prescription(var2, en, cal, tt, p, s, m) = Prescription(var1, en, cal, ss, p, s, m)
         /\ Tied(MatchesOf(var2, en, cal, tt, p)) => Tied(MatchesOf(var1, en, cal, ss, p))
<1>1. ASSUME NEW s \in Sessions, NEW m \in Members, tt[s].plan = p
      PROVE  Best(MatchesOf(var2, en, cal, tt, p), s, m) = Best(MatchesOf(var1, en, cal, ss, p), s, m)
  <2>1. ASSUME NEW v \in Variations, SubjectOf[v] = s
        PROVE  <<v, m>> \in MatchesOf(var2, en, cal, tt, p) <=> <<v, m>> \in MatchesOf(var1, en, cal, ss, p)
    <3>1. /\ tt[SubjectOf[v]].plan = p /\ ss[SubjectOf[v]].plan = p
          /\ tt[SubjectOf[v]].day = ss[SubjectOf[v]].day
      BY <1>1, <2>1 DEF Keeps
    <3> QED BY <3>1 DEF MatchesOf
  <2>2. {v \in Variations : SubjectOf[v] = s /\ <<v, m>> \in MatchesOf(var2, en, cal, tt, p)}
          = {v \in Variations : SubjectOf[v] = s /\ <<v, m>> \in MatchesOf(var1, en, cal, ss, p)}
    BY <2>1
  <2> QED BY <2>2 DEF Best
<1>2. ASSUME NEW s \in Sessions, NEW m \in Members, CalledFor(en, td2, tt, p, s, m)
      PROVE  /\ CalledFor(en, td1, ss, p, s, m)
             /\ Prescription(var2, en, cal, tt, p, s, m) = Prescription(var1, en, cal, ss, p, s, m)
  <2>1. tt[s].plan = p /\ ss[s].plan = p /\ ss[s].text = tt[s].text /\ ss[s].day = tt[s].day
    BY <1>2 DEF CalledFor, Keeps
  <2>2. CalledFor(en, td1, ss, p, s, m)
    <3>1. en[m] \in Nat /\ td2 <= en[m] /\ tt[s].day <= en[m] BY <1>2 DEF CalledFor
    <3>2. td1 <= en[m] BY <3>1
    <3> QED BY <2>1, <3>1, <3>2 DEF CalledFor
  <2>3. Varied(MatchesOf(var2, en, cal, tt, p), s, m) = Varied(MatchesOf(var1, en, cal, ss, p), s, m)
    <3>1. Best(MatchesOf(var2, en, cal, tt, p), s, m) = Best(MatchesOf(var1, en, cal, ss, p), s, m)
      BY <1>1, <2>1
    <3> QED BY <3>1, VariedOfBest
  <2> QED BY <2>1, <2>2, <2>3 DEF Prescription
<1>3. ASSUME NEW s \in Sessions, NEW m \in Members, tt[s].plan # p
      PROVE  Best(MatchesOf(var2, en, cal, tt, p), s, m) = {}
  BY <1>3 DEF Best, MatchesOf
<1>4. ASSUME Tied(MatchesOf(var2, en, cal, tt, p)) PROVE Tied(MatchesOf(var1, en, cal, ss, p))
  <2>1. PICK s \in Sessions, m \in Members : Cardinality(Best(MatchesOf(var2, en, cal, tt, p), s, m)) > 1
    BY <1>4 DEF Tied
  <2>2. tt[s].plan = p
    <3>1. Cardinality({}) = 0 BY FS_EmptySet
    <3>2. Cardinality({}) > 1 => FALSE BY <3>1
    <3> QED BY <1>3, <2>1, <3>2
  <2> QED BY <1>1, <2>1, <2>2 DEF Tied
<1> QED BY <1>2, <1>4

LEMMA CoversNarrows ==
  ASSUME NEW var1 \in [Variations -> Plans \cup {None, Retired}],
         NEW var2 \in [Variations -> Plans \cup {None, Retired}],
         NEW en \in [Members -> Nat], NEW cal, NEW td1 \in Nat, NEW td2 \in Nat,
         NEW ss \in [Sessions -> Rows], NEW tt \in [Sessions -> Rows], NEW p \in Plans,
         Keeps(ss, tt, p), td1 <= td2, \A v \in Variations : var1[v] = p <=> var2[v] = p,
         NEW S \in SUBSET Items, Covers(S, var1, en, cal, td1, ss, p)
  PROVE  Covers(S, var2, en, cal, td2, tt, p)
<1>1. ASSUME NEW i \in Items, CalledFor(en, td2, tt, p, i.session, i.member)
      PROVE  /\ CalledFor(en, td1, ss, p, i.session, i.member)
             /\ i \in Wanted(var2, en, cal, td2, tt, p) <=> i \in Wanted(var1, en, cal, td1, ss, p)
  <2>1. i.session \in Sessions /\ i.member \in Members BY DEF Items
  <2>2. /\ CalledFor(en, td1, ss, p, i.session, i.member)
        /\ Prescription(var2, en, cal, tt, p, i.session, i.member)
             = Prescription(var1, en, cal, ss, p, i.session, i.member)
    BY <1>1, <2>1, Narrowing
  <2> QED BY <1>1, <2>2 DEF Wanted
<1>2. \A i \in Wanted(var2, en, cal, td2, tt, p) :
        i \in Items /\ CalledFor(en, td2, tt, p, i.session, i.member)
  BY DEF Wanted
<1> QED BY <1>1, <1>2 DEF Covers

\* Where something applies something is best, and it is what is published.
LEMMA BestIsVaried ==
  ASSUME NEW matches, NEW s, NEW m
  PROVE  /\ Varied(matches, s, m) # None => Varied(matches, s, m) \in Best(matches, s, m)
         /\ Varied(matches, s, m) = None => \A v \in Variations :
              SubjectOf[v] = s => <<v, m>> \notin matches
<1> DEFINE found == {v \in Variations : SubjectOf[v] = s /\ <<v, m>> \in matches}
<1>1. Best(matches, s, m) = {v \in found : \A w \in found : Priority(w) <= Priority(v)}
  BY DEF Best
<1>2. \A v \in Variations : Priority(v) \in {1, 2} BY DEF Priority
<1>3. found # {} => Best(matches, s, m) # {}
  <2>1. CASE \E v \in found : Priority(v) = 2 BY <1>1, <1>2, <2>1
  <2>2. CASE \A v \in found : Priority(v) = 1 BY <1>1, <2>2
  <2> QED BY <1>2, <2>1, <2>2
<1>4. Best(matches, s, m) # {} => Varied(matches, s, m) \in Best(matches, s, m)
  <2>1. \A S : S # {} => (CHOOSE v \in S : TRUE) \in S OBVIOUS
  <2> QED BY <2>1 DEF Varied
<1>5. Best(matches, s, m) = {} => Varied(matches, s, m) = None BY DEF Varied
<1>6. Best(matches, s, m) \subseteq Variations BY <1>1
<1> QED BY <1>3, <1>4, <1>5, <1>6, NamesAssumption

\* Between two calendars another variation comes to apply only by a crew whose
\* last day they tell apart, if nothing ties in the first of them.
LEMMA MovedOnly ==
  ASSUME NEW var, NEW en, NEW ca, NEW cb, NEW ss, NEW p, NEW s \in Sessions, NEW m \in Members,
         ~Tied(MatchesOf(var, en, ca, ss, p)),
         Varied(MatchesOf(var, en, ca, ss, p), s, m) # Varied(MatchesOf(var, en, cb, ss, p), s, m)
  PROVE  \E v \in {Varied(MatchesOf(var, en, ca, ss, p), s, m),
                   Varied(MatchesOf(var, en, cb, ss, p), s, m)} \cap Crews :
           LastOf(v, ca) # LastOf(v, cb)
<1> DEFINE A == MatchesOf(var, en, ca, ss, p)
           B == MatchesOf(var, en, cb, ss, p)
           a == Varied(A, s, m)
           b == Varied(B, s, m)
<1> SUFFICES ASSUME \A v \in {a, b} \cap Crews : LastOf(v, ca) = LastOf(v, cb) PROVE FALSE
  OBVIOUS
<1>1. ASSUME NEW v \in {a, b}, v \in Variations PROVE <<v, m>> \in A <=> <<v, m>> \in B
  <2>1. InWindow(v, ss[SubjectOf[v]].day, ca) <=> InWindow(v, ss[SubjectOf[v]].day, cb)
    BY DEF InWindow
  <2> HIDE DEF a, b
  <2> QED BY <1>1, <2>1 DEF MatchesOf
<1>2. \A M : Best(M, s, m) =
        {v \in {x \in Variations : SubjectOf[x] = s /\ <<x, m>> \in M} :
          \A w \in {x \in Variations : SubjectOf[x] = s /\ <<x, m>> \in M} : Priority(w) <= Priority(v)}
  BY DEF Best
<1>3. /\ a # None => a \in Best(A, s, m)
      /\ a = None => \A v \in Variations : SubjectOf[v] = s => <<v, m>> \notin A
      /\ b # None => b \in Best(B, s, m)
      /\ b = None => \A v \in Variations : SubjectOf[v] = s => <<v, m>> \notin B
  BY BestIsVaried
<1>4. a # b /\ ~Tied(A) OBVIOUS
<1> HIDE DEF A, B, a, b
<1>5. a # None /\ b # None BY <1>1, <1>2, <1>3, <1>4
<1>6. a \in Best(A, s, m) /\ b \in Best(A, s, m)
  <2>1. /\ a \in Variations /\ SubjectOf[a] = s /\ <<a, m>> \in A /\ <<a, m>> \in B
        /\ b \in Variations /\ SubjectOf[b] = s /\ <<b, m>> \in A /\ <<b, m>> \in B
    BY <1>1, <1>2, <1>3, <1>5
  <2>2. Priority(b) <= Priority(a) BY <1>2, <1>3, <1>5, <2>1
  <2>3. Priority(a) <= Priority(b) BY <1>2, <1>3, <1>5, <2>1
  <2>4. Priority(a) = Priority(b) BY <2>2, <2>3 DEF Priority
  <2>5. \A w \in Variations : SubjectOf[w] = s /\ <<w, m>> \in A => Priority(w) <= Priority(a)
    BY <1>2, <1>3, <1>5
  <2> QED BY <1>2, <1>3, <1>5, <2>1, <2>4, <2>5
<1>7. IsFiniteSet(Best(A, s, m))
  <2>1. Best(A, s, m) \subseteq Variations BY <1>2
  <2> QED BY <2>1, FS_Subset, FinitenessAssumption
<1>8. Cardinality(Best(A, s, m)) \in Nat \ {0, 1}
  <2> DEFINE S == Best(A, s, m)
  <2> HIDE DEF S
  <2>1. IsFiniteSet(S) /\ a \in S /\ b \in S BY <1>6, <1>7 DEF S
  <2>2. Cardinality(S) \in Nat BY <2>1, FS_CardinalityType
  <2>3. Cardinality(S) # 0 BY <2>1, FS_EmptySet
  <2>4. Cardinality(S) # 1
    <3>1. ASSUME Cardinality(S) = 1 PROVE FALSE
      <4>1. PICK x : S = {x} BY <2>1, <3>1, FS_Singleton
      <4> QED BY <1>4, <2>1, <4>1
    <3> QED BY <3>1
  <2>5. Cardinality(S) \in Nat \ {0, 1} BY <2>2, <2>3, <2>4
  <2> QED BY <2>5 DEF S
<1>9. Cardinality(Best(A, s, m)) > 1 BY <1>8
<1> QED BY <1>4, <1>9 DEF Tied

\* The prescriptions of two calendars, of which one has no tie.
LEMMA SamePrescription ==
  ASSUME NEW var, NEW en, NEW ca, NEW cb, NEW ss, NEW p, NEW s \in Sessions, NEW m \in Members,
         ~Tied(MatchesOf(var, en, ca, ss, p))
  PROVE  /\ SameButForRaces(Prescription(var, en, ca, ss, p, s, m),
                            Prescription(var, en, cb, ss, p, s, m), ca, cb)
         /\ SameButForRaces(Prescription(var, en, cb, ss, p, s, m),
                            Prescription(var, en, ca, ss, p, s, m), cb, ca)
<1> DEFINE a == Varied(MatchesOf(var, en, ca, ss, p), s, m)
           b == Varied(MatchesOf(var, en, cb, ss, p), s, m)
<1>1. a # b => \E v \in {a, b} \cap Crews : LastOf(v, ca) # LastOf(v, cb) BY MovedOnly
<1>2. /\ Prescription(var, en, ca, ss, p, s, m)
           = [session |-> s, member |-> m, text |-> ss[s].text, day |-> ss[s].day, varied |-> a]
      /\ Prescription(var, en, cb, ss, p, s, m)
           = [session |-> s, member |-> m, text |-> ss[s].text, day |-> ss[s].day, varied |-> b]
  BY DEF Prescription
<1> HIDE DEF a, b
<1> QED BY <1>1, <1>2 DEF SameButForRaces

-----------------------------------------------------------------------------
(* Between the page and the commit.                                        *)

\* The plan of the coach's form still has the version the form carries.
Untouched(c) == draft[c].pc # "idle" /\ stamp[draft[c].plan] = draft[c].form

\* Every item is of a day its membership lasts, the day of its session as long
\* as the plan has it.
DueDays(d, en, ss) ==
  \A i \in d.due :
    i.day <= en[i.member] /\ (ss[i.session].plan = d.plan => ss[i.session].day = i.day)

WeekAgrees(week, ss, p) ==
  \A s \in Sessions : ss[s].plan = p =>
    s \in DOMAIN week /\ week[s] = [text |-> ss[s].text, day |-> ss[s].day]

\* What a draft holds of the sessions "ss": all that is asked for, and nothing
\* that contradicts it.
Answers(d, var, en, td, ss) ==
  /\ Covers(d.items, var, en, d.used, td, ss, d.plan)
  /\ ~Tied(MatchesOf(var, en, d.used, ss, d.plan))

Shows(d, var, en, td, ss) ==
  Covers(d.due, var, en, d.seen, td, ss, d.plan) /\ DueDays(d, en, ss)

Assembled(d, var, en, td, ss) ==
  /\ Shows(d, var, en, td, ss)
  /\ d.pc \in {"recipients", "matches"} => WeekAgrees(d.week, ss, d.plan)
  /\ d.pc = "matches" => \A s \in Sessions, m \in Members :
       CalledFor(en, td, ss, d.plan, s, m) => <<s, m>> \in d.recipients
  /\ d.pc \in {"built", "begun", "locked"} => Answers(d, var, en, td, ss)
  /\ d.pc \in {"begun", "locked"} =>
       /\ d.had \in [Sessions -> Rows]
       /\ Answers(d, var, en, td, d.had) /\ Shows(d, var, en, td, d.had)

\* A plan that is not touched only narrows, and the draft stays right.
LEMMA AssembledNarrows ==
  ASSUME NEW var1 \in [Variations -> Plans \cup {None, Retired}],
         NEW var2 \in [Variations -> Plans \cup {None, Retired}],
         NEW en \in [Members -> Nat], NEW td1 \in Nat, NEW td2 \in Nat,
         NEW ss \in [Sessions -> Rows], NEW tt \in [Sessions -> Rows],
         NEW d \in Drafts, d.plan \in Plans,
         Keeps(ss, tt, d.plan), td1 <= td2, \A v \in Variations : var1[v] = d.plan <=> var2[v] = d.plan,
         Assembled(d, var1, en, td1, ss)
  PROVE  Assembled(d, var2, en, td2, tt)
<1> DEFINE p == d.plan
<1>d. d.due \in SUBSET Items /\ d.items \in SUBSET Items BY DEF Drafts
<1>1. ASSUME NEW aa \in [Sessions -> Rows], NEW bb \in [Sessions -> Rows], Keeps(aa, bb, p)
      PROVE  /\ Answers(d, var1, en, td1, aa) => Answers(d, var2, en, td2, bb)
             /\ Shows(d, var1, en, td1, aa) => Shows(d, var2, en, td2, bb)
  <2>1. Tied(MatchesOf(var2, en, d.used, bb, p)) => Tied(MatchesOf(var1, en, d.used, aa, p))
    BY <1>1, Narrowing
  <2>2. ASSUME NEW S \in SUBSET Items, NEW cal
        PROVE  Covers(S, var1, en, cal, td1, aa, p) => Covers(S, var2, en, cal, td2, bb, p)
    BY <1>1, CoversNarrows
  <2>3. DueDays(d, en, aa) => DueDays(d, en, bb)
    BY <1>1, <1>d DEF DueDays, Keeps, Items
  <2> QED BY <1>d, <2>1, <2>2, <2>3 DEF Answers, Shows
<1>2. Shows(d, var2, en, td2, tt) BY <1>1 DEF Assembled
<1>3. WeekAgrees(d.week, ss, p) => WeekAgrees(d.week, tt, p) BY DEF WeekAgrees, Keeps
<1>4. \A s \in Sessions, m \in Members :
        CalledFor(en, td2, tt, p, s, m) => CalledFor(en, td1, ss, p, s, m)
  BY Narrowing
<1>5. Answers(d, var1, en, td1, ss) => Answers(d, var2, en, td2, tt) BY <1>1
<1>6. ASSUME d.had \in [Sessions -> Rows]
      PROVE  /\ Answers(d, var1, en, td1, d.had) => Answers(d, var2, en, td2, d.had)
             /\ Shows(d, var1, en, td1, d.had) => Shows(d, var2, en, td2, d.had)
  <2>1. Keeps(d.had, d.had, p) BY DEF Keeps
  <2> QED BY <1>1, <1>6, <2>1
<1> QED BY <1>2, <1>3, <1>4, <1>5, <1>6 DEF Assembled

\* Each step touches a plan nobody has locked, or leaves it as it is but for
\* sessions that go and days that pass.
LEMMA StepEffect ==
  ASSUME TypeInv, [Next]_vars, NEW p \in Plans
  PROVE  \/ stamp'[p] = clock + 1 /\ ~Locked(p) /\ UNCHANGED draft
         \/ /\ stamp'[p] = stamp[p] /\ Keeps(session, session', p)
            /\ \A v \in Variations : variation[v] = p <=> variation'[v] = p
            /\ ends' = ends /\ today <= today'
<1>t. TypeOK /\ today \in Nat BY DEF TypeInv, TypeOK, Days
<1> DEFINE Quiet == /\ stamp'[p] = stamp[p] /\ Keeps(session, session', p)
                    /\ \A v \in Variations : variation[v] = p <=> variation'[v] = p
                    /\ ends' = ends /\ today <= today'
<1>1. ASSUME UNCHANGED <<today, stamp, session, ends, variation>> PROVE Quiet
  BY <1>1, <1>t DEF Keeps
<1>2. CASE NextDay BY <1>2, <1>t DEF NextDay, Keeps
<1>3. ASSUME NEW ps \in SUBSET Plans, Touch(ps)
      PROVE  IF p \in ps THEN stamp'[p] = clock + 1 /\ ~Locked(p) ELSE stamp'[p] = stamp[p]
  BY <1>3 DEF Touch
<1>4. ASSUME NEW s \in Sessions, EditContent(s) \/ CancelSession(s), p # session[s].plan PROVE Quiet
  <2>1. session[s] \in Rows /\ session[s].plan \in Plans /\ session[s].text \in 0 .. 1
    BY <1>t DEF TypeOK, Rows
  <2>2. PICK r \in Rows : session' = [session EXCEPT ![s] = r] /\ r.plan = session[s].plan
    <3>1. CASE EditContent(s)
      <4>1. 1 - session[s].text \in 0 .. 1 BY <2>1
      <4>2. [session[s] EXCEPT !.text = 1 - session[s].text] \in Rows BY <2>1, <4>1 DEF Rows
      <4>3. [session[s] EXCEPT !.text = 1 - session[s].text].plan = session[s].plan
        BY <2>1 DEF Rows
      <4> QED BY <3>1, <4>2, <4>3 DEF EditContent
    <3>2. CASE CancelSession(s)
      <4>1. /\ [session[s] EXCEPT !.active = FALSE] \in Rows
            /\ [session[s] EXCEPT !.active = FALSE].plan = session[s].plan
        BY <2>1 DEF Rows
      <4> QED BY <3>2, <4>1 DEF CancelSession
    <3> QED BY <1>4, <3>1, <3>2
  <2>3. session'[s] = r /\ \A x \in Sessions \ {s} : session'[x] = session[x]
    BY <1>t, <2>2, RowWrites
  <2>4. Keeps(session, session', p) BY <1>4, <2>2, <2>3 DEF Keeps
  <2>5. UNCHANGED <<today, ends, variation>> /\ Touch({session[s].plan})
    BY <1>4 DEF EditContent, CancelSession
  <2> QED BY <1>3, <1>4, <1>t, <2>1, <2>4, <2>5
<1>5. ASSUME NEW s \in Sessions, NEW q \in Plans, NEW d \in Days, UpdateSession(s, q, d), p # q
      PROVE  Quiet
  <2>1. session[s] \in Rows BY <1>t DEF TypeOK
  <2>2. /\ [session[s] EXCEPT !.plan = q, !.day = d] \in Rows
        /\ [session[s] EXCEPT !.plan = q, !.day = d].plan = q
    BY <2>1 DEF Rows
  <2>3. session' = [session EXCEPT ![s] = [session[s] EXCEPT !.plan = q, !.day = d]]
    BY <1>5 DEF UpdateSession
  <2>4. session'[s].plan = q /\ \A x \in Sessions \ {s} : session'[x] = session[x]
    BY <1>t, <2>2, <2>3, RowWrites
  <2>5. Keeps(session, session', p) BY <1>5, <2>4 DEF Keeps
  <2>6. UNCHANGED <<today, ends, variation>> /\ Touch({q}) BY <1>5 DEF UpdateSession
  <2> QED BY <1>3, <1>5, <1>t, <2>5, <2>6
<1>6. ASSUME NEW v \in Variations, CreateVariation(v) \/ RetireVariation(v)
      PROVE  \E q \in Plans : Touch({q}) /\ (p # q => Quiet)
  <2> DEFINE q == IF CreateVariation(v) THEN session[SubjectOf[v]].plan ELSE variation[v]
  <2>1. q \in Plans /\ Touch({q})
    BY <1>6, <1>t, TargetsAssumption DEF CreateVariation, RetireVariation, TypeOK, Rows
  <2>2. ASSUME p # q
        PROVE  \A w \in Variations : variation[w] = p <=> variation'[w] = p
    BY <1>6, <1>t, <2>2, NamesAssumption DEF CreateVariation, RetireVariation, TypeOK
  <2>3. UNCHANGED <<today, ends, session>> BY <1>6 DEF CreateVariation, RetireVariation
  <2> HIDE DEF q
  <2>4. p # q => Quiet BY <1>3, <1>t, <2>1, <2>2, <2>3 DEF Keeps
  <2> HIDE DEF Quiet
  <2> QED BY <2>1, <2>4
<1>7. ASSUME PlanStep PROVE (stamp'[p] = clock + 1 /\ ~Locked(p)) \/ Quiet
  <2> HIDE DEF Quiet
  <2>1. CASE \E s \in Sessions : EditContent(s) \/ CancelSession(s)
    <3>1. PICK s \in Sessions : EditContent(s) \/ CancelSession(s) BY <2>1
    <3>2. Touch({session[s].plan}) BY <3>1 DEF EditContent, CancelSession
    <3>3. session[s].plan \in Plans BY <1>t DEF TypeOK, Rows
    <3> QED BY <1>3, <1>4, <3>1, <3>2, <3>3
  <2>2. CASE \E s \in Sessions, q \in Plans, d \in Days : UpdateSession(s, q, d)
    <3>1. PICK s \in Sessions, q \in Plans, d \in Days : UpdateSession(s, q, d) BY <2>2
    <3>2. Touch({q}) BY <3>1 DEF UpdateSession
    <3> QED BY <1>3, <1>5, <3>1, <3>2
  <2>3. CASE \E v \in Variations : CreateVariation(v) \/ RetireVariation(v)
    BY <1>3, <1>6, <2>3
  <2>4. CASE \E e \in Competitions, d \in Days : MoveCompetition(e, d)
    BY <1>1, <2>4 DEF MoveCompetition
  <2> QED BY <1>2, <1>7, <2>1, <2>2, <2>3, <2>4 DEF PlanStep, Quiet
<1>8. CASE PlanStep BY <1>7, <1>8, PlanTyping
<1>9. CASE UNCHANGED vars BY <1>1, <1>9 DEF vars
<1>10. CASE \E c \in Coaches : CoachStep(c)
  <2>1. UNCHANGED <<today, clock, stamp, session, race, ends, variation>> BY <1>10, CoachTyping
  <2> QED BY <1>1, <2>1
<1>11. CASE \/ \E m \in Members : ClosingStep(m)
            \/ \E c \in Coaches, m \in Members : BreakDeadlock(c, m)
  <2>1. CASE \E m \in Members : CommitClosing(m) BY <1>3, <2>1 DEF CommitClosing
  <2>2. CASE ~\E m \in Members : CommitClosing(m)
    <3>1. UNCHANGED <<today, stamp, session, ends, variation>>
      BY <1>11, <2>2 DEF ClosingStep, BeginTransition, WriteTransition, EndMembership, AbortClosing,
           AbandonClosing, BreakDeadlock, NotClosed, Drop, Unpublished
    <3> QED BY <1>1, <3>1
  <2> QED BY <2>1, <2>2
<1> QED BY <1>8, <1>9, <1>10, <1>11 DEF Next

PlanInv ==
  /\ \A c \in Coaches : Untouched(c) => Assembled(draft[c], variation, ends, today, session)
  /\ \A c \in Locking : Untouched(c)
  /\ \A c, e \in Locking : draft[c].plan = draft[e].plan => c = e

\* What the page's version stands for.
LEMMA PageShows ==
  ASSUME TypeOK, NEW p \in Plans, NEW d, d.plan = p, d.seen = race,
         d.due = Candidates(session, race, p)
  PROVE  Shows(d, variation, ends, today, session)
<1>s. session \in [Sessions -> Rows] BY DEF TypeOK
<1>1. d.due = Wanted(variation, ends, race, today, session, p) BY <1>s, PlanAsks
<1>2. ASSUME NEW i \in d.due
      PROVE  i.day <= ends[i.member] /\ session[i.session].day = i.day
  <2>1. /\ i.session \in Sessions /\ i.member \in Members
        /\ CalledFor(ends, today, session, p, i.session, i.member)
        /\ i = Prescription(variation, ends, race, session, p, i.session, i.member)
    BY <1>1 DEF Wanted, Items
  <2>2. i.day = session[i.session].day BY <1>s, <2>1, PrescriptionTyping
  <2> QED BY <2>1, <2>2 DEF CalledFor
<1>3. DueDays(d, ends, session) BY <1>2 DEF DueDays
<1> QED BY <1>1, <1>3 DEF Shows, Covers

\* A draft that differs in what the conjuncts do not look at.
LEMMA ShowsAgain ==
  ASSUME NEW d, NEW e, e.due = d.due, e.seen = d.seen, e.plan = d.plan,
         NEW var, NEW en, NEW td, NEW ss, Shows(d, var, en, td, ss)
  PROVE  Shows(e, var, en, td, ss)
BY DEF Shows, DueDays

LEMMA AnswersAgain ==
  ASSUME NEW d, NEW e, e.items = d.items, e.used = d.used, e.plan = d.plan,
         NEW var, NEW en, NEW td, NEW ss, Answers(d, var, en, td, ss)
  PROVE  Answers(e, var, en, td, ss)
BY DEF Answers

\* A coach's step keeps his draft right, and locks one plan at a time.
LEMMA CoachKeeps ==
  ASSUME TypeInv, PlanInv, NEW c \in Coaches, CoachStep(c), NEW e, e = draft'[c]
  PROVE  /\ e.pc # "idle" /\ stamp[e.plan] = e.form =>
              Assembled(e, variation, ends, today, session)
         /\ e.pc = "locked" =>
              /\ stamp[e.plan] = e.form
              /\ \A x \in Coaches \ {c} : draft[x].pc = "locked" => draft[x].plan # e.plan
<1> DEFINE d == draft[c]
           Right(x) == x.pc # "idle" /\ stamp[x.plan] = x.form =>
                         Assembled(x, variation, ends, today, session)
           Alone(x) == x.pc = "locked" =>
                         /\ stamp[x.plan] = x.form
                         /\ \A y \in Coaches \ {c} : draft[y].pc = "locked" => draft[y].plan # x.plan
<1> SUFFICES Right(e) /\ Alone(e)
  OBVIOUS
<1>t. TypeOK /\ draft \in [Coaches -> Drafts] /\ session \in [Sessions -> Rows]
  BY DEF TypeInv, TypeOK
<1>d. d \in Drafts /\ Sane(d) BY DEF TypeInv, Forms
<1>i. Right(d) /\ Alone(d) BY DEF PlanInv, Untouched, Locking
<1>c. ASSUME NEW x, Step(c, x) PROVE e = x
  BY <1>c, <1>t DEF Step
<1>n. Right(NoDraft) /\ Alone(NoDraft) BY DEF NoDraft
<1> HIDE DEF d
<1>a. ASSUME NEW x, x.pc \notin {"idle", "locked"},
             stamp[x.plan] = x.form => Assembled(x, variation, ends, today, session)
      PROVE  Right(x) /\ Alone(x)
  BY <1>a
<1>1. ASSUME NEW p \in Plans, PreviewPlan(c, p) PROVE Right(e) /\ Alone(e)
  <2> DEFINE x == [NoDraft EXCEPT !.pc = "page", !.plan = p, !.form = stamp[p],
                                  !.due = Candidates(session, race, p), !.seen = race]
  <2>1. e = x BY <1>1, <1>c DEF PreviewPlan
  <2>2. x.pc = "page" /\ x.plan = p /\ x.seen = race /\ x.due = Candidates(session, race, p)
    BY DEF NoDraft
  <2> HIDE DEF x
  <2>3. Shows(x, variation, ends, today, session) BY <1>t, <2>2, PageShows
  <2>4. Assembled(x, variation, ends, today, session) BY <2>2, <2>3 DEF Assembled
  <2> QED BY <1>a, <2>1, <2>2, <2>4
<1>2. ASSUME SubmitPlan(c) PROVE Right(e) /\ Alone(e)
  <2> DEFINE x == [d EXCEPT !.pc = "week"]
  <2>1. d.pc = "page" /\ (e = x \/ e = NoDraft) BY <1>2, <1>c DEF SubmitPlan, d
  <2>2. x.pc = "week" /\ x.plan = d.plan /\ x.form = d.form /\ x.due = d.due /\ x.seen = d.seen
    BY <1>d DEF Drafts
  <2> HIDE DEF x
  <2>3. stamp[x.plan] = x.form => Assembled(x, variation, ends, today, session)
    BY <1>i, <2>1, <2>2, ShowsAgain DEF Assembled
  <2> QED BY <1>a, <1>n, <2>1, <2>2, <2>3
<1>3. ASSUME ReadWeek(c) PROVE Right(e) /\ Alone(e)
  <2> DEFINE x == [d EXCEPT !.pc = "recipients", !.week = Week(session, d.plan)]
  <2>1. d.pc = "week" /\ e = x BY <1>3, <1>c DEF ReadWeek, d
  <2>2. /\ x.pc = "recipients" /\ x.plan = d.plan /\ x.form = d.form /\ x.due = d.due
        /\ x.seen = d.seen /\ x.week = Week(session, d.plan)
    BY <1>d DEF Drafts
  <2> HIDE DEF x
  <2>3. WeekAgrees(x.week, session, x.plan) BY <2>2 DEF WeekAgrees, Week
  <2>4. stamp[x.plan] = x.form => Assembled(x, variation, ends, today, session)
    BY <1>i, <2>1, <2>2, <2>3, ShowsAgain DEF Assembled
  <2> QED BY <1>a, <2>1, <2>2, <2>4
<1>4. ASSUME ReadRecipients(c) PROVE Right(e) /\ Alone(e)
  <2> DEFINE x == [d EXCEPT !.pc = "matches", !.recipients = Recipients(session, d.plan)]
  <2>1. d.pc = "recipients" /\ e = x BY <1>4, <1>c DEF ReadRecipients, d
  <2>2. /\ x.pc = "matches" /\ x.plan = d.plan /\ x.form = d.form /\ x.due = d.due
        /\ x.seen = d.seen /\ x.week = d.week /\ x.recipients = Recipients(session, d.plan)
    BY <1>d DEF Drafts
  <2> HIDE DEF x
  <2>3. \A s \in Sessions, m \in Members :
          CalledFor(ends, today, session, x.plan, s, m) => <<s, m>> \in x.recipients
    <3>1. /\ Matches(session, race, d.plan)
               = MatchesOf(variation, ends, race, session, d.plan)
          /\ \A s \in Sessions, m \in Members :
               <<s, m>> \in Recipients(session, d.plan)
                 <=> CalledFor(ends, today, session, d.plan, s, m)
      BY <1>t, PlanAsks
    <3> QED BY <2>2, <3>1
  <2>4. stamp[x.plan] = x.form => Assembled(x, variation, ends, today, session)
    BY <1>i, <2>1, <2>2, <2>3, ShowsAgain DEF Assembled
  <2> QED BY <1>a, <2>1, <2>2, <2>4
<1>5. ASSUME BuildPublication(c) PROVE Right(e) /\ Alone(e)
  <2> DEFINE M == Matches(session, race, d.plan)
             items == Prescriptions(d.week, d.recipients, M)
             x == [d EXCEPT !.pc = "built", !.week = <<>>, !.recipients = {}, !.items = items,
                            !.used = race]
  <2>1. d.pc = "matches" /\ (e = NoDraft \/ (e = x /\ ~Tied(M)))
    BY <1>5, <1>c DEF BuildPublication, d
  <2>2. /\ x.pc = "built" /\ x.plan = d.plan /\ x.form = d.form /\ x.due = d.due
        /\ x.seen = d.seen /\ x.items = items /\ x.used = race
    BY <1>d DEF Drafts
  <2> HIDE DEF x
  <2>3. M = MatchesOf(variation, ends, race, session, d.plan) BY <1>t, PlanAsks
  <2>4. d.week \in Weeks /\ d.recipients \in SUBSET (Sessions \X Members) BY <1>d DEF Drafts
  <2>5. ASSUME stamp[d.plan] = d.form, e = x
        PROVE  Assembled(x, variation, ends, today, session)
    <3>1. Assembled(d, variation, ends, today, session) BY <1>i, <2>1, <2>5
    <3>2. WeekAgrees(d.week, session, d.plan) BY <2>1, <3>1 DEF Assembled
    <3>3. \A s \in Sessions, m \in Members :
            CalledFor(ends, today, session, d.plan, s, m) => <<s, m>> \in d.recipients
      BY <2>1, <3>1 DEF Assembled
    <3>4. Covers(items, variation, ends, race, today, session, d.plan)
      BY <1>t, <2>3, <2>4, <3>2, <3>3, Assembly DEF WeekAgrees
    <3>5. ~Tied(M) BY <2>1, <2>2, <2>5 DEF NoDraft
    <3> HIDE DEF items, M
    <3>6. Answers(x, variation, ends, today, session) BY <2>2, <2>3, <3>4, <3>5 DEF Answers
    <3>7. Shows(x, variation, ends, today, session) BY <2>2, <3>1, ShowsAgain DEF Assembled
    <3> QED BY <2>2, <3>6, <3>7 DEF Assembled
  <2> QED BY <1>a, <1>n, <2>1, <2>2, <2>5
<1>6. ASSUME BeginPublication(c) PROVE Right(e) /\ Alone(e)
  <2> DEFINE x == [d EXCEPT !.pc = "begun", !.had = session]
  <2>1. d.pc = "built" /\ e = x BY <1>6, <1>c DEF BeginPublication, d
  <2>2. /\ x.pc = "begun" /\ x.plan = d.plan /\ x.form = d.form /\ x.due = d.due
        /\ x.seen = d.seen /\ x.items = d.items /\ x.used = d.used /\ x.had = session
    BY <1>d DEF Drafts
  <2> HIDE DEF x
  <2>3. ASSUME stamp[d.plan] = d.form PROVE Assembled(x, variation, ends, today, session)
    <3>1. Assembled(d, variation, ends, today, session) BY <1>i, <2>1, <2>3
    <3>2. Answers(x, variation, ends, today, session) BY <2>1, <2>2, <3>1, AnswersAgain DEF Assembled
    <3>3. Shows(x, variation, ends, today, session) BY <2>2, <3>1, ShowsAgain DEF Assembled
    <3> QED BY <1>t, <2>2, <3>2, <3>3 DEF Assembled
  <2> QED BY <1>a, <2>1, <2>2, <2>3
<1>7. ASSUME NEW x, x.pc = "locked", d.pc \in {"begun", "locked"}, stamp[d.plan] = d.form,
             x.plan = d.plan, x.form = d.form, x.due = d.due, x.seen = d.seen,
             x.items = d.items, x.used = d.used, x.had = d.had
      PROVE  Right(x)
  <2>1. Assembled(d, variation, ends, today, session) BY <1>i, <1>7
  <2>2. Answers(d, variation, ends, today, session) /\ Answers(d, variation, ends, today, d.had)
    BY <1>7, <2>1 DEF Assembled
  <2>3. Shows(d, variation, ends, today, session) /\ Shows(d, variation, ends, today, d.had)
    BY <1>7, <2>1 DEF Assembled
  <2>4. Answers(x, variation, ends, today, session) /\ Answers(x, variation, ends, today, d.had)
    BY <1>7, <2>2, AnswersAgain
  <2>5. Shows(x, variation, ends, today, session) /\ Shows(x, variation, ends, today, d.had)
    BY <1>7, <2>3, ShowsAgain
  <2>6. d.had \in [Sessions -> Rows] BY <1>7, <2>1 DEF Assembled
  <2> QED BY <1>7, <2>4, <2>5, <2>6 DEF Assembled
<1>8. ASSUME LockPlan(c) PROVE Right(e) /\ Alone(e)
  <2> DEFINE x == [d EXCEPT !.pc = "locked"]
  <2>1. d.pc = "begun" /\ ~Locked(d.plan) /\ ((stamp[d.plan] = d.form /\ e = x) \/ e = NoDraft)
    BY <1>8, <1>c DEF LockPlan, d
  <2>2. /\ x.pc = "locked" /\ x.plan = d.plan /\ x.form = d.form /\ x.due = d.due
        /\ x.seen = d.seen /\ x.items = d.items /\ x.used = d.used /\ x.had = d.had
    BY <1>d DEF Drafts
  <2> HIDE DEF x
  <2>3. stamp[d.plan] = d.form => Right(x) /\ Alone(x)
    BY <1>7, <2>1, <2>2 DEF Locked, Locking
  <2> QED BY <1>n, <2>1, <2>3
<1>9. ASSUME NEW m \in Members, LockMembership(c, m) PROVE Right(e) /\ Alone(e)
  <2> DEFINE x == [d EXCEPT !.shares = @ \cup {m}]
  <2>1. d.pc = "locked" /\ e = x BY <1>9, <1>c DEF LockMembership, d
  <2>2. /\ x.pc = "locked" /\ x.plan = d.plan /\ x.form = d.form /\ x.due = d.due
        /\ x.seen = d.seen /\ x.items = d.items /\ x.used = d.used /\ x.had = d.had
    BY <1>d, <2>1 DEF Drafts
  <2> HIDE DEF x
  <2> QED BY <1>7, <1>i, <2>1, <2>2
<1>10. ASSUME Publish(c) \/ RefusePublication(c) \/ AbandonPublication(c)
       PROVE  Right(e) /\ Alone(e)
  BY <1>10, <1>c, <1>n DEF Publish, RefusePublication, AbandonPublication, Drop
<1> HIDE DEF Right, Alone
<1> QED BY <1>1, <1>2, <1>3, <1>4, <1>5, <1>6, <1>8, <1>9, <1>10 DEF CoachStep

\* A draft is a coach's own: another step leaves it, or drops it.
LEMMA DraftOwner ==
  ASSUME TypeInv, [Next]_vars, NEW c \in Coaches
  PROVE  CoachStep(c) \/ draft'[c] \in {draft[c], NoDraft}
<1>t. draft \in [Coaches -> Drafts] BY DEF TypeInv
<1>1. CASE UNCHANGED vars BY <1>1 DEF vars
<1>2. CASE PlanStep BY <1>2, PlanTyping
<1>3. CASE \E x \in Coaches : CoachStep(x)
  <2>1. PICK x \in Coaches : CoachStep(x) BY <1>3
  <2>2. PICK d \in Drafts : draft' = [draft EXCEPT ![x] = d] BY <2>1, CoachTyping
  <2> QED BY <1>t, <2>1, <2>2
<1>4. CASE \/ \E m \in Members : ClosingStep(m)
           \/ \E x \in Coaches, m \in Members : BreakDeadlock(x, m)
  <2>1. PICK m \in Members : ClosingStep(m) \/ \E x \in Coaches : BreakDeadlock(x, m) BY <1>4
  <2>2. draft' = draft \/ \E x \in Coaches : draft' = [draft EXCEPT ![x] = NoDraft]
    BY <2>1, ClosingTyping
  <2> QED BY <1>t, <2>2
<1> QED BY <1>1, <1>2, <1>3, <1>4 DEF Next

LEMMA PlanStepKeeps == TypeInv /\ TypeInv' /\ PlanInv /\ [Next]_vars => PlanInv'
<1> SUFFICES ASSUME TypeInv, TypeInv', PlanInv, [Next]_vars PROVE PlanInv'
  OBVIOUS
<1>t. TypeOK /\ TypeOK' BY DEF TypeInv
<1>1. ASSUME NEW c \in Coaches, Untouched(c)'
      PROVE  Assembled(draft[c], variation, ends, today, session)'
  <2>1. CASE CoachStep(c)
    <3>1. UNCHANGED <<today, stamp, session, ends, variation>> BY <2>1, CoachTyping
    <3> QED BY <1>1, <2>1, <3>1, CoachKeeps DEF Untouched
  <2>2. CASE ~CoachStep(c)
    <3> DEFINE p == draft[c].plan
    <3>1. draft'[c] = draft[c] /\ draft[c].pc # "idle"
      BY <1>1, <2>2, DraftOwner DEF Untouched, NoDraft
    <3>2. draft[c] \in Drafts /\ p \in Plans /\ draft[c].form <= clock /\ draft[c].form \in Nat
          /\ clock \in Nat
      BY <1>t, <3>1 DEF TypeInv, TypeOK, Forms, Sane, Drafts
    <3>3. stamp'[p] = draft[c].form BY <1>1, <3>1 DEF Untouched
    <3>4. stamp'[p] # clock + 1 BY <3>2, <3>3
    <3>5. /\ stamp'[p] = stamp[p] /\ Keeps(session, session', p)
          /\ \A v \in Variations : variation[v] = p <=> variation'[v] = p
          /\ ends' = ends /\ today <= today'
      BY <3>2, <3>4, StepEffect
    <3>6. Assembled(draft[c], variation, ends, today, session)
      BY <3>1, <3>3, <3>5 DEF PlanInv, Untouched
    <3>7. /\ variation \in [Variations -> Plans \cup {None, Retired}]
          /\ variation' \in [Variations -> Plans \cup {None, Retired}]
          /\ ends \in [Members -> Nat] /\ today \in Nat /\ today' \in Nat
          /\ session \in [Sessions -> Rows] /\ session' \in [Sessions -> Rows]
      BY <1>t, BoundsAssumption DEF TypeOK, Days
    <3>8. Assembled(draft[c], variation', ends, today', session')
      BY <3>2, <3>5, <3>6, <3>7, AssembledNarrows
    <3> QED BY <3>1, <3>5, <3>8
  <2> QED BY <2>1, <2>2
<1>2. ASSUME NEW c \in Coaches, draft'[c].pc = "locked"
      PROVE  /\ Untouched(c)'
             /\ CoachStep(c) \/ (draft'[c] = draft[c] /\ c \in Locking)
  <2>1. CASE CoachStep(c)
    <3>1. UNCHANGED <<today, stamp, session, ends, variation>> BY <2>1, CoachTyping
    <3>2. stamp[draft'[c].plan] = draft'[c].form BY <1>2, <2>1, CoachKeeps
    <3> QED BY <1>2, <2>1, <3>1, <3>2 DEF Untouched
  <2>2. CASE ~CoachStep(c)
    <3>1. draft'[c] = draft[c] /\ c \in Locking
      BY <1>2, <2>2, DraftOwner DEF NoDraft, Locking
    <3>2. Untouched(c) /\ draft[c].plan \in Plans /\ Locked(draft[c].plan)
      BY <3>1 DEF PlanInv, Locking, Locked, TypeInv, Forms, Sane
    <3>3. stamp'[draft[c].plan] = stamp[draft[c].plan] BY <3>2, StepEffect
    <3> QED BY <3>1, <3>2, <3>3 DEF Untouched
  <2> QED BY <2>1, <2>2
<1>3. ASSUME NEW c \in Coaches, NEW e \in Coaches, draft'[c].pc = "locked", draft'[e].pc = "locked",
             draft'[c].plan = draft'[e].plan, c # e
      PROVE  FALSE
  <2>1. CASE CoachStep(c)
    <3>1. draft'[e] = draft[e]
      <4>1. PICK x \in Drafts : draft' = [draft EXCEPT ![c] = x] BY <2>1, CoachTyping
      <4> QED BY <1>3, <4>1 DEF TypeInv
    <3> QED BY <1>3, <2>1, <3>1, CoachKeeps
  <2>2. CASE CoachStep(e)
    <3>1. draft'[c] = draft[c]
      <4>1. PICK x \in Drafts : draft' = [draft EXCEPT ![e] = x] BY <2>2, CoachTyping
      <4> QED BY <1>3, <4>1 DEF TypeInv
    <3> QED BY <1>3, <2>2, <3>1, CoachKeeps
  <2>3. CASE ~CoachStep(c) /\ ~CoachStep(e) BY <1>2, <1>3, <2>3 DEF PlanInv
  <2> QED BY <2>1, <2>2, <2>3
<1> QED BY <1>1, <1>2, <1>3 DEF PlanInv, Locking

LEMMA PlanInvInit == Init => PlanInv
BY DEF Init, PlanInv, Untouched, Locking, NoDraft

LEMMA Planning == Spec => [](TypeInv /\ PlanInv)
<1>1. Init => TypeInv /\ PlanInv BY TypeInvInit, PlanInvInit
<1>2. TypeInv /\ PlanInv /\ [Next]_vars => (TypeInv /\ PlanInv)' BY TypingStep, PlanStepKeeps
<1> QED BY <1>1, <1>2, PTL DEF Spec

\* Nothing but a publication writes the log, and the plan's own.
LEMMA PublishedWrites ==
  ASSUME TypeInv, [Next]_vars, published' # published
  PROVE  \E c \in Coaches : Publish(c)
BY DEF Next, vars, PlanStep, NextDay, EditContent, CancelSession, UpdateSession,
     CreateVariation, RetireVariation, MoveCompetition, CoachStep, PreviewPlan, SubmitPlan, ReadWeek,
     ReadRecipients, BuildPublication, BeginPublication, LockPlan, LockMembership,
     RefusePublication, AbandonPublication, ClosingStep, BeginTransition, WriteTransition,
     EndMembership, CommitClosing, AbortClosing, AbandonClosing, BreakDeadlock, Drop,
     Unpublished, NotClosed

LEMMA OneWrites ==
  ASSUME TypeInv, [Next]_vars, NEW p \in Plans, published'[p] # published[p]
  PROVE  \E c \in Locking : Publish(c) /\ draft[c].plan = p
<1>1. PICK c \in Coaches : Publish(c) BY PublishedWrites
<1>2. c \in Locking /\ published' = [published EXCEPT ![draft[c].plan] =
        Append(@, [source |-> stamp[draft[c].plan], items |-> draft[c].items,
                   used |-> draft[c].used])]
  BY <1>1 DEF Publish, HoldsAll, Locking
<1>3. draft[c].plan = p BY <1>2 DEF TypeInv
<1> QED BY <1>1, <1>2, <1>3

LEMMA OnlyPublishing ==
  ASSUME TypeInv, PlanInv, [Next]_vars, NEW c \in Coaches, NEW p \in Plans, Publishes(c, p)
  PROVE  Publish(c)
BY OneWrites DEF Publishes, PlanInv

\* What a publication adds.
LEMMA PublicationAdds ==
  ASSUME TypeInv, PlanInv, NEW c \in Coaches, NEW p \in Plans, Publish(c), draft[c].plan = p
  PROVE  /\ Latest(p)' = [source |-> stamp[p], items |-> draft[c].items, used |-> draft[c].used]
         /\ draft[c].had \in [Sessions -> Rows]
         /\ draft[c].items = Candidates(draft[c].had, draft[c].used, p)
         /\ ~Tied(Matches(draft[c].had, draft[c].used, p))
         /\ Shows(draft[c], variation, ends, today, draft[c].had)
         /\ Answers(draft[c], variation, ends, today, session)
<1> DEFINE d == draft[c]
           e == [source |-> stamp[p], items |-> d.items, used |-> d.used]
<1>1. d.pc = "locked" /\ Accepted(c) /\ published' = [published EXCEPT ![p] = Append(@, e)]
  BY DEF Publish, HoldsAll
<1>2. d.items \in SUBSET Items /\ d.used \in Calendars BY DEF TypeInv, Drafts
<1>3. e \in Entries /\ published[p] \in Seq(Entries)
  <2>1. stamp[p] \in Nat BY DEF TypeInv, TypeOK
  <2> QED BY <1>2, <2>1 DEF Entries, TypeInv
<1>4. Latest(p)' = e
  <2>1. published'[p] = Append(published[p], e) BY <1>1 DEF TypeInv
  <2>2. Append(published[p], e)[Len(Append(published[p], e))] = e
    BY <1>3, AppendProperties
  <2> QED BY <2>1, <2>2 DEF Latest
<1>5. Assembled(d, variation, ends, today, session) BY <1>1 DEF PlanInv, Locking, Untouched
<1>6. /\ d.had \in [Sessions -> Rows]
      /\ Answers(d, variation, ends, today, d.had) /\ Shows(d, variation, ends, today, d.had)
  BY <1>1, <1>5 DEF Assembled
<1>7. d.items = Wanted(variation, ends, d.used, today, d.had, p)
  <2>1. Covers(d.items, variation, ends, d.used, today, d.had, p) BY <1>6 DEF Answers
  <2>2. \A i \in d.items : CalledFor(ends, today, d.had, p, i.session, i.member)
    BY <1>1 DEF Accepted, Eligible, CalledFor
  <2> QED BY <2>1, <2>2 DEF Covers
<1>8. /\ Candidates(d.had, d.used, p) = Wanted(variation, ends, d.used, today, d.had, p)
      /\ Matches(d.had, d.used, p) = MatchesOf(variation, ends, d.used, d.had, p)
  BY <1>6, PlanAsks DEF TypeInv
<1>9. Answers(d, variation, ends, today, session) BY <1>1, <1>5 DEF Assembled
<1> QED BY <1>4, <1>6, <1>7, <1>8, <1>9 DEF Answers

\* What is published is what the plan asked for in the instant of the
\* transaction's snapshot, with the competitions where the last query found them
\* (PublicationsAreExact), though it was read by queries of other instants and
\* anybody may have touched the plan in between.
THEOREM ExactPublications == Spec => PublicationsAreExact
<1>1. ASSUME TypeInv, PlanInv, [Next]_vars, NEW c \in Coaches, NEW p \in Plans, Publishes(c, p)
      PROVE  /\ Latest(p)'.items = Candidates(draft[c].had, draft[c].used, p)
             /\ ~Tied(Matches(draft[c].had, draft[c].used, p))
  BY <1>1, OnlyPublishing, PublicationAdds DEF Publishes
<1>2. TypeInv /\ PlanInv /\ [Next]_vars =>
        [\A c \in Coaches, p \in Plans : Publishes(c, p) =>
           /\ Latest(p)'.items = Candidates(draft[c].had, draft[c].used, p)
           /\ ~Tied(Matches(draft[c].had, draft[c].used, p))]_vars
  BY <1>1
<1> QED BY <1>2, Planning, PTL DEF Spec, PublicationsAreExact

\* Nothing is published that the plan did not ask for when the page read its
\* version, and nothing it asked for is missing that still can be published, but
\* for crews whose competition was moved in between (PublishesWhatThePageShowed).
THEOREM PublishedAsShown == Spec => PublishesWhatThePageShowed
<1>1. ASSUME TypeInv, PlanInv, [Next]_vars, NEW c \in Coaches, NEW p \in Plans, Publishes(c, p)
      PROVE  /\ \A i \in Latest(p)'.items : \E j \in draft[c].due :
                  SameButForRaces(i, j, draft[c].used, draft[c].seen)
             /\ \A j \in draft[c].due :
                  \/ \E i \in Latest(p)'.items :
                       SameButForRaces(i, j, draft[c].used, draft[c].seen)
                  \/ draft[c].had[j.session].plan # p \/ today > ends[j.member]
  <2> DEFINE d == draft[c]
             Said(cal, s, m) == Prescription(variation, ends, cal, d.had, p, s, m)
             Called(s, m) == CalledFor(ends, today, d.had, p, s, m)
  <2>1. /\ d.plan = p /\ d.had \in [Sessions -> Rows]
        /\ Latest(p)'.items = Candidates(d.had, d.used, p)
        /\ ~Tied(Matches(d.had, d.used, p))
        /\ Shows(d, variation, ends, today, d.had)
    BY <1>1, OnlyPublishing, PublicationAdds DEF Publishes
  <2>2. /\ Latest(p)'.items = Wanted(variation, ends, d.used, today, d.had, p)
        /\ ~Tied(MatchesOf(variation, ends, d.used, d.had, p))
    BY <1>1, <2>1, PlanAsks DEF TypeInv
  <2>3. Covers(d.due, variation, ends, d.seen, today, d.had, p) /\ DueDays(d, ends, d.had)
    BY <2>1 DEF Shows
  <2>4. ASSUME NEW s \in Sessions, NEW m \in Members
        PROVE  SameButForRaces(Said(d.used, s, m), Said(d.seen, s, m), d.used, d.seen)
    BY <2>2, SamePrescription
  <2>5. ASSUME NEW i \in Latest(p)'.items
        PROVE  \E j \in d.due : SameButForRaces(i, j, d.used, d.seen)
    <3>1. /\ i.session \in Sessions /\ i.member \in Members /\ Called(i.session, i.member)
          /\ i = Said(d.used, i.session, i.member)
      BY <2>2 DEF Wanted, Items
    <3>2. Said(d.seen, i.session, i.member) \in d.due BY <2>1, <2>3, <3>1, WantedMembers DEF Covers
    <3> HIDE DEF Said
    <3> QED BY <2>4, <3>1, <3>2
  <2>6. ASSUME NEW j \in d.due, d.had[j.session].plan = p, ~(today > ends[j.member])
        PROVE  \E i \in Latest(p)'.items : SameButForRaces(i, j, d.used, d.seen)
    <3>1. j.session \in Sessions /\ j.member \in Members BY <1>1 DEF TypeInv, Drafts, Items
    <3>2. today \in Nat /\ ends[j.member] \in Nat
      BY <1>1, <3>1, BoundsAssumption DEF TypeInv, TypeOK, Days
    <3>3. d.had[j.session].day <= ends[j.member] BY <2>1, <2>3, <2>6 DEF DueDays
    <3>4. today <= ends[j.member] BY <2>6, <3>2
    <3>5. Called(j.session, j.member) BY <2>6, <3>3, <3>4 DEF CalledFor
    <3>6. j = Said(d.seen, j.session, j.member) BY <2>3, <3>5 DEF Covers, Wanted
    <3>7. Said(d.used, j.session, j.member) \in Latest(p)'.items
      BY <2>1, <2>2, <3>1, <3>5, WantedMembers
    <3> HIDE DEF Said
    <3> QED BY <2>4, <3>1, <3>6, <3>7
  <2> HIDE DEF d
  <2> QED BY <2>5, <2>6 DEF d
<1>2. TypeInv /\ PlanInv /\ [Next]_vars =>
        [\A c \in Coaches, p \in Plans : Publishes(c, p) =>
           /\ \A i \in Latest(p)'.items : \E j \in draft[c].due :
                SameButForRaces(i, j, draft[c].used, draft[c].seen)
           /\ \A j \in draft[c].due :
                \/ \E i \in Latest(p)'.items :
                     SameButForRaces(i, j, draft[c].used, draft[c].seen)
                \/ draft[c].had[j.session].plan # p \/ today > ends[j.member]]_vars
  BY <1>1
<1> QED BY <1>2, Planning, PTL DEF Spec, PublishesWhatThePageShowed

-----------------------------------------------------------------------------
(* What is shown as current, and what a closing leaves.                    *)

\* With the competitions where they were when it was assembled, the revision of
\* a plan whose version it has lacks nothing, and nothing ties.
CurrentInv ==
  \A p \in Plans : Current(p) =>
    /\ Wanted(variation, ends, Latest(p).used, today, session, p) \subseteq Latest(p).items
    /\ ~Tied(MatchesOf(variation, ends, Latest(p).used, session, p))

\* A change either gives the plan a version of its own or only takes away.
LEMMA CurrentKept == TypeInv /\ TypeInv' /\ PlanInv /\ CurrentInv /\ [Next]_vars => CurrentInv'
<1> SUFFICES ASSUME TypeInv, TypeInv', PlanInv, CurrentInv, [Next]_vars,
                    NEW p \in Plans, Current(p)'
             PROVE  /\ Wanted(variation', ends', Latest(p)'.used, today', session', p)
                         \subseteq Latest(p)'.items
                    /\ ~Tied(MatchesOf(variation', ends', Latest(p)'.used, session', p))
  BY DEF CurrentInv
<1>t. TypeOK /\ TypeOK' BY DEF TypeInv
<1>s. /\ session \in [Sessions -> Rows] /\ session' \in [Sessions -> Rows]
      /\ variation \in [Variations -> Plans \cup {None, Retired}]
      /\ variation' \in [Variations -> Plans \cup {None, Retired}]
      /\ ends \in [Members -> Nat] /\ today \in Nat /\ today' \in Nat
  BY <1>t, BoundsAssumption DEF TypeOK, Days
<1>1. CASE published'[p] # published[p]
  <2>1. PICK c \in Coaches : Publish(c) /\ draft[c].plan = p
    BY <1>1, OneWrites DEF Locking
  <2>2. /\ Latest(p)'.items = draft[c].items /\ Latest(p)'.used = draft[c].used
        /\ Answers(draft[c], variation, ends, today, session)
    BY <2>1, PublicationAdds
  <2>3. UNCHANGED <<today, session, ends, variation>> BY <2>1 DEF Publish
  <2> QED BY <2>1, <2>2, <2>3 DEF Answers, Covers
<1>2. CASE published'[p] = published[p]
  <2> DEFINE cal == Latest(p).used
  <2>1. Latest(p)' = Latest(p) /\ published[p] # <<>> BY <1>2 DEF Latest, Current
  <2>2. Latest(p).source \in 0 .. clock
    <3>1. Len(published[p]) \in 1 .. Len(published[p])
      BY <2>1, EmptySeq, LenProperties DEF TypeInv
    <3> QED BY <1>t, <3>1 DEF TypeOK, Latest
  <2>3. stamp'[p] = Latest(p).source /\ stamp'[p] # clock + 1
    BY <1>t, <2>1, <2>2 DEF Current, TypeOK
  <2>4. /\ stamp'[p] = stamp[p] /\ Keeps(session, session', p)
        /\ \A v \in Variations : variation[v] = p <=> variation'[v] = p
        /\ ends' = ends /\ today <= today'
    BY <2>3, StepEffect
  <2>5. /\ Wanted(variation, ends, cal, today, session, p) \subseteq Latest(p).items
        /\ ~Tied(MatchesOf(variation, ends, cal, session, p))
    BY <2>1, <2>3, <2>4 DEF CurrentInv, Current
  <2> HIDE DEF cal
  <2>6. ~Tied(MatchesOf(variation', ends, cal, session', p)) BY <1>s, <2>4, <2>5, Narrowing
  <2>7. ASSUME NEW i \in Wanted(variation', ends, cal, today', session', p)
        PROVE  i \in Wanted(variation, ends, cal, today, session, p)
    <3>1. /\ i \in Items /\ i.session \in Sessions /\ i.member \in Members
          /\ CalledFor(ends, today', session', p, i.session, i.member)
          /\ i = Prescription(variation', ends, cal, session', p, i.session, i.member)
      BY DEF Wanted, Items
    <3>2. /\ CalledFor(ends, today, session, p, i.session, i.member)
          /\ Prescription(variation', ends, cal, session', p, i.session, i.member)
               = Prescription(variation, ends, cal, session, p, i.session, i.member)
      BY <1>s, <2>4, <3>1, Narrowing
    <3> QED BY <3>1, <3>2 DEF Wanted
  <2> QED BY <2>1, <2>4, <2>5, <2>6, <2>7 DEF cal
<1> QED BY <1>1, <1>2

\* A plan whose version is the published one lacks no prescription, but for the
\* variations of crews whose competition was moved since (CurrentMissesNothing).
THEOREM CurrentIsComplete == Spec => []CurrentMissesNothing
<1>1. Init => CurrentInv BY DEF Init, CurrentInv, Current
<1>2. TypeInv /\ CurrentInv => CurrentMissesNothing
  <2> SUFFICES ASSUME TypeInv, CurrentInv, NEW p \in Plans, Current(p),
                      NEW i \in Candidates(session, race, p)
               PROVE  \E j \in Latest(p).items : SameButForRaces(i, j, race, Latest(p).used)
    BY DEF CurrentMissesNothing
  <2> DEFINE cal == Latest(p).used
             Said(c) == Prescription(variation, ends, c, session, p, i.session, i.member)
  <2>1. session \in [Sessions -> Rows] BY DEF TypeInv, TypeOK
  <2>2. i \in Wanted(variation, ends, race, today, session, p) BY <2>1, PlanAsks DEF TypeInv
  <2>3. /\ i.session \in Sessions /\ i.member \in Members
        /\ CalledFor(ends, today, session, p, i.session, i.member) /\ i = Said(race)
    BY <2>2 DEF Wanted, Items
  <2>4. /\ Wanted(variation, ends, cal, today, session, p) \subseteq Latest(p).items
        /\ ~Tied(MatchesOf(variation, ends, cal, session, p))
    BY DEF CurrentInv
  <2> HIDE DEF cal
  <2>5. Said(cal) \in Latest(p).items BY <2>1, <2>3, <2>4, WantedMembers
  <2>6. SameButForRaces(Said(race), Said(cal), race, cal) BY <2>3, <2>4, SamePrescription
  <2> HIDE DEF Said
  <2> QED BY <2>3, <2>5, <2>6 DEF cal
<1> QED BY <1>1, <1>2, CurrentKept, Planning, PTL DEF Spec

\* What is published of a membership lies within the end it is being given, but
\* for sessions moved meanwhile.
Within(m) ==
  \A p \in Plans : \A k \in 1 .. Len(published[p]) : \A i \in published[p][k].items :
    i.member = m => session[i.session].day <= closing[m].end \/ i.session \in closing[m].edited

\* A closing has seen what was published before it began, and excludes what is
\* published after: by its row lock, or by what PostgreSQL makes of its snapshot.
ClosingInv ==
  \A m \in Members :
    /\ closing[m].pc = "begun" => closing[m].transition
    /\ closing[m].pc = "written" => ~Sharing(m)
    /\ closing[m].pc # "idle" => Conflicts(m) \/ Within(m)

\* No step of a coach takes a share of a membership that is being written.
LEMMA SharesTaken ==
  ASSUME TypeInv, [Next]_vars, NEW m \in Members, ~Sharing(m), Sharing(m)'
  PROVE  closing' = closing /\ closing[m].pc # "written"
<1>1. PICK c \in Coaches : m \in draft'[c].shares BY DEF Sharing
<1>2. m \notin draft[c].shares BY DEF Sharing
<1>3. CoachStep(c) BY <1>1, <1>2, DraftOwner DEF NoDraft
<1>4. draft \in [Coaches -> Drafts] /\ draft[c] \in Drafts BY DEF TypeInv
<1>5. ASSUME NEW x, Step(c, x) PROVE draft'[c] = x BY <1>4, <1>5 DEF Step
<1>6. CASE \E n \in Members : LockMembership(c, n)
  <2>1. PICK n \in Members : LockMembership(c, n) BY <1>6
  <2>2. draft'[c] = [draft[c] EXCEPT !.shares = @ \cup {n}] BY <1>5, <2>1 DEF LockMembership
  <2>3. m = n BY <1>1, <1>2, <1>4, <2>2 DEF Drafts
  <2> QED BY <2>1, <2>3 DEF LockMembership, Unpublished
<1>7. CASE ~\E n \in Members : LockMembership(c, n)
  <2>1. ASSUME NEW x, Step(c, x), x.shares = {} \/ x.shares = draft[c].shares PROVE FALSE
    BY <1>1, <1>2, <1>5, <2>1
  <2>2. NoDraft.shares = {} BY DEF NoDraft
  <2>3. CASE \E p \in Plans : PreviewPlan(c, p) BY <2>1, <2>3 DEF PreviewPlan, NoDraft
  <2>4. CASE SubmitPlan(c) BY <1>4, <2>1, <2>2, <2>4 DEF SubmitPlan, Drafts
  <2>5. CASE ReadWeek(c) BY <1>4, <2>1, <2>5 DEF ReadWeek, Drafts
  <2>6. CASE ReadRecipients(c) BY <1>4, <2>1, <2>6 DEF ReadRecipients, Drafts
  <2>7. CASE BuildPublication(c) BY <1>4, <2>1, <2>2, <2>7 DEF BuildPublication, Drafts
  <2>8. CASE BeginPublication(c) BY <1>4, <2>1, <2>8 DEF BeginPublication, Drafts
  <2>9. CASE LockPlan(c) BY <1>4, <2>1, <2>2, <2>9 DEF LockPlan, Drafts
  <2>10. CASE Publish(c) \/ RefusePublication(c) \/ AbandonPublication(c)
    BY <2>1, <2>2, <2>10 DEF Publish, RefusePublication, AbandonPublication, Drop
  <2> QED BY <1>3, <1>7, <2>3, <2>4, <2>5, <2>6, <2>7, <2>8, <2>9, <2>10 DEF CoachStep
<1> QED BY <1>6, <1>7

\* The days of sessions change by the session's form alone, which the closings
\* under way remember.
LEMMA DaysChange ==
  ASSUME TypeInv, PlanStep, NEW m \in Members
  PROVE  /\ closing'[m].pc = closing[m].pc /\ closing'[m].end = closing[m].end
         /\ closing'[m].transition = closing[m].transition
         /\ closing'[m].outdated = closing[m].outdated
         /\ closing[m].pc # "idle" => closing[m].edited \subseteq closing'[m].edited
         /\ closing[m].pc # "idle" => \A s \in Sessions :
              session'[s].day = session[s].day \/ s \in closing'[m].edited
<1>t. session \in [Sessions -> Rows] /\ closing[m] \in Closings BY DEF TypeInv, TypeOK
<1>1. CASE UNCHANGED <<session, closing>> BY <1>1
<1>2. ASSUME NEW s \in Sessions, EditContent(s) \/ CancelSession(s)
      PROVE  closing' = closing /\ \A x \in Sessions : session'[x].day = session[x].day
  <2>1. session[s] \in Rows BY <1>t
  <2>2. /\ [session[s] EXCEPT !.text = 1 - session[s].text].day = session[s].day
        /\ [session[s] EXCEPT !.active = FALSE].day = session[s].day
    BY <2>1 DEF Rows
  <2>3. session' \in {[session EXCEPT ![s] = [session[s] EXCEPT !.text = 1 - session[s].text]],
                      [session EXCEPT ![s] = [session[s] EXCEPT !.active = FALSE]]}
    BY <1>2 DEF EditContent, CancelSession
  <2> QED BY <1>2, <1>t, <2>2, <2>3 DEF EditContent, CancelSession
<1>3. ASSUME NEW s \in Sessions, NEW p \in Plans, NEW d \in Days, UpdateSession(s, p, d)
      PROVE  /\ \A x \in Sessions \ {s} : session'[x] = session[x]
             /\ closing'[m] = IF closing[m].pc = "idle" THEN closing[m]
                              ELSE [closing[m] EXCEPT !.edited = @ \cup {s}]
  BY <1>3, <1>t DEF UpdateSession
<1>4. ASSUME NEW s \in Sessions
      PROVE  LET r == [closing[m] EXCEPT !.edited = @ \cup {s}] IN
             /\ r.pc = closing[m].pc /\ r.end = closing[m].end
             /\ r.transition = closing[m].transition /\ r.outdated = closing[m].outdated
             /\ r.edited = closing[m].edited \cup {s}
  BY <1>t DEF Closings
<1>5. CASE \/ NextDay
           \/ \E v \in Variations : CreateVariation(v) \/ RetireVariation(v)
           \/ \E e \in Competitions, d \in Days : MoveCompetition(e, d)
  BY <1>1, <1>5 DEF NextDay, CreateVariation, RetireVariation, MoveCompetition
<1>6. CASE \E s \in Sessions : EditContent(s) \/ CancelSession(s) BY <1>2, <1>6
<1>7. CASE \E s \in Sessions, p \in Plans, d \in Days : UpdateSession(s, p, d)
  <2>1. PICK s \in Sessions, p \in Plans, d \in Days : UpdateSession(s, p, d) BY <1>7
  <2>2. \A x \in Sessions \ {s} : session'[x] = session[x] BY <1>3, <2>1
  <2>3. CASE closing[m].pc = "idle" BY <1>3, <2>1, <2>3
  <2>4. CASE closing[m].pc # "idle"
    <3>1. closing'[m] = [closing[m] EXCEPT !.edited = @ \cup {s}] BY <1>3, <2>1, <2>4
    <3> QED BY <1>4, <2>2, <2>4, <3>1
  <2> QED BY <2>3, <2>4
<1> QED BY <1>5, <1>6, <1>7 DEF PlanStep

LEMMA ClosingKept == TypeInv /\ TypeInv' /\ PlanInv /\ ClosingInv /\ [Next]_vars => ClosingInv'
<1> SUFFICES ASSUME TypeInv, TypeInv', PlanInv, ClosingInv, [Next]_vars, NEW m \in Members
             PROVE  /\ closing'[m].pc = "begun" => closing'[m].transition
                    /\ closing'[m].pc = "written" => ~Sharing(m)'
                    /\ closing'[m].pc # "idle" => Conflicts(m)' \/ Within(m)'
  BY DEF ClosingInv
<1> DEFINE Goal == /\ closing'[m].pc = "begun" => closing'[m].transition
                   /\ closing'[m].pc = "written" => ~Sharing(m)'
                   /\ closing'[m].pc # "idle" => Conflicts(m)' \/ Within(m)'
<1>t. TypeOK /\ closing \in [Members -> Closings] /\ closing[m] \in Closings BY DEF TypeInv
<1>i. /\ closing[m].pc = "begun" => closing[m].transition
      /\ closing[m].pc = "written" => ~Sharing(m)
      /\ closing[m].pc # "idle" => Conflicts(m) \/ Within(m)
  BY DEF ClosingInv
<1>a. ASSUME NEW p \in Plans, NEW k \in 1 .. Len(published[p]), NEW i \in published[p][k].items
      PROVE  i.session \in Sessions /\ i.member \in Members
  BY <1>t DEF TypeOK, Items
<1>1. ASSUME closing'[m] = closing[m], UNCHANGED <<session, published>> PROVE Goal
  <2>1. closing[m].pc = "written" => ~Sharing(m)'
    BY <1>i, SharesTaken
  <2>2. (Conflicts(m)' <=> Conflicts(m)) /\ (Within(m)' <=> Within(m))
    BY <1>1 DEF Conflicts, Within
  <2> QED BY <1>1, <1>i, <2>1, <2>2
<1>2. CASE PlanStep
  <2>1. UNCHANGED <<published, draft>> BY <1>2, PlanTyping
  <2>2. Sharing(m)' <=> Sharing(m) BY <2>1 DEF Sharing
  <2>3. Conflicts(m)' <=> Conflicts(m) BY <1>2, DaysChange DEF Conflicts
  <2>4. closing[m].pc # "idle" /\ Within(m) => Within(m)'
    <3> SUFFICES ASSUME closing[m].pc # "idle", Within(m),
                        NEW p \in Plans, NEW k \in 1 .. Len(published[p]),
                        NEW i \in published[p][k].items, i.member = m
                 PROVE  session'[i.session].day <= closing'[m].end \/ i.session \in closing'[m].edited
      BY <2>1 DEF Within
    <3>1. session[i.session].day <= closing[m].end \/ i.session \in closing[m].edited
      BY DEF Within
    <3> QED BY <1>2, <1>a, <3>1, DaysChange
  <2> QED BY <1>2, <1>i, <2>2, <2>3, <2>4, DaysChange
<1>3. ASSUME NEW c \in Coaches, CoachStep(c) PROVE Goal
  <2>1. CASE ~Publish(c)
    <3>1. UNCHANGED <<session, published, closing>>
      BY <1>3, <2>1 DEF CoachStep, PreviewPlan, SubmitPlan, ReadWeek, ReadRecipients,
           BuildPublication, BeginPublication, LockPlan, LockMembership, RefusePublication,
           AbandonPublication, Drop, Unpublished
    <3> QED BY <1>1, <3>1
  <2>2. CASE Publish(c) /\ (closing[m].pc = "idle" \/ m \notin Prescribed(c))
    <3>1. closing'[m] = closing[m] BY <2>2 DEF Publish
    <3>2. closing[m].pc = "written" => ~Sharing(m)' BY <1>i, SharesTaken
    <3>3. Conflicts(m)' <=> Conflicts(m) BY <3>1 DEF Conflicts
    <3>4. closing[m].pc # "idle" /\ Within(m) => Within(m)'
      <4> SUFFICES ASSUME closing[m].pc # "idle", Within(m),
                          NEW p \in Plans, NEW k \in 1 .. Len(published'[p]),
                          NEW i \in published'[p][k].items, i.member = m
                   PROVE  session[i.session].day <= closing[m].end \/ i.session \in closing[m].edited
        BY <2>2, <3>1 DEF Within, Publish
      <4>1. k \in 1 .. Len(published[p]) /\ i \in published[p][k].items
        <5>1. CASE published'[p] = published[p] BY <5>1
        <5>2. CASE published'[p] # published[p]
          <6> DEFINE e == [source |-> stamp[p], items |-> draft[c].items, used |-> draft[c].used]
          <6>1. published'[p] = Append(published[p], e)
            BY <2>2, <5>2 DEF Publish, TypeInv
          <6>2. published[p] \in Seq(Entries) /\ e \in Entries
            <7>1. /\ stamp[p] \in Nat /\ draft[c].items \in SUBSET Items
                  /\ draft[c].used \in Calendars
              BY <1>t DEF TypeOK, TypeInv, Drafts
            <7> QED BY <7>1 DEF TypeInv, Entries
          <6>3. /\ Len(published'[p]) = Len(published[p]) + 1 /\ Len(published[p]) \in Nat
                /\ published'[p][Len(published[p]) + 1] = e
                /\ \A j \in 1 .. Len(published[p]) : published'[p][j] = published[p][j]
            BY <6>1, <6>2, AppendProperties, LenProperties
          <6>4. k # Len(published[p]) + 1
            BY <2>2, <6>3 DEF Prescribed
          <6> QED BY <6>3, <6>4
        <5> QED BY <5>1, <5>2
      <4> QED BY <4>1 DEF Within
    <3> QED BY <1>i, <3>1, <3>2, <3>3, <3>4
  <2>3. CASE Publish(c) /\ closing[m].pc # "idle" /\ m \in Prescribed(c)
    <3>1. m \in draft[c].shares BY <2>3 DEF Publish, HoldsAll
    <3>2. closing[m].pc = "begun" /\ closing[m].transition
      BY <1>i, <1>t, <2>3, <3>1 DEF Sharing, Closings
    <3>3. closing'[m] = [closing[m] EXCEPT !.outdated = TRUE] BY <2>3 DEF Publish
    <3>4. closing'[m].pc = "begun" /\ closing'[m].transition /\ closing'[m].outdated
      BY <1>t, <3>2, <3>3 DEF Closings
    <3> QED BY <3>4 DEF Conflicts
  <2> QED BY <2>1, <2>2, <2>3
<1>4. ASSUME NEW n \in Members, ClosingStep(n) \/ \E c \in Coaches : BreakDeadlock(c, n) PROVE Goal
  <2>1. UNCHANGED <<session, published>> BY <1>4, ClosingTyping
  <2>2. CASE \E x \in Closings : x.pc = "idle" /\ Close(n, x)
    <3>1. closing'[m] = closing[m] \/ closing'[m].pc = "idle" BY <1>t, <2>2 DEF Close
    <3> QED BY <1>1, <2>1, <3>1
  <2>3. CASE UNCHANGED closing BY <1>1, <2>1, <2>3
  <2>4. ASSUME NEW end \in Int, ~CutsPublished(m, end), closing'[m].end = end
        PROVE  Within(m)'
    <3> SUFFICES ASSUME NEW p \in Plans, NEW k \in 1 .. Len(published[p]),
                        NEW i \in published[p][k].items, i.member = m
                 PROVE  session[i.session].day <= end
      BY <2>1, <2>4 DEF Within
    <3>1. session[i.session].day \in Int BY <1>a, <1>t DEF TypeOK, Rows, Days
    <3>2. ~(session[i.session].day > end) BY <2>4 DEF CutsPublished
    <3> QED BY <3>1, <3>2
  <2>5. CASE BeginTransition(n)
    <3>1. CASE m # n
      <4>1. closing'[m] = closing[m] BY <1>t, <2>5, <3>1 DEF BeginTransition, Close
      <4> QED BY <1>1, <2>1, <4>1
    <3>2. CASE m = n
      <4>1. /\ closing'[m].pc = "begun" /\ closing'[m].transition /\ closing'[m].end = today
            /\ ~CutsPublished(m, today)
        BY <1>t, <2>5, <3>2 DEF BeginTransition, Close, Open
      <4>2. today \in Int BY <1>t DEF TypeOK, Days
      <4> QED BY <2>4, <4>1, <4>2
    <3> QED BY <3>1, <3>2
  <2>6. CASE EndMembership(n)
    <3>1. CASE m # n
      <4>1. closing'[m] = closing[m] BY <1>t, <2>6, <3>1 DEF EndMembership, Close
      <4> QED BY <1>1, <2>1, <4>1
    <3>2. CASE m = n
      <4>1. /\ closing'[m].pc = "written" /\ closing'[m].end = today - 1
            /\ ~CutsPublished(m, today - 1) /\ ~Sharing(m) /\ draft' = draft
        BY <1>t, <2>6, <3>2 DEF EndMembership, Close, Open, NotClosed
      <4>2. today - 1 \in Int BY <1>t DEF TypeOK, Days
      <4>3. ~Sharing(m)' BY <4>1 DEF Sharing
      <4> QED BY <2>4, <4>1, <4>2, <4>3
    <3> QED BY <3>1, <3>2
  <2>7. CASE WriteTransition(n)
    <3>1. CASE m # n
      <4>1. closing'[m] = closing[m] BY <1>t, <2>7, <3>1 DEF WriteTransition, Close
      <4> QED BY <1>1, <2>1, <4>1
    <3>2. CASE m = n
      <4>1. /\ closing[m].pc = "begun" /\ ~Sharing(m) /\ draft' = draft
            /\ closing'[m] = [closing[m] EXCEPT !.pc = "written"]
        BY <1>t, <2>7, <3>2 DEF WriteTransition, Close, NotClosed
      <4>2. /\ closing'[m].pc = "written" /\ closing'[m].transition = closing[m].transition
            /\ closing'[m].end = closing[m].end /\ closing'[m].outdated = closing[m].outdated
            /\ closing'[m].edited = closing[m].edited
        BY <1>t, <4>1 DEF Closings
      <4>3. ~Sharing(m)' BY <4>1 DEF Sharing
      <4>4. (Conflicts(m)' <=> Conflicts(m)) /\ (Within(m)' <=> Within(m))
        BY <2>1, <4>2 DEF Conflicts, Within
      <4> QED BY <1>i, <4>1, <4>2, <4>3, <4>4
    <3> QED BY <3>1, <3>2
  <2>8. Open \in Closings /\ Open.pc = "idle" BY NoDraftTyping DEF Open
  <2> HIDE DEF Goal
  <2> QED
    BY <1>4, <2>2, <2>3, <2>5, <2>6, <2>7, <2>8 DEF ClosingStep, CommitClosing, AbortClosing,
       AbandonClosing, BreakDeadlock, Drop, Unpublished
<1>5. CASE UNCHANGED vars BY <1>1, <1>5 DEF vars
<1> QED BY <1>2, <1>3, <1>4, <1>5 DEF Next

LEMMA EndsWrites ==
  ASSUME TypeInv, [Next]_vars, NEW m \in Members, ends'[m] # ends[m]
  PROVE  CommitClosing(m)
<1>1. \E n \in Members : CommitClosing(n)
  BY PlanTyping, CoachTyping DEF Next, vars, ClosingStep, BeginTransition, WriteTransition,
     EndMembership, AbortClosing, AbandonClosing, BreakDeadlock, Drop, Unpublished, NotClosed
<1>2. PICK n \in Members : CommitClosing(n) BY <1>1
<1>3. m = n BY <1>2 DEF CommitClosing, TypeInv, TypeOK
<1> QED BY <1>2, <1>3

\* A membership is never shortened below a session published for it
\* (ClosingKeepsWhatWasPublished), by either writer.
THEOREM NothingPublishedIsCutOff == Spec => ClosingKeepsWhatWasPublished
<1>1. Init => ClosingInv BY DEF Init, ClosingInv, Open
<1>2. ASSUME TypeInv, ClosingInv, [Next]_vars, NEW m \in Members, ends'[m] < ends[m],
             NEW p \in Plans, NEW k \in 1 .. Len(published[p]), NEW i \in published[p][k].items,
             i.member = m
      PROVE  session[i.session].day <= ends'[m] \/ i.session \in closing[m].edited
  <2>1. ends[m] \in Nat /\ ends'[m] # ends[m]
    <3>1. ends[m] \in Nat BY <1>2, BoundsAssumption DEF TypeInv, TypeOK
    <3>2. CASE ends'[m] = ends[m] BY <1>2, <3>1, <3>2
    <3> QED BY <3>1, <3>2
  <2>2. CommitClosing(m) BY <1>2, <2>1, EndsWrites
  <2>3. /\ closing[m].pc = "written" /\ ~Conflicts(m) /\ ends'[m] = closing[m].end
    BY <1>2, <2>2 DEF CommitClosing, TypeInv, TypeOK
  <2>4. Within(m) BY <1>2, <2>3 DEF ClosingInv
  <2> QED BY <1>2, <2>3, <2>4 DEF Within
<1>3. TypeInv /\ ClosingInv /\ [Next]_vars =>
        [\A m \in Members : ends'[m] < ends[m] =>
           \A p \in Plans : \A k \in 1 .. Len(published[p]) : \A i \in published[p][k].items :
             i.member = m =>
               session[i.session].day <= ends'[m] \/ i.session \in closing[m].edited]_vars
  BY <1>2
<1> QED BY <1>1, <1>3, ClosingKept, Planning, PTL DEF Spec, ClosingKeepsWhatWasPublished

=============================================================================
