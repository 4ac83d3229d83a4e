---------------------- MODULE GuardianAuthority_proofs ----------------------
(***************************************************************************)
(* Theorems of GuardianAuthority, for any number of families,              *)
(* administrators, addresses and requests, any birthdays, any length of a  *)
(* period and any calendar.                                                *)
(***************************************************************************)
EXTENDS GuardianAuthority, TLAPS

Reqs == {Idle} \cup Pages \cup Decisions \cup HandoffPages \cup Logins \cup Issues

\* The step of a request says which fields it has.
LEMMA ReqKinds ==
  ASSUME NEW q \in Reqs
  PROVE  /\ q.step = "idle" => q = Idle
         /\ q.step = "relationship" <=> q \in Pages
         /\ q.step = "deciding" <=> q \in Decisions
         /\ q.step = "handoff" <=> q \in HandoffPages
         /\ q.step \in {"comparing", "session"} <=> q \in Logins
         /\ q.step = "issuing" <=> q \in Issues
BY DEF Reqs, Idle, Pages, Decisions, HandoffPages, Logins, Issues

\* A request made stale keeps everything else.
LEMMA Staled ==
  ASSUME NEW q \in Reqs, NEW R, NEW H, NEW C, Outdated(q, R, H, C)
  PROVE  /\ [q EXCEPT !.fresh = FALSE] \in Reqs
         /\ q.step # "issuing" /\ q.step # "idle"
         /\ [q EXCEPT !.fresh = FALSE].step = q.step
         /\ [q EXCEPT !.fresh = FALSE].subject = q.subject
         /\ [q EXCEPT !.fresh = FALSE].fresh = FALSE
         /\ q.step = "deciding" => [q EXCEPT !.fresh = FALSE].at = q.at
<1>1. CASE q \in Pages BY <1>1 DEF Reqs, Pages
<1>2. CASE q \in Decisions BY <1>2 DEF Reqs, Decisions
<1>3. CASE q \in HandoffPages BY <1>3 DEF Reqs, HandoffPages
<1>4. CASE q \in Logins BY <1>4 DEF Reqs, Logins
<1> QED BY <1>1, <1>2, <1>3, <1>4, ReqKinds DEF Outdated

\* What a step leaves of the requests it does not serve.
LEMMA TouchedReqs ==
  ASSUME NEW R, NEW H, NEW C, NEW D, req \in [Requests -> Reqs], NEW r \in Requests
  PROVE  LET t == Touched(R, H, C, D)[r] IN
         /\ t \in Reqs
         /\ \/ t = req[r] /\ ~Outdated(req[r], R, H, C)
            \/ t = Idle /\ req[r].step = "session"
            \/ /\ t.step = req[r].step /\ t.subject = req[r].subject /\ ~t.fresh
               /\ t.step = "deciding" => t.at = req[r].at
               /\ t.step \notin {"idle", "issuing"}
         /\ t.step = "session" => t.subject \notin D
<1>1. Touched(R, H, C, D)[r] =
        IF req[r].step = "session" /\ req[r].subject \in D THEN Idle
        ELSE IF Outdated(req[r], R, H, C) THEN [req[r] EXCEPT !.fresh = FALSE]
        ELSE req[r]
  BY DEF Touched
<1>2. CASE req[r].step = "session" /\ req[r].subject \in D
  BY <1>1, <1>2 DEF Reqs, Idle
<1>3. CASE ~(req[r].step = "session" /\ req[r].subject \in D) /\ Outdated(req[r], R, H, C)
  BY <1>1, <1>3, Staled
<1>4. CASE ~(req[r].step = "session" /\ req[r].subject \in D) /\ ~Outdated(req[r], R, H, C)
  BY <1>1, <1>4
<1> QED BY <1>2, <1>3, <1>4

\* The requests keep their type in each of the three forms a step gives them.
LEMMA TouchedTyping ==
  ASSUME NEW R, NEW H, NEW C, NEW D, req \in [Requests -> Reqs]
  PROVE  Touched(R, H, C, D) \in [Requests -> Reqs]
<1>1. DOMAIN Touched(R, H, C, D) = Requests /\
      Touched(R, H, C, D) = [r \in Requests |-> Touched(R, H, C, D)[r]]
  BY DEF Touched
<1> QED BY <1>1, TouchedReqs

LEMMA ServedTyping ==
  ASSUME NEW f \in [Requests -> Reqs], NEW r, NEW x \in Reqs
  PROVE  [f EXCEPT ![r] = x] \in [Requests -> Reqs]
OBVIOUS

LEMMA IdleTyping == Idle \in Reqs
BY DEF Reqs

-----------------------------------------------------------------------------
(* Types.  A renewal is about an expiry at most 30 days away, which is why  *)
(* the period it adds stays within the calendar.                           *)

Anchored == \A s \in Subjects : \A a \in open[s] : a <= now + Window
Clocked  == \A r \in Requests : req[r].step = "deciding" => req[r].at <= now
TypeInv  == TypeOK /\ Anchored /\ RenewalsAreForThisExpiry /\ Clocked

\* The requests after a step: typed, and none decides with a later clock.
Sound == req' \in [Requests -> Reqs] /\ \A r \in Requests : req'[r].step = "deciding" => req'[r].at <= now

LEMMA TouchedSound ==
  ASSUME TypeOK, Clocked, NEW R, NEW H, NEW C, NEW D, req' = Touched(R, H, C, D)
  PROVE  Sound
<1>1. req \in [Requests -> Reqs] BY DEF TypeOK, Reqs
<1>2. req' \in [Requests -> Reqs] BY <1>1, TouchedTyping
<1>3. ASSUME NEW r \in Requests, req'[r].step = "deciding" PROVE req'[r].at <= now
  <2>1. req'[r] = req[r] \/ (req'[r].step = req[r].step /\ req'[r].at = req[r].at)
    BY <1>1, <1>3, TouchedReqs DEF Idle
  <2> QED BY <1>3, <2>1 DEF Clocked
<1> QED BY <1>2, <1>3 DEF Sound

LEMMA ServedSound ==
  ASSUME TypeOK, Clocked, NEW R, NEW H, NEW C, NEW D, NEW q \in Requests,
         req' = [Touched(R, H, C, D) EXCEPT ![q] = Idle]
  PROVE  Sound
<1>1. req \in [Requests -> Reqs] BY DEF TypeOK, Reqs
<1>2. Touched(R, H, C, D) \in [Requests -> Reqs] BY <1>1, TouchedTyping
<1>3. req' \in [Requests -> Reqs] BY <1>2, ServedTyping, IdleTyping
<1>4. ASSUME NEW r \in Requests, req'[r].step = "deciding" PROVE req'[r].at <= now
  <2>1. r # q BY <1>2, <1>4 DEF Idle
  <2>2. req'[r] = Touched(R, H, C, D)[r] BY <1>2, <2>1
  <2>3. req'[r] = req[r] \/ (req'[r].step = req[r].step /\ req'[r].at = req[r].at)
    BY <1>1, <1>4, <2>2, TouchedReqs DEF Idle
  <2> QED BY <1>4, <2>3 DEF Clocked
<1> QED BY <1>3, <1>4 DEF Sound

LEMMA GotoSound ==
  ASSUME TypeOK, Clocked, NEW q \in Requests, NEW x \in Reqs, Goto(q, x),
         x.step = "deciding" => x.at <= now
  PROVE  Sound
<1>1. req \in [Requests -> Reqs] BY DEF TypeOK, Reqs
<1>2. req' \in [Requests -> Reqs] BY <1>1, ServedTyping DEF Goto
<1>3. ASSUME NEW r \in Requests, req'[r].step = "deciding" PROVE req'[r].at <= now
  BY <1>1, <1>3 DEF Goto, Clocked
<1> QED BY <1>2, <1>3 DEF Sound

\* Clearing a credential.
LEMMA ClearSteps ==
  ASSUME TypeOK, Clocked, NEW s \in Subjects, NEW r \in Requests, ClearCredential(s, r)
  PROVE  account' \in [Subjects -> Accounts] /\ Sound
<1>1. account[s] \in Accounts BY DEF TypeOK
<1>2. [account[s] EXCEPT !.cred = FALSE] \in Accounts BY <1>1 DEF Accounts
<1>3. account' = [account EXCEPT ![s] = [account[s] EXCEPT !.cred = FALSE]]
  BY DEF ClearCredential
<1>4. account' \in [Subjects -> Accounts] BY <1>2, <1>3 DEF TypeOK
<1>5. req' = [Touched({s}, {}, {s}, {s}) EXCEPT ![r] = Idle] BY DEF ClearCredential
<1> QED BY <1>4, <1>5, ServedSound

\* Refusals, approvals and renewals keep the relationship typed and the
\* anchors of its renewals where they were.
LEMMA VerifySteps ==
  ASSUME TypeInv, NEW r \in Requests, NEW until \in Moments, MayDecide(r), Verify(r, until)
  PROVE  /\ rel' \in [Subjects -> Relationships] /\ account' \in [Subjects -> Accounts]
         /\ wary' \in [Subjects -> SUBSET Admins] /\ Sound
         /\ req[r].subject \in Subjects
         /\ \A s \in Subjects \ {req[r].subject} : rel'[s] = rel[s]
<1> DEFINE s == req[r].subject
<1> USE DEF TypeInv
<1>1. req[r] \in Decisions BY ReqKinds DEF MayDecide, TypeOK, Reqs
<1>2. s \in Subjects BY <1>1 DEF Decisions
<1>3. rel' \in [Subjects -> Relationships] /\ \A x \in Subjects \ {s} : rel'[x] = rel[x]
  BY <1>2 DEF TypeOK, Verify, Relationships, States
<1>4. wary' \in [Subjects -> SUBSET Admins] BY <1>2 DEF TypeOK, Verify
<1> HIDE DEF s
<1>5. CASE rel[s].state = "VERIFIED"
  <2>1. req' = [Touched({s}, {}, {}, {}) EXCEPT ![r] = Idle] /\ account' = account
    BY <1>5 DEF Verify, s
  <2>2. Sound BY <2>1, ServedSound
  <2> QED BY <1>2, <1>3, <1>4, <2>1, <2>2 DEF TypeOK, s
<1>6. CASE rel[s].state # "VERIFIED"
  <2>1. ClearCredential(s, r) BY <1>6 DEF Verify, s
  <2> QED BY <1>2, <1>3, <1>4, <2>1, ClearSteps DEF s
<1> QED BY <1>5, <1>6

LEMMA RefuseSteps ==
  ASSUME TypeInv, NEW r \in Requests, NEW states, NEW state \in States,
         NEW conflict \in Admins \cup {Nobody}, Refuse(r, states, state, conflict)
  PROVE  TypeInv'
<1> DEFINE s == req[r].subject
<1> USE DEF TypeInv
<1>1. req[r] \in Decisions BY ReqKinds DEF Refuse, MayDecide, TypeOK, Reqs
<1>2. s \in Subjects BY <1>1 DEF Decisions
<1>3. /\ rel' \in [Subjects -> Relationships]
      /\ \A x \in Subjects : rel'[x].until = rel[x].until
  BY <1>2 DEF TypeOK, Refuse, Relationships
<1>4. wary' \in [Subjects -> SUBSET Admins] BY <1>2 DEF TypeOK, Refuse
<1>5. ClearCredential(s, r) BY DEF Refuse
<1>6. account' \in [Subjects -> Accounts] /\ Sound BY <1>2, <1>5, ClearSteps
<1>7. open' \in [Subjects -> SUBSET Moments] /\ \A x \in Subjects : open'[x] \subseteq open[x]
  BY <1>2 DEF TypeOK, Refuse
<1>8. TypeOK' BY <1>3, <1>4, <1>5, <1>6, <1>7 DEF TypeOK, Refuse, world, Sound, Reqs
<1>9. Anchored' /\ RenewalsAreForThisExpiry'
  BY <1>3, <1>7 DEF Anchored, RenewalsAreForThisExpiry, Refuse, world
<1>10. Clocked' BY <1>6 DEF Sound, Clocked, Refuse, world
<1> QED BY <1>8, <1>9, <1>10

\* The reconciler and the release that closes the policy.
LEMMA CutoffSteps ==
  ASSUME TypeInv, NEW p \in BOOLEAN, NEW all \in BOOLEAN, Cutoffs(p, all)
  PROVE  /\ rel' \in [Subjects -> Relationships] /\ handoff' \in [Subjects -> Handoffs]
         /\ account' \in [Subjects -> Accounts] /\ Sound
         /\ \A s \in Subjects : rel'[s].until = rel[s].until
<1> USE DEF TypeInv
<1>1. ASSUME NEW s \in Subjects
      PROVE  /\ [rel[s] EXCEPT !.state = "EXPIRED", !.conflict = Nobody] \in Relationships
             /\ [rel[s] EXCEPT !.state = "EXPIRED", !.conflict = Nobody].until = rel[s].until
  BY DEF TypeOK, Relationships, States
<1>2. ASSUME NEW s \in Subjects
      PROVE  Begun(s, p) \in Handoffs /\ [Begun(s, p) EXCEPT !.status = NextStatus(s)] \in Handoffs
  <2>1. handoff[s] \in Handoffs BY DEF TypeOK
  <2>2. Begun(s, p) \in Handoffs BY <2>1 DEF Begun, Handoffs, Stages
  <2>3. NextStatus(s) \in Stages BY DEF NextStatus, Stages
  <2> QED BY <2>2, <2>3 DEF Handoffs
<1>3. ASSUME NEW s \in Subjects
      PROVE  [account[s] EXCEPT !.cred = FALSE] \in Accounts /\ Settled(s, p) \in Accounts
  <2>1. account[s] \in Accounts /\ handoff[s].email \in Emails \cup {NoEmail}
    BY DEF TypeOK, Handoffs
  <2> QED BY <2>1 DEF Settled, Accounts
<1>4. rel' \in [Subjects -> Relationships] /\ \A s \in Subjects : rel'[s].until = rel[s].until
  <2>1. rel' = [s \in Subjects |->
          IF Handed(s, p) \/ CutOff(s, p)
          THEN [rel[s] EXCEPT !.state = "EXPIRED", !.conflict = Nobody] ELSE rel[s]]
    BY DEF Cutoffs
  <2> QED BY <1>1, <2>1 DEF TypeOK
<1>5. handoff' \in [Subjects -> Handoffs]
  <2>1. handoff' = [s \in Subjects |->
          IF Reaches(s, p) THEN [Begun(s, p) EXCEPT !.status = NextStatus(s)] ELSE Begun(s, p)]
    BY DEF Cutoffs
  <2> QED BY <1>2, <2>1
<1>6. account' \in [Subjects -> Accounts]
  <2>1. PICK Cleared : account' = [s \in Subjects |->
          IF s \in Cleared THEN [account[s] EXCEPT !.cred = FALSE] ELSE Settled(s, p)]
    BY DEF Cutoffs
  <2> QED BY <1>3, <2>1
<1>7. Sound
  <2>1. PICK R, H, C, D : req' = Touched(R, H, C, D) BY DEF Cutoffs
  <2> QED BY <2>1, TouchedSound
<1> QED BY <1>4, <1>5, <1>6, <1>7

\* One field of one row is written.
LEMMA RowWrites ==
  ASSUME TypeOK, NEW s \in Subjects
  PROVE  /\ \A x \in States :
              /\ [rel EXCEPT ![s].state = x] = [rel EXCEPT ![s] = [rel[s] EXCEPT !.state = x]]
              /\ [rel[s] EXCEPT !.state = x] \in Relationships
              /\ [rel[s] EXCEPT !.state = x].until = rel[s].until
         /\ \A x \in BOOLEAN :
              /\ [account EXCEPT ![s].cred = x] = [account EXCEPT ![s] = [account[s] EXCEPT !.cred = x]]
              /\ [account[s] EXCEPT !.cred = x] \in Accounts
<1>1. rel[s] \in Relationships /\ account[s] \in Accounts BY DEF TypeOK
<1> QED BY <1>1 DEF Relationships, Accounts

\* A step that leaves relationships, renewals and the clock alone.
LEMMA TypeInvKept ==
  ASSUME TypeInv, TypeOK', Sound, UNCHANGED <<now, rel, open>>
  PROVE  TypeInv'
BY DEF TypeInv, Anchored, RenewalsAreForThisExpiry, Clocked, Sound

\* Every step of the specification keeps the types and the anchors.
LEMMA TypingStep == TypeInv /\ [Next]_vars => TypeInv'
<1> SUFFICES ASSUME TypeInv, [Next]_vars PROVE TypeInv'
  OBVIOUS
<1> USE ConstantsAssumption
<1>t. TypeOK /\ Clocked /\ req \in [Requests -> Reqs] BY DEF TypeInv, TypeOK, Reqs
<1>i. Idle \in Reqs /\ Idle.step = "idle" BY DEF Reqs, Idle
<1>1. CASE UNCHANGED vars
  BY <1>1 DEF vars, world, TypeInv, TypeOK, Anchored, RenewalsAreForThisExpiry, Clocked
<1>2. ASSUME NEW s \in Subjects, CreateDependent(s) PROVE TypeInv'
  <2>1. rel' \in [Subjects -> Relationships] /\ \A x \in Subjects : rel'[x].until = rel[x].until
    <3>1. rel' = [rel EXCEPT ![s] = [rel[s] EXCEPT !.state = "PENDING"]]
      BY <1>2, <1>t, RowWrites DEF CreateDependent, States
    <3>2. /\ [rel[s] EXCEPT !.state = "PENDING"] \in Relationships
          /\ [rel[s] EXCEPT !.state = "PENDING"].until = rel[s].until
      BY <1>t, RowWrites DEF States
    <3> QED BY <3>1, <3>2, <1>t DEF TypeOK
  <2>2. TypeOK' BY <1>2, <1>t, <2>1 DEF CreateDependent, TypeOK, world
  <2> QED BY <1>2, <2>1, <2>2
       DEF CreateDependent, TypeInv, Anchored, RenewalsAreForThisExpiry, Clocked, world
<1>3. ASSUME NEW s \in Subjects, VerifyEmail(s) PROVE TypeInv'
  <2>1. Sound BY <1>3, <1>t, TouchedSound DEF VerifyEmail
  <2>2. handoff' \in [Subjects -> Handoffs]
    <3>1. handoff[s] \in Handoffs BY <1>t DEF TypeOK
    <3>2. \A x \in Stages : [handoff[s] EXCEPT !.verified = TRUE, !.status = x] \in Handoffs
      BY <3>1 DEF Handoffs
    <3>3. PICK x \in Stages : handoff' = [handoff EXCEPT ![s] =
                                [handoff[s] EXCEPT !.verified = TRUE, !.status = x]]
      BY <1>3 DEF VerifyEmail, Stages
    <3> QED BY <3>2, <3>3, <1>t DEF TypeOK
  <2>3. TypeOK' BY <1>3, <1>t, <2>1, <2>2 DEF VerifyEmail, TypeOK, Sound, Reqs, world
  <2> QED BY <1>3, <2>1, <2>3, TypeInvKept DEF VerifyEmail, world
<1>4. ASSUME NEW s \in Subjects, EligibilityEnds(s) \/ TokenLapses(s) PROVE TypeInv'
  <2>1. TypeOK'
    <3>1. CASE EligibilityEnds(s) BY <3>1, <1>t DEF EligibilityEnds, TypeOK
    <3>2. CASE TokenLapses(s) BY <3>2, <1>t DEF TokenLapses, TypeOK, world
    <3> QED BY <1>4, <3>1, <3>2
  <2>2. UNCHANGED <<now, rel, open, req>> BY <1>4 DEF EligibilityEnds, TokenLapses, world
  <2> QED BY <2>1, <2>2 DEF TypeInv, Anchored, RenewalsAreForThisExpiry, Clocked
<1>5. ASSUME NEW r \in Requests, NEW s \in Subjects, NEW actor \in Admins \cup {"guardian"},
             OpenRelationship(r, s, actor)
      PROVE  TypeInv'
  <2>1. [step |-> "relationship", subject |-> s, by |-> actor, shown |-> rel[s], fresh |-> TRUE]
          \in Reqs
    BY <1>t DEF TypeOK, Reqs, Pages
  <2>2. Sound BY <1>5, <1>t, <2>1, GotoSound DEF OpenRelationship
  <2>3. TypeOK' BY <1>5, <1>t, <2>2 DEF OpenRelationship, TypeOK, Sound, Reqs, world
  <2> QED BY <1>5, <2>2, <2>3, TypeInvKept DEF OpenRelationship, world
<1>6. ASSUME NEW r \in Requests, NEW s \in Subjects, NEW actor \in Admins \cup {"young"},
             OpenHandoff(r, s, actor)
      PROVE  TypeInv'
  <2>1. [step |-> "handoff", subject |-> s, by |-> actor, shown |-> handoff[s], fresh |-> TRUE]
          \in Reqs
    BY <1>t DEF TypeOK, Reqs, HandoffPages
  <2>2. Sound BY <1>6, <1>t, <2>1, GotoSound DEF OpenHandoff
  <2>3. TypeOK' BY <1>6, <1>t, <2>2 DEF OpenHandoff, TypeOK, Sound, Reqs, world
  <2> QED BY <1>6, <2>2, <2>3, TypeInvKept DEF OpenHandoff, world
<1>7. ASSUME NEW r \in Requests, NEW s \in Subjects, IssueBegins(r, s) \/ LookUp(r, s)
      PROVE  TypeInv'
  <2>1. /\ [step |-> "issuing", subject |-> s] \in Reqs
        /\ [step |-> "comparing", subject |-> s, fresh |-> TRUE] \in Reqs
    BY DEF Reqs, Issues, Logins
  <2>2. Sound BY <1>7, <1>t, <2>1, GotoSound DEF IssueBegins, LookUp
  <2>3. TypeOK' BY <1>7, <1>t, <2>2 DEF IssueBegins, LookUp, TypeOK, Sound, Reqs, world
  <2> QED BY <1>7, <2>2, <2>3, TypeInvKept DEF IssueBegins, LookUp, world
<1>8. ASSUME NEW r \in Requests, AdminTransition(r) PROVE TypeInv'
  <2> DEFINE d == [step |-> "deciding", subject |-> req[r].subject, by |-> req[r].by,
                   shown |-> req[r].shown, fresh |-> req[r].fresh, at |-> now]
  <2>1. req[r] \in Pages /\ req[r].by # "guardian" BY <1>8, <1>t, ReqKinds DEF AdminTransition
  <2>2. d \in Reqs BY <2>1, <1>t DEF TypeOK, Reqs, Pages, Decisions
  <2>3. d.at <= now BY <1>t DEF TypeOK
  <2>4. Goto(r, d) BY <1>8 DEF AdminTransition
  <2> HIDE DEF d
  <2>5. Sound BY <1>t, <2>2, <2>3, <2>4, GotoSound
  <2>6. TypeOK' BY <1>8, <1>t, <2>5 DEF AdminTransition, TypeOK, Sound, Reqs, world
  <2> QED BY <1>8, <2>5, <2>6, TypeInvKept DEF AdminTransition, world
<1>9. ASSUME NEW r \in Requests, Approve(r) PROVE TypeInv'
  <2> DEFINE s == req[r].subject
             until == req[r].at + Year
  <2>1. req[r] \in Decisions BY <1>9, <1>t, ReqKinds DEF Approve, MayDecide
  <2>2. until \in Moments BY <2>1 DEF Decisions, Moments
  <2>3. MayDecide(r) /\ Verify(r, until) /\ open[s] = {} /\ open' = open /\ now' = now
    BY <1>9 DEF Approve, MayApprove, world
  <2>4. /\ rel' \in [Subjects -> Relationships] /\ account' \in [Subjects -> Accounts]
        /\ wary' \in [Subjects -> SUBSET Admins] /\ Sound
        /\ \A x \in Subjects \ {s} : rel'[x] = rel[x]
    BY <2>2, <2>3, VerifySteps
  <2>5. TypeOK' BY <1>9, <1>t, <2>4 DEF Approve, TypeOK, Sound, Reqs, world
  <2> QED BY <2>3, <2>4, <2>5 DEF TypeInv, Anchored, RenewalsAreForThisExpiry, Clocked, Sound
<1>10. ASSUME NEW r \in Requests, Renew(r) PROVE TypeInv'
  <2> DEFINE s == req[r].subject
  <2>1. req[r] \in Decisions BY <1>10, <1>t, ReqKinds DEF Renew, MayDecide
  <2>2. PICK a \in Latest(s) : Verify(r, a + Year) /\ open' = [open EXCEPT ![s] = @ \ {a}]
    BY <1>10 DEF Renew
  <2>3. s \in Subjects /\ a \in open[s] BY <2>1, <2>2 DEF Decisions, Latest
  <2>4. a + Year \in Moments
    BY <1>t, <2>3 DEF TypeInv, Anchored, TypeOK, Moments
  <2>5. /\ rel' \in [Subjects -> Relationships] /\ account' \in [Subjects -> Accounts]
        /\ wary' \in [Subjects -> SUBSET Admins] /\ Sound
        /\ \A x \in Subjects \ {s} : rel'[x] = rel[x]
    BY <1>10, <2>2, <2>4, VerifySteps DEF Renew
  <2>6. open' \in [Subjects -> SUBSET Moments] /\ now' = now
    BY <1>10, <1>t, <2>2, <2>3 DEF TypeOK, Renew, world
  <2>7. open'[s] = {} /\ \A x \in Subjects \ {s} : open'[x] = open[x]
    BY <1>t, <2>2, <2>3 DEF TypeInv, RenewalsAreForThisExpiry, TypeOK
  <2>8. TypeOK' BY <1>10, <1>t, <2>5, <2>6 DEF Renew, TypeOK, Sound, Reqs, world
  <2> QED BY <2>5, <2>6, <2>7, <2>8 DEF TypeInv, Anchored, RenewalsAreForThisExpiry, Clocked, Sound
<1>11. ASSUME NEW r \in Requests, Reject(r) \/ Suspend(r) \/ End(r) PROVE TypeInv'
  <2>1. CASE Reject(r) BY <2>1, RefuseSteps DEF Reject, States
  <2>2. CASE End(r) BY <2>2, RefuseSteps DEF End, States
  <2>3. CASE Suspend(r)
    <3>1. req[r].by \in Admins
      BY <2>3, <1>t, ReqKinds DEF Suspend, MayDecide, Decisions
    <3>2. PICK c \in Admins \cup {Nobody} : Refuse(r, {"PENDING", "VERIFIED"}, "SUSPENDED", c)
      BY <2>3, <3>1 DEF Suspend
    <3> QED BY <3>2, RefuseSteps DEF States
  <2> QED BY <1>11, <2>1, <2>2, <2>3
<1>12. ASSUME NEW r \in Requests, NEW changed \in BOOLEAN, SubmitRenewal(r, changed)
       PROVE  TypeInv'
  <2> DEFINE s == req[r].subject
  <2>1. s \in Subjects BY <1>12, <1>t, ReqKinds DEF SubmitRenewal, Pages
  <2>2. rel[s].until \in Moments /\ rel[s].until <= now + Window
    BY <1>12, <1>t, <2>1 DEF SubmitRenewal, RenewalDue, TypeOK, Relationships
  <2>3. /\ asked' \in [Subjects -> SUBSET Moments] /\ open' \in [Subjects -> SUBSET Moments]
        /\ \A x \in Subjects : open'[x] \subseteq open[x] \cup {rel[x].until}
        /\ \A x \in Subjects : x # s => open'[x] = open[x]
    BY <1>12, <1>t, <2>1, <2>2 DEF SubmitRenewal, TypeOK
  <2>4. rel' \in [Subjects -> Relationships] /\ \A x \in Subjects : rel'[x].until = rel[x].until
    <3>1. PICK x \in States : rel' = [rel EXCEPT ![s].state = x]
      <4>1. rel[s].state \in States BY <1>t, <2>1 DEF TypeOK, Relationships
      <4> QED BY <1>12, <4>1 DEF SubmitRenewal, States
    <3>2. rel' = [rel EXCEPT ![s] = [rel[s] EXCEPT !.state = x]]
      BY <1>t, <2>1, <3>1, RowWrites
    <3>3. /\ [rel[s] EXCEPT !.state = x] \in Relationships
          /\ [rel[s] EXCEPT !.state = x].until = rel[s].until
      BY <1>t, <2>1, RowWrites
    <3> QED BY <3>2, <3>3, <1>t DEF TypeOK
  <2>5. account' \in [Subjects -> Accounts] /\ Sound
    <3>1. CASE changed
      <4>1. ClearCredential(s, r) BY <1>12, <3>1 DEF SubmitRenewal
      <4> QED BY <1>t, <2>1, <4>1, ClearSteps
    <3>2. CASE ~changed
      <4>1. account' = account /\ req' = [Touched({s}, {}, {}, {}) EXCEPT ![r] = Idle]
        BY <1>12, <3>2 DEF SubmitRenewal
      <4>2. Sound BY <1>t, <4>1, ServedSound
      <4> QED BY <1>t, <4>1, <4>2 DEF TypeOK
    <3> QED BY <3>1, <3>2
  <2>6. TypeOK' BY <1>12, <1>t, <2>3, <2>4, <2>5 DEF SubmitRenewal, TypeOK, Sound, Reqs, world
  <2>7. now' = now BY <1>12 DEF SubmitRenewal, world
  <2> QED BY <2>2, <2>3, <2>4, <2>5, <2>6, <2>7
       DEF TypeInv, Anchored, RenewalsAreForThisExpiry, Clocked, Sound
<1>13. ASSUME NEW r \in Requests, IssueMinorCredential(r) PROVE TypeInv'
  <2>1. req[r].subject \in Subjects BY <1>13, <1>t, ReqKinds DEF IssueMinorCredential, Issues
  <2>2. account' \in [Subjects -> Accounts]
    <3> DEFINE s == req[r].subject
    <3>1. account' = [account EXCEPT ![s] = [account[s] EXCEPT !.cred = TRUE]]
      BY <1>13, <1>t, <2>1, RowWrites DEF IssueMinorCredential
    <3>2. [account[s] EXCEPT !.cred = TRUE] \in Accounts BY <1>t, <2>1, RowWrites
    <3> QED BY <3>1, <3>2, <1>t DEF TypeOK
  <2>3. Sound BY <1>13, <1>t, ServedSound DEF IssueMinorCredential
  <2>4. TypeOK' BY <1>13, <1>t, <2>2, <2>3 DEF IssueMinorCredential, TypeOK, Sound, Reqs, world
  <2> QED BY <1>13, <2>3, <2>4, TypeInvKept DEF IssueMinorCredential, world
<1>14. ASSUME NEW r \in Requests, OpenSession(r) PROVE TypeInv'
  <2>1. req[r] \in Logins BY <1>14, <1>t, ReqKinds DEF OpenSession
  <2>2. [req[r] EXCEPT !.step = "session"] \in Reqs /\ [req[r] EXCEPT !.step = "session"].step = "session"
    BY <2>1 DEF Reqs, Logins
  <2>3. Sound BY <1>14, <1>t, <2>2, GotoSound DEF OpenSession
  <2>4. TypeOK' BY <1>14, <1>t, <2>3 DEF OpenSession, TypeOK, Sound, Reqs, world
  <2> QED BY <1>14, <2>3, <2>4, TypeInvKept DEF OpenSession, world
<1>15. ASSUME NEW r \in Requests, NEW e \in Emails, ProposeEmail(r, e) \/ RecoveryEmail(r, e)
       PROVE  TypeInv'
  <2>1. Offer(r, e) BY <1>15 DEF ProposeEmail, RecoveryEmail
  <2>2. req[r].subject \in Subjects BY <2>1, <1>t, ReqKinds DEF Offer, HandoffPages
  <2>3. handoff' \in [Subjects -> Handoffs]
    <3> DEFINE s == req[r].subject
    <3>1. handoff[s] \in Handoffs BY <1>t, <2>2 DEF TypeOK
    <3>2. Proposed(handoff[s], e) \in Handoffs BY <3>1 DEF Proposed, Handoffs, Stages
    <3>3. handoff' = [handoff EXCEPT ![s] = Proposed(handoff[s], e)] BY <2>1 DEF Offer
    <3> QED BY <3>2, <3>3, <1>t DEF TypeOK
  <2>4. Sound BY <2>1, <1>t, ServedSound DEF Offer
  <2>5. TypeOK' BY <2>1, <2>2, <1>t, <2>3, <2>4 DEF Offer, TypeOK, Sound, Reqs, world
  <2> QED BY <2>1, <2>4, <2>5, TypeInvKept DEF Offer, world
<1>16. ASSUME NEW r \in Requests, ConfirmIdentity(r) PROVE TypeInv'
  <2>1. req[r].subject \in Subjects BY <1>16, <1>t, ReqKinds DEF ConfirmIdentity, HandoffPages
  <2>2. handoff' \in [Subjects -> Handoffs]
    <3> DEFINE s == req[r].subject
    <3>1. handoff[s] \in Handoffs BY <1>t, <2>1 DEF TypeOK
    <3>2. \A x \in Stages : [handoff[s] EXCEPT !.identity = TRUE, !.status = x] \in Handoffs
      BY <3>1 DEF Handoffs
    <3>3. PICK x \in Stages : handoff' = [handoff EXCEPT ![s] =
                                [handoff[s] EXCEPT !.identity = TRUE, !.status = x]]
      BY <1>16, <3>1 DEF ConfirmIdentity, Stages, Handoffs
    <3> QED BY <3>2, <3>3, <1>t DEF TypeOK
  <2>3. Sound BY <1>16, <1>t, ServedSound DEF ConfirmIdentity
  <2>4. TypeOK' BY <1>16, <1>t, <2>2, <2>3 DEF ConfirmIdentity, TypeOK, Sound, Reqs, world
  <2> QED BY <1>16, <2>3, <2>4, TypeInvKept DEF ConfirmIdentity, world
<1>17. ASSUME NEW r \in Requests, Abort(r) PROVE TypeInv'
  <2>1. Sound BY <1>17, <1>t, <1>i, GotoSound DEF Abort
  <2>2. TypeOK' BY <1>17, <1>t, <2>1 DEF Abort, TypeOK, Sound, Reqs, world
  <2> QED BY <1>17, <2>1, <2>2, TypeInvKept DEF Abort, world
<1>18. CASE Reconcile \/ Disable
  <2>1. PICK p \in BOOLEAN, all \in BOOLEAN : Cutoffs(p, all)
    BY <1>18, <1>t DEF Reconcile, Disable, TypeOK
  <2>2. /\ rel' \in [Subjects -> Relationships] /\ handoff' \in [Subjects -> Handoffs]
        /\ account' \in [Subjects -> Accounts] /\ Sound
        /\ \A s \in Subjects : rel'[s].until = rel[s].until
    BY <2>1, CutoffSteps
  <2>3. TypeOK' BY <1>18, <1>t, <2>2 DEF Reconcile, Disable, TypeOK, Sound, Reqs, world
  <2>4. now' = now /\ open' = open BY <1>18 DEF Reconcile, Disable, world
  <2> QED BY <2>2, <2>3, <2>4 DEF TypeInv, Anchored, RenewalsAreForThisExpiry, Clocked, Sound
<1>19. CASE Enable \/ \E e \in Emails : EmailTaken(e)
  BY <1>19, <1>t DEF Enable, EmailTaken, TypeOK, world, TypeInv, Anchored,
       RenewalsAreForThisExpiry, Clocked
<1>20. CASE Tick
  <2>1. TypeOK' /\ now' = now + 1 /\ UNCHANGED <<rel, open, req>>
    BY <1>20, <1>t DEF Tick, TypeOK
  <2>2. Clocked'
    <3>1. ASSUME NEW r \in Requests, req[r].step = "deciding" PROVE req[r].at \in Nat
      BY <3>1, <1>t, ReqKinds DEF Decisions
    <3> QED BY <2>1, <3>1, <1>t DEF Clocked, TypeOK
  <2>3. Anchored'
    BY <2>1, <1>t DEF TypeInv, Anchored, TypeOK, Moments
  <2> QED BY <2>1, <2>2, <2>3 DEF TypeInv, RenewalsAreForThisExpiry
<1> QED BY <1>1, <1>2, <1>3, <1>4, <1>5, <1>6, <1>7, <1>8, <1>9, <1>10, <1>11, <1>12,
          <1>13, <1>14, <1>15, <1>16, <1>17, <1>18, <1>19, <1>20 DEF Next

\* The types of all variables (TypeOK).
THEOREM Typing == Spec => []TypeOK
<1>1. Init => TypeInv
  BY ConstantsAssumption DEF Init, TypeInv, TypeOK, Anchored, RenewalsAreForThisExpiry,
     Clocked, Relationships, Moments, States, Accounts, Handoffs, Stages, Idle
<1>2. TypeInv => TypeOK BY DEF TypeInv
<1> QED BY <1>1, <1>2, TypingStep, PTL DEF Spec

\* Types and anchors, for the theorems below.
LEMMA TypingAndAnchors == Spec => []TypeInv
<1>1. Init => TypeInv
  BY ConstantsAssumption DEF Init, TypeInv, TypeOK, Anchored, RenewalsAreForThisExpiry,
     Clocked, Relationships, Moments, States, Accounts, Handoffs, Stages, Idle
<1> QED BY <1>1, TypingStep, PTL DEF Spec

-----------------------------------------------------------------------------
(* Renewals and the end of authority.                                      *)

\* The open renewal is about the expiry the relationship still has
\* (RenewalsAreForThisExpiry).
THEOREM RenewalsMatchTheExpiry == Spec => []RenewalsAreForThisExpiry
<1>1. TypeInv => RenewalsAreForThisExpiry BY DEF TypeInv
<1> QED BY <1>1, TypingAndAnchors, PTL

\* Only an approval or a renewal moves the end of authority.
LEMMA OnlyDecisionsExtend ==
  ASSUME TypeInv, [Next]_vars, NEW s \in Subjects, rel'[s].until # rel[s].until
  PROVE  /\ now' = now
         /\ \E r \in Requests, until \in Moments :
              /\ MayDecide(r) /\ Verify(r, until) /\ req[r].subject = s
              /\ \/ MayApprove(s) /\ until = req[r].at + Year
                 \/ \E a \in open[s] : until = a + Year
<1> USE ConstantsAssumption
<1>t. TypeOK /\ Clocked /\ req \in [Requests -> Reqs] BY DEF TypeInv, TypeOK, Reqs
<1>n. rel' # rel OBVIOUS
<1>1. ASSUME NEW x \in Subjects, CreateDependent(x) PROVE FALSE
  <2>1. rel' = [rel EXCEPT ![x] = [rel[x] EXCEPT !.state = "PENDING"]]
    BY <1>1, <1>t, RowWrites DEF CreateDependent, States
  <2>2. [rel[x] EXCEPT !.state = "PENDING"].until = rel[x].until BY <1>t, RowWrites DEF States
  <2> QED BY <2>1, <2>2, <1>t DEF TypeOK
<1>2. ASSUME NEW r \in Requests, NEW changed \in BOOLEAN, SubmitRenewal(r, changed) PROVE FALSE
  <2> DEFINE z == req[r].subject
  <2>1. z \in Subjects BY <1>2, <1>t, ReqKinds DEF SubmitRenewal, Pages
  <2>2. PICK x \in States : rel' = [rel EXCEPT ![z].state = x]
    <3>1. rel[z].state \in States BY <1>t, <2>1 DEF TypeOK, Relationships
    <3> QED BY <1>2, <3>1 DEF SubmitRenewal, States
  <2>3. rel' = [rel EXCEPT ![z] = [rel[z] EXCEPT !.state = x]] BY <1>t, <2>1, <2>2, RowWrites
  <2>4. [rel[z] EXCEPT !.state = x].until = rel[z].until BY <1>t, <2>1, RowWrites
  <2> QED BY <2>3, <2>4, <1>t DEF TypeOK
<1>3. ASSUME NEW r \in Requests, Reject(r) \/ Suspend(r) \/ End(r) PROVE FALSE
  <2> DEFINE z == req[r].subject
  <2>1. PICK x, c : rel' = [rel EXCEPT ![z] = [@ EXCEPT !.state = x, !.conflict = c]]
    BY <1>3 DEF Reject, Suspend, End, Refuse
  <2>2. rel[s] \in Relationships BY <1>t DEF TypeOK
  <2>3. rel'[s] = rel[s] \/ rel'[s] = [rel[s] EXCEPT !.state = x, !.conflict = c]
    BY <2>1, <1>t DEF TypeOK
  <2> QED BY <2>2, <2>3 DEF Relationships
<1>4. CASE Reconcile \/ Disable
  <2>1. PICK p \in BOOLEAN, all \in BOOLEAN : Cutoffs(p, all)
    BY <1>4, <1>t DEF Reconcile, Disable, TypeOK
  <2> QED BY <2>1, CutoffSteps
<1>5. ASSUME NEW r \in Requests, Approve(r)
      PROVE  /\ now' = now /\ MayDecide(r) /\ MayApprove(s)
             /\ req[r].subject = s /\ req[r].at + Year \in Moments /\ Verify(r, req[r].at + Year)
  <2>1. req[r] \in Decisions BY <1>5, <1>t, ReqKinds DEF Approve, MayDecide
  <2>2. req[r].at + Year \in Moments BY <2>1 DEF Decisions, Moments
  <2>3. MayDecide(r) /\ Verify(r, req[r].at + Year) /\ now' = now BY <1>5 DEF Approve, world
  <2>4. req[r].subject = s BY <2>2, <2>3, VerifySteps
  <2> QED BY <1>5, <2>2, <2>3, <2>4 DEF Approve
<1>6. ASSUME NEW r \in Requests, Renew(r)
      PROVE  /\ now' = now /\ MayDecide(r) /\ req[r].subject = s
             /\ \E a \in open[s] : a + Year \in Moments /\ Verify(r, a + Year)
  <2> DEFINE z == req[r].subject
  <2>1. PICK a \in Latest(z) : Verify(r, a + Year) BY <1>6 DEF Renew
  <2>2. z \in Subjects /\ a \in open[z]
    BY <1>6, <1>t, <2>1, ReqKinds DEF Renew, MayDecide, Decisions, Latest
  <2>3. a + Year \in Moments BY <1>t, <2>2 DEF TypeInv, Anchored, TypeOK, Moments
  <2>4. MayDecide(r) /\ now' = now BY <1>6 DEF Renew, world
  <2>5. z = s BY <2>1, <2>3, <2>4, VerifySteps
  <2> QED BY <2>1, <2>2, <2>3, <2>4, <2>5
<1> QED BY <1>n, <1>1, <1>2, <1>3, <1>4, <1>5, <1>6
     DEF Next, vars, VerifyEmail, EligibilityEnds, TokenLapses, OpenRelationship,
         OpenHandoff, IssueBegins, LookUp, AdminTransition, IssueMinorCredential, OpenSession,
         ProposeEmail, RecoveryEmail, Offer, ConfirmIdentity, Abort, Enable, Tick, EmailTaken

\* Authority never reaches further than a period and the 30 days of an early
\* renewal, and never into what was past when it was decided (AuthorityIsBounded).
THEOREM BoundedAuthority == Spec => AuthorityIsBounded
<1>1. ASSUME TypeInv, [Next]_vars
      PROVE  [\A s \in Subjects :
               rel'[s].until # rel[s].until =>
                 /\ rel'[s].until <= now + Year + Window
                 /\ \E r \in Requests : req[r].step = "deciding" /\ req[r].at < rel'[s].until]_vars
  <2>1. SUFFICES ASSUME NEW s \in Subjects, rel'[s].until # rel[s].until
                 PROVE  /\ rel'[s].until <= now + Year + Window
                        /\ \E r \in Requests : req[r].step = "deciding" /\ req[r].at < rel'[s].until
    OBVIOUS
  <2>2. PICK r \in Requests, until \in Moments :
               /\ MayDecide(r) /\ Verify(r, until) /\ req[r].subject = s
               /\ \/ MayApprove(s) /\ until = req[r].at + Year
                  \/ \E a \in open[s] : until = a + Year
    BY <1>1, <2>1, OnlyDecisionsExtend
  <2>3. rel'[s].until = until /\ req[r].at < until /\ req[r].step = "deciding"
    BY <1>1, <2>2 DEF Verify, MayDecide, TypeInv, TypeOK
  <2>4. until <= now + Year + Window
    <3>1. now \in Nat /\ req[r].at \in Nat /\ req[r].at <= now
      BY <1>1, <2>3, ReqKinds DEF TypeInv, TypeOK, Clocked, Decisions, Reqs
    <3>2. \A a \in open[s] : a \in Nat /\ a <= now + Window
      BY <1>1, ConstantsAssumption DEF TypeInv, TypeOK, Anchored, Moments
    <3> QED BY <2>2, <3>1, <3>2, ConstantsAssumption DEF Moments
  <2> QED BY <2>3, <2>4
<1> QED BY <1>1, TypingAndAnchors, PTL DEF Spec, AuthorityIsBounded

-----------------------------------------------------------------------------
(* The policy.                                                             *)

\* No authority is in force while the policy is closed
\* (NoAuthorityWithoutPolicy): what ends it all is the release's last act, and
\* nothing that begins any does not look at the policy under the lock.
THEOREM NothingInForceWithoutPolicy == Spec => []NoAuthorityWithoutPolicy
<1>1. Init => NoAuthorityWithoutPolicy BY DEF Init, NoAuthorityWithoutPolicy
<1>2. ASSUME TypeInv, NoAuthorityWithoutPolicy, [Next]_vars PROVE NoAuthorityWithoutPolicy'
  <2> SUFFICES ASSUME ~policy' PROVE \A s \in Subjects : rel'[s].state \notin {"VERIFIED", "SUSPENDED"}
    BY DEF NoAuthorityWithoutPolicy
  <2>1. CASE UNCHANGED <<policy, rel>> BY <1>2, <2>1 DEF NoAuthorityWithoutPolicy
  <2>2. ASSUME NEW r \in Requests,
               Approve(r) \/ Renew(r) \/ Reject(r) \/ Suspend(r) \/ End(r)
        PROVE  FALSE
    BY <2>2 DEF Approve, Renew, Reject, Suspend, End, Refuse, MayDecide, world
  <2>3. ASSUME NEW r \in Requests, NEW changed \in BOOLEAN, SubmitRenewal(r, changed) PROVE FALSE
    BY <2>3 DEF SubmitRenewal, Current, world
  <2>4. ASSUME NEW s \in Subjects, CreateDependent(s) PROVE FALSE
    BY <2>4 DEF CreateDependent, world
  <2>5. CASE Reconcile \/ Disable
    <3>1. PICK all \in BOOLEAN : Cutoffs(FALSE, all)
      BY <1>2, <2>5 DEF Reconcile, Disable, world, TypeInv, TypeOK
    <3>2. rel' = [s \in Subjects |->
            IF Handed(s, FALSE) \/ CutOff(s, FALSE)
            THEN [rel[s] EXCEPT !.state = "EXPIRED", !.conflict = Nobody] ELSE rel[s]]
      BY <3>1 DEF Cutoffs
    <3>3. ASSUME NEW s \in Subjects PROVE rel'[s].state \notin {"VERIFIED", "SUSPENDED"}
      <4>1. rel[s] \in Relationships BY <1>2 DEF TypeInv, TypeOK
      <4>2. CASE Handed(s, FALSE) \/ CutOff(s, FALSE) BY <3>2, <4>1, <4>2 DEF Relationships
      <4>3. CASE ~(Handed(s, FALSE) \/ CutOff(s, FALSE))
        BY <3>2, <4>3 DEF Handed, CutOff, Lapsed
      <4> QED BY <4>2, <4>3
    <3> QED BY <3>3
  <2>6. CASE Enable BY <2>6 DEF Enable
  <2> QED BY <1>2, <2>1, <2>2, <2>3, <2>4, <2>5, <2>6
       DEF Next, vars, world, VerifyEmail, EligibilityEnds, TokenLapses, OpenRelationship,
           OpenHandoff, IssueBegins, LookUp, AdminTransition, IssueMinorCredential, OpenSession,
           ProposeEmail, RecoveryEmail, Offer, ConfirmIdentity, Abort, Tick, EmailTaken
<1> QED BY <1>1, <1>2, TypingAndAnchors, PTL DEF Spec

-----------------------------------------------------------------------------
(* The hand-over.                                                          *)

\* A verified address is one whose link was opened: a new address is unverified.
VerifiedIsProven ==
  \A s \in Subjects : handoff[s].verified => handoff[s].email \in proven[s]

\* What a reconciliation writes of an account and a hand-over.
LEMMA CutoffRows ==
  ASSUME TypeInv, NEW p \in BOOLEAN, NEW all \in BOOLEAN, Cutoffs(p, all), NEW s \in Subjects
  PROVE  /\ handoff'[s].email = handoff[s].email
         /\ handoff'[s].verified = handoff[s].verified
         /\ handoff'[s].identity = handoff[s].identity
         /\ \/ /\ account'[s].email = account[s].email
               /\ account'[s].dependent = account[s].dependent
            \/ /\ Reaches(s, p) /\ NextStatus(s) = "COMPLETED"
               /\ account'[s].email = handoff[s].email
               /\ handoff[s].verified /\ handoff[s].identity
<1>t. account[s] \in Accounts /\ handoff[s] \in Handoffs BY DEF TypeInv, TypeOK
<1>1. Begun(s, p) \in Handoffs /\ Begun(s, p).email = handoff[s].email
      /\ Begun(s, p).verified = handoff[s].verified /\ Begun(s, p).identity = handoff[s].identity
  BY <1>t DEF Begun, Handoffs, Stages
<1>2. handoff'[s] = IF Reaches(s, p) THEN [Begun(s, p) EXCEPT !.status = NextStatus(s)]
                    ELSE Begun(s, p)
  BY DEF Cutoffs
<1>3. NextStatus(s) = "COMPLETED" => handoff[s].verified /\ handoff[s].identity
  BY DEF NextStatus
<1>4. account'[s] \in {[account[s] EXCEPT !.cred = FALSE], Settled(s, p)}
  BY DEF Cutoffs
<1>5. Settled(s, p) = IF Reaches(s, p) /\ NextStatus(s) = "COMPLETED"
                      THEN [account[s] EXCEPT !.dependent = FALSE, !.email = handoff[s].email]
                      ELSE account[s]
  BY DEF Settled
<1> QED BY <1>t, <1>1, <1>2, <1>3, <1>4, <1>5 DEF Accounts, Handoffs

\* An adult account has an address whose link was opened and an identity an
\* administrator confirmed (AdultEmailIsProven).
THEOREM AdultsProvedTheirEmail == Spec => []AdultEmailIsProven
<1> DEFINE Inv == AdultEmailIsProven /\ VerifiedIsProven
<1>1. Init => Inv BY DEF Init, AdultEmailIsProven, VerifiedIsProven
<1>2. ASSUME TypeInv, Inv, [Next]_vars PROVE Inv'
  <2>t. TypeOK BY <1>2 DEF TypeInv
  <2>r. req \in [Requests -> Reqs] BY <2>t DEF TypeOK, Reqs
  <2>1. CASE UNCHANGED <<handoff, proven>> /\ \A s \in Subjects : account'[s].email = account[s].email
    BY <1>2, <2>1 DEF AdultEmailIsProven, VerifiedIsProven
  <2>2. CASE UNCHANGED <<account, handoff, proven>> BY <2>1, <2>2
  <2>3. ASSUME NEW s \in Subjects, VerifyEmail(s) PROVE Inv'
    <3>1. handoff[s] \in Handoffs BY <2>t DEF TypeOK
    <3>2. PICK x : handoff' = [handoff EXCEPT ![s] =
                                 [handoff[s] EXCEPT !.verified = TRUE, !.status = x]]
      BY <2>3 DEF VerifyEmail
    <3>3. /\ handoff'[s].email = handoff[s].email /\ handoff'[s].identity = handoff[s].identity
          /\ \A x1 \in Subjects \ {s} : handoff'[x1] = handoff[x1]
      BY <2>t, <3>1, <3>2 DEF TypeOK, Handoffs
    <3>4. /\ proven'[s] = proven[s] \cup {token[s]} /\ handoff[s].email = token[s]
          /\ \A x1 \in Subjects \ {s} : proven'[x1] = proven[x1]
          /\ account' = account
      BY <2>t, <2>3 DEF VerifyEmail, TypeOK
    <3> QED BY <1>2, <3>3, <3>4 DEF AdultEmailIsProven, VerifiedIsProven
  <2>4. ASSUME NEW r \in Requests, NEW e \in Emails, Offer(r, e) PROVE Inv'
    <3> DEFINE s == req[r].subject
    <3>0. s \in Subjects BY <2>4, <2>r, ReqKinds DEF Offer, HandoffPages
    <3>1. handoff[s] \in Handoffs BY <2>t, <3>0 DEF TypeOK
    <3>2. handoff' = [handoff EXCEPT ![s] = Proposed(handoff[s], e)] BY <2>4 DEF Offer
    <3>3. /\ ~handoff'[s].verified /\ handoff'[s].identity = handoff[s].identity
          /\ \A x \in Subjects \ {s} : handoff'[x] = handoff[x]
      BY <2>t, <3>0, <3>1, <3>2 DEF TypeOK, Handoffs, Proposed
    <3>4. account' = account /\ proven' = proven BY <2>4 DEF Offer
    <3> QED BY <1>2, <3>3, <3>4 DEF AdultEmailIsProven, VerifiedIsProven
  <2>5. ASSUME NEW r \in Requests, ConfirmIdentity(r) PROVE Inv'
    <3> DEFINE s == req[r].subject
    <3>0. s \in Subjects BY <2>5, <2>r, ReqKinds DEF ConfirmIdentity, HandoffPages
    <3>1. handoff[s] \in Handoffs BY <2>t, <3>0 DEF TypeOK
    <3>2. PICK x : handoff' = [handoff EXCEPT ![s] =
                                 [handoff[s] EXCEPT !.identity = TRUE, !.status = x]]
      BY <2>5 DEF ConfirmIdentity
    <3>3. /\ handoff'[s].verified = handoff[s].verified /\ handoff'[s].identity
          /\ handoff'[s].email = handoff[s].email
          /\ \A x1 \in Subjects \ {s} : handoff'[x1] = handoff[x1]
      BY <2>t, <3>0, <3>1, <3>2 DEF TypeOK, Handoffs
    <3>4. account' = account /\ proven' = proven BY <2>5 DEF ConfirmIdentity
    <3> QED BY <1>2, <3>3, <3>4 DEF AdultEmailIsProven, VerifiedIsProven
  <2>6. CASE Reconcile \/ Disable
    <3>1. PICK p \in BOOLEAN, all \in BOOLEAN : Cutoffs(p, all)
      BY <2>6, <2>t DEF Reconcile, Disable, TypeOK
    <3>2. proven' = proven BY <2>6 DEF Reconcile, Disable
    <3> QED BY <1>2, <3>1, <3>2, CutoffRows DEF AdultEmailIsProven, VerifiedIsProven
  <2>7. ASSUME NEW s, NEW x,
               account' = [account EXCEPT ![s].cred = x] \/ account' = account,
               UNCHANGED <<handoff, proven>>
        PROVE  Inv'
    <3>1. \A z \in Subjects : account[z] \in Accounts BY <2>t DEF TypeOK
    <3>2. \A z \in Subjects : account'[z].email = account[z].email
      BY <2>7, <3>1, <2>t DEF TypeOK, Accounts
    <3> QED BY <2>1, <2>7, <3>2
  <2>8. ASSUME NEW r \in Requests,
               Approve(r) \/ Renew(r) \/ Reject(r) \/ Suspend(r) \/ End(r)
                 \/ IssueMinorCredential(r) \/ \E changed \in BOOLEAN : SubmitRenewal(r, changed)
        PROVE  Inv'
    <3>1. UNCHANGED <<handoff, proven>>
      BY <2>8 DEF Approve, Renew, Reject, Suspend, End, Refuse, IssueMinorCredential, SubmitRenewal
    <3>2. account' = account \/ \E s, x : account' = [account EXCEPT ![s].cred = x]
      BY <2>8 DEF Approve, Renew, Verify, Reject, Suspend, End, Refuse, IssueMinorCredential,
         SubmitRenewal, ClearCredential
    <3> QED BY <2>7, <3>1, <3>2
  <2> QED BY <1>2, <2>2, <2>3, <2>4, <2>5, <2>6, <2>8
       DEF Next, vars, CreateDependent, EligibilityEnds, TokenLapses, OpenRelationship,
           OpenHandoff, IssueBegins, LookUp, AdminTransition, OpenSession, ProposeEmail,
           RecoveryEmail, Abort, Tick, EmailTaken, Enable
<1>3. Inv => AdultEmailIsProven OBVIOUS
<1> QED BY <1>1, <1>2, <1>3, TypingAndAnchors, PTL DEF Spec

-----------------------------------------------------------------------------
(* Logins and sessions.                                                    *)

\* A step whose requests are Touched, then one of them done, keeps the sessions
\* of everybody whose credential version it raises or whose credential it keeps.
LEMMA SessionsTouched ==
  ASSUME TypeInv, SessionsFollowTheCredential,
         NEW R, NEW H, NEW C, NEW D,
         \/ req' = Touched(R, H, C, D)
         \/ \E r \in Requests : req' = [Touched(R, H, C, D) EXCEPT ![r] = Idle],
         \A s \in Subjects :
           \/ s \in C
           \/ account'[s].dependent = account[s].dependent /\ account'[s].cred = account[s].cred
           \/ ~(account[s].dependent /\ account[s].cred)
  PROVE  SessionsFollowTheCredential'
<1>r. req \in [Requests -> Reqs] BY DEF TypeInv, TypeOK, Reqs
<1> SUFFICES ASSUME NEW r \in Requests, req'[r].step \in {"comparing", "session"}, req'[r].fresh
             PROVE  account'[req'[r].subject].dependent /\ account'[req'[r].subject].cred
  BY DEF SessionsFollowTheCredential
<1>1. req'[r] = Touched(R, H, C, D)[r]
  <2>1. Touched(R, H, C, D) \in [Requests -> Reqs] BY <1>r, TouchedTyping
  <2> QED BY <2>1 DEF Idle
<1>2. req'[r] = req[r] /\ ~Outdated(req[r], R, H, C)
  BY <1>r, <1>1, TouchedReqs DEF Idle
<1>3. req[r].subject \in Subjects /\ req[r].subject \notin C
  BY <1>r, <1>2, ReqKinds DEF Outdated, Logins
<1>4. account[req[r].subject].dependent /\ account[req[r].subject].cred
  BY <1>2 DEF SessionsFollowTheCredential
<1> QED BY <1>2, <1>3, <1>4

\* A step that gives one request a state of its own.
LEMMA SessionsServed ==
  ASSUME TypeInv, SessionsFollowTheCredential, account' = account,
         NEW q \in Requests, NEW x, Goto(q, x),
         x.step \in {"comparing", "session"} /\ x.fresh =>
           account[x.subject].dependent /\ account[x.subject].cred
  PROVE  SessionsFollowTheCredential'
<1>r. req \in [Requests -> Reqs] BY DEF TypeInv, TypeOK, Reqs
<1> QED BY <1>r DEF SessionsFollowTheCredential, Goto

\* Every login and session with the current credential version is of a minor
\* whose credential is there (SessionsFollowTheCredential).
THEOREM SessionsEndWithTheCredential == Spec => []SessionsFollowTheCredential
<1>1. Init => SessionsFollowTheCredential BY DEF Init, SessionsFollowTheCredential, Idle
<1>2. ASSUME TypeInv, SessionsFollowTheCredential, [Next]_vars PROVE SessionsFollowTheCredential'
  <2>t. TypeOK BY <1>2 DEF TypeInv
  <2>r. req \in [Requests -> Reqs] BY <2>t DEF TypeOK, Reqs
  <2>1. CASE UNCHANGED <<account, req>> BY <1>2, <2>1 DEF SessionsFollowTheCredential
  <2>2. ASSUME NEW r \in Requests, NEW s \in Subjects, ClearCredential(s, r)
        PROVE  SessionsFollowTheCredential'
    <3>1. \A x \in Subjects \ {s} : account'[x] = account[x] BY <2>2, <2>t DEF ClearCredential, TypeOK
    <3>2. req' = [Touched({s}, {}, {s}, {s}) EXCEPT ![r] = Idle] BY <2>2 DEF ClearCredential
    <3> QED BY <1>2, <3>1, <3>2, SessionsTouched
  <2>3. ASSUME NEW R, NEW H, account' = account,
               \/ req' = Touched(R, H, {}, {})
               \/ \E r \in Requests : req' = [Touched(R, H, {}, {}) EXCEPT ![r] = Idle]
        PROVE  SessionsFollowTheCredential'
    BY <1>2, <2>3, SessionsTouched
  <2>4. ASSUME NEW r \in Requests, NEW until, MayDecide(r), Verify(r, until)
        PROVE  SessionsFollowTheCredential'
    <3>1. req[r].subject \in Subjects BY <2>4, <2>r, ReqKinds DEF MayDecide, Decisions
    <3>2. CASE rel[req[r].subject].state = "VERIFIED" BY <2>3, <2>4, <3>2 DEF Verify
    <3>3. CASE rel[req[r].subject].state # "VERIFIED" BY <2>2, <2>4, <3>1, <3>3 DEF Verify
    <3> QED BY <3>2, <3>3
  <2>5. ASSUME NEW r \in Requests, Approve(r) \/ Renew(r) PROVE SessionsFollowTheCredential'
    BY <2>4, <2>5 DEF Approve, Renew
  <2>6. ASSUME NEW r \in Requests, Reject(r) \/ Suspend(r) \/ End(r)
        PROVE  SessionsFollowTheCredential'
    <3>1. MayDecide(r) /\ ClearCredential(req[r].subject, r)
      BY <2>6 DEF Reject, Suspend, End, Refuse
    <3>2. req[r].subject \in Subjects BY <3>1, <2>r, ReqKinds DEF MayDecide, Decisions
    <3> QED BY <2>2, <3>1, <3>2
  <2>7. ASSUME NEW r \in Requests, NEW changed \in BOOLEAN, SubmitRenewal(r, changed)
        PROVE  SessionsFollowTheCredential'
    <3>1. req[r].subject \in Subjects BY <2>7, <2>r, ReqKinds DEF SubmitRenewal, Pages
    <3>2. CASE changed BY <2>2, <2>7, <3>1, <3>2 DEF SubmitRenewal
    <3>3. CASE ~changed BY <2>3, <2>7, <3>3 DEF SubmitRenewal
    <3> QED BY <3>2, <3>3
  <2>8. ASSUME NEW r \in Requests, IssueMinorCredential(r) PROVE SessionsFollowTheCredential'
    <3> DEFINE s == req[r].subject
    <3>1. \A x \in Subjects \ {s} : account'[x] = account[x]
      BY <2>8, <2>t DEF IssueMinorCredential, TypeOK
    <3>2. req' = [Touched({}, {}, {s}, {}) EXCEPT ![r] = Idle] BY <2>8 DEF IssueMinorCredential
    <3> QED BY <1>2, <3>1, <3>2, SessionsTouched
  <2>9. ASSUME NEW r \in Requests, NEW s \in Subjects, LookUp(r, s)
        PROVE  SessionsFollowTheCredential'
    BY <1>2, <2>9, SessionsServed DEF LookUp, Current
  <2>10. ASSUME NEW r \in Requests, OpenSession(r) PROVE SessionsFollowTheCredential'
    <3>1. req[r] \in Logins BY <2>10, <2>r, ReqKinds DEF OpenSession
    <3>2. /\ [req[r] EXCEPT !.step = "session"].fresh = req[r].fresh
          /\ [req[r] EXCEPT !.step = "session"].subject = req[r].subject
      BY <3>1 DEF Logins
    <3>3. req[r].fresh => account[req[r].subject].dependent /\ account[req[r].subject].cred
      BY <1>2, <2>10 DEF OpenSession, SessionsFollowTheCredential
    <3> QED BY <1>2, <2>10, <3>2, <3>3, SessionsServed DEF OpenSession
  <2>11. ASSUME NEW r \in Requests, NEW s \in Subjects, NEW actor,
                \/ OpenRelationship(r, s, actor) \/ OpenHandoff(r, s, actor)
                \/ IssueBegins(r, s)
         PROVE  SessionsFollowTheCredential'
    <3>1. CASE OpenRelationship(r, s, actor)
      BY <1>2, <3>1, SessionsServed DEF OpenRelationship
    <3>2. CASE OpenHandoff(r, s, actor) BY <1>2, <3>2, SessionsServed DEF OpenHandoff
    <3>3. CASE IssueBegins(r, s) BY <1>2, <3>3, SessionsServed DEF IssueBegins
    <3> QED BY <2>11, <3>1, <3>2, <3>3
  <2>12. CASE Reconcile \/ Disable
    <3>1. PICK p \in BOOLEAN, all \in BOOLEAN : Cutoffs(p, all)
      BY <2>12, <2>t DEF Reconcile, Disable, TypeOK
    <3> DEFINE Cleared == {s \in Subjects : CutOff(s, p) \/ (all /\ Settled(s, p).dependent)}
               C == {s \in Cleared : CutOff(s, p) \/ account[s].cred}
                      \cup {s \in Subjects : LogsOut(s, p)}
    <3>2. PICK R, H, D : req' = Touched(R, H, C, D) BY <3>1 DEF Cutoffs
    <3>3. ASSUME NEW s \in Subjects, s \notin C
          PROVE  \/ account'[s] = account[s]
                 \/ ~account[s].cred
      <4>1. account'[s] = IF s \in Cleared THEN [account[s] EXCEPT !.cred = FALSE] ELSE Settled(s, p)
        BY <3>1 DEF Cutoffs
      <4>2. s \in Cleared => ~account[s].cred BY <3>3
      <4>3. Settled(s, p) = account[s] BY <3>3 DEF Settled, LogsOut
      <4> QED BY <4>1, <4>2, <4>3
    <3> HIDE DEF C
    <3> QED BY <1>2, <3>2, <3>3, SessionsTouched
  <2>13. ASSUME NEW s \in Subjects, VerifyEmail(s) PROVE SessionsFollowTheCredential'
    BY <2>3, <2>13 DEF VerifyEmail
  <2>14. ASSUME NEW r \in Requests, NEW e \in Emails, Offer(r, e)
         PROVE  SessionsFollowTheCredential'
    BY <2>3, <2>14 DEF Offer
  <2>15. ASSUME NEW r \in Requests, ConfirmIdentity(r) PROVE SessionsFollowTheCredential'
    BY <2>3, <2>15 DEF ConfirmIdentity
  <2>16. ASSUME NEW r \in Requests, AdminTransition(r) \/ Abort(r)
         PROVE  SessionsFollowTheCredential'
    <3>1. PICK x : Goto(r, x) /\ x.step \notin {"comparing", "session"}
      BY <2>16 DEF AdminTransition, Abort, Idle
    <3>2. account' = account BY <2>16 DEF AdminTransition, Abort
    <3> QED BY <1>2, <3>1, <3>2, SessionsServed
  <2> QED BY <1>2, <2>1, <2>5, <2>6, <2>7, <2>8, <2>9, <2>10, <2>11, <2>12, <2>13, <2>14,
            <2>15, <2>16
       DEF Next, vars, CreateDependent, EligibilityEnds, TokenLapses, ProposeEmail,
           RecoveryEmail, Tick, EmailTaken, Enable
<1> QED BY <1>1, <1>2, TypingAndAnchors, PTL DEF Spec

-----------------------------------------------------------------------------
(* Pages and decisions.                                                    *)

\* A page whose version is still the row's shows the row as it is.
FreshPages ==
  \A r \in Requests :
    req[r].fresh =>
      /\ req[r].step \in {"relationship", "deciding"} =>
           req[r].shown = rel[req[r].subject] /\ rel[req[r].subject].state # "NONE"
      /\ req[r].step = "handoff" => req[r].shown = handoff[req[r].subject]

\* The rows a step writes are among those whose pages it makes stale.
LEMMA PagesTouched ==
  ASSUME TypeInv, FreshPages,
         NEW R, NEW H, NEW C, NEW D,
         \/ req' = Touched(R, H, C, D)
         \/ \E r \in Requests : req' = [Touched(R, H, C, D) EXCEPT ![r] = Idle],
         \A s \in Subjects : s \in R \/ rel'[s] = rel[s],
         \A s \in Subjects : s \in H \/ handoff'[s] = handoff[s]
  PROVE  /\ FreshPages'
         /\ \A r \in Requests :
              req[r].step \in {"relationship", "deciding", "handoff"} /\ req'[r] = Idle =>
                req' = [Touched(R, H, C, D) EXCEPT ![r] = Idle]
<1>r. req \in [Requests -> Reqs] BY DEF TypeInv, TypeOK, Reqs
<1>t. Touched(R, H, C, D) \in [Requests -> Reqs] BY <1>r, TouchedTyping
<1>1. ASSUME NEW r \in Requests, req'[r].fresh,
             req'[r].step \in {"relationship", "deciding", "handoff"}
      PROVE  /\ req'[r] = req[r] /\ req[r].subject \in Subjects
             /\ req[r].step \in {"relationship", "deciding"} => rel'[req[r].subject] = rel[req[r].subject]
             /\ req[r].step = "handoff" => handoff'[req[r].subject] = handoff[req[r].subject]
  <2>1. req'[r] = Touched(R, H, C, D)[r] BY <1>t, <1>1 DEF Idle
  <2>2. req'[r] = req[r] /\ ~Outdated(req[r], R, H, C)
    BY <1>r, <1>1, <2>1, TouchedReqs DEF Idle
  <2>3. req[r].subject \in Subjects
    BY <1>r, <1>1, <2>2, ReqKinds DEF Pages, Decisions, HandoffPages
  <2> QED BY <2>2, <2>3 DEF Outdated
<1>2. FreshPages' BY <1>1 DEF FreshPages
<1>3. ASSUME NEW r \in Requests, req[r].step \in {"relationship", "deciding", "handoff"},
             req'[r] = Idle, req' # [Touched(R, H, C, D) EXCEPT ![r] = Idle]
      PROVE  FALSE
  <2>1. req'[r] = Touched(R, H, C, D)[r] BY <1>t, <1>3
  <2> QED BY <1>r, <1>3, <2>1, TouchedReqs DEF Idle
<1> QED BY <1>2, <1>3

\* A step that gives one request a state of its own.
LEMMA PagesServed ==
  ASSUME TypeInv, FreshPages, UNCHANGED <<rel, handoff>>,
         NEW q \in Requests, NEW x, Goto(q, x),
         x # Idle /\ x.fresh =>
           /\ x.step \in {"relationship", "deciding"} =>
                x.shown = rel[x.subject] /\ rel[x.subject].state # "NONE"
           /\ x.step = "handoff" => x.shown = handoff[x.subject]
  PROVE  FreshPages'
<1>r. req \in [Requests -> Reqs] BY DEF TypeInv, TypeOK, Reqs
<1> QED BY <1>r DEF FreshPages, Goto, Idle

\* What is written is what the page of whoever wrote it showed.
Shown == \A r \in Requests :
           req[r].step \in {"relationship", "deciding", "handoff"} /\ req'[r] = Idle =>
             LET s == req[r].subject IN
             /\ rel'[s] # rel[s] => req[r].shown = rel[s]
             /\ handoff'[s] # handoff[s] => req[r].shown = handoff[s]

LEMMA PagesStep == TypeInv /\ FreshPages /\ [Next]_vars => FreshPages' /\ [Shown]_vars
<1> SUFFICES ASSUME TypeInv, FreshPages, [Next]_vars PROVE FreshPages' /\ [Shown]_vars
  OBVIOUS
<1>t. TypeOK BY DEF TypeInv
<1>r. req \in [Requests -> Reqs] BY <1>t DEF TypeOK, Reqs
<1>1. CASE UNCHANGED vars BY <1>1 DEF vars, FreshPages
<1>2. CASE UNCHANGED <<rel, handoff, req>> BY <1>2 DEF FreshPages, Shown
<1>3. ASSUME NEW s \in Subjects, CreateDependent(s) PROVE FreshPages' /\ Shown
  <2>1. /\ \A x \in Subjects \ {s} : rel'[x] = rel[x]
        /\ rel[s].state = "NONE" /\ UNCHANGED <<handoff, req>>
    BY <1>3, <1>t DEF CreateDependent, TypeOK
  <2>2. ASSUME NEW r \in Requests, req[r].step \in {"relationship", "deciding"}
        PROVE  req[r].subject \in Subjects
    BY <1>r, <2>2, ReqKinds DEF Pages, Decisions
  <2>3. FreshPages' BY <2>1, <2>2 DEF FreshPages
  <2>4. Shown BY <2>1 DEF Shown, Idle
  <2> QED BY <2>3, <2>4
<1>4. ASSUME NEW r \in Requests, NEW s, NEW R, NEW H, NEW C, NEW D,
             req[r].step \in {"relationship", "deciding", "handoff"},
             req[r].subject = s, req[r].fresh,
             req' = [Touched(R, H, C, D) EXCEPT ![r] = Idle],
             \/ /\ req[r].step # "handoff"
                /\ \A x \in Subjects \ {s} : rel'[x] = rel[x]
                /\ s \in R /\ handoff' = handoff
             \/ /\ req[r].step = "handoff"
                /\ \A x \in Subjects \ {s} : handoff'[x] = handoff[x]
                /\ s \in H /\ rel' = rel
      PROVE  FreshPages' /\ Shown
  <2>1. /\ \A x \in Subjects : x \in R \/ rel'[x] = rel[x]
        /\ \A x \in Subjects : x \in H \/ handoff'[x] = handoff[x]
        /\ \E q \in Requests : req' = [Touched(R, H, C, D) EXCEPT ![q] = Idle]
    BY <1>4
  <2>2. /\ FreshPages'
        /\ \A q \in Requests :
             req[q].step \in {"relationship", "deciding", "handoff"} /\ req'[q] = Idle =>
               req' = [Touched(R, H, C, D) EXCEPT ![q] = Idle]
    BY <2>1, PagesTouched
  <2>3. ASSUME NEW q \in Requests, req[q].step \in {"relationship", "deciding", "handoff"},
               req'[q] = Idle
        PROVE  q = r
    <3>1. Touched(R, H, C, D) \in [Requests -> Reqs] BY <1>r, TouchedTyping
    <3>2. SUFFICES ASSUME q # r PROVE FALSE OBVIOUS
    <3>3. Touched(R, H, C, D)[q] = Idle BY <1>4, <2>3, <3>1, <3>2
    <3> QED BY <1>r, <2>3, <3>3, TouchedReqs DEF Idle
  <2>4. ASSUME NEW q \in Requests, req[q].step \in {"relationship", "deciding", "handoff"},
               req'[q] = Idle
        PROVE  /\ rel'[req[q].subject] # rel[req[q].subject] => req[q].shown = rel[req[q].subject]
               /\ handoff'[req[q].subject] # handoff[req[q].subject] =>
                    req[q].shown = handoff[req[q].subject]
    <3>1. q = r BY <2>3, <2>4
    <3>2. CASE req[r].step # "handoff" BY <1>4, <2>4, <3>1, <3>2 DEF FreshPages
    <3>3. CASE req[r].step = "handoff" BY <1>4, <3>1, <3>3 DEF FreshPages
    <3> QED BY <3>2, <3>3
  <2>5. Shown BY <2>4 DEF Shown
  <2> QED BY <2>2, <2>5
<1>5. ASSUME NEW r \in Requests, NEW until, MayDecide(r), Verify(r, until), handoff' = handoff
      PROVE  FreshPages' /\ Shown
  <2> DEFINE s == req[r].subject
  <2>1. \A x \in Subjects \ {s} : rel'[x] = rel[x] BY <1>5, <1>t DEF Verify, TypeOK
  <2>2. PICK R, C, D : s \in R /\ req' = [Touched(R, {}, C, D) EXCEPT ![r] = Idle]
    <3>1. \E C, D : req' = [Touched({s}, {}, C, D) EXCEPT ![r] = Idle]
      BY <1>5 DEF Verify, ClearCredential
    <3> QED BY <3>1
  <2>3. req[r].step = "deciding" /\ req[r].fresh /\ handoff' = handoff BY <1>5 DEF MayDecide
  <2> HIDE DEF s
  <2>4. req[r].subject = s BY DEF s
  <2> QED BY <1>4, <2>1, <2>2, <2>3, <2>4
<1>6. ASSUME NEW r \in Requests, Approve(r) \/ Renew(r) PROVE FreshPages' /\ Shown
  BY <1>5, <1>6 DEF Approve, Renew
<1>7. ASSUME NEW r \in Requests, NEW states, NEW state, NEW conflict,
             Refuse(r, states, state, conflict)
      PROVE  FreshPages' /\ Shown
  <2> DEFINE s == req[r].subject
  <2>1. \A x \in Subjects \ {s} : rel'[x] = rel[x] BY <1>7, <1>t DEF Refuse, TypeOK
  <2>2. req' = [Touched({s}, {}, {s}, {s}) EXCEPT ![r] = Idle] BY <1>7 DEF Refuse, ClearCredential
  <2>3. req[r].step = "deciding" /\ req[r].fresh /\ handoff' = handoff BY <1>7 DEF Refuse, MayDecide
  <2> HIDE DEF s
  <2>4. req[r].subject = s BY DEF s
  <2> QED BY <1>4, <1>7, <2>1, <2>2, <2>3, <2>4
<1>8. ASSUME NEW r \in Requests, Reject(r) \/ Suspend(r) \/ End(r) PROVE FreshPages' /\ Shown
  BY <1>7, <1>8 DEF Reject, Suspend, End
<1>9. ASSUME NEW r \in Requests, NEW changed \in BOOLEAN, SubmitRenewal(r, changed)
      PROVE  FreshPages' /\ Shown
  <2> DEFINE s == req[r].subject
  <2>1. \A x \in Subjects \ {s} : rel'[x] = rel[x] BY <1>9, <1>t DEF SubmitRenewal, TypeOK
  <2>2. PICK C, D : req' = [Touched({s}, {}, C, D) EXCEPT ![r] = Idle]
    BY <1>9 DEF SubmitRenewal, ClearCredential
  <2>3. req[r].step = "relationship" /\ req[r].fresh /\ handoff' = handoff BY <1>9 DEF SubmitRenewal
  <2> HIDE DEF s
  <2>4. req[r].subject = s BY DEF s
  <2> QED BY <1>4, <1>9, <2>1, <2>2, <2>3, <2>4
<1>10. ASSUME NEW r \in Requests, NEW e \in Emails, Offer(r, e) PROVE FreshPages' /\ Shown
  <2> DEFINE s == req[r].subject
  <2>1. \A x \in Subjects \ {s} : handoff'[x] = handoff[x] BY <1>10, <1>t DEF Offer, TypeOK
  <2>2. req' = [Touched({}, {s}, {}, {}) EXCEPT ![r] = Idle] BY <1>10 DEF Offer
  <2>3. req[r].step = "handoff" /\ req[r].fresh /\ rel' = rel BY <1>10 DEF Offer
  <2> HIDE DEF s
  <2>4. req[r].subject = s BY DEF s
  <2> QED BY <1>4, <1>10, <2>1, <2>2, <2>3, <2>4
<1>11. ASSUME NEW r \in Requests, ConfirmIdentity(r) PROVE FreshPages' /\ Shown
  <2> DEFINE s == req[r].subject
  <2>1. \A x \in Subjects \ {s} : handoff'[x] = handoff[x] BY <1>11, <1>t DEF ConfirmIdentity, TypeOK
  <2>2. req' = [Touched({}, {s}, {}, {}) EXCEPT ![r] = Idle] BY <1>11 DEF ConfirmIdentity
  <2>3. req[r].step = "handoff" /\ req[r].fresh /\ rel' = rel BY <1>11 DEF ConfirmIdentity
  <2> HIDE DEF s
  <2>4. req[r].subject = s BY DEF s
  <2> QED BY <1>4, <1>11, <2>1, <2>2, <2>3, <2>4
<1>12. ASSUME NEW R, NEW H, NEW C, NEW D, req' = Touched(R, H, C, D),
              \A s \in Subjects : s \in R \/ rel'[s] = rel[s],
              \A s \in Subjects : s \in H \/ handoff'[s] = handoff[s]
       PROVE  FreshPages' /\ Shown
  <2>1. FreshPages' BY <1>12, PagesTouched
  <2>2. ASSUME NEW r \in Requests, req[r].step \in {"relationship", "deciding", "handoff"}
        PROVE  req'[r] # Idle
    BY <1>12, <1>r, <2>2, TouchedReqs DEF Idle
  <2> QED BY <2>1, <2>2 DEF Shown
<1>13. ASSUME NEW s \in Subjects, VerifyEmail(s) PROVE FreshPages' /\ Shown
  <2>1. \A x \in Subjects \ {s} : handoff'[x] = handoff[x] BY <1>13, <1>t DEF VerifyEmail, TypeOK
  <2>2. req' = Touched({}, {s}, {}, {}) /\ rel' = rel BY <1>13 DEF VerifyEmail
  <2> QED BY <1>12, <2>1, <2>2
<1>14. CASE Reconcile \/ Disable
  <2>1. PICK p \in BOOLEAN, all \in BOOLEAN : Cutoffs(p, all)
    BY <1>14, <1>t DEF Reconcile, Disable, TypeOK
  <2>2. PICK C, D :
          req' = Touched(OutdatedByCutoff(p), {s \in Subjects : handoff'[s] # handoff[s]}, C, D)
    BY <2>1 DEF Cutoffs
  <2>3. \A s \in Subjects : s \in OutdatedByCutoff(p) \/ rel'[s] = rel[s]
    BY <2>1 DEF Cutoffs, OutdatedByCutoff
  <2> QED BY <1>12, <2>2, <2>3
<1>15. ASSUME NEW r \in Requests, IssueMinorCredential(r) PROVE FreshPages' /\ Shown
  <2> DEFINE s == req[r].subject
  <2>1. req' = [Touched({}, {}, {s}, {}) EXCEPT ![r] = Idle] /\ UNCHANGED <<rel, handoff>>
    BY <1>15 DEF IssueMinorCredential
  <2>2. FreshPages' BY <2>1, PagesTouched
  <2> QED BY <2>1, <2>2 DEF Shown
<1>16. ASSUME NEW r \in Requests, NEW x, Goto(r, x), UNCHANGED <<rel, handoff>>,
              x # Idle /\ x.fresh =>
                /\ x.step \in {"relationship", "deciding"} =>
                     x.shown = rel[x.subject] /\ rel[x.subject].state # "NONE"
                /\ x.step = "handoff" => x.shown = handoff[x.subject]
       PROVE  FreshPages' /\ Shown
  BY <1>16, PagesServed DEF Shown
<1>17. ASSUME NEW r \in Requests, NEW s \in Subjects, NEW actor, OpenRelationship(r, s, actor)
       PROVE  FreshPages' /\ Shown
  BY <1>16, <1>17 DEF OpenRelationship
<1>18. ASSUME NEW r \in Requests, NEW s \in Subjects, NEW actor, OpenHandoff(r, s, actor)
       PROVE  FreshPages' /\ Shown
  BY <1>16, <1>18 DEF OpenHandoff
<1>19. ASSUME NEW r \in Requests, NEW s \in Subjects, LookUp(r, s) PROVE FreshPages' /\ Shown
  BY <1>16, <1>19 DEF LookUp
<1>20. ASSUME NEW r \in Requests, NEW s \in Subjects, IssueBegins(r, s) PROVE FreshPages' /\ Shown
  <2>1. req' = [req EXCEPT ![r] = [step |-> "issuing", subject |-> s]] /\ UNCHANGED <<rel, handoff>>
    BY <1>20 DEF IssueBegins, Goto
  <2>2. \A q \in Requests : q # r => req'[q] = req[q] BY <1>r, <2>1
  <2>3. req'[r].step = "issuing" BY <1>r, <2>1
  <2> QED BY <2>1, <2>2, <2>3 DEF FreshPages, Shown
<1>21. ASSUME NEW r \in Requests, OpenSession(r) PROVE FreshPages' /\ Shown
  <2>1. req[r] \in Logins BY <1>21, <1>r, ReqKinds DEF OpenSession
  <2>2. [req[r] EXCEPT !.step = "session"].step = "session" BY <2>1 DEF Logins
  <2> QED BY <1>16, <1>21, <2>2 DEF OpenSession
<1>22. ASSUME NEW r \in Requests, AdminTransition(r) PROVE FreshPages' /\ Shown
  <2>1. req[r].fresh => req[r].shown = rel[req[r].subject] /\ rel[req[r].subject].state # "NONE"
    BY <1>22 DEF AdminTransition, FreshPages
  <2> QED BY <1>16, <1>22, <2>1 DEF AdminTransition
<1>23. ASSUME NEW r \in Requests, Abort(r) PROVE FreshPages' /\ Shown
  BY <1>16, <1>23 DEF Abort
<1> QED BY <1>1, <1>2, <1>3, <1>6, <1>8, <1>9, <1>10, <1>11, <1>13, <1>14, <1>15, <1>17, <1>18,
          <1>19, <1>20, <1>21, <1>22, <1>23
     DEF Next, EligibilityEnds, TokenLapses, ProposeEmail, RecoveryEmail, Enable, Tick, EmailTaken,
         world

\* Whoever decides on a relationship or a hand-over decides on the row that
\* their page showed (DecisionsFollowWhatWasShown).
THEOREM DecidedAsShown == Spec => DecisionsFollowWhatWasShown
<1>1. Init => FreshPages BY DEF Init, FreshPages, Idle
<1>2. TypeInv /\ FreshPages /\ [Next]_vars => FreshPages' /\ [Shown]_vars BY PagesStep
<1> QED BY <1>1, <1>2, TypingAndAnchors, PTL DEF Spec, DecisionsFollowWhatWasShown, Shown

-----------------------------------------------------------------------------
(* Conflicts of interest.                                                  *)

\* Since a conflict was reported the relationship has not been verified, and
\* while it is only suspended it still names who reported it; no renewal is open.
Reported ==
  \A s \in Subjects :
    wary[s] # {} =>
      /\ open[s] = {}
      /\ \/ rel[s].state \in {"EXPIRED", "REJECTED"}
         \/ rel[s].state = "SUSPENDED" /\ wary[s] \subseteq {rel[s].conflict}

LEMMA ReportedStep == TypeInv /\ Reported /\ [Next]_vars => Reported'
<1> SUFFICES ASSUME TypeInv, Reported, [Next]_vars PROVE Reported'
  OBVIOUS
<1>t. TypeOK BY DEF TypeInv
<1>r. req \in [Requests -> Reqs] BY <1>t DEF TypeOK, Reqs
<1>1. CASE UNCHANGED <<rel, open, wary>> BY <1>1 DEF Reported
<1>2. ASSUME NEW s \in Subjects, NEW x \in States, rel[s].state \notin {"EXPIRED", "REJECTED", "SUSPENDED"},
             rel' = [rel EXCEPT ![s].state = x], wary' = wary,
             \A z \in Subjects \ {s} : open'[z] = open[z]
      PROVE  Reported'
  <2>1. wary[s] = {} BY <1>2 DEF Reported
  <2>2. \A z \in Subjects \ {s} : rel'[z] = rel[z] BY <1>2, <1>t DEF TypeOK
  <2> QED BY <1>2, <2>1, <2>2 DEF Reported
<1>3. ASSUME NEW s \in Subjects, CreateDependent(s) PROVE Reported'
  BY <1>2, <1>3 DEF CreateDependent, States
<1>4. ASSUME NEW r \in Requests, NEW changed \in BOOLEAN, SubmitRenewal(r, changed) PROVE Reported'
  <2>1. req[r].subject \in Subjects BY <1>4, <1>r, ReqKinds DEF SubmitRenewal, Pages
  <2>2. \A z \in Subjects \ {req[r].subject} : open'[z] = open[z]
    BY <1>4, <1>t DEF SubmitRenewal, TypeOK
  <2>3. rel[req[r].subject].state = "VERIFIED" /\ wary' = wary
    BY <1>4 DEF SubmitRenewal, RenewalDue
  <2>4. PICK x \in States : rel' = [rel EXCEPT ![req[r].subject].state = x]
    BY <1>4, <2>3 DEF SubmitRenewal, States
  <2> QED BY <1>2, <2>1, <2>2, <2>3, <2>4
<1>5. ASSUME NEW r \in Requests, NEW until, MayDecide(r), Verify(r, until),
             \A z \in Subjects \ {req[r].subject} : open'[z] = open[z]
      PROVE  Reported'
  <2>1. wary'[req[r].subject] = {}
    BY <1>5, <1>r, <1>t, ReqKinds DEF Verify, MayDecide, Decisions, TypeOK
  <2>2. \A z \in Subjects \ {req[r].subject} : rel'[z] = rel[z] /\ wary'[z] = wary[z]
    BY <1>5, <1>t DEF Verify, TypeOK
  <2> QED BY <1>5, <2>1, <2>2 DEF Reported
<1>6. ASSUME NEW r \in Requests, Approve(r) \/ Renew(r) PROVE Reported'
  <2>1. \A z \in Subjects \ {req[r].subject} : open'[z] = open[z]
    BY <1>6, <1>t DEF Approve, Renew, TypeOK
  <2> QED BY <1>5, <1>6, <2>1 DEF Approve, Renew
<1>7. ASSUME NEW r \in Requests, NEW states, NEW state \in {"EXPIRED", "REJECTED", "SUSPENDED"},
             NEW conflict \in Admins \cup {Nobody}, Refuse(r, states, state, conflict),
             state = "SUSPENDED" => states \cap {"EXPIRED", "REJECTED", "SUSPENDED"} = {},
             conflict # Nobody => state = "SUSPENDED"
      PROVE  Reported'
  <2> DEFINE s == req[r].subject
  <2>1. s \in Subjects BY <1>7, <1>r, ReqKinds DEF Refuse, MayDecide, Decisions
  <2>2. rel[s] \in Relationships /\ rel[s].state \in states BY <1>7, <1>t, <2>1 DEF TypeOK, Refuse
  <2>3. rel' = [rel EXCEPT ![s] = [rel[s] EXCEPT !.state = state, !.conflict = conflict]]
    BY <1>7 DEF Refuse
  <2>4. rel'[s].state = state /\ rel'[s].conflict = conflict
    BY <1>t, <2>1, <2>2, <2>3 DEF TypeOK, Relationships
  <2>5. wary'[s] = wary[s] \cup ({conflict} \ {Nobody}) /\ open'[s] = open[s] \ Latest(s)
    BY <1>7, <1>t, <2>1 DEF Refuse, TypeOK
  <2>6. \A z \in Subjects \ {s} : rel'[z] = rel[z] /\ wary'[z] = wary[z] /\ open'[z] = open[z]
    BY <1>7, <1>t, <2>3 DEF Refuse, TypeOK
  <2>7. open'[s] = {}
    <3>1. open[s] \subseteq {rel[s].until} /\ rel[s].until \in Nat
      BY <2>1, <2>2 DEF TypeInv, RenewalsAreForThisExpiry, Relationships, Moments
    <3>2. Latest(s) = open[s] BY <3>1 DEF Latest
    <3> QED BY <2>5, <3>2
  <2>8. state = "SUSPENDED" => wary[s] = {}
    BY <1>7, <2>1, <2>2 DEF Reported
  <2>9. wary'[s] # {} => rel'[s].state \in {"EXPIRED", "REJECTED"} \/ wary'[s] \subseteq {rel'[s].conflict}
    BY <1>7, <2>4, <2>5, <2>8
  <2>10. rel'[s].state \in {"EXPIRED", "REJECTED", "SUSPENDED"} BY <1>7, <2>4
  <2> HIDE DEF s
  <2> QED BY <2>6, <2>7, <2>9, <2>10 DEF Reported
<1>8. ASSUME NEW r \in Requests, Reject(r) \/ Suspend(r) \/ End(r) PROVE Reported'
  <2>1. CASE Reject(r) BY <1>7, <2>1 DEF Reject
  <2>2. CASE End(r) BY <1>7, <2>2 DEF End
  <2>3. CASE Suspend(r)
    <3>1. req[r].by \in Admins BY <2>3, <1>r, ReqKinds DEF Suspend, MayDecide, Decisions
    <3>2. PICK c \in Admins \cup {Nobody} : Refuse(r, {"PENDING", "VERIFIED"}, "SUSPENDED", c)
      BY <2>3, <3>1 DEF Suspend
    <3>3. {"PENDING", "VERIFIED"} \cap {"EXPIRED", "REJECTED", "SUSPENDED"} = {} OBVIOUS
    <3> QED BY <1>7, <3>2, <3>3
  <2> QED BY <1>8, <2>1, <2>2, <2>3
<1>9. CASE Reconcile \/ Disable
  <2>1. PICK p \in BOOLEAN, all \in BOOLEAN : Cutoffs(p, all)
    BY <1>9, <1>t DEF Reconcile, Disable, TypeOK
  <2>2. UNCHANGED <<open, wary>> BY <1>9 DEF Reconcile, Disable
  <2>3. ASSUME NEW s \in Subjects PROVE rel'[s] = rel[s] \/ rel'[s].state = "EXPIRED"
    <3>1. rel[s] \in Relationships BY <1>t DEF TypeOK
    <3>2. [rel[s] EXCEPT !.state = "EXPIRED", !.conflict = Nobody].state = "EXPIRED"
      BY <3>1 DEF Relationships
    <3> QED BY <2>1, <3>2 DEF Cutoffs
  <2> QED BY <2>2, <2>3 DEF Reported
<1> QED BY <1>1, <1>3, <1>4, <1>6, <1>8, <1>9
     DEF Next, vars, world, VerifyEmail, EligibilityEnds, TokenLapses, OpenRelationship,
         OpenHandoff, IssueBegins, LookUp, AdminTransition, IssueMinorCredential, OpenSession,
         ProposeEmail, RecoveryEmail, Offer, ConfirmIdentity, Abort, Enable, Tick, EmailTaken

\* Nobody who reported a conflict of interest verifies that relationship before
\* somebody else has (ConflictsAreRespected): neither the deadline nor a
\* rejection in between forgets who may not.
THEOREM ConflictsBind == Spec => ConflictsAreRespected
<1>1. Init => Reported BY DEF Init, Reported
<1>2. ASSUME TypeInv, Reported, [Next]_vars
      PROVE  [\A r \in Requests :
               req[r].step = "deciding" /\ req'[r] = Idle =>
                 LET s == req[r].subject IN
                 rel'[s].until # rel[s].until => req[r].by \notin wary[s]]_vars
  <2>r. req \in [Requests -> Reqs] BY <1>2 DEF TypeInv, TypeOK, Reqs
  <2> SUFFICES ASSUME NEW r \in Requests, req[r].step = "deciding", req'[r] = Idle,
                      rel'[req[r].subject].until # rel[req[r].subject].until,
                      req[r].by \in wary[req[r].subject]
               PROVE  FALSE
    OBVIOUS
  <2> DEFINE s == req[r].subject
  <2>1. s \in Subjects BY <2>r, ReqKinds DEF Decisions
  <2>2. PICK q \in Requests, until \in Moments :
               /\ MayDecide(q) /\ Verify(q, until) /\ req[q].subject = s
               /\ MayApprove(s) \/ open[s] # {}
    BY <1>2, <2>1, OnlyDecisionsExtend
  <2>3. q = r
    <3>1. PICK C, D : req' = [Touched({s}, {}, C, D) EXCEPT ![q] = Idle]
      BY <2>2 DEF Verify, ClearCredential
    <3>2. Touched({s}, {}, C, D) \in [Requests -> Reqs] BY <2>r, TouchedTyping
    <3>3. SUFFICES ASSUME q # r PROVE FALSE OBVIOUS
    <3>4. Touched({s}, {}, C, D)[r] = Idle BY <3>1, <3>2, <3>3
    <3> QED BY <2>r, <3>4, TouchedReqs DEF Idle
  <2>4. open[s] = {} /\ (rel[s].state \in {"EXPIRED", "REJECTED"} \/ req[r].by = rel[s].conflict)
    BY <1>2, <2>1 DEF Reported
  <2>5. rel[s].conflict # req[r].by BY <2>2, <2>3 DEF MayDecide
  <2> QED BY <2>2, <2>4, <2>5 DEF MayApprove
<1> QED BY <1>1, <1>2, ReportedStep, TypingAndAnchors, PTL DEF Spec, ConflictsAreRespected

=============================================================================
