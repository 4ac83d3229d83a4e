-------------------------- MODULE GuardianAuthority --------------------------
(***************************************************************************)
(* A guardian's authority over a minor, the minor's own login, and the     *)
(* hand-over of the account at the eighteenth birthday: the SQL routines   *)
(* guardian_authority_* and guardian_age_handoff_*, the pages that call    *)
(* them, and the worker that reconciles the cutoffs every minute.          *)
(*                                                                         *)
(* Every routine takes an advisory lock before it reads its rows and keeps *)
(* it to the end, so it is one step; the reconciler takes both locks.  Two *)
(* statements take no such lock: IssueMinorCredential, which keeps what    *)
(* its snapshot said of the authority, and the wrapper of the              *)
(* administrator's transition, which looks at the policy before the lock.  *)
(*                                                                         *)
(* A version is kept as what it is compared with: a page or a session is   *)
(* fresh as long as the row's version is still the one it carries.         *)
(* Administrators here are those who are not of the family.                *)
(***************************************************************************)
EXTENDS Naturals, FiniteSets

CONSTANTS
  Subjects,          \* minors, each with one relationship (UNIQUE)
  Birthday,          \* [Subjects -> Nat]: when each comes of age
  Admins, Nobody,
  Emails, NoEmail,
  Requests,
  Year,              \* validity_days and the 12 months of a renewal
  Window,            \* the 30 days before an expiry or a birthday
  MaxNow             \* bound: the last moment

ASSUME ConstantsAssumption ==
  /\ Birthday \in [Subjects -> Nat]
  /\ NoEmail \notin Emails /\ Nobody \notin Admins
  /\ {"guardian", "young"} \cap Admins = {}
  /\ Year \in Nat \ {0} /\ Window \in Nat /\ Window < Year
  /\ MaxNow \in Nat

VARIABLES
  now,
  policy,    \* the policy and the intake gate are enabled and bound
  able,      \* the guardian is an active adult account
  rel,       \* guardian_authority_relationships
  asked,     \* expiry anchors with a renewal request
  open,      \* those whose latest event is SUBMITTED
  account,   \* the subject's users row; cred: password_hash is set
  handoff,   \* guardian_age_handoffs
  token,     \* address of the unconsumed e-mail token
  taken,     \* addresses of other accounts
  proven,    \* history: addresses whose token somebody has opened
  wary,      \* history: who reported a conflict since the last verification
  req        \* local state of each request

world == <<now, policy, able, taken>>
vars == <<world, rel, asked, open, account, handoff, token, proven, wary, req>>

States == {"NONE", "PENDING", "VERIFIED", "SUSPENDED", "EXPIRED", "REJECTED"}
Stages == {"NONE", "PENDING", "EMAIL_PENDING", "EMAIL_VERIFIED",
           "IDENTITY_CONFIRMED", "READY", "RECOVERY_REQUIRED",
           "EMAIL_COLLISION", "COMPLETED"}
Recovering == {"RECOVERY_REQUIRED", "EMAIL_COLLISION"}

\* verified_until and review_due_at, which are always set together; 0 is NULL.
Moments == 0..(MaxNow + Year + Window)

Relationships == [state : States, until : Moments, conflict : Admins \cup {Nobody}]
Accounts == [dependent : BOOLEAN, cred : BOOLEAN, email : Emails \cup {NoEmail}]
Handoffs == [status : Stages, email : Emails \cup {NoEmail},
             verified : BOOLEAN, identity : BOOLEAN]

Idle == [step |-> "idle"]
Pages == [step : {"relationship"}, subject : Subjects,
          by : Admins \cup {"guardian"}, shown : Relationships, fresh : BOOLEAN]
Decisions == [step : {"deciding"}, subject : Subjects, by : Admins,
              shown : Relationships, fresh : BOOLEAN, at : 0..MaxNow]
HandoffPages == [step : {"handoff"}, subject : Subjects,
                 by : Admins \cup {"young"}, shown : Handoffs, fresh : BOOLEAN]
Logins == [step : {"comparing", "session"}, subject : Subjects, fresh : BOOLEAN]
Issues == [step : {"issuing"}, subject : Subjects]

TypeOK ==
  /\ now \in 0..MaxNow
  /\ policy \in BOOLEAN
  /\ able \in [Subjects -> BOOLEAN]
  /\ rel \in [Subjects -> Relationships]
  /\ asked \in [Subjects -> SUBSET Moments]
  /\ open \in [Subjects -> SUBSET Moments]
  /\ account \in [Subjects -> Accounts]
  /\ handoff \in [Subjects -> Handoffs]
  /\ token \in [Subjects -> Emails \cup {NoEmail}]
  /\ taken \in SUBSET Emails
  /\ proven \in [Subjects -> SUBSET Emails]
  /\ wary \in [Subjects -> SUBSET Admins]
  /\ req \in [Requests -> {Idle} \cup Pages \cup Decisions \cup HandoffPages
                            \cup Logins \cup Issues]

Init ==
  /\ now = 0 /\ policy = TRUE /\ taken = {}
  /\ able = [s \in Subjects |-> TRUE]
  /\ rel = [s \in Subjects |-> [state |-> "NONE", until |-> 0, conflict |-> Nobody]]
  /\ asked = [s \in Subjects |-> {}]
  /\ open = [s \in Subjects |-> {}]
  /\ account = [s \in Subjects |->
                  [dependent |-> TRUE, cred |-> FALSE, email |-> NoEmail]]
  /\ handoff = [s \in Subjects |-> [status |-> "NONE", email |-> NoEmail,
                                    verified |-> FALSE, identity |-> FALSE]]
  /\ token = [s \in Subjects |-> NoEmail]
  /\ proven = [s \in Subjects |-> {}]
  /\ wary = [s \in Subjects |-> {}]
  /\ req = [r \in Requests |-> Idle]

-----------------------------------------------------------------------------
Adult(s) == now >= Birthday[s]
Near(s)  == now + Window >= Birthday[s]

Lasts(s) == rel[s].until = 0 \/ now < rel[s].until

\* guardian_authority_current
Current(s) ==
  /\ rel[s].state = "VERIFIED" /\ policy /\ Lasts(s)
  /\ able[s] /\ account[s].dependent /\ ~Adult(s)

InUse(s) == taken \cup {account[t].email : t \in Subjects \ {s}}

\* What a step does to everybody else: it raises the version of the
\* relationships in R, the hand-overs in H and the credentials in C, and
\* deletes the sessions of D.
Outdated(q, R, H, C) ==
  \/ q.step \in {"relationship", "deciding"} /\ q.subject \in R
  \/ q.step = "handoff" /\ q.subject \in H
  \/ q.step \in {"comparing", "session"} /\ q.subject \in C

Touched(R, H, C, D) ==
  [r \in Requests |->
     IF req[r].step = "session" /\ req[r].subject \in D THEN Idle
     ELSE IF Outdated(req[r], R, H, C) THEN [req[r] EXCEPT !.fresh = FALSE]
     ELSE req[r]]

Goto(r, state) == req' = [req EXCEPT ![r] = state]

-----------------------------------------------------------------------------
(* The relationship. *)

\* guardian_authority_create_dependent
CreateDependent(s) ==
  /\ rel[s].state = "NONE" /\ policy /\ able[s] /\ ~Adult(s)
  /\ rel' = [rel EXCEPT ![s].state = "PENDING"]
  /\ UNCHANGED <<world, asked, open, account, handoff, token, proven, wary, req>>

\* The dashboard of the guardian, or the detail page of an administrator.
OpenRelationship(r, s, actor) ==
  /\ req[r] = Idle /\ rel[s].state # "NONE"
  /\ Goto(r, [step |-> "relationship", subject |-> s, by |-> actor,
              shown |-> rel[s], fresh |-> TRUE])
  /\ UNCHANGED <<world, rel, asked, open, account, handoff, token, proven, wary>>

\* The wrapper looks at the policy; the inner routine reads the clock, and then
\* waits for the lock.
AdminTransition(r) ==
  /\ req[r].step = "relationship" /\ req[r].by # "guardian" /\ policy
  /\ LET q == req[r] IN
       Goto(r, [step |-> "deciding", subject |-> q.subject, by |-> q.by,
                shown |-> q.shown, fresh |-> q.fresh, at |-> now])
  /\ UNCHANGED <<world, rel, asked, open, account, handoff, token, proven, wary>>

\* Mutant: a conflict binds nobody.
AnyoneMayDecide(r) == req[r].step = "deciding" /\ req[r].fresh /\ policy

\* Mutant: only the wrapper looks at the policy.
NotConflicted(r) == /\ req[r].step = "deciding" /\ req[r].fresh
                    /\ rel[req[r].subject].conflict # req[r].by

\* What the inner routine checks of the version, the person and the policy.
MayDecide(r) ==
  /\ req[r].step = "deciding" /\ req[r].fresh
  /\ rel[req[r].subject].conflict # req[r].by
  /\ policy

Eligible(r) ==
  LET s == req[r].subject IN
  req[r].at < Birthday[s] /\ able[s] /\ account[s].dependent

\* Mutant: the sessions are deleted, but the credential keeps its version.
ClearSessions(s, R) ==
  /\ account' = [account EXCEPT ![s].cred = FALSE]
  /\ req' = [Touched({s}, {}, {}, {s}) EXCEPT ![R] = Idle]

\* The minor's login and sessions end with each end, pause or start of authority.
ClearCredential(s, R) ==
  /\ account' = [account EXCEPT ![s].cred = FALSE]
  /\ req' = [Touched({s}, {}, {s}, {s}) EXCEPT ![R] = Idle]

Verify(r, until) ==
  LET s == req[r].subject IN
  /\ Eligible(r)
  /\ req[r].at < until               \* CHECK verified_at < review_due_at
  /\ rel' = [rel EXCEPT ![s] = [state |-> "VERIFIED", until |-> until,
                                conflict |-> Nobody]]
  /\ wary' = [wary EXCEPT ![s] = {}]
  /\ IF rel[s].state = "VERIFIED"
     THEN req' = [Touched({s}, {}, {}, {}) EXCEPT ![r] = Idle] /\ UNCHANGED account
     ELSE ClearCredential(s, r)

\* Mutant: the open renewal is not looked for.
MayApproveAnyway(s) == rel[s].state \in {"PENDING", "SUSPENDED"}

MayApprove(s) == rel[s].state \in {"PENDING", "SUSPENDED"} /\ open[s] = {}

Approve(r) ==
  LET s == req[r].subject IN
  /\ MayDecide(r)
  /\ MayApprove(s)
  /\ Verify(r, req[r].at + Year)
  /\ UNCHANGED <<world, asked, open, handoff, token, proven>>

\* The latest renewal that is still open.
Latest(s) == {a \in open[s] : \A b \in open[s] : b <= a}

Renew(r) ==
  LET s == req[r].subject IN
  /\ MayDecide(r)
  /\ rel[s].state \in {"VERIFIED", "SUSPENDED", "EXPIRED"}
  /\ \E a \in Latest(s) :
       /\ Verify(r, a + Year)
       /\ open' = [open EXCEPT ![s] = @ \ {a}]
  /\ UNCHANGED <<world, asked, handoff, token, proven>>

\* REJECT, SUSPEND and END close an open renewal and clear the credential.
Refuse(r, states, state, conflict) ==
  LET s == req[r].subject IN
  /\ MayDecide(r) /\ rel[s].state \in states
  /\ rel' = [rel EXCEPT ![s] = [@ EXCEPT !.state = state, !.conflict = conflict]]
  /\ wary' = [wary EXCEPT ![s] = @ \cup ({conflict} \ {Nobody})]
  /\ open' = [open EXCEPT ![s] = @ \ Latest(s)]
  /\ ClearCredential(s, r)
  /\ UNCHANGED <<world, asked, handoff, token, proven>>

Reject(r)  == Refuse(r, {"PENDING", "SUSPENDED"}, "REJECTED", Nobody)
Suspend(r) ==
  /\ MayDecide(r)
  /\ \E c \in {Nobody, req[r].by} : Refuse(r, {"PENDING", "VERIFIED"}, "SUSPENDED", c)
End(r)     == Refuse(r, {"VERIFIED", "SUSPENDED"}, "EXPIRED", Nobody)

\* Mutant: a renewal may be sent at any time.
NotYetOver(s) == rel[s].state = "VERIFIED" /\ now < rel[s].until

RenewalDue(s) == /\ rel[s].state = "VERIFIED"
                 /\ now < rel[s].until /\ rel[s].until <= now + Window

\* guardian_authority_submit_renewal, NADA_MUDOU or DADOS_MUDARAM.
SubmitRenewal(r, changed) ==
  LET s == req[r].subject IN
  /\ req[r].step = "relationship" /\ req[r].by = "guardian" /\ req[r].fresh
  /\ RenewalDue(s) /\ Current(s) /\ rel[s].until \notin asked[s]
  /\ asked' = [asked EXCEPT ![s] = @ \cup {rel[s].until}]
  /\ open' = [open EXCEPT ![s] = @ \cup {rel[s].until}]
  /\ rel' = [rel EXCEPT ![s].state = IF changed THEN "SUSPENDED" ELSE @]
  /\ IF changed THEN ClearCredential(s, r)
     ELSE req' = [Touched({s}, {}, {}, {}) EXCEPT ![r] = Idle] /\ UNCHANGED account
  /\ UNCHANGED <<world, handoff, token, proven, wary>>

-----------------------------------------------------------------------------
(* The minor's login, and the sessions opened with it. *)

\* The handler has found the member under current authority, hashed the
\* password, and begun the UPDATE, whose snapshot still says so.
IssueBegins(r, s) ==
  /\ req[r] = Idle /\ Current(s)
  /\ Goto(r, [step |-> "issuing", subject |-> s])
  /\ UNCHANGED <<world, rel, asked, open, account, handoff, token, proven, wary>>

\* It waits for the users row and rechecks that row alone.
IssueMinorCredential(r) ==
  LET s == req[r].subject IN
  /\ req[r].step = "issuing" /\ account[s].dependent
  /\ account' = [account EXCEPT ![s].cred = TRUE]
  /\ req' = [Touched({}, {}, {s}, {}) EXCEPT ![r] = Idle]
  /\ UNCHANGED <<world, rel, asked, open, handoff, token, proven, wary>>

\* GetActiveDependentByLoginID, before the password is compared.
LookUp(r, s) ==
  /\ req[r] = Idle /\ Current(s) /\ account[s].cred
  /\ Goto(r, [step |-> "comparing", subject |-> s, fresh |-> TRUE])
  /\ UNCHANGED <<world, rel, asked, open, account, handoff, token, proven, wary>>

OpenSession(r) ==
  /\ req[r].step = "comparing"
  /\ Goto(r, [req[r] EXCEPT !.step = "session"])
  /\ UNCHANGED <<world, rel, asked, open, account, handoff, token, proven, wary>>

-----------------------------------------------------------------------------
(* The hand-over at eighteen. *)

\* The young person needs an accepted session; an administrator does not.
OpenHandoff(r, s, actor) ==
  /\ req[r] = Idle /\ handoff[s].status # "NONE"
  /\ actor = "young" => Current(s) /\ account[s].cred
  /\ Goto(r, [step |-> "handoff", subject |-> s, by |-> actor,
              shown |-> handoff[s], fresh |-> TRUE])
  /\ UNCHANGED <<world, rel, asked, open, account, handoff, token, proven, wary>>

\* Mutant: an address that replaces a verified one counts as verified.
SuccessorOf(h, e) == [h EXCEPT !.email = e, !.status = "EMAIL_PENDING"]

Proposed(h, e) ==
  [h EXCEPT !.email = e, !.verified = FALSE, !.status = "EMAIL_PENDING"]

FreeFor(s, e) ==
  /\ e \notin InUse(s)
  /\ \A t \in Subjects \ {s} : handoff[t].email = e => handoff[t].status = "COMPLETED"

\* A new address replaces the token of the one before.
Offer(r, e) ==
  LET s == req[r].subject IN
  /\ req[r].step = "handoff" /\ req[r].fresh /\ FreeFor(s, e)
  /\ handoff' = [handoff EXCEPT ![s] = Proposed(@, e)]
  /\ token' = [token EXCEPT ![s] = e]
  /\ req' = [Touched({}, {s}, {}, {}) EXCEPT ![r] = Idle]
  /\ UNCHANGED <<world, rel, asked, open, account, proven, wary>>

ProposeEmail(r, e) ==
  LET s == req[r].subject IN
  /\ req[r].step = "handoff" /\ req[r].by = "young"
  /\ account[s].dependent /\ account[s].cred /\ Near(s) /\ ~Adult(s)
  /\ Offer(r, e)

RecoveryEmail(r, e) ==
  LET s == req[r].subject IN
  /\ req[r].step = "handoff" /\ req[r].by # "young"
  /\ handoff[s].status \in Recovering /\ handoff[s].identity
  /\ Offer(r, e)

\* The link in the mail; every write of the token or the row consumes it.
VerifyEmail(s) ==
  /\ token[s] # NoEmail
  /\ handoff[s].status # "COMPLETED" /\ handoff[s].email = token[s]
  /\ token[s] \notin InUse(s)
  /\ token' = [token EXCEPT ![s] = NoEmail]
  /\ proven' = [proven EXCEPT ![s] = @ \cup {token[s]}]
  /\ handoff' = [handoff EXCEPT ![s] = [@ EXCEPT !.verified = TRUE,
        !.status = IF handoff[s].identity THEN "READY" ELSE "EMAIL_VERIFIED"]]
  /\ req' = Touched({}, {s}, {}, {})
  /\ UNCHANGED <<world, rel, asked, open, account, wary>>

ConfirmIdentity(r) ==
  LET s == req[r].subject IN
  /\ req[r].step = "handoff" /\ req[r].by # "young" /\ req[r].fresh
  /\ handoff[s].status # "COMPLETED" /\ ~handoff[s].identity
  /\ handoff' = [handoff EXCEPT ![s] = [@ EXCEPT !.identity = TRUE,
        !.status = IF handoff[s].status \in Recovering THEN handoff[s].status
                   ELSE IF handoff[s].verified THEN "READY"
                   ELSE "IDENTITY_CONFIRMED"]]
  /\ req' = [Touched({}, {s}, {}, {}) EXCEPT ![r] = Idle]
  /\ UNCHANGED <<world, rel, asked, open, account, token, proven, wary>>

-----------------------------------------------------------------------------
(* The cutoffs; p is whether the policy is operational when they run. *)

StartsHandoff(s, p) ==
  /\ handoff[s].status = "NONE" /\ account[s].dependent /\ account[s].cred
  /\ Near(s) /\ rel[s].state = "VERIFIED" /\ now < rel[s].until /\ p /\ able[s]

Begun(s, p) ==
  IF StartsHandoff(s, p) THEN [handoff[s] EXCEPT !.status = "PENDING"] ELSE handoff[s]

\* The hand-overs whose birthday has come.
Reaches(s, p) ==
  /\ Begun(s, p).status \notin {"NONE", "COMPLETED"}
  /\ account[s].dependent /\ Adult(s)

NextStatus(s) ==
  IF handoff[s].email \in InUse(s) THEN "EMAIL_COLLISION"
  ELSE IF handoff[s].verified /\ handoff[s].identity THEN "COMPLETED"
  ELSE "RECOVERY_REQUIRED"

\* The UPDATE of users makes an adult of a row without a password, which
\* users_identity_shape refuses: only unique_violation is caught, so the whole
\* transaction is undone.
Blocked == \E s \in Subjects :
             Reaches(s, policy) /\ NextStatus(s) = "COMPLETED" /\ ~account[s].cred

Lapsed(s, p) == \/ ~p \/ ~able[s] \/ ~account[s].dependent \/ Adult(s)
                \/ rel[s].until # 0 /\ rel[s].until <= now

Handed(s, p) ==
  Reaches(s, p) /\ rel[s].state \in {"PENDING", "VERIFIED", "SUSPENDED"}

\* Mutant: a suspended relationship is left alone.
CutOffVerified(s, p) == ~Reaches(s, p) /\ rel[s].state = "VERIFIED" /\ Lapsed(s, p)

CutOff(s, p) ==
  ~Reaches(s, p) /\ rel[s].state \in {"VERIFIED", "SUSPENDED"} /\ Lapsed(s, p)

\* Mutant: a cutoff leaves the version as it was.
OutdatedByMajority(p) == {s \in Subjects : Handed(s, p)}

\* Whose relationship gets a new version.
OutdatedByCutoff(p) == {s \in Subjects : Handed(s, p) \/ CutOff(s, p)}

Settled(s, p) ==
  IF Reaches(s, p) /\ NextStatus(s) = "COMPLETED"
  THEN [account[s] EXCEPT !.dependent = FALSE, !.email = handoff[s].email]
  ELSE account[s]

\* Mutant: a completed hand-over leaves the credential version as it was.
OnlyMinorsLogOut(s, p) == Reaches(s, p) /\ handoff[s].status \notin Recovering
                          /\ NextStatus(s) # "COMPLETED"

\* A completed hand-over keeps the password and gets a new credential version.
LogsOut(s, p) ==
  Reaches(s, p) /\ (NextStatus(s) = "COMPLETED" \/ handoff[s].status \notin Recovering)

\* guardian_authority_reconcile_cutoffs, which calls
\* guardian_age_handoff_reconcile first; all: every other dependent is cleared too.
Cutoffs(p, all) ==
  LET Cleared == {s \in Subjects : CutOff(s, p) \/ (all /\ Settled(s, p).dependent)}
  IN
  /\ ~Blocked
  /\ rel' = [s \in Subjects |->
       IF Handed(s, p) \/ CutOff(s, p)
       THEN [rel[s] EXCEPT !.state = "EXPIRED", !.conflict = Nobody] ELSE rel[s]]
  /\ handoff' = [s \in Subjects |->
       IF Reaches(s, p) THEN [Begun(s, p) EXCEPT !.status = NextStatus(s)]
       ELSE Begun(s, p)]
  /\ account' = [s \in Subjects |->
       IF s \in Cleared THEN [account[s] EXCEPT !.cred = FALSE] ELSE Settled(s, p)]
  /\ req' = Touched(OutdatedByCutoff(p),
                    {s \in Subjects : handoff'[s] # handoff[s]},
                    {s \in Cleared : CutOff(s, p) \/ account[s].cred}
                      \cup {s \in Subjects : LogsOut(s, p)},
                    Cleared \cup {s \in Subjects : Reaches(s, p)})

\* Worker.reconcile, every minute.
Reconcile ==
  /\ Cutoffs(policy, FALSE)
  /\ UNCHANGED <<world, asked, open, token, proven, wary>>

\* guardian_ops.disable, and release_disable_and_bind at every release.
Disable ==
  /\ policy' = FALSE
  /\ Cutoffs(FALSE, TRUE)
  /\ UNCHANGED <<now, able, taken, asked, open, token, proven, wary>>

\* guardian_ops.enable, after the counts of preflight.
Enable ==
  /\ ~policy
  /\ \A s \in Subjects : /\ rel[s].state \notin {"VERIFIED", "SUSPENDED"}
                          /\ account[s].dependent => ~account[s].cred
  /\ \A r \in Requests : req[r].step = "session" => ~account[req[r].subject].dependent
  /\ policy' = TRUE
  /\ UNCHANGED <<now, able, taken, rel, asked, open, account, handoff, token,
                 proven, wary, req>>

-----------------------------------------------------------------------------
(* What happens around them. *)

Tick ==
  /\ now < MaxNow /\ now' = now + 1
  /\ UNCHANGED <<policy, able, taken, rel, asked, open, account, handoff, token,
                 proven, wary, req>>

EligibilityEnds(s) ==
  /\ able[s] /\ able' = [able EXCEPT ![s] = FALSE]
  /\ UNCHANGED <<now, policy, taken, rel, asked, open, account, handoff, token,
                 proven, wary, req>>

EmailTaken(e) ==
  /\ e \notin taken \cup {account[s].email : s \in Subjects}
  /\ taken' = taken \cup {e}
  /\ UNCHANGED <<now, policy, able, rel, asked, open, account, handoff, token,
                 proven, wary, req>>

TokenLapses(s) ==
  /\ token[s] # NoEmail /\ token' = [token EXCEPT ![s] = NoEmail]
  /\ UNCHANGED <<world, rel, asked, open, account, handoff, proven, wary, req>>

\* A page is closed, a statement fails or a process dies.
Abort(r) ==
  /\ req[r] # Idle /\ Goto(r, Idle)
  /\ UNCHANGED <<world, rel, asked, open, account, handoff, token, proven, wary>>

Next ==
  \/ \E s \in Subjects : \/ CreateDependent(s) \/ VerifyEmail(s)
                          \/ EligibilityEnds(s) \/ TokenLapses(s)
  \/ \E r \in Requests :
       \/ \E s \in Subjects :
            \/ \E actor \in Admins \cup {"guardian"} : OpenRelationship(r, s, actor)
            \/ \E actor \in Admins \cup {"young"} : OpenHandoff(r, s, actor)
            \/ IssueBegins(r, s) \/ LookUp(r, s)
       \/ AdminTransition(r) \/ Approve(r) \/ Renew(r) \/ Reject(r)
       \/ Suspend(r) \/ End(r)
       \/ \E changed \in BOOLEAN : SubmitRenewal(r, changed)
       \/ IssueMinorCredential(r) \/ OpenSession(r)
       \/ \E e \in Emails : ProposeEmail(r, e) \/ RecoveryEmail(r, e)
       \/ ConfirmIdentity(r) \/ Abort(r)
  \/ Reconcile \/ Disable \/ Enable \/ Tick
  \/ \E e \in Emails : EmailTaken(e)

Spec == Init /\ [][Next]_vars

\* The worker's ticker fires every minute, whatever the last reconciliation did.
FairSpec == Spec /\ WF_vars(Reconcile)

-----------------------------------------------------------------------------
(* Properties. *)

\* The one open renewal is about the expiry the relationship still has, so that
\* RENEW extends the period the guardian was asked about.
RenewalsAreForThisExpiry == \A s \in Subjects : open[s] \subseteq {rel[s].until}

\* Closing the policy ends all authority, and no decision that had passed the
\* wrapper's check brings any back before the policy is open again.
NoAuthorityWithoutPolicy ==
  ~policy => \A s \in Subjects : rel[s].state \notin {"VERIFIED", "SUSPENDED"}

\* An adult account has an address whose mailed link was opened, and an identity
\* an administrator confirmed, in whatever order the steps of the hand-over came.
AdultEmailIsProven ==
  \A s \in Subjects :
    account[s].email # NoEmail =>
      account[s].email \in proven[s] /\ handoff[s].identity

\* A login or a session that carries the current credential version is of a
\* minor whose credential is still there: every cutoff ends them.
SessionsFollowTheCredential ==
  \A r \in Requests :
    req[r].step \in {"comparing", "session"} /\ req[r].fresh =>
      account[req[r].subject].dependent /\ account[req[r].subject].cred

\* Whoever decides on a relationship or a hand-over decides on the row shown:
\* the reconciler and every other writer make the pages of before stale.
DecisionsFollowWhatWasShown ==
  [][\A r \in Requests :
       req[r].step \in {"relationship", "deciding", "handoff"} /\ req'[r] = Idle =>
         LET s == req[r].subject IN
         /\ rel'[s] # rel[s] => req[r].shown = rel[s]
         /\ handoff'[s] # handoff[s] => req[r].shown = handoff[s]]_vars

\* Nobody who reported a conflict of interest verifies that relationship
\* before somebody else has, whatever became of it in between.
ConflictsAreRespected ==
  [][\A r \in Requests :
       req[r].step = "deciding" /\ req'[r] = Idle =>
         LET s == req[r].subject IN
         rel'[s].until # rel[s].until => req[r].by \notin wary[s]]_vars

\* Authority never reaches further than one period and the 30 days a renewal
\* may be early, and is never renewed into what was past when it was decided.
AuthorityIsBounded ==
  [][\A s \in Subjects :
       rel'[s].until # rel[s].until =>
         /\ rel'[s].until <= now + Year + Window
         /\ \E r \in Requests : req[r].step = "deciding" /\ req[r].at < rel'[s].until]_vars

\* What the worker has to do for a subject.
Due(s) ==
  \/ rel[s].state \in {"VERIFIED", "SUSPENDED"} /\ Lapsed(s, policy)
  \/ handoff[s].status \notin {"NONE", "COMPLETED"} \cup Recovering /\ Adult(s)

\* Authority whose conditions are over is ended, and a hand-over whose birthday
\* has come is settled, unless the completion of one is refused by the database.
CutoffsUnlessBlocked == \A s \in Subjects : Due(s) ~> (~Due(s) \/ Blocked)

\* "Worker materializes time-based authority cutoffs so credentials and indexed
\* sessions are removed even when nobody opens the relationship or tries to log
\* in": as above, without the exception.
CutoffsAreMaterialized == \A s \in Subjects : Due(s) ~> ~Due(s)
=============================================================================
