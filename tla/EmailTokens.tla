---------------------------- MODULE EmailTokens ----------------------------
(***************************************************************************)
(* Mailed links: the tokens that confirm an address or reset a password,   *)
(* the outbox rows that carry them, the delivery workers, the account row  *)
(* they change and the sessions that row admits.                           *)
(*                                                                         *)
(* A token and its outbox row are inserted by one statement sequence and   *)
(* share an identity.  PostgreSQL runs every statement at READ COMMITTED:  *)
(* a statement sees the rows committed when it began, waits for the row    *)
(* locks of others and then rechecks only the row it waited for.  A        *)
(* transaction that locks several rows is therefore several steps here:    *)
(* held[r] is what request r has locked, its writes appear at its commit,  *)
(* and Abort is a rollback (a deadlock victim, a closed connection).  A    *)
(* transaction that locks one row is one step.                             *)
(*                                                                         *)
(* Clocks are abstracted to the moments a deadline passes: Ages, RetryDue, *)
(* GoesStale.                                                              *)
(***************************************************************************)
EXTENDS Naturals, FiniteSets

CONSTANTS
  Users,          \* active adult accounts
  Emails, Passwords,
  FirstEmail,     \* [Users -> Emails]: the address an account registered with
  FirstPassword,  \* [Users -> Passwords]
  Tokens,         \* bound: the tokens there are to issue
  UserOf, KindOf, \* token -> user_id; token -> the table it is a row of
  Requests,       \* HTTP requests in flight
  Visitors,       \* browsers
  Workers,        \* delivery workers, one per app process
  NoToken,
  MaxAttempts,    \* emailverification.MaxAttempts
  MaxPerHour,     \* reset tokens of an account in an hour
  MaxVersion,     \* bound: operator password changes stop there
  MaxFaults       \* bound: crashes, lost replies and suspended workers

Kinds == {"EMAIL_VERIFICATION", "PASSWORD_RESET"}

ASSUME ConstantsAssumption ==
  /\ FirstEmail \in [Users -> Emails]
  /\ \A u, v \in Users : FirstEmail[u] = FirstEmail[v] => u = v
  /\ FirstPassword \in [Users -> Passwords]
  /\ UserOf \in [Tokens -> Users]
  /\ KindOf \in [Tokens -> Kinds]
  /\ NoToken \notin Tokens
  /\ MaxAttempts \in Nat \ {0} /\ MaxPerHour \in Nat \ {0}
  /\ MaxVersion \in Nat /\ MaxFaults \in Nat

VARIABLES
  account,   \* the users row: email, email_verified_at, is_active, password_hash,
             \* credential_version, and rev for updated_at
  proven,    \* history: address of the link that last verified the account
  link,      \* consumed_at of a token: LIVE while it is null; USED and VOID
             \* tell a consumption from a replacement
  uses,      \* history: how often a link changed the account
  address,   \* the email the token was issued for
  age,       \* 0 in its first minute, 2 once expired
  mail,      \* email_outbox.status
  attempts,  \* email_outbox.attempts
  due,       \* next_attempt_at has passed
  stale,     \* claimed_at is more than StaleAfter ago
  sends,     \* history: copies the SMTP server accepted
  req,       \* local state of each request
  held,      \* locks each request's transaction holds
  worker,    \* local state of each delivery worker
  session,   \* local state of a login, then the stored session
  faults     \* history: faults so far

accountVars == <<account, proven>>
linkVars == <<link, uses, address, age>>
mailVars == <<mail, attempts, due, stale>>
vars == <<accountVars, linkVars, mailVars, sends, req, held, worker, session, faults>>

Open  == {"PENDING", "SENDING"}
Final == {"SENT", "FAILED", "CANCELLED"}

Accounts == [email : Emails, verified : BOOLEAN, active : BOOLEAN,
             password : Passwords, version : Nat, rev : Nat]

IdleRequest == [step |-> "idle"]
Issuing ==
  [step : {"form", "issue", "mail", "token"}, op : {"RESEND", "FORGOT", "CHANGE"},
   user : Users, email : Emails, rev : Nat]
Following ==
  [step : {"click", "rows"}, op : Kinds, token : Tokens, password : Passwords]

UserRow(u)      == <<"user", u>>
TokenRow(t)     == <<"token", t>>
MailRow(t)      == <<"mail", t>>
AddressEntry(e) == <<"address", e>>      \* of users_email_uidx
IssueLock(k, u) == <<k, u>>              \* pg_advisory_xact_lock
Locks ==
  ({"user"} \X Users) \cup ({"token", "mail"} \X Tokens)
    \cup ({"address"} \X Emails) \cup (Kinds \X Users)

IdleWorker == [step |-> "idle", token |-> NoToken, attempt |-> 0]
Delivering == {"sending", "accepted", "temporary", "permanent"}

WorkerStates ==
  [step : {"idle", "claiming"} \cup Delivering, token : Tokens \cup {NoToken},
   attempt : Nat]

NoSession == [step |-> "none"]
Sessions  == [step : {"checked", "in"}, user : Users, version : Nat,
              password : Passwords]

TypeOK ==
  /\ account \in [Users -> Accounts]
  /\ proven \in [Users -> Emails]
  /\ link \in [Tokens -> {"NONE", "LIVE", "USED", "VOID"}]
  /\ uses \in [Tokens -> Nat]
  /\ address \in [Tokens -> Emails]
  /\ age \in [Tokens -> 0..2]
  /\ mail \in [Tokens -> {"NONE"} \cup Open \cup Final]
  /\ attempts \in [Tokens -> Nat]
  /\ due \in [Tokens -> BOOLEAN]
  /\ stale \in [Tokens -> BOOLEAN]
  /\ sends \in [Tokens -> Nat]
  /\ req \in [Requests -> Issuing \cup Following \cup {IdleRequest}]
  /\ held \in [Requests -> SUBSET Locks]
  /\ worker \in [Workers -> WorkerStates]
  /\ session \in [Visitors -> Sessions \cup {NoSession}]
  /\ faults \in 0..MaxFaults

\* An account as RegisterAdult leaves it.
Init ==
  /\ account = [u \in Users |->
       [email |-> FirstEmail[u], verified |-> FALSE, active |-> TRUE,
        password |-> FirstPassword[u], version |-> 1, rev |-> 0]]
  /\ proven = FirstEmail
  /\ link = [t \in Tokens |-> "NONE"]
  /\ uses = [t \in Tokens |-> 0]
  /\ address = [t \in Tokens |-> FirstEmail[UserOf[t]]]
  /\ age = [t \in Tokens |-> 0]
  /\ mail = [t \in Tokens |-> "NONE"]
  /\ attempts = [t \in Tokens |-> 0]
  /\ due = [t \in Tokens |-> FALSE]
  /\ stale = [t \in Tokens |-> FALSE]
  /\ sends = [t \in Tokens |-> 0]
  /\ req = [r \in Requests |-> IdleRequest]
  /\ held = [r \in Requests |-> {}]
  /\ worker = [w \in Workers |-> IdleWorker]
  /\ session = [v \in Visitors |-> NoSession]
  /\ faults = 0

Free(l) == \A r \in Requests : l \notin held[r]
FreeFor(r, ls) == \A q \in Requests \ {r} : ls \cap held[q] = {}
Lock(r, ls) == held' = [held EXCEPT ![r] = @ \cup ls]
Goto(r, step) == req' = [req EXCEPT ![r].step = step]
Starts(r, record) ==
  /\ req[r] = IdleRequest
  /\ req' = [req EXCEPT ![r] = record]
  /\ UNCHANGED <<accountVars, linkVars, mailVars, sends, held, worker, session, faults>>
\* The transaction ends and releases its locks; what it wrote is said elsewhere.
Ends(r) ==
  /\ req' = [req EXCEPT ![r] = IdleRequest]
  /\ held' = [held EXCEPT ![r] = {}]
\* The transaction goes on and writes nothing that others can see yet.
Unwritten == UNCHANGED <<accountVars, linkVars, mailVars, sends, worker, session, faults>>
\* Frame of a step no request and no worker takes part in.
Aside == UNCHANGED <<linkVars, mailVars, sends, req, held, worker, faults>>

\* Every UPDATE of users moves updated_at.
Write(u, row) == account' = [account EXCEPT ![u] = [row EXCEPT !.rev = @ + 1]]

\* What ConsumeEmailVerification, ConsumePasswordResetToken and
\* ClaimTokenEmailOutbox all ask of a token and the account it belongs to.
Usable(t) ==
  LET a == account[UserOf[t]] IN
  /\ link[t] = "LIVE" /\ age[t] < 2
  /\ a.active /\ a.email = address[t]

Live(u, k)     == {t \in Tokens : UserOf[t] = u /\ KindOf[t] = k /\ link[t] = "LIVE"}
Unissued(u, k) == {t \in Tokens : UserOf[t] = u /\ KindOf[t] = k /\ link[t] = "NONE"}
Issued(u, k)   == {t \in Tokens : UserOf[t] = u /\ KindOf[t] = k /\ link[t] # "NONE"}

-----------------------------------------------------------------------------
(* Issuing a link.                                                         *)

IssueRequest(op, u, e) ==
  [step |-> "issue", op |-> op, user |-> u, email |-> e, rev |-> account[u].rev]

\* The middleware loaded the account; its address may be old news by the time
\* the link is issued for it.
Resend(r, u) ==
  /\ account[u].active /\ ~account[u].verified
  /\ Starts(r, IssueRequest("RESEND", u, account[u].email))

Forgot(r, u) ==
  /\ account[u].active
  /\ Starts(r, IssueRequest("FORGOT", u, account[u].email))

\* An administrator opens the profile form and will submit another address.
OpenForm(r, u, e) ==
  /\ e # account[u].email
  /\ Starts(r, [IssueRequest("CHANGE", u, e) EXCEPT !.step = "form"])

\* UpdateMemberIdentity: the row lock, the version of the form, the unique
\* index.  Its row is committed with the new link, or not at all.
ChangeEmail(r) ==
  /\ req[r].step = "form"
  /\ LET u == req[r].user  e == req[r].email IN
     /\ Free(UserRow(u)) /\ Free(AddressEntry(e))
     /\ \/ /\ account[u].rev = req[r].rev
           /\ \A v \in Users : account[v].email # e
           /\ Goto(r, "issue")
           /\ Lock(r, {UserRow(u), AddressEntry(e)})
        \/ /\ account[u].rev # req[r].rev \/ \E v \in Users : account[v].email = e
           /\ Ends(r)
     /\ Unwritten

KindIssued(r) == IF req[r].op = "FORGOT" THEN "PASSWORD_RESET" ELSE "EMAIL_VERIFICATION"

\* Mutant: the limit is off by one.
AtLimit(n) == n <= MaxPerHour

UnderLimit(n) == n < MaxPerHour

\* The checks of issue_email_verification and issue_password_reset, made under
\* the advisory lock of the account.
MayIssue(r) ==
  LET u == req[r].user  issued == Issued(u, KindIssued(r)) IN
  /\ req[r].op # "CHANGE" => \A t \in issued : age[t] > 0
  /\ req[r].op = "FORGOT" =>
       /\ account[u].active /\ account[u].email = req[r].email
       /\ UnderLimit(Cardinality({t \in issued : age[t] < 2}))

BeginIssue(r) ==
  /\ req[r].step = "issue"
  /\ LET lock == IssueLock(KindIssued(r), req[r].user) IN
     /\ Free(lock)
     /\ Unissued(req[r].user, KindIssued(r)) # {}      \* bound
     /\ \/ MayIssue(r) /\ Goto(r, "mail") /\ Lock(r, {lock})
        \/ ~MayIssue(r) /\ Ends(r)
     /\ Unwritten

\* Mutant: only mail nobody has claimed is cancelled.
UnclaimedMail(tokens) == {t \in tokens : mail[t] = "PENDING"}

OpenMail(tokens) == {t \in tokens : mail[t] \in Open}

\* UPDATE email_outbox ... of the tokens that are still unconsumed
CancelOldMail(r) ==
  /\ req[r].step = "mail"
  /\ LET rows == {MailRow(t) : t \in OpenMail(Live(req[r].user, KindIssued(r)))} IN
     FreeFor(r, rows) /\ Lock(r, rows)
  /\ Goto(r, "token")
  /\ Unwritten

\* UPDATE the old tokens, INSERT the new token and its mail, COMMIT.
ReplaceLink(r, n) ==
  LET u == req[r].user  old == Live(u, KindIssued(r)) IN
  /\ req[r].step = "token"
  /\ n \in Unissued(u, KindIssued(r))
  /\ FreeFor(r, {TokenRow(t) : t \in old})
  /\ link' = [t \in Tokens |-> CASE t = n -> "LIVE"
                                 [] t \in old -> "VOID"
                                 [] OTHER -> link[t]]
  /\ address' = [address EXCEPT ![n] = req[r].email]
  /\ mail' = [t \in Tokens |-> CASE t = n -> "PENDING"
                                 [] MailRow(t) \in held[r] -> "CANCELLED"
                                 [] OTHER -> mail[t]]
  /\ due' = [due EXCEPT ![n] = TRUE]
  /\ IF req[r].op = "CHANGE"
     THEN Write(u, [account[u] EXCEPT !.email = req[r].email, !.verified = FALSE])
     ELSE UNCHANGED account
  /\ Ends(r)
  /\ UNCHANGED <<proven, uses, age, attempts, stale, sends, worker, session, faults>>

-----------------------------------------------------------------------------
(* Following a link.                                                       *)

\* The consuming statement begins: it sees what is committed now.
Click(r, t, p) ==
  /\ sends[t] > 0
  /\ Usable(t)
  /\ Starts(r, [step |-> "click", op |-> KindOf[t], token |-> t, password |-> p])

\* Mutant: the row is not rechecked after the wait.
RecheckNothing(t) == TRUE

StillUnconsumed(t) == link[t] = "LIVE"

\* It waits for the token's row and rechecks that row only.
LockLink(r) ==
  /\ req[r].step = "click"
  /\ LET t == req[r].token IN
     /\ Free(TokenRow(t))
     /\ \/ StillUnconsumed(t) /\ Goto(r, "rows") /\ Lock(r, {TokenRow(t)})
        \/ ~StillUnconsumed(t) /\ Ends(r)
  /\ Unwritten

\* The rows the statement writes besides the token, in an order the planner picks.
RowsToWrite(r) ==
  LET t == req[r].token IN
  {UserRow(UserOf[t])}
    \cup (IF req[r].op = "PASSWORD_RESET" /\ mail[t] \in Open THEN {MailRow(t)} ELSE {})

LockRow(r) ==
  /\ req[r].step = "rows"
  /\ \E l \in RowsToWrite(r) \ held[r] : Free(l) /\ Lock(r, {l})
  /\ UNCHANGED req
  /\ Unwritten

Consume(t) ==
  /\ link' = [link EXCEPT ![t] = "USED"]
  /\ uses' = [uses EXCEPT ![t] = @ + 1]

ConsumeEmailVerification(r) ==
  /\ req[r].step = "rows" /\ req[r].op = "EMAIL_VERIFICATION"
  /\ RowsToWrite(r) \subseteq held[r]
  /\ LET t == req[r].token IN
     /\ Consume(t)
     /\ Write(UserOf[t], [account[UserOf[t]] EXCEPT !.verified = TRUE])
     /\ proven' = [proven EXCEPT ![UserOf[t]] = address[t]]
  /\ Ends(r)
  /\ UNCHANGED <<address, age, mailVars, sends, worker, session, faults>>

ConsumePasswordResetToken(r) ==
  /\ req[r].step = "rows" /\ req[r].op = "PASSWORD_RESET"
  /\ RowsToWrite(r) \subseteq held[r]
  /\ LET t == req[r].token IN
     /\ Consume(t)
     /\ mail' = [mail EXCEPT ![t] = IF @ \in Open THEN "CANCELLED" ELSE @]
     /\ Write(UserOf[t], [account[UserOf[t]] EXCEPT !.password = req[r].password,
                                              !.version = @ + 1])
  /\ Ends(r)
  /\ UNCHANGED <<proven, address, age, attempts, due, stale, sends, worker, session, faults>>

\* WithinTx or the connection rolls back.
Abort(r) ==
  /\ req[r] # IdleRequest
  /\ Ends(r)
  /\ Unwritten

-----------------------------------------------------------------------------
(* The account and its sessions.                                           *)

SetUserPasswordHash(u, p) ==
  /\ Free(UserRow(u))
  /\ account[u].version < MaxVersion
  /\ Write(u, [account[u] EXCEPT !.password = p, !.version = @ + 1])
  /\ Aside /\ UNCHANGED <<proven, session>>

DeactivateUser(u) ==
  /\ Free(UserRow(u))
  /\ account[u].active
  /\ Write(u, [account[u] EXCEPT !.active = FALSE])
  /\ Aside /\ UNCHANGED <<proven, session>>

\* One row read gives the hash to compare with and the version to remember.
CheckPassword(v, u) ==
  /\ session[v] = NoSession
  /\ account[u].active
  /\ session' = [session EXCEPT ![v] =
       [step |-> "checked", user |-> u, version |-> account[u].version,
        password |-> account[u].password]]
  /\ Aside /\ UNCHANGED accountVars

\* Mutant: the version is looked up again once the password is checked.
PutSessionLate(v) ==
  /\ session[v].step = "checked"
  /\ session' = [session EXCEPT ![v].step = "in",
                                ![v].version = account[session[v].user].version]
  /\ Aside /\ UNCHANGED accountVars

PutSession(v) ==
  /\ session[v].step = "checked"
  /\ session' = [session EXCEPT ![v].step = "in"]
  /\ Aside /\ UNCHANGED accountVars

\* Auth.Load lets a request pass as the session's user.
Admitted(v) ==
  /\ session[v].step = "in"
  /\ account[session[v].user].active
  /\ session[v].version = account[session[v].user].version

DestroySession(v) ==
  /\ session[v].step = "in" /\ ~Admitted(v)
  /\ session' = [session EXCEPT ![v] = NoSession]
  /\ Aside /\ UNCHANGED accountVars

-----------------------------------------------------------------------------
(* Worker.drain and Worker.deliver.                                        *)

At(w, step) == worker[w].step = step
Becomes(w, step) == worker' = [worker EXCEPT ![w].step = step]
Bystanders == UNCHANGED <<accountVars, linkVars, req, held, session>>
Fault == faults < MaxFaults /\ faults' = faults + 1

\* Mutant: mail that is being sent is left alone.
UndeliverablePending == {t \in Tokens : mail[t] = "PENDING" /\ ~Usable(t)}

Undeliverable == {t \in Tokens : mail[t] \in Open /\ ~Usable(t)}

CancelUndeliverable(w) ==
  /\ At(w, "idle")
  /\ \A t \in Undeliverable : Free(MailRow(t))
  /\ mail' = [t \in Tokens |-> IF t \in Undeliverable THEN "CANCELLED" ELSE mail[t]]
  /\ Becomes(w, "claiming")
  /\ Bystanders /\ UNCHANGED <<attempts, due, stale, sends, faults>>

\* Mutant: a claim is offered again at once.
OfferedTwice(t) == mail[t] = "SENDING" \/ (mail[t] = "PENDING" /\ due[t])

Offered(t) ==
  \/ mail[t] = "PENDING" /\ due[t]
  \/ mail[t] = "SENDING" /\ stale[t]

Claimable(t) ==
  /\ Free(MailRow(t))                      \* SKIP LOCKED
  /\ Offered(t)
  /\ Usable(t)

Claim(w, t) ==
  /\ At(w, "claiming")
  /\ Claimable(t)
  /\ mail' = [mail EXCEPT ![t] = "SENDING"]
  /\ attempts' = [attempts EXCEPT ![t] = @ + 1]
  /\ stale' = [stale EXCEPT ![t] = FALSE]
  /\ worker' = [worker EXCEPT ![w] = [step |-> "sending", token |-> t,
                                      attempt |-> attempts[t] + 1]]
  /\ Bystanders /\ UNCHANGED <<due, sends, faults>>

NothingToClaim(w) ==
  /\ At(w, "claiming")
  /\ \A t \in Tokens : ~Claimable(t)
  /\ worker' = [worker EXCEPT ![w] = IdleWorker]
  /\ Bystanders /\ UNCHANGED <<mailVars, sends, faults>>

\* The SMTP server takes the message; its answer may be lost on the way back.
Accept(w) ==
  /\ At(w, "sending")
  /\ sends' = [sends EXCEPT ![worker[w].token] = @ + 1]
  /\ \/ Becomes(w, "accepted") /\ UNCHANGED faults
     \/ Becomes(w, "temporary") /\ Fault
  /\ Bystanders /\ UNCHANGED mailVars

Refuse(w) ==
  /\ At(w, "sending")
  /\ Becomes(w, "temporary") \/ Becomes(w, "permanent")
  /\ Bystanders /\ UNCHANGED <<mailVars, sends, faults>>

\* Mutant: the update does not ask for SENDING.
OutcomeOfAny(t, outcome) == outcome

\* UPDATE email_outbox ... WHERE id = $1 AND status = 'SENDING'
OutcomeOf(t, outcome) == IF mail[t] = "SENDING" THEN outcome ELSE mail[t]

Report(w, outcome) ==
  LET t == worker[w].token IN
  /\ Free(MailRow(t))
  /\ mail' = [mail EXCEPT ![t] = OutcomeOf(t, outcome)]
  /\ worker' = [worker EXCEPT ![w] = [IdleWorker EXCEPT !.step = "claiming"]]
  /\ Bystanders /\ UNCHANGED <<attempts, stale, sends, faults>>

CompleteEmailOutbox(w) ==
  At(w, "accepted") /\ Report(w, "SENT") /\ UNCHANGED due

\* A refusal is also final when the token would expire before the next try,
\* which depends on a clock this model does not keep.
FailEmailOutbox(w) ==
  /\ At(w, "permanent") \/ At(w, "temporary")
  /\ Report(w, "FAILED") /\ UNCHANGED due

TriesLeft(w) == worker[w].attempt < MaxAttempts

RetryEmailOutbox(w) ==
  /\ At(w, "temporary") /\ TriesLeft(w)
  /\ Report(w, "PENDING")
  /\ due' = [due EXCEPT ![worker[w].token] =
               IF mail[worker[w].token] = "SENDING" THEN FALSE ELSE @]

\* The update of the row fails and is only logged.
ReportLost(w) ==
  /\ worker[w].step \in {"accepted", "temporary", "permanent"}
  /\ Fault
  /\ worker' = [worker EXCEPT ![w] = [IdleWorker EXCEPT !.step = "claiming"]]
  /\ Bystanders /\ UNCHANGED <<mailVars, sends>>

\* The process stops, and its successor drains from the start.
Restart(w) ==
  /\ worker[w].step \in Delivering
  /\ Fault
  /\ worker' = [worker EXCEPT ![w] = IdleWorker]
  /\ Bystanders /\ UNCHANGED <<mailVars, sends>>

-----------------------------------------------------------------------------
(* Deadlines.                                                              *)

\* Mutant: a token has no last age.
AgesOn(t) ==
  /\ link[t] # "NONE"
  /\ age' = [age EXCEPT ![t] = @ + 1]
  /\ UNCHANGED <<accountVars, link, uses, address, mailVars, sends, req, held,
                 worker, session, faults>>

Ages(t) ==
  /\ link[t] # "NONE" /\ age[t] < 2
  /\ age' = [age EXCEPT ![t] = @ + 1]
  /\ UNCHANGED <<accountVars, link, uses, address, mailVars, sends, req, held,
                 worker, session, faults>>

RetryDue(t) ==
  /\ mail[t] = "PENDING" /\ ~due[t]
  /\ due' = [due EXCEPT ![t] = TRUE]
  /\ Bystanders /\ UNCHANGED <<mail, attempts, stale, sends, worker, faults>>

\* The SMTP timeout ends a delivery well before StaleAfter, so a claim somebody
\* still works on goes stale only if that process is suspended.
GoesStale(t) ==
  /\ mail[t] = "SENDING" /\ ~stale[t]
  /\ IF \E w \in Workers : worker[w].token = t /\ worker[w].attempt = attempts[t]
     THEN Fault
     ELSE UNCHANGED faults
  /\ stale' = [stale EXCEPT ![t] = TRUE]
  /\ Bystanders /\ UNCHANGED <<mail, attempts, due, sends, worker>>

-----------------------------------------------------------------------------
RequestStep(r) ==
  \/ ChangeEmail(r) \/ BeginIssue(r) \/ CancelOldMail(r)
  \/ \E n \in Tokens : ReplaceLink(r, n)
  \/ LockLink(r) \/ LockRow(r)
  \/ ConsumeEmailVerification(r) \/ ConsumePasswordResetToken(r)
  \/ Abort(r)

RequestStart(r) ==
  \/ \E u \in Users : Resend(r, u) \/ Forgot(r, u) \/ \E e \in Emails : OpenForm(r, u, e)
  \/ \E t \in Tokens : \E p \in Passwords : Click(r, t, p)

WorkerStep(w) ==
  \/ CancelUndeliverable(w) \/ NothingToClaim(w)
  \/ \E t \in Tokens : Claim(w, t)
  \/ Accept(w) \/ Refuse(w)
  \/ CompleteEmailOutbox(w) \/ FailEmailOutbox(w) \/ RetryEmailOutbox(w)
  \/ ReportLost(w)

Clock(t) == Ages(t) \/ RetryDue(t) \/ GoesStale(t)

AccountStep ==
  \/ \E u \in Users : DeactivateUser(u) \/ \E p \in Passwords : SetUserPasswordHash(u, p)
  \/ \E v \in Visitors : PutSession(v) \/ DestroySession(v)
                           \/ \E u \in Users : CheckPassword(v, u)

Next ==
  \/ \E r \in Requests : RequestStart(r) \/ RequestStep(r)
  \/ \E w \in Workers : WorkerStep(w) \/ Restart(w)
  \/ \E t \in Tokens : Clock(t)
  \/ AccountStep

Spec == Init /\ [][Next]_vars

\* net/http, the connection pool and the deadlock detector end every request;
\* the worker's ticker never stops and a stopped process is restarted; row
\* locks are granted in turn, so a waiting UPDATE is served; clocks run.
Fairness ==
  /\ \A r \in Requests : WF_vars(RequestStep(r))
  /\ \A w \in Workers :
       /\ WF_vars(WorkerStep(w))
       /\ SF_vars(CancelUndeliverable(w))
       /\ SF_vars(CompleteEmailOutbox(w) \/ FailEmailOutbox(w) \/ RetryEmailOutbox(w))
  /\ \A t \in Tokens : WF_vars(Ages(t)) /\ WF_vars(GoesStale(t))

FairSpec == Spec /\ Fairness

-----------------------------------------------------------------------------
(* Properties.                                                             *)

\* An account counts as verified only for the very address whose link was
\* followed.  Consuming the link rechecks nothing of the account it waits for,
\* so this rests on the address change replacing the link under lock
\* (UpdateMemberIdentity clearing email_verified_at is not enough).
VerifiedAddressIsProven ==
  \A u \in Users : account[u].verified => proven[u] = account[u].email

\* At any moment at most one link of each kind works for an account; issuing
\* replaces the old link at once, and no link does its work twice, however
\* issues and clicks overlap.  (email_verification_tokens_active_user_uidx and
\* its twin never have to refuse an insert.)
Links == INSTANCE SingleUseLinks WITH
           HolderOf <- [t \in Tokens |-> <<UserOf[t], KindOf[t]>>]
ImplementsSingleUse == Links!Spec

\* The mail of a replaced link, or of a password already reset, is never queued
\* again: not by a retry, a late report or the claim of a stale message.
NoMailForAClosedLink ==
  \A t \in Tokens :
    link[t] = "VOID" \/ (link[t] = "USED" /\ KindOf[t] = "PASSWORD_RESET")
      => mail[t] \in Final

\* A message that was sent, failed or cancelled keeps that outcome whatever a
\* worker that lost its claim reports later.
OutcomesAreFinal ==
  [][\A t \in Tokens : mail[t] \in Final => mail'[t] = mail[t]]_vars

\* Members get a second copy of a message only when a process stopped, was
\* suspended past StaleAfter, or lost an answer: one copy per fault at most.
\* Retries stop at MaxAttempts, and only a fault adds one to them.
CopiesArePaidFor ==
  \A t \in Tokens :
    sends[t] <= 1 + faults /\ attempts[t] <= MaxAttempts + faults

\* However requests overlap, an account gets no more than MaxPerHour reset
\* links in an hour.
HourlyLimitHolds ==
  \A u \in Users :
    Cardinality({t \in Issued(u, "PASSWORD_RESET") : age[t] < 2}) <= MaxPerHour

\* A session is admitted only while the password it was opened with is still
\* the account's, a login that overlapped the change included.
SessionsKnowThePassword ==
  \A v \in Visitors :
    Admitted(v) => session[v].password = account[session[v].user].password

\* Every queued message reaches an outcome, through refusals, crashes and
\* blocked reports.
MailSettles == \A t \in Tokens : mail[t] \in Open ~> mail[t] \in Final
=============================================================================
