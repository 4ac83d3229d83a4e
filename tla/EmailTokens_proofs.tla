------------------------ MODULE EmailTokens_proofs ------------------------
(***************************************************************************)
(* Theorems of EmailTokens, for any number of accounts, tokens, requests,  *)
(* visitors and workers, and any bounds.                                   *)
(***************************************************************************)
EXTENDS EmailTokens, TLAPS

\* What the guards of a request's step say of its record.
LEMMA RequestKinds ==
  ASSUME TypeOK, NEW r \in Requests
  PROVE  /\ req[r].step \in {"form", "issue", "mail", "token"} => req[r] \in Issuing
         /\ req[r].step \in {"click", "rows"} => req[r] \in Following
BY DEF TypeOK, Issuing, Following, IdleRequest

\* Every row a request locks has a name.
LEMMA LockNames ==
  /\ \A u \in Users : UserRow(u) \in Locks
  /\ \A t \in Tokens : TokenRow(t) \in Locks /\ MailRow(t) \in Locks
  /\ \A e \in Emails : AddressEntry(e) \in Locks
  /\ \A k \in Kinds, u \in Users : IssueLock(k, u) \in Locks
BY DEF Locks, UserRow, TokenRow, MailRow, AddressEntry, IssueLock

\* An account that is written stays an account.
LEMMA WriteTyped ==
  ASSUME TypeOK, NEW u \in Users, NEW row \in Accounts, Write(u, row)
  PROVE  account' \in [Users -> Accounts]
<1>1. [row EXCEPT !.rev = @ + 1] \in Accounts BY DEF Accounts
<1> QED BY <1>1 DEF TypeOK, Write

\* The edits the statements make to an account.
LEMMA AccountEdits ==
  ASSUME NEW row \in Accounts, NEW e \in Emails, NEW p \in Passwords
  PROVE  /\ [row EXCEPT !.email = e, !.verified = FALSE] \in Accounts
         /\ [row EXCEPT !.verified = TRUE] \in Accounts
         /\ [row EXCEPT !.active = FALSE] \in Accounts
         /\ [row EXCEPT !.password = p, !.version = @ + 1] \in Accounts
<1>1. [row EXCEPT !.email = e, !.verified = FALSE] \in Accounts BY DEF Accounts
<1>2. [row EXCEPT !.verified = TRUE] \in Accounts BY DEF Accounts
<1>3. [row EXCEPT !.active = FALSE] \in Accounts BY DEF Accounts
<1>4. [row EXCEPT !.password = p, !.version = @ + 1] \in Accounts
  <2>1. row.version + 1 \in Nat BY DEF Accounts
  <2>2. \A k \in Nat : [row EXCEPT !.password = p, !.version = k] \in Accounts
    BY DEF Accounts
  <2> QED BY <2>1, <2>2
<1> QED BY <1>1, <1>2, <1>3, <1>4

\* A request's own step keeps the types.
LEMMA RequestTyping ==
  ASSUME TypeOK, NEW r \in Requests, RequestStart(r) \/ RequestStep(r)
  PROVE  TypeOK'
<1> USE ConstantsAssumption
<1> DEFINE ReqTyped == req' \in [Requests -> Issuing \cup Following \cup {IdleRequest}]
           HeldTyped == held' \in [Requests -> SUBSET Locks]
<1>1. ASSUME NEW record \in Issuing \cup Following, Starts(r, record) PROVE TypeOK'
  BY <1>1 DEF Starts, TypeOK, accountVars, linkVars, mailVars
<1>2. ASSUME Ends(r) PROVE ReqTyped /\ HeldTyped
  BY <1>2 DEF Ends, TypeOK
<1>3. ASSUME NEW step \in {"issue", "mail", "token"}, req[r] \in Issuing, Goto(r, step)
      PROVE ReqTyped
  <2>1. [req[r] EXCEPT !.step = step] \in Issuing BY <1>3 DEF Issuing
  <2> QED BY <1>3, <2>1 DEF Goto, TypeOK
<1>4. ASSUME NEW ls \in SUBSET Locks, Lock(r, ls) PROVE HeldTyped
  BY <1>4 DEF Lock, TypeOK
<1>5. ASSUME Unwritten, ReqTyped, HeldTyped PROVE TypeOK'
  BY <1>5 DEF Unwritten, TypeOK, accountVars, linkVars, mailVars
<1>6. \A u \in Users, e \in Emails : \A op \in {"RESEND", "FORGOT", "CHANGE"} :
        IssueRequest(op, u, e) \in Issuing
  BY DEF IssueRequest, Issuing, TypeOK, Accounts
<1>7. \A u \in Users : account[u].email \in Emails BY DEF TypeOK, Accounts
<1>8. ASSUME NEW u \in Users, Resend(r, u) \/ Forgot(r, u) PROVE TypeOK'
  BY <1>1, <1>6, <1>7, <1>8 DEF Resend, Forgot
<1>9. ASSUME NEW u \in Users, NEW e \in Emails, OpenForm(r, u, e) PROVE TypeOK'
  <2>1. [IssueRequest("CHANGE", u, e) EXCEPT !.step = "form"] \in Issuing
    BY <1>6 DEF Issuing
  <2> QED BY <1>1, <1>9, <2>1 DEF OpenForm
<1>10. ASSUME NEW t \in Tokens, NEW p \in Passwords, Click(r, t, p) PROVE TypeOK'
  <2>1. [step |-> "click", op |-> KindOf[t], token |-> t, password |-> p] \in Following
    BY DEF Following
  <2> QED BY <1>1, <1>10, <2>1 DEF Click
<1>11. CASE ChangeEmail(r)
  <2>1. req[r] \in Issuing BY <1>11, RequestKinds DEF ChangeEmail
  <2>2. {UserRow(req[r].user), AddressEntry(req[r].email)} \in SUBSET Locks
    BY <2>1, LockNames DEF Issuing
  <2> QED BY <1>2, <1>3, <1>4, <1>5, <1>11, <2>1, <2>2 DEF ChangeEmail
<1>12. CASE BeginIssue(r)
  <2>1. req[r] \in Issuing BY <1>12, RequestKinds DEF BeginIssue
  <2>2. {IssueLock(KindIssued(r), req[r].user)} \in SUBSET Locks
    BY <2>1, LockNames DEF Issuing, KindIssued, Kinds
  <2> QED BY <1>2, <1>3, <1>4, <1>5, <1>12, <2>1, <2>2 DEF BeginIssue
<1>13. CASE CancelOldMail(r)
  <2>1. req[r] \in Issuing BY <1>13, RequestKinds DEF CancelOldMail
  <2>2. {MailRow(t) : t \in OpenMail(Live(req[r].user, KindIssued(r)))} \in SUBSET Locks
    BY LockNames DEF OpenMail, Live
  <2> QED BY <1>3, <1>4, <1>5, <1>13, <2>1, <2>2 DEF CancelOldMail
<1>14. ASSUME NEW n \in Tokens, ReplaceLink(r, n) PROVE TypeOK'
  <2>1. req[r] \in Issuing BY <1>14, RequestKinds DEF ReplaceLink
  <2>2. /\ link' \in [Tokens -> {"NONE", "LIVE", "USED", "VOID"}]
        /\ address' \in [Tokens -> Emails]
        /\ due' \in [Tokens -> BOOLEAN]
    BY <1>14, <2>1 DEF ReplaceLink, TypeOK, Issuing
  <2>3. mail' \in [Tokens -> {"NONE"} \cup Open \cup Final]
    BY <1>14 DEF ReplaceLink, TypeOK, Open, Final
  <2>4. account' \in [Users -> Accounts]
    <3>1. req[r].user \in Users /\ req[r].email \in Emails BY <2>1 DEF Issuing
    <3>2. [account[req[r].user] EXCEPT !.email = req[r].email, !.verified = FALSE]
            \in Accounts
      <4>1. account[req[r].user] \in Accounts BY <3>1 DEF TypeOK
      <4>2. account[req[r].user].password \in Passwords BY <4>1 DEF Accounts
      <4> QED BY <3>1, <4>1, <4>2, AccountEdits
    <3>3. CASE req[r].op = "CHANGE"
      BY <1>14, <3>1, <3>2, <3>3, WriteTyped DEF ReplaceLink
    <3>4. CASE req[r].op # "CHANGE" BY <1>14, <3>4 DEF ReplaceLink, TypeOK
    <3> QED BY <3>3, <3>4
  <2>5. ReqTyped /\ HeldTyped BY <1>2, <1>14 DEF ReplaceLink
  <2>6. UNCHANGED <<proven, uses, age, attempts, stale, sends, worker, session, faults>>
    BY <1>14 DEF ReplaceLink
  <2> QED BY <2>2, <2>3, <2>4, <2>5, <2>6 DEF TypeOK
<1>15. CASE LockLink(r)
  <2>1. req[r] \in Following BY <1>15, RequestKinds DEF LockLink
  <2>2. {TokenRow(req[r].token)} \in SUBSET Locks BY <2>1, LockNames DEF Following
  <2>3. [req[r] EXCEPT !.step = "rows"] \in Following BY <2>1 DEF Following
  <2>4. Goto(r, "rows") => ReqTyped BY <2>3 DEF Goto, TypeOK
  <2> QED BY <1>2, <1>4, <1>5, <1>15, <2>2, <2>4 DEF LockLink
<1>16. CASE LockRow(r)
  <2>1. req[r] \in Following BY <1>16, RequestKinds DEF LockRow
  <2>2. RowsToWrite(r) \in SUBSET Locks
    BY <2>1, LockNames DEF RowsToWrite, Following
  <2>3. PICK l \in RowsToWrite(r) : Lock(r, {l}) BY <1>16 DEF LockRow
  <2>4. HeldTyped BY <1>4, <2>2, <2>3
  <2>5. ReqTyped BY <1>16 DEF LockRow, TypeOK
  <2> QED BY <1>5, <1>16, <2>4, <2>5 DEF LockRow
<1>17. ASSUME NEW t \in Tokens, Consume(t)
       PROVE  /\ link' \in [Tokens -> {"NONE", "LIVE", "USED", "VOID"}]
              /\ uses' \in [Tokens -> Nat]
  BY <1>17 DEF Consume, TypeOK
<1>18. CASE ConsumeEmailVerification(r)
  <2>1. req[r] \in Following BY <1>18, RequestKinds DEF ConsumeEmailVerification
  <2> DEFINE t == req[r].token
             row == [account[UserOf[t]] EXCEPT !.verified = TRUE]
  <2>2. t \in Tokens /\ UserOf[t] \in Users BY <2>1 DEF Following
  <2>3. row \in Accounts
    <3>1. account[UserOf[t]] \in Accounts BY <2>2 DEF TypeOK
    <3>2. account[UserOf[t]].email \in Emails BY <3>1 DEF Accounts
    <3>3. req[r].password \in Passwords BY <2>1 DEF Following
    <3> QED BY <3>1, <3>2, <3>3, AccountEdits
  <2>4. /\ Consume(t) /\ Write(UserOf[t], row) /\ Ends(r)
        /\ UNCHANGED <<address, age, mail, attempts, due, stale, sends, worker,
                       session, faults>>
    BY <1>18 DEF ConsumeEmailVerification, mailVars
  <2>5. proven' \in [Users -> Emails]
    BY <1>18, <2>2 DEF ConsumeEmailVerification, TypeOK
  <2> HIDE DEF row, t
  <2>6. account' \in [Users -> Accounts] BY <2>2, <2>3, <2>4, WriteTyped
  <2> QED BY <1>2, <1>17, <2>2, <2>4, <2>5, <2>6 DEF TypeOK
<1>19. CASE ConsumePasswordResetToken(r)
  <2>1. req[r] \in Following BY <1>19, RequestKinds DEF ConsumePasswordResetToken
  <2> DEFINE t == req[r].token
             row == [account[UserOf[t]] EXCEPT !.password = req[r].password,
                                               !.version = @ + 1]
  <2>2. t \in Tokens /\ UserOf[t] \in Users /\ req[r].password \in Passwords
    BY <2>1 DEF Following
  <2>3. row \in Accounts
    <3>1. account[UserOf[t]] \in Accounts BY <2>2 DEF TypeOK
    <3>2. account[UserOf[t]].email \in Emails BY <3>1 DEF Accounts
    <3>3. req[r].password \in Passwords BY <2>1 DEF Following
    <3> QED BY <3>1, <3>2, <3>3, AccountEdits
  <2>4. /\ Consume(t) /\ Write(UserOf[t], row) /\ Ends(r)
        /\ UNCHANGED <<proven, address, age, attempts, due, stale, sends, worker,
                       session, faults>>
    BY <1>19 DEF ConsumePasswordResetToken
  <2>5. mail' \in [Tokens -> {"NONE"} \cup Open \cup Final]
    BY <1>19, <2>2 DEF ConsumePasswordResetToken, TypeOK, Final
  <2> HIDE DEF row, t
  <2>6. account' \in [Users -> Accounts] BY <2>2, <2>3, <2>4, WriteTyped
  <2> QED BY <1>2, <1>17, <2>2, <2>4, <2>5, <2>6 DEF TypeOK
<1>20. CASE Abort(r) BY <1>2, <1>5, <1>20 DEF Abort
<1> QED
  BY <1>8, <1>9, <1>10, <1>11, <1>12, <1>13, <1>14, <1>15, <1>16, <1>18, <1>19, <1>20
     DEF RequestStart, RequestStep

\* So does a step of a delivery worker.
LEMMA WorkerTyping ==
  ASSUME TypeOK, NEW w \in Workers, WorkerStep(w) \/ Restart(w)
  PROVE  TypeOK'
<1> USE ConstantsAssumption
<1> DEFINE WorkerTyped == worker' \in [Workers -> WorkerStates]
           MailTyped == mail' \in [Tokens -> {"NONE"} \cup Open \cup Final]
<1>1. worker[w] \in WorkerStates /\ IdleWorker \in WorkerStates
  BY DEF TypeOK, IdleWorker, WorkerStates
<1>2. [IdleWorker EXCEPT !.step = "claiming"] \in WorkerStates
  BY <1>1 DEF WorkerStates
<1>3. ASSUME NEW step \in {"claiming", "accepted", "temporary", "permanent"},
             Becomes(w, step)
      PROVE  WorkerTyped
  <2>1. [worker[w] EXCEPT !.step = step] \in WorkerStates
    BY <1>1 DEF WorkerStates, Delivering
  <2> QED BY <1>3, <2>1 DEF Becomes, TypeOK
<1>4. ASSUME At(w, "sending") \/ At(w, "accepted") \/ At(w, "temporary")
               \/ At(w, "permanent"),
             NEW outcome \in {"SENT", "FAILED", "PENDING"}, Report(w, outcome)
      PROVE  WorkerTyped /\ MailTyped
  <2>1. WorkerTyped BY <1>2, <1>4 DEF Report, TypeOK
  <2>2. MailTyped BY <1>4 DEF Report, OutcomeOf, TypeOK, Open, Final
  <2> QED BY <2>1, <2>2
<1>5. Fault => faults' \in 0..MaxFaults BY DEF Fault, TypeOK
<1>6. ASSUME Bystanders, WorkerTyped, MailTyped,
             attempts' \in [Tokens -> Nat], due' \in [Tokens -> BOOLEAN],
             stale' \in [Tokens -> BOOLEAN], sends' \in [Tokens -> Nat],
             faults' \in 0..MaxFaults
      PROVE  TypeOK'
  BY <1>6 DEF Bystanders, TypeOK, accountVars, linkVars
<1>7. CASE CancelUndeliverable(w)
  <2>1. MailTyped BY <1>7 DEF CancelUndeliverable, TypeOK, Final
  <2> QED BY <1>3, <1>6, <1>7, <2>1 DEF CancelUndeliverable, TypeOK
<1>8. CASE NothingToClaim(w)
  <2>1. WorkerTyped BY <1>1, <1>8 DEF NothingToClaim, TypeOK
  <2> QED BY <1>6, <1>8, <2>1 DEF NothingToClaim, TypeOK, mailVars
<1>9. ASSUME NEW t \in Tokens, Claim(w, t) PROVE TypeOK'
  <2>1. MailTyped BY <1>9 DEF Claim, TypeOK, Open
  <2>2. [step |-> "sending", token |-> t, attempt |-> attempts[t] + 1] \in WorkerStates
    BY DEF WorkerStates, Delivering, TypeOK
  <2>3. WorkerTyped BY <1>9, <2>2 DEF Claim, TypeOK
  <2>4. attempts' \in [Tokens -> Nat] /\ stale' \in [Tokens -> BOOLEAN]
    BY <1>9 DEF Claim, TypeOK
  <2> QED BY <1>6, <1>9, <2>1, <2>3, <2>4 DEF Claim, TypeOK
<1>10. CASE Accept(w)
  <2>1. sends' \in [Tokens -> Nat]
    <3> DEFINE x == worker[w].token
    <3>1. sends \in [Tokens -> Nat] BY DEF TypeOK
    <3>2. sends' = [sends EXCEPT ![x] = sends[x] + 1] BY <1>10 DEF Accept
    <3> HIDE DEF x
    <3>3. x \in Tokens => sends[x] + 1 \in Nat BY <3>1
    <3> QED BY <3>1, <3>2, <3>3
  <2>2. WorkerTyped BY <1>3, <1>10 DEF Accept
  <2>3. faults' \in 0..MaxFaults BY <1>5, <1>10 DEF Accept, TypeOK
  <2>4. Bystanders /\ UNCHANGED mailVars BY <1>10 DEF Accept
  <2> HIDE DEF WorkerTyped
  <2> QED BY <1>6, <2>1, <2>2, <2>3, <2>4 DEF TypeOK, mailVars
<1>11. CASE Refuse(w) BY <1>3, <1>6, <1>11 DEF Refuse, TypeOK, mailVars
<1>12. CASE CompleteEmailOutbox(w)
  BY <1>4, <1>6, <1>12 DEF CompleteEmailOutbox, Report, TypeOK
<1>13. CASE FailEmailOutbox(w)
  BY <1>4, <1>6, <1>13 DEF FailEmailOutbox, Report, TypeOK
<1>14. CASE RetryEmailOutbox(w)
  <2>1. due' \in [Tokens -> BOOLEAN] BY <1>14 DEF RetryEmailOutbox, TypeOK
  <2> QED BY <1>4, <1>6, <1>14, <2>1 DEF RetryEmailOutbox, Report, TypeOK
<1>15. CASE ReportLost(w)
  <2>1. WorkerTyped BY <1>2, <1>15 DEF ReportLost, TypeOK
  <2> QED BY <1>5, <1>6, <1>15, <2>1 DEF ReportLost, TypeOK, mailVars
<1>16. CASE Restart(w)
  <2>1. WorkerTyped BY <1>1, <1>16 DEF Restart, TypeOK
  <2> QED BY <1>5, <1>6, <1>16, <2>1 DEF Restart, TypeOK, mailVars
<1> QED BY <1>7, <1>8, <1>9, <1>10, <1>11, <1>12, <1>13, <1>14, <1>15, <1>16
        DEF WorkerStep

\* So does a step of an operator, of a visitor or of the clock.
LEMMA OtherTyping ==
  ASSUME TypeOK, AccountStep \/ \E t \in Tokens : Clock(t)
  PROVE  TypeOK'
<1> USE ConstantsAssumption
<1>1. ASSUME NEW u \in Users, NEW row \in Accounts, Write(u, row), Aside,
             UNCHANGED <<proven, session>>
      PROVE  TypeOK'
  <2>1. account' \in [Users -> Accounts] BY <1>1, WriteTyped
  <2> QED BY <1>1, <2>1 DEF Aside, TypeOK, linkVars, mailVars
<1>2. ASSUME NEW u \in Users PROVE account[u] \in Accounts
  BY DEF TypeOK
<1>3. ASSUME NEW u \in Users, DeactivateUser(u) PROVE TypeOK'
  <2>1. account[u].email \in Emails /\ account[u].password \in Passwords
    BY <1>2 DEF Accounts
  <2> QED BY <1>1, <1>2, <1>3, <2>1, AccountEdits DEF DeactivateUser
<1>4. ASSUME NEW u \in Users, NEW p \in Passwords, SetUserPasswordHash(u, p)
      PROVE  TypeOK'
  <2>1. account[u].email \in Emails BY <1>2 DEF Accounts
  <2> QED BY <1>1, <1>2, <1>4, <2>1, AccountEdits DEF SetUserPasswordHash
<1>5. ASSUME session' \in [Visitors -> Sessions \cup {NoSession}], Aside,
             UNCHANGED accountVars
      PROVE  TypeOK'
  BY <1>5 DEF Aside, TypeOK, accountVars, linkVars, mailVars
<1>6. ASSUME NEW v \in Visitors, NEW u \in Users, CheckPassword(v, u) PROVE TypeOK'
  <2>1. [step |-> "checked", user |-> u, version |-> account[u].version,
         password |-> account[u].password] \in Sessions
    BY <1>2 DEF Accounts, Sessions
  <2> QED BY <1>5, <1>6, <2>1 DEF CheckPassword, TypeOK
<1>7. ASSUME NEW v \in Visitors, PutSession(v) PROVE TypeOK'
  <2>1. session[v] \in Sessions BY <1>7 DEF PutSession, TypeOK, NoSession
  <2>2. [session[v] EXCEPT !.step = "in"] \in Sessions BY <2>1 DEF Sessions
  <2> QED BY <1>5, <1>7, <2>2 DEF PutSession, TypeOK
<1>8. ASSUME NEW v \in Visitors, DestroySession(v) PROVE TypeOK'
  BY <1>5, <1>8 DEF DestroySession, TypeOK
<1>9. ASSUME NEW t \in Tokens, Clock(t) PROVE TypeOK'
  <2>1. CASE Ages(t)
    <3>1. age' \in [Tokens -> 0..2] BY <2>1 DEF Ages, TypeOK
    <3> QED BY <2>1, <3>1 DEF Ages, TypeOK, accountVars, mailVars
  <2>2. CASE RetryDue(t) BY <2>2 DEF RetryDue, Bystanders, TypeOK, accountVars, linkVars
  <2>3. CASE GoesStale(t)
    <3>1. faults' \in 0..MaxFaults BY <2>3 DEF GoesStale, Fault, TypeOK
    <3> QED BY <2>3, <3>1 DEF GoesStale, Bystanders, TypeOK, accountVars, linkVars
  <2> QED BY <1>9, <2>1, <2>2, <2>3 DEF Clock
<1> QED BY <1>3, <1>4, <1>6, <1>7, <1>8, <1>9 DEF AccountStep

\* The variables keep their types.
THEOREM Typing == Spec => []TypeOK
<1>1. Init => TypeOK
  BY ConstantsAssumption DEF Init, TypeOK, Accounts, IdleWorker, WorkerStates
<1>2. TypeOK /\ [Next]_vars => TypeOK'
  <2> SUFFICES ASSUME TypeOK, [Next]_vars PROVE TypeOK'
    OBVIOUS
  <2>1. CASE UNCHANGED vars
    BY <2>1 DEF vars, TypeOK, accountVars, linkVars, mailVars
  <2>2. CASE Next
    BY <2>2, RequestTyping, WorkerTyping, OtherTyping DEF Next
  <2> QED BY <2>1, <2>2
<1> QED BY <1>1, <1>2, PTL DEF Spec

-----------------------------------------------------------------------------
(* Sessions.                                                               *)

\* A login remembers a version of the account no newer than the current one,
\* and with the current one the current password.
SessionInv ==
  \A v \in Visitors : session[v] # NoSession =>
    LET a == account[session[v].user] IN
    /\ session[v].version <= a.version
    /\ session[v].version = a.version => session[v].password = a.password

\* What a written account looks like.
LEMMA Written ==
  ASSUME TypeOK, NEW u \in Users, NEW row \in Accounts, Write(u, row),
         NEW x \in Users
  PROVE  /\ x # u => account'[x] = account[x]
         /\ account'[u].email = row.email /\ account'[u].verified = row.verified
         /\ account'[u].password = row.password /\ account'[u].version = row.version
<1>1. account \in [Users -> Accounts] BY DEF TypeOK
<1>2. account' = [account EXCEPT ![u] = [row EXCEPT !.rev = row.rev + 1]]
  BY DEF Write
<1>3. account'[u] = [row EXCEPT !.rev = row.rev + 1] BY <1>1, <1>2
<1>4. x # u => account'[x] = account[x] BY <1>1, <1>2
<1> QED BY <1>3, <1>4 DEF Accounts

\* No step changes a password and keeps its version.
PasswordVersioned ==
  \A u \in Users :
    \/ account'[u].version = account[u].version /\ account'[u].password = account[u].password
    \/ account'[u].version = account[u].version + 1

\* A statement that writes the account of a link writes a well-formed one.
LEMMA ConsumedAccount ==
  ASSUME TypeOK, NEW r \in Requests, req[r] \in Following
  PROVE  LET u == UserOf[req[r].token] IN
         /\ req[r].token \in Tokens /\ u \in Users /\ account[u] \in Accounts
         /\ [account[u] EXCEPT !.verified = TRUE] \in Accounts
         /\ [account[u] EXCEPT !.password = req[r].password, !.version = @ + 1]
              \in Accounts
<1> DEFINE u == UserOf[req[r].token]
<1>1. req[r].token \in Tokens /\ u \in Users /\ req[r].password \in Passwords
  BY ConstantsAssumption DEF Following
<1>2. account[u] \in Accounts BY <1>1 DEF TypeOK
<1>3. account[u].email \in Emails BY <1>2 DEF Accounts
<1> QED BY <1>1, <1>2, <1>3, AccountEdits

LEMMA ChangedAccount ==
  ASSUME TypeOK, NEW r \in Requests, req[r] \in Issuing
  PROVE  LET u == req[r].user IN
         /\ u \in Users /\ account[u] \in Accounts
         /\ [account[u] EXCEPT !.email = req[r].email, !.verified = FALSE] \in Accounts
<1> DEFINE u == req[r].user
<1>1. u \in Users /\ req[r].email \in Emails BY DEF Issuing
<1>2. account[u] \in Accounts BY <1>1 DEF TypeOK
<1>3. account[u].password \in Passwords BY <1>2 DEF Accounts
<1> QED BY <1>1, <1>2, <1>3, AccountEdits

LEMMA OperatorAccount ==
  ASSUME TypeOK, NEW u \in Users, NEW p \in Passwords
  PROVE  /\ account[u] \in Accounts
         /\ [account[u] EXCEPT !.active = FALSE] \in Accounts
         /\ [account[u] EXCEPT !.password = p, !.version = @ + 1] \in Accounts
<1>1. account[u] \in Accounts BY DEF TypeOK
<1>2. account[u].email \in Emails BY <1>1 DEF Accounts
<1> QED BY <1>1, <1>2, AccountEdits

LEMMA VersionStep ==
  ASSUME TypeOK, Next
  PROVE  PasswordVersioned
<1>1. UNCHANGED account => PasswordVersioned BY DEF PasswordVersioned
<1>2. ASSUME NEW u \in Users, NEW row \in Accounts, Write(u, row),
             \/ row.version = account[u].version /\ row.password = account[u].password
             \/ row.version = account[u].version + 1
      PROVE  PasswordVersioned
  <2>1. ASSUME NEW x \in Users
        PROVE  \/ /\ account'[x].version = account[x].version
                  /\ account'[x].password = account[x].password
               \/ account'[x].version = account[x].version + 1
    BY <1>2, <2>1, Written
  <2> QED BY <2>1 DEF PasswordVersioned
<1>3. ASSUME NEW r \in Requests, RequestStart(r) PROVE UNCHANGED account
  BY <1>3 DEF RequestStart, Resend, Forgot, OpenForm, Click, Starts, accountVars
<1>4. ASSUME NEW r \in Requests, RequestStep(r) PROVE PasswordVersioned
  <2>1. ASSUME NEW n \in Tokens, ReplaceLink(r, n), req[r].op = "CHANGE"
        PROVE  PasswordVersioned
    <3> DEFINE u == req[r].user
               row == [account[u] EXCEPT !.email = req[r].email, !.verified = FALSE]
    <3>1. req[r] \in Issuing BY <2>1, RequestKinds DEF ReplaceLink
    <3>2. u \in Users /\ account[u] \in Accounts /\ row \in Accounts
      BY <3>1, ChangedAccount
    <3>3. Write(u, row) BY <2>1 DEF ReplaceLink
    <3>4. row.version = account[u].version /\ row.password = account[u].password
      BY <3>2 DEF Accounts
    <3> HIDE DEF u, row
    <3> QED BY <1>2, <3>2, <3>3, <3>4
  <2>2. CASE ConsumeEmailVerification(r)
    <3> DEFINE u == UserOf[req[r].token]
               row == [account[u] EXCEPT !.verified = TRUE]
    <3>1. req[r] \in Following BY <2>2, RequestKinds DEF ConsumeEmailVerification
    <3>2. u \in Users /\ account[u] \in Accounts /\ row \in Accounts
      BY <3>1, ConsumedAccount
    <3>3. Write(u, row) BY <2>2 DEF ConsumeEmailVerification
    <3>4. row.version = account[u].version /\ row.password = account[u].password
      BY <3>2 DEF Accounts
    <3> HIDE DEF u, row
    <3> QED BY <1>2, <3>2, <3>3, <3>4
  <2>3. CASE ConsumePasswordResetToken(r)
    <3> DEFINE u == UserOf[req[r].token]
               row == [account[u] EXCEPT !.password = req[r].password, !.version = @ + 1]
    <3>1. req[r] \in Following BY <2>3, RequestKinds DEF ConsumePasswordResetToken
    <3>2. u \in Users /\ account[u] \in Accounts /\ row \in Accounts
      BY <3>1, ConsumedAccount
    <3>3. Write(u, row) BY <2>3 DEF ConsumePasswordResetToken
    <3>4. row.version = account[u].version + 1 BY <3>2 DEF Accounts
    <3> HIDE DEF u, row
    <3> QED BY <1>2, <3>2, <3>3, <3>4
  <2> QED BY <1>1, <1>4, <2>1, <2>2, <2>3
          DEF RequestStep, ChangeEmail, BeginIssue, CancelOldMail, ReplaceLink,
              LockLink, LockRow, Abort, Unwritten, accountVars
<1>5. ASSUME NEW w \in Workers, WorkerStep(w) \/ Restart(w) PROVE UNCHANGED account
  BY <1>5 DEF WorkerStep, CancelUndeliverable, NothingToClaim, Claim, Accept, Refuse,
              CompleteEmailOutbox, FailEmailOutbox, RetryEmailOutbox, ReportLost,
              Report, Restart, Bystanders, accountVars
<1>6. ASSUME NEW t \in Tokens, Clock(t) PROVE UNCHANGED account
  BY <1>6 DEF Clock, Ages, RetryDue, GoesStale, Bystanders, accountVars
<1>7. ASSUME AccountStep PROVE PasswordVersioned
  <2>1. ASSUME NEW u \in Users, DeactivateUser(u) PROVE PasswordVersioned
    <3> DEFINE row == [account[u] EXCEPT !.active = FALSE]
    <3>1. account[u] \in Accounts BY DEF TypeOK
    <3>2. account[u].password \in Passwords BY <3>1 DEF Accounts
    <3>3. row \in Accounts BY <3>2, OperatorAccount
    <3>4. Write(u, row) BY <2>1 DEF DeactivateUser
    <3>5. row.version = account[u].version /\ row.password = account[u].password
      BY <3>1 DEF Accounts
    <3> HIDE DEF row
    <3> QED BY <1>2, <3>3, <3>4, <3>5
  <2>2. ASSUME NEW u \in Users, NEW p \in Passwords, SetUserPasswordHash(u, p)
        PROVE  PasswordVersioned
    <3> DEFINE row == [account[u] EXCEPT !.password = p, !.version = @ + 1]
    <3>1. account[u] \in Accounts /\ row \in Accounts BY OperatorAccount
    <3>2. Write(u, row) BY <2>2 DEF SetUserPasswordHash
    <3>3. row.version = account[u].version + 1 BY <3>1 DEF Accounts
    <3> HIDE DEF row
    <3> QED BY <1>2, <3>1, <3>2, <3>3
  <2> QED BY <1>1, <1>7, <2>1, <2>2
          DEF AccountStep, PutSession, DestroySession, CheckPassword, accountVars
<1> QED BY <1>1, <1>3, <1>4, <1>5, <1>6, <1>7 DEF Next

LEMMA SessionStep ==
  ASSUME TypeOK, SessionInv, [Next]_vars
  PROVE  SessionInv'
<1> DEFINE Knows(s, a) == /\ s.version <= a.version
                          /\ s.version = a.version => s.password = a.password
<1>1. ASSUME NEW v \in Visitors, session[v] # NoSession
      PROVE  /\ session[v] \in Sessions /\ session[v].user \in Users
             /\ session[v].version \in Nat
             /\ account[session[v].user].version \in Nat
             /\ Knows(session[v], account[session[v].user])
  <2>1. session[v] \in Sessions BY <1>1 DEF TypeOK
  <2>2. session[v].user \in Users /\ session[v].version \in Nat BY <2>1 DEF Sessions
  <2>3. account[session[v].user] \in Accounts BY <2>2 DEF TypeOK
  <2>4. account[session[v].user].version \in Nat BY <2>3 DEF Accounts
  <2> QED BY <1>1, <2>1, <2>2, <2>4 DEF SessionInv
<1>2. ASSUME PasswordVersioned, NEW v \in Visitors, session[v] # NoSession
      PROVE  Knows(session[v], account'[session[v].user])
  BY <1>1, <1>2 DEF PasswordVersioned
<1>3. ASSUME UNCHANGED session, PasswordVersioned PROVE SessionInv'
  BY <1>2, <1>3 DEF SessionInv
<1>4. CASE UNCHANGED vars
  BY <1>4 DEF vars, accountVars, SessionInv
<1>5. CASE Next /\ UNCHANGED session BY <1>3, <1>5, VersionStep
<1>6. ASSUME NEW v \in Visitors, NEW u \in Users, CheckPassword(v, u) PROVE SessionInv'
  <2>1. account[u] \in Accounts BY DEF TypeOK
  <2>2. account[u].version \in Nat BY <2>1 DEF Accounts
  <2>3. UNCHANGED account BY <1>6 DEF CheckPassword, accountVars
  <2>4. session' = [session EXCEPT ![v] =
          [step |-> "checked", user |-> u, version |-> account[u].version,
           password |-> account[u].password]]
    BY <1>6 DEF CheckPassword
  <2>5. SUFFICES ASSUME NEW x \in Visitors, session'[x] # NoSession
                 PROVE  Knows(session'[x], account[session'[x].user])
    BY <2>3 DEF SessionInv
  <2>6. CASE x = v BY <2>2, <2>4, <2>6 DEF TypeOK
  <2>7. CASE x # v BY <1>1, <2>4, <2>5, <2>7 DEF TypeOK
  <2> QED BY <2>6, <2>7
<1>7. ASSUME NEW v \in Visitors, PutSession(v) PROVE SessionInv'
  <2>1. UNCHANGED account BY <1>7 DEF PutSession, accountVars
  <2>2. session[v] # NoSession BY <1>7 DEF PutSession, NoSession
  <2>3. session' = [session EXCEPT ![v] = [session[v] EXCEPT !.step = "in"]]
    BY <1>7 DEF PutSession
  <2>4. SUFFICES ASSUME NEW x \in Visitors, session'[x] # NoSession
                 PROVE  Knows(session'[x], account[session'[x].user])
    BY <2>1 DEF SessionInv
  <2>5. CASE x = v
    <3>1. session'[x] = [session[v] EXCEPT !.step = "in"] BY <2>3, <2>5 DEF TypeOK
    <3>2. /\ session'[x].user = session[v].user
          /\ session'[x].version = session[v].version
          /\ session'[x].password = session[v].password
      BY <1>1, <2>2, <3>1 DEF Sessions
    <3> QED BY <1>1, <2>2, <3>2
  <2>6. CASE x # v BY <1>1, <2>3, <2>4, <2>6 DEF TypeOK
  <2> QED BY <2>5, <2>6
<1>8. ASSUME NEW v \in Visitors, DestroySession(v) PROVE SessionInv'
  <2>1. UNCHANGED account /\ session' = [session EXCEPT ![v] = NoSession]
    BY <1>8 DEF DestroySession, accountVars
  <2>2. \A x \in Visitors : session'[x] # NoSession => session'[x] = session[x]
    BY <2>1 DEF TypeOK
  <2> QED BY <1>1, <2>1, <2>2 DEF SessionInv
<1>9. ASSUME NEW r \in Requests, RequestStart(r) \/ RequestStep(r) PROVE UNCHANGED session
  BY <1>9 DEF RequestStart, Resend, Forgot, OpenForm, Click, Starts, RequestStep,
              ChangeEmail, BeginIssue, CancelOldMail, ReplaceLink, LockLink, LockRow,
              ConsumeEmailVerification, ConsumePasswordResetToken, Abort, Unwritten
<1>10. ASSUME NEW w \in Workers, WorkerStep(w) \/ Restart(w) PROVE UNCHANGED session
  BY <1>10 DEF WorkerStep, CancelUndeliverable, NothingToClaim, Claim, Accept, Refuse,
               CompleteEmailOutbox, FailEmailOutbox, RetryEmailOutbox, ReportLost,
               Report, Restart, Bystanders
<1>11. ASSUME NEW t \in Tokens, Clock(t) PROVE UNCHANGED session
  BY <1>11 DEF Clock, Ages, RetryDue, GoesStale, Bystanders
<1>12. ASSUME NEW u \in Users,
              DeactivateUser(u) \/ \E p \in Passwords : SetUserPasswordHash(u, p)
       PROVE  UNCHANGED session
  BY <1>12 DEF DeactivateUser, SetUserPasswordHash
<1> QED BY <1>4, <1>5, <1>6, <1>7, <1>8, <1>9, <1>10, <1>11, <1>12
        DEF Next, AccountStep

\* A session is admitted only while the account has the password it was opened
\* with: Login.Post keeps the version of the row it compared the password with,
\* and every change of a password moves the version.
THEOREM SessionsAgree == Spec => []SessionsKnowThePassword
<1>1. Init => SessionInv BY DEF Init, SessionInv
<1>2. TypeOK /\ SessionInv /\ [Next]_vars => SessionInv' BY SessionStep
<1>3. SessionInv => SessionsKnowThePassword
  BY DEF SessionInv, SessionsKnowThePassword, Admitted, NoSession
<1> QED BY <1>1, <1>2, <1>3, Typing, PTL DEF Spec

-----------------------------------------------------------------------------
(* Links.                                                                  *)

\* No lock has two holders.
LocksExclusive ==
  \A q, r \in Requests : q # r => held[q] \cap held[r] = {}

\* What a request that follows a link knows of it: a verification link that is
\* still live is for the current address, and once the row is locked it stays
\* live until this request ends.
FollowsLiveLink ==
  \A r \in Requests : req[r] \in Following =>
    LET t == req[r].token IN
    /\ KindOf[t] = req[r].op
    /\ link[t] # "NONE"
    /\ req[r].op = "EMAIL_VERIFICATION" /\ link[t] = "LIVE" =>
         account[UserOf[t]].email = address[t]
    /\ req[r].step = "rows" => link[t] = "LIVE" /\ TokenRow(t) \in held[r]

LinkInv == LocksExclusive /\ FollowsLiveLink /\ VerifiedAddressIsProven

linkState == <<account, proven, link, address>>

\* Locks are granted one holder at a time, and let go at the end.
LEMMA LockStep ==
  ASSUME TypeOK, LocksExclusive, NEW r \in Requests,
         \/ UNCHANGED held
         \/ Ends(r)
         \/ \E ls \in SUBSET Locks : FreeFor(r, ls) /\ Lock(r, ls)
  PROVE  /\ LocksExclusive'
         /\ \A q \in Requests \ {r} : held'[q] = held[q]
<1>1. CASE UNCHANGED held BY <1>1 DEF LocksExclusive
<1>2. CASE Ends(r) BY <1>2 DEF Ends, LocksExclusive, TypeOK
<1>3. ASSUME NEW ls \in SUBSET Locks, FreeFor(r, ls), Lock(r, ls)
      PROVE  /\ LocksExclusive'
             /\ \A q \in Requests \ {r} : held'[q] = held[q]
  <2>1. held' = [held EXCEPT ![r] = held[r] \cup ls] BY <1>3 DEF Lock
  <2>2. \A q \in Requests \ {r} : held'[q] = held[q] BY <2>1 DEF TypeOK
  <2>3. held'[r] = held[r] \cup ls BY <2>1 DEF TypeOK
  <2>4. \A q \in Requests \ {r} : ls \cap held[q] = {} BY <1>3 DEF FreeFor
  <2> QED BY <2>2, <2>3, <2>4 DEF LocksExclusive
<1> QED BY <1>1, <1>2, <1>3

\* A step that writes no row and follows no link.
LEMMA QuietStep ==
  ASSUME TypeOK, LinkInv, NEW r \in Requests, UNCHANGED linkState,
         \/ UNCHANGED held
         \/ Ends(r)
         \/ \E ls \in SUBSET Locks : FreeFor(r, ls) /\ Lock(r, ls),
         req' = req \/ \E x : x \notin Following /\ req' = [req EXCEPT ![r] = x],
         req'[r] \in Following => held[r] \subseteq held'[r]
  PROVE  LinkInv'
<1>1. LocksExclusive' /\ \A q \in Requests \ {r} : held'[q] = held[q]
  BY LockStep DEF LinkInv
<1>2. VerifiedAddressIsProven' BY DEF LinkInv, VerifiedAddressIsProven, linkState
<1>3. \A q \in Requests : req'[q] \in Following =>
        req'[q] = req[q] /\ held[q] \subseteq held'[q]
  BY <1>1 DEF TypeOK
<1>4. UNCHANGED <<account, link, address>> BY DEF linkState
<1>5. FollowsLiveLink' BY <1>3, <1>4 DEF LinkInv, FollowsLiveLink
<1> QED BY <1>1, <1>2, <1>5 DEF LinkInv

\* The two record types are apart.
LEMMA Kindred ==
  /\ \A x \in Issuing : x \notin Following
  /\ IdleRequest \notin Following
BY DEF Issuing, Following, IdleRequest

\* Starting a request, or working towards a new link, follows none.
LEMMA IssuingStep ==
  ASSUME TypeOK, LinkInv, NEW r \in Requests,
         \/ \E u \in Users : Resend(r, u) \/ Forgot(r, u) \/ \E e \in Emails : OpenForm(r, u, e)
         \/ ChangeEmail(r) \/ BeginIssue(r) \/ CancelOldMail(r) \/ Abort(r) \/ LockRow(r)
  PROVE  LinkInv'
<1> USE ConstantsAssumption
<1>1. ASSUME NEW x, x \notin Following, Starts(r, x) PROVE LinkInv'
  <2>1. UNCHANGED linkState /\ UNCHANGED held /\ req' = [req EXCEPT ![r] = x]
    BY <1>1 DEF Starts, linkState, accountVars, linkVars
  <2>2. held[r] \subseteq held'[r] BY <2>1
  <2> QED BY <1>1, <2>1, <2>2, QuietStep
<1>2. ASSUME Unwritten PROVE UNCHANGED linkState
  BY <1>2 DEF Unwritten, linkState, accountVars, linkVars
<1>3. ASSUME Ends(r), Unwritten PROVE LinkInv'
  <2>1. req' = [req EXCEPT ![r] = IdleRequest] BY <1>3 DEF Ends
  <2>2. req'[r] \notin Following BY <2>1, Kindred DEF TypeOK
  <2> QED BY <1>2, <1>3, <2>1, <2>2, Kindred, QuietStep
<1>4. ASSUME NEW step \in {"issue", "mail", "token"}, req[r] \in Issuing, Goto(r, step),
             NEW ls \in SUBSET Locks, FreeFor(r, ls), Lock(r, ls), Unwritten
      PROVE  LinkInv'
  <2>1. [req[r] EXCEPT !.step = step] \in Issuing BY <1>4 DEF Issuing
  <2> DEFINE x == [req[r] EXCEPT !.step = step]
  <2>2. req' = [req EXCEPT ![r] = x] BY <1>4 DEF Goto
  <2>3. x \notin Following BY <2>1, Kindred
  <2> HIDE DEF x
  <2>4. req'[r] \notin Following BY <2>2, <2>3 DEF TypeOK
  <2> QED BY <1>2, <1>4, <2>2, <2>3, <2>4, QuietStep
<1>5. \A u \in Users, e \in Emails : \A op \in {"RESEND", "FORGOT", "CHANGE"} :
        /\ IssueRequest(op, u, e) \notin Following
        /\ [IssueRequest(op, u, e) EXCEPT !.step = "form"] \notin Following
  BY DEF IssueRequest, Following
<1>6. \A u \in Users : account[u].email \in Emails BY DEF TypeOK, Accounts
<1>7. ASSUME NEW u \in Users, Resend(r, u) \/ Forgot(r, u) PROVE LinkInv'
  BY <1>1, <1>5, <1>6, <1>7 DEF Resend, Forgot
<1>8. ASSUME NEW u \in Users, NEW e \in Emails, OpenForm(r, u, e) PROVE LinkInv'
  BY <1>1, <1>5, <1>8 DEF OpenForm
<1>9. \A l : Free(l) => FreeFor(r, {l}) BY DEF Free, FreeFor
<1>10. CASE ChangeEmail(r)
  <2> DEFINE ls == {UserRow(req[r].user), AddressEntry(req[r].email)}
  <2>1. req[r] \in Issuing BY <1>10, RequestKinds DEF ChangeEmail
  <2>2. ls \in SUBSET Locks BY <2>1, LockNames DEF Issuing
  <2>3. FreeFor(r, ls) BY <1>10 DEF ChangeEmail, Free, FreeFor
  <2>4. (Goto(r, "issue") /\ Lock(r, ls)) \/ Ends(r) BY <1>10 DEF ChangeEmail
  <2>5. Unwritten BY <1>10 DEF ChangeEmail
  <2> HIDE DEF ls
  <2> QED BY <1>3, <1>4, <2>1, <2>2, <2>3, <2>4, <2>5
<1>11. CASE BeginIssue(r)
  <2> DEFINE l == IssueLock(KindIssued(r), req[r].user)
  <2>1. req[r] \in Issuing BY <1>11, RequestKinds DEF BeginIssue
  <2>2. {l} \in SUBSET Locks BY <2>1, LockNames DEF Issuing, KindIssued, Kinds
  <2>3. FreeFor(r, {l}) BY <1>9, <1>11 DEF BeginIssue
  <2>4. (Goto(r, "mail") /\ Lock(r, {l})) \/ Ends(r) BY <1>11 DEF BeginIssue
  <2>5. Unwritten BY <1>11 DEF BeginIssue
  <2> HIDE DEF l
  <2> QED BY <1>3, <1>4, <2>1, <2>2, <2>3, <2>4, <2>5
<1>12. CASE CancelOldMail(r)
  <2> DEFINE ls == {MailRow(t) : t \in OpenMail(Live(req[r].user, KindIssued(r)))}
  <2>1. req[r] \in Issuing BY <1>12, RequestKinds DEF CancelOldMail
  <2>2. ls \in SUBSET Locks BY LockNames DEF OpenMail, Live
  <2>3. FreeFor(r, ls) /\ Goto(r, "token") /\ Lock(r, ls) /\ Unwritten
    BY <1>12 DEF CancelOldMail
  <2> HIDE DEF ls
  <2> QED BY <1>4, <2>1, <2>2, <2>3
<1>13. CASE LockRow(r)
  <2>1. req[r] \in Following BY <1>13, RequestKinds DEF LockRow
  <2>2. RowsToWrite(r) \in SUBSET Locks BY <2>1, LockNames DEF RowsToWrite, Following
  <2>3. PICK l \in RowsToWrite(r) : Free(l) /\ Lock(r, {l}) BY <1>13 DEF LockRow
  <2>4. {l} \in SUBSET Locks /\ FreeFor(r, {l}) BY <1>9, <2>2, <2>3
  <2>5. held[r] \subseteq held'[r] BY <2>3 DEF Lock, TypeOK
  <2>6. UNCHANGED req /\ Unwritten BY <1>13 DEF LockRow
  <2> QED BY <1>2, <2>3, <2>4, <2>5, <2>6, QuietStep
<1> QED BY <1>3, <1>7, <1>8, <1>10, <1>11, <1>12, <1>13 DEF Abort

\* A click sees a usable link.
LEMMA ClickStep ==
  ASSUME TypeOK, LinkInv, NEW r \in Requests, NEW t \in Tokens, NEW p \in Passwords,
         Click(r, t, p)
  PROVE  LinkInv'
<1> DEFINE x == [step |-> "click", op |-> KindOf[t], token |-> t, password |-> p]
<1>1. req' = [req EXCEPT ![r] = x] /\ UNCHANGED <<held, account, proven, link, address>>
  BY DEF Click, Starts, accountVars, linkVars
<1>2. link[t] = "LIVE" /\ account[UserOf[t]].email = address[t] BY DEF Click, Usable
<1>3. req'[r] = x /\ \A q \in Requests \ {r} : req'[q] = req[q] BY <1>1 DEF TypeOK
<1>4. FollowsLiveLink'
  <2> SUFFICES ASSUME NEW q \in Requests, req'[q] \in Following
               PROVE  LET t1 == req'[q].token IN
                      /\ KindOf[t1] = req'[q].op
                      /\ link[t1] # "NONE"
                      /\ req'[q].op = "EMAIL_VERIFICATION" /\ link[t1] = "LIVE" =>
                           account[UserOf[t1]].email = address[t1]
                      /\ req'[q].step = "rows" => link[t1] = "LIVE" /\ TokenRow(t1) \in held[q]
    BY <1>1 DEF FollowsLiveLink
  <2>1. CASE q = r BY <1>2, <1>3, <2>1
  <2>2. CASE q # r BY <1>3, <2>2 DEF LinkInv, FollowsLiveLink
  <2> QED BY <2>1, <2>2
<1> QED BY <1>1, <1>4 DEF LinkInv, LocksExclusive, VerifiedAddressIsProven

\* The lock is granted, and the link is still live or the request is over.
LEMMA LockLinkStep ==
  ASSUME TypeOK, LinkInv, NEW r \in Requests, LockLink(r)
  PROVE  LinkInv'
<1> DEFINE t == req[r].token
<1>1. req[r] \in Following BY RequestKinds DEF LockLink
<1>2. UNCHANGED <<account, proven, link, address>>
  BY DEF LockLink, Unwritten, accountVars, linkVars
<1>3. CASE Ends(r)
  <2>1. req' = [req EXCEPT ![r] = IdleRequest] BY <1>3 DEF Ends
  <2>2. req'[r] \notin Following BY <2>1, Kindred DEF TypeOK
  <2> QED BY <1>2, <1>3, <2>1, <2>2, Kindred, QuietStep DEF linkState
<1>4. CASE link[t] = "LIVE" /\ Goto(r, "rows") /\ Lock(r, {TokenRow(t)})
  <2>1. {TokenRow(t)} \in SUBSET Locks BY <1>1, LockNames DEF Following
  <2>2. FreeFor(r, {TokenRow(t)}) BY DEF LockLink, Free, FreeFor
  <2>3. LocksExclusive' /\ \A q \in Requests \ {r} : held'[q] = held[q]
    BY <1>4, <2>1, <2>2, LockStep DEF LinkInv
  <2>4. TokenRow(t) \in held'[r] BY <1>4 DEF Lock, TypeOK
  <2>5. req'[r] = [req[r] EXCEPT !.step = "rows"] /\ \A q \in Requests \ {r} : req'[q] = req[q]
    BY <1>4 DEF Goto, TypeOK
  <2>6. req'[r].token = t /\ req'[r].op = req[r].op BY <1>1, <2>5 DEF Following
  <2>7. FollowsLiveLink'
    <3> HIDE DEF t
    <3> SUFFICES ASSUME NEW q \in Requests, req'[q] \in Following
                 PROVE  LET t1 == req'[q].token IN
                        /\ KindOf[t1] = req'[q].op
                        /\ link[t1] # "NONE"
                        /\ req'[q].op = "EMAIL_VERIFICATION" /\ link[t1] = "LIVE" =>
                             account[UserOf[t1]].email = address[t1]
                        /\ req'[q].step = "rows" =>
                             link[t1] = "LIVE" /\ TokenRow(t1) \in held'[q]
      BY <1>2 DEF FollowsLiveLink
    <3>1. CASE q = r BY <1>1, <1>4, <2>4, <2>6, <3>1 DEF LinkInv, FollowsLiveLink, t
    <3>2. CASE q # r BY <2>3, <2>5, <3>2 DEF LinkInv, FollowsLiveLink
    <3> QED BY <3>1, <3>2
  <2> QED BY <1>2, <2>3, <2>7 DEF LinkInv, VerifiedAddressIsProven
<1> QED BY <1>3, <1>4 DEF LockLink, StillUnconsumed

\* What a commit that uses up one link leaves to the others.
LEMMA ConsumeStep ==
  ASSUME TypeOK, LinkInv, NEW r \in Requests, req[r] \in Following,
         req[r].step = "rows", Consume(req[r].token), Ends(r), UNCHANGED address,
         \A u \in Users : account'[u].email = account[u].email,
         VerifiedAddressIsProven'
  PROVE  LinkInv'
<1> DEFINE t == req[r].token
<1>1. t \in Tokens /\ link[t] = "LIVE" /\ TokenRow(t) \in held[r]
  BY DEF LinkInv, FollowsLiveLink, Following
<1>2. LocksExclusive' /\ \A q \in Requests \ {r} : held'[q] = held[q]
  BY LockStep DEF LinkInv
<1>3. req'[r] \notin Following /\ \A q \in Requests \ {r} : req'[q] = req[q]
  BY Kindred DEF Ends, TypeOK
<1>4. link'[t] = "USED" /\ \A x \in Tokens \ {t} : link'[x] = link[x]
  BY <1>1 DEF Consume, TypeOK
<1>5. ASSUME NEW q \in Requests, req'[q] \in Following
      PROVE  LET t1 == req'[q].token IN
             /\ KindOf[t1] = req'[q].op
             /\ link'[t1] # "NONE"
             /\ req'[q].op = "EMAIL_VERIFICATION" /\ link'[t1] = "LIVE" =>
                  account'[UserOf[t1]].email = address'[t1]
             /\ req'[q].step = "rows" => link'[t1] = "LIVE" /\ TokenRow(t1) \in held'[q]
  <2> DEFINE t1 == req[q].token
  <2>1. q # r /\ req'[q] = req[q] /\ held'[q] = held[q] BY <1>2, <1>3, <1>5
  <2>2. t1 \in Tokens /\ UserOf[t1] \in Users
    BY <1>5, <2>1, ConstantsAssumption DEF Following
  <2>3. /\ KindOf[t1] = req[q].op
        /\ link[t1] # "NONE"
        /\ req[q].op = "EMAIL_VERIFICATION" /\ link[t1] = "LIVE" =>
             account[UserOf[t1]].email = address[t1]
        /\ req[q].step = "rows" => link[t1] = "LIVE" /\ TokenRow(t1) \in held[q]
    BY <1>5, <2>1 DEF LinkInv, FollowsLiveLink
  <2>4. req[q].step = "rows" => t1 # t
    BY <1>1, <2>1, <2>3 DEF LinkInv, LocksExclusive
  <2> HIDE DEF t, t1
  <2>5. link'[t1] # "NONE" /\ (link'[t1] = "LIVE" => link[t1] = "LIVE")
        /\ (t1 # t => link'[t1] = link[t1])
    BY <1>4, <2>2, <2>3
  <2>6. account'[UserOf[t1]].email = account[UserOf[t1]].email /\ address'[t1] = address[t1]
    BY <2>2
  <2> QED BY <2>1, <2>3, <2>4, <2>5, <2>6 DEF t1
<1>6. FollowsLiveLink' BY <1>5 DEF FollowsLiveLink
<1> QED BY <1>2, <1>6 DEF LinkInv

LEMMA VerifyStep ==
  ASSUME TypeOK, LinkInv, NEW r \in Requests, ConsumeEmailVerification(r)
  PROVE  LinkInv'
<1> DEFINE t == req[r].token
           u == UserOf[t]
           row == [account[u] EXCEPT !.verified = TRUE]
<1>1. req[r] \in Following BY RequestKinds DEF ConsumeEmailVerification
<1>2. t \in Tokens /\ u \in Users /\ account[u] \in Accounts /\ row \in Accounts
  BY <1>1, ConsumedAccount
<1>3. Write(u, row) /\ proven' = [proven EXCEPT ![u] = address[t]]
  BY DEF ConsumeEmailVerification
<1>4. /\ req[r].step = "rows" /\ req[r].op = "EMAIL_VERIFICATION"
      /\ Consume(t) /\ Ends(r) /\ UNCHANGED address
  BY DEF ConsumeEmailVerification
<1>5. account[u].email = address[t]
  BY <1>1, <1>4 DEF LinkInv, FollowsLiveLink
<1>6. row.email = account[u].email BY <1>2 DEF Accounts
<1>7. proven'[u] = address[t] /\ \A x \in Users \ {u} : proven'[x] = proven[x]
  BY <1>2, <1>3 DEF TypeOK
<1>8. /\ \A x \in Users \ {u} : account'[x] = account[x]
      /\ account'[u].email = account[u].email
  <2> HIDE DEF u, row
  <2> QED BY <1>2, <1>3, <1>6, Written
<1>9. VerifiedAddressIsProven'
  <2> HIDE DEF t, u
  <2> QED BY <1>2, <1>5, <1>7, <1>8 DEF LinkInv, VerifiedAddressIsProven
<1>10. \A x \in Users : account'[x].email = account[x].email
  <2> HIDE DEF u
  <2> QED BY <1>8
<1> QED BY <1>1, <1>4, <1>9, <1>10, ConsumeStep

LEMMA ResetStep ==
  ASSUME TypeOK, LinkInv, NEW r \in Requests, ConsumePasswordResetToken(r)
  PROVE  LinkInv'
<1> DEFINE t == req[r].token
           u == UserOf[t]
           row == [account[u] EXCEPT !.password = req[r].password, !.version = @ + 1]
<1>1. req[r] \in Following BY RequestKinds DEF ConsumePasswordResetToken
<1>2. t \in Tokens /\ u \in Users /\ account[u] \in Accounts /\ row \in Accounts
  BY <1>1, ConsumedAccount
<1>3. Write(u, row) /\ UNCHANGED proven BY DEF ConsumePasswordResetToken
<1>4. req[r].step = "rows" /\ Consume(t) /\ Ends(r) /\ UNCHANGED address
  BY DEF ConsumePasswordResetToken
<1>5. row.email = account[u].email /\ row.verified = account[u].verified
  BY <1>2 DEF Accounts
<1>6. \A x \in Users : /\ account'[x].email = account[x].email
                       /\ account'[x].verified = account[x].verified
  <2> HIDE DEF u, row
  <2> QED BY <1>2, <1>3, <1>5, Written
<1>7. VerifiedAddressIsProven' BY <1>3, <1>6 DEF LinkInv, VerifiedAddressIsProven
<1> QED BY <1>1, <1>4, <1>6, <1>7, ConsumeStep

\* A new link closes every live one of its kind, those being followed included:
\* a request that holds the row of one would have kept the new link waiting.
LEMMA ReplaceStep ==
  ASSUME TypeOK, LinkInv, NEW r \in Requests, NEW n \in Tokens, ReplaceLink(r, n)
  PROVE  LinkInv'
<1> USE ConstantsAssumption
<1> DEFINE u == req[r].user
           k == KindIssued(r)
<1>1. req[r] \in Issuing BY RequestKinds DEF ReplaceLink
<1>2. u \in Users /\ link[n] = "NONE" /\ Ends(r) /\ UNCHANGED proven
  BY <1>1 DEF Issuing, ReplaceLink, Unissued
<1>3. \A x \in Tokens \ {n} : link'[x] = IF x \in Live(u, k) THEN "VOID" ELSE link[x]
  BY DEF ReplaceLink
<1>4. \A x \in Tokens \ {n} : address'[x] = address[x] BY DEF ReplaceLink, TypeOK
<1>5. \A q \in Requests \ {r} : \A x \in Live(u, k) : TokenRow(x) \notin held[q]
  BY DEF ReplaceLink, FreeFor
<1>6. /\ \A x \in Users \ {u} : account'[x] = account[x]
      /\ req[r].op # "CHANGE" => account' = account
      /\ req[r].op = "CHANGE" => ~account'[u].verified
  <2>1. CASE req[r].op = "CHANGE"
    <3> DEFINE row == [account[u] EXCEPT !.email = req[r].email, !.verified = FALSE]
    <3>1. account[u] \in Accounts /\ row \in Accounts BY <1>1, ChangedAccount
    <3>2. Write(u, row) BY <2>1 DEF ReplaceLink
    <3>3. row.verified = FALSE BY <3>1 DEF Accounts
    <3> HIDE DEF u, row
    <3> QED BY <1>2, <2>1, <3>1, <3>2, <3>3, Written
  <2>2. CASE req[r].op # "CHANGE" BY <2>2 DEF ReplaceLink
  <2> QED BY <2>1, <2>2
<1>7. LocksExclusive' /\ \A q \in Requests \ {r} : held'[q] = held[q]
  BY <1>2, LockStep DEF LinkInv
<1>8. req'[r] \notin Following /\ \A q \in Requests \ {r} : req'[q] = req[q]
  BY <1>2, Kindred DEF Ends, TypeOK
<1>9. VerifiedAddressIsProven'
  BY <1>2, <1>6 DEF LinkInv, VerifiedAddressIsProven
<1>10. ASSUME NEW q \in Requests, req'[q] \in Following
       PROVE  LET t == req'[q].token IN
              /\ KindOf[t] = req'[q].op
              /\ link'[t] # "NONE"
              /\ req'[q].op = "EMAIL_VERIFICATION" /\ link'[t] = "LIVE" =>
                   account'[UserOf[t]].email = address'[t]
              /\ req'[q].step = "rows" => link'[t] = "LIVE" /\ TokenRow(t) \in held'[q]
  <2> DEFINE t == req[q].token
  <2>1. q # r /\ req'[q] = req[q] /\ held'[q] = held[q] BY <1>7, <1>8, <1>10
  <2>2. t \in Tokens /\ UserOf[t] \in Users BY <1>10, <2>1 DEF Following
  <2>3. /\ KindOf[t] = req[q].op
        /\ link[t] # "NONE"
        /\ req[q].op = "EMAIL_VERIFICATION" /\ link[t] = "LIVE" =>
             account[UserOf[t]].email = address[t]
        /\ req[q].step = "rows" => link[t] = "LIVE" /\ TokenRow(t) \in held[q]
    BY <1>10, <2>1 DEF LinkInv, FollowsLiveLink
  <2>4. t # n BY <1>2, <2>3
  <2>5. link'[t] = (IF t \in Live(u, k) THEN "VOID" ELSE link[t]) /\ address'[t] = address[t]
    BY <1>3, <1>4, <2>2, <2>4
  <2>6. req[q].step = "rows" => t \notin Live(u, k) BY <1>5, <2>1, <2>3
  <2>7. ASSUME KindOf[t] = "EMAIL_VERIFICATION", link'[t] = "LIVE"
        PROVE  account'[UserOf[t]] = account[UserOf[t]]
    <3>1. t \notin Live(u, k) /\ link[t] = "LIVE" BY <2>5, <2>7
    <3>2. CASE req[r].op = "CHANGE"
      <4>1. k = "EMAIL_VERIFICATION" BY <3>2 DEF KindIssued
      <4>2. UserOf[t] # u BY <2>2, <2>7, <3>1, <4>1 DEF Live
      <4> QED BY <1>6, <2>2, <4>2
    <3>3. CASE req[r].op # "CHANGE" BY <1>6, <3>3
    <3> QED BY <3>2, <3>3
  <2> HIDE DEF t, u, k
  <2> QED BY <2>1, <2>3, <2>5, <2>6, <2>7 DEF t
<1>11. FollowsLiveLink' BY <1>10 DEF FollowsLiveLink
<1> QED BY <1>7, <1>9, <1>11 DEF LinkInv

\* Workers, clocks, operators and browsers touch no link and no address.
LEMMA OtherStep ==
  ASSUME TypeOK, LinkInv,
         \/ \E w \in Workers : WorkerStep(w) \/ Restart(w)
         \/ \E t \in Tokens : Clock(t)
         \/ AccountStep
         \/ UNCHANGED vars
  PROVE  LinkInv' /\ UNCHANGED <<link, uses>>
<1>1. ASSUME UNCHANGED <<req, held, link, address, proven>>,
             \A u \in Users : /\ account'[u].email = account[u].email
                              /\ account'[u].verified = account[u].verified
      PROVE  LinkInv'
  <2>1. VerifiedAddressIsProven' BY <1>1 DEF LinkInv, VerifiedAddressIsProven
  <2>2. \A r \in Requests : req[r] \in Following =>
          account'[UserOf[req[r].token]].email = account[UserOf[req[r].token]].email
    BY <1>1, ConstantsAssumption DEF Following
  <2>3. FollowsLiveLink' BY <1>1, <2>2 DEF LinkInv, FollowsLiveLink
  <2> QED BY <1>1, <2>1, <2>3 DEF LinkInv, LocksExclusive
<1>2. ASSUME UNCHANGED <<req, held, link, uses, address, accountVars>>
      PROVE  LinkInv' /\ UNCHANGED <<link, uses>>
  BY <1>1, <1>2 DEF accountVars
<1>3. ASSUME NEW w \in Workers, WorkerStep(w) \/ Restart(w)
      PROVE  UNCHANGED <<req, held, link, uses, address, accountVars>>
  BY <1>3 DEF WorkerStep, CancelUndeliverable, NothingToClaim, Claim, Accept, Refuse,
              CompleteEmailOutbox, FailEmailOutbox, RetryEmailOutbox, ReportLost,
              Report, Restart, Bystanders, linkVars
<1>4. ASSUME NEW t \in Tokens, Clock(t)
      PROVE  UNCHANGED <<req, held, link, uses, address, accountVars>>
  BY <1>4 DEF Clock, Ages, RetryDue, GoesStale, Bystanders, linkVars
<1>5. ASSUME NEW u \in Users, NEW row \in Accounts, Write(u, row), Aside,
             UNCHANGED proven,
             row.email = account[u].email, row.verified = account[u].verified
      PROVE  LinkInv' /\ UNCHANGED <<link, uses>>
  <2>1. \A x \in Users : /\ account'[x].email = account[x].email
                         /\ account'[x].verified = account[x].verified
    BY <1>5, Written
  <2> QED BY <1>1, <1>5, <2>1 DEF Aside, linkVars
<1>6. ASSUME NEW u \in Users, DeactivateUser(u) PROVE LinkInv' /\ UNCHANGED <<link, uses>>
  <2> DEFINE row == [account[u] EXCEPT !.active = FALSE]
  <2>1. account[u] \in Accounts BY DEF TypeOK
  <2>2. account[u].password \in Passwords BY <2>1 DEF Accounts
  <2>3. row \in Accounts BY <2>2, OperatorAccount
  <2>4. Write(u, row) /\ Aside /\ UNCHANGED proven BY <1>6 DEF DeactivateUser
  <2>5. row.email = account[u].email /\ row.verified = account[u].verified
    BY <2>1 DEF Accounts
  <2> HIDE DEF row
  <2> QED BY <1>5, <2>3, <2>4, <2>5
<1>7. ASSUME NEW u \in Users, NEW p \in Passwords, SetUserPasswordHash(u, p)
      PROVE  LinkInv' /\ UNCHANGED <<link, uses>>
  <2> DEFINE row == [account[u] EXCEPT !.password = p, !.version = @ + 1]
  <2>1. account[u] \in Accounts /\ row \in Accounts BY OperatorAccount
  <2>2. Write(u, row) /\ Aside /\ UNCHANGED proven BY <1>7 DEF SetUserPasswordHash
  <2>3. row.email = account[u].email /\ row.verified = account[u].verified
    BY <2>1 DEF Accounts
  <2> HIDE DEF row
  <2> QED BY <1>5, <2>1, <2>2, <2>3
<1>8. ASSUME NEW v \in Visitors,
             \/ PutSession(v) \/ DestroySession(v)
             \/ \E u \in Users : CheckPassword(v, u)
      PROVE  UNCHANGED <<req, held, link, uses, address, accountVars>>
  BY <1>8 DEF PutSession, DestroySession, CheckPassword, Aside, linkVars
<1>9. ASSUME UNCHANGED vars
      PROVE  UNCHANGED <<req, held, link, uses, address, accountVars>>
  BY <1>9 DEF vars, linkVars
<1> QED BY <1>2, <1>3, <1>4, <1>6, <1>7, <1>8, <1>9 DEF AccountStep

LEMMA LinkStep ==
  ASSUME TypeOK, LinkInv, [Next]_vars
  PROVE  LinkInv'
BY IssuingStep, ClickStep, LockLinkStep, ReplaceStep, VerifyStep, ResetStep, OtherStep
   DEF Next, RequestStart, RequestStep

LEMMA LinkInvariant == Spec => [](TypeOK /\ LinkInv)
<1>1. Init => LinkInv
  BY Kindred DEF Init, LinkInv, LocksExclusive, FollowsLiveLink, VerifiedAddressIsProven
<1>2. TypeOK /\ LinkInv /\ [Next]_vars => LinkInv' BY LinkStep
<1> QED BY <1>1, <1>2, Typing, PTL DEF Spec

\* An account counts as verified only for the address whose link was followed:
\* ConsumeEmailVerification holds the row of a live link, and an address changes
\* only together with the replacement of every live verification link.
THEOREM VerifiedIsProven == Spec => []VerifiedAddressIsProven
<1>1. LinkInv => VerifiedAddressIsProven BY DEF LinkInv
<1> QED BY <1>1, LinkInvariant, PTL

\* Issuing and consuming links as the database does it, lock by lock, is one of
\* the behaviours of SingleUseLinks.
THEOREM LinksAreSingleUse == Spec => ImplementsSingleUse
<1> USE ConstantsAssumption
<1>1. Init => Links!Init BY DEF Init, Links!Init
<1>2. ASSUME TypeOK, LinkInv, [Next]_vars PROVE [Links!Next]_<<link, uses>>
  <2>1. ASSUME NEW r \in Requests, NEW n \in Tokens, ReplaceLink(r, n)
        PROVE  Links!Issue(n)
    <3> DEFINE u == req[r].user
               k == KindIssued(r)
    <3>1. link[n] = "NONE" /\ UserOf[n] = u /\ KindOf[n] = k /\ UNCHANGED uses
      BY <2>1 DEF ReplaceLink, Unissued
    <3>2. \A x \in Tokens : x \in Live(u, k) <=>
            /\ link[x] = "LIVE"
            /\ <<UserOf[x], KindOf[x]>> = <<UserOf[n], KindOf[n]>>
      BY <3>1 DEF Live
    <3>3. link' = [x \in Tokens |-> CASE x = n -> "LIVE"
                                      [] x \in Live(u, k) -> "VOID"
                                      [] OTHER -> link[x]]
      BY <2>1 DEF ReplaceLink
    <3>4. n \notin Live(u, k) BY <3>1 DEF Live
    <3> HIDE DEF u, k
    <3>5. link' = [x \in Tokens |->
                     CASE x = n -> "LIVE"
                       [] /\ x # n /\ link[x] = "LIVE"
                          /\ <<UserOf[x], KindOf[x]>> = <<UserOf[n], KindOf[n]>> -> "VOID"
                       [] OTHER -> link[x]]
      BY <3>2, <3>3, <3>4
    <3> QED BY <3>1, <3>5 DEF Links!Issue
  <2>2. ASSUME NEW r \in Requests,
               ConsumeEmailVerification(r) \/ ConsumePasswordResetToken(r)
        PROVE  \E t \in Tokens : Links!Use(t)
    <3> DEFINE t == req[r].token
    <3>1. req[r].step = "rows" /\ Consume(t)
      BY <2>2 DEF ConsumeEmailVerification, ConsumePasswordResetToken
    <3>2. req[r] \in Following BY <1>2, <3>1, RequestKinds
    <3>3. t \in Tokens /\ link[t] = "LIVE"
      BY <1>2, <3>1, <3>2 DEF LinkInv, FollowsLiveLink, Following
    <3> QED BY <3>1, <3>3 DEF Consume, Links!Use
  <2>3. ASSUME NEW r \in Requests, RequestStart(r) PROVE UNCHANGED <<link, uses>>
    BY <2>3 DEF RequestStart, Resend, Forgot, OpenForm, Click, Starts, linkVars
  <2>4. ASSUME NEW r \in Requests,
               \/ ChangeEmail(r) \/ BeginIssue(r) \/ CancelOldMail(r)
               \/ LockLink(r) \/ LockRow(r) \/ Abort(r)
        PROVE  UNCHANGED <<link, uses>>
    BY <2>4 DEF ChangeEmail, BeginIssue, CancelOldMail, LockLink, LockRow, Abort,
                Unwritten, linkVars
  <2>5. CASE \/ \E w \in Workers : WorkerStep(w) \/ Restart(w)
             \/ \E t \in Tokens : Clock(t)
             \/ AccountStep
             \/ UNCHANGED vars
    BY <1>2, <2>5, OtherStep
  <2>6. CASE \E r \in Requests : RequestStart(r) \/ RequestStep(r)
    BY <2>1, <2>2, <2>3, <2>4, <2>6 DEF RequestStep, Links!Next
  <2> QED BY <1>2, <2>5, <2>6 DEF Next
<1> QED BY <1>1, <1>2, LinkInvariant, PTL DEF Spec, Links!Spec, ImplementsSingleUse

\* What SingleUseLinks promises, by itself.
LEMMA LinkPromises == Links!Spec => [](Links!WorksOnce /\ Links!OneLivePerHolder)
<1> DEFINE LinkTyped == link \in [Tokens -> {"NONE", "LIVE", "USED", "VOID"}]
                        /\ uses \in [Tokens -> Nat]
           Promise == LinkTyped /\ Links!WorksOnce /\ Links!OneLivePerHolder
<1>1. Links!Init => Promise
  BY DEF Links!Init, Links!WorksOnce, Links!OneLivePerHolder
<1>2. ASSUME Promise, NEW t \in Tokens, Links!Issue(t) PROVE Promise'
  <2>1. /\ link[t] = "NONE" /\ link'[t] = "LIVE" /\ UNCHANGED uses
        /\ \A x \in Tokens \ {t} :
             link'[x] = IF link[x] = "LIVE"
                           /\ <<UserOf[x], KindOf[x]>> = <<UserOf[t], KindOf[t]>>
                        THEN "VOID" ELSE link[x]
    BY <1>2 DEF Links!Issue
  <2>2. LinkTyped' BY <1>2 DEF Links!Issue
  <2>3. Links!WorksOnce' BY <1>2, <2>1 DEF Links!WorksOnce
  <2>4. Links!OneLivePerHolder' BY <1>2, <2>1 DEF Links!OneLivePerHolder
  <2> QED BY <2>2, <2>3, <2>4
<1>3. ASSUME Promise, NEW t \in Tokens, Links!Use(t) PROVE Promise'
  <2>1. /\ link[t] = "LIVE" /\ link' = [link EXCEPT ![t] = "USED"]
        /\ uses' = [uses EXCEPT ![t] = uses[t] + 1] /\ uses[t] = 0
    BY <1>3 DEF Links!Use, Links!WorksOnce
  <2>2. LinkTyped' BY <1>3, <2>1
  <2>3. Links!WorksOnce' BY <1>3, <2>1 DEF Links!WorksOnce
  <2>4. Links!OneLivePerHolder' BY <1>3, <2>1 DEF Links!OneLivePerHolder
  <2> QED BY <2>2, <2>3, <2>4
<1>4. Promise /\ UNCHANGED <<link, uses>> => Promise'
  BY DEF Links!WorksOnce, Links!OneLivePerHolder
<1>5. Promise /\ [Links!Next]_<<link, uses>> => Promise'
  <2> HIDE DEF Promise
  <2> QED BY <1>2, <1>3, <1>4 DEF Links!Next
<1> QED BY <1>1, <1>5, PTL DEF Links!Spec

\* No link, mailed as often as it may be, changes an account twice, and an
\* account never has two links of a kind that work: what SingleUseLinks promises
\* holds of the lock-by-lock protocol.
THEOREM LinksWorkOnce == Spec => [](Links!WorksOnce /\ Links!OneLivePerHolder)
BY LinksAreSingleUse, LinkPromises, PTL DEF ImplementsSingleUse
=============================================================================
