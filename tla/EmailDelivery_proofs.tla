------------------------ MODULE EmailDelivery_proofs ------------------------
(***************************************************************************)
(* Theorems of EmailTokens about the mail of a link: its outcome, its      *)
(* copies, and how many links are mailed in an hour.  For any number of    *)
(* accounts, tokens, requests and workers, and any bounds.                 *)
(***************************************************************************)
EXTENDS EmailTokens_proofs, FiniteSetTheorems

-----------------------------------------------------------------------------
(* The mail of a link.                                                     *)

\* A token is inserted together with its mail.
MailComesWithLink == \A t \in Tokens : mail[t] = "NONE" <=> link[t] = "NONE"

\* Mail somebody has locked stays open until the lock is released.
LockedMailIsOpen ==
  \A r \in Requests, t \in Tokens : MailRow(t) \in held[r] => mail[t] \in Open

\* While a link is being issued nobody else issues one of its kind, and once
\* the old mail is locked all mail that is still open belongs to this request.
HoldsAsIssuer(r) ==
  /\ req[r].step \in {"mail", "token"} =>
       IssueLock(KindIssued(r), req[r].user) \in held[r]
  /\ req[r].step = "token" =>
       \A t \in Live(req[r].user, KindIssued(r)) :
         mail[t] \in Open => MailRow(t) \in held[r]

IssuerHolds == \A r \in Requests : req[r] \in Issuing => HoldsAsIssuer(r)

MailInv == MailComesWithLink /\ LockedMailIsOpen /\ IssuerHolds /\ NoMailForAClosedLink

\* A step of request r that writes no row.
LEMMA UnwrittenMail ==
  ASSUME TypeOK, MailInv, NEW r \in Requests, UNCHANGED <<mail, link>>,
         \A q \in Requests \ {r} : req'[q] = req[q] /\ held'[q] = held[q],
         \A t \in Tokens : MailRow(t) \in held'[r] \ held[r] => mail[t] \in Open,
         req'[r] \in Issuing => HoldsAsIssuer(r)'
  PROVE  MailInv'
<1>1. MailComesWithLink' /\ NoMailForAClosedLink'
  BY DEF MailInv, MailComesWithLink, NoMailForAClosedLink
<1>2. LockedMailIsOpen' BY DEF MailInv, LockedMailIsOpen
<1>3. ASSUME NEW q \in Requests \ {r}, req'[q] \in Issuing PROVE HoldsAsIssuer(q)'
  <2>1. req'[q] = req[q] /\ held'[q] = held[q] /\ HoldsAsIssuer(q)
    BY <1>3 DEF MailInv, IssuerHolds
  <2> QED BY <2>1 DEF HoldsAsIssuer, KindIssued, Live
<1>4. IssuerHolds' BY <1>3 DEF IssuerHolds
<1> QED BY <1>1, <1>2, <1>4 DEF MailInv

\* A step that takes no request further and moves open mail nobody has locked.
LEMMA FreeMail ==
  ASSUME TypeOK, MailInv, UNCHANGED <<link, req, held>>,
         \A t \in Tokens :
           \/ mail'[t] = mail[t]
           \/ Free(MailRow(t)) /\ mail[t] \in Open /\ mail'[t] \in Open \cup Final
  PROVE  MailInv'
<1>1. MailComesWithLink' BY DEF MailInv, MailComesWithLink, Open, Final
<1>2. NoMailForAClosedLink' BY DEF MailInv, NoMailForAClosedLink, Open, Final
<1>3. LockedMailIsOpen' BY DEF MailInv, LockedMailIsOpen, Free
<1>4. ASSUME NEW r \in Requests, req'[r] \in Issuing PROVE HoldsAsIssuer(r)'
  <2>1. req'[r] = req[r] /\ held'[r] = held[r] /\ HoldsAsIssuer(r)
    BY <1>4 DEF MailInv, IssuerHolds
  <2>2. Live(req[r].user, KindIssued(r))' = Live(req[r].user, KindIssued(r))
    BY <2>1 DEF Live, KindIssued
  <2>3. \A t \in Tokens : mail'[t] \in Open => mail[t] \in Open OBVIOUS
  <2>4. Live(req[r].user, KindIssued(r)) \subseteq Tokens BY DEF Live
  <2> QED BY <2>1, <2>2, <2>3, <2>4 DEF HoldsAsIssuer, KindIssued
<1> QED BY <1>1, <1>2, <1>3, <1>4 DEF MailInv, IssuerHolds

\* A request starts, waits, locks a row or gives up.
LEMMA WaitingMail ==
  ASSUME TypeOK, LinkInv, MailInv, NEW r \in Requests,
         \/ RequestStart(r)
         \/ ChangeEmail(r) \/ BeginIssue(r) \/ CancelOldMail(r)
         \/ LockLink(r) \/ LockRow(r) \/ Abort(r)
  PROVE  MailInv' /\ UNCHANGED mail
<1> USE ConstantsAssumption
<1>1. ASSUME NEW x, Starts(r, x), x \in Issuing => x.step \in {"form", "issue"}
      PROVE  MailInv' /\ UNCHANGED mail
  <2>1. /\ UNCHANGED <<mail, link, held>>
        /\ req'[r] = x /\ \A q \in Requests \ {r} : req'[q] = req[q]
    BY <1>1 DEF Starts, linkVars, mailVars, TypeOK
  <2>2. req'[r] \in Issuing => HoldsAsIssuer(r)' BY <1>1, <2>1 DEF HoldsAsIssuer
  <2> QED BY <2>1, <2>2, UnwrittenMail
<1>2. Unwritten => UNCHANGED <<mail, link>> BY DEF Unwritten, linkVars, mailVars
<1>3. ASSUME Ends(r), Unwritten PROVE MailInv' /\ UNCHANGED mail
  <2>1. /\ req'[r] = IdleRequest /\ held'[r] = {}
        /\ \A q \in Requests \ {r} : req'[q] = req[q] /\ held'[q] = held[q]
    BY <1>3 DEF Ends, TypeOK
  <2>2. req'[r] \notin Issuing BY <2>1 DEF IdleRequest, Issuing
  <2> QED BY <1>2, <1>3, <2>1, <2>2, UnwrittenMail
<1>4. ASSUME NEW ls, Lock(r, ls), Unwritten,
             req' = req \/ \E step : Goto(r, step),
             \A t \in Tokens : MailRow(t) \in ls => mail[t] \in Open,
             req'[r] \in Issuing => HoldsAsIssuer(r)'
      PROVE  MailInv' /\ UNCHANGED mail
  <2>1. \A q \in Requests \ {r} : req'[q] = req[q] /\ held'[q] = held[q]
    BY <1>4 DEF Lock, Goto, TypeOK
  <2>2. held'[r] = held[r] \cup ls BY <1>4 DEF Lock, TypeOK
  <2> QED BY <1>2, <1>4, <2>1, <2>2, UnwrittenMail
<1>5. \A step : Goto(r, step) => req'[r] = [req[r] EXCEPT !.step = step]
  BY DEF Goto, TypeOK
<1>6. ASSUME req[r] \in Issuing, NEW step, Goto(r, step)
      PROVE  /\ req'[r].step = step /\ req'[r].op = req[r].op
             /\ req'[r].user = req[r].user
  <2>1. req'[r] = [req[r] EXCEPT !.step = step] BY <1>6 DEF Goto, TypeOK
  <2> QED BY <1>6, <2>1 DEF Issuing
<1>7. ASSUME RequestStart(r) PROVE MailInv' /\ UNCHANGED mail
  <2>1. \A u \in Users, e \in Emails : \A op \in {"RESEND", "FORGOT", "CHANGE"} :
          /\ IssueRequest(op, u, e).step = "issue"
          /\ [IssueRequest(op, u, e) EXCEPT !.step = "form"].step = "form"
    BY DEF IssueRequest
  <2>2. \A u \in Users : account[u].email \in Emails BY DEF TypeOK, Accounts
  <2>3. ASSUME NEW u \in Users, Resend(r, u) \/ Forgot(r, u)
        PROVE  MailInv' /\ UNCHANGED mail
    BY <1>1, <2>1, <2>2, <2>3 DEF Resend, Forgot
  <2>4. ASSUME NEW u \in Users, NEW e \in Emails, OpenForm(r, u, e)
        PROVE  MailInv' /\ UNCHANGED mail
    BY <1>1, <2>1, <2>4 DEF OpenForm
  <2>5. ASSUME NEW t \in Tokens, NEW p \in Passwords, Click(r, t, p)
        PROVE  MailInv' /\ UNCHANGED mail
    <3> DEFINE x == [step |-> "click", op |-> KindOf[t], token |-> t, password |-> p]
    <3>1. Starts(r, x) BY <2>5 DEF Click
    <3>2. x \notin Issuing BY DEF Issuing
    <3> HIDE DEF x
    <3> QED BY <1>1, <3>1, <3>2
  <2> QED BY <1>7, <2>3, <2>4, <2>5 DEF RequestStart
<1>8. CASE ChangeEmail(r)
  <2> DEFINE ls == {UserRow(req[r].user), AddressEntry(req[r].email)}
  <2>1. Unwritten /\ ((Goto(r, "issue") /\ Lock(r, ls)) \/ Ends(r))
    BY <1>8 DEF ChangeEmail
  <2>2. req[r] \in Issuing BY <1>8, RequestKinds DEF ChangeEmail
  <2>3. \A t \in Tokens : MailRow(t) \notin ls
    BY DEF UserRow, AddressEntry, MailRow
  <2>4. CASE Goto(r, "issue") /\ Lock(r, ls)
    <3>1. req'[r].step = "issue" BY <1>6, <2>2, <2>4
    <3>2. HoldsAsIssuer(r)' BY <3>1 DEF HoldsAsIssuer
    <3> HIDE DEF ls
    <3> QED BY <1>4, <2>1, <2>3, <2>4, <3>2
  <2> QED BY <1>3, <2>1, <2>4
<1>9. CASE BeginIssue(r)
  <2> DEFINE lock == IssueLock(KindIssued(r), req[r].user)
  <2>1. Unwritten /\ ((Goto(r, "mail") /\ Lock(r, {lock})) \/ Ends(r))
    BY <1>9 DEF BeginIssue
  <2>2. req[r] \in Issuing BY <1>9, RequestKinds DEF BeginIssue
  <2>3. \A t \in Tokens : MailRow(t) \notin {lock}
    BY DEF IssueLock, KindIssued, MailRow
  <2>4. CASE Goto(r, "mail") /\ Lock(r, {lock})
    <3>1. /\ req'[r].step = "mail" /\ req'[r].op = req[r].op
          /\ req'[r].user = req[r].user
      BY <1>6, <2>2, <2>4
    <3>2. lock \in held'[r] BY <2>4 DEF Lock, TypeOK
    <3>3. IssueLock(KindIssued(r), req[r].user)' = lock BY <3>1 DEF KindIssued, IssueLock
    <3>4. HoldsAsIssuer(r)' BY <3>1, <3>2, <3>3 DEF HoldsAsIssuer
    <3> HIDE DEF lock
    <3> QED BY <1>4, <2>1, <2>3, <2>4, <3>4
  <2> QED BY <1>3, <2>1, <2>4
<1>10. CASE CancelOldMail(r)
  <2> DEFINE u == req[r].user
             k == KindIssued(r)
             ls == {MailRow(t) : t \in OpenMail(Live(u, k))}
  <2>1. Unwritten /\ Goto(r, "token") /\ Lock(r, ls) /\ req[r].step = "mail"
    BY <1>10 DEF CancelOldMail
  <2>2. req[r] \in Issuing BY <1>10, RequestKinds DEF CancelOldMail
  <2>3. \A t \in Tokens : MailRow(t) \in ls => mail[t] \in Open
    BY DEF MailRow, OpenMail
  <2>4. \A t \in Live(u, k) : mail[t] \in Open => MailRow(t) \in ls
    BY DEF OpenMail
  <2>5. req'[r].step = "token" /\ req'[r].op = req[r].op /\ req'[r].user = u
    BY <1>6, <2>1, <2>2
  <2>6. held'[r] = held[r] \cup ls BY <2>1 DEF Lock, TypeOK
  <2>7. IssueLock(k, u) \in held[r]
    BY <2>1, <2>2 DEF MailInv, IssuerHolds, HoldsAsIssuer
  <2>8. KindIssued(r)' = k BY <2>5 DEF KindIssued
  <2>9. Live(req[r].user, KindIssued(r))' = Live(u, k)
    BY <1>2, <2>1, <2>5, <2>8 DEF Live
  <2> HIDE DEF ls, u, k
  <2>10. IssueLock(KindIssued(r), req[r].user)' = IssueLock(k, u)
    BY <2>5, <2>8 DEF IssueLock
  <2>11. HoldsAsIssuer(r)'
    BY <1>2, <2>1, <2>4, <2>6, <2>7, <2>9, <2>10 DEF HoldsAsIssuer, MailRow
  <2> QED BY <1>4, <2>1, <2>3, <2>11
<1>11. CASE LockLink(r)
  <2>1. Unwritten /\ ((Goto(r, "rows") /\ Lock(r, {TokenRow(req[r].token)})) \/ Ends(r))
    BY <1>11 DEF LockLink
  <2>2. req[r] \in Following BY <1>11, RequestKinds DEF LockLink
  <2>3. CASE Goto(r, "rows") /\ Lock(r, {TokenRow(req[r].token)})
    <3>1. [req[r] EXCEPT !.step = "rows"] \in Following BY <2>2 DEF Following
    <3>2. req'[r] \notin Issuing BY <1>5, <2>3, <3>1, Kindred
    <3>3. \A t \in Tokens : MailRow(t) \notin {TokenRow(req[r].token)}
      BY DEF TokenRow, MailRow
    <3> QED BY <1>4, <2>1, <2>3, <3>2, <3>3
  <2> QED BY <1>3, <2>1, <2>3
<1>12. CASE LockRow(r)
  <2>1. req[r] \in Following BY <1>12, RequestKinds DEF LockRow
  <2>2. PICK l \in RowsToWrite(r) : Lock(r, {l}) BY <1>12 DEF LockRow
  <2>3. \A t \in Tokens : MailRow(t) = l => mail[t] \in Open
    BY <2>2 DEF RowsToWrite, MailRow, UserRow
  <2>4. UNCHANGED req /\ Unwritten /\ req[r] \notin Issuing
    BY <1>12, <2>1, Kindred DEF LockRow
  <2> QED BY <1>4, <2>2, <2>3, <2>4
<1> QED BY <1>3, <1>7, <1>8, <1>9, <1>10, <1>11, <1>12 DEF Abort

FinalStays == \A t \in Tokens : mail[t] \in Final => mail'[t] = mail[t]

\* Issuing closes every old link, and the mail of each is locked or final.
LEMMA ReplacedMail ==
  ASSUME TypeOK, LinkInv, MailInv, NEW r \in Requests, NEW n \in Tokens, ReplaceLink(r, n)
  PROVE  MailInv' /\ FinalStays
<1> DEFINE u == req[r].user
           k == KindIssued(r)
<1>1. req[r] \in Issuing /\ req[r].step = "token" /\ link[n] = "NONE" /\ Ends(r)
  BY RequestKinds DEF ReplaceLink, Unissued
<1>2. UserOf[n] = u /\ KindOf[n] = k BY DEF ReplaceLink, Unissued
<1>3. /\ IssueLock(k, u) \in held[r]
      /\ \A t \in Live(u, k) : mail[t] \in Open => MailRow(t) \in held[r]
  BY <1>1 DEF MailInv, IssuerHolds, HoldsAsIssuer
<1>4. \A t \in Tokens \ {n} :
        /\ link'[t] = IF t \in Live(u, k) THEN "VOID" ELSE link[t]
        /\ mail'[t] = IF MailRow(t) \in held[r] THEN "CANCELLED" ELSE mail[t]
  BY DEF ReplaceLink
<1>5. \A t \in Tokens : MailRow(t) \in held[r] => mail[t] \in Open
  BY DEF MailInv, LockedMailIsOpen
<1>6. link'[n] = "LIVE" /\ mail'[n] = "PENDING" /\ mail[n] = "NONE"
  <2>1. mail[n] = "NONE" BY <1>1 DEF MailInv, MailComesWithLink
  <2>2. MailRow(n) \notin held[r] BY <1>5, <2>1 DEF Open
  <2>3. n \notin Live(u, k) BY <1>1 DEF Live
  <2> QED BY <2>1, <2>2, <2>3 DEF ReplaceLink
<1>7. /\ req'[r] = IdleRequest /\ held'[r] = {}
      /\ \A q \in Requests \ {r} : req'[q] = req[q] /\ held'[q] = held[q]
  BY <1>1 DEF Ends, TypeOK
<1>8. FinalStays BY <1>4, <1>5, <1>6 DEF FinalStays, Open, Final
<1>9. MailComesWithLink'
  <2>1. \A t \in Live(u, k) : link[t] = "LIVE" BY DEF Live
  <2> QED BY <1>4, <1>5, <1>6, <2>1 DEF MailInv, MailComesWithLink, Open
<1>10. LockedMailIsOpen'
  <2> SUFFICES ASSUME NEW q \in Requests, NEW t \in Tokens, MailRow(t) \in held'[q]
               PROVE  mail'[t] \in Open
    BY DEF LockedMailIsOpen
  <2>1. q # r /\ MailRow(t) \in held[q] BY <1>7
  <2>2. MailRow(t) \notin held[r] BY <2>1 DEF LinkInv, LocksExclusive
  <2>3. mail[t] \in Open BY <2>1 DEF MailInv, LockedMailIsOpen
  <2> QED BY <1>4, <1>6, <2>2, <2>3 DEF Open
<1>11. NoMailForAClosedLink'
  <2> SUFFICES ASSUME NEW t \in Tokens,
                      \/ link'[t] = "VOID"
                      \/ link'[t] = "USED" /\ KindOf[t] = "PASSWORD_RESET"
               PROVE  mail'[t] \in Final
    BY DEF NoMailForAClosedLink
  <2>1. t # n BY <1>6
  <2>2. CASE t \in Live(u, k)
    <3>1. mail[t] # "NONE" BY <2>2 DEF Live, MailInv, MailComesWithLink
    <3>2. mail[t] \in Open \cup Final BY <3>1 DEF TypeOK
    <3> QED BY <1>3, <1>4, <2>1, <2>2, <3>2 DEF Final
  <2>3. CASE t \notin Live(u, k)
    <3>1. mail[t] \in Final BY <1>4, <2>1, <2>3 DEF MailInv, NoMailForAClosedLink
    <3> QED BY <1>8, <3>1 DEF FinalStays
  <2> QED BY <2>2, <2>3
<1>12. IssuerHolds'
  <2> SUFFICES ASSUME NEW q \in Requests, req'[q] \in Issuing PROVE HoldsAsIssuer(q)'
    BY DEF IssuerHolds
  <2>1. q # r BY <1>7 DEF IdleRequest, Issuing
  <2>2. req'[q] = req[q] /\ held'[q] = held[q] BY <1>7, <2>1
  <2>3. HoldsAsIssuer(q) BY <2>2 DEF MailInv, IssuerHolds
  <2> DEFINE v == req[q].user
             j == KindIssued(q)
  <2>4. KindIssued(q)' = j /\ req'[q].user = v BY <2>2 DEF KindIssued
  <2>5. ASSUME req[q].step \in {"mail", "token"} PROVE <<j, v>> # <<k, u>>
    <3>1. IssueLock(j, v) \in held[q] BY <2>3, <2>5 DEF HoldsAsIssuer
    <3>2. IssueLock(j, v) # IssueLock(k, u)
      BY <1>3, <2>1, <3>1 DEF LinkInv, LocksExclusive
    <3> QED BY <3>2 DEF IssueLock
  <2>6. ASSUME req[q].step = "token", NEW t \in Tokens, UserOf[t] = v, KindOf[t] = j,
               link'[t] = "LIVE", mail'[t] \in Open
        PROVE  MailRow(t) \in held[q]
    <3>1. t # n BY <1>2, <2>5, <2>6
    <3>2. link[t] = "LIVE" /\ mail[t] \in Open
      BY <1>4, <2>6, <3>1 DEF Open
    <3>3. t \in Live(v, j) BY <2>6, <3>2 DEF Live
    <3> QED BY <2>3, <2>6, <3>2, <3>3 DEF HoldsAsIssuer
  <2>7. req'[q].step = "token" =>
          \A t \in Live(req[q].user, KindIssued(q))' : mail'[t] \in Open => MailRow(t) \in held'[q]
    BY <2>2, <2>4, <2>6 DEF Live
  <2>8. req'[q].step \in {"mail", "token"} => IssueLock(KindIssued(q), req[q].user)' \in held'[q]
    BY <2>2, <2>3, <2>4 DEF HoldsAsIssuer, IssueLock
  <2> QED BY <2>7, <2>8 DEF HoldsAsIssuer, MailRow
<1> QED BY <1>8, <1>9, <1>10, <1>11, <1>12 DEF MailInv

\* A link that is used leaves no open mail behind when it reset a password.
LEMMA ConsumedMail ==
  ASSUME TypeOK, LinkInv, MailInv, NEW r \in Requests,
         ConsumeEmailVerification(r) \/ ConsumePasswordResetToken(r)
  PROVE  MailInv' /\ FinalStays
<1> DEFINE t == req[r].token
<1>1. /\ req[r].step = "rows" /\ Consume(t) /\ Ends(r) /\ RowsToWrite(r) \subseteq held[r]
      /\ req[r].op = "EMAIL_VERIFICATION" => UNCHANGED mail
      /\ req[r].op = "PASSWORD_RESET" =>
           mail' = [mail EXCEPT ![t] = IF @ \in Open THEN "CANCELLED" ELSE @]
      /\ req[r].op \in Kinds
  BY DEF ConsumeEmailVerification, ConsumePasswordResetToken, mailVars, Kinds
<1>2. req[r] \in Following BY <1>1, RequestKinds
<1>3. t \in Tokens /\ KindOf[t] = req[r].op /\ link[t] = "LIVE"
  BY <1>1, <1>2 DEF LinkInv, FollowsLiveLink, Following
<1>4. req[r].op = "PASSWORD_RESET" /\ mail[t] \in Open => MailRow(t) \in held[r]
  BY <1>1 DEF RowsToWrite
<1>5. mail[t] \in Open \cup Final
  BY <1>3 DEF TypeOK, MailInv, MailComesWithLink
<1> HIDE DEF t
<1>6. link'[t] = "USED" /\ \A x \in Tokens \ {t} : link'[x] = link[x]
  BY <1>1, <1>3 DEF Consume, TypeOK
<1>7. /\ \A x \in Tokens \ {t} : mail'[x] = mail[x]
      /\ req[r].op = "EMAIL_VERIFICATION" => mail'[t] = mail[t]
      /\ req[r].op = "PASSWORD_RESET" =>
           mail'[t] = IF mail[t] \in Open THEN "CANCELLED" ELSE mail[t]
  BY <1>1, <1>3 DEF TypeOK, Kinds
<1>8. /\ req'[r] = IdleRequest /\ held'[r] = {}
      /\ \A q \in Requests \ {r} : req'[q] = req[q] /\ held'[q] = held[q]
  BY <1>1 DEF Ends, TypeOK
<1>9. FinalStays BY <1>1, <1>7 DEF FinalStays, Kinds, Open, Final
<1>10. MailComesWithLink'
  BY <1>1, <1>5, <1>6, <1>7 DEF MailInv, MailComesWithLink, Kinds, Open, Final
<1>11. LockedMailIsOpen'
  <2> SUFFICES ASSUME NEW q \in Requests, NEW x \in Tokens, MailRow(x) \in held'[q]
               PROVE  mail'[x] \in Open
    BY DEF LockedMailIsOpen
  <2>1. q # r /\ MailRow(x) \in held[q] BY <1>8
  <2>2. mail[x] \in Open BY <2>1 DEF MailInv, LockedMailIsOpen
  <2>3. x = t => req[r].op = "EMAIL_VERIFICATION"
    BY <1>1, <1>4, <2>1, <2>2 DEF LinkInv, LocksExclusive, Kinds
  <2> QED BY <1>7, <2>2, <2>3
<1>12. NoMailForAClosedLink'
  BY <1>1, <1>3, <1>5, <1>6, <1>7 DEF MailInv, NoMailForAClosedLink, Kinds, Final
<1>13. IssuerHolds'
  <2> SUFFICES ASSUME NEW q \in Requests, req'[q] \in Issuing PROVE HoldsAsIssuer(q)'
    BY DEF IssuerHolds
  <2>1. req'[q] = req[q] /\ held'[q] = held[q]
    BY <1>8 DEF IdleRequest, Issuing
  <2>2. HoldsAsIssuer(q) BY <2>1 DEF MailInv, IssuerHolds
  <2>3. \A x \in Tokens : link'[x] = "LIVE" /\ mail'[x] \in Open =>
                            link[x] = "LIVE" /\ mail[x] \in Open
    BY <1>6, <1>7
  <2>4. \A x \in Live(req[q].user, KindIssued(q))' :
          mail'[x] \in Open => x \in Live(req[q].user, KindIssued(q)) /\ mail[x] \in Open
    BY <2>1, <2>3 DEF Live, KindIssued
  <2> QED BY <2>1, <2>2, <2>4 DEF HoldsAsIssuer, KindIssued, IssueLock, MailRow
<1> QED BY <1>9, <1>10, <1>11, <1>12, <1>13 DEF MailInv

\* Workers wait for the row of the mail they update, and update only open mail.
LEMMA WorkerMail ==
  ASSUME TypeOK, MailInv,
         \/ \E w \in Workers : WorkerStep(w) \/ Restart(w)
         \/ \E t \in Tokens : Clock(t)
         \/ AccountStep
         \/ UNCHANGED vars
  PROVE  MailInv' /\ FinalStays
<1> DEFINE Legal == \A t \in Tokens :
             \/ mail'[t] = mail[t]
             \/ Free(MailRow(t)) /\ mail[t] \in Open /\ mail'[t] \in Open \cup Final
<1>1. ASSUME NEW w \in Workers, CancelUndeliverable(w) PROVE Legal
  BY <1>1 DEF CancelUndeliverable, Undeliverable, Final
<1>2. ASSUME NEW w \in Workers, NEW t \in Tokens, Claim(w, t) PROVE Legal
  BY <1>2 DEF Claim, Claimable, Offered, TypeOK, Open
<1>3. ASSUME NEW w \in Workers, NEW outcome \in Open \cup Final, Report(w, outcome)
      PROVE  Legal
  <2> DEFINE t == worker[w].token
  <2>1. Free(MailRow(t)) /\ mail' = [mail EXCEPT ![t] = OutcomeOf(t, outcome)]
    BY <1>3 DEF Report
  <2> HIDE DEF t
  <2> QED BY <2>1 DEF OutcomeOf, TypeOK, Open
<1>4. ASSUME NEW w \in Workers,
             CompleteEmailOutbox(w) \/ FailEmailOutbox(w) \/ RetryEmailOutbox(w)
      PROVE  Legal
  <2>1. \E outcome \in {"SENT", "FAILED", "PENDING"} : Report(w, outcome)
    BY <1>4 DEF CompleteEmailOutbox, FailEmailOutbox, RetryEmailOutbox
  <2>2. {"SENT", "FAILED", "PENDING"} \subseteq Open \cup Final BY DEF Open, Final
  <2> QED BY <1>3, <2>1, <2>2
<1>5. ASSUME NEW w \in Workers,
             NothingToClaim(w) \/ Accept(w) \/ Refuse(w) \/ ReportLost(w) \/ Restart(w)
      PROVE  UNCHANGED mail
  BY <1>5 DEF NothingToClaim, Accept, Refuse, ReportLost, Restart, mailVars
<1>6. ASSUME NEW w \in Workers, WorkerStep(w) \/ Restart(w) PROVE Legal
  BY <1>1, <1>2, <1>4, <1>5, <1>6 DEF WorkerStep
<1>7. ASSUME NEW t \in Tokens, Clock(t) PROVE UNCHANGED mail
  BY <1>7 DEF Clock, Ages, RetryDue, GoesStale, mailVars
<1>8. AccountStep \/ UNCHANGED vars => UNCHANGED mail
  BY DEF AccountStep, DeactivateUser, SetUserPasswordHash, PutSession, DestroySession,
         CheckPassword, Aside, vars, mailVars
<1>9. Legal BY <1>6, <1>7, <1>8
<1>10. UNCHANGED <<link, req, held>>
  <2>1. ASSUME NEW w \in Workers, WorkerStep(w) \/ Restart(w)
        PROVE  UNCHANGED <<link, req, held>>
    BY <2>1 DEF WorkerStep, CancelUndeliverable, NothingToClaim, Claim, Accept, Refuse,
                CompleteEmailOutbox, FailEmailOutbox, RetryEmailOutbox, ReportLost,
                Report, Restart, Bystanders, linkVars
  <2>2. ASSUME NEW t \in Tokens, Clock(t) PROVE UNCHANGED <<link, req, held>>
    BY <2>2 DEF Clock, Ages, RetryDue, GoesStale, Bystanders, linkVars
  <2>3. AccountStep \/ UNCHANGED vars => UNCHANGED <<link, req, held>>
    BY DEF AccountStep, DeactivateUser, SetUserPasswordHash, PutSession, DestroySession,
           CheckPassword, Aside, vars, linkVars
  <2> QED BY <2>1, <2>2, <2>3
<1>11. FinalStays BY <1>9 DEF FinalStays, Open, Final
<1> QED BY <1>9, <1>10, <1>11, FreeMail

LEMMA MailStep ==
  ASSUME TypeOK, LinkInv, MailInv, [Next]_vars
  PROVE  MailInv' /\ FinalStays
<1>1. UNCHANGED mail => FinalStays BY DEF FinalStays
<1>2. ASSUME NEW r \in Requests, RequestStart(r) \/ RequestStep(r)
      PROVE  MailInv' /\ FinalStays
  BY <1>1, <1>2, WaitingMail, ReplacedMail, ConsumedMail DEF RequestStep
<1> QED BY <1>2, WorkerMail DEF Next

LEMMA MailInvariant == Spec => [](TypeOK /\ LinkInv /\ MailInv)
<1>1. Init => MailInv
  BY DEF Init, MailInv, MailComesWithLink, LockedMailIsOpen, IssuerHolds,
         NoMailForAClosedLink, IdleRequest, Issuing
<1>2. TypeOK /\ LinkInv /\ MailInv /\ [Next]_vars => MailInv' BY MailStep
<1> QED BY <1>1, <1>2, LinkInvariant, PTL DEF Spec

\* The mail of a replaced link, or of a used reset link, is not queued again:
\* what issue_email_verification and issue_password_reset cancel is locked
\* before the link is closed, and no worker's update reopens a final row.
THEOREM ClosedLinksAreNotMailed == Spec => []NoMailForAClosedLink
<1>1. MailInv => NoMailForAClosedLink BY DEF MailInv
<1> QED BY <1>1, MailInvariant, PTL

\* A worker that lost its claim cannot change an outcome: Complete, Fail and
\* RetryEmailOutbox ask for SENDING, and every other update for open mail.
THEOREM OutcomesStand == Spec => OutcomesAreFinal
<1>1. TypeOK /\ LinkInv /\ MailInv /\ [Next]_vars =>
        [\A t \in Tokens : mail[t] \in Final => mail'[t] = mail[t]]_vars
  BY MailStep DEF FinalStays
<1> QED BY <1>1, MailInvariant, PTL DEF Spec, OutcomesAreFinal

-----------------------------------------------------------------------------
(* The hourly limit.                                                       *)

\* The reset links an account was issued in the last hour.
Recent(u) == {t \in Issued(u, "PASSWORD_RESET") : age[t] < 2}

\* The request found room for a reset link and has yet to commit it.
MayAddReset(r) ==
  req[r] \in Issuing /\ req[r].op = "FORGOT" /\ req[r].step \in {"mail", "token"}

\* The room a request found is still there when it commits.
RoomIsKept ==
  /\ \A u \in Users : /\ IsFiniteSet(Recent(u))
                      /\ Cardinality(Recent(u)) <= MaxPerHour
  /\ \A r \in Requests : MayAddReset(r) => Cardinality(Recent(req[r].user)) < MaxPerHour

\* What a set of at most n elements may become.
LEMMA Counting ==
  ASSUME NEW S, IsFiniteSet(S), NEW T, NEW x
  PROVE  /\ Cardinality(S) \in Nat
         /\ T \subseteq S \cup {x} =>
              IsFiniteSet(T) /\ Cardinality(T) \in Nat /\ Cardinality(T) <= Cardinality(S) + 1
         /\ T \subseteq S => IsFiniteSet(T) /\ Cardinality(T) \in Nat
                             /\ Cardinality(T) <= Cardinality(S)
         /\ x \in S /\ T \subseteq S \ {x} => Cardinality(T) + 1 <= Cardinality(S)
<1>1. Cardinality(S) \in Nat BY FS_CardinalityType
<1>2. ASSUME T \subseteq S
      PROVE  IsFiniteSet(T) /\ Cardinality(T) \in Nat /\ Cardinality(T) <= Cardinality(S)
  BY <1>2, FS_Subset, FS_CardinalityType
<1>3. ASSUME T \subseteq S \cup {x}
      PROVE  IsFiniteSet(T) /\ Cardinality(T) \in Nat /\ Cardinality(T) <= Cardinality(S) + 1
  <2>1. /\ IsFiniteSet(S \cup {x})
        /\ Cardinality(S \cup {x}) = Cardinality(S)
           \/ Cardinality(S \cup {x}) = Cardinality(S) + 1
    BY FS_AddElement
  <2>2. /\ IsFiniteSet(T) /\ Cardinality(T) <= Cardinality(S \cup {x})
    BY <1>3, <2>1, FS_Subset
  <2>3. Cardinality(T) \in Nat BY <2>2, FS_CardinalityType
  <2> QED BY <1>1, <2>1, <2>2, <2>3
<1>4. ASSUME x \in S, T \subseteq S \ {x} PROVE Cardinality(T) + 1 <= Cardinality(S)
  <2>1. IsFiniteSet(S \ {x}) /\ Cardinality(S \ {x}) = Cardinality(S) - 1
    BY <1>4, FS_RemoveElement
  <2>2. IsFiniteSet(T) /\ Cardinality(T) <= Cardinality(S \ {x})
    BY <1>4, <2>1, FS_Subset
  <2>3. Cardinality(T) \in Nat BY <2>2, FS_CardinalityType
  <2> QED BY <1>1, <2>1, <2>2, <2>3
<1> QED BY <1>1, <1>2, <1>3, <1>4

\* Recent links only get fewer, and whoever is about to issue found room.
LEMMA RoomShrinks ==
  ASSUME TypeOK, RoomIsKept,
         \A u \in Users : Recent(u)' \subseteq Recent(u),
         \A r \in Requests : MayAddReset(r)' =>
           Cardinality(Recent(req'[r].user)) < MaxPerHour
  PROVE  RoomIsKept'
<1>1. ASSUME NEW u \in Users
      PROVE  /\ IsFiniteSet(Recent(u)) /\ Cardinality(Recent(u)) \in Nat
             /\ Cardinality(Recent(u)) <= MaxPerHour
             /\ IsFiniteSet(Recent(u)') /\ Cardinality(Recent(u)') \in Nat
             /\ Cardinality(Recent(u)') <= Cardinality(Recent(u))
  <2>1. IsFiniteSet(Recent(u)) /\ Cardinality(Recent(u)) <= MaxPerHour
    BY DEF RoomIsKept
  <2>2. Recent(u)' \subseteq Recent(u) OBVIOUS
  <2> QED BY <2>1, <2>2, Counting
<1>2. MaxPerHour \in Nat BY ConstantsAssumption
<1>3. ASSUME NEW u \in Users
      PROVE  IsFiniteSet(Recent(u)') /\ Cardinality(Recent(u)') <= MaxPerHour
  BY <1>1, <1>2
<1>4. ASSUME NEW r \in Requests, MayAddReset(r)'
      PROVE  (Cardinality(Recent(req[r].user)) < MaxPerHour)'
  <2>1. PICK u \in Users : u = req'[r].user BY <1>4 DEF MayAddReset, Issuing
  <2>2. Cardinality(Recent(u)) < MaxPerHour BY <1>4, <2>1
  <2>3. Cardinality(Recent(u)') < MaxPerHour BY <1>1, <1>2, <2>2
  <2>4. Recent(u)' = Recent(req[r].user)' BY <2>1 DEF Recent, Issued
  <2> QED BY <2>3, <2>4
<1> QED BY <1>3, <1>4 DEF RoomIsKept

\* Links are not taken back and tokens do not get younger.
LEMMA RecentShrinks ==
  ASSUME TypeOK, NEW u \in Users,
         \A t \in Tokens : link[t] = "NONE" => link'[t] = "NONE",
         \A t \in Tokens : age'[t] = age[t] \/ age'[t] = age[t] + 1
  PROVE  Recent(u)' \subseteq Recent(u)
<1>1. \A t \in Tokens : age[t] \in 0..2 BY DEF TypeOK
<1> QED BY <1>1 DEF Recent, Issued

\* A request that does not issue now adds none, and finds room before it may.
LEMMA RoomFound ==
  ASSUME TypeOK, LinkInv, RoomIsKept, NEW r \in Requests,
         \/ RequestStart(r)
         \/ ChangeEmail(r) \/ BeginIssue(r) \/ CancelOldMail(r)
         \/ LockLink(r) \/ LockRow(r) \/ Abort(r)
         \/ ConsumeEmailVerification(r) \/ ConsumePasswordResetToken(r)
  PROVE  RoomIsKept'
<1> USE ConstantsAssumption
<1>1. \A q \in Requests \ {r} : req'[q] = req[q]
  BY DEF RequestStart, Resend, Forgot, OpenForm, Click, Starts, ChangeEmail, BeginIssue,
         CancelOldMail, LockLink, LockRow, Abort, ConsumeEmailVerification,
         ConsumePasswordResetToken, Goto, Ends, TypeOK
<1>2. \A t \in Tokens : link[t] = "NONE" => link'[t] = "NONE"
  <2>1. CASE ConsumeEmailVerification(r) \/ ConsumePasswordResetToken(r)
    <3> DEFINE t == req[r].token
    <3>1. req[r].step = "rows" /\ link' = [link EXCEPT ![t] = "USED"]
      BY <2>1 DEF ConsumeEmailVerification, ConsumePasswordResetToken, Consume
    <3>2. req[r] \in Following BY <3>1, RequestKinds
    <3>3. link[t] = "LIVE" BY <3>1, <3>2 DEF LinkInv, FollowsLiveLink
    <3> HIDE DEF t
    <3> QED BY <3>1, <3>3 DEF TypeOK
  <2>2. CASE ~(ConsumeEmailVerification(r) \/ ConsumePasswordResetToken(r))
    <3>1. UNCHANGED link
      BY <2>2 DEF RequestStart, Resend, Forgot, OpenForm, Click, Starts, ChangeEmail,
                  BeginIssue, CancelOldMail, LockLink, LockRow, Abort, Unwritten, linkVars
    <3> QED BY <3>1
  <2> QED BY <2>1, <2>2
<1>3. UNCHANGED age
  BY DEF RequestStart, Resend, Forgot, OpenForm, Click, Starts, ChangeEmail, BeginIssue,
         CancelOldMail, LockLink, LockRow, Abort, Unwritten, linkVars,
         ConsumeEmailVerification, ConsumePasswordResetToken
<1>4. \A u \in Users : Recent(u)' \subseteq Recent(u) BY <1>2, <1>3, RecentShrinks
<1>5. ASSUME NEW step, Goto(r, step), req[r] \in Issuing
      PROVE  /\ req'[r].step = step /\ req'[r].op = req[r].op
             /\ req'[r].user = req[r].user
  <2>1. req'[r] = [req[r] EXCEPT !.step = step] BY <1>5 DEF Goto, TypeOK
  <2> QED BY <1>5, <2>1 DEF Issuing
<1>6. ASSUME MayAddReset(r)' PROVE Cardinality(Recent(req'[r].user)) < MaxPerHour
  <2>1. req'[r] # IdleRequest BY <1>6 DEF MayAddReset, Issuing, IdleRequest
  <2>2. ~Ends(r) BY <2>1 DEF Ends, TypeOK
  <2>3. ASSUME RequestStart(r) PROVE FALSE
    <3>1. \A u \in Users, e \in Emails : \A op \in {"RESEND", "FORGOT", "CHANGE"} :
            /\ IssueRequest(op, u, e).step = "issue"
            /\ [IssueRequest(op, u, e) EXCEPT !.step = "form"].step = "form"
      BY DEF IssueRequest
    <3>2. \A u \in Users : account[u].email \in Emails BY DEF TypeOK, Accounts
    <3>3. \A x : Starts(r, x) => req'[r] = x BY DEF Starts, TypeOK
    <3>4. ASSUME NEW u \in Users, Resend(r, u) \/ Forgot(r, u) PROVE FALSE
      BY <1>6, <3>1, <3>2, <3>3, <3>4 DEF Resend, Forgot, MayAddReset
    <3>5. ASSUME NEW u \in Users, NEW e \in Emails, OpenForm(r, u, e) PROVE FALSE
      BY <1>6, <3>1, <3>3, <3>5 DEF OpenForm, MayAddReset
    <3>6. ASSUME NEW t \in Tokens, NEW p \in Passwords, Click(r, t, p) PROVE FALSE
      <4>1. req'[r] = [step |-> "click", op |-> KindOf[t], token |-> t, password |-> p]
        BY <3>3, <3>6 DEF Click
      <4> QED BY <1>6, <4>1 DEF MayAddReset
    <3> QED BY <2>3, <3>4, <3>5, <3>6 DEF RequestStart
  <2>4. ASSUME LockLink(r) \/ LockRow(r) PROVE FALSE
    <3>1. req[r] \in Following BY <2>4, RequestKinds DEF LockLink, LockRow
    <3>2. [req[r] EXCEPT !.step = "rows"] \in Following BY <3>1 DEF Following
    <3>3. req'[r] \in {req[r], [req[r] EXCEPT !.step = "rows"]}
      BY <2>2, <2>4 DEF LockLink, LockRow, Goto, TypeOK
    <3>4. req'[r] \in Following BY <3>1, <3>2, <3>3
    <3> QED BY <1>6, <3>4, Kindred DEF MayAddReset
  <2>5. ASSUME ChangeEmail(r) PROVE FALSE
    <3>1. req[r] \in Issuing /\ Goto(r, "issue")
      BY <2>2, <2>5, RequestKinds DEF ChangeEmail
    <3>2. req'[r].step = "issue" BY <1>5, <3>1
    <3> QED BY <1>6, <3>2 DEF MayAddReset
  <2>6. CASE BeginIssue(r)
    <3>1. req[r] \in Issuing /\ Goto(r, "mail") /\ MayIssue(r)
      BY <2>2, <2>6, RequestKinds DEF BeginIssue
    <3>2. req'[r].op = req[r].op /\ req'[r].user = req[r].user BY <1>5, <3>1
    <3>3. req[r].op = "FORGOT" BY <1>6, <3>2 DEF MayAddReset
    <3>4. Issued(req[r].user, KindIssued(r)) = Issued(req[r].user, "PASSWORD_RESET")
      BY <3>3 DEF KindIssued
    <3> QED BY <3>1, <3>2, <3>3, <3>4 DEF MayIssue, UnderLimit, Recent
  <2>7. CASE CancelOldMail(r)
    <3>1. req[r] \in Issuing /\ req[r].step = "mail" /\ Goto(r, "token")
      BY <2>7, RequestKinds DEF CancelOldMail
    <3>2. req'[r].op = req[r].op /\ req'[r].user = req[r].user BY <1>5, <3>1
    <3>3. MayAddReset(r) BY <1>6, <3>1, <3>2 DEF MayAddReset
    <3> QED BY <3>2, <3>3 DEF RoomIsKept
  <2> QED BY <2>2, <2>3, <2>4, <2>5, <2>6, <2>7
          DEF Abort, ConsumeEmailVerification, ConsumePasswordResetToken
<1>7. ASSUME NEW q \in Requests, MayAddReset(q)'
      PROVE  Cardinality(Recent(req'[q].user)) < MaxPerHour
  <2>1. CASE q = r BY <1>6, <1>7, <2>1
  <2>2. CASE q # r
    <3>1. req'[q] = req[q] BY <1>1, <2>2
    <3>2. MayAddReset(q) BY <1>7, <3>1 DEF MayAddReset
    <3> QED BY <3>1, <3>2 DEF RoomIsKept
  <2> QED BY <2>1, <2>2
<1> QED BY <1>4, <1>7, RoomShrinks

\* Issuing uses up the room this request found, and nobody else's: whoever
\* else may add a reset link does so for another account.
LEMMA RoomUsed ==
  ASSUME TypeOK, LinkInv, MailInv, RoomIsKept, NEW r \in Requests, NEW n \in Tokens,
         ReplaceLink(r, n)
  PROVE  RoomIsKept'
<1> DEFINE u == req[r].user
           k == KindIssued(r)
<1>1. /\ req[r] \in Issuing /\ req[r].step = "token" /\ u \in Users
      /\ link[n] = "NONE" /\ UserOf[n] = u /\ KindOf[n] = k /\ Ends(r) /\ UNCHANGED age
  BY RequestKinds DEF ReplaceLink, Unissued, Issuing
<1>2. \A t \in Tokens \ {n} : link[t] = "NONE" => link'[t] = "NONE"
  BY DEF ReplaceLink, Live
<1>3. \A v \in Users : Recent(v)' \subseteq Recent(v) \cup {n}
  BY <1>1, <1>2 DEF Recent, Issued
<1>4. \A v \in Users : v # u \/ k # "PASSWORD_RESET" => Recent(v)' \subseteq Recent(v)
  BY <1>1, <1>2 DEF Recent, Issued
<1>5. k = "PASSWORD_RESET" => MayAddReset(r)
  BY <1>1 DEF KindIssued, MayAddReset
<1>6. /\ req'[r] = IdleRequest
      /\ \A q \in Requests \ {r} : req'[q] = req[q]
  BY <1>1 DEF Ends, TypeOK
<1>7. MaxPerHour \in Nat BY ConstantsAssumption
<1>8. ASSUME NEW v \in Users
      PROVE  IsFiniteSet(Recent(v)) /\ Cardinality(Recent(v)) \in Nat
             /\ Cardinality(Recent(v)) <= MaxPerHour
  BY Counting DEF RoomIsKept
<1>9. ASSUME NEW v \in Users, v # u \/ k # "PASSWORD_RESET"
      PROVE  /\ IsFiniteSet(Recent(v)') /\ Cardinality(Recent(v)') \in Nat
             /\ Cardinality(Recent(v)') <= Cardinality(Recent(v))
  <2>1. Recent(v)' \subseteq Recent(v) BY <1>4, <1>9
  <2> QED BY <1>8, <2>1, Counting
<1>10. ASSUME NEW v \in Users
       PROVE  IsFiniteSet(Recent(v)') /\ Cardinality(Recent(v)') <= MaxPerHour
  <2>1. CASE v # u \/ k # "PASSWORD_RESET" BY <1>7, <1>8, <1>9, <2>1
  <2>2. CASE v = u /\ k = "PASSWORD_RESET"
    <3>1. Cardinality(Recent(v)) < MaxPerHour BY <1>5, <2>2 DEF RoomIsKept
    <3>2. Recent(v)' \subseteq Recent(v) \cup {n} BY <1>3
    <3>3. /\ IsFiniteSet(Recent(v)') /\ Cardinality(Recent(v)') \in Nat
          /\ Cardinality(Recent(v)') <= Cardinality(Recent(v)) + 1
      BY <1>8, <3>2, Counting
    <3> QED BY <1>7, <1>8, <3>1, <3>3
  <2> QED BY <2>1, <2>2
<1>11. ASSUME NEW q \in Requests, MayAddReset(q)'
       PROVE  (Cardinality(Recent(req[q].user)) < MaxPerHour)'
  <2>1. q # r BY <1>6, <1>11 DEF MayAddReset, Issuing, IdleRequest
  <2>2. req'[q] = req[q] BY <1>6, <2>1
  <2>3. MayAddReset(q) BY <1>11, <2>2 DEF MayAddReset
  <2>4. PICK v \in Users : v = req[q].user BY <2>3 DEF MayAddReset, Issuing
  <2>5. Cardinality(Recent(v)) < MaxPerHour BY <2>3, <2>4 DEF RoomIsKept
  <2>6. IssueLock("PASSWORD_RESET", v) \in held[q]
    BY <2>3, <2>4 DEF MayAddReset, MailInv, IssuerHolds, HoldsAsIssuer, KindIssued
  <2>7. IssueLock(k, u) \in held[r]
    BY <1>1 DEF MailInv, IssuerHolds, HoldsAsIssuer
  <2>8. IssueLock("PASSWORD_RESET", v) # IssueLock(k, u)
    BY <2>1, <2>6, <2>7 DEF LinkInv, LocksExclusive
  <2>9. v # u \/ k # "PASSWORD_RESET" BY <2>8 DEF IssueLock
  <2> HIDE DEF u, k
  <2>10. Cardinality(Recent(v)') < MaxPerHour BY <1>7, <1>8, <1>9, <2>5, <2>9
  <2>11. Recent(v)' = Recent(req[q].user)' BY <2>2, <2>4 DEF Recent, Issued
  <2> QED BY <2>10, <2>11
<1> QED BY <1>10, <1>11 DEF RoomIsKept

\* The other steps issue nothing; clocks make tokens older.
LEMMA RoomStep ==
  ASSUME TypeOK, LinkInv, MailInv, RoomIsKept, [Next]_vars
  PROVE  RoomIsKept'
<1>1. ASSUME UNCHANGED <<link, req>>,
             \A t \in Tokens : age'[t] = age[t] \/ age'[t] = age[t] + 1
      PROVE  RoomIsKept'
  <2>1. \A u \in Users : Recent(u)' \subseteq Recent(u) BY <1>1, RecentShrinks
  <2>2. \A q \in Requests : MayAddReset(q)' => Cardinality(Recent(req'[q].user)) < MaxPerHour
    BY <1>1 DEF MayAddReset, RoomIsKept
  <2> QED BY <2>1, <2>2, RoomShrinks
<1>2. ASSUME NEW w \in Workers, WorkerStep(w) \/ Restart(w)
      PROVE  UNCHANGED <<link, age, req>>
  BY <1>2 DEF WorkerStep, CancelUndeliverable, NothingToClaim, Claim, Accept, Refuse,
              CompleteEmailOutbox, FailEmailOutbox, RetryEmailOutbox, ReportLost,
              Report, Restart, Bystanders, linkVars
<1>3. ASSUME NEW t \in Tokens, Clock(t)
      PROVE  /\ UNCHANGED <<link, req>>
             /\ \A x \in Tokens : age'[x] = age[x] \/ age'[x] = age[x] + 1
  BY <1>3 DEF Clock, Ages, RetryDue, GoesStale, Bystanders, linkVars, TypeOK
<1>4. AccountStep \/ UNCHANGED vars => UNCHANGED <<link, age, req>>
  BY DEF AccountStep, DeactivateUser, SetUserPasswordHash, PutSession, DestroySession,
         CheckPassword, Aside, vars, linkVars
<1>5. ASSUME NEW r \in Requests, RequestStart(r) \/ RequestStep(r) PROVE RoomIsKept'
  BY <1>5, RoomFound, RoomUsed DEF RequestStep
<1> QED BY <1>1, <1>2, <1>3, <1>4, <1>5 DEF Next

\* However requests overlap, an account gets no more than MaxPerHour reset
\* links in an hour: issue_password_reset counts under the advisory lock that
\* it holds until the new link is committed.
THEOREM HourlyLimitIsKept == Spec => []HourlyLimitHolds
<1>1. Init => RoomIsKept
  <2> SUFFICES ASSUME Init PROVE RoomIsKept
    OBVIOUS
  <2>1. \A u \in Users : Recent(u) = {} BY DEF Init, Recent, Issued
  <2>2. \A r \in Requests : ~MayAddReset(r)
    BY DEF Init, MayAddReset, IdleRequest, Issuing
  <2> QED BY <2>1, <2>2, FS_EmptySet, ConstantsAssumption DEF RoomIsKept
<1>2. TypeOK /\ LinkInv /\ MailInv /\ RoomIsKept /\ [Next]_vars => RoomIsKept'
  BY RoomStep
<1>3. RoomIsKept => HourlyLimitHolds BY DEF RoomIsKept, HourlyLimitHolds, Recent
<1> QED BY <1>1, <1>2, <1>3, MailInvariant, PTL DEF Spec

-----------------------------------------------------------------------------
(* Copies and attempts.                                                    *)

\* Workers that may still send or refuse the mail of t, and those that may
\* still put it back into the queue.
MaySend(t)  == {w \in Workers : worker[w].token = t /\ worker[w].step # "accepted"}
MayRetry(t) == {w \in Workers : worker[w].token = t /\ TriesLeft(w)}

\* The worker of the last claim still works on it.
Attended(t) == \E w \in Workers : worker[w].token = t /\ worker[w].attempt = attempts[t]

\* 1 if the mail of t waits for a claim, or can come to without a fault.
Loose(t) ==
  IF \/ mail[t] = "PENDING"
     \/ mail[t] = "SENDING" /\ (stale[t] \/ ~Attended(t))
  THEN 1 ELSE 0

\* The copies sent, those that may still be sent, and the one a claim would add.
SendCost(t) == sends[t] + Cardinality(MaySend(t)) + Loose(t)

\* The attempts made, once they are at least MaxAttempts - 1, and those that
\* may still be added: by a retry, or by the claim of loose mail.
Ahead(t)   == IF attempts[t] < MaxAttempts THEN MaxAttempts - 1 ELSE attempts[t]
TryCost(t) == Ahead(t) + Cardinality(MayRetry(t)) + Loose(t)

\* Only faults pay for more than one copy and MaxAttempts attempts.
Budget(t) ==
  /\ IsFiniteSet(MaySend(t)) /\ IsFiniteSet(MayRetry(t))
  /\ SendCost(t) <= 1 + faults
  /\ TryCost(t) <= MaxAttempts + faults

\* A worker between two deliveries has no token, and mail that does not exist
\* was never claimed or sent.
Unclaimed ==
  /\ \A w \in Workers : worker[w].step \in {"idle", "claiming"} => worker[w].token = NoToken
  /\ \A t \in Tokens : link[t] = "NONE" =>
       /\ sends[t] = 0 /\ attempts[t] = 0
       /\ \A w \in Workers : worker[w].token # t

BudgetInv == Unclaimed /\ \A t \in Tokens : Budget(t)

\* The numbers a budget is made of.
LEMMA BudgetNumbers ==
  ASSUME TypeOK, NEW t \in Tokens, Budget(t)
  PROVE  /\ sends[t] \in Nat /\ attempts[t] \in Nat /\ faults \in Nat
         /\ MaxAttempts \in Nat \ {0} /\ Ahead(t) \in Nat /\ Loose(t) \in {0, 1}
         /\ Cardinality(MaySend(t)) \in Nat /\ Cardinality(MayRetry(t)) \in Nat
<1>1. sends[t] \in Nat /\ attempts[t] \in Nat /\ faults \in Nat
      /\ MaxAttempts \in Nat \ {0}
  BY ConstantsAssumption DEF TypeOK
<1>2. Cardinality(MaySend(t)) \in Nat /\ Cardinality(MayRetry(t)) \in Nat
  BY FS_CardinalityType DEF Budget
<1> QED BY <1>1, <1>2 DEF Ahead, Loose

\* A step that sends and claims nothing and takes the mail up by no more than
\* its faults.
LEMMA Unspent ==
  ASSUME TypeOK, TypeOK', NEW t \in Tokens, Budget(t),
         MaySend(t)' \subseteq MaySend(t), MayRetry(t)' \subseteq MayRetry(t),
         sends'[t] = sends[t], attempts'[t] = attempts[t],
         Loose(t)' + faults <= Loose(t) + faults'
  PROVE  Budget(t)'
<1>1. /\ sends[t] \in Nat /\ faults \in Nat /\ MaxAttempts \in Nat /\ Ahead(t) \in Nat
      /\ Loose(t) \in {0, 1}
      /\ Cardinality(MaySend(t)) \in Nat /\ Cardinality(MayRetry(t)) \in Nat
  BY BudgetNumbers
<1>2. faults' \in Nat /\ Loose(t)' \in {0, 1} BY DEF TypeOK, Loose
<1>3. Ahead(t)' = Ahead(t) BY DEF Ahead
<1>4. /\ IsFiniteSet(MaySend(t)') /\ Cardinality(MaySend(t)') \in Nat
      /\ Cardinality(MaySend(t)') <= Cardinality(MaySend(t))
  BY Counting DEF Budget
<1>5. /\ IsFiniteSet(MayRetry(t)') /\ Cardinality(MayRetry(t)') \in Nat
      /\ Cardinality(MayRetry(t)') <= Cardinality(MayRetry(t))
  BY Counting DEF Budget
<1>6. sends[t] + Cardinality(MaySend(t)) + Loose(t) <= 1 + faults
  BY DEF Budget, SendCost
<1>7. Ahead(t) + Cardinality(MayRetry(t)) + Loose(t) <= MaxAttempts + faults
  BY DEF Budget, TryCost
<1>8. SendCost(t)' <= 1 + faults'
  <2>1. SendCost(t)' = sends[t] + Cardinality(MaySend(t)') + Loose(t)' BY DEF SendCost
  <2> QED BY <1>1, <1>2, <1>4, <1>6, <2>1
<1>9. TryCost(t)' <= MaxAttempts + faults'
  <2>1. TryCost(t)' = Ahead(t) + Cardinality(MayRetry(t)') + Loose(t)'
    BY <1>3 DEF TryCost
  <2> QED BY <1>1, <1>2, <1>5, <1>7, <2>1
<1> QED BY <1>4, <1>5, <1>8, <1>9 DEF Budget

\* A worker's step concerns the token it had and the token it has.
LEMMA Elsewhere ==
  ASSUME TypeOK, TypeOK', NEW t \in Tokens, Budget(t), NEW w \in Workers, NEW x,
         worker' = [worker EXCEPT ![w] = x], worker[w].token # t, x.token # t,
         sends'[t] = sends[t], attempts'[t] = attempts[t], stale'[t] = stale[t],
         mail'[t] = mail[t] \/ mail'[t] \notin Open, faults <= faults'
  PROVE  Budget(t)'
<1>1. /\ worker'[w] = x /\ \A v \in Workers \ {w} : worker'[v] = worker[v]
  BY DEF TypeOK
<1>2. MaySend(t)' \subseteq MaySend(t) BY <1>1 DEF MaySend
<1>3. MayRetry(t)' \subseteq MayRetry(t) BY <1>1 DEF MayRetry, TriesLeft
<1>4. Attended(t)' <=> Attended(t) BY <1>1 DEF Attended
<1>5. Loose(t)' <= Loose(t) BY <1>4 DEF Loose, Open
<1>6. faults \in Nat /\ faults' \in Nat /\ Loose(t) \in {0, 1} /\ Loose(t)' \in {0, 1}
  BY DEF TypeOK, Loose
<1> QED BY <1>2, <1>3, <1>5, <1>6, Unspent

\* A claim turns loose mail into one more worker that may send it, and into one
\* more that may retry while there are attempts left.
LEMMA ClaimSpends ==
  ASSUME TypeOK, TypeOK', Unclaimed, \A t \in Tokens : Budget(t),
         NEW w \in Workers, NEW n \in Tokens, Claim(w, n)
  PROVE  \A t \in Tokens : Budget(t)'
<1> DEFINE x == [step |-> "sending", token |-> n, attempt |-> attempts[n] + 1]
<1>1. /\ worker' = [worker EXCEPT ![w] = x] /\ UNCHANGED <<sends, faults>>
      /\ mail' = [mail EXCEPT ![n] = "SENDING"]
      /\ attempts' = [attempts EXCEPT ![n] = @ + 1]
      /\ stale' = [stale EXCEPT ![n] = FALSE]
  BY DEF Claim
<1>2. worker[w].token = NoToken BY DEF Claim, At, Unclaimed
<1>3. Loose(n) = 1 BY DEF Claim, Claimable, Offered, Loose
<1>4. x.token = n /\ x.attempt = attempts[n] + 1 OBVIOUS
<1> HIDE DEF x
<1>5. worker'[w] = x /\ \A v \in Workers \ {w} : worker'[v] = worker[v]
  BY <1>1 DEF TypeOK
<1>6. attempts'[n] = attempts[n] + 1 /\ sends'[n] = sends[n] BY <1>1 DEF TypeOK
<1>7. Loose(n)' = 0
  <2>1. mail'[n] = "SENDING" /\ stale'[n] = FALSE BY <1>1 DEF TypeOK
  <2>2. Attended(n)' BY <1>4, <1>5, <1>6 DEF Attended
  <2> QED BY <2>1, <2>2 DEF Loose
<1>8. Budget(n)'
  <2>1. /\ sends[n] \in Nat /\ attempts[n] \in Nat /\ faults \in Nat
        /\ MaxAttempts \in Nat \ {0} /\ Ahead(n) \in Nat
        /\ Cardinality(MaySend(n)) \in Nat /\ Cardinality(MayRetry(n)) \in Nat
    BY BudgetNumbers
  <2>2. MaySend(n)' \subseteq MaySend(n) \cup {w} BY <1>5 DEF MaySend
  <2>3. /\ IsFiniteSet(MaySend(n)') /\ Cardinality(MaySend(n)') \in Nat
        /\ Cardinality(MaySend(n)') <= Cardinality(MaySend(n)) + 1
    BY <2>2, Counting DEF Budget
  <2>4. SendCost(n)' <= 1 + faults'
    <3>1. sends[n] + Cardinality(MaySend(n)) + 1 <= 1 + faults
      BY <1>3 DEF Budget, SendCost
    <3>2. SendCost(n)' = sends[n] + Cardinality(MaySend(n)') + 0
      BY <1>6, <1>7 DEF SendCost
    <3> QED BY <1>1, <2>1, <2>3, <3>1, <3>2
  <2>5. Ahead(n) + Cardinality(MayRetry(n)) + 1 <= MaxAttempts + faults
    BY <1>3 DEF Budget, TryCost
  <2>6. TryCost(n)' = Ahead(n)' + Cardinality(MayRetry(n)') + 0
    BY <1>7 DEF TryCost
  <2>7. CASE attempts[n] + 1 < MaxAttempts
    <3>1. Ahead(n)' = Ahead(n) BY <1>6, <2>1, <2>7 DEF Ahead
    <3>2. MayRetry(n)' \subseteq MayRetry(n) \cup {w}
      BY <1>5 DEF MayRetry, TriesLeft
    <3>3. /\ IsFiniteSet(MayRetry(n)') /\ Cardinality(MayRetry(n)') \in Nat
          /\ Cardinality(MayRetry(n)') <= Cardinality(MayRetry(n)) + 1
      BY <3>2, Counting DEF Budget
    <3>4. TryCost(n)' <= MaxAttempts + faults'
      BY <1>1, <2>1, <2>5, <2>6, <3>1, <3>3
    <3> QED BY <2>3, <2>4, <3>3, <3>4 DEF Budget
  <2>8. CASE ~(attempts[n] + 1 < MaxAttempts)
    <3>1. Ahead(n)' = Ahead(n) + 1 BY <1>6, <2>1, <2>8 DEF Ahead
    <3>2. MayRetry(n)' \subseteq MayRetry(n)
      BY <1>4, <1>5, <2>8 DEF MayRetry, TriesLeft
    <3>3. /\ IsFiniteSet(MayRetry(n)') /\ Cardinality(MayRetry(n)') \in Nat
          /\ Cardinality(MayRetry(n)') <= Cardinality(MayRetry(n))
      BY <3>2, Counting DEF Budget
    <3>4. TryCost(n)' <= MaxAttempts + faults'
      BY <1>1, <2>1, <2>5, <2>6, <3>1, <3>3
    <3> QED BY <2>3, <2>4, <3>3, <3>4 DEF Budget
  <2> QED BY <2>7, <2>8
<1>9. ASSUME NEW t \in Tokens, t # n PROVE Budget(t)'
  <2>1. worker[w].token # t /\ x.token # t
    BY <1>2, <1>4, <1>9, ConstantsAssumption
  <2>2. /\ sends'[t] = sends[t] /\ attempts'[t] = attempts[t] /\ stale'[t] = stale[t]
        /\ mail'[t] = mail[t]
    BY <1>1, <1>9 DEF TypeOK
  <2>3. faults <= faults' BY <1>1 DEF TypeOK
  <2> QED BY <1>1, <2>1, <2>2, <2>3, Elsewhere
<1> QED BY <1>8, <1>9

\* The copy the server accepts is one that might be sent; a lost answer is a
\* fault, and pays for the copy a retry may add.
LEMMA AcceptSpends ==
  ASSUME TypeOK, TypeOK', \A t \in Tokens : Budget(t), NEW w \in Workers, Accept(w)
  PROVE  \A t \in Tokens : Budget(t)'
<1> DEFINE n == worker[w].token
<1>1. /\ worker[w].step = "sending" /\ sends' = [sends EXCEPT ![n] = @ + 1]
      /\ \/ Becomes(w, "accepted") /\ UNCHANGED faults
         \/ Becomes(w, "temporary") /\ faults' = faults + 1
      /\ UNCHANGED <<mail, attempts, stale>>
  BY DEF Accept, At, Fault, mailVars
<1>2. PICK step \in {"accepted", "temporary"} :
        /\ worker' = [worker EXCEPT ![w].step = step]
        /\ step = "accepted" => faults' = faults
        /\ step = "temporary" => faults' = faults + 1
  BY <1>1 DEF Becomes
<1>3. /\ worker'[w].token = n /\ worker'[w].attempt = worker[w].attempt
      /\ worker'[w].step = step
      /\ \A v \in Workers \ {w} : worker'[v] = worker[v]
  <2>1. worker[w] \in WorkerStates BY DEF TypeOK
  <2>2. worker'[w] = [worker[w] EXCEPT !.step = step] BY <1>2 DEF TypeOK
  <2> QED BY <1>2, <2>1, <2>2 DEF WorkerStates, TypeOK
<1>4. \A t \in Tokens : Attended(t)' <=> Attended(t) BY <1>1, <1>3 DEF Attended
<1>5. \A t \in Tokens : Loose(t)' = Loose(t) BY <1>1, <1>4 DEF Loose
<1>6. \A t \in Tokens : MayRetry(t)' \subseteq MayRetry(t)
  BY <1>3 DEF MayRetry, TriesLeft
<1>7. \A t \in Tokens : MaySend(t)' \subseteq MaySend(t)
  BY <1>1, <1>3 DEF MaySend
<1>8. faults \in Nat /\ faults' \in Nat /\ faults <= faults'
  BY <1>2 DEF TypeOK
<1>9. ASSUME NEW t \in Tokens, t # n PROVE Budget(t)'
  <2>1. sends'[t] = sends[t] /\ attempts'[t] = attempts[t] BY <1>1, <1>9 DEF TypeOK
  <2>2. Loose(t) \in {0, 1} BY DEF Loose
  <2>3. Loose(t)' + faults <= Loose(t) + faults' BY <1>5, <1>8, <2>2
  <2> QED BY <1>6, <1>7, <2>1, <2>3, Unspent
<1>10. ASSUME NEW t \in Tokens, t = n PROVE Budget(t)'
  <2>1. sends'[t] = sends[t] + 1 /\ attempts'[t] = attempts[t]
    BY <1>1, <1>10 DEF TypeOK
  <2>2. w \in MaySend(t) BY <1>1, <1>10 DEF MaySend
  <2> HIDE DEF n
  <2>3. /\ sends[t] \in Nat /\ MaxAttempts \in Nat /\ Ahead(t) \in Nat
        /\ Loose(t) \in {0, 1}
        /\ Cardinality(MaySend(t)) \in Nat /\ Cardinality(MayRetry(t)) \in Nat
    BY BudgetNumbers
  <2>4. /\ IsFiniteSet(MaySend(t)') /\ Cardinality(MaySend(t)') \in Nat
        /\ Cardinality(MaySend(t)') <= Cardinality(MaySend(t))
    BY <1>7, Counting DEF Budget
  <2>5. step = "accepted" => Cardinality(MaySend(t)') + 1 <= Cardinality(MaySend(t))
    <3>1. step = "accepted" => MaySend(t)' \subseteq MaySend(t) \ {w}
      BY <1>3, <1>7 DEF MaySend
    <3> QED BY <2>2, <3>1, Counting DEF Budget
  <2>6. /\ IsFiniteSet(MayRetry(t)') /\ Cardinality(MayRetry(t)') \in Nat
        /\ Cardinality(MayRetry(t)') <= Cardinality(MayRetry(t))
    BY <1>6, Counting DEF Budget
  <2>7. sends[t] + Cardinality(MaySend(t)) + Loose(t) <= 1 + faults
    BY DEF Budget, SendCost
  <2>8. SendCost(t)' <= 1 + faults'
    <3>1. SendCost(t)' = sends[t] + 1 + Cardinality(MaySend(t)') + Loose(t)
      BY <1>5, <2>1 DEF SendCost
    <3> QED BY <1>2, <1>8, <2>3, <2>4, <2>5, <2>7, <3>1
  <2>9. TryCost(t)' <= MaxAttempts + faults'
    <3>1. TryCost(t)' = Ahead(t) + Cardinality(MayRetry(t)') + Loose(t)
      BY <1>5, <2>1 DEF TryCost, Ahead
    <3>2. Ahead(t) + Cardinality(MayRetry(t)) + Loose(t) <= MaxAttempts + faults
      BY DEF Budget, TryCost
    <3> QED BY <1>8, <2>3, <2>6, <3>1, <3>2
  <2> QED BY <2>4, <2>6, <2>8, <2>9 DEF Budget
<1> QED BY <1>9, <1>10
\* A worker that ends a delivery no longer sends or retries.  What it writes
\* makes mail loose only when it was one that could.
LEMMA ReportSpends ==
  ASSUME TypeOK, TypeOK', \A t \in Tokens : Budget(t), NEW w \in Workers,
         \/ CompleteEmailOutbox(w) \/ FailEmailOutbox(w) \/ RetryEmailOutbox(w)
         \/ ReportLost(w) \/ Restart(w)
  PROVE  \A t \in Tokens : Budget(t)'
<1> DEFINE n == worker[w].token
<1>1. PICK x : x.token = NoToken /\ worker' = [worker EXCEPT ![w] = x]
  BY DEF CompleteEmailOutbox, FailEmailOutbox, RetryEmailOutbox, ReportLost, Restart,
         Report, IdleWorker
<1>2. UNCHANGED <<attempts, stale, sends>>
  BY DEF CompleteEmailOutbox, FailEmailOutbox, RetryEmailOutbox, ReportLost, Restart,
         Report, mailVars
<1>3. /\ \A t \in Tokens : t # n => mail'[t] = mail[t]
      /\ faults' = faults \/ faults' = faults + 1
  BY DEF CompleteEmailOutbox, FailEmailOutbox, RetryEmailOutbox, ReportLost, Restart,
         Report, Fault, mailVars, TypeOK
<1>4. faults \in Nat /\ faults' \in Nat /\ faults <= faults'
  BY <1>3 DEF TypeOK
<1>5. /\ worker'[w] = x /\ \A v \in Workers \ {w} : worker'[v] = worker[v]
  BY <1>1 DEF TypeOK
<1>6. \A t \in Tokens : x.token # t BY <1>1, ConstantsAssumption
<1>7. ASSUME NEW t \in Tokens
      PROVE  /\ MaySend(t)' \subseteq MaySend(t) \ {w}
             /\ MayRetry(t)' \subseteq MayRetry(t) \ {w}
  BY <1>5, <1>6 DEF MaySend, MayRetry, TriesLeft
<1>8. ASSUME NEW t \in Tokens, t # n PROVE Budget(t)'
  BY <1>1, <1>2, <1>3, <1>4, <1>6, <1>8, Elsewhere
<1>9. ASSUME NEW t \in Tokens, t = n PROVE Budget(t)'
  <2>1. Loose(t) \in {0, 1} /\ Loose(t)' \in {0, 1} BY DEF Loose
  <2>2. ASSUME Loose(t)' + faults <= Loose(t) + faults' PROVE Budget(t)'
    BY <1>2, <1>7, <2>2, Unspent
  <2>3. CASE CompleteEmailOutbox(w) \/ FailEmailOutbox(w)
    <3>1. \E outcome \in Final : mail' = [mail EXCEPT ![t] = OutcomeOf(t, outcome)]
      BY <1>9, <2>3 DEF CompleteEmailOutbox, FailEmailOutbox, Report, Final
    <3>2. mail'[t] \in Final \/ (mail'[t] = mail[t] /\ mail[t] # "SENDING")
      BY <3>1 DEF OutcomeOf, TypeOK
    <3>3. Loose(t)' <= Loose(t) BY <3>2 DEF Loose, Final
    <3> QED BY <1>4, <2>1, <2>2, <3>3
  <2>4. CASE ReportLost(w) \/ Restart(w)
    <3>1. faults' = faults + 1 BY <2>4 DEF ReportLost, Restart, Fault
    <3> QED BY <1>4, <2>1, <2>2, <3>1
  <2>5. CASE RetryEmailOutbox(w)
    <3>1. w \in MaySend(t) /\ w \in MayRetry(t)
      BY <1>9, <2>5 DEF RetryEmailOutbox, At, MaySend, MayRetry
    <3>2. faults' = faults BY <2>5 DEF RetryEmailOutbox, Report
    <3>3. /\ sends[t] \in Nat /\ MaxAttempts \in Nat /\ Ahead(t) \in Nat
          /\ Cardinality(MaySend(t)) \in Nat /\ Cardinality(MayRetry(t)) \in Nat
      BY BudgetNumbers
    <3>4. /\ IsFiniteSet(MaySend(t)') /\ Cardinality(MaySend(t)') \in Nat
          /\ Cardinality(MaySend(t)') + 1 <= Cardinality(MaySend(t))
      <4>1. MaySend(t)' \subseteq MaySend(t) \ {w} /\ MaySend(t)' \subseteq MaySend(t)
        BY <1>7
      <4> QED BY <3>1, <4>1, Counting DEF Budget
    <3>5. /\ IsFiniteSet(MayRetry(t)') /\ Cardinality(MayRetry(t)') \in Nat
          /\ Cardinality(MayRetry(t)') + 1 <= Cardinality(MayRetry(t))
      <4>1. MayRetry(t)' \subseteq MayRetry(t) \ {w} /\ MayRetry(t)' \subseteq MayRetry(t)
        BY <1>7
      <4> QED BY <3>1, <4>1, Counting DEF Budget
    <3>6. SendCost(t)' <= 1 + faults'
      <4>1. sends[t] + Cardinality(MaySend(t)) + Loose(t) <= 1 + faults
        BY DEF Budget, SendCost
      <4>2. SendCost(t)' = sends[t] + Cardinality(MaySend(t)') + Loose(t)'
        BY <1>2 DEF SendCost
      <4> QED BY <1>4, <2>1, <3>2, <3>3, <3>4, <4>1, <4>2
    <3>7. TryCost(t)' <= MaxAttempts + faults'
      <4>1. Ahead(t) + Cardinality(MayRetry(t)) + Loose(t) <= MaxAttempts + faults
        BY DEF Budget, TryCost
      <4>2. TryCost(t)' = Ahead(t) + Cardinality(MayRetry(t)') + Loose(t)'
        BY <1>2 DEF TryCost, Ahead
      <4> QED BY <1>4, <2>1, <3>2, <3>3, <3>5, <4>1, <4>2
    <3> QED BY <3>4, <3>5, <3>6, <3>7 DEF Budget
  <2> QED BY <2>3, <2>4, <2>5
<1> QED BY <1>8, <1>9

\* What the other steps leave as it was, or make final.
LEMMA NothingSpends ==
  ASSUME TypeOK, TypeOK', \A t \in Tokens : Budget(t),
         UNCHANGED <<worker, attempts, stale, sends, faults>>,
         NEW t \in Tokens, mail'[t] = mail[t] \/ mail'[t] \notin Open
  PROVE  Budget(t)'
<1>1. MaySend(t)' \subseteq MaySend(t) /\ MayRetry(t)' \subseteq MayRetry(t)
  BY DEF MaySend, MayRetry, TriesLeft
<1>2. Attended(t)' <=> Attended(t) BY DEF Attended
<1>3. Loose(t)' <= Loose(t) BY <1>2 DEF Loose, Open
<1>4. Loose(t) \in {0, 1} /\ Loose(t)' \in {0, 1} /\ faults \in Nat
  BY DEF Loose, TypeOK
<1> QED BY <1>1, <1>3, <1>4, Unspent

\* Deciding what to claim, finding nothing, being refused: no copy is sent.
LEMMA IdleSpends ==
  ASSUME TypeOK, TypeOK', Unclaimed, \A t \in Tokens : Budget(t), NEW w \in Workers,
         CancelUndeliverable(w) \/ NothingToClaim(w) \/ Refuse(w)
  PROVE  \A t \in Tokens : Budget(t)'
<1>1. UNCHANGED <<attempts, stale, sends, faults>>
  BY DEF CancelUndeliverable, NothingToClaim, Refuse, mailVars
<1>2. \A t \in Tokens : mail'[t] = mail[t] \/ mail'[t] \notin Open
  BY DEF CancelUndeliverable, NothingToClaim, Refuse, mailVars, Open
<1>3. faults \in Nat BY DEF TypeOK
<1>4. CASE CancelUndeliverable(w) \/ NothingToClaim(w)
  <2>1. worker[w].token = NoToken
    BY <1>4 DEF CancelUndeliverable, NothingToClaim, At, Unclaimed
  <2>2. PICK x : worker' = [worker EXCEPT ![w] = x] /\ x.token = NoToken
    <3>1. CASE CancelUndeliverable(w)
      <4> DEFINE x == [worker[w] EXCEPT !.step = "claiming"]
      <4>1. worker[w] \in WorkerStates BY DEF TypeOK
      <4>2. x.token = NoToken BY <2>1, <4>1 DEF WorkerStates
      <4>3. worker' = [worker EXCEPT ![w] = x]
        BY <3>1 DEF CancelUndeliverable, Becomes
      <4> QED BY <4>2, <4>3
    <3>2. CASE NothingToClaim(w)
      <4>1. IdleWorker.token = NoToken BY DEF IdleWorker
      <4>2. worker' = [worker EXCEPT ![w] = IdleWorker] BY <3>2 DEF NothingToClaim
      <4> QED BY <4>1, <4>2
    <3> QED BY <1>4, <3>1, <3>2
  <2>3. \A t \in Tokens : worker[w].token # t /\ x.token # t
    BY <2>1, <2>2, ConstantsAssumption
  <2>4. ASSUME NEW t \in Tokens PROVE Budget(t)'
    <3>1. mail'[t] = mail[t] \/ mail'[t] \notin Open BY <1>2
    <3>2. faults <= faults' BY <1>1, <1>3
    <3> QED BY <1>1, <2>2, <2>3, <3>1, <3>2, Elsewhere
  <2> QED BY <2>4
<1>5. CASE Refuse(w)
  <2>1. PICK step \in {"temporary", "permanent"} :
          worker' = [worker EXCEPT ![w].step = step]
    BY <1>5 DEF Refuse, Becomes
  <2>2. worker[w].step = "sending" /\ UNCHANGED mail BY <1>5 DEF Refuse, At, mailVars
  <2>3. /\ worker'[w].token = worker[w].token /\ worker'[w].attempt = worker[w].attempt
        /\ \A v \in Workers \ {w} : worker'[v] = worker[v]
    <3>1. worker[w] \in WorkerStates BY DEF TypeOK
    <3>2. worker'[w] = [worker[w] EXCEPT !.step = step] BY <2>1 DEF TypeOK
    <3> QED BY <2>1, <3>1, <3>2 DEF WorkerStates, TypeOK
  <2>4. ASSUME NEW t \in Tokens PROVE Budget(t)'
    <3>1. MaySend(t)' \subseteq MaySend(t) BY <2>2, <2>3 DEF MaySend
    <3>2. MayRetry(t)' \subseteq MayRetry(t) BY <2>3 DEF MayRetry, TriesLeft
    <3>3. Attended(t)' <=> Attended(t) BY <1>1, <2>3 DEF Attended
    <3>4. Loose(t)' = Loose(t) BY <1>1, <2>2, <3>3 DEF Loose
    <3>5. Loose(t) \in {0, 1} BY DEF Loose
    <3>6. Loose(t)' + faults <= Loose(t) + faults' BY <1>1, <1>3, <3>4, <3>5
    <3> QED BY <1>1, <3>1, <3>2, <3>6, Unspent
  <2> QED BY <2>4
<1> QED BY <1>4, <1>5

\* A claim goes stale under a worker that still holds it only by a fault, and
\* otherwise the mail was loose already.
LEMMA ClockSpends ==
  ASSUME TypeOK, TypeOK', \A t \in Tokens : Budget(t), NEW n \in Tokens, Clock(n)
  PROVE  \A t \in Tokens : Budget(t)'
<1>1. CASE Ages(n) \/ RetryDue(n)
  <2>1. UNCHANGED <<worker, mail, attempts, stale, sends, faults>>
    BY <1>1 DEF Ages, RetryDue, mailVars
  <2> QED BY <2>1, NothingSpends
<1>2. CASE GoesStale(n)
  <2>1. UNCHANGED <<worker, mail, attempts, sends>> /\ mail[n] = "SENDING"
    BY <1>2 DEF GoesStale
  <2>2. \A t \in Tokens \ {n} : stale'[t] = stale[t] BY <1>2 DEF GoesStale, TypeOK
  <2>3. faults' = IF Attended(n) THEN faults + 1 ELSE faults
    BY <1>2 DEF GoesStale, Fault, Attended
  <2>4. faults \in Nat BY DEF TypeOK
  <2>5. ASSUME NEW t \in Tokens PROVE Budget(t)'
    <3>1. MaySend(t)' \subseteq MaySend(t) /\ MayRetry(t)' \subseteq MayRetry(t)
      BY <2>1 DEF MaySend, MayRetry, TriesLeft
    <3>2. Attended(t)' <=> Attended(t) BY <2>1 DEF Attended
    <3>3. Loose(t) \in {0, 1} /\ Loose(t)' \in {0, 1} BY DEF Loose
    <3>4. t # n => Loose(t)' = Loose(t) BY <2>1, <2>2, <3>2 DEF Loose
    <3>5. t = n => Attended(n) \/ Loose(t) = 1 BY <2>1 DEF Loose
    <3>6. Loose(t)' + faults <= Loose(t) + faults'
      BY <2>3, <2>4, <3>3, <3>4, <3>5
    <3> QED BY <2>1, <3>1, <3>6, Unspent
  <2> QED BY <2>5
<1> QED BY <1>1, <1>2 DEF Clock
\* The mail of a new link is one copy and one attempt, for which there is room.
LEMMA RequestSpends ==
  ASSUME TypeOK, TypeOK', LinkInv, MailInv, BudgetInv, NEW r \in Requests,
         RequestStart(r) \/ RequestStep(r)
  PROVE  /\ \A t \in Tokens : Budget(t)'
         /\ UNCHANGED <<worker, attempts, sends>>
         /\ \A t \in Tokens : link'[t] = "NONE" => link[t] = "NONE"
<1>1. UNCHANGED <<worker, attempts, stale, sends, faults>>
  BY DEF RequestStart, Resend, Forgot, OpenForm, Click, Starts, RequestStep, ChangeEmail,
         BeginIssue, CancelOldMail, ReplaceLink, LockLink, LockRow, Abort, Unwritten,
         ConsumeEmailVerification, ConsumePasswordResetToken, mailVars
<1>2. \A t \in Tokens : link'[t] = "NONE" => link[t] = "NONE"
  <2>1. ASSUME NEW n \in Tokens, ReplaceLink(r, n), NEW t \in Tokens, link'[t] = "NONE"
        PROVE  link[t] = "NONE"
    <3>1. n \notin Live(req[r].user, KindIssued(r))
      BY <2>1 DEF ReplaceLink, Unissued, Live
    <3> QED BY <2>1, <3>1 DEF ReplaceLink
  <2>2. ASSUME ConsumeEmailVerification(r) \/ ConsumePasswordResetToken(r),
               NEW t \in Tokens, link'[t] = "NONE"
        PROVE  link[t] = "NONE"
    BY <2>2 DEF ConsumeEmailVerification, ConsumePasswordResetToken, Consume, TypeOK
  <2>3. RequestStart(r) => UNCHANGED link
    BY DEF RequestStart, Resend, Forgot, OpenForm, Click, Starts, linkVars
  <2>4. ChangeEmail(r) \/ BeginIssue(r) \/ CancelOldMail(r) \/ LockLink(r) \/ LockRow(r)
          \/ Abort(r) => UNCHANGED link
    BY DEF ChangeEmail, BeginIssue, CancelOldMail, LockLink, LockRow, Abort, Unwritten,
           linkVars
  <2> QED BY <2>1, <2>2, <2>3, <2>4 DEF RequestStep
<1>3. \A t \in Tokens : Budget(t) BY DEF BudgetInv
<1>4. ASSUME UNCHANGED mail PROVE \A t \in Tokens : Budget(t)'
  BY <1>1, <1>3, <1>4, NothingSpends
<1>5. ASSUME ConsumeEmailVerification(r) \/ ConsumePasswordResetToken(r)
      PROVE  \A t \in Tokens : Budget(t)'
  <2>1. ASSUME NEW t \in Tokens PROVE Budget(t)'
    <3>1. mail'[t] = mail[t] \/ mail'[t] \notin Open
      BY <1>5 DEF ConsumeEmailVerification, ConsumePasswordResetToken, mailVars, TypeOK,
                  Open
    <3> QED BY <1>1, <1>3, <3>1, NothingSpends
  <2> QED BY <2>1
<1>6. ASSUME NEW n \in Tokens, ReplaceLink(r, n) PROVE \A t \in Tokens : Budget(t)'
  <2>1. ASSUME NEW t \in Tokens, t # n PROVE Budget(t)'
    <3>1. mail'[t] = mail[t] \/ mail'[t] = "CANCELLED" BY <1>6, <2>1 DEF ReplaceLink
    <3>2. mail'[t] = mail[t] \/ mail'[t] \notin Open BY <3>1 DEF Open
    <3> QED BY <1>1, <1>3, <3>2, NothingSpends
  <2>2. link[n] = "NONE" BY <1>6 DEF ReplaceLink, Unissued
  <2>3. sends[n] = 0 /\ attempts[n] = 0 /\ \A w \in Workers : worker[w].token # n
    BY <2>2 DEF BudgetInv, Unclaimed
  <2>4. MaySend(n)' = {} /\ MayRetry(n)' = {}
    BY <1>1, <2>3 DEF MaySend, MayRetry
  <2>5. /\ IsFiniteSet(MaySend(n)') /\ Cardinality(MaySend(n)') = 0
        /\ IsFiniteSet(MayRetry(n)') /\ Cardinality(MayRetry(n)') = 0
    BY <2>4, FS_EmptySet
  <2>6. Loose(n)' \in {0, 1} /\ faults' \in Nat /\ MaxAttempts \in Nat \ {0}
    BY ConstantsAssumption DEF Loose, TypeOK
  <2>7. SendCost(n)' <= 1 + faults'
    <3>1. SendCost(n)' = 0 + 0 + Loose(n)' BY <1>1, <2>3, <2>5 DEF SendCost
    <3> QED BY <2>6, <3>1
  <2>8. TryCost(n)' <= MaxAttempts + faults'
    <3>1. Ahead(n)' = MaxAttempts - 1 BY <1>1, <2>3, <2>6 DEF Ahead
    <3>2. TryCost(n)' = MaxAttempts - 1 + 0 + Loose(n)' BY <2>5, <3>1 DEF TryCost
    <3> QED BY <2>6, <3>2
  <2>9. Budget(n)' BY <2>5, <2>7, <2>8 DEF Budget
  <2> QED BY <2>1, <2>9
<1>7. ASSUME \/ RequestStart(r)
             \/ ChangeEmail(r) \/ BeginIssue(r) \/ CancelOldMail(r)
             \/ LockLink(r) \/ LockRow(r) \/ Abort(r)
      PROVE  \A t \in Tokens : Budget(t)'
  BY <1>4, <1>7, WaitingMail
<1>8. \A t \in Tokens : Budget(t)'
  BY <1>5, <1>6, <1>7 DEF RequestStep
<1> QED BY <1>1, <1>2, <1>8

\* Only the mail of a usable link is claimed, and only claimed mail is sent.
LEMMA WorkerClaims ==
  ASSUME TypeOK, Unclaimed, NEW w \in Workers, WorkerStep(w) \/ Restart(w)
  PROVE  Unclaimed'
<1>1. UNCHANGED link
  BY DEF WorkerStep, CancelUndeliverable, NothingToClaim, Claim, Accept, Refuse,
         CompleteEmailOutbox, FailEmailOutbox, RetryEmailOutbox, ReportLost,
         Report, Restart, Bystanders, linkVars
<1>2. /\ worker[w] \in WorkerStates
      /\ worker[w].step \in {"idle", "claiming"} => worker[w].token = NoToken
  BY DEF TypeOK, Unclaimed
<1>3. ASSUME NEW x, worker' = [worker EXCEPT ![w] = x],
             x.step \in {"idle", "claiming"} => x.token = NoToken,
             \A t \in Tokens : link[t] = "NONE" =>
               x.token # t /\ sends'[t] = 0 /\ attempts'[t] = 0
      PROVE  Unclaimed'
  <2>1. worker'[w] = x /\ \A v \in Workers \ {w} : worker'[v] = worker[v]
    BY <1>3 DEF TypeOK
  <2> QED BY <1>1, <1>3, <2>1 DEF Unclaimed
<1>4. \A t \in Tokens : t # NoToken BY ConstantsAssumption
<1>5. ASSUME NEW x, worker' = [worker EXCEPT ![w] = x], x.token = NoToken,
             UNCHANGED <<sends, attempts>>
      PROVE  Unclaimed'
  BY <1>3, <1>4, <1>5 DEF Unclaimed
<1>6. ASSUME CancelUndeliverable(w) PROVE Unclaimed'
  <2> DEFINE x == [worker[w] EXCEPT !.step = "claiming"]
  <2>1. worker' = [worker EXCEPT ![w] = x] /\ UNCHANGED <<sends, attempts>>
    BY <1>6 DEF CancelUndeliverable, Becomes
  <2>2. x.token = NoToken BY <1>2, <1>6 DEF CancelUndeliverable, At, WorkerStates
  <2> HIDE DEF x
  <2> QED BY <1>5, <2>1, <2>2
<1>7. ASSUME NEW t \in Tokens, Claim(w, t) PROVE Unclaimed'
  <2> DEFINE x == [step |-> "sending", token |-> t, attempt |-> attempts[t] + 1]
  <2>1. worker' = [worker EXCEPT ![w] = x] /\ UNCHANGED sends /\ link[t] # "NONE"
    BY <1>7 DEF Claim, Claimable, Usable
  <2>2. \A s \in Tokens \ {t} : attempts'[s] = attempts[s] BY <1>7 DEF Claim, TypeOK
  <2>3. x.token = t /\ x.step = "sending" OBVIOUS
  <2> HIDE DEF x
  <2>4. ASSUME NEW s \in Tokens, link[s] = "NONE"
        PROVE  x.token # s /\ sends'[s] = 0 /\ attempts'[s] = 0
    <3>1. s # t BY <2>1, <2>4
    <3>2. sends[s] = 0 /\ attempts[s] = 0 BY <2>4 DEF Unclaimed
    <3> QED BY <2>1, <2>2, <2>3, <3>1, <3>2
  <2>5. x.step \notin {"idle", "claiming"} BY <2>3
  <2> QED BY <1>3, <2>1, <2>4, <2>5
<1>8. ASSUME Accept(w) \/ Refuse(w) PROVE Unclaimed'
  <2>1. PICK step \in {"accepted", "temporary", "permanent"} :
          worker' = [worker EXCEPT ![w] = [worker[w] EXCEPT !.step = step]]
    BY <1>8 DEF Accept, Refuse, Becomes
  <2> DEFINE x == [worker[w] EXCEPT !.step = step]
  <2>2. x.token = worker[w].token /\ x.step = step BY <1>2 DEF WorkerStates
  <2>3. UNCHANGED attempts BY <1>8 DEF Accept, Refuse, mailVars
  <2>4. \A t \in Tokens : t # worker[w].token => sends'[t] = sends[t]
    BY <1>8 DEF Accept, Refuse, TypeOK
  <2>5. \A t \in Tokens : link[t] = "NONE" => worker[w].token # t BY DEF Unclaimed
  <2> HIDE DEF x
  <2>6. \A t \in Tokens : link[t] = "NONE" =>
          x.token # t /\ sends'[t] = 0 /\ attempts'[t] = 0
    BY <2>2, <2>3, <2>4, <2>5 DEF Unclaimed
  <2> QED BY <1>3, <2>1, <2>2, <2>6 DEF x
<1>9. ASSUME NothingToClaim(w) \/ Restart(w) PROVE Unclaimed'
  <2>1. IdleWorker.token = NoToken BY DEF IdleWorker
  <2> QED BY <1>5, <1>9, <2>1 DEF NothingToClaim, Restart, mailVars
<1>10. ASSUME CompleteEmailOutbox(w) \/ FailEmailOutbox(w) \/ RetryEmailOutbox(w)
                \/ ReportLost(w)
       PROVE  Unclaimed'
  <2> DEFINE x == [IdleWorker EXCEPT !.step = "claiming"]
  <2>1. worker' = [worker EXCEPT ![w] = x] /\ UNCHANGED <<sends, attempts>>
    BY <1>10 DEF CompleteEmailOutbox, FailEmailOutbox, RetryEmailOutbox, ReportLost,
                 Report, mailVars
  <2>2. x.token = NoToken BY DEF IdleWorker
  <2> HIDE DEF x
  <2> QED BY <1>5, <2>1, <2>2
<1> QED BY <1>6, <1>7, <1>8, <1>9, <1>10 DEF WorkerStep

LEMMA BudgetStep ==
  ASSUME TypeOK, TypeOK', LinkInv, MailInv, BudgetInv, [Next]_vars
  PROVE  BudgetInv'
<1> SUFFICES Unclaimed' /\ \A t \in Tokens : Budget(t)'
  BY DEF BudgetInv
<1>1. Unclaimed /\ \A t \in Tokens : Budget(t) BY DEF BudgetInv
<1>2. ASSUME UNCHANGED <<worker, sends, attempts>>,
             \A t \in Tokens : link'[t] = "NONE" => link[t] = "NONE"
      PROVE  Unclaimed'
  BY <1>1, <1>2 DEF Unclaimed
<1>3. ASSUME NEW r \in Requests, RequestStart(r) \/ RequestStep(r)
      PROVE  Unclaimed' /\ \A t \in Tokens : Budget(t)'
  BY <1>2, <1>3, RequestSpends
<1>4. ASSUME NEW w \in Workers, WorkerStep(w) \/ Restart(w)
      PROVE  Unclaimed' /\ \A t \in Tokens : Budget(t)'
  <2>1. Unclaimed' BY <1>1, <1>4, WorkerClaims
  <2>2. ASSUME NEW t \in Tokens, Claim(w, t) PROVE \A s \in Tokens : Budget(s)'
    BY <1>1, <2>2, ClaimSpends
  <2>3. Accept(w) => \A s \in Tokens : Budget(s)' BY <1>1, AcceptSpends
  <2>4. CancelUndeliverable(w) \/ NothingToClaim(w) \/ Refuse(w) =>
          \A s \in Tokens : Budget(s)'
    BY <1>1, IdleSpends
  <2>5. CompleteEmailOutbox(w) \/ FailEmailOutbox(w) \/ RetryEmailOutbox(w)
          \/ ReportLost(w) \/ Restart(w) => \A s \in Tokens : Budget(s)'
    BY <1>1, ReportSpends
  <2> QED BY <1>4, <2>1, <2>2, <2>3, <2>4, <2>5 DEF WorkerStep
<1>5. ASSUME NEW t \in Tokens, Clock(t)
      PROVE  Unclaimed' /\ \A s \in Tokens : Budget(s)'
  <2>1. UNCHANGED <<worker, sends, attempts, link>>
    BY <1>5 DEF Clock, Ages, RetryDue, GoesStale, Bystanders, mailVars, linkVars
  <2> QED BY <1>1, <1>2, <1>5, <2>1, ClockSpends
<1>6. ASSUME AccountStep \/ UNCHANGED vars
      PROVE  Unclaimed' /\ \A t \in Tokens : Budget(t)'
  <2>1. UNCHANGED <<worker, mail, attempts, stale, sends, faults, link>>
    BY <1>6 DEF AccountStep, DeactivateUser, SetUserPasswordHash, PutSession,
                DestroySession, CheckPassword, Aside, vars, mailVars, linkVars
  <2> QED BY <1>1, <1>2, <2>1, NothingSpends
<1> QED BY <1>3, <1>4, <1>5, <1>6 DEF Next

\* A second copy of a message, or an attempt beyond MaxAttempts, is due to a
\* process that stopped, was suspended past StaleAfter or lost an answer: each
\* such fault adds one at most, however many workers there are.
THEOREM CopiesArePaid == Spec => []CopiesArePaidFor
<1>1. Init => BudgetInv
  <2> SUFFICES ASSUME Init PROVE BudgetInv
    OBVIOUS
  <2>1. \A w \in Workers : worker[w] = IdleWorker BY DEF Init
  <2>2. \A w \in Workers : \A t \in Tokens : worker[w].token # t
    BY <2>1, ConstantsAssumption DEF IdleWorker
  <2>3. Unclaimed BY <2>1, <2>2 DEF Init, Unclaimed, IdleWorker
  <2>4. ASSUME NEW t \in Tokens PROVE Budget(t)
    <3>1. MaySend(t) = {} /\ MayRetry(t) = {} BY <2>2 DEF MaySend, MayRetry
    <3>2. sends[t] = 0 /\ attempts[t] = 0 /\ faults = 0 /\ mail[t] = "NONE" BY DEF Init
    <3>3. Loose(t) = 0 BY <3>2 DEF Loose
    <3>4. MaxAttempts \in Nat \ {0} BY ConstantsAssumption
    <3>5. /\ Cardinality(MaySend(t)) = 0 /\ Cardinality(MayRetry(t)) = 0
          /\ IsFiniteSet(MaySend(t)) /\ IsFiniteSet(MayRetry(t))
      BY <3>1, FS_EmptySet
    <3>6. SendCost(t) = 0 BY <3>2, <3>3, <3>5 DEF SendCost
    <3>7. TryCost(t) = MaxAttempts - 1 BY <3>2, <3>3, <3>4, <3>5 DEF TryCost, Ahead
    <3> QED BY <3>2, <3>4, <3>5, <3>6, <3>7 DEF Budget
  <2> QED BY <2>3, <2>4 DEF BudgetInv
<1>2. TypeOK /\ TypeOK' /\ LinkInv /\ MailInv /\ BudgetInv /\ [Next]_vars => BudgetInv'
  BY BudgetStep
<1>3. TypeOK /\ BudgetInv => CopiesArePaidFor
  <2> SUFFICES ASSUME TypeOK, BudgetInv, NEW t \in Tokens
               PROVE  sends[t] <= 1 + faults /\ attempts[t] <= MaxAttempts + faults
    BY DEF CopiesArePaidFor
  <2>1. Budget(t) BY DEF BudgetInv
  <2>2. /\ sends[t] \in Nat /\ attempts[t] \in Nat /\ faults \in Nat
        /\ MaxAttempts \in Nat /\ Loose(t) \in {0, 1}
        /\ Cardinality(MaySend(t)) \in Nat /\ Cardinality(MayRetry(t)) \in Nat
    BY <2>1, BudgetNumbers
  <2>3. sends[t] <= 1 + faults BY <2>1, <2>2 DEF Budget, SendCost
  <2>4. attempts[t] <= MaxAttempts + faults
    <3>1. Ahead(t) + Cardinality(MayRetry(t)) + Loose(t) <= MaxAttempts + faults
      BY <2>1 DEF Budget, TryCost
    <3> QED BY <2>2, <3>1 DEF Ahead
  <2> QED BY <2>3, <2>4
<1> QED BY <1>1, <1>2, <1>3, MailInvariant, PTL DEF Spec

=============================================================================
