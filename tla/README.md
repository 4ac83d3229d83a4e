# Verification of MyCFC

MyCFC is the server-rendered application of a canoeing club: Go handlers, one
PostgreSQL database, one private object bucket, an SMTP relay and a few small
background programs. Almost all of its hard behaviour is concurrency between
HTTP requests, workers and PostgreSQL's rules for row locks and snapshots, with
crashes and lost answers on top. That is what the TLA+ modules here model, what
TLC checks on small instances, and what the TLAPS proofs establish for all
instances.

Paths below are relative to the repository root (`src/` in `PROJECT.json`).

Contents: 1 inventory, 2 plan, 3 private media, 4 mailed links, 5 club events,
6 guardian authority, 7 training publication, 8 what is proved and what is only
model-checked, 9 findings, 10 what is not modelled, 11 how to run everything.

## 1. Inventory

How the parts interact. A request passes the middleware, which loads the session
and compares its credential version with the account. Handlers call stores, and
stores call PL/pgSQL routines or sqlc queries; nothing but the database is shared
by requests, so every interaction between them is a row, a lock, a unique index
or a trigger. Three loops run beside the requests: the e-mail worker inside each
server process, the guardian-authority reconciler, and the `media-cleanup`
program. They share tables with the handlers and nothing else.

| Component | State | Operations | What is hard | What makes it correct |
|---|---|---|---|---|
| Private media (`mediauploads`, `storage`, `cmd/media-cleanup`, photo parts of profile, equipment, repair) | upload intents and their event log, holds, cleanup jobs with leases, pointers in the business rows, objects in the bucket | begin, finalize, PUT, confirm, attach, mark, remove; claim, list, delete, complete, fail | a PUT whose result is unknown; a process that dies anywhere; a worker whose lease was taken over; two savers of one row | a row never points to a missing object; unwanted objects go; leases and budgets hold |
| Mailed links (`emailverification`, `passwordreset`) | tokens, outbox rows, account row | issue, replace, click, consume, sweep, claim, deliver, complete, retry, fail | row locks at READ COMMITTED, deadlocks, claims that go stale, lost SMTP answers | a link works once and only for its address; mail reaches an outcome; copies are bounded |
| Sessions and credential version (`sessionstore`, `handlers/auth.go`, `login.go`) | stored sessions, `users.credential_version` | login, load, logout, reset, operator password change | a login overlapping a password change | no session outlives its password |
| Events (`handlers/events.go`, `event_results.go`) | event row, audience, answers, check-ins, results link | respond, confirm, check in, edit, cancel, link | count-then-write; statement snapshots against row locks; optimistic versions | seats within capacity; cancelled is frozen; nothing overwritten |
| Guardian authority (`guardianauthority`, `handlers/guardian_*`, routines of `schema.sql`) | relationships, renewals, the minor's credential and sessions, the policy | create, approve, renew, refuse, suspend, end, ask for renewal, issue a login, reconcile, disable, enable | renewal against expiry, a decision that waits for the lock, a release while anybody decides | authority is never longer or wider than what was decided; every cutoff comes, and ends the sessions |
| Age-18 handoff (`handlers/guardian_handoff*`) | hand-overs, e-mail tokens | start, propose, verify, confirm identity, recover, complete | proof and identity in either order, the same address claimed twice, credentials cleared meanwhile | an adult account has an address it proved and an identity somebody confirmed |
| Structured training (`structured_training*.go`) | plans with a version, sessions, segments, variations, publications | edit, move, cancel, vary, preview, publish | a publication read by four queries outside its transaction; row locks against a SERIALIZABLE snapshot; a version that does not cover the events crews train for | what is published is what the plan asked for at one instant; nothing published is cut off; a plan shown as current lacks nothing |
| Dated participation, sport assignment | memberships and assignments with periods | assign, close, correct | a closing against a publication that includes the membership | at any date at most one; no published session after the end |
| Equipment and repairs | rows, audit, maintenance, repair states | create, edit, retire, report, triage | stale forms, retirement against open repairs | photos agree (modelled); states follow their table (planned) |
| Polar activity provider | connections with their credentials, activities | connect, sync, import, disconnect | overlapping synchronizations; a connection read before the remote call and used after it | an activity is stored once, and as the provider last had it |
| Feature flags | a mode and `updated_at` per key | read, set | two administrators with pages of one age | unknown is closed; no lost update |
| Schema bootstrap, migrations | ledger, advisory lock | bootstrap, migrate | two processes starting, a crash between files | each migration applied once, in order |
| Pull-based deployment (`deployment/pull-release.sh`) | slots, current digest, receipts, failed digest | fetch, migrate, start, check, switch, roll back | a crash between any two steps | traffic only on a healthy slot |
| Data retention | bounded deletes | one batch at a time | - | - |
| Password recovery limiter (`handlers/password_recovery.go`) | a window and a count per client, at most 4096 | allow | the cap on its entries | limit per window |
| HTTP middleware (`httpx`) | none | - | - | - |
| Announcements, news, albums, suggestions, definitions | single rows with versions | create, edit, publish | - | - |
| Dashboards, locale, validation, templates, configuration | none | - | - | - |

`PROJECT.json` lists the same components with their files, and under `hazards` the
places in the code where something can go wrong that a test would hardly reach.

## 2. Plan

Order, most important behaviour first. A module per component; `MC*` modules only
give constants their values; `*_proofs` modules hold theorems. No module that is
proved about uses a RECURSIVE operator, every constant has a named assumption, and
each invariant is a conjunction of named parts.

1. **Done**: `MediaUpload` (with `ObjectCustody`, its abstract specification), runs
   profile, absence, leases, repair; theorems for every safety property, and the refinement of
   `ObjectCustody`.
2. **Done**: `EmailTokens` (with `SingleUseLinks`), runs reset and delivery; theorems for
   every safety property, and the refinement of `SingleUseLinks`.
3. **Done**: `ClubEvents` (with `Attendance`), the run pages, and the finding edits;
   theorems for every property that holds, and the refinement of `Attendance`.
4. **Done**: `GuardianAuthority`, the relationship and the age-18 hand-over in one
   module because the reconciler writes both in one transaction; runs authority
   and handover, and the finding stuck; theorems for every safety property.
5. **Done**: `TrainingPublication`, with the two writers of dated participation that
   meet a publication; the run week, and the finding pending; theorems for
   every safety property.
6. Outcomes of training sessions, on top of `TrainingPublication`: the outcome pinned
   to a revision (`queries/training.sql:88`), the guard that lets no session move after
   its first outcome, and what section 9 says of both.
7. `ActivitySync`: connection, cooldown, overlapping synchronizations, a disconnection
   or a renewed credential during the remote call (`handlers/polar.go:99`, 148, 156).
8. `EquipmentCare`, `SchemaBootstrap`, `FeatureFlags` and the recovery limiter: small
   modules. Questions: retirement against a task scheduled meanwhile
   (`queries/equipment.sql:95`), a status that returns to what an old form showed
   (`queries/repairs.sql:101`), two processes starting (`db/bootstrap.go:562`), the
   first row of a flag (`queries/feature_flags.sql:16`).

There are twelve runs, nine that pass and three that exhibit a finding; where questions
can share an instance they are one run. The hazards of `PROJECT.json` without a property
say what keeps them out.

Proofs: every safety invariant, action property and refinement that a passing run
checks is a theorem (section 8). Still worth stating: abstract specifications for
`GuardianAuthority` (an authority with a beginning, an end and one decision at a time)
and `TrainingPublication` (a week that is published at one instant), as `Attendance`
is for `ClubEvents`, and the refinements they ask for.

## 3. Private media: `MediaUpload`, `ObjectCustody`

A photo is stored in three places that no transaction covers: an *upload intent* in
the database, the object in the bucket, and the pointer in a profile, equipment or
repair row. The protocol writes the intent first (with a sealed locator), then the
object, confirms it, and attaches it together with the pointer. Whatever is left
over is found again from the intent and removed by leased cleanup jobs.

| State | Code |
|---|---|
| `status` | latest `object_upload_intent_events` of an intent |
| `hold`, `due` | `object_upload_intent_holds`, and whether `cleanup_due_at` has passed |
| `pc`, `prior`, `fresh` | the handler: how far it is, the intent it read before the source lock, whether its form or reservation is still current |
| `pointer` | the intent named by the profile, equipment or repair row |
| `rpc`, `rprior` | a removal, and what it read |
| `sent`, `inflight`, `bucket` | PUTs attempted, PUTs on the network, versions in the bucket |
| `job`, `epoch`, `leased` | `object_upload_cleanup_jobs`: state, `lease_epoch` (equal to `attempt_count`), lease still current |
| `worker` | the cleanup worker: step, job, its epoch, the versions it listed, its verdict |

Actions bear the code's names: `Begin`, `Finalize`, `PutSend`/`PutLands`/`PutIsLost`/
`PutAcknowledged`/`PutFails` (the network and the SDK), `ConfirmPut`,
`Attach`, `MarkCleanup`, `HandlerDies`, `ReadForRemoval`, `Remove`; `ClaimJob`,
`ClaimStale`, `ListVersions`, `DeleteVersions`, `ReportStarts`, `Complete`, `Fail`,
`WorkerDies`; and the deadlines `HoldLapses`, `CleanupFallsDue`, `LeaseLapses`.

Each database transaction is one step, since it takes the advisory lock of its
source first; what a transaction or handler read *before* that lock (`prior`,
`fresh`, a worker's time check) is kept in variables of its own and used later,
stale or not. `HandlerDies` may follow any step, and an answer may be lost after the
transaction committed. Claiming selects and leases in one step (`SKIP LOCKED`).

| Run | Instance | Question | Distinct states |
|---|---|---|---|
| `profile` | 2 uploads to one member, 1 removal, 1 worker, no late PUT | types; row and intent agree; a save replaces what it read; implements `ObjectCustody` | 888 k |
| `repair` | 2 submissions under one key, 1 worker that may die or lose its lease, 2 attempts, fairness | one repair request; absence is true, also after a deletion that failed or a lease that was lost; every upload is attached, erased with evidence, or left to an operator | 231 k |
| `leases` | 1 equipment photo whose row other forms move, 2 workers, 2 PUTs, late PUTs, epochs to 3 | a photo in use is stored: a worker that lost its lease neither removes a shown photo nor reopens a job, with the `updated_at` check of the equipment form in between | 765 k |

Bounds: `MaxPuts` (attempts of the SDK), `MaxAttempts`, `MaxEpoch` (lease epochs),
`LatePuts` (whether a PUT may land after its handler gave up). They are enough for
what can differ: two uploads are two savers *and* a replaced photo; two workers are a
holder and a successor; an epoch of 3 lets a job be retried after its budget question
arose; a third adds no new pair. `AbsenceHolds` is checked with `LatePuts = FALSE`
only: the two empty listings the code takes as evidence cannot see a PUT still on its
way, and a PUT that lands after ABSENCE_VERIFIED is a limitation of the design, not
excluded by it.

What the instances do not reach: `ReplacesWhatItRead` is checked for profiles, whose
removal races a save; that a save of equipment replaces what its form showed is theorem
`SavesReplaceWhatTheyRead`. In `repair` a photo is one version in the bucket, so an attempt
fails before or after all of it is gone; that absence is true when some versions of
several are gone is theorem `AbsenceIsTrue`, and was checked by TLC before it was proved
(one photo sent twice, two workers, two attempts, epochs to 3: 253 k states).

Fairness (`FairSpec`): PUTs leave the network, deadlines pass, a handler that began
goes on or dies, and `media-cleanup` polls forever (`cmd/media-cleanup/main.go:88-106`).
A removal or the start of an upload is never assumed. Deadlock is not checked in this
or the other modules: a finite number of requests may all be over.

## 4. Mailed links: `EmailTokens`, `SingleUseLinks`

Tokens that confirm an address or reset a password, the outbox rows that carry them,
the workers that deliver them, the account row they change, and the sessions that row
admits. Here the granularity is the row lock. PostgreSQL runs each statement on a
snapshot and, after a wait, rechecks only the row it waited for. So a click is
`Click` (the statement's snapshot), `LockLink` (waits for the token's row and rechecks
`StillUnconsumed`), `LockRow` for each other row in any order, and the commit
`ConsumeEmailVerification` or `ConsumePasswordResetToken`; issuing is `BeginIssue`
(advisory lock, limits), `CancelOldMail`, `ReplaceLink`. `held[r]` is what request `r`
has locked. `Abort` is a rollback, the deadlock detector's choice included: the locks
are taken in different orders by the different routines, and deadlocks do arise in the
model. Transactions on one row are one step.

| State | Code |
|---|---|
| `account` | `users`: address, verified, active, password, credential version; `rev` is `updated_at` |
| `link`, `address`, `age` | tokens: `consumed_at` (USED and VOID split consumption from replacement), address issued for; age 0 is the first minute, 1 the lifetime, 2 expired |
| `mail`, `attempts`, `due`, `stale` | `email_outbox` |
| `req`, `held` | requests and the locks of their transactions |
| `worker` | `emailverification.Worker` |
| `session` | a login between its reads, then the stored session |
| `proven`, `uses`, `sends`, `faults` | history, for the properties |

| Run | Instance | Question | Distinct states |
|---|---|---|---|
| `reset` | 2 reset tokens, 2 requests, a login, 1 worker, symmetry | hourly limit; no session outlives its password; mail of a closed link never returns to the queue; implements `SingleUseLinks` | 540 k |
| `delivery` | 1 verification token, 2 workers, 2 attempts, 1 fault, fairness | outcomes are final; copies and attempts are paid for by faults; every message reaches an outcome | 75 k |

Bounds: the tokens there are, `MaxVersion` (operator password changes), `MaxFaults`
(crashes, lost updates, suspended workers), `MaxAttempts` (10 in the code, 1 or 2
here), `MaxPerHour` (5 in the code). One account is enough for TLC because locks of
different accounts do not meet; the proofs cover any number. Two requests are every
pair of operations that can wait for each other; a third would only lengthen a queue.
`VerifiedAddressIsProven` needs a change of address to overlap a click while a second
verification link is free for it, beside the reset links of the other properties; no
instance with both ends soon enough. It is theorem `VerifiedIsProven`, and was checked by
TLC before it was proved (2 verification tokens, 2 addresses, 2 requests: 273 k states).

Abstractions: any due candidate may be claimed (the code takes the oldest); whether a
token would expire before the next attempt is a free choice; the cancelling sweep is
one step when its rows are free; an edit of the profile that keeps the address is left
out; the SMTP timeout of 10 s ends a delivery long before `StaleAfter` (5 minutes), so
only a suspended process overlaps its successor.

Fairness: requests end (weak, for the steps of a request, `Abort` included); the
worker's ticker never stops (weak); a queued UPDATE is served (strong for
`CancelUndeliverable` and for reports, since row locks are granted in turn); clocks run.

## 5. Club events: `ClubEvents`, `Attendance`

One event. `Respond` and `staffAction` lock the event row, decide, and write at their
commit; the checks before the transaction are a step of their own (`Respond`), the
decision under the lock another (`Decide`), the write a third. `UpdateEvent` and
`CancelEvent` are single statements and therefore two steps: the snapshot in which
the WHERE clause, sub-selects included, is evaluated (`UpdateBegins`, `CancelBegins`),
and the commit when the row is free (`UpdateEvent`, `CancelEvent`), where the row's
present version is compared again (`Matches`) but the answers are not counted again.
The results link has a version of its own and does not move `updated_at`.

`Attendance` is the event without requests, locks, snapshots or versions: an answer, a
confirmation, a check-in, an edit, a cancellation and a new results link are one step
each, and take effect by the state of that step. Who declines gives the seat back, who
holds one keeps it, and nobody is put on the waiting list while a seat is free. What it
does not promise is what the code does not keep: who is already waiting when a seat comes
free goes on waiting until an answer or a confirmation gives it to somebody, and an edit
may leave fewer seats than are taken (section 9). Under the mapping `AsPromised` a
request's step is the one in which it writes; all its other steps change nothing.

| State | Code |
|---|---|
| `event` | `events` row and its audience; `rev` is `updated_at` |
| `phase`, `accepting` | the clock relative to `starts_at`, `ends_at` and `response_deadline`; an edit may set any new times, past ones included |
| `link` | `official_results_url`, `results_version` |
| `reply`, `present` | `event_responses` |
| `lock`, `req` | the row lock, and each request's progress |

| Run | Instance | Question | Distinct states |
|---|---|---|---|
| `pages` | a competition with its document, 2 members in or out of the audience, 1 seat or no limit, 2 requests, which may be answers, staff actions or edit, cancel and results pages, 2 versions | types; no seat beyond the capacity in force; every request acts at one instant (`ImplementsAttendance`); who is checked in is Going; a cancelled event is frozen; first answers are invited; saves replace what they showed | 1.16 M |
| `edits` | 2 members, 2 requests | the finding of section 9 | - |

Requests are interchangeable, and so are members of the same groups, so these runs use
symmetry on them. Two members and one seat are the smallest instance with a last seat to
fight over, and two requests every pair that can overlap; the proofs cover any number of
both. With a document the event stays a competition. Without one an edit may change its
kind while a results page is open, and `LinksOnCompetitions` says that no general event
gets a link that way; it is theorem `CompetitionLinks`, and was checked by TLC before it
was proved (an event without a document, 1 member, 2 requests, 2 versions of the event
and 2 of its link: 4.10 M states). Bounds: `MaxRev`, `MaxLinkRev`. Membership and
guardianship are constant while the event is open; a guardian's answer is an answer of
the member.

## 6. Guardian authority: `GuardianAuthority`

A guardian's relationship with each minor, the minor's own login, and the hand-over of
the account at eighteen. The PL/pgSQL routines take an advisory lock before they read
their rows and hold it to the commit, so each is one step; the reconciler and the
release commands take several, the reconciler that of the relationships first
(`schema.sql:9113`) and then that of the hand-overs (8569). What happens outside the
locks is modelled as steps of its own:

- the wrapper of the administrator's transition looks at the policy, and the inner
  routine reads its clock before it waits for the lock: `AdminTransition` keeps that
  moment in `at`, and the decision (`Approve`, `Renew`, ...) uses it;
- issuing the minor's login takes no advisory lock: `IssueBegins` is the snapshot that
  saw current authority, `IssueMinorCredential` the write, which rechecks only the
  `users` row. A credential may therefore be left on a relationship that has just
  ended; the login refuses it (`LookUp` asks for current authority again), preflight
  counts it and `Enable` waits until it is gone;
- a login compares the password between `LookUp` and `OpenSession`.

| State | Code |
|---|---|
| `rel` | `guardian_authority_relationships`; `until` is `verified_until` and `review_due_at`, set together |
| `asked`, `open` | renewal requests by the expiry they are about, and those still SUBMITTED |
| `account` | the minor's `users` row: dependent, has a password, address |
| `handoff`, `token` | `guardian_age_handoffs`, the unconsumed e-mail token |
| `policy`, `able`, `taken`, `now` | the policy with its gate and binding, the guardian's eligibility, addresses of other accounts, the clock |
| `req` | an open page with the row it showed, a decision under way, a login, a session; `fresh` says that the version it carries is still the row's |
| `proven`, `wary` | history, for the properties |

`Cutoffs` is `guardian_authority_reconcile_cutoffs`, which calls the reconciler of
hand-overs first: it is used by the worker's `Reconcile` and by `Disable`. Versions are
not counters but the bit `fresh` of everyone who carries one: `Touched` clears it,
which keeps the state finite without a bound on versions.

| Run | Instance | Question | Distinct states |
|---|---|---|---|
| `authority` | 1 minor, 2 administrators, 2 requests, a birthday out of reach, symmetry | types; renewals are for the present expiry; no authority while the policy is closed; decisions are about what was shown; conflicts bind; no decision reaches further than a period and the window; logins end with the credential | 379 k |
| `handover` | a birthday at moment 1, 1 administrator, 2 addresses, 1 request, fairness | the adult's address is proven and the identity confirmed; logins and sessions end with the credential; every cutoff comes unless the database refuses a completion | 259 k |
| `stuck` | as handover with 1 address, fairness | the finding of section 9 | - |

Bounds: a period of 2, a window of 1 and the moments 0..2 give the window, the expiry
and the moment after it a moment each. They end before a renewal could be decided when
the period it asks for is over too, so the second half of `AuthorityIsBounded` rests on
theorem `BoundedAuthority`; TLC checked it before on the moments 0..4, two whole periods
(1 administrator, 2 requests: 1.13 M states).
`handover` has one request, so a login overlaps the issuing of a credential or a decision
only in `authority`. Two administrators are one who reported a
conflict and one who did not. Two requests are a decision overlapping anything else,
and the reconciler, the release, the loss of eligibility and the clock need none. One
minor is enough for TLC because rows of different minors meet only in the uniqueness of
addresses, which `taken` stands for; the proofs cover any number.

Fairness: weak for `Reconcile`, because the worker's ticker fires each minute whatever
became of the last run (`guardianauthority/worker.go`). Nobody is assumed to decide,
open a link or come back.

Abstractions of time. Several routines read `clock_timestamp()` in their DECLARE, before
they wait for the lock (8240, 8370, 8631, 8659, 9111). The model keeps that earlier moment
for the decision, where a property depends on it, and reads the clock under the lock
elsewhere: there the earlier moment could only let through a form that was in time when it
came, or leave a cutoff to the next minute. The policy's gate also lapses by itself when
its review falls due (9051-9052); the model closes it by `Disable` only, so
`NoAuthorityWithoutPolicy` is about policies that were closed.

Left out: the guardian's invitation, notices and reminders (messages without an effect
on the state above), rate limits, the limit of ten dependants, read-only pages. Disable
and a transition take their locks in different orders; PostgreSQL aborts one, which is
`Abort`.

## 7. Training publication: `TrainingPublication`

A coach's page shows a week (a training plan of a group) and carries its `updated_at`
in the form. The handler assembles the prescriptions with four queries, each in a
snapshot of its own; the store publishes them in a SERIALIZABLE transaction that locks
the plan, compares `updated_at`, takes FOR SHARE locks on the memberships and inserts
each prescription under a condition evaluated in the transaction's snapshot. Changes
of the week move `updated_at` by a trigger, with one exception: the variations of a crew
apply up to a last day, which is the crew's own or the day of the competition it trains
for (`structured_training.sql:980`, 1010), and an edit of that event touches no plan
(`race`, `MoveCompetition`). All of these are steps:

| Code | Steps |
|---|---|
| page, form, four queries | `PreviewPlan`, `SubmitPlan`, `ReadWeek`, `ReadRecipients`, `BuildPublication` (matches, and the decision) |
| the transaction | `BeginPublication` (its snapshot, taken before it waits), `LockPlan`, `LockMembership` one by one, `Publish` or `RefusePublication`; `AbandonPublication` |
| changes of the week | `EditContent`, `UpdateSession` (another day or another week), `CancelSession`, `CreateVariation`, `RetireVariation`, `MoveCompetition` (an edit of the event), `NextDay` |
| the dated-participation transition | `BeginTransition` (SERIALIZABLE snapshot and guard), `WriteTransition`, `CommitClosing`, `AbortClosing` |
| the end on the member page | `EndMembership` (READ COMMITTED: the guard sees what is committed when it has the row), `CommitClosing` |

PostgreSQL is modelled by what the code relies on. A row lock is waited for. A
transition that does not see a publication which read its membership closes a
read/write cycle and is aborted (`Conflicts`: `outdated` records the publication). Of a
publication waiting for a membership and a closing waiting for the plan, one is aborted
(`BreakDeadlock`). Spurious serialization failures are the two `Abandon` actions.
`due` and `seen` (what the plan asked for, and where the competitions were, when the page
read its version), `used` (where they were when the matches were read) and `edited`
(sessions moved while a closing was under way) are history, for the properties.

| Run | Instance | Question | Distinct states |
|---|---|---|---|
| `week` | 2 plans, a session and a membership, 3 variations (one of an athlete, two of crews that tie until the competition of the one has passed), a competition that may be moved, 1 coach, 2 days, 2 changes, fairness | types; what is published is what the plan asked for in one instant; it is what the page's version stood for, and a plan shown as current lacks nothing, both but for variations of crews whose competition was moved; no published session is cut off by a closing; locks are released | 400 k |
| `pending` | 2 sessions, the competition announced for the first day | the finding of section 9 | - |

The exception is stated as narrowly as the code allows (`SameButForRaces`): session,
member, text and day of a prescription are never others than the version stood for, and
the variation may be another only if one of the two is of a crew whose last day was moved
in between. `PublicationsAreExact` has no such exception, because it is about the
competitions where the last query found them.

Bounds: `MaxClock` is the number of changes that move a version, `MaxRevisions` the
publications of a plan. `Room` keeps part of the clock for closings that have begun, so
that the bound never stops one half-way. Two changes are enough for a change between
any two reads and another after, and moving a competition needs none. The safety
properties were checked with two sessions too (1.49 M states).

Fairness (`FairSpec`): row waiters are served in turn (strong, for the steps of a
locked publication and of a written closing) and deadlocks are broken (weak). No one is
assumed to publish, to change anything, or to give up.

Abstractions: a session has one segment, the subject of its variations; a crew's members
and own dates are given, as no query changes them; every member has started and is in the
group; cancelled sessions stay in the recipients and are still prescribed, as the queries
have no filter on the status; a change from a stale edit form fails without effect and is
left out; one closing per membership at a time (its row is locked). Outcomes are not
modelled.

## 8. What is proved

The proofs hold for every value of the constants that satisfies the named assumptions of
the module (finite members for the seat count, finite variations where one of highest
priority is chosen, natural bounds, a distinct "none" value). No other assumption is made,
except in `AbsenceIsTrue`, which says its own.

**`MediaUpload_proofs`.** `Typing`; `PointersAgree` (`PointerMatchesIntent`) and
`JobsAgree` (`JobMatchesIntent`), which are inductive together with the types;
`ReferencedIsStored` (`ReferencedObjectStored`), which is not: it needs `StorageInv`,
saying that an upload whose PUT was confirmed or acknowledged is stored and that a busy
worker holds only condemned uploads, and the step lemma `CondemnedForGood`, saying that
condemned uploads stay so. With these, whatever a worker without a lease deletes, it is
not what a row points to.

**`MediaCustody_proofs`**, on top of it. `RepairsAreUnique` (`OneRepairPerKey`) is
inductive with the types: the unique index on the key is the whole reason.
`SavesReplaceWhatTheyRead` (`ReplacesWhatItRead`) needs `FormInv` for equipment: while a
row still has the version of a form, it still shows that form's photo. `AbsenceIsTrue`
(`AbsenceHolds`) has the hypothesis `LatePuts = FALSE`, because the property is false
without it: a PUT that lands after the second empty listing cannot be known. It needs
`SettledInv` (while a PUT is under way or about to be sent, the intent is PREPARED and
cleanup is not due, so no worker lists it yet) and `AbsenceInv` (whoever is going to
report absence works on a key that is empty now; with nothing on the way a key only loses
versions). `CustodyIsKept` (`Spec => ImplementsCustody`) is the step-by-step refinement;
it needs `NamedInv`, an intent is named before its bytes are sent, and holds with late
PUTs too. Through it the invariants of `ObjectCustody` come back as
`ShownPhotosAreStored`.

**`EmailTokens_proofs`.** `Typing`. `SessionsAgree` (`SessionsKnowThePassword`) from
`SessionInv`: a session's version is never ahead of the account's, and equal versions
mean equal passwords. `VerifiedIsProven` (`VerifiedAddressIsProven`) and
`LinksAreSingleUse` (`Spec => ImplementsSingleUse`, a step-by-step refinement) from
`LinkInv`: locks are exclusive; a request past `LockLink` holds the row of a link that
is LIVE; and a followed live verification link is for the account's present address.
The last part is the reason why consuming a link may skip rechecking the account it
waits for: an address change has to lock and void the very link the click holds.
Through the refinement the invariants of `SingleUseLinks` come back as `LinksWorkOnce`.

**`EmailDelivery_proofs`**, on top of it, about the mail of a link.
`ClosedLinksAreNotMailed` (`NoMailForAClosedLink`) and `OutcomesStand`
(`OutcomesAreFinal`) rest on `MailInv`: mail somebody has locked stays open, so no report
or sweep comes between the lock and the write; and a request that has locked the old mail
holds the advisory lock of its kind and all the mail of the links it is about to replace
that is still open, so what it leaves open behind a void link is nothing.
`HourlyLimitIsKept` (`HourlyLimitHolds`) rests on `RoomIsKept`: the room a request
counted is still there when it inserts, because another issue of that account would hold
the same advisory lock, and recent links otherwise only grow old. `CopiesArePaid`
(`CopiesArePaidFor`) rests on `BudgetInv`, two accounts kept per message: the copies
sent, the workers that may still send one, and one more if the message is loose (queued,
or claimed by nobody who is still at it) come to at most 1 and the faults so far; and so
do the attempts, the workers that may still retry, and the same one, to `MaxAttempts` and
the faults. A claim moves one unit from loose to worker, a report gives it up or back, and
only a fault adds one. The bound itself does not have this form and is not inductive.
`MailInv`, `RoomIsKept` and `BudgetInv` were checked by TLC on the instances of section 4,
and on one with three workers, three attempts and two faults, before they were proved.

**`ClubEvents_proofs`.** All properties of the passing runs. `Typing`. `LockDiscipline`
proves `LockInv`: exactly the requests that have decided hold the row lock, there is at
most one, and what the decision was taken from (status, audience, previous answer, free
seat) still stands. `SeatsGranted` adds a cardinality argument; `SeatsKept`,
`Invitations`, `CancelledFrozen` and `PresentGoing` follow from who writes what.
`FormsAreVersioned` proves `FormInv`: a version is never ahead of the present one and
identifies what it was read with, from which `NothingIsOverwritten`.
`CompetitionLinks` is inductive by itself: an edit that changes the kind looks at the link
of the row it has locked, and a link is saved only on a competition.
`AttendanceIsKept` (`Spec => ImplementsAttendance`) needs more than `LockInv`:
`DecisionInv` (`DecisionsStand`) says that what a request has decided is, at every moment
until it writes, exactly what it would decide then, a place on the waiting list included.
`SeatsAreKept` follows from the refinement as well, so no run checks it on its own.

**`GuardianAuthority_proofs`.** Every safety property. `Typing` and
`RenewalsMatchTheExpiry` come from `TypeInv`: the types, open renewals that are for the
present expiry and not beyond the window (`Anchored`), and decisions whose clock is not
ahead (`Clocked`); the sum of a decision's clock and a period stays a moment only with
them. `BoundedAuthority` adds that nothing but a decision extends.
`NothingInForceWithoutPolicy` and `SessionsEndWithTheCredential` are inductive with the
types. `AdultsProvedTheirEmail` needs `VerifiedIsProven`: a hand-over marked verified has
an address whose link was opened, whatever was proposed afterwards. `DecidedAsShown`
needs `FreshPages`: a page whose version is still current shows the present row.
`ConflictsBind` needs `Reported`: as long as somebody's report stands, no renewal is
open, and the relationship is over for good or suspended with that report on it.

**`TrainingPublication_proofs`.** Every safety property. `Typing` rests on `SpareKept`, a
cardinality argument that the bound on the clock leaves room for the closings under way.
What a plan asks for is written as a function of the tables (`Wanted`), the calendar of
the competitions among them, and the central lemma is `Narrowing`: while a plan's version
and the competitions do not move, sessions only leave the plan and days only pass, so it
asks for less, and for what is left exactly as before. Competitions do move under a
version that stands, so every comparison is made at a fixed calendar, the one the matches
were read with, and `MovedOnly` says what two calendars can tell apart: when the first
ties nothing, another variation comes to apply only by a crew whose last day is another in
the two (`SamePrescription` carries that over to the prescriptions). `StepEffect` shows
that every step either gives the plan a version of its own, which it cannot while a
publication holds the row, or only narrows, or moves a competition, which leaves what is
asked for at the fixed calendar alone. `Assembled` is the inductive invariant of a coach's
draft whose version still stands: the week, recipients and items read at different
instants each cover what the plan asks for now, and what it asked for in the transaction's
snapshot; `PlanInv` adds that a locked plan has the form's version and one holder. The
conditions on each insert then cut the items down to exactly the snapshot's
(`ExactPublications`); that they are what the page stood for is then true but for moved
competitions (`PublishedAsShown`). `CurrentIsComplete` has the same exception, and rests
on `CurrentInv`: at the calendar it was assembled with, a current revision lacks nothing
and ties nothing (`CurrentKept`). `ClosingInv` says that a closing either conflicts with a
publication it did not see or has seen all that is published of its membership; it is why
the transition must be SERIALIZABLE and why the member page need not be
(`NothingPublishedIsCutOff`).

**Only model-checked.** The liveness properties `LimboEnds`, `MailSettles`,
`CutoffsUnlessBlocked` and `LocksAreReleased`: liveness under fairness and ENABLED are
beyond the prover. Nothing else that a passing run checks lacks a theorem.

Every property checked by a passing run has a mutant, a plausible slip in one
definition (a dropped recheck, a missing lock, an off-by-one), under which TLC finds
the property violated. The mutants stand before the definitions they replace, marked
"Mutant", and are used by no specification.

## 9. Findings

**`edits`** (`internal/db/queries/events.sql:37-50`). The conditions of `UpdateEvent` on
answers are sub-selects, evaluated in the snapshot in which the statement began.
`Respond` and `Confirm` lock the event row but do not change it. When the UPDATE
waits for such a lock, PostgreSQL continues after the commit without evaluating the
condition again, because the row it waited for is unchanged. So an event without a limit
has one member Going; a second answer holds the row; an edit to one seat takes its
snapshot (count 1) and waits; the answer commits; the edit commits with two members
Going, though the handler says that a capacity cannot be below the number confirmed
(`handlers/events.go:245`). In the same way the audience is replaced after the first
answer (against `handlers/events.go:236`). Selecting the row FOR UPDATE first, as the
other operations do, would close both windows.

**`stuck`** (`internal/db/schema.sql:8612`). The worker is to materialize cutoffs even when
nobody opens the relationship (`guardianauthority/worker.go:26`). A hand-over in
RECOVERY_REQUIRED keeps the password of the young adult; a release or a disable clears
every dependent's credential; the recovery address is then proposed and verified, which
makes the hand-over READY; and the next reconciliation tries to make an adult of a row
without a password, which the check constraint `users_identity_shape` refuses. Only
`unique_violation` is caught, so the whole transaction is undone, at this tick and at
every later one, for all families. Completing only rows that have a password, or
catching the check violation for that row, would confine it.

**`pending`** (`internal/db/queries/structured_training.sql:980`). A plan whose latest
publication has its version is labelled "Publicado · sem alterações pendentes"
(`structured_training.go:2816`). The variations of a crew without a last day of its own
apply up to the day of its competition, and an edit of that event (`events.sql:37-50`)
moves no plan's version, because no trigger on `events` touches it (`schema.sql:432-453`).
So a plan is published, the competition is moved past one of its sessions, and the
variation that now applies is not in the revision that the page calls current. The counts
beside the label, made from the matches of now, then say that one prescription has
changed; but publishing it is refused by UNIQUE(plan_id, source_updated_at)
(`schema.sql:428`) with the advice to refresh the preview, which gives the same version.
For the same reason the version a coach confirms does not stand for the variations of such
crews: they may be others when the matches are read. A trigger on `events.starts_at` that
touches the plans of the crews tied to the event would close both.

Other disagreements met while modelling, which no run reports:

- A session moved to another plan touches only the plan it goes to (`schema.sql:436`
  reads NEW). The plan it left is still shown as "Publicado · sem alterações pendentes"
  (`structured_training.go:2816`) while its publication has a session too many, and
  publishing it again fails on UNIQUE(plan_id, source_updated_at) until something else
  touches the plan. The calendar passing the end of a membership does the same.
  `CurrentMissesNothing` states the half that does hold: such a plan lacks nothing that
  it asks for, except by the finding `pending`.
- The training page reads the content (`renderIndex`, `structured_training.go:98`) before
  the version its form carries (175), so the form may be newer than what was shown.
  `PreviewPlan` models the version and what the plan asked for when it was read.
- The guard that no session moves after its first outcome is a NOT EXISTS in the
  snapshot of a READ COMMITTED update; an outcome inserted meanwhile is not seen.
- `ReportOutcome` always passes an expected version of 0 (`training.go:459`), so an
  athlete's second report never changes anything.
- An outcome reported while a closing is under way can be recorded after the
  membership's end: the guard (`schema.sql:11122`) reads only committed outcomes, and
  `SaveTrainingSessionOutcome` locks no membership.

## 10. What is not modelled, and why

- Outcomes, Polar, equipment and repair states, feature flags, bootstrap: planned, in
  the order of section 2. Polar's activities, for one, are updated without comparing
  `provider_updated_at` (`queries/activities.sql:146`); a run would show the disorder,
  which the next synchronization repairs by fetching the page of recent activities again.
- Deployment: `pull-release.sh` is shell over docker, systemd and Caddy, whose behaviour
  the repository does not define; a model would be one of those programs.
- Seasons, cycles, templates and copies of structured training; sport assignments and
  corrections of dated participation; the invitation and the messages of guardians.
- The contents of the sealed locator, of messages and of passwords: conversions without
  state. A locator that does not open is an action of `MediaUpload`
  (`OpenEnvelopeFails`).
- Creating an equipment item with its first photo (the transaction is the same as a
  repair request's), the fence of the retired privacy-erasure automation in begin and
  finalize (nothing in the program calls it), and re-attaching what is already attached
  (a handler attaches once).
- Lock-order deadlocks between claiming workers of `MediaUpload`, where a transaction is
  one step.
- That a stale `Resend` cannot replace a good link with a useless one: only the
  one-minute throttle prevents it, a relation between clocks the model does not keep.
- `as_of` and `cancelled_at` are read before `UpdateEvent` and `CancelEvent` wait for
  the row; the model lets both commit after the event started, and claims nothing
  against it.
- Retention deletes answers 90 days after an event ended; nothing is done to them then.
- Dashboards, templates, validation, generated queries, configuration, CI and
  infrastructure: no state of their own.

## 11. Running

```
tlc -workers 2 -config MediaUpload_profile.cfg         MCMediaUpload.tla
tlc -workers 2 -config EmailTokens_reset.cfg           MCEmailTokens.tla
tlc -workers 2 -config GuardianAuthority_authority.cfg MCGuardianAuthority.tla
tlc -workers 2 -config TrainingPublication_week.cfg    MCTrainingPublication.tla
tlapm MediaUpload_proofs.tla
```

and so for the other configurations and `*_proofs` modules. Every run ends within four
minutes on two workers; the violation runs (`ClubEvents_edits`,
`GuardianAuthority_stuck`, `TrainingPublication_pending`) end with their counterexample.
