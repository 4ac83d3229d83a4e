---------------------------- MODULE MediaUpload ----------------------------
(***************************************************************************)
(* Private media: the upload intents of PostgreSQL, the versioned S3       *)
(* bucket, the request handlers that upload and attach a photo, and the    *)
(* media-cleanup workers that delete what is no longer wanted.             *)
(*                                                                         *)
(* One upload is one call of UploadCoordinator.Upload with a fresh intent  *)
(* id and a fresh object key, so an upload, its intent and its object key  *)
(* share one identity here.  A source is the row that points to the        *)
(* object: a member profile, an equipment item or a repair request.        *)
(*                                                                         *)
(* Every SQL routine of the intent takes the source's advisory lock before *)
(* it reads the latest event and keeps it to the end of the transaction,   *)
(* so a transaction is one step, except for what it read before the lock:  *)
(* the profile row (prior), the lease clock of a report (inTime) and the   *)
(* row version of an equipment form (fresh).  The answer to a committed    *)
(* transaction may still be lost: the handler then takes the error path.   *)
(*                                                                         *)
(* Clocks are abstracted to the moments at which a deadline passes:        *)
(* HoldLapses, CleanupFallsDue and LeaseLapses.                            *)
(***************************************************************************)
EXTENDS Naturals, FiniteSets

CONSTANTS
  Uploads,       \* upload intents
  Sources,       \* rows that can point to an object
  SourceOf,      \* [Uploads -> Sources]: source_kind and source_ref of an intent
  KindOf,        \* [Sources -> Kinds]
  Keys, KeyOf,   \* [Uploads -> Keys]: idempotency_key of a repair request
  Removals,      \* requests to remove a profile photo
  RemovedFrom,   \* [Removals -> Sources]
  Workers,       \* media-cleanup processes
  NoUpload,      \* the NULL pointer
  MaxPuts,       \* PUT requests one PutObject call may send (SDK retries)
  MaxAttempts,   \* MEDIA_CLEANUP_MAX_ATTEMPTS
  MaxEpoch,      \* bound: leases of one job, lost ones included
  LatePuts       \* TRUE: a PUT may land after its caller gave up on it

Kinds == {"PROFILE", "EQUIPMENT", "REPAIR"}

ASSUME ConstantsAssumption ==
  /\ SourceOf \in [Uploads -> Sources]
  /\ KindOf \in [Sources -> Kinds]
  /\ KeyOf \in [Uploads -> Keys]
  /\ RemovedFrom \in [Removals -> Sources]
  /\ NoUpload \notin Uploads
  /\ MaxPuts \in Nat \ {0}
  /\ MaxAttempts \in Nat \ {0}
  /\ MaxEpoch \in Nat /\ MaxAttempts <= MaxEpoch
  /\ LatePuts \in BOOLEAN

\* CreateRepairRequest inserts the row whose id the handler just drew, so a
\* repair request is the source of one upload only.
ASSUME RepairSourceAssumption ==
  \A i, j \in Uploads :
     KindOf[SourceOf[i]] = "REPAIR" /\ SourceOf[i] = SourceOf[j] => i = j

VARIABLES
  status,    \* latest event of the intent
  hold,      \* the hold row that protects a running upload
  due,       \* cleanup_after has passed
  pc,        \* where the upload's request handler is
  prior,     \* the pointer as SavePhoto read it, or as the equipment form had it
  fresh,     \* the equipment row still has the updated_at of the form
  pointer,   \* *_upload_intent_id of each source row
  rpc,       \* where a removal request is
  rprior,    \* the profile's pointer as RemovePhoto read it
  sent,      \* PUT requests sent for the object key
  inflight,  \* PUT requests still on their way
  bucket,    \* object versions stored under the key
  job,       \* object_upload_cleanup_jobs.status
  epoch,     \* lease_epoch, equal to attempt_count: only a claim moves them
  leased,    \* the attempt of the current epoch has not expired
  worker     \* local state of each cleanup worker

uploadVars  == <<status, hold, due, pc, prior, fresh>>
sourceVars  == <<pointer, rpc, rprior>>
storageVars == <<sent, inflight, bucket>>
jobVars     == <<job, epoch, leased>>
vars == <<uploadVars, sourceVars, storageVars, jobVars, worker>>

Statuses == {"NONE", "RESERVED", "PREPARED", "PUT_CONFIRMED", "ATTACHED",
             "CLEANUP_REQUIRED", "ABSENCE_VERIFIED"}
Holds    == {"NONE", "HELD", "LAPSED", "RELEASED"}
JobStates == {"NONE", "PENDING", "LEASED", "RETRY_WAIT", "SUCCEEDED",
              "TERMINAL_FAILED"}
HandlerSteps == {"idle", "reserved", "prepared", "putting", "stored",
                 "confirmed", "saving", "marking", "failing",
                 "done", "failed", "dead"}
Finished == {"idle", "done", "failed", "dead"}
Versions == 1..MaxPuts
Verdicts == {"NONE", "ABSENT", "RETRYABLE", "TERMINAL"}

\* The local variables of RunOnce and DeleteAllVersions.  known is
\* initialVersions (empty: not listed yet), listed the versions of the pass,
\* inTime whether the attempt had not expired when the report's v_now was read.
BusyWorkers ==
  [pc : {"listing", "deleting", "reporting", "committing"},
   job : Uploads, epoch : Nat, known : SUBSET Versions,
   listed : SUBSET Versions, empties : 0..1, verdict : Verdicts,
   inTime : BOOLEAN]

IdleWorker == [pc |-> "idle", job |-> NoUpload, epoch |-> 0, known |-> {},
               listed |-> {}, empties |-> 0, verdict |-> "NONE",
               inTime |-> FALSE]

TypeOK ==
  /\ status \in [Uploads -> Statuses]
  /\ hold \in [Uploads -> Holds]
  /\ due \in [Uploads -> BOOLEAN]
  /\ pc \in [Uploads -> HandlerSteps]
  /\ prior \in [Uploads -> Uploads \cup {NoUpload}]
  /\ fresh \in [Uploads -> BOOLEAN]
  /\ pointer \in [Sources -> Uploads \cup {NoUpload}]
  /\ rpc \in [Removals -> {"idle", "saving", "done", "failed"}]
  /\ rprior \in [Removals -> Uploads \cup {NoUpload}]
  /\ sent \in [Uploads -> 0..MaxPuts]
  /\ inflight \in [Uploads -> SUBSET Versions]
  /\ bucket \in [Uploads -> SUBSET Versions]
  /\ job \in [Uploads -> JobStates]
  /\ epoch \in [Uploads -> Nat]
  /\ leased \in [Uploads -> BOOLEAN]
  /\ worker \in [Workers -> BusyWorkers \cup {IdleWorker}]

Init ==
  /\ status = [i \in Uploads |-> "NONE"]
  /\ hold = [i \in Uploads |-> "NONE"]
  /\ due = [i \in Uploads |-> FALSE]
  /\ pc = [i \in Uploads |-> "idle"]
  /\ prior = [i \in Uploads |-> NoUpload]
  /\ fresh = [i \in Uploads |-> FALSE]
  /\ pointer = [s \in Sources |-> NoUpload]
  /\ rpc = [r \in Removals |-> "idle"]
  /\ rprior = [r \in Removals |-> NoUpload]
  /\ sent = [i \in Uploads |-> 0]
  /\ inflight = [i \in Uploads |-> {}]
  /\ bucket = [i \in Uploads |-> {}]
  /\ job = [i \in Uploads |-> "NONE"]
  /\ epoch = [i \in Uploads |-> 0]
  /\ leased = [i \in Uploads |-> FALSE]
  /\ worker = [w \in Workers |-> IdleWorker]

Kind(i) == KindOf[SourceOf[i]]
Goto(i, step) == pc' = [pc EXCEPT ![i] = step]
Becomes(w, state) == worker' = [worker EXCEPT ![w] = state]

\* public.privacy_upload_pointer_references
Referenced(i) == pointer[SourceOf[i]] = i

-----------------------------------------------------------------------------
(***************************************************************************)
(* UploadCoordinator.Upload                                                *)
(***************************************************************************)

\* Mutant: neither the look-up nor the unique index on the key.
KeyNeverTaken(i) == TRUE

\* repair_requests.idempotency_key is unique, and looked up before uploading.
KeyFree(i) ==
  \A j \in Uploads : /\ Kind(j) = "REPAIR"
                     /\ KeyOf[j] = KeyOf[i]
                     => pointer[SourceOf[j]] = NoUpload

\* Store.Begin -> privacy_upload_begin: reservation and hold.  An equipment
\* form is accepted only while its row has the expected updated_at.
Begin(i) ==
  /\ pc[i] = "idle"
  /\ status[i] = "NONE"
  /\ Kind(i) = "REPAIR" => KeyFree(i)
  /\ Goto(i, "reserved")
  /\ status' = [status EXCEPT ![i] = "RESERVED"]
  /\ hold' = [hold EXCEPT ![i] = "HELD"]
  /\ IF Kind(i) = "EQUIPMENT"
     THEN /\ prior' = [prior EXCEPT ![i] = pointer[SourceOf[i]]]
          /\ fresh' = [fresh EXCEPT ![i] = TRUE]
     ELSE UNCHANGED <<prior, fresh>>
  /\ UNCHANGED <<due, sourceVars, storageVars, jobVars, worker>>

\* Store.Finalize -> privacy_upload_finalize: the sealed locator is recorded
\* before any byte is sent.  The answer may be lost.
Finalize(i) ==
  /\ pc[i] = "reserved"
  /\ status[i] = "RESERVED"
  /\ hold[i] = "HELD"
  /\ status' = [status EXCEPT ![i] = "PREPARED"]
  /\ \E step \in {"prepared", "failed"} : Goto(i, step)
  /\ UNCHANGED <<hold, due, prior, fresh, sourceVars, storageVars, jobVars, worker>>

\* Sealing or Finalize fails: nothing was sent, nothing is marked.
FinalizeFails(i) ==
  /\ pc[i] = "reserved"
  /\ Goto(i, "failed")
  /\ UNCHANGED <<status, hold, due, prior, fresh, sourceVars, storageVars, jobVars, worker>>

\* Objects.PutObject sends a request, or the SDK sends it again.
PutSend(i) ==
  /\ pc[i] \in {"prepared", "putting"}
  /\ sent[i] < MaxPuts
  /\ Goto(i, "putting")
  /\ sent' = [sent EXCEPT ![i] = @ + 1]
  /\ inflight' = [inflight EXCEPT ![i] = @ \cup {sent[i] + 1}]
  /\ UNCHANGED <<status, hold, due, prior, fresh, bucket, sourceVars, jobVars, worker>>

\* The bucket stores a request as a new version of the key ...
PutLands(i) ==
  \E v \in inflight[i] :
    /\ bucket' = [bucket EXCEPT ![i] = @ \cup {v}]
    /\ inflight' = [inflight EXCEPT ![i] = @ \ {v}]
    /\ UNCHANGED <<sent, uploadVars, sourceVars, jobVars, worker>>

\* ... or never sees it.
PutIsLost(i) ==
  \E v \in inflight[i] :
    /\ inflight' = [inflight EXCEPT ![i] = @ \ {v}]
    /\ UNCHANGED <<sent, bucket, uploadVars, sourceVars, jobVars, worker>>

\* LatePuts = FALSE assumes that a request has landed or is lost before its
\* caller has an answer, and within the 24 hours of cleanup_after.
PutsSettled(i) == LatePuts \/ inflight[i] = {}

PutAcknowledged(i) ==
  /\ pc[i] = "putting"
  /\ bucket[i] # {}
  /\ PutsSettled(i)
  /\ Goto(i, "stored")
  /\ UNCHANGED <<status, hold, due, prior, fresh, sourceVars, storageVars, jobVars, worker>>

\* Mutant: the error of PutObject is dropped.
PutFailsUnnoticed(i) ==
  /\ pc[i] = "putting"
  /\ PutsSettled(i)
  /\ Goto(i, "stored")
  /\ UNCHANGED <<status, hold, due, prior, fresh, sourceVars, storageVars, jobVars, worker>>

\* An error of PutObject says nothing about whether the object is stored.
PutFails(i) ==
  /\ pc[i] = "putting"
  /\ PutsSettled(i)
  /\ Goto(i, "marking")
  /\ UNCHANGED <<status, hold, due, prior, fresh, sourceVars, storageVars, jobVars, worker>>

\* Store.ConfirmPut -> privacy_upload_confirm_put, which renews the hold.
ConfirmPut(i) ==
  /\ pc[i] = "stored"
  /\ hold[i] = "HELD"
  /\ status[i] = "PREPARED"
  /\ status' = [status EXCEPT ![i] = "PUT_CONFIRMED"]
  /\ \E step \in {"confirmed", "marking"} : Goto(i, step)
  /\ UNCHANGED <<hold, due, prior, fresh, sourceVars, storageVars, jobVars, worker>>

ConfirmPutFails(i) ==
  /\ pc[i] = "stored"
  /\ Goto(i, "marking")
  /\ UNCHANGED <<status, hold, due, prior, fresh, sourceVars, storageVars, jobVars, worker>>

\* Mutant: a new job gets the status of its intent.
EnqueueAsIntent(jobs, i) == [jobs EXCEPT ![i] = "CLEANUP_REQUIRED"]

\* INSERT INTO object_upload_cleanup_jobs ... ON CONFLICT DO NOTHING
Enqueue(jobs, i) == [jobs EXCEPT ![i] = IF @ = "NONE" THEN "PENDING" ELSE @]

\* Mutant: no unique index keeps a second CLEANUP_REQUIRED event out.
MarkableAgain(i) == {"PREPARED", "PUT_CONFIRMED", "ABSENCE_VERIFIED"}

\* The statuses from which privacy_upload_mark_cleanup accepts the reason the
\* handler gives: PUT_AMBIGUOUS from Upload, ATTACH_FAILED from
\* AttachmentFailed.  From ABSENCE_VERIFIED the unique index on
\* CLEANUP_REQUIRED events rejects the insert.
Markable(i) == IF pc[i] = "marking" THEN {"PREPARED", "PUT_CONFIRMED"}
                                    ELSE {"PUT_CONFIRMED"}

MarkCleanup(i) ==
  /\ pc[i] \in {"marking", "failing"}
  /\ status[i] \in Markable(i)
  /\ status' = [status EXCEPT ![i] = "CLEANUP_REQUIRED"]
  /\ hold' = [hold EXCEPT ![i] = "RELEASED"]
  /\ job' = Enqueue(job, i)
  /\ Goto(i, "failed")
  /\ UNCHANGED <<due, prior, fresh, epoch, leased, sourceVars, storageVars, worker>>

\* The mark finds CLEANUP_REQUIRED already, is rejected, or never reaches the
\* database: its error is discarded.
MarkIgnored(i) ==
  /\ pc[i] \in {"marking", "failing"}
  /\ Goto(i, "failed")
  /\ UNCHANGED <<status, hold, due, prior, fresh, sourceVars, storageVars, jobVars, worker>>

\* The request's process is killed, at any point.
HandlerDies(i) ==
  /\ pc[i] \notin Finished
  /\ Goto(i, "dead")
  /\ UNCHANGED <<status, hold, due, prior, fresh, sourceVars, storageVars, jobVars, worker>>

-----------------------------------------------------------------------------
(***************************************************************************)
(* Attaching and removing: the transactions that move a pointer            *)
(***************************************************************************)

\* PostgresProfileStore.SavePhoto reads the profile without locking it.
ReadProfile(i) ==
  /\ pc[i] = "confirmed"
  /\ Kind(i) = "PROFILE"
  /\ prior' = [prior EXCEPT ![i] = pointer[SourceOf[i]]]
  /\ Goto(i, "saving")
  /\ UNCHANGED <<status, hold, due, fresh, sourceVars, storageVars, jobVars, worker>>

\* Whether the statement that attaches finds its row, and which intent it
\* names as the one it replaces.  UpdateEquipmentWithAudit reads it from the
\* row it locked; CreateRepairRequest and a first photo replace nothing.
RowAccepts(i) ==
  CASE Kind(i) = "PROFILE"   -> pc[i] = "saving"
    [] Kind(i) = "EQUIPMENT" -> pc[i] = "confirmed" /\ fresh[i]
    [] Kind(i) = "REPAIR"    -> pc[i] = "confirmed" /\ KeyFree(i)

PriorOf(i) ==
  CASE Kind(i) = "PROFILE"   -> prior[i]
    [] Kind(i) = "EQUIPMENT" -> pointer[SourceOf[i]]
    [] Kind(i) = "REPAIR"    -> NoUpload

\* Mutant: no deferred trigger.
PointerMayAlwaysLeave(old, newStatus) == TRUE

\* The deferred triggers privacy_upload_*_pointer_deferred, at commit: a
\* pointer that leaves an intent must leave it to cleanup.
PointerMayLeave(old, newStatus) ==
  old # NoUpload => newStatus[old] \in {"CLEANUP_REQUIRED", "ABSENCE_VERIFIED"}

\* Every other form of the same row is now out of date.
TouchRow(s) == fresh' = [j \in Uploads |-> fresh[j] /\ SourceOf[j] # s]

\* privacy_upload_attach, the pointer update and the commit.
Attach(i) ==
  LET s == SourceOf[i]
      p == PriorOf(i)
      replaced == p # NoUpload
      newStatus == [j \in Uploads |-> IF j = i THEN "ATTACHED"
                                      ELSE IF j = p THEN "CLEANUP_REQUIRED"
                                      ELSE status[j]]
  IN /\ RowAccepts(i)
     /\ status[i] = "PUT_CONFIRMED"
     /\ hold[i] = "HELD" /\ ~due[i]
     /\ replaced => SourceOf[p] = s /\ status[p] = "ATTACHED"
     /\ PointerMayLeave(pointer[s], newStatus)
     /\ status' = newStatus
     /\ hold' = [hold EXCEPT ![i] = "RELEASED"]
     /\ job' = IF replaced THEN Enqueue(job, p) ELSE job
     /\ pointer' = [pointer EXCEPT ![s] = i]
     /\ TouchRow(s)
     /\ \E step \in {"done", "failing"} : Goto(i, step)
     /\ UNCHANGED <<due, prior, rpc, rprior, epoch, leased, storageVars, worker>>

\* The transaction is rolled back, for any of the reasons above or because
\* the connection, a consent check or a unique index failed it.
AttachFails(i) ==
  /\ pc[i] = IF Kind(i) = "PROFILE" THEN "saving" ELSE "confirmed"
  /\ Goto(i, "failing")
  /\ UNCHANGED <<status, hold, due, prior, fresh, sourceVars, storageVars, jobVars, worker>>

\* UpdateEquipmentWithAudit without a photo, or a retirement: updated_at moves.
EditEquipment(s) ==
  /\ KindOf[s] = "EQUIPMENT"
  /\ \E i \in Uploads : SourceOf[i] = s /\ fresh[i]
  /\ TouchRow(s)
  /\ UNCHANGED <<status, hold, due, pc, prior, sourceVars, storageVars, jobVars, worker>>

\* PostgresProfileStore.RemovePhoto reads the profile without locking it.
ReadForRemoval(r) ==
  /\ rpc[r] = "idle"
  /\ KindOf[RemovedFrom[r]] = "PROFILE"
  /\ pointer[RemovedFrom[r]] # NoUpload
  /\ rprior' = [rprior EXCEPT ![r] = pointer[RemovedFrom[r]]]
  /\ rpc' = [rpc EXCEPT ![r] = "saving"]
  /\ UNCHANGED <<pointer, uploadVars, storageVars, jobVars, worker>>

\* privacy_upload_remove, ClearMemberProfilePhoto and the commit.
Remove(r) ==
  LET s == RemovedFrom[r]
      p == rprior[r]
      newStatus == [status EXCEPT ![p] = "CLEANUP_REQUIRED"]
  IN /\ rpc[r] = "saving"
     /\ SourceOf[p] = s
     /\ status[p] \in {"ATTACHED", "CLEANUP_REQUIRED"}
     /\ pointer[s] # NoUpload
     /\ PointerMayLeave(pointer[s], newStatus)
     /\ status' = newStatus
     /\ job' = IF status[p] = "ATTACHED" THEN Enqueue(job, p) ELSE job
     /\ pointer' = [pointer EXCEPT ![s] = NoUpload]
     /\ TouchRow(s)
     /\ rpc' = [rpc EXCEPT ![r] = "done"]
     /\ UNCHANGED <<hold, due, pc, prior, rprior, epoch, leased, storageVars, worker>>

RemoveFails(r) ==
  /\ rpc[r] = "saving"
  /\ rpc' = [rpc EXCEPT ![r] = "failed"]
  /\ UNCHANGED <<pointer, rprior, uploadVars, storageVars, jobVars, worker>>

-----------------------------------------------------------------------------
(***************************************************************************)
(* Deadlines                                                               *)
(***************************************************************************)

\* held_until: fifteen minutes after Begin, or after ConfirmPut.
HoldLapses(i) ==
  /\ hold[i] = "HELD"
  /\ hold' = [hold EXCEPT ![i] = "LAPSED"]
  /\ UNCHANGED <<status, due, pc, prior, fresh, sourceVars, storageVars, jobVars, worker>>

\* cleanup_after: 24 hours after Begin, when no hold can still be running.
CleanupFallsDue(i) ==
  /\ hold[i] \in {"LAPSED", "RELEASED"}
  /\ ~due[i]
  /\ PutsSettled(i)
  /\ LatePuts \/ pc[i] \notin {"prepared", "putting"}
  /\ due' = [due EXCEPT ![i] = TRUE]
  /\ UNCHANGED <<status, hold, pc, prior, fresh, sourceVars, storageVars, jobVars, worker>>

\* expires_at of the current attempt.
LeaseLapses(i) ==
  /\ leased[i]
  /\ epoch[i] < MaxEpoch
  /\ leased' = [leased EXCEPT ![i] = FALSE]
  /\ UNCHANGED <<job, epoch, uploadVars, sourceVars, storageVars, worker>>

-----------------------------------------------------------------------------
(***************************************************************************)
(* UploadCleanupWorker.RunOnce                                             *)
(***************************************************************************)

\* Mutant: a confirmed upload never becomes stale.
StaleBeforePut == {i \in Uploads : /\ status[i] = "PREPARED"
                                   /\ due[i]
                                   /\ hold[i] # "HELD"}

\* First half of privacy_upload_cleanup_claim: uploads nobody finished.
Stale == {i \in Uploads : /\ status[i] \in {"PREPARED", "PUT_CONFIRMED"}
                          /\ due[i]
                          /\ hold[i] # "HELD"}

\* Second half: jobs that are due, or whose worker lost its lease.
Claimable(jobs) ==
  {i \in Uploads : /\ \/ jobs[i] \in {"PENDING", "RETRY_WAIT"}
                      \/ jobs[i] = "LEASED" /\ ~leased[i]
                   /\ ~Referenced(i)}

Lease(w, jobs, i) ==
  /\ job' = [jobs EXCEPT ![i] = "LEASED"]
  /\ epoch' = [epoch EXCEPT ![i] = @ + 1]
  /\ leased' = [leased EXCEPT ![i] = TRUE]
  /\ Becomes(w, [pc |-> "listing", job |-> i, epoch |-> epoch[i] + 1,
                 known |-> {}, listed |-> {}, empties |-> 0,
                 verdict |-> "NONE", inTime |-> FALSE])

\* Claim with nothing stale.
ClaimJob(w) ==
  /\ worker[w].pc = "idle"
  /\ Stale = {}
  /\ \E i \in Claimable(job) : epoch[i] < MaxEpoch /\ Lease(w, job, i)
  /\ UNCHANGED <<uploadVars, sourceVars, storageVars>>

\* Claim that first retires one stale upload; its job is claimable at once.
ClaimStale(w) ==
  /\ worker[w].pc = "idle"
  /\ \E i \in Stale :
       LET jobs == Enqueue(job, i) IN
       /\ status' = [status EXCEPT ![i] = "CLEANUP_REQUIRED"]
       /\ hold' = [hold EXCEPT ![i] = "RELEASED"]
       /\ \E j \in Claimable(jobs) : epoch[j] < MaxEpoch /\ Lease(w, jobs, j)
  /\ UNCHANGED <<due, pc, prior, fresh, sourceVars, storageVars>>

Conclude(w, verdict) ==
  Becomes(w, [worker[w] EXCEPT !.pc = "reporting", !.listed = {},
                               !.verdict = verdict])

\* Mutant: a storage error counts as absence.
FailureAsAbsence(w) == "ABSENT"

\* retryable := claim.AttemptCount < maxAttempts
Failure(w) == IF worker[w].epoch < MaxAttempts THEN "RETRYABLE" ELSE "TERMINAL"

\* OpenUploadIntentEnvelope fails: the key never becomes readable.
OpenEnvelopeFails(w) ==
  /\ worker[w].pc = "listing" /\ worker[w].known = {} /\ worker[w].empties = 0
  /\ Conclude(w, "TERMINAL")
  /\ UNCHANGED <<uploadVars, sourceVars, storageVars, jobVars>>

\* One pass of DeleteAllVersions: an empty listing is the second in a row,
\* or the first; a version seen after an empty listing, or one the first
\* listing did not have, is drift; anything else is deleted next.
ListVersions(w) ==
  LET found == bucket[worker[w].job]
      known == worker[w].known
  IN /\ worker[w].pc = "listing"
     /\ \/ /\ found = {} /\ worker[w].empties = 1
           /\ Conclude(w, "ABSENT")
        \/ /\ found = {} /\ worker[w].empties = 0
           /\ Becomes(w, [worker[w] EXCEPT !.empties = 1])
        \/ /\ found # {}
           /\ worker[w].empties = 1 \/ ~(known = {} \/ found \subseteq known)
           /\ Conclude(w, Failure(w))
        \/ /\ found # {} /\ worker[w].empties = 0
           /\ known = {} \/ found \subseteq known
           /\ Becomes(w, [worker[w] EXCEPT !.pc = "deleting", !.listed = found,
                              !.known = IF known = {} THEN found ELSE known])
     /\ UNCHANGED <<uploadVars, sourceVars, storageVars, jobVars>>

\* deleteExact removes the listed versions, and only those.
DeleteVersions(w) ==
  /\ worker[w].pc = "deleting"
  /\ bucket' = [bucket EXCEPT ![worker[w].job] = @ \ worker[w].listed]
  /\ Becomes(w, [worker[w] EXCEPT !.pc = "listing", !.listed = {}])
  /\ UNCHANGED <<sent, inflight, uploadVars, sourceVars, jobVars>>

\* A listing or a deletion fails; some of the versions may be gone.
StorageFails(w) ==
  /\ worker[w].pc \in {"listing", "deleting"}
  /\ \E gone \in SUBSET worker[w].listed :
       bucket' = [bucket EXCEPT ![worker[w].job] = @ \ gone]
  /\ Conclude(w, Failure(w))
  /\ UNCHANGED <<sent, inflight, uploadVars, sourceVars, jobVars>>

\* Complete and Fail read v_now when they start, before they wait for locks.
ReportStarts(w) ==
  /\ worker[w].pc = "reporting"
  /\ LET i == worker[w].job IN
     Becomes(w, [worker[w] EXCEPT !.pc = "committing",
                    !.inTime = leased[i] /\ epoch[i] = worker[w].epoch])
  /\ UNCHANGED <<uploadVars, sourceVars, storageVars, jobVars>>

\* Mutant: the report is not fenced by the lease epoch.
HoldsLeaseUnfenced(w) == worker[w].inTime

\* The fence of privacy_upload_cleanup_complete and _fail.
HoldsLease(w) ==
  LET i == worker[w].job IN
  /\ worker[w].inTime
  /\ job[i] = "LEASED"
  /\ epoch[i] = worker[w].epoch

\* privacy_upload_cleanup_complete
Complete(w) ==
  LET i == worker[w].job IN
  /\ worker[w].pc = "committing"
  /\ worker[w].verdict = "ABSENT"
  /\ HoldsLease(w)
  /\ status[i] = "CLEANUP_REQUIRED"
  /\ status' = [status EXCEPT ![i] = "ABSENCE_VERIFIED"]
  /\ job' = [job EXCEPT ![i] = "SUCCEEDED"]
  /\ leased' = [leased EXCEPT ![i] = FALSE]
  /\ Becomes(w, IdleWorker)
  /\ UNCHANGED <<hold, due, pc, prior, fresh, epoch, sourceVars, storageVars>>

\* privacy_upload_cleanup_fail
Fail(w) ==
  LET i == worker[w].job IN
  /\ worker[w].pc = "committing"
  /\ worker[w].verdict # "ABSENT"
  /\ HoldsLease(w)
  /\ job' = [job EXCEPT ![i] = IF worker[w].verdict = "RETRYABLE"
                               THEN "RETRY_WAIT" ELSE "TERMINAL_FAILED"]
  /\ leased' = [leased EXCEPT ![i] = FALSE]
  /\ Becomes(w, IdleWorker)
  /\ UNCHANGED <<epoch, uploadVars, sourceVars, storageVars>>

\* The report is rejected: another worker has the job, or the lease is over.
ReportRejected(w) ==
  /\ worker[w].pc = "committing"
  /\ ~HoldsLease(w)
  /\ Becomes(w, IdleWorker)
  /\ UNCHANGED <<uploadVars, sourceVars, storageVars, jobVars>>

\* The process dies, or its report never reaches the database.
WorkerDies(w) ==
  /\ worker[w].pc # "idle"
  /\ epoch[worker[w].job] < MaxEpoch
  /\ Becomes(w, IdleWorker)
  /\ UNCHANGED <<uploadVars, sourceVars, storageVars, jobVars>>

-----------------------------------------------------------------------------
UploadStep(i) ==
  \/ Begin(i) \/ Finalize(i) \/ FinalizeFails(i)
  \/ PutSend(i) \/ PutAcknowledged(i) \/ PutFails(i)
  \/ ConfirmPut(i) \/ ConfirmPutFails(i)
  \/ ReadProfile(i) \/ Attach(i) \/ AttachFails(i)
  \/ MarkCleanup(i) \/ MarkIgnored(i) \/ HandlerDies(i)

RemovalStep(r) == ReadForRemoval(r) \/ Remove(r) \/ RemoveFails(r)

Network(i) == PutLands(i) \/ PutIsLost(i)

Deadlines(i) == HoldLapses(i) \/ CleanupFallsDue(i) \/ LeaseLapses(i)

\* What a running worker does when nothing kills it.
WorkerRuns(w) ==
  \/ ClaimJob(w) \/ ClaimStale(w)
  \/ OpenEnvelopeFails(w) \/ ListVersions(w) \/ DeleteVersions(w) \/ StorageFails(w)
  \/ ReportStarts(w) \/ Complete(w) \/ Fail(w) \/ ReportRejected(w)

Next ==
  \/ \E i \in Uploads : UploadStep(i) \/ Network(i) \/ Deadlines(i)
  \/ \E s \in Sources : EditEquipment(s)
  \/ \E r \in Removals : RemovalStep(r)
  \/ \E w \in Workers : WorkerRuns(w) \/ WorkerDies(w)

Spec == Init /\ [][Next]_vars

\* Time passes, requests leave the network, a handler that began goes on until
\* it ends or is killed, and cmd/media-cleanup polls in an endless loop.
Fairness ==
  /\ \A i \in Uploads : /\ WF_vars(Network(i)) /\ WF_vars(Deadlines(i))
                        /\ WF_vars(pc[i] # "idle" /\ UploadStep(i))
  /\ \A w \in Workers : WF_vars(WorkerRuns(w))

FairSpec == Spec /\ Fairness

-----------------------------------------------------------------------------
(***************************************************************************)
(* Properties                                                              *)
(***************************************************************************)

\* A row and the intent it names never disagree, whatever two savers and a
\* remover read before they took the source lock: a pointer names an ATTACHED
\* intent of its own row, and every ATTACHED intent is the one its row names.
PointerMatchesIntent ==
  /\ \A s \in Sources : pointer[s] # NoUpload =>
        SourceOf[pointer[s]] = s /\ status[pointer[s]] = "ATTACHED"
  /\ \A i \in Uploads : status[i] = "ATTACHED" => Referenced(i)

\* A photo a row points to is in the bucket: no worker, not even one whose
\* lease was taken over in the middle of its deletions, and no handler that
\* mistakes a lost answer for a rollback, takes it away.
ReferencedObjectStored == \A i \in Uploads : Referenced(i) => bucket[i] # {}

\* A save replaces exactly the photo its transaction, or its form, had read:
\* of two savers that read the same row, the second does not discard the photo
\* of the first.
ReplacesWhatItRead ==
  [][\A i \in Uploads :
       LET s == SourceOf[i] IN
       pointer[s] # i /\ pointer'[s] = i => pointer[s] = prior[i]]_vars

\* Two submissions of one repair form leave one repair request.
OneRepairPerKey ==
  \A i, j \in Uploads :
     /\ Kind(i) = "REPAIR" /\ Kind(j) = "REPAIR" /\ KeyOf[i] = KeyOf[j]
     /\ Referenced(i) /\ Referenced(j)
     => i = j

\* Recorded evidence of absence is true, and stays true.  It rests on the two
\* consecutive empty listings and on LatePuts = FALSE.
AbsenceHolds ==
  \A i \in Uploads : status[i] = "ABSENCE_VERIFIED" => bucket[i] = {}

\* Every condemned upload has a job, and the job is done exactly when the
\* absence is on record: no worker that lost its lease reopens or closes it.
JobMatchesIntent ==
  \A i \in Uploads :
    /\ (job[i] # "NONE") = (status[i] \in {"CLEANUP_REQUIRED", "ABSENCE_VERIFIED"})
    /\ (job[i] = "SUCCEEDED") = (status[i] = "ABSENCE_VERIFIED")

\* An upload nobody finished, or nobody wants, does not stay: it is attached,
\* its absence is verified, or an operator is left with a terminal failure.
LimboEnds ==
  \A i \in Uploads :
    status[i] \in {"PREPARED", "PUT_CONFIRMED", "CLEANUP_REQUIRED"}
      ~> \/ status[i] \in {"ATTACHED", "ABSENCE_VERIFIED"}
         \/ job[i] = "TERMINAL_FAILED"

\* The promise of ObjectCustody, which says nothing of leases and races.
custody ==
  [i \in Uploads |->
     CASE status[i] \in {"NONE", "RESERVED"}          -> "NEW"
       [] status[i] \in {"PREPARED", "PUT_CONFIRMED"} -> "STAGED"
       [] status[i] = "ATTACHED"                      -> "LIVE"
       [] status[i] = "CLEANUP_REQUIRED"              -> "CONDEMNED"
       [] status[i] = "ABSENCE_VERIFIED"              -> "GONE"]

Custody == INSTANCE ObjectCustody
             WITH Objects <- Uploads, Owners <- Sources, OwnerOf <- SourceOf,
                  custody <- custody, stored <- {i \in Uploads : bucket[i] # {}}

\* Every step of uploads, removals and workers is a step of ObjectCustody.
ImplementsCustody == Custody!Spec
=============================================================================
