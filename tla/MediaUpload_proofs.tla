------------------------ MODULE MediaUpload_proofs ------------------------
(***************************************************************************)
(* Theorems of MediaUpload, for any number of uploads, rows, removal       *)
(* requests and cleanup workers, and any bounds.                           *)
(***************************************************************************)
EXTENDS MediaUpload, TLAPS

\* A worker that has listed no version, or lists and begins to delete.
LEMMA EmptyListing ==
  ASSUME NEW x \in BusyWorkers PROVE [x EXCEPT !.empties = 1] \in BusyWorkers
BY DEF BusyWorkers

LEMMA FullListing ==
  ASSUME NEW x \in BusyWorkers, NEW found \in SUBSET Versions
  PROVE [x EXCEPT !.pc = "deleting", !.listed = found,
                  !.known = IF x.known = {} THEN found ELSE x.known] \in BusyWorkers
BY DEF BusyWorkers

\* Every step of the specification keeps the variables in their types.
LEMMA TypingStep == TypeOK /\ [Next]_vars => TypeOK'
<1> SUFFICES ASSUME TypeOK, [Next]_vars PROVE TypeOK'
  OBVIOUS
<1> USE ConstantsAssumption DEF TypeOK, Statuses, Holds, JobStates, HandlerSteps,
        uploadVars, sourceVars, storageVars, jobVars, Goto
<1>1. CASE UNCHANGED vars
  BY <1>1 DEF vars
<1>2. ASSUME NEW i \in Uploads, UploadStep(i) PROVE TypeOK'
  <2>1. CASE Begin(i)
    <3>1. CASE Kind(i) = "EQUIPMENT"
      <4>1. prior' \in [Uploads -> Uploads \cup {NoUpload}] BY <2>1, <3>1 DEF Begin
      <4>2. fresh' \in [Uploads -> BOOLEAN] BY <2>1, <3>1 DEF Begin
      <4> QED BY <2>1, <4>1, <4>2 DEF Begin
    <3>2. CASE Kind(i) # "EQUIPMENT" BY <2>1, <3>2 DEF Begin, Kind
    <3> QED BY <3>1, <3>2
  <2>2. CASE Finalize(i) BY <2>2 DEF Finalize
  <2>3. CASE FinalizeFails(i) BY <2>3 DEF FinalizeFails
  <2>4. CASE PutSend(i) BY <2>4 DEF PutSend, Versions
  <2>5. CASE PutAcknowledged(i) BY <2>5 DEF PutAcknowledged
  <2>6. CASE PutFails(i) BY <2>6 DEF PutFails
  <2>7. CASE ConfirmPut(i) BY <2>7 DEF ConfirmPut
  <2>8. CASE ConfirmPutFails(i) BY <2>8 DEF ConfirmPutFails
  <2>9. CASE ReadProfile(i) BY <2>9 DEF ReadProfile
  <2>10. CASE Attach(i)
    <3>1. status' \in [Uploads -> Statuses] BY <2>10 DEF Attach
    <3>2. job' \in [Uploads -> JobStates] BY <2>10 DEF Attach, Enqueue
    <3>3. pc' \in [Uploads -> HandlerSteps] BY <2>10 DEF Attach
    <3>4. pointer' \in [Sources -> Uploads \cup {NoUpload}] BY <2>10 DEF Attach
    <3>5. fresh' \in [Uploads -> BOOLEAN] BY <2>10 DEF Attach, TouchRow
    <3> QED BY <2>10, <3>1, <3>2, <3>3, <3>4, <3>5 DEF Attach
  <2>11. CASE AttachFails(i) BY <2>11 DEF AttachFails
  <2>12. CASE MarkCleanup(i) BY <2>12 DEF MarkCleanup, Enqueue
  <2>13. CASE MarkIgnored(i) BY <2>13 DEF MarkIgnored
  <2>14. CASE HandlerDies(i) BY <2>14 DEF HandlerDies
  <2> QED BY <1>2, <2>1, <2>2, <2>3, <2>4, <2>5, <2>6, <2>7, <2>8, <2>9,
             <2>10, <2>11, <2>12, <2>13, <2>14 DEF UploadStep
<1>3. ASSUME NEW i \in Uploads, Network(i) \/ Deadlines(i) PROVE TypeOK'
  <2>1. CASE PutLands(i) BY <2>1 DEF PutLands
  <2>2. CASE PutIsLost(i) BY <2>2 DEF PutIsLost
  <2>3. CASE HoldLapses(i) BY <2>3 DEF HoldLapses
  <2>4. CASE CleanupFallsDue(i) BY <2>4 DEF CleanupFallsDue
  <2>5. CASE LeaseLapses(i) BY <2>5 DEF LeaseLapses
  <2> QED BY <1>3, <2>1, <2>2, <2>3, <2>4, <2>5 DEF Network, Deadlines
<1>4. ASSUME NEW s \in Sources, EditEquipment(s) PROVE TypeOK'
  BY <1>4 DEF EditEquipment, TouchRow
<1>5. ASSUME NEW r \in Removals, RemovalStep(r) PROVE TypeOK'
  <2>1. CASE ReadForRemoval(r) BY <2>1 DEF ReadForRemoval
  <2>2. CASE Remove(r) BY <2>2 DEF Remove, Enqueue, TouchRow
  <2>3. CASE RemoveFails(r) BY <2>3 DEF RemoveFails
  <2> QED BY <1>5, <2>1, <2>2, <2>3 DEF RemovalStep
<1>6. ASSUME NEW w \in Workers, WorkerRuns(w) \/ WorkerDies(w) PROVE TypeOK'
  <2> DEFINE Typed(f) == f \in [Workers -> BusyWorkers \cup {IdleWorker}]
  <2> USE DEF Becomes
  <2>0. ASSUME worker[w].pc # "idle" PROVE worker[w] \in BusyWorkers
    BY <2>0 DEF IdleWorker
  <2>1. ASSUME NEW jobs \in [Uploads -> JobStates], NEW i \in Uploads, Lease(w, jobs, i)
        PROVE /\ job' \in [Uploads -> JobStates] /\ epoch' \in [Uploads -> Nat]
              /\ leased' \in [Uploads -> BOOLEAN] /\ Typed(worker')
    <3>1. [pc |-> "listing", job |-> i, epoch |-> epoch[i] + 1, known |-> {},
           listed |-> {}, empties |-> 0, verdict |-> "NONE", inTime |-> FALSE]
             \in BusyWorkers
      BY DEF BusyWorkers, Verdicts
    <3> QED BY <2>1, <3>1 DEF Lease
  <2>2. ASSUME NEW v \in Verdicts, worker[w].pc # "idle", Conclude(w, v)
        PROVE Typed(worker')
    <3>1. [worker[w] EXCEPT !.pc = "reporting", !.listed = {}, !.verdict = v]
            \in BusyWorkers
      BY <2>0, <2>2 DEF BusyWorkers
    <3> QED BY <2>2, <3>1 DEF Conclude
  <2>3. CASE ClaimJob(w)
    <3>1. PICK i \in Uploads : Lease(w, job, i) BY <2>3 DEF ClaimJob, Claimable
    <3> QED BY <2>1, <2>3, <3>1 DEF ClaimJob
  <2>4. CASE ClaimStale(w)
    <3>1. PICK i \in Uploads : \E j \in Uploads :
             /\ status' = [status EXCEPT ![i] = "CLEANUP_REQUIRED"]
             /\ hold' = [hold EXCEPT ![i] = "RELEASED"]
             /\ Lease(w, Enqueue(job, i), j)
      BY <2>4 DEF ClaimStale, Claimable, Stale
    <3>2. Enqueue(job, i) \in [Uploads -> JobStates] BY DEF Enqueue
    <3> QED BY <2>1, <2>4, <3>1, <3>2 DEF ClaimStale
  <2>5. CASE OpenEnvelopeFails(w) BY <2>2, <2>5 DEF OpenEnvelopeFails, Verdicts
  <2>6. CASE ListVersions(w)
    <3>1. worker[w] \in BusyWorkers /\ worker[w].pc # "idle" BY <2>0, <2>6 DEF ListVersions
    <3>2. [worker[w] EXCEPT !.empties = 1] \in BusyWorkers BY <3>1, EmptyListing
    <3>3. [worker[w] EXCEPT !.pc = "deleting", !.listed = bucket[worker[w].job],
             !.known = IF worker[w].known = {} THEN bucket[worker[w].job]
                                               ELSE worker[w].known] \in BusyWorkers
      <4>1. bucket[worker[w].job] \in SUBSET Versions BY <3>1 DEF BusyWorkers
      <4> QED BY <3>1, <4>1, FullListing
    <3>4. Failure(w) \in Verdicts /\ "ABSENT" \in Verdicts BY DEF Failure, Verdicts
    <3>5. Typed(worker') BY <2>2, <2>6, <3>1, <3>2, <3>3, <3>4 DEF ListVersions
    <3> QED BY <2>6, <3>5 DEF ListVersions
  <2>7. CASE DeleteVersions(w)
    <3>1. [worker[w] EXCEPT !.pc = "listing", !.listed = {}] \in BusyWorkers
      BY <2>0, <2>7 DEF DeleteVersions, BusyWorkers
    <3> QED BY <2>7, <3>1 DEF DeleteVersions
  <2>8. CASE StorageFails(w)
    <3>1. Failure(w) \in Verdicts BY DEF Failure, Verdicts
    <3>2. Typed(worker') BY <2>2, <2>8, <3>1 DEF StorageFails
    <3>3. bucket' \in [Uploads -> SUBSET Versions]
      <4>1. PICK gone : bucket' = [bucket EXCEPT ![worker[w].job] = @ \ gone]
        BY <2>8 DEF StorageFails
      <4> QED BY <4>1
    <3>4. /\ UNCHANGED <<sent, inflight>> /\ UNCHANGED uploadVars
          /\ UNCHANGED sourceVars /\ UNCHANGED jobVars
      BY <2>8 DEF StorageFails
    <3> QED BY <3>2, <3>3, <3>4
  <2>9. CASE ReportStarts(w)
    <3> DEFINE held == leased[worker[w].job] /\ epoch[worker[w].job] = worker[w].epoch
               next == [worker[w] EXCEPT !.pc = "committing", !.inTime = held]
    <3>1. held \in BOOLEAN OBVIOUS
    <3> HIDE DEF held
    <3>2. next \in BusyWorkers BY <2>0, <2>9, <3>1 DEF ReportStarts, BusyWorkers
    <3>3. worker' = [worker EXCEPT ![w] = next] /\ UNCHANGED <<uploadVars, sourceVars, storageVars, jobVars>>
      BY <2>9 DEF ReportStarts, held
    <3> HIDE DEF next
    <3>4. Typed(worker') BY <3>2, <3>3
    <3> QED BY <3>3, <3>4 DEF storageVars
  <2>10. CASE Complete(w) BY <2>10 DEF Complete
  <2>11. CASE Fail(w) BY <2>11 DEF Fail
  <2>12. CASE ReportRejected(w) BY <2>12 DEF ReportRejected
  <2>13. CASE WorkerDies(w) BY <2>13 DEF WorkerDies
  <2> QED BY <1>6, <2>3, <2>4, <2>5, <2>6, <2>7, <2>8, <2>9, <2>10, <2>11, <2>12,
             <2>13 DEF WorkerRuns
<1> QED BY <1>1, <1>2, <1>3, <1>4, <1>5, <1>6 DEF Next

THEOREM Typing == Spec => []TypeOK
<1>1. Init => TypeOK
  BY ConstantsAssumption DEF Init, TypeOK, Statuses, Holds, JobStates,
     HandlerSteps, BusyWorkers, IdleWorker, Versions, Verdicts
<1> QED BY <1>1, TypingStep, PTL DEF Spec

-----------------------------------------------------------------------------
(***************************************************************************)
(* PointerMatchesIntent and JobMatchesIntent.  Each is inductive once the  *)
(* types are known.  Only eight actions move an intent; the steps below    *)
(* treat those and dismiss the others together.                            *)
(***************************************************************************)

\* The steps that touch no intent, no pointer and no job.
Bystander(i) ==
  \/ FinalizeFails(i) \/ PutSend(i) \/ PutAcknowledged(i) \/ PutFails(i)
  \/ ConfirmPutFails(i) \/ ReadProfile(i) \/ AttachFails(i) \/ MarkIgnored(i)
  \/ HandlerDies(i) \/ Network(i) \/ Deadlines(i)

WorkerBystander(w) ==
  \/ OpenEnvelopeFails(w) \/ ListVersions(w) \/ DeleteVersions(w) \/ StorageFails(w)
  \/ ReportStarts(w) \/ ReportRejected(w) \/ WorkerDies(w)

\* Next, with those steps put together.
LEMMA NextCases ==
  ASSUME Next
  PROVE  \/ \E i \in Uploads : \/ Begin(i) \/ Finalize(i) \/ ConfirmPut(i)
                               \/ MarkCleanup(i) \/ Attach(i) \/ Bystander(i)
         \/ \E r \in Removals : Remove(r) \/ ReadForRemoval(r) \/ RemoveFails(r)
         \/ \E s \in Sources : EditEquipment(s)
         \/ \E w \in Workers : \/ ClaimJob(w) \/ ClaimStale(w) \/ Complete(w)
                               \/ Fail(w) \/ WorkerBystander(w)
  BY DEF Next, UploadStep, RemovalStep, WorkerRuns, Bystander, WorkerBystander

LEMMA Bystanders ==
  /\ \A i \in Uploads : Bystander(i) => UNCHANGED <<status, pointer, job>>
  /\ \A w \in Workers : WorkerBystander(w) => UNCHANGED <<status, pointer, job>>
<1>1. ASSUME NEW i \in Uploads, Bystander(i) PROVE UNCHANGED <<status, pointer, job>>
  BY <1>1 DEF Bystander, FinalizeFails, PutSend, PutAcknowledged, PutFails,
     ConfirmPutFails, ReadProfile, AttachFails, MarkIgnored, HandlerDies, Network,
     Deadlines, PutLands, PutIsLost, HoldLapses, CleanupFallsDue, LeaseLapses,
     uploadVars, sourceVars, jobVars
<1>2. ASSUME NEW w \in Workers, WorkerBystander(w)
      PROVE UNCHANGED <<status, pointer, job>>
  BY <1>2 DEF WorkerBystander, OpenEnvelopeFails, ListVersions, DeleteVersions,
     StorageFails, ReportStarts, ReportRejected, WorkerDies,
     uploadVars, sourceVars, jobVars
<1> QED BY <1>1, <1>2

LEMMA PriorIsUpload ==
  ASSUME TypeOK, NEW i \in Uploads
  PROVE  PriorOf(i) \in Uploads \cup {NoUpload} /\ SourceOf[i] \in Sources
<1>1. SourceOf[i] \in Sources /\ KindOf[SourceOf[i]] \in Kinds
  BY ConstantsAssumption
<1>2. /\ prior[i] \in Uploads \cup {NoUpload}
      /\ pointer[SourceOf[i]] \in Uploads \cup {NoUpload}
  BY <1>1 DEF TypeOK
<1> QED BY <1>1, <1>2 DEF PriorOf, Kind, Kinds

LEMMA PointerStep ==
  TypeOK /\ PointerMatchesIntent /\ [Next]_vars => PointerMatchesIntent'
<1> SUFFICES ASSUME TypeOK, PointerMatchesIntent, [Next]_vars
             PROVE  PointerMatchesIntent'
  OBVIOUS
<1> USE ConstantsAssumption DEF PointerMatchesIntent, Referenced
<1>1. CASE UNCHANGED <<status, pointer>>
  BY <1>1
\* An intent that was not ATTACHED moves to a status that is not either.
<1>2. ASSUME NEW i \in Uploads, NEW st, status[i] # "ATTACHED", st # "ATTACHED",
             status' = [status EXCEPT ![i] = st], pointer' = pointer
      PROVE  PointerMatchesIntent'
  BY <1>2 DEF TypeOK
<1>3. ASSUME NEW i \in Uploads, Begin(i) \/ Finalize(i) \/ ConfirmPut(i)
      PROVE  PointerMatchesIntent'
  BY <1>2, <1>3 DEF Begin, Finalize, ConfirmPut, sourceVars
<1>4. ASSUME NEW i \in Uploads, MarkCleanup(i) PROVE PointerMatchesIntent'
  BY <1>2, <1>4 DEF MarkCleanup, Markable, sourceVars
<1>5. ASSUME NEW i \in Uploads, Attach(i) PROVE PointerMatchesIntent'
  <2> DEFINE s == SourceOf[i]
             p == PriorOf(i)
             newStatus == [j \in Uploads |-> IF j = i THEN "ATTACHED"
                                             ELSE IF j = p THEN "CLEANUP_REQUIRED"
                                             ELSE status[j]]
  <2>1. /\ status[i] = "PUT_CONFIRMED"
        /\ p # NoUpload => SourceOf[p] = s
        /\ PointerMayLeave(pointer[s], newStatus)
        /\ status' = newStatus
        /\ pointer' = [pointer EXCEPT ![s] = i]
    BY <1>5 DEF Attach
  <2>2. p \in Uploads \cup {NoUpload} /\ s \in Sources
    BY PriorIsUpload
  <2> HIDE DEF p
  <2>3. ASSUME NEW t \in Sources, pointer'[t] # NoUpload
        PROVE  SourceOf[pointer'[t]] = t /\ status'[pointer'[t]] = "ATTACHED"
    <3>1. CASE t = s BY <2>1, <2>2, <3>1 DEF TypeOK
    <3>2. CASE t # s BY <2>1, <2>2, <2>3, <3>2 DEF TypeOK
    <3> QED BY <3>1, <3>2
  <2>4. ASSUME NEW j \in Uploads, status'[j] = "ATTACHED"
        PROVE  pointer'[SourceOf[j]] = j
    <3>1. CASE j = i BY <2>1, <2>2, <3>1 DEF TypeOK
    <3>2. CASE j # i
      <4>1. status[j] = "ATTACHED" /\ newStatus[j] = "ATTACHED"
        BY <2>1, <2>4, <3>2
      <4>2. pointer[SourceOf[j]] = j BY <4>1
      <4>3. SourceOf[j] # s BY <2>1, <4>1, <4>2 DEF PointerMayLeave
      <4> QED BY <2>1, <4>2, <4>3 DEF TypeOK
    <3> QED BY <3>1, <3>2
  <2> QED BY <2>3, <2>4
<1>6. ASSUME NEW r \in Removals, Remove(r) PROVE PointerMatchesIntent'
  <2> DEFINE s == RemovedFrom[r]
             p == rprior[r]
             newStatus == [status EXCEPT ![p] = "CLEANUP_REQUIRED"]
  <2>1. /\ SourceOf[p] = s
        /\ pointer[s] # NoUpload
        /\ PointerMayLeave(pointer[s], newStatus)
        /\ status' = newStatus
        /\ pointer' = [pointer EXCEPT ![s] = NoUpload]
    BY <1>6 DEF Remove
  <2>2. pointer[s] = p
    BY <2>1 DEF PointerMayLeave, TypeOK
  <2> QED BY <2>1, <2>2 DEF TypeOK
<1>7. ASSUME NEW w \in Workers, ClaimStale(w) PROVE PointerMatchesIntent'
  BY <1>2, <1>7 DEF ClaimStale, Stale, sourceVars
<1>8. ASSUME NEW w \in Workers, Complete(w) PROVE PointerMatchesIntent'
  <2>1. CASE worker[w].job \in Uploads BY <1>2, <1>8, <2>1 DEF Complete, sourceVars
  <2>2. CASE worker[w].job \notin Uploads BY <1>1, <1>8, <2>2 DEF Complete, sourceVars, TypeOK
  <2> QED BY <2>1, <2>2
<1>9. CASE \E r \in Removals : ReadForRemoval(r) \/ RemoveFails(r)
  BY <1>1, <1>9 DEF ReadForRemoval, RemoveFails, uploadVars
<1>10. CASE \E s \in Sources : EditEquipment(s)
  BY <1>1, <1>10 DEF EditEquipment, sourceVars
<1>11. CASE \E w \in Workers : ClaimJob(w) \/ Fail(w)
  BY <1>1, <1>11 DEF ClaimJob, Fail, uploadVars, sourceVars
<1>12. CASE UNCHANGED vars
  BY <1>1, <1>12 DEF vars, uploadVars, sourceVars
<1> QED BY <1>1, <1>3, <1>4, <1>5, <1>6, <1>7, <1>8, <1>9, <1>10, <1>11, <1>12,
           NextCases, Bystanders

\* No interleaving of savers, removers and workers separates a row from the
\* intent it names.
THEOREM PointersAgree == Spec => []PointerMatchesIntent
<1>1. Init => PointerMatchesIntent
  BY ConstantsAssumption DEF Init, PointerMatchesIntent
<1> QED BY <1>1, Typing, PointerStep, PTL DEF Spec

LEMMA JobStep ==
  TypeOK /\ JobMatchesIntent /\ [Next]_vars => JobMatchesIntent'
<1> SUFFICES ASSUME TypeOK, JobMatchesIntent, [Next]_vars
             PROVE  JobMatchesIntent'
  OBVIOUS
<1> USE ConstantsAssumption DEF JobMatchesIntent, TypeOK
<1>1. CASE UNCHANGED <<status, job>>
  BY <1>1
\* An intent that no job knows moves on without one.
<1>2. ASSUME NEW i \in Uploads,
             Begin(i) \/ Finalize(i) \/ ConfirmPut(i)
      PROVE  JobMatchesIntent'
  BY <1>2 DEF Begin, Finalize, ConfirmPut, jobVars
<1>3. ASSUME NEW i \in Uploads, MarkCleanup(i) PROVE JobMatchesIntent'
  BY <1>3 DEF MarkCleanup, Markable, Enqueue
<1>4. ASSUME NEW i \in Uploads, Attach(i) PROVE JobMatchesIntent'
  <2> DEFINE p == PriorOf(i)
  <2>1. /\ status[i] = "PUT_CONFIRMED"
        /\ p # NoUpload => status[p] = "ATTACHED"
        /\ job' = IF p # NoUpload THEN Enqueue(job, p) ELSE job
        /\ status' = [j \in Uploads |-> IF j = i THEN "ATTACHED"
                                        ELSE IF j = p THEN "CLEANUP_REQUIRED"
                                        ELSE status[j]]
    BY <1>4 DEF Attach
  <2>2. p \in Uploads \cup {NoUpload} BY PriorIsUpload
  <2> HIDE DEF p
  <2>3. CASE p = NoUpload BY <2>1, <2>3
  <2>4. CASE p # NoUpload BY <2>1, <2>2, <2>4 DEF Enqueue
  <2> QED BY <2>3, <2>4
<1>5. ASSUME NEW r \in Removals, Remove(r) PROVE JobMatchesIntent'
  <2>1. CASE status[rprior[r]] = "ATTACHED" BY <1>5, <2>1 DEF Remove, Enqueue
  <2>2. CASE status[rprior[r]] # "ATTACHED" BY <1>5, <2>2 DEF Remove
  <2> QED BY <2>1, <2>2
\* A lease goes to a job that is waiting, or whose worker is lost.
<1>6. ASSUME NEW w \in Workers, NEW jobs \in [Uploads -> JobStates],
             NEW i \in Claimable(jobs), Lease(w, jobs, i)
      PROVE  /\ job' = [jobs EXCEPT ![i] = "LEASED"] /\ i \in Uploads
             /\ jobs[i] \notin {"NONE", "SUCCEEDED"}
  BY <1>6 DEF Claimable, Lease
<1>7. ASSUME NEW w \in Workers, ClaimJob(w) PROVE JobMatchesIntent'
  BY <1>6, <1>7 DEF ClaimJob, uploadVars
<1>8. ASSUME NEW w \in Workers, ClaimStale(w) PROVE JobMatchesIntent'
  <2>1. PICK i \in Stale : \E j \in Claimable(Enqueue(job, i)) :
           /\ status' = [status EXCEPT ![i] = "CLEANUP_REQUIRED"]
           /\ Lease(w, Enqueue(job, i), j)
    BY <1>8 DEF ClaimStale
  <2>2. i \in Uploads /\ status[i] \in {"PREPARED", "PUT_CONFIRMED"}
    BY <2>1 DEF Stale
  <2>3. Enqueue(job, i) \in [Uploads -> JobStates]
    BY DEF Enqueue, JobStates
  <2>4. Enqueue(job, i) = [job EXCEPT ![i] = "PENDING"]
    BY <2>2 DEF Enqueue
  <2>5. PICK j \in Claimable(Enqueue(job, i)) : Lease(w, Enqueue(job, i), j)
    BY <2>1
  <2>6. /\ job' = [Enqueue(job, i) EXCEPT ![j] = "LEASED"] /\ j \in Uploads
        /\ Enqueue(job, i)[j] \notin {"NONE", "SUCCEEDED"}
    BY <1>6, <2>3, <2>5
  <2> QED BY <2>1, <2>2, <2>4, <2>6
<1>9. ASSUME NEW w \in Workers, Complete(w) PROVE JobMatchesIntent'
  BY <1>9 DEF Complete, HoldsLease
<1>10. ASSUME NEW w \in Workers, Fail(w) PROVE JobMatchesIntent'
  BY <1>10 DEF Fail, HoldsLease, uploadVars
<1>11. CASE \E r \in Removals : ReadForRemoval(r) \/ RemoveFails(r)
  BY <1>1, <1>11 DEF ReadForRemoval, RemoveFails, uploadVars, jobVars
<1>12. CASE \E s \in Sources : EditEquipment(s)
  BY <1>1, <1>12 DEF EditEquipment, jobVars
<1>13. CASE UNCHANGED vars
  BY <1>1, <1>13 DEF vars, uploadVars, jobVars
<1> QED BY <1>1, <1>2, <1>3, <1>4, <1>5, <1>7, <1>8, <1>9, <1>10, <1>11, <1>12,
           <1>13, NextCases, Bystanders

\* A worker that lost its lease neither reopens nor closes a job.
THEOREM JobsAgree == Spec => []JobMatchesIntent
<1>1. Init => JobMatchesIntent
  BY DEF Init, JobMatchesIntent
<1> QED BY <1>1, Typing, JobStep, PTL DEF Spec

-----------------------------------------------------------------------------
(***************************************************************************)
(* ReferencedObjectStored is not inductive: what keeps a referenced object *)
(* in the bucket is that its handler had an acknowledgement before it      *)
(* confirmed, that workers only ever hold condemned uploads, and that a    *)
(* condemned upload is never attached.                                     *)
(***************************************************************************)
Condemned == {"CLEANUP_REQUIRED", "ABSENCE_VERIFIED"}

StorageInv ==
  /\ \A i \in Uploads : status[i] \in {"PUT_CONFIRMED", "ATTACHED"} => bucket[i] # {}
  /\ \A i \in Uploads : pc[i] = "stored" /\ status[i] = "PREPARED" => bucket[i] # {}
  /\ \A w \in Workers : worker[w].pc # "idle" => status[worker[w].job] \in Condemned

\* A condemned upload stays condemned, whatever runs.
LEMMA CondemnedForGood ==
  ASSUME TypeOK, JobMatchesIntent, [Next]_vars, NEW i \in Uploads,
         status[i] \in Condemned
  PROVE  status'[i] \in Condemned
<1> USE DEF TypeOK, Condemned
<1>1. ASSUME NEW j \in Uploads, Begin(j) \/ Finalize(j) \/ ConfirmPut(j)
      PROVE  status'[i] \in Condemned
  BY <1>1 DEF Begin, Finalize, ConfirmPut
<1>2. ASSUME NEW j \in Uploads, MarkCleanup(j) \/ Attach(j)
      PROVE  status'[i] \in Condemned
  BY <1>2 DEF MarkCleanup, Markable, Attach
<1>3. ASSUME NEW r \in Removals, Remove(r) PROVE status'[i] \in Condemned
  BY <1>3 DEF Remove
<1>4. ASSUME NEW w \in Workers, ClaimStale(w) \/ Complete(w)
      PROVE  status'[i] \in Condemned
  BY <1>4 DEF ClaimStale, Complete
<1>5. CASE \E r \in Removals : ReadForRemoval(r) \/ RemoveFails(r)
  BY <1>5 DEF ReadForRemoval, RemoveFails, uploadVars
<1>6. CASE \E s \in Sources : EditEquipment(s)
  BY <1>6 DEF EditEquipment
<1>7. CASE \E w \in Workers : ClaimJob(w) \/ Fail(w)
  BY <1>7 DEF ClaimJob, Fail, uploadVars
<1>8. CASE UNCHANGED vars
  BY <1>8 DEF vars, uploadVars
<1> QED BY <1>1, <1>2, <1>3, <1>4, <1>5, <1>6, <1>7, <1>8, NextCases, Bystanders

\* A worker that is not idle after a step was so before, with the same job,
\* or has just leased a condemned upload.
LEMMA WorkersHoldCondemned ==
  ASSUME TypeOK, JobMatchesIntent, StorageInv, [Next]_vars, NEW v \in Workers,
         worker'[v].pc # "idle"
  PROVE  status'[worker'[v].job] \in Condemned
<1> USE DEF TypeOK, Condemned
<1>0. ASSUME worker[v].pc # "idle", worker'[v].job = worker[v].job
      PROVE  status'[worker'[v].job] \in Condemned
  <2>1. worker[v] \in BusyWorkers BY <1>0 DEF IdleWorker
  <2>2. worker[v].job \in Uploads BY <2>1 DEF BusyWorkers
  <2> QED BY <1>0, <2>2, CondemnedForGood DEF StorageInv
<1>1. CASE worker' = worker
  BY <1>0, <1>1
<1>2. ASSUME NEW w \in Workers, NEW i \in Uploads, NEW jobs \in [Uploads -> JobStates],
             Lease(w, jobs, i), status'[i] \in Condemned
      PROVE  status'[worker'[v].job] \in Condemned
  <2>1. CASE v = w
    BY <1>2, <2>1 DEF Lease, Becomes
  <2>2. CASE v # w
    BY <1>0, <1>2, <2>2 DEF Lease, Becomes
  <2> QED BY <2>1, <2>2
<1>3. ASSUME NEW w \in Workers, ClaimJob(w)
      PROVE  status'[worker'[v].job] \in Condemned
  <2>1. PICK i \in Claimable(job) : Lease(w, job, i) BY <1>3 DEF ClaimJob
  <2>2. i \in Uploads /\ job[i] # "NONE" BY <2>1 DEF Claimable
  <2>3. status'[i] \in Condemned BY <1>3, <2>2 DEF ClaimJob, uploadVars, JobMatchesIntent
  <2> QED BY <1>2, <2>1, <2>2, <2>3
<1>4. ASSUME NEW w \in Workers, ClaimStale(w)
      PROVE  status'[worker'[v].job] \in Condemned
  <2>1. PICK i \in Stale : \E j \in Claimable(Enqueue(job, i)) :
           /\ status' = [status EXCEPT ![i] = "CLEANUP_REQUIRED"]
           /\ Lease(w, Enqueue(job, i), j)
    BY <1>4 DEF ClaimStale
  <2>2. PICK j \in Claimable(Enqueue(job, i)) : Lease(w, Enqueue(job, i), j) BY <2>1
  <2>3. j \in Uploads /\ i \in Uploads BY <2>2 DEF Claimable, Stale
  <2>4. j = i \/ job[j] # "NONE" BY <2>2, <2>3 DEF Claimable, Enqueue
  <2>5. status'[j] \in Condemned BY <2>1, <2>3, <2>4 DEF JobMatchesIntent
  <2>6. Enqueue(job, i) \in [Uploads -> JobStates] BY DEF Enqueue, JobStates
  <2> QED BY <1>2, <2>2, <2>3, <2>5, <2>6
<1>5. ASSUME NEW w \in Workers, worker' = [worker EXCEPT ![w] = IdleWorker]
      PROVE  status'[worker'[v].job] \in Condemned
  BY <1>0, <1>5 DEF IdleWorker
<1>6. ASSUME NEW w \in Workers, Complete(w) \/ Fail(w) \/ ReportRejected(w) \/ WorkerDies(w)
      PROVE  status'[worker'[v].job] \in Condemned
  BY <1>5, <1>6 DEF Complete, Fail, ReportRejected, WorkerDies, Becomes
\* Within a run of RunOnce the job stays the same.
<1>7. ASSUME NEW w \in Workers, worker[w].pc # "idle", NEW n,
             worker' = [worker EXCEPT ![w] = n], n.job = worker[w].job
      PROVE  status'[worker'[v].job] \in Condemned
  BY <1>0, <1>7
<1>8. ASSUME NEW w \in Workers,
             \/ OpenEnvelopeFails(w) \/ ListVersions(w) \/ DeleteVersions(w)
             \/ StorageFails(w) \/ ReportStarts(w)
      PROVE  status'[worker'[v].job] \in Condemned
  <2>1. worker[w].pc # "idle"
    BY <1>8 DEF OpenEnvelopeFails, ListVersions, DeleteVersions, StorageFails, ReportStarts
  <2>2. worker[w] \in BusyWorkers BY <2>1 DEF IdleWorker
  <2>3. ASSUME NEW x, Conclude(w, x) PROVE status'[worker'[v].job] \in Condemned
    <3>1. [worker[w] EXCEPT !.pc = "reporting", !.listed = {}, !.verdict = x].job
             = worker[w].job
      BY <2>2 DEF BusyWorkers
    <3> QED BY <1>7, <2>1, <2>3, <3>1 DEF Conclude, Becomes
  <2>4. CASE OpenEnvelopeFails(w) \/ StorageFails(w)
    BY <2>3, <2>4 DEF OpenEnvelopeFails, StorageFails
  <2>5. CASE ListVersions(w)
    <3>1. [worker[w] EXCEPT !.empties = 1].job = worker[w].job
      BY <2>2 DEF BusyWorkers
    <3>2. ASSUME NEW found, NEW known
          PROVE  [worker[w] EXCEPT !.pc = "deleting", !.listed = found,
                                   !.known = known].job = worker[w].job
      BY <2>2 DEF BusyWorkers
    <3>3. \/ \E x : Conclude(w, x)
          \/ worker' = [worker EXCEPT ![w] = [worker[w] EXCEPT !.empties = 1]]
          \/ \E found, known :
               worker' = [worker EXCEPT ![w] = [worker[w] EXCEPT !.pc = "deleting",
                                                 !.listed = found, !.known = known]]
      BY <2>5 DEF ListVersions, Becomes
    <3>4. CASE \E found, known :
                 worker' = [worker EXCEPT ![w] = [worker[w] EXCEPT !.pc = "deleting",
                                                  !.listed = found, !.known = known]]
      BY <1>7, <2>1, <3>2, <3>4
    <3>5. CASE worker' = [worker EXCEPT ![w] = [worker[w] EXCEPT !.empties = 1]]
      BY <1>7, <2>1, <3>1, <3>5
    <3> QED BY <2>3, <3>3, <3>4, <3>5
  <2>6. CASE DeleteVersions(w)
    <3>1. [worker[w] EXCEPT !.pc = "listing", !.listed = {}].job = worker[w].job
      BY <2>2 DEF BusyWorkers
    <3> QED BY <1>7, <2>1, <2>6, <3>1 DEF DeleteVersions, Becomes
  <2>7. CASE ReportStarts(w)
    <3> DEFINE held == leased[worker[w].job] /\ epoch[worker[w].job] = worker[w].epoch
               n == [worker[w] EXCEPT !.pc = "committing", !.inTime = held]
    <3>1. worker' = [worker EXCEPT ![w] = n] BY <2>7 DEF ReportStarts, Becomes
    <3> HIDE DEF held
    <3>2. n.job = worker[w].job BY <2>2 DEF BusyWorkers
    <3> HIDE DEF n
    <3> QED BY <1>7, <2>1, <3>1, <3>2
  <2> QED BY <1>8, <2>4, <2>5, <2>6, <2>7
<1>9. ASSUME NEW i \in Uploads, UploadStep(i) \/ Network(i) \/ Deadlines(i)
      PROVE  worker' = worker
  BY <1>9 DEF UploadStep, Network, Deadlines, Begin, Finalize, FinalizeFails, PutSend,
     PutLands, PutIsLost, PutAcknowledged, PutFails, ConfirmPut, ConfirmPutFails,
     ReadProfile, Attach, AttachFails, MarkCleanup, MarkIgnored, HandlerDies,
     HoldLapses, CleanupFallsDue, LeaseLapses
<1>10. ASSUME NEW r \in Removals, RemovalStep(r) PROVE worker' = worker
  BY <1>10 DEF RemovalStep, ReadForRemoval, Remove, RemoveFails
<1>11. ASSUME NEW s \in Sources, EditEquipment(s) PROVE worker' = worker
  BY <1>11 DEF EditEquipment
<1>12. CASE UNCHANGED vars
  BY <1>1, <1>12 DEF vars
<1> QED BY <1>1, <1>3, <1>4, <1>6, <1>8, <1>9, <1>10, <1>11, <1>12 DEF Next, WorkerRuns

LEMMA StorageStep ==
  TypeOK /\ JobMatchesIntent /\ StorageInv /\ [Next]_vars => StorageInv'
<1> SUFFICES ASSUME TypeOK, JobMatchesIntent, StorageInv, [Next]_vars
             PROVE  StorageInv'
  OBVIOUS
<1> USE DEF TypeOK
<1>1. \A w \in Workers : worker'[w].pc # "idle" => status'[worker'[w].job] \in Condemned
  BY WorkersHoldCondemned
<1> DEFINE Confirmed == \A i \in Uploads :
                status[i] \in {"PUT_CONFIRMED", "ATTACHED"} => bucket[i] # {}
           Acknowledged == \A i \in Uploads :
                pc[i] = "stored" /\ status[i] = "PREPARED" => bucket[i] # {}
<1>2. Confirmed /\ Acknowledged
  BY DEF StorageInv
<1> HIDE DEF TypeOK
<1> SUFFICES Confirmed' /\ Acknowledged'
  BY <1>1 DEF StorageInv
\* Only a worker takes versions away, and only those of a condemned upload.
<1>3. ASSUME NEW w \in Workers, worker[w].pc # "idle", NEW gone,
             bucket' = [bucket EXCEPT ![worker[w].job] = @ \ gone],
             UNCHANGED <<status, pc>>
      PROVE  Confirmed' /\ Acknowledged'
  <2>1. status[worker[w].job] \in Condemned BY <1>3 DEF StorageInv
  <2> QED BY <1>2, <1>3, <2>1 DEF TypeOK, Condemned
<1>4. ASSUME NEW w \in Workers, DeleteVersions(w) PROVE Confirmed' /\ Acknowledged'
  BY <1>3, <1>4 DEF DeleteVersions, uploadVars
<1>5. ASSUME NEW w \in Workers, StorageFails(w) PROVE Confirmed' /\ Acknowledged'
  BY <1>3, <1>5 DEF StorageFails, uploadVars
<1>6. ASSUME NEW i \in Uploads, PutLands(i) PROVE Confirmed' /\ Acknowledged'
  BY <1>2, <1>6 DEF PutLands, uploadVars, TypeOK
\* Everything else leaves the bucket alone.
<1>7. CASE UNCHANGED <<status, pc, bucket>>
  BY <1>2, <1>7
<1>8. ASSUME NEW i \in Uploads, NEW step, step # "stored", pc' = [pc EXCEPT ![i] = step],
             UNCHANGED <<status, bucket>>
      PROVE  Confirmed' /\ Acknowledged'
  BY <1>2, <1>8 DEF TypeOK
<1>9. ASSUME NEW i \in Uploads,
             \/ FinalizeFails(i) \/ PutSend(i) \/ PutFails(i) \/ ConfirmPutFails(i)
             \/ ReadProfile(i) \/ AttachFails(i) \/ MarkIgnored(i) \/ HandlerDies(i)
      PROVE  Confirmed' /\ Acknowledged'
  BY <1>8, <1>9 DEF FinalizeFails, PutSend, PutFails, ConfirmPutFails, ReadProfile,
     AttachFails, MarkIgnored, HandlerDies, Goto, storageVars
<1>10. ASSUME NEW i \in Uploads, PutAcknowledged(i) PROVE Confirmed' /\ Acknowledged'
  BY <1>2, <1>10 DEF PutAcknowledged, Goto, storageVars, TypeOK
<1>11. ASSUME NEW i \in Uploads, Begin(i) \/ Finalize(i)
       PROVE  Confirmed' /\ Acknowledged'
  BY <1>2, <1>11 DEF Begin, Finalize, Goto, storageVars, TypeOK
<1>12. ASSUME NEW i \in Uploads, ConfirmPut(i) PROVE Confirmed' /\ Acknowledged'
  BY <1>2, <1>12 DEF ConfirmPut, Goto, storageVars, TypeOK
<1>13. ASSUME NEW i \in Uploads, MarkCleanup(i) PROVE Confirmed' /\ Acknowledged'
  BY <1>2, <1>13 DEF MarkCleanup, Goto, storageVars, TypeOK
<1>14. ASSUME NEW i \in Uploads, Attach(i) PROVE Confirmed' /\ Acknowledged'
  BY <1>2, <1>14 DEF Attach, Goto, storageVars, TypeOK
<1>15. ASSUME NEW r \in Removals, RemovalStep(r) PROVE Confirmed' /\ Acknowledged'
  BY <1>2, <1>15 DEF RemovalStep, ReadForRemoval, Remove, RemoveFails, uploadVars,
     storageVars, TypeOK
<1>16. ASSUME NEW w \in Workers, ClaimStale(w) \/ Complete(w)
       PROVE  Confirmed' /\ Acknowledged'
  BY <1>2, <1>16 DEF ClaimStale, Complete, storageVars, TypeOK
<1>17. ASSUME NEW i \in Uploads, PutIsLost(i) \/ Deadlines(i)
       PROVE  Confirmed' /\ Acknowledged'
  BY <1>7, <1>17 DEF PutIsLost, Deadlines, HoldLapses, CleanupFallsDue, LeaseLapses,
     uploadVars, storageVars
<1>18. ASSUME NEW s \in Sources, EditEquipment(s) PROVE Confirmed' /\ Acknowledged'
  BY <1>7, <1>18 DEF EditEquipment, storageVars
<1>19. ASSUME NEW w \in Workers,
              \/ ClaimJob(w) \/ OpenEnvelopeFails(w) \/ ListVersions(w) \/ ReportStarts(w)
              \/ Fail(w) \/ ReportRejected(w) \/ WorkerDies(w)
       PROVE  Confirmed' /\ Acknowledged'
  BY <1>7, <1>19 DEF ClaimJob, OpenEnvelopeFails, ListVersions, ReportStarts, Fail,
     ReportRejected, WorkerDies, uploadVars, storageVars
<1>20. CASE UNCHANGED vars
  BY <1>7, <1>20 DEF vars, uploadVars, storageVars
<1> QED BY <1>4, <1>5, <1>6, <1>9, <1>10, <1>11, <1>12, <1>13, <1>14, <1>15, <1>16,
           <1>17, <1>18, <1>19, <1>20 DEF Next, UploadStep, Network, WorkerRuns

\* A photo that a row points to is in the bucket.
THEOREM ReferencedIsStored == Spec => []ReferencedObjectStored
<1>1. Init => StorageInv
  BY DEF Init, StorageInv, IdleWorker
<1>2. ASSUME TypeOK, PointerMatchesIntent, StorageInv PROVE ReferencedObjectStored
  <2>1. ASSUME NEW i \in Uploads, Referenced(i) PROVE bucket[i] # {}
    <3>1. SourceOf[i] \in Sources /\ i # NoUpload BY ConstantsAssumption
    <3> QED BY <1>2, <2>1, <3>1 DEF PointerMatchesIntent, Referenced, StorageInv
  <2> QED BY <2>1 DEF ReferencedObjectStored
<1> QED BY <1>1, <1>2, Typing, PointersAgree, JobsAgree, StorageStep, PTL DEF Spec
=============================================================================
