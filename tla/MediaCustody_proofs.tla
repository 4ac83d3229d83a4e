------------------------ MODULE MediaCustody_proofs ------------------------
(***************************************************************************)
(* More theorems of MediaUpload, on the invariants of MediaUpload_proofs:  *)
(* one repair request per key, saves that replace what they read, recorded *)
(* absence that is true, and the refinement of ObjectCustody.              *)
(***************************************************************************)
EXTENDS MediaUpload_proofs

\* Only two transactions move a pointer.
LEMMA PointerMoves ==
  ASSUME [Next]_vars
  PROVE  \/ UNCHANGED pointer
         \/ \E i \in Uploads : Attach(i)
         \/ \E r \in Removals : Remove(r)
<1>1. CASE UNCHANGED vars
  BY <1>1 DEF vars, sourceVars
<1>2. ASSUME NEW i \in Uploads, Begin(i) \/ Finalize(i) \/ ConfirmPut(i) \/ MarkCleanup(i)
      PROVE  UNCHANGED pointer
  BY <1>2 DEF Begin, Finalize, ConfirmPut, MarkCleanup, sourceVars
<1>3. ASSUME NEW r \in Removals, ReadForRemoval(r) \/ RemoveFails(r)
      PROVE  UNCHANGED pointer
  BY <1>3 DEF ReadForRemoval, RemoveFails
<1>4. ASSUME NEW s \in Sources, EditEquipment(s) PROVE UNCHANGED pointer
  BY <1>4 DEF EditEquipment, sourceVars
<1>5. ASSUME NEW w \in Workers, ClaimJob(w) \/ ClaimStale(w) \/ Complete(w) \/ Fail(w)
      PROVE  UNCHANGED pointer
  BY <1>5 DEF ClaimJob, ClaimStale, Complete, Fail, sourceVars
<1> QED BY <1>1, <1>2, <1>3, <1>4, <1>5, NextCases, Bystanders

\* What an attachment does to the row it is for.
LEMMA AttachedPointer ==
  ASSUME TypeOK, NEW i \in Uploads, Attach(i)
  PROVE  /\ SourceOf[i] \in Sources
         /\ pointer'[SourceOf[i]] = i
         /\ \A s \in Sources \ {SourceOf[i]} : pointer'[s] = pointer[s]
<1>1. SourceOf[i] \in Sources BY ConstantsAssumption
<1>2. pointer' = [pointer EXCEPT ![SourceOf[i]] = i] BY DEF Attach
<1> QED BY <1>1, <1>2 DEF TypeOK

\* A removal leaves its row without a photo and the others alone.
LEMMA RemovedPointer ==
  ASSUME TypeOK, NEW r \in Removals, Remove(r), NEW s \in Sources
  PROVE  pointer'[s] \in {pointer[s], NoUpload}
<1>1. pointer' = [pointer EXCEPT ![RemovedFrom[r]] = NoUpload] BY DEF Remove
<1> QED BY <1>1 DEF TypeOK

-----------------------------------------------------------------------------
(* One repair request per key.                                             *)

LEMMA RepairStep ==
  TypeOK /\ OneRepairPerKey /\ [Next]_vars => OneRepairPerKey'
<1> SUFFICES ASSUME TypeOK, OneRepairPerKey, [Next]_vars,
                    NEW i \in Uploads, NEW j \in Uploads,
                    Kind(i) = "REPAIR", Kind(j) = "REPAIR", KeyOf[i] = KeyOf[j],
                    pointer'[SourceOf[i]] = i, pointer'[SourceOf[j]] = j
             PROVE  i = j
  BY DEF OneRepairPerKey, Referenced, Kind
<1> USE ConstantsAssumption
<1>0. SourceOf[i] \in Sources /\ SourceOf[j] \in Sources /\ NoUpload \notin Uploads
  OBVIOUS
<1>1. ASSUME pointer[SourceOf[i]] = i, pointer[SourceOf[j]] = j PROVE i = j
  BY <1>1 DEF OneRepairPerKey, Referenced
<1>2. CASE UNCHANGED pointer
  BY <1>1, <1>2
<1>3. ASSUME NEW r \in Removals, Remove(r) PROVE i = j
  BY <1>0, <1>1, <1>3, RemovedPointer
\* The new reference found its key free.
<1>4. ASSUME NEW x \in Uploads, Attach(x),
             NEW y \in Uploads, Kind(x) = "REPAIR", Kind(y) = "REPAIR",
             KeyOf[x] = KeyOf[y], pointer'[SourceOf[y]] = y
      PROVE  x = y
  <2>1. KeyFree(x) BY <1>4 DEF Attach, RowAccepts
  <2>2. pointer[SourceOf[y]] = NoUpload BY <1>4, <2>1 DEF KeyFree
  <2>3. SourceOf[y] = SourceOf[x] BY <1>4, <2>2, AttachedPointer
  <2> QED BY <1>4, <2>3, AttachedPointer
<1>5. ASSUME NEW x \in Uploads, Attach(x) PROVE i = j
  <2>1. CASE x = i \/ x = j BY <1>4, <1>5, <2>1
  <2>2. CASE x # i /\ x # j
    <3>1. SourceOf[i] # SourceOf[x] /\ SourceOf[j] # SourceOf[x]
      BY <1>5, <2>2, AttachedPointer
    <3> QED BY <1>0, <1>1, <1>5, <3>1, AttachedPointer
  <2> QED BY <2>1, <2>2
<1> QED BY <1>2, <1>3, <1>5, PointerMoves

\* Two submissions of one repair form leave one repair request: the insert
\* looks the key up in the transaction that attaches the photo.
THEOREM RepairsAreUnique == Spec => []OneRepairPerKey
<1>1. Init => OneRepairPerKey
  BY ConstantsAssumption DEF Init, OneRepairPerKey, Referenced
<1> QED BY <1>1, Typing, RepairStep, PTL DEF Spec

-----------------------------------------------------------------------------
(* A save replaces what it read.  The equipment form needs an invariant:   *)
(* while the row still has the version of the form, it still has its photo. *)

FormInv ==
  \A i \in Uploads :
    /\ fresh[i] => Kind(i) = "EQUIPMENT" /\ prior[i] = pointer[SourceOf[i]]
    /\ Kind(i) = "REPAIR" => prior[i] = NoUpload

LEMMA FormStep == TypeOK /\ FormInv /\ [Next]_vars => FormInv'
<1> SUFFICES ASSUME TypeOK, FormInv, [Next]_vars, NEW i \in Uploads
             PROVE  /\ fresh'[i] => Kind(i) = "EQUIPMENT" /\ prior'[i] = pointer'[SourceOf[i]]
                    /\ Kind(i) = "REPAIR" => prior'[i] = NoUpload
  BY DEF FormInv, Kind
<1> DEFINE Holds2 == /\ fresh'[i] => Kind(i) = "EQUIPMENT" /\ prior'[i] = pointer'[SourceOf[i]]
                     /\ Kind(i) = "REPAIR" => prior'[i] = NoUpload
<1>0. SourceOf[i] \in Sources BY ConstantsAssumption
<1>1. CASE UNCHANGED <<fresh, prior, pointer>>
  BY <1>1 DEF FormInv
\* Whoever moves the pointer of a row makes every form of it stale.
<1>2. ASSUME NEW s \in Sources, TouchRow(s), UNCHANGED prior,
             \A x \in Sources \ {s} : pointer'[x] = pointer[x]
      PROVE  Holds2
  <2>1. fresh'[i] => fresh[i] /\ SourceOf[i] # s BY <1>2 DEF TouchRow
  <2> QED BY <1>0, <1>2, <2>1 DEF FormInv
<1>3. ASSUME NEW j \in Uploads, Begin(j) PROVE Holds2
  BY <1>3 DEF Begin, sourceVars, FormInv, TypeOK, Kind
<1>4. ASSUME NEW j \in Uploads, ReadProfile(j) PROVE Holds2
  BY <1>4 DEF ReadProfile, sourceVars, FormInv, TypeOK, Kind
<1>5. ASSUME NEW j \in Uploads, Attach(j) PROVE Holds2
  <2>1. TouchRow(SourceOf[j]) /\ UNCHANGED prior BY <1>5 DEF Attach
  <2> QED BY <1>2, <1>5, <2>1, AttachedPointer
<1>6. ASSUME NEW r \in Removals, Remove(r) PROVE Holds2
  <2> DEFINE s == RemovedFrom[r]
  <2>1. TouchRow(s) /\ UNCHANGED prior /\ s \in Sources
    BY <1>6, ConstantsAssumption DEF Remove
  <2>2. pointer' = [pointer EXCEPT ![s] = NoUpload] BY <1>6 DEF Remove
  <2> HIDE DEF s
  <2>3. \A x \in Sources \ {s} : pointer'[x] = pointer[x] BY <2>2 DEF TypeOK
  <2> QED BY <1>2, <2>1, <2>3
<1>7. ASSUME NEW s \in Sources, EditEquipment(s) PROVE Holds2
  BY <1>2, <1>7 DEF EditEquipment, sourceVars
<1>8. ASSUME NEW j \in Uploads,
             \/ Finalize(j) \/ FinalizeFails(j) \/ PutSend(j) \/ PutAcknowledged(j)
             \/ PutFails(j) \/ ConfirmPut(j) \/ ConfirmPutFails(j) \/ AttachFails(j)
             \/ MarkCleanup(j) \/ MarkIgnored(j) \/ HandlerDies(j)
             \/ Network(j) \/ Deadlines(j)
      PROVE  Holds2
  BY <1>1, <1>8 DEF Finalize, FinalizeFails, PutSend, PutAcknowledged, PutFails,
     ConfirmPut, ConfirmPutFails, AttachFails, MarkCleanup, MarkIgnored, HandlerDies,
     Network, PutLands, PutIsLost, Deadlines, HoldLapses, CleanupFallsDue, LeaseLapses,
     uploadVars, sourceVars
<1>9. ASSUME NEW w \in Workers, WorkerRuns(w) \/ WorkerDies(w) PROVE Holds2
  BY <1>1, <1>9 DEF WorkerRuns, WorkerDies, ClaimJob, ClaimStale, OpenEnvelopeFails,
     ListVersions, DeleteVersions, StorageFails, ReportStarts, Complete, Fail,
     ReportRejected, uploadVars, sourceVars
<1>10. ASSUME NEW r \in Removals, ReadForRemoval(r) \/ RemoveFails(r) PROVE Holds2
  BY <1>1, <1>10 DEF ReadForRemoval, RemoveFails, uploadVars
<1>11. CASE UNCHANGED vars
  BY <1>1, <1>11 DEF vars, uploadVars, sourceVars
<1> QED BY <1>3, <1>4, <1>5, <1>6, <1>7, <1>8, <1>9, <1>10, <1>11
        DEF Next, UploadStep, RemovalStep

\* The intent that an attachment replaces is the one its row names.
LEMMA AttachReplaces ==
  ASSUME TypeOK, PointerMatchesIntent, NEW i \in Uploads, Attach(i)
  PROVE  pointer[SourceOf[i]] = PriorOf(i)
<1> DEFINE s == SourceOf[i]
           p == PriorOf(i)
           newStatus == [j \in Uploads |-> IF j = i THEN "ATTACHED"
                                           ELSE IF j = p THEN "CLEANUP_REQUIRED"
                                           ELSE status[j]]
<1>1. /\ status[i] = "PUT_CONFIRMED"
      /\ p # NoUpload => SourceOf[p] = s /\ status[p] = "ATTACHED"
      /\ PointerMayLeave(pointer[s], newStatus)
  BY DEF Attach
<1>2. p \in Uploads \cup {NoUpload} /\ s \in Sources
  BY PriorIsUpload
<1>3. pointer[s] \in Uploads \cup {NoUpload} BY <1>2 DEF TypeOK
<1>4. CASE p # NoUpload BY <1>1, <1>2, <1>4 DEF PointerMatchesIntent, Referenced
<1>5. CASE p = NoUpload /\ pointer[s] # NoUpload
  <2>1. pointer[s] \in Uploads /\ status[pointer[s]] = "ATTACHED"
    BY <1>2, <1>3, <1>5 DEF PointerMatchesIntent
  <2>2. pointer[s] # i /\ pointer[s] # p BY <1>1, <1>5, <2>1
  <2>3. newStatus[pointer[s]] = "ATTACHED" BY <2>1, <2>2
  <2> HIDE DEF newStatus
  <2> QED BY <1>1, <1>5, <2>3 DEF PointerMayLeave
<1> QED BY <1>4, <1>5

LEMMA ReplacementStep ==
  ASSUME TypeOK, PointerMatchesIntent, FormInv, [Next]_vars,
         NEW i \in Uploads, pointer[SourceOf[i]] # i, pointer'[SourceOf[i]] = i
  PROVE  pointer[SourceOf[i]] = prior[i]
<1>0. SourceOf[i] \in Sources /\ NoUpload \notin Uploads BY ConstantsAssumption
<1>1. ASSUME NEW j \in Uploads, Attach(j) PROVE pointer[SourceOf[i]] = prior[i]
  <2>1. i = j BY <1>0, <1>1, AttachedPointer
  <2>2. pointer[SourceOf[i]] = PriorOf(i) BY <1>1, <2>1, AttachReplaces
  <2>3. RowAccepts(i) BY <1>1, <2>1 DEF Attach
  <2>4. Kind(i) \in Kinds BY ConstantsAssumption DEF Kind
  <2>5. CASE Kind(i) = "PROFILE" BY <2>2, <2>5 DEF PriorOf
  <2>6. CASE Kind(i) = "EQUIPMENT" BY <2>3, <2>6 DEF RowAccepts, FormInv
  <2>7. CASE Kind(i) = "REPAIR" BY <2>2, <2>7 DEF PriorOf, FormInv
  <2> QED BY <2>4, <2>5, <2>6, <2>7 DEF Kinds
<1>2. ~ \E r \in Removals : Remove(r)
  BY <1>0, RemovedPointer
<1> QED BY <1>1, <1>2, PointerMoves

\* No save discards a photo it had not read: the profile's transaction is
\* rolled back by the deferred trigger, the equipment form by the row version.
THEOREM SavesReplaceWhatTheyRead == Spec => ReplacesWhatItRead
<1>1. Init => FormInv
  BY ConstantsAssumption DEF Init, FormInv
<1>2. ASSUME TypeOK, PointerMatchesIntent, FormInv, [Next]_vars
      PROVE  [\A i \in Uploads :
                LET s == SourceOf[i] IN
                pointer[s] # i /\ pointer'[s] = i => pointer[s] = prior[i]]_vars
  BY <1>2, ReplacementStep
<1> QED BY <1>1, <1>2, Typing, PointersAgree, FormStep, PTL DEF Spec, ReplacesWhatItRead

-----------------------------------------------------------------------------
(* Recorded absence.                                                       *)

\* The steps that move an intent or the bucket, and what each leaves alone.
LEMMA CustodyCases ==
  ASSUME [Next]_vars
  PROVE  \/ UNCHANGED <<status, bucket>>
         \/ \E i \in Uploads : /\ \/ Begin(i) \/ Finalize(i) \/ ConfirmPut(i)
                                  \/ MarkCleanup(i) \/ Attach(i)
                               /\ UNCHANGED bucket
         \/ \E i \in Uploads : PutLands(i) /\ UNCHANGED status
         \/ \E r \in Removals : Remove(r) /\ UNCHANGED bucket
         \/ \E w \in Workers : (ClaimStale(w) \/ Complete(w)) /\ UNCHANGED bucket
         \/ \E w \in Workers : (DeleteVersions(w) \/ StorageFails(w)) /\ UNCHANGED status
<1>1. CASE UNCHANGED vars
  BY <1>1 DEF vars, uploadVars, storageVars
<1>2. ASSUME NEW i \in Uploads,
             Begin(i) \/ Finalize(i) \/ ConfirmPut(i) \/ MarkCleanup(i) \/ Attach(i)
      PROVE  UNCHANGED bucket
  BY <1>2 DEF Begin, Finalize, ConfirmPut, MarkCleanup, Attach, storageVars
<1>3. ASSUME NEW i \in Uploads,
             \/ FinalizeFails(i) \/ PutSend(i) \/ PutAcknowledged(i) \/ PutFails(i)
             \/ ConfirmPutFails(i) \/ ReadProfile(i) \/ AttachFails(i) \/ MarkIgnored(i)
             \/ HandlerDies(i) \/ PutIsLost(i) \/ Deadlines(i)
      PROVE  UNCHANGED <<status, bucket>>
  BY <1>3 DEF FinalizeFails, PutSend, PutAcknowledged, PutFails, ConfirmPutFails,
     ReadProfile, AttachFails, MarkIgnored, HandlerDies, PutIsLost, Deadlines,
     HoldLapses, CleanupFallsDue, LeaseLapses, uploadVars, storageVars
<1>4. ASSUME NEW i \in Uploads, PutLands(i) PROVE UNCHANGED status
  BY <1>4 DEF PutLands, uploadVars
<1>5. ASSUME NEW r \in Removals PROVE
        /\ Remove(r) => UNCHANGED bucket
        /\ ReadForRemoval(r) \/ RemoveFails(r) => UNCHANGED <<status, bucket>>
  BY DEF Remove, ReadForRemoval, RemoveFails, uploadVars, storageVars
<1>6. ASSUME NEW s \in Sources, EditEquipment(s) PROVE UNCHANGED <<status, bucket>>
  BY <1>6 DEF EditEquipment, storageVars
<1>7. ASSUME NEW w \in Workers PROVE
        /\ ClaimStale(w) \/ Complete(w) => UNCHANGED bucket
        /\ DeleteVersions(w) \/ StorageFails(w) => UNCHANGED status
  BY DEF ClaimStale, Complete, DeleteVersions, StorageFails, uploadVars, storageVars
<1>8. ASSUME NEW w \in Workers,
             \/ ClaimJob(w) \/ OpenEnvelopeFails(w) \/ ListVersions(w)
             \/ ReportStarts(w) \/ Fail(w) \/ ReportRejected(w) \/ WorkerDies(w)
      PROVE  UNCHANGED <<status, bucket>>
  BY <1>8 DEF ClaimJob, OpenEnvelopeFails, ListVersions, ReportStarts, Fail,
     ReportRejected, WorkerDies, uploadVars, storageVars
<1>9. CASE Next
  BY <1>2, <1>3, <1>4, <1>5, <1>6, <1>7, <1>8, <1>9
     DEF Next, UploadStep, RemovalStep, Network, WorkerRuns
<1> QED BY <1>1, <1>9

\* With no request of its own on the way, a key only loses versions.
LEMMA BucketShrinks ==
  ASSUME TypeOK, [Next]_vars, NEW i \in Uploads, inflight[i] = {}
  PROVE  bucket'[i] \subseteq bucket[i]
<1>1. ASSUME NEW j \in Uploads, PutLands(j) PROVE bucket'[i] = bucket[i]
  <2>1. j # i BY <1>1 DEF PutLands
  <2> QED BY <1>1, <2>1 DEF PutLands, TypeOK
<1>2. ASSUME NEW j, NEW gone, bucket' = [bucket EXCEPT ![j] = @ \ gone]
      PROVE  bucket'[i] \subseteq bucket[i]
  BY <1>2 DEF TypeOK
<1>3. ASSUME NEW w \in Workers, DeleteVersions(w) \/ StorageFails(w)
      PROVE  bucket'[i] \subseteq bucket[i]
  BY <1>2, <1>3 DEF DeleteVersions, StorageFails
<1> QED BY <1>1, <1>3, CustodyCases

\* While a request is on the way, or its handler is about to send one, the
\* intent is still PREPARED and cleanup is not due: that is what
\* LatePuts = FALSE says of the clocks, and what the deletion rests on.
SettledInv ==
  \A i \in Uploads :
    /\ inflight[i] # {} => pc[i] \in {"putting", "dead"}
    /\ inflight[i] # {} \/ pc[i] \in {"prepared", "putting"} =>
         status[i] = "PREPARED" /\ ~due[i]
    /\ status[i] = "NONE" => hold[i] = "NONE"
    /\ due[i] => hold[i] \in {"LAPSED", "RELEASED"}

\* A worker that is going to report absence has seen the key empty.
AbsenceInv ==
  /\ AbsenceHolds
  /\ \A w \in Workers : worker[w].pc # "idle" /\ worker[w].verdict = "ABSENT" =>
        bucket[worker[w].job] = {}

LEMMA SettledStep ==
  LatePuts = FALSE /\ TypeOK /\ SettledInv /\ [Next]_vars => SettledInv'
<1> SUFFICES ASSUME LatePuts = FALSE, TypeOK, SettledInv, [Next]_vars, NEW i \in Uploads
             PROVE  /\ inflight'[i] # {} => pc'[i] \in {"putting", "dead"}
                    /\ inflight'[i] # {} \/ pc'[i] \in {"prepared", "putting"} =>
                         status'[i] = "PREPARED" /\ ~due'[i]
                    /\ status'[i] = "NONE" => hold'[i] = "NONE"
                    /\ due'[i] => hold'[i] \in {"LAPSED", "RELEASED"}
  BY DEF SettledInv
<1> DEFINE Settled2 ==
             /\ inflight'[i] # {} => pc'[i] \in {"putting", "dead"}
             /\ inflight'[i] # {} \/ pc'[i] \in {"prepared", "putting"} =>
                  status'[i] = "PREPARED" /\ ~due'[i]
             /\ status'[i] = "NONE" => hold'[i] = "NONE"
             /\ due'[i] => hold'[i] \in {"LAPSED", "RELEASED"}
<1>0. /\ inflight[i] # {} => pc[i] \in {"putting", "dead"}
      /\ inflight[i] # {} \/ pc[i] \in {"prepared", "putting"} =>
           status[i] = "PREPARED" /\ ~due[i]
      /\ status[i] = "NONE" => hold[i] = "NONE"
      /\ due[i] => hold[i] \in {"LAPSED", "RELEASED"}
  BY DEF SettledInv
<1> USE DEF TypeOK
<1>1. CASE UNCHANGED <<inflight, pc, status, due, hold>>
  BY <1>0, <1>1
\* Most steps of a handler only move it on, to a step that sends nothing.
<1>2. ASSUME NEW j \in Uploads, NEW step \in HandlerSteps \ {"prepared", "putting"},
             pc' = [pc EXCEPT ![j] = step], inflight[j] = {} \/ step = "dead",
             UNCHANGED <<inflight, status, due, hold>>
      PROVE  Settled2
  BY <1>0, <1>2
<1>3. ASSUME NEW j \in Uploads, Begin(j) PROVE Settled2
  BY <1>0, <1>3 DEF Begin, Goto, storageVars
<1>4. ASSUME NEW j \in Uploads, Finalize(j) PROVE Settled2
  BY <1>0, <1>4 DEF Finalize, Goto, storageVars
<1>5. ASSUME NEW j \in Uploads, PutSend(j) PROVE Settled2
  BY <1>0, <1>5 DEF PutSend, Goto
<1>6. ASSUME NEW j \in Uploads, ConfirmPut(j) PROVE Settled2
  BY <1>0, <1>6 DEF ConfirmPut, Goto, storageVars
<1>7. ASSUME NEW j \in Uploads, MarkCleanup(j) PROVE Settled2
  BY <1>0, <1>7 DEF MarkCleanup, Markable, Goto, storageVars
<1>8. ASSUME NEW j \in Uploads, Attach(j) PROVE Settled2
  <2>1. /\ status[j] = "PUT_CONFIRMED" /\ hold' = [hold EXCEPT ![j] = "RELEASED"]
        /\ UNCHANGED <<due, inflight>>
    BY <1>8 DEF Attach, storageVars
  <2>2. \E step \in {"done", "failing"} : pc' = [pc EXCEPT ![j] = step]
    BY <1>8 DEF Attach, Goto
  <2>3. \/ status'[i] = status[i]
        \/ status[i] \in {"ATTACHED", "PUT_CONFIRMED"} /\ status'[i] # "NONE"
    <3> DEFINE p == PriorOf(j)
    <3>1. /\ p # NoUpload => status[p] = "ATTACHED"
          /\ status' = [x \in Uploads |-> IF x = j THEN "ATTACHED"
                                          ELSE IF x = p THEN "CLEANUP_REQUIRED"
                                          ELSE status[x]]
      BY <1>8 DEF Attach
    <3> HIDE DEF p
    <3> QED BY <2>1, <3>1, ConstantsAssumption
  <2> QED BY <1>0, <2>1, <2>2, <2>3
<1>9. ASSUME NEW j \in Uploads,
             \/ FinalizeFails(j) \/ PutAcknowledged(j) \/ PutFails(j)
             \/ ConfirmPutFails(j) \/ ReadProfile(j) \/ AttachFails(j)
             \/ MarkIgnored(j) \/ HandlerDies(j)
      PROVE  Settled2
  <2>1. \/ inflight[j] = {}
        \/ HandlerDies(j)
    BY <1>9 DEF SettledInv, FinalizeFails, PutAcknowledged, PutFails, ConfirmPutFails,
       ReadProfile, AttachFails, MarkIgnored, PutsSettled
  <2>2. UNCHANGED <<inflight, status, due, hold>>
    BY <1>9 DEF FinalizeFails, PutAcknowledged, PutFails, ConfirmPutFails, ReadProfile,
       AttachFails, MarkIgnored, HandlerDies, storageVars
  <2>3. CASE HandlerDies(j)
    BY <1>2, <2>2, <2>3 DEF HandlerDies, Goto, HandlerSteps
  <2>4. CASE ~HandlerDies(j)
    BY <1>2, <1>9, <2>1, <2>2, <2>4 DEF FinalizeFails, PutAcknowledged, PutFails,
       ConfirmPutFails, ReadProfile, AttachFails, MarkIgnored, Goto, HandlerSteps
  <2> QED BY <2>3, <2>4
<1>10. ASSUME NEW j \in Uploads, Network(j) PROVE Settled2
  BY <1>0, <1>10 DEF Network, PutLands, PutIsLost, uploadVars
<1>11. ASSUME NEW j \in Uploads, HoldLapses(j) PROVE Settled2
  BY <1>0, <1>11 DEF HoldLapses, storageVars
<1>12. ASSUME NEW j \in Uploads, CleanupFallsDue(j) PROVE Settled2
  BY <1>0, <1>12 DEF CleanupFallsDue, PutsSettled, storageVars
<1>13. ASSUME NEW j \in Uploads, LeaseLapses(j) PROVE Settled2
  BY <1>1, <1>13 DEF LeaseLapses, uploadVars, storageVars
<1>14. ASSUME NEW s \in Sources, EditEquipment(s) PROVE Settled2
  BY <1>1, <1>14 DEF EditEquipment, storageVars
<1>15. ASSUME NEW r \in Removals, RemovalStep(r) PROVE Settled2
  <2>1. CASE ReadForRemoval(r) \/ RemoveFails(r)
    BY <1>1, <2>1 DEF ReadForRemoval, RemoveFails, uploadVars, storageVars
  <2>2. CASE Remove(r)
    <3>1. /\ UNCHANGED <<due, hold, pc, inflight>>
          /\ status[rprior[r]] \in {"ATTACHED", "CLEANUP_REQUIRED"}
          /\ status' = [status EXCEPT ![rprior[r]] = "CLEANUP_REQUIRED"]
      BY <2>2 DEF Remove, storageVars
    <3> QED BY <1>0, <3>1
  <2> QED BY <1>15, <2>1, <2>2 DEF RemovalStep
<1>16. ASSUME NEW w \in Workers, ClaimStale(w) PROVE Settled2
  <2>1. PICK j \in Stale : /\ status' = [status EXCEPT ![j] = "CLEANUP_REQUIRED"]
                           /\ hold' = [hold EXCEPT ![j] = "RELEASED"]
    BY <1>16 DEF ClaimStale
  <2>2. j \in Uploads /\ due[j] BY <2>1 DEF Stale
  <2>3. UNCHANGED <<inflight, pc, due>> BY <1>16 DEF ClaimStale, storageVars
  <2>4. inflight[j] = {} /\ pc[j] \notin {"prepared", "putting"}
    BY <2>2 DEF SettledInv
  <2> QED BY <1>0, <2>1, <2>2, <2>3, <2>4
<1>17. ASSUME NEW w \in Workers, Complete(w) PROVE Settled2
  <2>1. /\ status[worker[w].job] = "CLEANUP_REQUIRED"
        /\ status' = [status EXCEPT ![worker[w].job] = "ABSENCE_VERIFIED"]
        /\ UNCHANGED <<inflight, pc, due, hold>>
    BY <1>17 DEF Complete, storageVars
  <2> QED BY <1>0, <2>1
<1>18. ASSUME NEW w \in Workers,
              \/ ClaimJob(w) \/ OpenEnvelopeFails(w) \/ ListVersions(w) \/ DeleteVersions(w)
              \/ StorageFails(w) \/ ReportStarts(w) \/ Fail(w) \/ ReportRejected(w)
              \/ WorkerDies(w)
       PROVE  Settled2
  BY <1>1, <1>18 DEF ClaimJob, OpenEnvelopeFails, ListVersions, DeleteVersions,
     StorageFails, ReportStarts, Fail, ReportRejected, WorkerDies, uploadVars, storageVars
<1>19. CASE UNCHANGED vars
  BY <1>1, <1>19 DEF vars, uploadVars, storageVars
<1> QED BY <1>3, <1>4, <1>5, <1>6, <1>7, <1>8, <1>9, <1>10, <1>11, <1>12, <1>13,
           <1>14, <1>15, <1>16, <1>17, <1>18, <1>19
        DEF Next, UploadStep, Deadlines, WorkerRuns

\* A verdict of absence comes from a listing that found nothing.
LEMMA VerdictMoves ==
  ASSUME TypeOK, [Next]_vars, NEW v \in Workers,
         worker'[v].pc # "idle", worker'[v].verdict = "ABSENT"
  PROVE  /\ worker[v].pc # "idle"
         /\ worker'[v].job = worker[v].job
         /\ worker[v].verdict = "ABSENT" \/ bucket[worker[v].job] = {}
<1> DEFINE Goal == /\ worker[v].pc # "idle"
                   /\ worker'[v].job = worker[v].job
                   /\ worker[v].verdict = "ABSENT" \/ bucket[worker[v].job] = {}
<1> USE DEF TypeOK
<1>1. CASE worker'[v] = worker[v]
  BY <1>1
<1>2. ASSUME NEW w \in Workers, NEW n, worker' = [worker EXCEPT ![w] = n],
             \/ n.pc = "idle" \/ n.verdict # "ABSENT"
             \/ /\ worker[w].pc # "idle" /\ n.job = worker[w].job
                /\ worker[w].verdict = "ABSENT" \/ bucket[worker[w].job] = {}
      PROVE  Goal
  <2>1. CASE w = v BY <1>2, <2>1
  <2>2. CASE w # v BY <1>1, <1>2, <2>2
  <2> QED BY <2>1, <2>2
<1>3. ASSUME NEW w \in Workers, NEW i, NEW jobs, Lease(w, jobs, i) PROVE Goal
  BY <1>2, <1>3 DEF Lease, Becomes
<1>4. ASSUME NEW w \in Workers, ClaimJob(w) \/ ClaimStale(w) PROVE Goal
  BY <1>3, <1>4 DEF ClaimJob, ClaimStale
<1>5. ASSUME NEW w \in Workers, Complete(w) \/ Fail(w) \/ ReportRejected(w) \/ WorkerDies(w)
      PROVE  Goal
  <2>1. worker' = [worker EXCEPT ![w] = IdleWorker] /\ IdleWorker.pc = "idle"
    BY <1>5 DEF Complete, Fail, ReportRejected, WorkerDies, Becomes, IdleWorker
  <2> QED BY <1>2, <2>1
<1>6. ASSUME NEW w \in Workers, worker[w].pc # "idle" PROVE worker[w] \in BusyWorkers
  BY <1>6 DEF IdleWorker
<1>7. ASSUME NEW w \in Workers, worker[w].pc # "idle", NEW x, Conclude(w, x),
             x # "ABSENT" \/ bucket[worker[w].job] = {}
      PROVE  Goal
  <2> DEFINE n == [worker[w] EXCEPT !.pc = "reporting", !.listed = {}, !.verdict = x]
  <2>1. n.job = worker[w].job /\ n.verdict = x BY <1>6, <1>7 DEF BusyWorkers
  <2>2. worker' = [worker EXCEPT ![w] = n] BY <1>7 DEF Conclude, Becomes
  <2> HIDE DEF n
  <2> QED BY <1>2, <1>7, <2>1, <2>2
<1>8. ASSUME NEW w \in Workers, OpenEnvelopeFails(w) \/ StorageFails(w) PROVE Goal
  BY <1>7, <1>8 DEF OpenEnvelopeFails, StorageFails, Failure
\* A listing that deletes next, or a first empty one, keeps the verdict.
<1>9. ASSUME NEW w \in Workers, worker[w].pc # "idle", NEW n,
             worker' = [worker EXCEPT ![w] = n],
             n.job = worker[w].job, n.verdict = worker[w].verdict
      PROVE  Goal
  <2>1. CASE w = v BY <1>9, <2>1
  <2>2. CASE w # v BY <1>1, <1>9, <2>2
  <2> QED BY <2>1, <2>2
<1>10. ASSUME NEW w \in Workers, ListVersions(w) PROVE Goal
  <2>1. worker[w].pc # "idle" BY <1>10 DEF ListVersions
  <2>2. worker[w] \in BusyWorkers BY <1>6, <2>1
  <2>3. \/ bucket[worker[w].job] = {} /\ Conclude(w, "ABSENT")
        \/ Conclude(w, Failure(w))
        \/ worker' = [worker EXCEPT ![w] = [worker[w] EXCEPT !.empties = 1]]
        \/ \E found, known :
             worker' = [worker EXCEPT ![w] = [worker[w] EXCEPT !.pc = "deleting",
                                               !.listed = found, !.known = known]]
    BY <1>10 DEF ListVersions, Becomes
  <2>4. CASE \/ bucket[worker[w].job] = {} /\ Conclude(w, "ABSENT")
             \/ Conclude(w, Failure(w))
    <3>1. Failure(w) # "ABSENT" BY DEF Failure
    <3> QED BY <1>7, <2>1, <2>4, <3>1
  <2>5. CASE worker' = [worker EXCEPT ![w] = [worker[w] EXCEPT !.empties = 1]]
    <3> DEFINE n == [worker[w] EXCEPT !.empties = 1]
    <3>1. n.job = worker[w].job /\ n.verdict = worker[w].verdict BY <2>2 DEF BusyWorkers
    <3>2. worker' = [worker EXCEPT ![w] = n] BY <2>5
    <3> HIDE DEF n
    <3> QED BY <1>9, <2>1, <3>1, <3>2
  <2>6. ASSUME NEW found, NEW known,
               worker' = [worker EXCEPT ![w] = [worker[w] EXCEPT !.pc = "deleting",
                                                 !.listed = found, !.known = known]]
        PROVE  Goal
    <3> DEFINE n == [worker[w] EXCEPT !.pc = "deleting", !.listed = found, !.known = known]
    <3>1. n.job = worker[w].job /\ n.verdict = worker[w].verdict BY <2>2 DEF BusyWorkers
    <3>2. worker' = [worker EXCEPT ![w] = n] BY <2>6
    <3> HIDE DEF n
    <3> QED BY <1>9, <2>1, <3>1, <3>2
  <2> QED BY <2>3, <2>4, <2>5, <2>6
<1>11. ASSUME NEW w \in Workers, DeleteVersions(w) PROVE Goal
  <2> DEFINE n == [worker[w] EXCEPT !.pc = "listing", !.listed = {}]
  <2>1. worker[w].pc # "idle" BY <1>11 DEF DeleteVersions
  <2>2. n.job = worker[w].job /\ n.verdict = worker[w].verdict
    BY <1>6, <2>1 DEF BusyWorkers
  <2>3. worker' = [worker EXCEPT ![w] = n] BY <1>11 DEF DeleteVersions, Becomes
  <2> HIDE DEF n
  <2> QED BY <1>9, <2>1, <2>2, <2>3
<1>12. ASSUME NEW w \in Workers, ReportStarts(w) PROVE Goal
  <2> DEFINE inTime == leased[worker[w].job] /\ epoch[worker[w].job] = worker[w].epoch
             n == [worker[w] EXCEPT !.pc = "committing", !.inTime = inTime]
  <2>1. worker[w].pc # "idle" BY <1>12 DEF ReportStarts
  <2>2. worker' = [worker EXCEPT ![w] = n] BY <1>12 DEF ReportStarts, Becomes
  <2> HIDE DEF inTime
  <2>3. n.job = worker[w].job /\ n.verdict = worker[w].verdict
    BY <1>6, <2>1 DEF BusyWorkers
  <2> HIDE DEF n
  <2> QED BY <1>9, <2>1, <2>2, <2>3
<1>13. ASSUME NEW i \in Uploads, UploadStep(i) \/ Network(i) \/ Deadlines(i)
       PROVE  worker' = worker
  BY <1>13 DEF UploadStep, Network, Deadlines, Begin, Finalize, FinalizeFails, PutSend,
     PutLands, PutIsLost, PutAcknowledged, PutFails, ConfirmPut, ConfirmPutFails,
     ReadProfile, Attach, AttachFails, MarkCleanup, MarkIgnored, HandlerDies,
     HoldLapses, CleanupFallsDue, LeaseLapses
<1>14. ASSUME NEW r \in Removals, RemovalStep(r) PROVE worker' = worker
  BY <1>14 DEF RemovalStep, ReadForRemoval, Remove, RemoveFails
<1>15. ASSUME NEW s \in Sources, EditEquipment(s) PROVE worker' = worker
  BY <1>15 DEF EditEquipment
<1>16. CASE UNCHANGED vars
  BY <1>1, <1>16 DEF vars
<1> QED BY <1>1, <1>4, <1>5, <1>8, <1>10, <1>11, <1>12, <1>13, <1>14, <1>15, <1>16
        DEF Next, WorkerRuns

LEMMA AbsenceStep ==
  LatePuts = FALSE /\ TypeOK /\ StorageInv /\ SettledInv /\ AbsenceInv /\ [Next]_vars
    => AbsenceInv'
<1> SUFFICES ASSUME LatePuts = FALSE, TypeOK, StorageInv, SettledInv, AbsenceInv,
                    [Next]_vars
             PROVE  AbsenceInv'
  OBVIOUS
\* Nothing more reaches the key of a condemned upload.
<1>1. ASSUME NEW i \in Uploads, status[i] \in Condemned, bucket[i] = {}
      PROVE  bucket'[i] = {}
  <2>1. inflight[i] = {} BY <1>1 DEF SettledInv, Condemned
  <2> QED BY <1>1, <2>1, BucketShrinks
<1>2. ASSUME NEW w \in Workers, worker'[w].pc # "idle", worker'[w].verdict = "ABSENT"
      PROVE  bucket'[worker'[w].job] = {}
  <2>1. /\ worker[w].pc # "idle" /\ worker'[w].job = worker[w].job
        /\ worker[w].verdict = "ABSENT" \/ bucket[worker[w].job] = {}
    BY <1>2, VerdictMoves
  <2>2. worker[w].job \in Uploads
    BY <2>1 DEF TypeOK, BusyWorkers, IdleWorker
  <2>3. status[worker[w].job] \in Condemned BY <2>1 DEF StorageInv
  <2>4. bucket[worker[w].job] = {} BY <2>1 DEF AbsenceInv
  <2> QED BY <1>1, <2>1, <2>2, <2>3, <2>4
<1>3. ASSUME NEW i \in Uploads, status'[i] = "ABSENCE_VERIFIED" PROVE bucket'[i] = {}
  <2>1. CASE status[i] = "ABSENCE_VERIFIED"
    BY <1>1, <2>1 DEF AbsenceInv, AbsenceHolds, Condemned
  <2>2. ASSUME NEW w \in Workers, Complete(w), UNCHANGED bucket PROVE bucket'[i] = {}
    <3>1. /\ worker[w].pc # "idle" /\ worker[w].verdict = "ABSENT"
          /\ status' = [status EXCEPT ![worker[w].job] = "ABSENCE_VERIFIED"]
      BY <2>2 DEF Complete
    <3>2. CASE worker[w].job = i BY <2>2, <3>1, <3>2 DEF AbsenceInv
    <3>3. CASE worker[w].job # i BY <1>3, <2>1, <3>1, <3>3 DEF TypeOK
    <3> QED BY <3>2, <3>3
  <2>3. ASSUME NEW j \in Uploads,
               Begin(j) \/ Finalize(j) \/ ConfirmPut(j) \/ MarkCleanup(j) \/ Attach(j)
        PROVE  status'[i] = status[i] \/ status'[i] # "ABSENCE_VERIFIED"
    BY <2>3 DEF Begin, Finalize, ConfirmPut, MarkCleanup, Attach, TypeOK
  <2>4. ASSUME NEW r \in Removals, Remove(r)
        PROVE  status'[i] = status[i] \/ status'[i] # "ABSENCE_VERIFIED"
    BY <2>4 DEF Remove, TypeOK
  <2>5. ASSUME NEW w \in Workers, ClaimStale(w)
        PROVE  status'[i] = status[i] \/ status'[i] # "ABSENCE_VERIFIED"
    BY <2>5 DEF ClaimStale, TypeOK
  <2> QED BY <1>3, <2>1, <2>2, <2>3, <2>4, <2>5, CustodyCases
<1> QED BY <1>2, <1>3 DEF AbsenceInv, AbsenceHolds

\* If no PUT lands once its caller has an answer or 24 hours have passed, absence
\* on record is true for good.  A later one would store a version after the last
\* listing: the hypothesis is what the code trusts the network with.
THEOREM AbsenceIsTrue ==
  ASSUME LatePuts = FALSE
  PROVE  Spec => []AbsenceHolds
<1>1. Init => SettledInv /\ AbsenceInv
  BY DEF Init, SettledInv, AbsenceInv, AbsenceHolds, IdleWorker
<1>2. TypeOK /\ SettledInv /\ [Next]_vars => SettledInv'
  BY SettledStep
<1>3. TypeOK /\ StorageInv /\ SettledInv /\ AbsenceInv /\ [Next]_vars => AbsenceInv'
  BY AbsenceStep
<1>4. Init => StorageInv
  BY DEF Init, StorageInv, IdleWorker
<1>5. AbsenceInv => AbsenceHolds
  BY DEF AbsenceInv
<1> QED BY <1>1, <1>2, <1>3, <1>4, <1>5, Typing, JobsAgree, StorageStep, PTL DEF Spec

-----------------------------------------------------------------------------
(***************************************************************************)
(* Uploads, removals and cleanup implement ObjectCustody.  The mapping     *)
(* needs that an object is named before its bytes are sent (NamedInv), that *)
(* what an attachment confirmed is stored, and that workers delete from    *)
(* condemned objects only (StorageInv).                                    *)
(***************************************************************************)
Unnamed == {"NONE", "RESERVED"}

NamedInv ==
  \A i \in Uploads :
    inflight[i] # {} \/ pc[i] \in {"prepared", "putting"} => status[i] \notin Unnamed

\* A locator on record stays on record.
LEMMA NamedForGood ==
  ASSUME TypeOK, [Next]_vars, NEW i \in Uploads, status[i] \notin Unnamed
  PROVE  status'[i] \notin Unnamed
<1> USE DEF TypeOK, Unnamed
<1>1. ASSUME NEW j \in Uploads, Begin(j) \/ Finalize(j) \/ ConfirmPut(j)
      PROVE  status'[i] \notin Unnamed
  BY <1>1 DEF Begin, Finalize, ConfirmPut
<1>2. ASSUME NEW j \in Uploads, MarkCleanup(j) \/ Attach(j)
      PROVE  status'[i] \notin Unnamed
  BY <1>2 DEF MarkCleanup, Attach
<1>3. ASSUME NEW r \in Removals, Remove(r) PROVE status'[i] \notin Unnamed
  BY <1>3 DEF Remove
<1>4. ASSUME NEW w \in Workers, ClaimStale(w) \/ Complete(w)
      PROVE  status'[i] \notin Unnamed
  BY <1>4 DEF ClaimStale, Complete
<1> QED BY <1>1, <1>2, <1>3, <1>4, CustodyCases

LEMMA NamedStep == TypeOK /\ NamedInv /\ [Next]_vars => NamedInv'
<1> SUFFICES ASSUME TypeOK, NamedInv, [Next]_vars, NEW i \in Uploads,
                    inflight'[i] # {} \/ pc'[i] \in {"prepared", "putting"}
             PROVE  status'[i] \notin Unnamed
  BY DEF NamedInv
<1>1. CASE inflight[i] # {} \/ pc[i] \in {"prepared", "putting"}
  BY <1>1, NamedForGood DEF NamedInv
<1>2. CASE inflight[i] = {} /\ pc[i] \notin {"prepared", "putting"}
  <2> USE DEF TypeOK
  <2>1. \E j \in Uploads : Finalize(j)
    <3>1. ASSUME NEW j \in Uploads, PutSend(j) PROVE FALSE
      BY <1>2, <3>1 DEF PutSend, Goto
    <3>2. ASSUME NEW j \in Uploads, Network(j) PROVE FALSE
      BY <1>2, <3>2 DEF Network, PutLands, PutIsLost, uploadVars
    <3>3. ASSUME NEW j \in Uploads, Deadlines(j) PROVE FALSE
      BY <1>2, <3>3 DEF Deadlines, HoldLapses, CleanupFallsDue, LeaseLapses,
         uploadVars, storageVars
    <3>4. ASSUME NEW j \in Uploads, NEW step \in HandlerSteps \ {"prepared", "putting"},
                 Goto(j, step), UNCHANGED inflight
          PROVE  FALSE
      BY <1>2, <3>4 DEF Goto
    <3>5. ASSUME NEW j \in Uploads, UploadStep(j), ~Finalize(j) PROVE FALSE
      BY <3>1, <3>4, <3>5 DEF UploadStep, Begin, FinalizeFails, PutAcknowledged,
         PutFails, ConfirmPut, ConfirmPutFails, ReadProfile, Attach, AttachFails,
         MarkCleanup, MarkIgnored, HandlerDies, storageVars, HandlerSteps
    <3>6. ASSUME NEW s \in Sources, EditEquipment(s) PROVE FALSE
      BY <1>2, <3>6 DEF EditEquipment, storageVars
    <3>7. ASSUME NEW r \in Removals, RemovalStep(r) PROVE FALSE
      BY <1>2, <3>7 DEF RemovalStep, ReadForRemoval, Remove, RemoveFails,
         uploadVars, storageVars
    <3>8. ASSUME NEW w \in Workers, WorkerRuns(w) \/ WorkerDies(w) PROVE FALSE
      BY <1>2, <3>8 DEF WorkerRuns, WorkerDies, ClaimJob, ClaimStale,
         OpenEnvelopeFails, ListVersions, DeleteVersions, StorageFails, ReportStarts,
         Complete, Fail, ReportRejected, uploadVars, storageVars
    <3>9. ~UNCHANGED vars
      BY <1>2 DEF vars, uploadVars, storageVars
    <3> QED BY <3>2, <3>3, <3>5, <3>6, <3>7, <3>8, <3>9 DEF Next
  <2>2. PICK j \in Uploads : Finalize(j) BY <2>1
  <2>3. j = i BY <1>2, <2>2 DEF Finalize, Goto, storageVars
  <2> QED BY <2>2, <2>3 DEF Finalize, Unnamed
<1> QED BY <1>1, <1>2

\* The objects the bucket holds.
Stored == {i \in Uploads : bucket[i] # {}}

\* custody, status by status.
CustodyOf(st) == CASE st \in Unnamed                       -> "NEW"
                   [] st \in {"PREPARED", "PUT_CONFIRMED"} -> "STAGED"
                   [] st = "ATTACHED"                      -> "LIVE"
                   [] st = "CLEANUP_REQUIRED"              -> "CONDEMNED"
                   [] st = "ABSENCE_VERIFIED"              -> "GONE"

LEMMA CustodyValues ==
  /\ \A st \in Unnamed : CustodyOf(st) = "NEW"
  /\ CustodyOf("PREPARED") = "STAGED" /\ CustodyOf("PUT_CONFIRMED") = "STAGED"
  /\ CustodyOf("ATTACHED") = "LIVE"
  /\ CustodyOf("CLEANUP_REQUIRED") = "CONDEMNED"
  /\ CustodyOf("ABSENCE_VERIFIED") = "GONE"
  /\ \A st \in Statuses : CustodyOf(st) = "LIVE" <=> st = "ATTACHED"
BY DEF CustodyOf, Unnamed, Statuses

LEMMA CustodyIs ==
  /\ custody = [i \in Uploads |-> CustodyOf(status[i])]
  /\ custody' = [i \in Uploads |-> CustodyOf(status'[i])]
BY DEF custody, CustodyOf, Unnamed

\* What a change of one intent is to ObjectCustody.
LEMMA CustodyMoves ==
  ASSUME TypeOK, NEW i \in Uploads, NEW st, status' = [status EXCEPT ![i] = st]
  PROVE  /\ custody[i] = CustodyOf(status[i])
         /\ custody' = [custody EXCEPT ![i] = CustodyOf(st)]
         /\ CustodyOf(st) = CustodyOf(status[i]) => custody' = custody
<1>1. \A j \in Uploads : status'[j] = IF j = i THEN st ELSE status[j]
  BY DEF TypeOK
<1> QED BY <1>1, CustodyIs

\* The steps that stage, publish or condemn an object.
LEMMA UploadRefines ==
  ASSUME TypeOK, PointerMatchesIntent, StorageInv, NEW i \in Uploads, UNCHANGED bucket,
         Begin(i) \/ Finalize(i) \/ ConfirmPut(i) \/ MarkCleanup(i) \/ Attach(i)
  PROVE  [Custody!Next]_(Custody!vars)
<1>0. UNCHANGED Stored BY DEF Stored
<1>1. CASE Begin(i)
  <2>1. custody' = custody
    <3>1. status' = [status EXCEPT ![i] = "RESERVED"] /\ status[i] \in {"NONE"}
      BY <1>1 DEF Begin
    <3>2. /\ custody[i] = CustodyOf(status[i])
          /\ custody' = [custody EXCEPT ![i] = CustodyOf("RESERVED")]
          /\ CustodyOf("RESERVED") = CustodyOf(status[i]) => custody' = custody
      BY <3>1, CustodyMoves
    <3> QED BY <3>1, <3>2, CustodyValues DEF Unnamed
  <2> QED BY <1>0, <2>1 DEF Custody!vars, Stored
<1>2. CASE Finalize(i)
  <2>1. custody[i] = "NEW" /\ custody' = [custody EXCEPT ![i] = "STAGED"]
    <3>1. status' = [status EXCEPT ![i] = "PREPARED"] /\ status[i] \in {"RESERVED"}
      BY <1>2 DEF Finalize
    <3>2. /\ custody[i] = CustodyOf(status[i])
          /\ custody' = [custody EXCEPT ![i] = CustodyOf("PREPARED")]
          /\ CustodyOf("PREPARED") = CustodyOf(status[i]) => custody' = custody
      BY <3>1, CustodyMoves
    <3> QED BY <3>1, <3>2, CustodyValues DEF Unnamed
  <2>2. Custody!Stage(i)
    BY <1>0, <2>1 DEF Custody!Stage, Custody!Become, Stored
  <2> QED BY <2>2 DEF Custody!Next
<1>3. CASE ConfirmPut(i)
  <2>1. custody' = custody
    <3>1. status' = [status EXCEPT ![i] = "PUT_CONFIRMED"] /\ status[i] \in {"PREPARED"}
      BY <1>3 DEF ConfirmPut
    <3>2. /\ custody[i] = CustodyOf(status[i])
          /\ custody' = [custody EXCEPT ![i] = CustodyOf("PUT_CONFIRMED")]
          /\ CustodyOf("PUT_CONFIRMED") = CustodyOf(status[i]) => custody' = custody
      BY <3>1, CustodyMoves
    <3> QED BY <3>1, <3>2, CustodyValues
  <2> QED BY <1>0, <2>1 DEF Custody!vars, Stored
<1>4. CASE MarkCleanup(i)
  <2>1. custody[i] = "STAGED" /\ custody' = [custody EXCEPT ![i] = "CONDEMNED"]
    <3>1. status' = [status EXCEPT ![i] = "CLEANUP_REQUIRED"] /\ status[i] \in {"PREPARED", "PUT_CONFIRMED"}
      BY <1>4 DEF MarkCleanup, Markable
    <3>2. /\ custody[i] = CustodyOf(status[i])
          /\ custody' = [custody EXCEPT ![i] = CustodyOf("CLEANUP_REQUIRED")]
          /\ CustodyOf("CLEANUP_REQUIRED") = CustodyOf(status[i]) => custody' = custody
      BY <3>1, CustodyMoves
    <3> QED BY <3>1, <3>2, CustodyValues
  <2>2. Custody!Condemn(i)
    BY <1>0, <2>1 DEF Custody!Condemn, Custody!Become, Stored
  <2> QED BY <2>2 DEF Custody!Next
<1>5. CASE Attach(i)
  <2> DEFINE s == SourceOf[i]
             p == PriorOf(i)
  <2>1. /\ status[i] = "PUT_CONFIRMED"
        /\ p # NoUpload => SourceOf[p] = s /\ status[p] = "ATTACHED"
        /\ status' = [j \in Uploads |-> IF j = i THEN "ATTACHED"
                                        ELSE IF j = p THEN "CLEANUP_REQUIRED"
                                        ELSE status[j]]
    BY <1>5 DEF Attach
  <2>2. pointer[s] = p BY <1>5, AttachReplaces
  <2> HIDE DEF p
  \* The one live object of the row is the one that is replaced.
  <2>3. ASSUME NEW j \in Uploads
        PROVE  j = p <=> SourceOf[j] = s /\ status[j] = "ATTACHED"
    BY <2>1, <2>2, ConstantsAssumption DEF PointerMatchesIntent, Referenced
  <2> HIDE DEF s
  <2>4. \A j \in Uploads :
          custody'[j] = IF j = i THEN "LIVE"
                        ELSE IF SourceOf[j] = s /\ custody[j] = "LIVE"
                        THEN "CONDEMNED" ELSE custody[j]
    <3>1. \A j \in Uploads : status'[j] = IF j = i THEN "ATTACHED"
                                          ELSE IF j = p THEN "CLEANUP_REQUIRED"
                                          ELSE status[j]
      BY <2>1
    <3>2. \A j \in Uploads : custody[j] = "LIVE" <=> status[j] = "ATTACHED"
      BY CustodyIs, CustodyValues DEF TypeOK
    <3>3. \A j \in Uploads : j # i /\ j # p => custody'[j] = custody[j]
      BY <3>1, CustodyIs
    <3>4. custody'[i] = "LIVE" BY <3>1, CustodyIs, CustodyValues
    <3>5. p \in Uploads /\ p # i => custody'[p] = "CONDEMNED"
      BY <3>1, CustodyIs, CustodyValues
    <3> QED BY <2>3, <3>2, <3>3, <3>4, <3>5
  <2>5. custody' = [j \in Uploads |->
                      IF j = i THEN "LIVE"
                      ELSE IF SourceOf[j] = s /\ custody[j] = "LIVE"
                      THEN "CONDEMNED" ELSE custody[j]]
    BY <2>4, CustodyIs
  <2>6. custody[i] = "STAGED" BY <2>1, CustodyIs, CustodyValues
  <2>7. i \in Stored BY <2>1 DEF StorageInv, Stored
  <2>8. Custody!Publish(i)
    BY <1>0, <2>5, <2>6, <2>7 DEF Custody!Publish, Stored, s
  <2> QED BY <2>8 DEF Custody!Next
<1> QED BY <1>1, <1>2, <1>3, <1>4, <1>5

\* A removal retires the object its row shows.
LEMMA RemovalRefines ==
  ASSUME TypeOK, PointerMatchesIntent, NEW r \in Removals, UNCHANGED bucket, Remove(r)
  PROVE  [Custody!Next]_(Custody!vars)
<1> DEFINE s == RemovedFrom[r]
           p == rprior[r]
           newStatus == [status EXCEPT ![p] = "CLEANUP_REQUIRED"]
<1>1. /\ SourceOf[p] = s
      /\ pointer[s] # NoUpload
      /\ PointerMayLeave(pointer[s], newStatus)
      /\ status' = newStatus
  BY DEF Remove
<1>2. s \in Sources BY ConstantsAssumption
<1>3. pointer[s] = p
  BY <1>1, <1>2 DEF PointerMayLeave, PointerMatchesIntent, TypeOK
<1>4. p \in Uploads /\ status[p] = "ATTACHED"
  BY <1>1, <1>2, <1>3 DEF PointerMatchesIntent, TypeOK
<1> HIDE DEF s, p
<1>5. /\ custody[p] = CustodyOf(status[p])
      /\ custody' = [custody EXCEPT ![p] = CustodyOf("CLEANUP_REQUIRED")]
  BY <1>1, <1>4, CustodyMoves
<1>6. custody[p] = "LIVE" /\ custody' = [custody EXCEPT ![p] = "CONDEMNED"]
  BY <1>4, <1>5, CustodyValues
<1>7. UNCHANGED Stored BY DEF Stored
<1>8. Custody!Retire(p)
  BY <1>6, <1>7 DEF Custody!Retire, Custody!Become, Stored
<1> QED BY <1>4, <1>8 DEF Custody!Next

\* A claim gives up a stale object, a completion puts one on record as gone.
LEMMA WorkerRefines ==
  ASSUME TypeOK, StorageInv, NEW w \in Workers, UNCHANGED bucket,
         ClaimStale(w) \/ Complete(w)
  PROVE  [Custody!Next]_(Custody!vars)
<1>0. UNCHANGED Stored BY DEF Stored
<1>1. CASE ClaimStale(w)
  <2>1. PICK i \in Stale : status' = [status EXCEPT ![i] = "CLEANUP_REQUIRED"]
    BY <1>1 DEF ClaimStale
  <2>2. i \in Uploads /\ status[i] \in {"PREPARED", "PUT_CONFIRMED"}
    BY <2>1 DEF Stale
  <2>3. /\ custody[i] = CustodyOf(status[i])
        /\ custody' = [custody EXCEPT ![i] = CustodyOf("CLEANUP_REQUIRED")]
    BY <2>1, <2>2, CustodyMoves
  <2>4. custody[i] = "STAGED" /\ custody' = [custody EXCEPT ![i] = "CONDEMNED"]
    BY <2>2, <2>3, CustodyValues
  <2>5. Custody!Condemn(i)
    BY <1>0, <2>4 DEF Custody!Condemn, Custody!Become, Stored
  <2> QED BY <2>2, <2>5 DEF Custody!Next
<1>2. CASE Complete(w)
  <2> DEFINE i == worker[w].job
  <2>1. /\ worker[w].pc # "idle" /\ status[i] = "CLEANUP_REQUIRED"
        /\ status' = [status EXCEPT ![i] = "ABSENCE_VERIFIED"]
    BY <1>2 DEF Complete
  <2>2. i \in Uploads BY <2>1 DEF TypeOK, BusyWorkers, IdleWorker
  <2> HIDE DEF i
  <2>3. /\ custody[i] = CustodyOf(status[i])
        /\ custody' = [custody EXCEPT ![i] = CustodyOf("ABSENCE_VERIFIED")]
    BY <2>1, <2>2, CustodyMoves
  <2>4. custody[i] = "CONDEMNED" /\ custody' = [custody EXCEPT ![i] = "GONE"]
    BY <2>1, <2>3, CustodyValues
  <2>5. Custody!Dispose(i)
    BY <1>0, <2>4 DEF Custody!Dispose, Custody!Become, Stored
  <2> QED BY <2>2, <2>5 DEF Custody!Next
<1> QED BY <1>1, <1>2

\* Versions come and go: the first stores the object, the last erases it.
LEMMA BucketRefines ==
  ASSUME TypeOK, StorageInv, NamedInv, UNCHANGED status,
         \/ \E i \in Uploads : PutLands(i)
         \/ \E w \in Workers : DeleteVersions(w) \/ StorageFails(w)
  PROVE  [Custody!Next]_(Custody!vars)
<1>0. UNCHANGED custody BY DEF custody
<1>1. ASSUME NEW i \in Uploads, PutLands(i) PROVE [Custody!Next]_(Custody!vars)
  <2>1. PICK v \in inflight[i] : bucket' = [bucket EXCEPT ![i] = @ \cup {v}]
    BY <1>1 DEF PutLands
  <2>2. Stored' = Stored \cup {i} BY <2>1 DEF Stored, TypeOK
  <2>3. custody[i] # "NEW"
    <3>1. status[i] \in Statuses \ Unnamed BY <2>1 DEF NamedInv, TypeOK
    <3>2. custody[i] = CustodyOf(status[i]) BY CustodyIs
    <3> QED BY <3>1, <3>2, CustodyValues DEF Statuses, Unnamed
  <2>4. Custody!Store(i) BY <1>0, <2>2, <2>3 DEF Custody!Store, Stored
  <2> QED BY <2>4 DEF Custody!Next
<1>2. ASSUME NEW w \in Workers, DeleteVersions(w) \/ StorageFails(w)
      PROVE  [Custody!Next]_(Custody!vars)
  <2>1. PICK gone : /\ worker[w].pc # "idle"
                    /\ bucket' = [bucket EXCEPT ![worker[w].job] = @ \ gone]
    BY <1>2 DEF DeleteVersions, StorageFails
  <2>2. PICK i \in Uploads : i = worker[w].job
    BY <2>1 DEF TypeOK, BusyWorkers, IdleWorker
  <2>3. bucket' = [bucket EXCEPT ![i] = @ \ gone] /\ status[i] \in Condemned
    BY <2>1, <2>2 DEF StorageInv
  <2>4. custody[i] \in {"CONDEMNED", "GONE"}
    BY <2>3, CustodyIs, CustodyValues DEF Condemned
  <2>5. /\ \A j \in Uploads \ {i} : bucket'[j] = bucket[j]
        /\ bucket'[i] \subseteq bucket[i]
    BY <2>3 DEF TypeOK
  <2>6. CASE bucket'[i] = {}
    <3>1. Stored' = Stored \ {i} BY <2>5, <2>6 DEF Stored
    <3>2. Custody!Erase(i) BY <1>0, <2>4, <3>1 DEF Custody!Erase, Stored
    <3> QED BY <3>2 DEF Custody!Next
  <2>7. CASE bucket'[i] # {}
    <3>1. Stored' = Stored BY <2>5, <2>7 DEF Stored
    <3> QED BY <1>0, <3>1 DEF Custody!vars, Stored
  <2> QED BY <2>6, <2>7
<1> QED BY <1>1, <1>2

\* Every step of uploads, removals and workers, with its leases, lost answers
\* and takeovers, is a step of ObjectCustody or none.
THEOREM CustodyIsKept == Spec => ImplementsCustody
<1>1. Init => Custody!Init
  <2> SUFFICES ASSUME Init PROVE Custody!Init
    OBVIOUS
  <2>1. \A i \in Uploads : status[i] = "NONE" /\ bucket[i] = {} BY DEF Init
  <2>2. custody = [i \in Uploads |-> "NEW"]
    BY <2>1, CustodyIs, CustodyValues DEF Unnamed
  <2> QED BY <2>1, <2>2 DEF Custody!Init
<1>2. Init => StorageInv /\ NamedInv
  BY DEF Init, StorageInv, NamedInv, IdleWorker
<1>3. ASSUME TypeOK, PointerMatchesIntent, StorageInv, NamedInv, [Next]_vars
      PROVE  [Custody!Next]_(Custody!vars)
  <2>1. CASE UNCHANGED <<status, bucket>>
    <3>1. UNCHANGED custody BY <2>1 DEF custody
    <3> QED BY <2>1, <3>1 DEF Custody!vars
  <2> QED BY <1>3, <2>1, CustodyCases, UploadRefines, RemovalRefines, WorkerRefines,
             BucketRefines
<1>4. TypeOK /\ JobMatchesIntent /\ StorageInv /\ [Next]_vars => StorageInv'
  BY StorageStep
<1>5. TypeOK /\ NamedInv /\ [Next]_vars => NamedInv'
  BY NamedStep
<1> QED BY <1>1, <1>2, <1>3, <1>4, <1>5, Typing, PointersAgree, JobsAgree, PTL
        DEF Spec, Custody!Spec, ImplementsCustody

\* What ObjectCustody promises, by itself.
LEMMA CustodyPromises ==
  Custody!Spec => [](Custody!LiveIsStored /\ Custody!OneLivePerOwner)
<1> DEFINE Promise == Custody!LiveIsStored /\ Custody!OneLivePerOwner
<1>1. Custody!Init => Promise
  BY CustodyIs DEF Custody!Init, Custody!LiveIsStored, Custody!OneLivePerOwner
<1>2. Promise /\ [Custody!Next]_(Custody!vars) => Promise'
  <2> SUFFICES ASSUME Promise, [Custody!Next]_(Custody!vars) PROVE Promise'
    OBVIOUS
  <2> DEFINE Kept(i) == custody[i] = "LIVE" => i \in Stored
  <2>1. \A i \in Uploads : Kept(i)
    BY DEF Custody!LiveIsStored, Stored
  <2>2. \A i, j \in Uploads : custody[i] = "LIVE" /\ custody[j] = "LIVE"
                              /\ SourceOf[i] = SourceOf[j] => i = j
    BY DEF Custody!OneLivePerOwner
  <2>3. ASSUME \A i \in Uploads : custody'[i] = "LIVE" => custody[i] = "LIVE" /\ i \in Stored'
        PROVE  Promise'
    BY <2>2, <2>3 DEF Custody!LiveIsStored, Custody!OneLivePerOwner, Stored
  <2>4. CASE UNCHANGED Custody!vars
    BY <2>1, <2>3, <2>4 DEF Custody!vars, Stored
  <2>5. ASSUME NEW i \in Uploads,
               \/ Custody!Stage(i) \/ Custody!Store(i) \/ Custody!Retire(i)
               \/ Custody!Condemn(i) \/ Custody!Erase(i) \/ Custody!Dispose(i)
        PROVE  Promise'
    <3>1. \A j \in Uploads : custody'[j] = "LIVE" => custody[j] = "LIVE"
      BY <2>5, CustodyIs DEF Custody!Stage, Custody!Store, Custody!Retire, Custody!Condemn,
                  Custody!Erase, Custody!Dispose, Custody!Become
    <3>2. \A j \in Uploads : j \in Stored => j \in Stored' \/ custody[j] # "LIVE"
      BY <2>5 DEF Custody!Stage, Custody!Store, Custody!Retire, Custody!Condemn,
                  Custody!Erase, Custody!Dispose, Stored
    <3> QED BY <2>1, <2>3, <3>1, <3>2
  <2>6. ASSUME NEW i \in Uploads, Custody!Publish(i) PROVE Promise'
    <3>1. i \in Stored /\ Stored' = Stored BY <2>6 DEF Custody!Publish, Stored
    <3>2. \A j \in Uploads : custody'[j] = "LIVE" =>
            j = i \/ (custody[j] = "LIVE" /\ SourceOf[j] # SourceOf[i])
      BY <2>6 DEF Custody!Publish
    <3>3. Custody!LiveIsStored' BY <2>1, <3>1, <3>2 DEF Custody!LiveIsStored, Stored
    <3>4. Custody!OneLivePerOwner' BY <2>2, <3>2 DEF Custody!OneLivePerOwner
    <3> QED BY <3>3, <3>4
  <2> QED BY <2>4, <2>5, <2>6 DEF Custody!Next
<1> QED BY <1>1, <1>2, PTL DEF Custody!Spec

\* A photo that is shown is stored and is the only one its row shows: what
\* ObjectCustody promises holds of intents, jobs, leases and the network.
THEOREM ShownPhotosAreStored ==
  Spec => [](Custody!LiveIsStored /\ Custody!OneLivePerOwner)
BY CustodyIsKept, CustodyPromises, PTL DEF ImplementsCustody
=============================================================================
