------------------------- MODULE MediaPipelineProofs -------------------------
(***************************************************************************)
(* Theorems about MediaPipeline, for any sets of requests and contents.    *)
(* PipelineInv is inductive together with the type invariant, whatever     *)
(* fails; CleanupIsSafe joins them where no commit is ambiguous, and gives *)
(* the implementation of the catalogue; StoredInv is about objects left    *)
(* behind.  The quota is moved as QuotaAccount has it, and its count       *)
(* follows from what the account promises.                                 *)
(***************************************************************************)
EXTENDS MediaPipeline, FiniteSetTheorems, TLAPS

\* Every step keeps the type of the state; a delete past its first step has a
\* known target.
LEMMA TypeStep ==
  TypeOK /\ PipelineInv /\ [Next]_vars => TypeOK'
<1> SUFFICES ASSUME TypeOK, PipelineInv, [Next]_vars
             PROVE  TypeOK'
  OBVIOUS
<1> USE DEF TypeOK, UpTo, DelTo, UploadPC, UploadEnded, DeletePC, DeleteEnded,
            uploadVars, deleteVars, storeVars, quotaVars, 
            PipelineInv, DeleteKnows
<1>1. ASSUME NEW u \in Uploads, UploadStep(u) PROVE TypeOK'
  <2>1. CASE Admit(u) BY <2>1 DEF Admit
  <2>2. CASE LookupDedup(u) BY <2>2 DEF LookupDedup
  <2>3. CASE ReadExisting(u) BY <2>3 DEF ReadExisting
  <2>4. CASE PutBlob(u) BY <2>4, ThumbsAssumption DEF PutBlob
  <2>5. CASE PutThumb(u) BY <2>5 DEF PutThumb
  <2>6. CASE Save(u) BY <2>6 DEF Save
  <2>7. CASE SaveFails(u) BY <2>7 DEF SaveFails
  <2>8. CASE UndoBlob(u) BY <2>8 DEF UndoBlob
  <2>9. CASE UndoThumb(u) BY <2>9 DEF UndoThumb
  <2>10. CASE SetDedup(u) BY <2>10 DEF SetDedup
  <2>11. CASE Record(u) BY <2>11 DEF Record, CountUpload
  <2>12. CASE UploadFails(u) BY <2>12 DEF UploadFails, CountUpload
  <2> QED BY <1>1, <2>1, <2>2, <2>3, <2>4, <2>5, <2>6, <2>7, <2>8,
             <2>9, <2>10, <2>11, <2>12 DEF UploadStep
<1>2. ASSUME NEW u \in Uploads, UploadCrashes(u) PROVE TypeOK'
  BY <1>2 DEF UploadCrashes
<1>3. ASSUME NEW d \in Deletes, NEW m \in Uploads, Find(d, m) PROVE TypeOK'
  BY <1>3 DEF Find
<1>4. ASSUME NEW d \in Deletes, DeleteStep(d) PROVE TypeOK'
  <2>1. CASE SoftDelete(d) BY <2>1 DEF SoftDelete
  <2>2. CASE DropBlob(d) BY <2>2 DEF DropBlob
  <2>3. CASE DropThumb(d) BY <2>3 DEF DropThumb
  <2>4. CASE DropMeta(d) BY <2>4 DEF DropMeta
  <2>5. CASE Release(d) BY <2>5 DEF Release, ReleaseQuota
  <2>6. CASE Publish(d) BY <2>6 DEF Publish
  <2>7. CASE DeleteFails(d) BY <2>7 DEF DeleteFails, ReleaseQuota
  <2> QED BY <1>4, <2>1, <2>2, <2>3, <2>4, <2>5, <2>6, <2>7 DEF DeleteStep
<1>5. ASSUME NEW d \in Deletes, DeleteCrashes(d) PROVE TypeOK'
  BY <1>5 DEF DeleteCrashes
<1>6. ASSUME NEW c \in Contents, DedupExpires(c) PROVE TypeOK'
  BY <1>6 DEF DedupExpires
<1>7. ASSUME NEW m \in Uploads, ObjectExpires(m) PROVE TypeOK'
  BY <1>7 DEF ObjectExpires
<1>8. CASE UNCHANGED vars BY <1>8 DEF vars
<1> QED BY <1>1, <1>2, <1>3, <1>4, <1>5, <1>6, <1>7, <1>8 DEF Next

\* No step of another request takes away what an upload in flight relies on.
LEMMA UploadKnowsStep ==
  TypeOK /\ PipelineInv /\ [Next]_vars => UploadKnows'
<1> SUFFICES ASSUME TypeOK, PipelineInv, [Next]_vars
             PROVE  UploadKnows'
  OBVIOUS
<1> USE DEF TypeOK, UpTo, DelTo, UploadPC, UploadEnded, DeletePC, DeleteEnded,
            uploadVars, deleteVars, storeVars, quotaVars, 
            PipelineInv, UploadKnows, DeleteKnows, DedupIsSound
<1>1. ASSUME NEW u \in Uploads, UploadStep(u) PROVE UploadKnows'
  <2>1. CASE Admit(u) BY <2>1 DEF Admit
  <2>2. CASE LookupDedup(u) BY <2>2, NoMediaAssumption DEF LookupDedup
  <2>3. CASE ReadExisting(u) BY <2>3 DEF ReadExisting
  <2>4. CASE PutBlob(u) BY <2>4, ThumbsAssumption DEF PutBlob
  <2>5. CASE PutThumb(u) BY <2>5 DEF PutThumb
  <2>6. CASE Save(u) BY <2>6 DEF Save
  <2>7. CASE SaveFails(u) BY <2>7 DEF SaveFails
  <2>8. CASE UndoBlob(u) BY <2>8 DEF UndoBlob
  <2>9. CASE UndoThumb(u) BY <2>9 DEF UndoThumb
  <2>10. CASE SetDedup(u) BY <2>10 DEF SetDedup
  <2>11. CASE Record(u) BY <2>11 DEF Record, CountUpload
  <2>12. CASE UploadFails(u) BY <2>12 DEF UploadFails, CountUpload
  <2> QED BY <1>1, <2>1, <2>2, <2>3, <2>4, <2>5, <2>6, <2>7, <2>8,
             <2>9, <2>10, <2>11, <2>12 DEF UploadStep
<1>2. ASSUME NEW u \in Uploads, UploadCrashes(u) PROVE UploadKnows'
  BY <1>2 DEF UploadCrashes
<1>3. ASSUME NEW d \in Deletes, NEW m \in Uploads, Find(d, m) PROVE UploadKnows'
  BY <1>3 DEF Find
<1>4. ASSUME NEW d \in Deletes, DeleteStep(d) PROVE UploadKnows'
  <2>1. CASE SoftDelete(d) BY <2>1 DEF SoftDelete
  <2>2. CASE DropBlob(d) BY <2>2 DEF DropBlob
  <2>3. CASE DropThumb(d) BY <2>3 DEF DropThumb
  <2>4. CASE DropMeta(d) BY <2>4 DEF DropMeta
  <2>5. CASE Release(d) BY <2>5 DEF Release, ReleaseQuota
  <2>6. CASE Publish(d) BY <2>6 DEF Publish
  <2>7. CASE DeleteFails(d) BY <2>7 DEF DeleteFails, ReleaseQuota
  <2> QED BY <1>4, <2>1, <2>2, <2>3, <2>4, <2>5, <2>6, <2>7 DEF DeleteStep
<1>5. ASSUME NEW d \in Deletes, DeleteCrashes(d) PROVE UploadKnows'
  BY <1>5 DEF DeleteCrashes
<1>6. ASSUME NEW c \in Contents, DedupExpires(c) PROVE UploadKnows'
  BY <1>6 DEF DedupExpires
<1>7. ASSUME NEW m \in Uploads, ObjectExpires(m) PROVE UploadKnows'
  BY <1>7 DEF ObjectExpires
<1>8. CASE UNCHANGED vars BY <1>8 DEF vars
<1> QED BY <1>1, <1>2, <1>3, <1>4, <1>5, <1>6, <1>7, <1>8 DEF Next

\* Nor what a delete relies on: an object dropped for a deleted row is not put
\* back, and a deleted row stays deleted.
LEMMA DeleteKnowsStep ==
  TypeOK /\ PipelineInv /\ [Next]_vars => DeleteKnows'
<1> SUFFICES ASSUME TypeOK, PipelineInv, [Next]_vars
             PROVE  DeleteKnows'
  OBVIOUS
<1> USE DEF TypeOK, UpTo, DelTo, UploadPC, UploadEnded, DeletePC, DeleteEnded,
            uploadVars, deleteVars, storeVars, quotaVars, 
            PipelineInv, UploadKnows, DeleteKnows
<1>1. ASSUME NEW u \in Uploads, UploadStep(u) PROVE DeleteKnows'
  <2>1. CASE Admit(u) BY <2>1 DEF Admit
  <2>2. CASE LookupDedup(u) BY <2>2 DEF LookupDedup
  <2>3. CASE ReadExisting(u) BY <2>3 DEF ReadExisting
  <2>4. CASE PutBlob(u) BY <2>4 DEF PutBlob
  <2>5. CASE PutThumb(u) BY <2>5 DEF PutThumb
  <2>6. CASE Save(u) BY <2>6 DEF Save
  <2>7. CASE SaveFails(u) BY <2>7 DEF SaveFails
  <2>8. CASE UndoBlob(u) BY <2>8 DEF UndoBlob
  <2>9. CASE UndoThumb(u) BY <2>9 DEF UndoThumb
  <2>10. CASE SetDedup(u) BY <2>10 DEF SetDedup
  <2>11. CASE Record(u) BY <2>11 DEF Record, CountUpload
  <2>12. CASE UploadFails(u) BY <2>12 DEF UploadFails, CountUpload
  <2> QED BY <1>1, <2>1, <2>2, <2>3, <2>4, <2>5, <2>6, <2>7, <2>8,
             <2>9, <2>10, <2>11, <2>12 DEF UploadStep
<1>2. ASSUME NEW u \in Uploads, UploadCrashes(u) PROVE DeleteKnows'
  BY <1>2 DEF UploadCrashes
<1>3. ASSUME NEW d \in Deletes, NEW m \in Uploads, Find(d, m) PROVE DeleteKnows'
  BY <1>3 DEF Find
<1>4. ASSUME NEW d \in Deletes, DeleteStep(d) PROVE DeleteKnows'
  <2>1. CASE SoftDelete(d) BY <2>1 DEF SoftDelete
  <2>2. CASE DropBlob(d) BY <2>2 DEF DropBlob
  <2>3. CASE DropThumb(d) BY <2>3 DEF DropThumb
  <2>4. CASE DropMeta(d) BY <2>4 DEF DropMeta
  <2>5. CASE Release(d) BY <2>5 DEF Release, ReleaseQuota
  <2>6. CASE Publish(d) BY <2>6 DEF Publish
  <2>7. CASE DeleteFails(d) BY <2>7 DEF DeleteFails, ReleaseQuota
  <2> QED BY <1>4, <2>1, <2>2, <2>3, <2>4, <2>5, <2>6, <2>7 DEF DeleteStep
<1>5. ASSUME NEW d \in Deletes, DeleteCrashes(d) PROVE DeleteKnows'
  BY <1>5 DEF DeleteCrashes
<1>6. ASSUME NEW c \in Contents, DedupExpires(c) PROVE DeleteKnows'
  BY <1>6 DEF DedupExpires
<1>7. ASSUME NEW m \in Uploads, ObjectExpires(m) PROVE DeleteKnows'
  BY <1>7 DEF ObjectExpires
<1>8. CASE UNCHANGED vars BY <1>8 DEF vars
<1> QED BY <1>1, <1>2, <1>3, <1>4, <1>5, <1>6, <1>7, <1>8 DEF Next

\* The dedup entry is written once its row is saved, and rows are never erased.
LEMMA DedupStep ==
  TypeOK /\ PipelineInv /\ [Next]_vars => DedupIsSound'
<1> SUFFICES ASSUME TypeOK, PipelineInv, [Next]_vars
             PROVE  DedupIsSound'
  OBVIOUS
<1> USE DEF TypeOK, UpTo, DelTo, UploadPC, UploadEnded, DeletePC, DeleteEnded,
            uploadVars, deleteVars, storeVars, quotaVars, 
            PipelineInv, UploadKnows, DeleteKnows, DedupIsSound
<1>1. ASSUME NEW u \in Uploads, UploadStep(u) PROVE DedupIsSound'
  <2>1. CASE Admit(u) BY <2>1 DEF Admit
  <2>2. CASE LookupDedup(u) BY <2>2, NoMediaAssumption DEF LookupDedup
  <2>3. CASE ReadExisting(u) BY <2>3, NoMediaAssumption DEF ReadExisting
  <2>4. CASE PutBlob(u) BY <2>4, ThumbsAssumption DEF PutBlob
  <2>5. CASE PutThumb(u) BY <2>5 DEF PutThumb
  <2>6. CASE Save(u) BY <2>6 DEF Save
  <2>7. CASE SaveFails(u) BY <2>7 DEF SaveFails
  <2>8. CASE UndoBlob(u) BY <2>8 DEF UndoBlob
  <2>9. CASE UndoThumb(u) BY <2>9 DEF UndoThumb
  <2>10. CASE SetDedup(u) BY <2>10 DEF SetDedup
  <2>11. CASE Record(u) BY <2>11 DEF Record, CountUpload
  <2>12. CASE UploadFails(u) BY <2>12 DEF UploadFails, CountUpload
  <2> QED BY <1>1, <2>1, <2>2, <2>3, <2>4, <2>5, <2>6, <2>7, <2>8,
             <2>9, <2>10, <2>11, <2>12 DEF UploadStep
<1>2. ASSUME NEW u \in Uploads, UploadCrashes(u) PROVE DedupIsSound'
  BY <1>2 DEF UploadCrashes
<1>3. ASSUME NEW d \in Deletes, NEW m \in Uploads, Find(d, m) PROVE DedupIsSound'
  BY <1>3 DEF Find
<1>4. ASSUME NEW d \in Deletes, DeleteStep(d) PROVE DedupIsSound'
  <2>1. CASE SoftDelete(d) BY <2>1 DEF SoftDelete
  <2>2. CASE DropBlob(d) BY <2>2 DEF DropBlob
  <2>3. CASE DropThumb(d) BY <2>3 DEF DropThumb
  <2>4. CASE DropMeta(d) BY <2>4 DEF DropMeta
  <2>5. CASE Release(d) BY <2>5 DEF Release, ReleaseQuota
  <2>6. CASE Publish(d) BY <2>6 DEF Publish
  <2>7. CASE DeleteFails(d) BY <2>7 DEF DeleteFails, ReleaseQuota
  <2> QED BY <1>4, <2>1, <2>2, <2>3, <2>4, <2>5, <2>6, <2>7 DEF DeleteStep
<1>5. ASSUME NEW d \in Deletes, DeleteCrashes(d) PROVE DedupIsSound'
  BY <1>5 DEF DeleteCrashes
<1>6. ASSUME NEW c \in Contents, DedupExpires(c) PROVE DedupIsSound'
  BY <1>6 DEF DedupExpires
<1>7. ASSUME NEW m \in Uploads, ObjectExpires(m) PROVE DedupIsSound'
  BY <1>7 DEF ObjectExpires
<1>8. CASE UNCHANGED vars BY <1>8 DEF vars
<1> QED BY <1>1, <1>2, <1>3, <1>4, <1>5, <1>6, <1>7, <1>8 DEF Next

\* A media announced as deleted stays out of the stores.
LEMMA RetractedStep ==
  TypeOK /\ PipelineInv /\ [Next]_vars => RetractedIsGone'
<1> SUFFICES ASSUME TypeOK, PipelineInv, [Next]_vars
             PROVE  RetractedIsGone'
  OBVIOUS
<1> USE DEF TypeOK, UpTo, DelTo, UploadPC, UploadEnded, DeletePC, DeleteEnded,
            uploadVars, deleteVars, storeVars, quotaVars, 
            PipelineInv, UploadKnows, DeleteKnows, RetractedIsGone
<1>1. ASSUME NEW u \in Uploads, UploadStep(u) PROVE RetractedIsGone'
  <2>1. CASE Admit(u) BY <2>1 DEF Admit
  <2>2. CASE LookupDedup(u) BY <2>2 DEF LookupDedup
  <2>3. CASE ReadExisting(u) BY <2>3 DEF ReadExisting
  <2>4. CASE PutBlob(u) BY <2>4 DEF PutBlob
  <2>5. CASE PutThumb(u) BY <2>5 DEF PutThumb
  <2>6. CASE Save(u) BY <2>6 DEF Save
  <2>7. CASE SaveFails(u) BY <2>7 DEF SaveFails
  <2>8. CASE UndoBlob(u) BY <2>8 DEF UndoBlob
  <2>9. CASE UndoThumb(u) BY <2>9 DEF UndoThumb
  <2>10. CASE SetDedup(u) BY <2>10 DEF SetDedup
  <2>11. CASE Record(u) BY <2>11 DEF Record, CountUpload
  <2>12. CASE UploadFails(u) BY <2>12 DEF UploadFails, CountUpload
  <2> QED BY <1>1, <2>1, <2>2, <2>3, <2>4, <2>5, <2>6, <2>7, <2>8,
             <2>9, <2>10, <2>11, <2>12 DEF UploadStep
<1>2. ASSUME NEW u \in Uploads, UploadCrashes(u) PROVE RetractedIsGone'
  BY <1>2 DEF UploadCrashes
<1>3. ASSUME NEW d \in Deletes, NEW m \in Uploads, Find(d, m) PROVE RetractedIsGone'
  BY <1>3 DEF Find
<1>4. ASSUME NEW d \in Deletes, DeleteStep(d) PROVE RetractedIsGone'
  <2>1. CASE SoftDelete(d) BY <2>1 DEF SoftDelete
  <2>2. CASE DropBlob(d) BY <2>2 DEF DropBlob
  <2>3. CASE DropThumb(d) BY <2>3 DEF DropThumb
  <2>4. CASE DropMeta(d) BY <2>4 DEF DropMeta
  <2>5. CASE Release(d) BY <2>5 DEF Release, ReleaseQuota
  <2>6. CASE Publish(d) BY <2>6 DEF Publish
  <2>7. CASE DeleteFails(d) BY <2>7 DEF DeleteFails, ReleaseQuota
  <2> QED BY <1>4, <2>1, <2>2, <2>3, <2>4, <2>5, <2>6, <2>7 DEF DeleteStep
<1>5. ASSUME NEW d \in Deletes, DeleteCrashes(d) PROVE RetractedIsGone'
  BY <1>5 DEF DeleteCrashes
<1>6. ASSUME NEW c \in Contents, DedupExpires(c) PROVE RetractedIsGone'
  BY <1>6 DEF DedupExpires
<1>7. ASSUME NEW m \in Uploads, ObjectExpires(m) PROVE RetractedIsGone'
  BY <1>7 DEF ObjectExpires
<1>8. CASE UNCHANGED vars BY <1>8 DEF vars
<1> QED BY <1>1, <1>2, <1>3, <1>4, <1>5, <1>6, <1>7, <1>8 DEF Next

-----------------------------------------------------------------------------
\* Nothing is stored and nobody has read anything at first.
LEMMA InvInit == Init => TypeOK /\ PipelineInv
  BY DEF Init, TypeOK, UploadPC, DeletePC, UploadEnded, DeleteEnded,
         PipelineInv, UploadKnows, DeleteKnows, DedupIsSound, RetractedIsGone

\* The invariant holds of every behaviour, whatever fails.
THEOREM PipelineInvariant == Spec => [](TypeOK /\ PipelineInv)
<1>1. TypeOK /\ PipelineInv /\ [Next]_vars => (TypeOK /\ PipelineInv)'
  BY TypeStep, UploadKnowsStep, DeleteKnowsStep, DedupStep, RetractedStep
     DEF PipelineInv
<1> QED BY <1>1, InvInit, PTL DEF Spec

\* The state is well typed: in particular files_count never falls below zero,
\* thanks to the GREATEST of recordDelete.
THEOREM TypeCorrect == Spec => []TypeOK
  BY PipelineInvariant, PTL

\* An upload answered from the dedup entry gets a media that was saved with the
\* content it sent, whatever deletes, expiries and failures came in between.
THEOREM DedupIsAlwaysSound == Spec => []DedupIsSound
<1>1. PipelineInv => DedupIsSound
  BY DEF PipelineInv
<1> QED BY <1>1, PipelineInvariant, PTL

\* A media.deleted event is never ahead of the deletion it announces.
THEOREM RetractedIsAlwaysGone == Spec => []RetractedIsGone
<1>1. PipelineInv => RetractedIsGone
  BY DEF PipelineInv
<1> QED BY <1>1, PipelineInvariant, PTL

-----------------------------------------------------------------------------
(* Without ambiguous commits: a media a read can find has its objects.     *)

\* Only a delete and the lifecycle rule take the objects of a saved media.
LEMMA CleanupStep ==
  ASSUME "commit" \notin Faults
  PROVE  TypeOK /\ PipelineInv /\ CleanupIsSafe /\ [Next]_vars => CleanupIsSafe'
<1> SUFFICES ASSUME TypeOK, PipelineInv, CleanupIsSafe, [Next]_vars
             PROVE  CleanupIsSafe'
  OBVIOUS
<1> USE "commit" \notin Faults
<1> USE DEF TypeOK, UpTo, DelTo, UploadPC, UploadEnded, DeletePC, DeleteEnded,
            uploadVars, deleteVars, storeVars, quotaVars, 
            PipelineInv, UploadKnows, DeleteKnows, CleanupIsSafe, ActiveHasBlob
<1>1. ASSUME NEW u \in Uploads, UploadStep(u) PROVE CleanupIsSafe'
  <2>1. CASE Admit(u) BY <2>1 DEF Admit
  <2>2. CASE LookupDedup(u) BY <2>2 DEF LookupDedup
  <2>3. CASE ReadExisting(u) BY <2>3 DEF ReadExisting
  <2>4. CASE PutBlob(u) BY <2>4, ThumbsAssumption DEF PutBlob
  <2>5. CASE PutThumb(u) BY <2>5 DEF PutThumb
  <2>6. CASE Save(u) BY <2>6 DEF Save
  <2>7. CASE SaveFails(u) BY <2>7 DEF SaveFails
  <2>8. CASE UndoBlob(u) BY <2>8 DEF UndoBlob
  <2>9. CASE UndoThumb(u) BY <2>9 DEF UndoThumb
  <2>10. CASE SetDedup(u) BY <2>10 DEF SetDedup
  <2>11. CASE Record(u) BY <2>11 DEF Record, CountUpload
  <2>12. CASE UploadFails(u) BY <2>12 DEF UploadFails, CountUpload
  <2> QED BY <1>1, <2>1, <2>2, <2>3, <2>4, <2>5, <2>6, <2>7, <2>8,
             <2>9, <2>10, <2>11, <2>12 DEF UploadStep
<1>2. ASSUME NEW u \in Uploads, UploadCrashes(u) PROVE CleanupIsSafe'
  BY <1>2 DEF UploadCrashes
<1>3. ASSUME NEW d \in Deletes, NEW m \in Uploads, Find(d, m) PROVE CleanupIsSafe'
  BY <1>3 DEF Find
<1>4. ASSUME NEW d \in Deletes, DeleteStep(d) PROVE CleanupIsSafe'
  <2>1. CASE SoftDelete(d) BY <2>1 DEF SoftDelete
  <2>2. CASE DropBlob(d) BY <2>2 DEF DropBlob
  <2>3. CASE DropThumb(d) BY <2>3 DEF DropThumb
  <2>4. CASE DropMeta(d) BY <2>4 DEF DropMeta
  <2>5. CASE Release(d) BY <2>5 DEF Release, ReleaseQuota
  <2>6. CASE Publish(d) BY <2>6 DEF Publish
  <2>7. CASE DeleteFails(d) BY <2>7 DEF DeleteFails, ReleaseQuota
  <2> QED BY <1>4, <2>1, <2>2, <2>3, <2>4, <2>5, <2>6, <2>7 DEF DeleteStep
<1>5. ASSUME NEW d \in Deletes, DeleteCrashes(d) PROVE CleanupIsSafe'
  BY <1>5 DEF DeleteCrashes
<1>6. ASSUME NEW c \in Contents, DedupExpires(c) PROVE CleanupIsSafe'
  BY <1>6 DEF DedupExpires
<1>7. ASSUME NEW m \in Uploads, ObjectExpires(m) PROVE CleanupIsSafe'
  BY <1>7 DEF ObjectExpires
<1>8. CASE UNCHANGED vars BY <1>8 DEF vars
<1> QED BY <1>1, <1>2, <1>3, <1>4, <1>5, <1>6, <1>7, <1>8 DEF Next

\* Whatever fails short of an ambiguous commit, a media a read can find has its
\* blob and its thumbnail in the bucket until the retention rule takes them.
THEOREM ActiveAlwaysHasBlob ==
  ASSUME "commit" \notin Faults
  PROVE  Spec => []ActiveHasBlob
<1>1. Init => CleanupIsSafe
  BY DEF Init, CleanupIsSafe, ActiveHasBlob
<1>2. CleanupIsSafe => ActiveHasBlob
  BY DEF CleanupIsSafe
<1> QED BY <1>1, <1>2, CleanupStep, PipelineInvariant, PTL DEF Spec

\* Every step of the service is a step of the catalogue, or changes nothing of
\* it.
LEMMA CatalogStep ==
  ASSUME "commit" \notin Faults
  PROVE  TypeOK /\ PipelineInv /\ CleanupIsSafe /\ [Next]_vars
           => [Catalog!Next]_(Catalog!vars)
<1> SUFFICES ASSUME TypeOK, PipelineInv, CleanupIsSafe, [Next]_vars
             PROVE  [Catalog!Next]_(Catalog!vars)
  OBVIOUS
<1> DEFINE Gone   == {m \in Uploads : row[m] = "deleted"}
           Stored == {m \in blobs : thumb[m] = "good" => m \in thumbs}
<1> USE "commit" \notin Faults
<1> USE DEF TypeOK, UpTo, DelTo, uploadVars, deleteVars, storeVars, quotaVars
<1>1. \A m \in Uploads : Catalog!Store(m) <=>
        /\ m \notin Active \cup Gone
        /\ Stored' = Stored \cup {m}
        /\ Active' = Active /\ Gone' = Gone /\ expired' = expired
  BY DEF Catalog!Store
<1>2. \A m \in Uploads : Catalog!Publish(m) <=>
        /\ m \in Stored /\ m \notin Gone
        /\ Active' = Active \cup {m}
        /\ Gone' = Gone /\ Stored' = Stored /\ expired' = expired
  BY DEF Catalog!Publish
<1>3. \A m \in Uploads : Catalog!Retire(m) <=>
        /\ m \in Active
        /\ Active' = Active \ {m} /\ Gone' = Gone \cup {m}
        /\ Stored' = Stored /\ expired' = expired
  BY DEF Catalog!Retire
<1>4. \A m \in Uploads : Catalog!Discard(m) <=>
        /\ m \notin Active
        /\ Stored' = Stored \ {m}
        /\ Active' = Active /\ Gone' = Gone /\ expired' = expired
  BY DEF Catalog!Discard
<1>5. \A m \in Uploads : Catalog!Expire(m) <=>
        /\ Stored' = Stored \ {m} /\ expired' = expired \cup {m}
        /\ Active' = Active /\ Gone' = Gone
  BY DEF Catalog!Expire
<1>6. (\E m \in Uploads : Catalog!Store(m) \/ Catalog!Publish(m)
          \/ Catalog!Retire(m) \/ Catalog!Discard(m) \/ Catalog!Expire(m))
        => Catalog!Next
  BY DEF Catalog!Next
<1>7. Active' = Active /\ Gone' = Gone /\ Stored' = Stored /\ expired' = expired
        => UNCHANGED Catalog!vars
  BY DEF Catalog!vars
<1>8. row' = row => Active' = Active /\ Gone' = Gone
  BY DEF Active
<1>9. thumb' = thumb /\ blobs' = blobs /\ thumbs' = thumbs => Stored' = Stored
  OBVIOUS
<1> HIDE DEF Gone, Stored
\* Putting an object of a media without a row: Store, or nothing yet.
<1>10. ASSUME NEW u \in Uploads, row[u] = "none", row' = row, thumb' = thumb,
              expired' = expired,
              blobs' \in {blobs, blobs \cup {u}},
              thumbs' \in {thumbs, thumbs \cup {u}}
       PROVE  [Catalog!Next]_(Catalog!vars)
  <2>1. u \notin Active \cup Gone
    BY <1>10 DEF Active, Gone
  <2>2. Stored' = Stored \/ Stored' = Stored \cup {u}
    BY <1>10 DEF Stored
  <2> QED BY <1>10, <2>1, <2>2, <1>1, <1>6, <1>7, <1>8
\* Dropping an object of a media no read finds: Discard, or nothing.
<1>11. ASSUME NEW m \in Uploads, row[m] # "active", row' = row, thumb' = thumb,
              expired' = expired,
              blobs' \in {blobs, blobs \ {m}}, thumbs' \in {thumbs, thumbs \ {m}}
       PROVE  [Catalog!Next]_(Catalog!vars)
  <2>1. m \notin Active
    BY <1>11 DEF Active
  <2>2. Stored' = Stored \/ Stored' = Stored \ {m}
    BY <1>11 DEF Stored
  <2> QED BY <1>11, <2>1, <2>2, <1>4, <1>6, <1>7, <1>8
\* A soft delete: Retire the first time, nothing when another one came first.
<1>12. ASSUME NEW m \in Uploads, row[m] # "none",
              row' = [row EXCEPT ![m] = "deleted"], thumb' = thumb,
              blobs' = blobs, thumbs' = thumbs, expired' = expired
       PROVE  [Catalog!Next]_(Catalog!vars)
  <2>1. CASE row[m] = "active"
    <3>1. m \in Active /\ Active' = Active \ {m} /\ Gone' = Gone \cup {m}
      BY <1>12, <2>1 DEF Active, Gone
    <3> QED BY <1>12, <3>1, <1>3, <1>6, <1>9
  <2>2. CASE row[m] = "deleted"
    <3>1. row' = row
      BY <1>12, <2>2
    <3> QED BY <1>12, <3>1, <1>7, <1>8, <1>9
  <2> QED BY <1>12, <2>1, <2>2
\* A step that touches neither the rows nor the bucket.
<1>13. ASSUME row' = row, thumb' = thumb, blobs' = blobs, thumbs' = thumbs,
              expired' = expired
       PROVE  [Catalog!Next]_(Catalog!vars)
  BY <1>13, <1>7, <1>8, <1>9
<1>14. ASSUME NEW u \in Uploads, UploadStep(u)
       PROVE  [Catalog!Next]_(Catalog!vars)
  <2>1. CASE Admit(u) BY <2>1, <1>13 DEF Admit
  <2>2. CASE LookupDedup(u) BY <2>2, <1>13 DEF LookupDedup
  <2>3. CASE ReadExisting(u) BY <2>3, <1>13 DEF ReadExisting
  <2>4. CASE PutBlob(u)
    BY <2>4, <1>10 DEF PutBlob, PipelineInv, UploadKnows
  <2>5. CASE PutThumb(u)
    BY <2>5, <1>10 DEF PutThumb, PipelineInv, UploadKnows
  <2>6. CASE Save(u)
    <3>1. u \in Stored /\ u \notin Gone /\ Active' = Active \cup {u}
            /\ Gone' = Gone
      BY <2>6 DEF Save, PipelineInv, UploadKnows, Stored, Gone, Active
    <3> QED BY <2>6, <3>1, <1>2, <1>6, <1>9 DEF Save
  <2>7. CASE SaveFails(u) BY <2>7, <1>13 DEF SaveFails
  <2>8. CASE UndoBlob(u)
    BY <2>8, <1>11 DEF UndoBlob, CleanupIsSafe
  <2>9. CASE UndoThumb(u)
    BY <2>9, <1>11 DEF UndoThumb, CleanupIsSafe
  <2>10. CASE SetDedup(u) BY <2>10, <1>13 DEF SetDedup
  <2>11. CASE Record(u) BY <2>11, <1>13 DEF Record
  <2>12. CASE UploadFails(u)
    <3>1. upc[u] \in {"putBlob", "putThumb"} => row[u] = "none"
      BY DEF PipelineInv, UploadKnows
    <3> QED BY <2>12, <3>1, <1>10, <1>13 DEF UploadFails
  <2> QED BY <1>14, <2>1, <2>2, <2>3, <2>4, <2>5, <2>6, <2>7, <2>8, <2>9,
             <2>10, <2>11, <2>12 DEF UploadStep
<1>15. ASSUME NEW d \in Deletes, DeleteStep(d)
       PROVE  [Catalog!Next]_(Catalog!vars)
  <2> DEFINE m == target[d]
  <2>1. dpc[d] # "idle" => m \in Uploads /\ row[m] # "none"
    BY DEF PipelineInv, DeleteKnows
  <2>2. dpc[d] \in {"dropBlob", "dropThumb"} => row[m] = "deleted"
    BY DEF PipelineInv, DeleteKnows
  <2>3. CASE SoftDelete(d) BY <2>1, <2>3, <1>12 DEF SoftDelete
  <2>4. CASE DropBlob(d) BY <2>1, <2>2, <2>4, <1>11 DEF DropBlob
  <2>5. CASE DropThumb(d) BY <2>1, <2>2, <2>5, <1>11 DEF DropThumb
  <2>6. CASE DropMeta(d) BY <2>6, <1>13 DEF DropMeta
  <2>7. CASE Release(d) BY <2>7, <1>13 DEF Release
  <2>8. CASE Publish(d) BY <2>8, <1>13 DEF Publish
  <2>9. CASE DeleteFails(d)
    BY <2>1, <2>2, <2>9, <1>11, <1>13 DEF DeleteFails
  <2> QED BY <1>15, <2>3, <2>4, <2>5, <2>6, <2>7, <2>8, <2>9 DEF DeleteStep
<1>16. ASSUME NEW u \in Uploads, UploadCrashes(u)
       PROVE  [Catalog!Next]_(Catalog!vars)
  BY <1>16, <1>13 DEF UploadCrashes
<1>17. ASSUME NEW d \in Deletes, NEW m \in Uploads, Find(d, m)
       PROVE  [Catalog!Next]_(Catalog!vars)
  BY <1>17, <1>13 DEF Find
<1>18. ASSUME NEW d \in Deletes, DeleteCrashes(d)
       PROVE  [Catalog!Next]_(Catalog!vars)
  BY <1>18, <1>13 DEF DeleteCrashes
<1>19. ASSUME NEW c \in Contents, DedupExpires(c)
       PROVE  [Catalog!Next]_(Catalog!vars)
  BY <1>19, <1>13 DEF DedupExpires
<1>20. ASSUME NEW m \in Uploads, ObjectExpires(m)
       PROVE  [Catalog!Next]_(Catalog!vars)
  <2>1. Stored' = Stored \ {m}
    BY <1>20 DEF ObjectExpires, Stored
  <2> QED BY <1>20, <2>1, <1>5, <1>6, <1>8 DEF ObjectExpires
<1>21. CASE UNCHANGED vars BY <1>21, <1>13 DEF vars
<1> QED BY <1>14, <1>15, <1>16, <1>17, <1>18, <1>19, <1>20, <1>21 DEF Next

\* The four stores together keep the promise MediaCatalog states.
THEOREM PipelineImplementsCatalog ==
  ASSUME "commit" \notin Faults
  PROVE  Spec => ImplementsCatalog
<1>1. Init => Catalog!Init
  BY DEF Init, Catalog!Init, Active
<1>2. Init => CleanupIsSafe
  BY DEF Init, CleanupIsSafe, ActiveHasBlob
<1> QED BY <1>1, <1>2, CleanupStep, CatalogStep, PipelineInvariant, PTL
        DEF Spec, Catalog!Spec, ImplementsCatalog

\* The promise is worth something by itself: whatever keeps it serves every media a
\* read can find, unless retention took it.
THEOREM CatalogServes == ImplementsCatalog => []ActiveHasBlob
<1> DEFINE Whole == {m \in blobs : thumb[m] = "good" => m \in thumbs}
           Served == Active \subseteq Whole \cup expired
<1>1. Catalog!Init => Served
  BY DEF Catalog!Init
<1>2. Served /\ [Catalog!Next]_(Catalog!vars) => Served'
  BY DEF Catalog!Next, Catalog!Store, Catalog!Publish, Catalog!Retire, Catalog!Discard,
         Catalog!Expire, Catalog!vars
<1>3. Served => ActiveHasBlob
  BY DEF Active, ActiveHasBlob
<1> QED BY <1>1, <1>2, <1>3, PTL DEF ImplementsCatalog, Catalog!Spec

-----------------------------------------------------------------------------
(* Where S3 answers, no process stops and no bad thumbnail is sent: objects *)
(* are left in the bucket only for a row.                                   *)

\* Which objects an upload may have stored, with the property itself.
StoredInv ==
  /\ \A u \in Uploads :
       /\ upc[u] \in {"idle", "lookup", "reuse", "putBlob", "reused"} =>
            u \notin blobs \cup thumbs
       /\ upc[u] = "undoThumb" => u \notin blobs
  /\ NoOrphan

\* An upload ends without a row only past its cleanup, or before it stored.
LEMMA StoredStep ==
  ASSUME "s3" \notin Faults, "crash" \notin Faults, "bad" \notin Thumbs
  PROVE  TypeOK /\ PipelineInv /\ StoredInv /\ [Next]_vars => StoredInv'
<1> SUFFICES ASSUME TypeOK, PipelineInv, StoredInv, [Next]_vars
             PROVE  StoredInv'
  OBVIOUS
<1> USE "s3" \notin Faults, "crash" \notin Faults, "bad" \notin Thumbs
<1> USE DEF TypeOK, UpTo, DelTo, UploadPC, UploadEnded, DeletePC, DeleteEnded,
            uploadVars, deleteVars, storeVars, quotaVars,
            PipelineInv, UploadKnows, DeleteKnows, StoredInv, NoOrphan
<1>1. ASSUME NEW u \in Uploads, UploadStep(u) PROVE StoredInv'
  <2>1. CASE Admit(u) BY <2>1 DEF Admit
  <2>2. CASE LookupDedup(u) BY <2>2 DEF LookupDedup
  <2>3. CASE ReadExisting(u) BY <2>3 DEF ReadExisting
  <2>4. CASE PutBlob(u) BY <2>4, ThumbsAssumption DEF PutBlob
  <2>5. CASE PutThumb(u) BY <2>5 DEF PutThumb
  <2>6. CASE Save(u) BY <2>6 DEF Save
  <2>7. CASE SaveFails(u) BY <2>7 DEF SaveFails
  <2>8. CASE UndoBlob(u) BY <2>8, ThumbsAssumption DEF UndoBlob
  <2>9. CASE UndoThumb(u) BY <2>9 DEF UndoThumb
  <2>10. CASE SetDedup(u) BY <2>10 DEF SetDedup
  <2>11. CASE Record(u) BY <2>11 DEF Record, CountUpload
  <2>12. CASE UploadFails(u) BY <2>12 DEF UploadFails, CountUpload
  <2> QED BY <1>1, <2>1, <2>2, <2>3, <2>4, <2>5, <2>6, <2>7, <2>8,
             <2>9, <2>10, <2>11, <2>12 DEF UploadStep
<1>2. ASSUME NEW u \in Uploads, UploadCrashes(u) PROVE StoredInv'
  BY <1>2 DEF UploadCrashes
<1>3. ASSUME NEW d \in Deletes, NEW m \in Uploads, Find(d, m) PROVE StoredInv'
  BY <1>3 DEF Find
<1>4. ASSUME NEW d \in Deletes, DeleteStep(d) PROVE StoredInv'
  <2>1. CASE SoftDelete(d) BY <2>1 DEF SoftDelete
  <2>2. CASE DropBlob(d) BY <2>2 DEF DropBlob
  <2>3. CASE DropThumb(d) BY <2>3 DEF DropThumb
  <2>4. CASE DropMeta(d) BY <2>4 DEF DropMeta
  <2>5. CASE Release(d) BY <2>5 DEF Release, ReleaseQuota
  <2>6. CASE Publish(d) BY <2>6 DEF Publish
  <2>7. CASE DeleteFails(d) BY <2>7 DEF DeleteFails, ReleaseQuota
  <2> QED BY <1>4, <2>1, <2>2, <2>3, <2>4, <2>5, <2>6, <2>7 DEF DeleteStep
<1>5. ASSUME NEW d \in Deletes, DeleteCrashes(d) PROVE StoredInv'
  BY <1>5 DEF DeleteCrashes
<1>6. ASSUME NEW c \in Contents, DedupExpires(c) PROVE StoredInv'
  BY <1>6 DEF DedupExpires
<1>7. ASSUME NEW m \in Uploads, ObjectExpires(m) PROVE StoredInv'
  BY <1>7 DEF ObjectExpires
<1>8. CASE UNCHANGED vars BY <1>8 DEF vars
<1> QED BY <1>1, <1>2, <1>3, <1>4, <1>5, <1>6, <1>7, <1>8 DEF Next

\* The cleanup of a failed save takes everything the upload stored, an ambiguous
\* commit included, and nothing else ends an upload between its PUT and its save.
THEOREM NeverOrphaned ==
  ASSUME "s3" \notin Faults, "crash" \notin Faults, "bad" \notin Thumbs
  PROVE  Spec => []NoOrphan
<1>1. Init => StoredInv
  BY DEF Init, StoredInv, NoOrphan
<1>2. StoredInv => NoOrphan
  BY DEF StoredInv
<1> QED BY <1>1, <1>2, StoredStep, PipelineInvariant, PTL DEF Spec

-----------------------------------------------------------------------------
(* The account.  What the pipeline does to the quota is what QuotaLedger's   *)
(* row takes: QuotaAccount stands between the two.                           *)

\* An upload that has not recorded itself yet is not counted.
CountedOnce ==
  \A u \in Uploads : upc[u] \notin {"created", "failed"} => u \notin counted

\* Counting is the last thing an upload does, whether it succeeds or not.
LEMMA CountedOnceStep ==
  TypeOK /\ PipelineInv /\ CountedOnce /\ [Next]_vars => CountedOnce'
<1> SUFFICES ASSUME TypeOK, PipelineInv, CountedOnce, [Next]_vars PROVE CountedOnce'
  OBVIOUS
<1>1. ASSUME NEW u \in Uploads, UploadStep(u) PROVE CountedOnce'
  <2>1. CASE Record(u)
    BY <2>1 DEF Record, CountUpload, UpTo, TypeOK, CountedOnce
  <2>2. CASE UploadFails(u)
    <3>1. counted' \in {counted, counted \cup {u}} /\ upc' = [upc EXCEPT ![u] = "failed"]
      BY <2>2 DEF UploadFails, CountUpload, UpTo, quotaVars
    <3> QED BY <3>1 DEF TypeOK, CountedOnce
  <2>3. CASE \/ Admit(u) \/ LookupDedup(u) \/ ReadExisting(u) \/ PutBlob(u)
             \/ PutThumb(u) \/ Save(u) \/ SaveFails(u) \/ UndoBlob(u)
             \/ UndoThumb(u) \/ SetDedup(u)
    <3>1. /\ upc[u] \notin {"created", "failed"} /\ UNCHANGED counted
          /\ \E q : upc' = [upc EXCEPT ![u] = q]
      BY <2>3 DEF Admit, LookupDedup, ReadExisting, PutBlob, PutThumb, Save, SaveFails,
                  UndoBlob, UndoThumb, SetDedup, UpTo, quotaVars
    <3> QED BY <3>1 DEF TypeOK, CountedOnce
  <2> QED BY <1>1, <2>1, <2>2, <2>3 DEF UploadStep
<1>2. ASSUME NEW u \in Uploads, UploadCrashes(u) PROVE CountedOnce'
  BY <1>2 DEF UploadCrashes, UpTo, TypeOK, CountedOnce, quotaVars
<1>3. ASSUME UNCHANGED <<upc, counted>> PROVE CountedOnce'
  BY <1>3 DEF CountedOnce
<1>4. ASSUME NEW d \in Deletes, NEW m \in Uploads, Find(d, m) PROVE CountedOnce'
  BY <1>3, <1>4 DEF Find, uploadVars, quotaVars
<1>5. ASSUME NEW d \in Deletes, DeleteStep(d) PROVE CountedOnce'
  BY <1>3, <1>5 DEF DeleteStep, SoftDelete, DropBlob, DropThumb, DropMeta, Release,
                    Publish, DeleteFails, ReleaseQuota, uploadVars, quotaVars
<1>6. ASSUME NEW d \in Deletes, DeleteCrashes(d) PROVE CountedOnce'
  BY <1>3, <1>6 DEF DeleteCrashes, uploadVars, quotaVars
<1>7. ASSUME NEW c \in Contents, DedupExpires(c) PROVE CountedOnce'
  BY <1>3, <1>7 DEF DedupExpires, uploadVars, quotaVars
<1>8. ASSUME NEW m \in Uploads, ObjectExpires(m) PROVE CountedOnce'
  BY <1>3, <1>8 DEF ObjectExpires, uploadVars, quotaVars
<1>9. CASE UNCHANGED vars BY <1>3, <1>9 DEF vars, uploadVars, quotaVars
<1> QED BY <1>1, <1>2, <1>4, <1>5, <1>6, <1>7, <1>8, <1>9 DEF Next

\* A step that moves neither the quota nor which media have a row is a stutter of
\* the account.
LEMMA AccountStutters ==
  ASSUME UNCHANGED quotaVars,
         \A m \in Uploads : (row[m] # "none") <=> (row'[m] # "none")
  PROVE  UNCHANGED Account!vars
BY DEF Account!vars, quotaVars

\* The save of an upload is the account's, and the charge that may follow finds
\* the media saved and not counted.
LEMMA UploadIsAccounted ==
  ASSUME TypeOK, PipelineInv, CountedOnce, NEW u \in Uploads, UploadStep(u)
  PROVE  [Account!Next]_Account!vars
<1>1. ASSUME row' = [row EXCEPT ![u] = "active"], UNCHANGED quotaVars
      PROVE  Account!Save(u)
  <2>1. {m \in Uploads : row'[m] # "none"} = {m \in Uploads : row[m] # "none"} \cup {u}
    BY <1>1 DEF TypeOK
  <2> QED BY <1>1, <2>1 DEF Account!Save, quotaVars
<1>2. ASSUME upc[u] = "record", CountUpload(u), UNCHANGED row
      PROVE  Account!Count(u)
  <2>1. row[u] # "none" /\ u \notin counted
    BY <1>2 DEF PipelineInv, UploadKnows, CountedOnce
  <2> QED BY <1>2, <2>1 DEF Account!Count, CountUpload
<1>3. ASSUME UNCHANGED <<row, quotaVars>> PROVE UNCHANGED Account!vars
  BY <1>3, AccountStutters
<1>4. CASE Save(u) \/ SaveFails(u)
  BY <1>1, <1>3, <1>4 DEF Save, SaveFails, Account!Next
<1>5. CASE Record(u)
  BY <1>2, <1>5 DEF Record, Account!Next
<1>6. CASE UploadFails(u)
  <2>1. UNCHANGED row /\ (UNCHANGED quotaVars \/ (upc[u] = "record" /\ CountUpload(u)))
    BY <1>6 DEF UploadFails
  <2> QED BY <1>2, <1>3, <2>1 DEF Account!Next
<1>7. CASE Admit(u) \/ LookupDedup(u) \/ ReadExisting(u) \/ PutBlob(u) \/ PutThumb(u)
           \/ UndoBlob(u) \/ UndoThumb(u) \/ SetDedup(u)
  BY <1>3, <1>7 DEF Admit, LookupDedup, ReadExisting, PutBlob, PutThumb, UndoBlob,
                    UndoThumb, SetDedup
<1> QED BY <1>4, <1>5, <1>6, <1>7 DEF UploadStep

\* A release is of a row that was found; deleting that row leaves it saved.
LEMMA DeleteIsAccounted ==
  ASSUME TypeOK, PipelineInv, NEW d \in Deletes, DeleteStep(d)
  PROVE  [Account!Next]_Account!vars
<1>1. dpc[d] # "idle" => target[d] \in Uploads /\ row[target[d]] # "none"
  BY DEF PipelineInv, DeleteKnows
<1>2. ASSUME dpc[d] = "release", ReleaseQuota(target[d]), UNCHANGED row
      PROVE  Account!Release(target[d])
  BY <1>1, <1>2 DEF Account!Release, ReleaseQuota
<1>3. ASSUME dpc[d] # "idle", row' \in {row, [row EXCEPT ![target[d]] = "deleted"]},
             UNCHANGED quotaVars
      PROVE  UNCHANGED Account!vars
  BY <1>1, <1>3, AccountStutters DEF TypeOK
<1>4. CASE Release(d)
  BY <1>1, <1>2, <1>4 DEF Release, Account!Next
<1>5. CASE DeleteFails(d)
  <2>1. /\ dpc[d] # "idle"
        /\ \/ UNCHANGED quotaVars /\ row' \in {row, [row EXCEPT ![target[d]] = "deleted"]}
           \/ dpc[d] = "release" /\ ReleaseQuota(target[d]) /\ UNCHANGED row
    BY <1>5 DEF DeleteFails
  <2> QED BY <1>1, <1>2, <1>3, <2>1 DEF Account!Next
<1>6. CASE SoftDelete(d) \/ DropBlob(d) \/ DropThumb(d) \/ DropMeta(d) \/ Publish(d)
  BY <1>3, <1>6 DEF SoftDelete, DropBlob, DropThumb, DropMeta, Publish
<1> QED BY <1>4, <1>5, <1>6 DEF DeleteStep

\* Whatever fails and whichever requests overlap, the quota is only moved as its
\* account allows: a media is charged once at most and after it was saved, and
\* given back only if it was.
THEOREM PipelineImplementsAccount == Spec => ImplementsAccount
<1>1. Init => Account!Init /\ CountedOnce
  BY DEF Init, Account!Init, CountedOnce
<1>2. TypeOK /\ PipelineInv /\ CountedOnce /\ [Next]_vars => [Account!Next]_Account!vars
  <2> SUFFICES ASSUME TypeOK, PipelineInv, CountedOnce, [Next]_vars
               PROVE  [Account!Next]_Account!vars
    OBVIOUS
  <2>1. ASSUME UNCHANGED <<row, quotaVars>> PROVE UNCHANGED Account!vars
    BY <2>1, AccountStutters
  <2>2. ASSUME NEW u \in Uploads, UploadCrashes(u) PROVE UNCHANGED Account!vars
    BY <2>1, <2>2 DEF UploadCrashes
  <2>3. ASSUME NEW d \in Deletes, NEW m \in Uploads, Find(d, m) PROVE UNCHANGED Account!vars
    BY <2>1, <2>3 DEF Find
  <2>4. ASSUME NEW d \in Deletes, DeleteCrashes(d) PROVE UNCHANGED Account!vars
    BY <2>1, <2>4 DEF DeleteCrashes
  <2>5. ASSUME NEW c \in Contents, DedupExpires(c) PROVE UNCHANGED Account!vars
    BY <2>1, <2>5 DEF DedupExpires
  <2>6. ASSUME NEW m \in Uploads, ObjectExpires(m) PROVE UNCHANGED Account!vars
    BY <2>1, <2>6 DEF ObjectExpires
  <2>7. CASE UNCHANGED vars
    BY <2>1, <2>7 DEF vars
  <2> QED BY <2>2, <2>3, <2>4, <2>5, <2>6, <2>7, UploadIsAccounted, DeleteIsAccounted
          DEF Next
<1> QED BY <1>1, <1>2, CountedOnceStep, PipelineInvariant, PTL
        DEF Spec, ImplementsAccount, Account!Spec

-----------------------------------------------------------------------------
(* What the account is for.  A release takes at most one file from the row,  *)
(* so while none is released twice the row and the media released make up    *)
(* the counted.                                                              *)

Released == {m \in Uploads : releases[m] > 0}

AccountCovers ==
  (\A m \in Uploads : releases[m] <= 1)
    => Cardinality(counted) <= filesCount + Cardinality(Released)

AccountInv ==
  /\ filesCount \in Nat /\ releases \in [Uploads -> Nat]
  /\ IsFiniteSet(counted) /\ IsFiniteSet(Released)
  /\ AccountCovers

\* A charge adds one file, to the row and to the counted.
LEMMA CountedMore ==
  ASSUME AccountInv, NEW u \in Uploads, Account!Count(u)
  PROVE  AccountInv'
<1>1. /\ IsFiniteSet(counted') /\ Cardinality(counted) \in Nat
      /\ Cardinality(counted') \in {Cardinality(counted), Cardinality(counted) + 1}
  BY FS_AddElement, FS_CardinalityType DEF AccountInv, Account!Count
<1>2. Released' = Released /\ Cardinality(Released) \in Nat
  BY FS_CardinalityType DEF Released, AccountInv, Account!Count
<1>3. filesCount' = filesCount + 1 /\ releases' = releases /\ filesCount \in Nat
  BY DEF Account!Count, AccountInv
<1> QED BY <1>1, <1>2, <1>3 DEF AccountInv, AccountCovers

\* A release takes one at most, and adds one to the released.
LEMMA ReleasedMore ==
  ASSUME AccountInv, NEW m \in Uploads, Account!Release(m)
  PROVE  AccountInv'
<1>1. /\ releases[m] \in Nat /\ releases'[m] = releases[m] + 1
      /\ \A q \in Uploads \ {m} : releases'[q] = releases[q]
      /\ counted' = counted /\ releases' \in [Uploads -> Nat]
  BY DEF Account!Release, AccountInv
<1>2. Released' = Released \cup {m}
  BY <1>1 DEF Released
<1>3. /\ IsFiniteSet(Released') /\ Cardinality(Released) \in Nat
      /\ Cardinality(counted) \in Nat
      /\ m \notin Released => Cardinality(Released') = Cardinality(Released) + 1
  BY <1>2, FS_AddElement, FS_CardinalityType DEF AccountInv
<1>4. filesCount' \in Nat /\ filesCount \in Nat /\ filesCount <= filesCount' + 1
  BY DEF Account!Release, AccountInv
<1>5. ASSUME \A q \in Uploads : releases'[q] <= 1
      PROVE  Cardinality(counted') <= filesCount' + Cardinality(Released')
  <2>1. m \notin Released
    BY <1>1, <1>5 DEF Released
  <2>2. \A q \in Uploads : releases[q] <= 1
    BY <1>1, <1>5, <2>1 DEF Released, AccountInv
  <2>3. Cardinality(counted) <= filesCount + Cardinality(Released)
    BY <2>2 DEF AccountInv, AccountCovers
  <2>4. Cardinality(counted') = Cardinality(counted)
    BY <1>1
  <2>5. Cardinality(Released') = Cardinality(Released) + 1
    BY <1>3, <2>1
  <2>6. Cardinality(counted) <= filesCount' + (Cardinality(Released) + 1)
    <3> DEFINE c == Cardinality(counted)
               r == Cardinality(Released)
               f == filesCount'
    <3>1. c \in Nat /\ r \in Nat /\ f \in Nat /\ filesCount \in Nat
          /\ c <= filesCount + r /\ filesCount <= f + 1
      BY <1>3, <1>4, <2>3
    <3> HIDE DEF c, r, f
    <3>2. c <= f + (r + 1)
      BY <3>1
    <3> QED BY <3>2 DEF c, r, f
  <2> QED BY <2>4, <2>5, <2>6
<1> QED BY <1>1, <1>3, <1>4, <1>5 DEF AccountInv, AccountCovers

\* Whatever keeps the account never loses a charge: with no media released twice
\* the files on the row and the media released cover all that was counted.
THEOREM AccountNeverShort == ImplementsAccount => []AccountCovers
<1>1. Account!Init => AccountInv
  <2> SUFFICES ASSUME Account!Init PROVE AccountInv
    OBVIOUS
  <2>1. Released = {} /\ counted = {} /\ filesCount = 0
    BY DEF Account!Init, Released
  <2> QED BY <2>1, FS_EmptySet DEF AccountInv, AccountCovers, Account!Init
<1>2. AccountInv /\ [Account!Next]_Account!vars => AccountInv'
  <2> SUFFICES ASSUME AccountInv, [Account!Next]_Account!vars PROVE AccountInv'
    OBVIOUS
  <2>1. ASSUME UNCHANGED <<filesCount, counted, releases>> PROVE AccountInv'
    <3>1. Released' = Released
      BY <2>1 DEF Released
    <3> QED BY <2>1, <3>1 DEF AccountInv, AccountCovers
  <2>2. ASSUME NEW m \in Uploads, Account!Save(m) PROVE AccountInv'
    BY <2>1, <2>2 DEF Account!Save
  <2>3. CASE UNCHANGED Account!vars
    BY <2>1, <2>3 DEF Account!vars
  <2> QED BY <2>2, <2>3, CountedMore, ReleasedMore DEF Account!Next
<1>3. AccountInv => AccountCovers
  BY DEF AccountInv
<1> QED BY <1>1, <1>2, <1>3, PTL DEF ImplementsAccount, Account!Spec

\* A media whose quota was given back was deleted, and its row does not come back
\* to life; what is counted stays finite.
ReleasedIsDeleted ==
  /\ IsFiniteSet(counted)
  /\ \A m \in Uploads : releases[m] > 0 => row[m] = "deleted"

\* Every step keeps that.
LEMMA ReleasedIsDeletedStep ==
  TypeOK /\ PipelineInv /\ ReleasedIsDeleted /\ [Next]_vars => ReleasedIsDeleted'
<1> SUFFICES ASSUME TypeOK, PipelineInv, ReleasedIsDeleted, [Next]_vars
             PROVE  ReleasedIsDeleted'
  OBVIOUS
<1>1. ASSUME UNCHANGED quotaVars,
             \A m \in Uploads : row[m] = "deleted" => row'[m] = "deleted"
      PROVE  ReleasedIsDeleted'
  BY <1>1 DEF ReleasedIsDeleted, quotaVars
<1>2. ASSUME NEW u \in Uploads, CountUpload(u), UNCHANGED row PROVE ReleasedIsDeleted'
  BY <1>2, FS_AddElement DEF ReleasedIsDeleted, CountUpload
<1>3. ASSUME NEW d \in Deletes, dpc[d] = "release", ReleaseQuota(target[d]), UNCHANGED row
      PROVE  ReleasedIsDeleted'
  <2>1. target[d] \in Uploads /\ row[target[d]] = "deleted"
    BY <1>3 DEF PipelineInv, DeleteKnows
  <2> QED BY <1>3, <2>1 DEF ReleasedIsDeleted, ReleaseQuota, TypeOK
<1>4. ASSUME NEW u \in Uploads, UploadStep(u) PROVE ReleasedIsDeleted'
  <2>1. CASE Save(u) \/ SaveFails(u)
    <3>1. row[u] = "none"
      BY <2>1 DEF Save, SaveFails, PipelineInv, UploadKnows
    <3>2. row' \in {row, [row EXCEPT ![u] = "active"]} /\ UNCHANGED quotaVars
      BY <2>1 DEF Save, SaveFails
    <3> QED BY <1>1, <3>1, <3>2 DEF TypeOK
  <2>2. CASE Record(u)
    BY <1>2, <2>2 DEF Record
  <2>3. CASE UploadFails(u)
    BY <1>1, <1>2, <2>3 DEF UploadFails
  <2>4. CASE Admit(u) \/ LookupDedup(u) \/ ReadExisting(u) \/ PutBlob(u) \/ PutThumb(u)
             \/ UndoBlob(u) \/ UndoThumb(u) \/ SetDedup(u)
    BY <1>1, <2>4 DEF Admit, LookupDedup, ReadExisting, PutBlob, PutThumb, UndoBlob,
                      UndoThumb, SetDedup
  <2> QED BY <1>4, <2>1, <2>2, <2>3, <2>4 DEF UploadStep
<1>5. ASSUME NEW d \in Deletes, DeleteStep(d) PROVE ReleasedIsDeleted'
  <2>1. CASE SoftDelete(d)
    BY <1>1, <2>1 DEF SoftDelete, TypeOK
  <2>2. CASE Release(d)
    BY <1>3, <2>2 DEF Release
  <2>3. CASE DeleteFails(d)
    <3>1. \/ UNCHANGED quotaVars /\ row' \in {row, [row EXCEPT ![target[d]] = "deleted"]}
          \/ dpc[d] = "release" /\ ReleaseQuota(target[d]) /\ UNCHANGED row
      BY <2>3 DEF DeleteFails
    <3> QED BY <1>1, <1>3, <3>1 DEF TypeOK
  <2>4. CASE DropBlob(d) \/ DropThumb(d) \/ DropMeta(d) \/ Publish(d)
    BY <1>1, <2>4 DEF DropBlob, DropThumb, DropMeta, Publish
  <2> QED BY <1>5, <2>1, <2>2, <2>3, <2>4 DEF DeleteStep
<1>6. ASSUME UNCHANGED <<row, quotaVars>> PROVE ReleasedIsDeleted'
  BY <1>1, <1>6
<1>7. ASSUME NEW u \in Uploads, UploadCrashes(u) PROVE ReleasedIsDeleted'
  BY <1>6, <1>7 DEF UploadCrashes
<1>8. ASSUME NEW d \in Deletes, NEW m \in Uploads, Find(d, m) PROVE ReleasedIsDeleted'
  BY <1>6, <1>8 DEF Find
<1>9. ASSUME NEW d \in Deletes, DeleteCrashes(d) PROVE ReleasedIsDeleted'
  BY <1>6, <1>9 DEF DeleteCrashes
<1>10. ASSUME NEW c \in Contents, DedupExpires(c) PROVE ReleasedIsDeleted'
  BY <1>6, <1>10 DEF DedupExpires
<1>11. ASSUME NEW m \in Uploads, ObjectExpires(m) PROVE ReleasedIsDeleted'
  BY <1>6, <1>11 DEF ObjectExpires
<1>12. CASE UNCHANGED vars BY <1>6, <1>12 DEF vars
<1> QED BY <1>4, <1>5, <1>7, <1>8, <1>9, <1>10, <1>11, <1>12 DEF Next

\* An owner is charged for every media that is there, whichever way charges and
\* releases overtake each other, unless a charge was lost or a media released twice:
\* the account covers what was counted, and what was released is not there.
THEOREM NeverChargedTooLittle == Spec => []NeverUnderCounted
<1>1. Init => ReleasedIsDeleted
  BY FS_EmptySet DEF Init, ReleasedIsDeleted
<1>2. TypeOK /\ ReleasedIsDeleted /\ AccountCovers => NeverUnderCounted
  <2> SUFFICES ASSUME TypeOK, ReleasedIsDeleted, AccountCovers, Active \subseteq counted,
                      \A m \in Uploads : releases[m] <= IF m \in counted THEN 1 ELSE 0
               PROVE  filesCount >= Cardinality(Active)
    BY DEF NeverUnderCounted
  <2>1. Released \subseteq counted /\ Active \cap Released = {}
    BY DEF Released, Active, ReleasedIsDeleted, TypeOK
  <2>2. IsFiniteSet(Active) /\ IsFiniteSet(Released)
    BY <2>1, FS_Subset DEF ReleasedIsDeleted
  <2>3. Cardinality(Active \cup Released) = Cardinality(Active) + Cardinality(Released)
    <3>1. Cardinality(Active \cup Released)
            = Cardinality(Active) + Cardinality(Released) - Cardinality(Active \cap Released)
      BY <2>2, FS_Union
    <3>2. Cardinality(Active \cap Released) = 0
      BY <2>1, FS_EmptySet
    <3> QED BY <2>2, <3>1, <3>2, FS_CardinalityType
  <2>4. Cardinality(Active \cup Released) <= Cardinality(counted)
    BY <2>1, FS_Subset DEF ReleasedIsDeleted
  <2>5. Cardinality(counted) <= filesCount + Cardinality(Released)
    BY DEF TypeOK, AccountCovers
  <2> QED BY <2>2, <2>3, <2>4, <2>5, FS_CardinalityType DEF ReleasedIsDeleted, TypeOK
<1> QED BY <1>1, <1>2, ReleasedIsDeletedStep, PipelineInvariant, PipelineImplementsAccount,
           AccountNeverShort, PTL DEF Spec

=============================================================================
