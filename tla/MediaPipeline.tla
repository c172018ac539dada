--------------------------- MODULE MediaPipeline ---------------------------
(***************************************************************************)
(* Uploading and deleting the media of one owner in one context:           *)
(* MediaService.upload after admission and MediaService.delete, over       *)
(* PostgreSQL (the media row and the quota row), S3 (the blob and its      *)
(* thumbnail) and Redis (the dedup entry and the events).  No transaction  *)
(* spans two of the stores, so every awaited call is a step of its own.    *)
(*                                                                         *)
(* A media id is drawn by randomUUID for each upload, so the upload that   *)
(* created a media stands for its id.  All blobs have the same size: the   *)
(* quota row is its files_count (storage_used moves with it).              *)
(***************************************************************************)
EXTENDS Naturals, FiniteSets

CONSTANTS
  Uploads,    \* upload requests, each also the id of the media it may create
  Deletes,    \* delete requests
  Contents,   \* blob contents, told apart by their SHA-256
  Thumbs,     \* thumbnails clients send, out of {"none", "good", "bad"}
  Faults,     \* what may fail: "db", "commit", "s3", "redis", "crash"
  NoMedia     \* absence of a media id

ASSUME ThumbsAssumption == Thumbs \subseteq {"none", "good", "bad"}
ASSUME NoMediaAssumption == NoMedia \notin Uploads

VARIABLES
  upc,        \* where each upload request is
  content,    \* the content each upload request carries
  thumb,      \* the thumbnail it carries
  hit,        \* the media id it read from the dedup entry
  dpc,        \* where each delete request is
  target,     \* the media it deletes
  row,        \* media rows: "none", "active" or "deleted" (is_active = false)
  blobs,      \* media whose blob is in the bucket
  thumbs,     \* media whose thumbnail is in the bucket
  expired,    \* media whose objects the bucket's lifecycle rule removed
  dedup,      \* dedup:blob:<owner>:<context>:<sha256> in Redis
  filesCount, \* user_quotas.files_count
  counted,    \* history: media recordUpload has counted
  releases,   \* history: how often recordDelete was committed for a media
  retracted   \* history: media announced by media.deleted

uploadVars == <<upc, content, thumb, hit>>
deleteVars == <<dpc, target>>
storeVars  == <<blobs, thumbs, expired>>
quotaVars  == <<filesCount, counted, releases>>
vars == <<uploadVars, deleteVars, row, storeVars, dedup, quotaVars, retracted>>

UploadEnded == {"created", "reused", "failed"}
UploadPC == {"idle", "lookup", "reuse", "putBlob", "putThumb", "save",
             "undoBlob", "undoThumb", "setDedup", "record"} \cup UploadEnded
DeleteEnded == {"done", "notFound", "failed"}
DeletePC == {"idle", "update", "dropBlob", "dropThumb", "dropMeta",
             "release", "publish"} \cup DeleteEnded

Init ==
  /\ upc = [u \in Uploads |-> "idle"]
  /\ content \in [Uploads -> Contents]
  /\ thumb \in [Uploads -> Thumbs]
  /\ hit = [u \in Uploads |-> NoMedia]
  /\ dpc = [d \in Deletes |-> "idle"]
  /\ target = [d \in Deletes |-> NoMedia]
  /\ row = [u \in Uploads |-> "none"]
  /\ blobs = {} /\ thumbs = {} /\ expired = {}
  /\ dedup = [c \in Contents |-> NoMedia]
  /\ filesCount = 0 /\ counted = {}
  /\ releases = [u \in Uploads |-> 0]
  /\ retracted = {}

UpTo(u, s)  == upc' = [upc EXCEPT ![u] = s] /\ UNCHANGED <<content, thumb>>
DelTo(d, s) == dpc' = [dpc EXCEPT ![d] = s] /\ UNCHANGED target

-----------------------------------------------------------------------------
(* Uploads. *)

\* The semaphore, the quota check and the validations let the request through.
Admit(u) ==
  /\ upc[u] = "idle"
  /\ UpTo(u, "lookup")
  /\ UNCHANGED <<hit, deleteVars, row, storeVars, dedup, quotaVars, retracted>>

\* cache.get(dedupKey)
LookupDedup(u) ==
  LET found == dedup[content[u]] IN
  /\ upc[u] = "lookup"
  /\ hit' = [hit EXCEPT ![u] = found]
  /\ UpTo(u, IF found = NoMedia THEN "putBlob" ELSE "reuse")
  /\ UNCHANGED <<deleteVars, row, storeVars, dedup, quotaVars, retracted>>

\* The transaction reading the media of the dedup entry, if it is still active.
ReadExisting(u) ==
  /\ upc[u] = "reuse"
  /\ UpTo(u, IF row[hit[u]] = "active" THEN "reused" ELSE "putBlob")
  /\ UNCHANGED <<hit, deleteVars, row, storeVars, dedup, quotaVars, retracted>>

\* Mutant: the dedup entry is written with the blob, ahead of the row.
PutBlobAndDedup(u) ==
  /\ upc[u] = "putBlob"
  /\ blobs' = blobs \cup {u}
  /\ dedup' = [dedup EXCEPT ![content[u]] = u]
  /\ UpTo(u, IF thumb[u] = "good" THEN "putThumb" ELSE "save")
  /\ UNCHANGED <<hit, deleteVars, row, thumbs, expired, quotaVars, retracted>>

\* The thumbnail is validated once the blob is stored: a bad one ends the upload.
PutBlob(u) ==
  /\ upc[u] = "putBlob"
  /\ blobs' = blobs \cup {u}
  /\ UpTo(u, CASE thumb[u] = "none" -> "save"
               [] thumb[u] = "good" -> "putThumb"
               [] thumb[u] = "bad"  -> "failed")
  /\ UNCHANGED <<hit, deleteVars, row, thumbs, expired, dedup, quotaVars,
                 retracted>>

\* Mutant: an S3 error on the thumbnail is swallowed.
PutThumbOrNot(u) ==
  /\ upc[u] = "putThumb"
  /\ thumbs' \in {thumbs, thumbs \cup {u}}
  /\ UpTo(u, "save")
  /\ UNCHANGED <<hit, deleteVars, row, blobs, expired, dedup, quotaVars,
                 retracted>>

PutThumb(u) ==
  /\ upc[u] = "putThumb"
  /\ thumbs' = thumbs \cup {u}
  /\ UpTo(u, "save")
  /\ UNCHANGED <<hit, deleteVars, row, blobs, expired, dedup, quotaVars,
                 retracted>>

Save(u) ==
  /\ upc[u] = "save"
  /\ row' = [row EXCEPT ![u] = "active"]
  /\ UpTo(u, "setDedup")
  /\ UNCHANGED <<hit, deleteVars, storeVars, dedup, quotaVars, retracted>>

\* The save is rejected, or the connection is lost after the server committed.
SaveFails(u) ==
  /\ upc[u] = "save"
  /\ \/ "db" \in Faults /\ UNCHANGED row
     \/ "commit" \in Faults /\ row' = [row EXCEPT ![u] = "active"]
  /\ UpTo(u, "undoBlob")
  /\ UNCHANGED <<hit, deleteVars, storeVars, dedup, quotaVars, retracted>>

\* Mutant: the cleanup forgets the thumbnail.
UndoBlobOnly(u) ==
  /\ upc[u] = "undoBlob"
  /\ blobs' = blobs \ {u}
  /\ UpTo(u, "failed")
  /\ UNCHANGED <<hit, deleteVars, row, thumbs, expired, dedup, quotaVars,
                 retracted>>

\* The catch block: S3 errors are swallowed, the next step runs all the same.
UndoBlob(u) ==
  /\ upc[u] = "undoBlob"
  /\ \/ blobs' = blobs \ {u}
     \/ "s3" \in Faults /\ UNCHANGED blobs
  /\ UpTo(u, IF thumb[u] = "good" THEN "undoThumb" ELSE "failed")
  /\ UNCHANGED <<hit, deleteVars, row, thumbs, expired, dedup, quotaVars,
                 retracted>>

UndoThumb(u) ==
  /\ upc[u] = "undoThumb"
  /\ \/ thumbs' = thumbs \ {u}
     \/ "s3" \in Faults /\ UNCHANGED thumbs
  /\ UpTo(u, "failed")
  /\ UNCHANGED <<hit, deleteVars, row, blobs, expired, dedup, quotaVars,
                 retracted>>

SetDedup(u) ==
  /\ upc[u] = "setDedup"
  /\ dedup' = [dedup EXCEPT ![content[u]] = u]
  /\ UpTo(u, "record")
  /\ UNCHANGED <<hit, deleteVars, row, storeVars, quotaVars, retracted>>

\* quotaService.recordUpload
CountUpload(u) ==
  /\ filesCount' = filesCount + 1
  /\ counted' = counted \cup {u}
  /\ UNCHANGED releases

Record(u) ==
  /\ upc[u] = "record"
  /\ CountUpload(u)
  /\ UpTo(u, "created")
  /\ UNCHANGED <<hit, deleteVars, row, storeVars, dedup, retracted>>

\* An awaited call rejects, the request ends with an error: what the call was
\* to do may have been done all the same.
UploadFails(u) ==
  /\ \/ upc[u] = "lookup"   /\ "redis" \in Faults
        /\ UNCHANGED <<storeVars, dedup, quotaVars>>
     \/ upc[u] = "reuse"    /\ "db" \in Faults
        /\ UNCHANGED <<storeVars, dedup, quotaVars>>
     \/ upc[u] = "putBlob"  /\ "s3" \in Faults
        /\ blobs' \in {blobs, blobs \cup {u}}
        /\ UNCHANGED <<thumbs, expired, dedup, quotaVars>>
     \/ upc[u] = "putThumb" /\ "s3" \in Faults
        /\ thumbs' \in {thumbs, thumbs \cup {u}}
        /\ UNCHANGED <<blobs, expired, dedup, quotaVars>>
     \/ upc[u] = "setDedup" /\ "redis" \in Faults
        /\ dedup' \in {dedup, [dedup EXCEPT ![content[u]] = u]}
        /\ UNCHANGED <<storeVars, quotaVars>>
     \/ upc[u] = "record"   /\ "db" \in Faults
        /\ UNCHANGED <<storeVars, dedup, quotaVars>>
     \/ upc[u] = "record"   /\ "commit" \in Faults
        /\ CountUpload(u)
        /\ UNCHANGED <<storeVars, dedup>>
  /\ UpTo(u, "failed")
  /\ UNCHANGED <<hit, deleteVars, row, retracted>>

\* The process running the request stops between two of its calls.
UploadCrashes(u) ==
  /\ "crash" \in Faults
  /\ upc[u] \notin UploadEnded \cup {"idle"}
  /\ UpTo(u, "failed")
  /\ UNCHANGED <<hit, deleteVars, row, storeVars, dedup, quotaVars, retracted>>

-----------------------------------------------------------------------------
(* Deletes.  The transaction is two steps: under READ COMMITTED another one *)
(* may commit between its SELECT and its UPDATE.                            *)

\* Mutant: the objects are dropped before the row is hidden.
FindThenDrop(d, m) ==
  /\ dpc[d] = "idle"
  /\ row[m] # "none"
  /\ dpc' = [dpc EXCEPT ![d] = "dropBlob"]
  /\ target' = [target EXCEPT ![d] = m]
  /\ UNCHANGED <<uploadVars, row, storeVars, dedup, quotaVars, retracted>>

\* findById: the owner knows the id of every row that was saved (my-media).
Find(d, m) ==
  /\ dpc[d] = "idle"
  /\ row[m] # "none"
  /\ dpc' = [dpc EXCEPT ![d] = IF row[m] = "active" THEN "update"
                                                    ELSE "notFound"]
  /\ target' = [target EXCEPT ![d] = m]
  /\ UNCHANGED <<uploadVars, row, storeVars, dedup, quotaVars, retracted>>

SoftDelete(d) ==
  /\ dpc[d] = "update"
  /\ row' = [row EXCEPT ![target[d]] = "deleted"]
  /\ DelTo(d, "dropBlob")
  /\ UNCHANGED <<uploadVars, storeVars, dedup, quotaVars, retracted>>

\* Mutant: the thumbnail of the row is forgotten.
DropBlobOnly(d) ==
  /\ dpc[d] = "dropBlob"
  /\ blobs' = blobs \ {target[d]}
  /\ DelTo(d, "dropMeta")
  /\ UNCHANGED <<uploadVars, row, thumbs, expired, dedup, quotaVars, retracted>>

\* storageService.delete on the blob, then on the thumbnail the row names.
DropBlob(d) ==
  /\ dpc[d] = "dropBlob"
  /\ blobs' = blobs \ {target[d]}
  /\ DelTo(d, IF thumb[target[d]] = "good" THEN "dropThumb" ELSE "dropMeta")
  /\ UNCHANGED <<uploadVars, row, thumbs, expired, dedup, quotaVars, retracted>>

DropThumb(d) ==
  /\ dpc[d] = "dropThumb"
  /\ thumbs' = thumbs \ {target[d]}
  /\ DelTo(d, "dropMeta")
  /\ UNCHANGED <<uploadVars, row, blobs, expired, dedup, quotaVars, retracted>>

\* cache.del of the metadata entry (its content is modelled in MediaAccess).
DropMeta(d) ==
  /\ dpc[d] = "dropMeta"
  /\ DelTo(d, "release")
  /\ UNCHANGED <<uploadVars, row, storeVars, dedup, quotaVars, retracted>>

\* Mutant: a decrement applied twice.
ReleaseTwice(m) ==
  /\ filesCount' = IF filesCount > 1 THEN filesCount - 2 ELSE 0
  /\ releases' = [releases EXCEPT ![m] = @ + 1]
  /\ UNCHANGED counted

\* quotaService.recordDelete: GREATEST(0, files_count - 1)
ReleaseQuota(m) ==
  /\ filesCount' = IF filesCount > 0 THEN filesCount - 1 ELSE 0
  /\ releases' = [releases EXCEPT ![m] = @ + 1]
  /\ UNCHANGED counted

Release(d) ==
  /\ dpc[d] = "release"
  /\ ReleaseQuota(target[d])
  /\ DelTo(d, "publish")
  /\ UNCHANGED <<uploadVars, row, storeVars, dedup, retracted>>

\* media.deleted is fire-and-forget: a Redis failure is logged and ignored.
Publish(d) ==
  /\ dpc[d] = "publish"
  /\ \/ retracted' = retracted \cup {target[d]}
     \/ "redis" \in Faults /\ UNCHANGED retracted
  /\ DelTo(d, "done")
  /\ UNCHANGED <<uploadVars, row, storeVars, dedup, quotaVars>>

DeleteFails(d) ==
  /\ \/ dpc[d] = "update"    /\ "db" \in Faults
        /\ UNCHANGED <<row, storeVars, quotaVars>>
     \/ dpc[d] = "update"    /\ "commit" \in Faults
        /\ row' = [row EXCEPT ![target[d]] = "deleted"]
        /\ UNCHANGED <<storeVars, quotaVars>>
     \/ dpc[d] = "dropBlob"  /\ "s3" \in Faults
        /\ blobs' \in {blobs, blobs \ {target[d]}}
        /\ UNCHANGED <<row, thumbs, expired, quotaVars>>
     \/ dpc[d] = "dropThumb" /\ "s3" \in Faults
        /\ thumbs' \in {thumbs, thumbs \ {target[d]}}
        /\ UNCHANGED <<row, blobs, expired, quotaVars>>
     \/ dpc[d] = "dropMeta"  /\ "redis" \in Faults
        /\ UNCHANGED <<row, storeVars, quotaVars>>
     \/ dpc[d] = "release"   /\ "db" \in Faults
        /\ UNCHANGED <<row, storeVars, quotaVars>>
     \/ dpc[d] = "release"   /\ "commit" \in Faults
        /\ ReleaseQuota(target[d])
        /\ UNCHANGED <<row, storeVars>>
  /\ DelTo(d, "failed")
  /\ UNCHANGED <<uploadVars, dedup, retracted>>

DeleteCrashes(d) ==
  /\ "crash" \in Faults
  /\ dpc[d] \notin DeleteEnded \cup {"idle"}
  /\ DelTo(d, "failed")
  /\ UNCHANGED <<uploadVars, row, storeVars, dedup, quotaVars, retracted>>

-----------------------------------------------------------------------------
(* Time: both expiries are days away from the requests that set them up.   *)

\* The dedup entry lives DEDUP_CACHE_TTL_MS (7 days).
DedupExpires(c) ==
  /\ dedup[c] # NoMedia
  /\ dedup' = [dedup EXCEPT ![c] = NoMedia]
  /\ UNCHANGED <<uploadVars, deleteVars, row, storeVars, quotaVars, retracted>>

\* The bucket's lifecycle rule removes objects MESSAGE_BLOB_TTL_DAYS (30 by
\* default) after they were stored: the upload is over, its dedup entry too.
ObjectExpires(m) ==
  /\ upc[m] \in UploadEnded
  /\ m \in blobs \cup thumbs
  /\ \A c \in Contents : dedup[c] # m
  /\ blobs' = blobs \ {m} /\ thumbs' = thumbs \ {m}
  /\ expired' = expired \cup {m}
  /\ UNCHANGED <<uploadVars, deleteVars, row, dedup, quotaVars, retracted>>

-----------------------------------------------------------------------------
UploadStep(u) ==
  \/ Admit(u) \/ LookupDedup(u) \/ ReadExisting(u) \/ PutBlob(u) \/ PutThumb(u)
  \/ Save(u) \/ SaveFails(u) \/ UndoBlob(u) \/ UndoThumb(u) \/ SetDedup(u)
  \/ Record(u) \/ UploadFails(u)

DeleteStep(d) ==
  \/ SoftDelete(d) \/ DropBlob(d) \/ DropThumb(d) \/ DropMeta(d) \/ Release(d)
  \/ Publish(d) \/ DeleteFails(d)

Next ==
  \/ \E u \in Uploads : UploadStep(u) \/ UploadCrashes(u)
  \/ \E d \in Deletes, m \in Uploads : Find(d, m)
  \/ \E d \in Deletes : DeleteStep(d) \/ DeleteCrashes(d)
  \/ \E c \in Contents : DedupExpires(c)
  \/ \E m \in Uploads : ObjectExpires(m)

Spec == Init /\ [][Next]_vars

\* The event loop runs a request on once the call it awaits settles, and every
\* client of a store gives up in the end: no request stops between its calls.
Fairness ==
  /\ \A u \in Uploads : WF_vars(UploadStep(u))
  /\ \A d \in Deletes : WF_vars(DeleteStep(d))

FairSpec == Spec /\ Fairness

-----------------------------------------------------------------------------
(* Properties. *)

TypeOK ==
  /\ upc \in [Uploads -> UploadPC]
  /\ content \in [Uploads -> Contents]
  /\ thumb \in [Uploads -> Thumbs]
  /\ hit \in [Uploads -> Uploads \cup {NoMedia}]
  /\ dpc \in [Deletes -> DeletePC]
  /\ target \in [Deletes -> Uploads \cup {NoMedia}]
  /\ row \in [Uploads -> {"none", "active", "deleted"}]
  /\ blobs \subseteq Uploads /\ thumbs \subseteq Uploads
  /\ expired \subseteq Uploads
  /\ dedup \in [Contents -> Uploads \cup {NoMedia}]
  /\ filesCount \in Nat
  /\ counted \subseteq Uploads
  /\ releases \in [Uploads -> Nat]
  /\ retracted \subseteq Uploads

\* A media a read can find has its blob, and the thumbnail its row names,
\* unless the retention rule took them: upload stores before it saves, delete
\* hides before it drops, and the cleanup of a failed save touches no saved row.
ActiveHasBlob ==
  \A m \in Uploads : row[m] = "active" /\ m \notin expired =>
    m \in blobs /\ (thumb[m] = "good" => m \in thumbs)

\* A dedup entry names a media that was saved, with the content it is keyed by,
\* so an upload answered from it never gets another content or an id that a
\* failed save left behind.
DedupIsSound ==
  /\ \A c \in Contents : dedup[c] # NoMedia =>
       row[dedup[c]] # "none" /\ content[dedup[c]] = c
  /\ \A u \in Uploads : upc[u] = "reused" =>
       hit[u] # NoMedia /\ row[hit[u]] # "none" /\ content[hit[u]] = content[u]

\* media.deleted is heard only of a media no read finds, whose objects are gone
\* and whose quota was given back: consumers may drop their copies.
RetractedIsGone ==
  \A m \in retracted : row[m] = "deleted" /\ m \notin blobs \cup thumbs
                       /\ releases[m] > 0

\* What each request knows from the steps it has been through.
UploadKnows ==
  \A u \in Uploads :
    /\ upc[u] \in {"idle", "lookup", "reuse", "putBlob", "putThumb", "save"}
         => row[u] = "none"
    /\ upc[u] \in {"setDedup", "record", "created"} => row[u] # "none"
    /\ upc[u] \in {"putThumb", "save"} => u \in blobs
    /\ upc[u] = "save" /\ thumb[u] = "good" => u \in thumbs
    /\ u \in thumbs \/ upc[u] = "putThumb" => thumb[u] = "good"
    /\ upc[u] \in {"reuse", "reused"} =>
         hit[u] \in Uploads /\ row[hit[u]] # "none"
                            /\ content[hit[u]] = content[u]
    /\ u \in expired => upc[u] \in UploadEnded

DeleteKnows ==
  \A d \in Deletes :
    /\ dpc[d] # "idle" => target[d] \in Uploads /\ row[target[d]] # "none"
    /\ dpc[d] \in {"dropBlob", "dropThumb", "dropMeta", "release", "publish"}
         => row[target[d]] = "deleted"
    /\ dpc[d] \in {"dropThumb", "dropMeta", "release", "publish"}
         => target[d] \notin blobs
    /\ dpc[d] \in {"dropMeta", "release", "publish"} => target[d] \notin thumbs
    /\ dpc[d] = "publish" => releases[target[d]] > 0

\* The inductive invariant behind the safety properties: what every request in
\* flight may assume of the stores, with the properties themselves.
PipelineInv == UploadKnows /\ DeleteKnows /\ DedupIsSound /\ RetractedIsGone

\* As long as no commit is ambiguous a failed save leaves no row, so the cleanup
\* that follows it never takes the objects of a media a read can find.
CleanupIsSafe ==
  /\ \A u \in Uploads : upc[u] \in {"undoBlob", "undoThumb"} => row[u] = "none"
  /\ ActiveHasBlob

Quiescent ==
  /\ \A u \in Uploads : upc[u] \in UploadEnded \cup {"idle"}
  /\ \A d \in Deletes : dpc[d] \in DeleteEnded \cup {"idle"}

\* No object stays in the bucket once the upload that put it is over and no row
\* names it: nothing in the service would ever delete it.
NoOrphan ==
  \A m \in blobs \cup thumbs : upc[m] \in UploadEnded => row[m] # "none"

Active == {m \in Uploads : row[m] = "active"}

\* Deletes racing the count of the upload they undo may leave the owner charged
\* for too much (GREATEST keeps the row at 0) but never for too little, unless a
\* count was lost or a media was released twice.
NeverUnderCounted ==
  /\ Quiescent
  /\ Active \subseteq counted
  /\ \A m \in Uploads : releases[m] <= IF m \in counted THEN 1 ELSE 0
  => filesCount >= Cardinality(Active)

\* A soft delete goes through to the bucket and to the quota, unless a request
\* deleting that media was answered with an error.
DeletedIsReclaimed ==
  \A m \in Uploads :
    row[m] = "deleted" ~>
      \/ m \notin blobs \cup thumbs /\ releases[m] > 0
      \/ \E d \in Deletes : target[d] = m /\ dpc[d] = "failed"

\* The stores together keep the promise of the catalogue.
Catalog == INSTANCE MediaCatalog WITH
  Media  <- Uploads,
  live   <- Active,
  gone   <- {m \in Uploads : row[m] = "deleted"},
  stored <- {m \in blobs : thumb[m] = "good" => m \in thumbs}

ImplementsCatalog == Catalog!Spec

\* The quota's account moves as QuotaLedger has it: once for a media that was saved,
\* whichever call of its upload fails, and back for a media that was saved.
Account == INSTANCE QuotaAccount WITH
  Media    <- Uploads,
  files    <- filesCount,
  saved    <- {m \in Uploads : row[m] # "none"},
  counted  <- counted,
  released <- releases

ImplementsAccount == Account!Spec

=============================================================================
