# A specification of media-service

TLA+ modules for the media service (`src/`, a NestJS application that stores the
attachments of a messenger): what its handlers do to PostgreSQL, S3 and Redis,
step by step, with the interleavings and failures they are exposed to. TLC
checks the modules on small instances; TLAPS proves the main invariants for
every value of the constants. `PROJECT.json` lists the runs, maps every
definition to the lines it models, and names the hazards the properties are for.

    tlc -config Pipeline_faults.cfg MCMediaPipeline.tla     a run
    tlapm MediaPipelineProofs.tla                           the proofs of a module

Paths below are relative to `src/`; `media.service.ts` and the other services
without a directory are in `src/modules/media/`.

## 1. The system

| Part | State | Operations |
|---|---|---|
| Upload and delete (`media.service.ts` `upload`, `delete`, `media.repository.ts`, `storage.service.ts`) | rows of `media.media`, objects in the bucket, `dedup:blob:*` | upload: semaphore, checks, dedup lookup, PUT blob, PUT thumbnail, save, dedup entry, charge, event; delete: soft delete, two DELETEs, invalidation, release, event |
| Upload semaphore (`media.service.ts` `acquireSemaphore` ...) | Redis counter `upload:semaphore:<user>` with an expiry | INCR, EXPIRE, DECR, DEL, a refresh every 5 minutes |
| Quota (`quota.service.ts`) | row of `user_quotas`, `quota:user:<user>`, cooldown keys | check, charge, release, daily reset on every replica, alerts |
| Read access (`getMetadata`, `getBlob`, `getThumbnail`, streams, `share`) | `shared_with`, `media:meta:<id>` | reads, union of the list, invalidation |
| Row-level security and signed URLs (`rls.*.ts`, `getOrGenerateSignedUrl`) | `app.current_user_id` of each pooled connection, `signed_url_expires_at` | a transaction per request |
| Conversation gate (`media.controller.ts` `upload`, `messaging.service.ts`, `group.service.ts`) | `e2ee:conv:<id>` | status through the cache, admin check |
| JWKS, guard, health (`jwks.service.ts`, `jwt-auth.guard.ts`, `health.controller.ts`) | the public key, a timer | load with backoff, background retry, destroy; admit a request; probes |
| Access-log partitions (`media-access-log-partition.service.ts`) | partitions, a session-level advisory lock | bootstrap, cron |
| Bucket lifecycle (`lifecycle.service.ts`) | the bucket's rule document | GET, compare, PUT at every start |
| Content checks (`magic-bytes.validator.ts`, `content-safety.validator.ts`, the tables of `media.service.ts`) | none: four tables and a call of clamd | size, signature, allowlist, dimensions, script, antivirus |
| Listing (`media.service.ts` `getUserMedia`) | none: a client's walk through the pages | one page per request |
| Metrics, throttling, bootstrap scripts | none that the properties are about | see section 7 |

Processes ("replicas") share nothing but the stores. Inside one process a
request runs from one `await` to the next without interruption, so every
awaited call is one step and any other request, replica or cron may come in
between. No transaction spans two stores, and that is where the hard behaviour
is: a failure, a crash or another actor between two calls; a cache filled with
what was read two awaits ago; a counter whose key expires or is deleted; a lock
that belongs to a connection rather than to a task.

What makes each part correct:

- *Upload and delete*: a media that can be found has its objects; objects no
  row names do not stay; a dedup hit is the right content; consumers are told
  of a deletion only once it is complete; the quota counts what is stored.
- *Semaphore*: at most three uploads, every refusal justified, every slot comes
  back.
- *Quota*: no lost update, an exact daily count, the limits kept, one alert per
  threshold and hour, no lockout past midnight.
- *Access*: nobody reads without an invitation, invitations are not lost,
  grants and deletions take effect.
- *RLS and links*: a transaction runs as its own user; the expiry answered is
  that of the URL, to the seconds it is signed in.
- *Gate and content checks*: no verdict on an old status; what is stored is what
  it was sent as, and what everyone may read is an image.
- *Listing*: a client that goes through all the pages has seen everything once.
- *Keys*: the key is loaded in the end, readiness means what it says, revoked
  means refused.
- *Partitions, lifecycle*: one creator at a time, every row in its month's partition; the
  deployed TTLs are applied and the rules of others kept.

## 2. Modules

| Module | Models | Composes with |
|---|---|---|
| `MediaCatalog` | abstract: what a catalogue of media promises, whatever stores it is spread over | refined by `MediaPipeline` |
| `MediaPipeline` | `upload` from the dedup lookup on, and `delete` | `ImplementsCatalog` is the refinement |
| `UploadSlots` | abstract: what a limit on concurrent uploads promises, whatever it is made of | refined by `UploadSemaphore` |
| `UploadSemaphore` | the counter of one user | `ImplementsSlots` is the refinement; bounds the uploads of `QuotaLedger` (`MaxInFlight`) |
| `QuotaAccount` | abstract: how a user's file count moves, whatever is between the requests and the row | refined by `MediaPipeline` and by `QuotaLedger` (`ImplementsAccount` of each): the interface between the two |
| `QuotaLedger` | the quota of one user | the charge and release steps of `MediaPipeline`, in detail |
| `MediaAccess` | who reads one media | the invalidation step of `MediaPipeline`, in detail |
| `ConversationGate` | the upload handler before the content is looked at | |
| `ContentChecks` | the checks of the content: tables, order, answers | the step `Admit` of `MediaPipeline`, in detail |
| `UploadChecks` | the two together: which file can be behind a request that passed | extends `ConversationGate` and `ContentChecks` |
| `MediaListing` | `getUserMedia` under the walk of a client | the rows `MediaPipeline` saves and deletes |
| `BlobLinks` | `getBlob`, `getThumbnail` and the streams over the pool | the read step of `MediaAccess`, in detail |
| `KeyLoading` | one process's key, guard and probes | |
| `AccessLogPartitions` | the partitions of `media_access_logs` | |
| `Lifecycle` | the rule document of the bucket | causes `ObjectExpires` of `MediaPipeline` |
| `Deployment` | the processes: the constant `Replicas` | extended by `QuotaLedger`, `AccessLogPartitions` and `Lifecycle` |

`MC<Module>` extends a module with the symmetry set and the constants a `.cfg`
cannot write (`MCConversationGate` extends `UploadChecks`); `<Module>Proofs`
holds its theorems (`UploadChecksProofs` those of the gate and of the checks,
`StartupProofs` those of what a process does when it starts: `KeyLoading`,
`Lifecycle` and `AccessLogPartitions`, which it extends: so the initial state, the
steps and the specification of the last two carry a prefix, `Rules` and `Months`).

How state and actions correspond to the code:

- A request is a `pc` value per request id, named for the call it awaits next;
  an action is that call with everything up to the next `await`. Early returns
  and exceptions are alternatives of the same action or a `...Fails` action.
- An upload's id stands for the media id `randomUUID` draws for it.
- Faults are named in the constant `Faults`: `db` (a statement or transaction
  is refused), `commit` (a COMMIT is applied and its answer lost), `s3`,
  `redis` (a call is rejected, having been applied or not), `crash` (the process
  ends between two steps), `messaging`, `groups`, `stop`. In `KeyLoading` the
  constant is `Outages`.
- An absent cache entry is a set with no element or a distinguished value; a TTL
  is either an action that may happen at any time (`CacheExpires`,
  `DedupExpires`) or, where a property is about times, ticks that are counted
  (`UploadSemaphore`, `ConversationGate`, `BlobLinks`).
- Variables marked *history* in a module are not in the code; they record what
  a property needs to know of the past and no guard of the modelled code reads
  them. (`MaxFaults`, `MaxDay` and `MaxMonth` are bounds; their guards are
  named as such.)

Data is abstracted to what properties tell apart: contents, users and tokens
are model values, a thumbnail is none, good or bad, all blobs of
`MediaPipeline` have one size while `QuotaLedger` has sizes and percentages. In
`ContentChecks` a file is its declared type, the fragments found at the offsets
the signatures look at, its size, its pixels, where its first script token ends,
and how much of clamd's verdict arrives before the connection ends.

## 3. Runs

One passing run per module, two where safety under every failure and liveness
need different instances. Every property has a mutant (an operator marked
*Mutant* beside the definition it replaces) that the run refutes. The type
invariants are theorems and are not run again.

| Run | Instance | Shows |
|---|---|---|
| `Pipeline_faults` | 2 uploads, 2 deletes, 2 contents, every thumbnail; db, ambiguous commits, s3, redis, crash | a dedup entry never names another content or an unsaved media (`DedupIsSound`); `media.deleted` is never heard early (`RetractedIsGone`); the quota never counts too little unless a charge was lost or a media released twice (`NeverUnderCounted`), and is moved only as `QuotaAccount` allows (`ImplementsAccount`) |
| `Pipeline_live` | 2 uploads of one content, 2 deletes; db, redis; fair | readable media have their objects, no failed save leaves one behind, the stores implement `MediaCatalog`, a soft delete reaches bucket and quota unless a request deleting that media ended with an error |
| `Semaphore_faults` | 3 requests (repeated) for 2 slots, TTL of 3 refresh intervals, 2 crashes or failing commands, any number of failing refreshes; fair | no slot is taken that nobody holds or a failure left (`NoPhantomSlots`); the limit holds while no removal of the key hits requests holding slots (`WithinMax`); the counter with its expiry implements `UploadSlots` (`ImplementsSlots`); the key of a running upload expires only if all refreshes in a row failed (`KeyOutlivesUploads`); the counter has an expiry unless a failure came between an INCR and its EXPIRE (`CountHasExpiry`); but for the slots of that case, leaked slots go while the user is away (`QuietUserHeals`) |
| `Ledger_faults` | 2 uploads, 1 delete, 2 replicas, 1 midnight, 2 thresholds, every failure | no lost update of the row, an exact daily count, one alert per threshold and cooldown; the row implements `QuotaAccount` (`ImplementsAccount`) |
| `Ledger_live` | the same with limits of 1, no failure; fair | uploads that do not overlap keep all three limits (`SerialWithinLimits`); the daily lockout ends after midnight although reads may put stale entries back (`DailyLockoutEnds`); an alert check that overlaps no other upload tries every threshold the row is past, its own upload included (`SerialAlertsMissNone`) |
| `Access_faults` | 2 users, a read (repeated), 2 merges, a delete, every failure; fair | only invited users read; merges that do not overlap lose nothing; the entry of a deleted media goes for good |
| `Gate_recent` | 2 uploads (repeated), TTL 2, timeout 1, write 1; every failure; 5 types, 4 headers, sizes, areas and scripts on both sides of their limits | no verdict on a status older than the three together; whatever file comes with a request that passed the gate, the checks store it only if it is fit for its context (`OnlyFitIsStored`) |
| `Links_pool` | 2 requests (repeated) for blob, thumbnail or stream, 2 connections, 3 users, seconds of 3 ticks, up to 2 ticks between two clock reads; failures | transactions run as their own user (`IdentityInv`); a URL ends less than two seconds before the expiry answered with it and less than one after, but for the time between the two clock reads of the answer (`LinkIsHonest`) |
| `Listing_walk` | 4 media, limits 1 to 3, a client that walks from the first page to the last, again and again; failing pages | a walk misses a media only if a newer one was deleted meanwhile or times tie (`NoneMissed`), and shows one twice only if a newer one was added or times tie (`NoneTwice`) |
| `Keys_faults` | the real 10 attempts and 1 s..30 s, a request, a probe, every dependency failing; fair | after a good probe requests find the key; revoked means refused even if the other lookup fails; no fetch after destroy; the key is loaded in the end |
| `Partitions_lock` | 2 replicas, 2 connections each, 4 months of which the migration made the first 2, first deployed in any of them; db, stop, connections that close | one replica at a time creates partitions unless one lost the session with the lock (`LockInv`); rows fall into the default partition only in a month the migration and every cron left out, of which a bootstrap was skipped or failed, or whose crons all were skipped, failed or stopped (`NoneInDefault`) |
| `Lifecycle_deploy` | 3 replicas, 4 configurations, a foreign rule | a deployment is applied; the rules of others survive unless one changed between a GET and its PUT |

### What the code does not promise

Several properties above carry an exception, and two runs leave out a fault. The
exception is where the code departs from what its documents say. None of these
is refuted by a run of its own; each is a behaviour of the module named, and the
conditional property marks its boundary.

| Statement | What the model shows | Bounded by |
|---|---|---|
| 3 concurrent uploads (`1_system_design.md`) | a DEL after another request's INCR wipes the count of live uploads (`Del`) | `WithinMax` |
| the TTL of the semaphore is a safety net | a crash or failure between INCR and EXPIRE leaves slots without a TTL, until the user's next EXPIRE; every attempt renews the TTL of a leaked slot (`Expire`), so a user who keeps trying stays locked out, which no property excludes; a rollback after a DEL leaves -1 without a TTL | `CountHasExpiry`; `QuietUserHeals` |
| no permanent orphans | a refused thumbnail is found out after the blob is stored (`PutBlob`); a crash or a failing cleanup leaves objects too | `NoOrphan`, checked without those |
| storage and quota stay aligned | a delete overtakes the charge and stops at 0; two deletes both release; the retry of a failed delete is a 404 | `NeverUnderCounted`, `DeletedIsReclaimed` |
| counted once per upload | the retry after a failing `recordUpload` is a dedup hit nobody counts | `NeverUnderCounted` |
| the quota is checked before a blob is accepted | uploads in flight are checked against the same quota, and against entries filled after their invalidation | `SerialWithinLimits` |
| alerts at 80% and 95% | where uploads overlap or Redis fails, the alert check may read an entry older than the upload that started it, or none | `AlertInv` from above, `SerialAlertsMissNone` from below |
| the list is the union | two overlapping merges each write what they read | `SerialAclIsUnion` |
| the metadata entry is invalidated | a read under way fills it again, for a TTL | `AccessInv`, `DeletedIsForgotten` |
| the E2EE cache follows toggles | an older answer may overwrite a newer one, for a TTL | `VerdictIsRecent` |
| the URL is valid until `expiresAt` | it may end almost two seconds before: what is left is rounded down, and so is the moment it is signed at (`Sign`) | `LinkIsHonest` |
| the database has the renewed expiry | not for a recipient, whose UPDATE matches no row | none; the answer itself is `LinkIsHonest`'s |
| the hole of a first deployment is closed | it moves to the next month, which nobody was up on the 1st to make (the migration's two, March and April 2026, aside), as it does after any 1st without a replica | `NoneInDefault` |
| another instance holds the lock | and may still be creating the partition while the replica that skipped already serves; or an idle session the unlock missed holds it | `NoneInDefault` |
| the lock protects against concurrent creations | its session may close, idle or lost, while the CREATE runs on another connection (`Close`) | `LockInv` |
| existing rules are kept | not those changed between GET and PUT | `OthersAreKept` |
| "GROUP_ICON uploads must come from a group admin" (`media.service.ts:779`; `3_security_policy.md:138`) | group-service is asked for a group whose id is the uploader's (`IsAdmin`), so an admin of any group is answered 403 | none |
| "liste de tous les médias" (`3_security_policy.md:271`) | pages are cut by number, so a delete between two pages hides an item | `NoneMissed`, `NoneTwice` |
| an encrypted conversation receives opaque content only | the thumbnail beside the file is a plain image; only `file.mimetype` is judged (`Judge`) | none |
| content is scanned (`content-safety.validator.ts`) | thumbnails are neither measured nor scanned (`ThumbnailQuestions`); a verdict that is cut off passes (`ClamAvOk`); the 5 s of clamd are an idle timeout, not "5s max" (line 119); script past 64 KB of a PDF passes (`ScriptOk`) | `OnlyFitIsStored`, about whole verdicts |

### Bounds

Every race in these modules is between at most two actors and one observer, and
each has its observer: two writers and a reader (`MediaAccess`), a filler, a
writer and a decider (`QuotaLedger`), a releaser, an acquirer and a third
request (`UploadSemaphore`, with a limit of 2, where the wiped count lets the
third one in). A request that ended may be reused for a new one in
`UploadSemaphore`, `MediaAccess` (reads), `ConversationGate`, `BlobLinks` and
`KeyLoading`, so those runs bound the number in flight and not the length of the
execution. In `MediaPipeline` and `QuotaLedger` each request runs once; two
uploads of the same content and two deletes of the same media are the cases
where requests meet. In `MediaListing` four media and
limits up to 3 give walks of up to four pages, with rows of the same time and
transactions that were under way when the walk began; a media goes through its
life once, the walks repeat. The types and headers of `Gate_recent` have one of
each kind: an image whose type every table knows since the first version, one
added later, a document, the opaque type and one no table knows. The lists of users in `MediaAccess` are two that differ,
one of them naming the owner, who must not be listed. The other bounds are
`MaxFaults` (2: one failure on top of another), `MaxDay` (1: one midnight with
everything around it), `MaxMonth` (the migration's two months and two more: a first
deployment in the first of them meets both, one in the second a month that only
the bootstrap makes, one later neither), `MaxWait` (2 ticks between two clock
reads, enough to cross into the next second) and small TTLs. Two requests at a
time are enough for two connections: a request takes over the connection of the
other one, and no third meets them in a row lock. A TTL of three intervals is the least that tells one missed refresh
from all of them; the code's is six. The theorems of section 5 have none of
these bounds.

Deadlock is checked where requests start again. `CHECK_DEADLOCK FALSE` is set
for `MediaPipeline`, `QuotaLedger` and `AccessLogPartitions`, whose finite sets
of requests and months run out. Symmetry is used where elements are only
compared for equality, and never with a liveness property.

## 4. Fairness

Liveness is checked under weak fairness of steps that the runtime takes without
anyone's help:

- a request that awaits a call goes on (every client has a timeout or fails, and
  the event loop runs what is ready): `UploadStep`,
  `DeleteStep`, `ReadStep`, and `Expire`, `RollBack`, `Decr`, `Del`;
- timers fire and Redis expires keys: `Tick`, `CacheExpires`, `LoaderStep`,
  `CronStep`, `NewDay`. A fetch of the key ends too, within `LoaderStep`:
  `FETCH_TIMEOUT_MS` bounds only the wait for the response, as its timer is
  cleared before the body is read (`jwks.service.ts:115`, `:124`); a body that
  stops is ended by the idle timeout of Node's own `fetch`.

Nothing is assumed of clients (no upload has to start, none has to be retried),
of failures (none has to occur or to stop) or of the auth service (the property
`KeyIsLoaded` has `<>[]up` as its premise).

## 5. Proofs

All theorems are proved by TLAPS for every value of the constants that
satisfies the named assumptions (`...Assumption`) of the module: finiteness of
the set of requests where something is counted, positivity of limits and times,
and that "nothing" is none of the things.

- `MediaPipelineProofs`. `PipelineInv` is the inductive invariant. The safety
  properties do not carry themselves: that `media.deleted` is never early
  (`RetractedIsGone`) needs what each step of a delete knows of the stores
  (`DeleteKnows`), and that needs that no upload stores an object for an id
  whose row is already there (`UploadKnows`). The step is proved part by part
  (`UploadKnowsStep`, `DeleteKnowsStep`, `DedupStep`, `RetractedStep`).
  `ActiveAlwaysHasBlob` and the refinement `PipelineImplementsCatalog` assume
  `"commit" \notin Faults`, and need in addition that the cleanup of a failed
  save meets no row (`CleanupIsSafe`): with an ambiguous COMMIT the cleanup
  deletes the objects of a saved media, and both are false. `NeverOrphaned`
  assumes what the property needs (S3 answers, nothing crashes, no bad
  thumbnail) but no luck with the database: `StoredInv` says which objects an
  upload may have stored at each step of its cleanup. `PipelineImplementsAccount`
  maps every step to one of `QuotaAccount` or to none, whatever fails: an upload
  that has yet to record itself is not counted (`CountedOnce`), and
  `UploadKnows` and `DeleteKnows` have the rows of what is charged and given
  back. `AccountNeverShort` is the use of it: whatever keeps the account, the
  files of the row and the media released cover the media counted, as a release
  that is applied once cancels out. `NeverChargedTooLittle` follows, without an
  assumption, as a released media is not there any more (`ReleasedIsDeleted`).
  `CatalogServes` derives `ActiveHasBlob` once more, from the refinement alone:
  readable media have their objects because the catalogue never lets one go.
- `UploadSemaphoreProofs`. `NoPhantomSlots` is inductive together with the
  types; the lemmas relate the set of holders before and after a step.
  `WithinMax` is not inductive: `LimitInv` adds that the counter is at least the
  number of holders, and counts among the accepted those whose INCR returned at
  most the limit and who have yet to read it. `KeyAlwaysOutlives` follows from
  `MissedInv`: the refreshes missed in a row and what is left of the TTL make
  up the whole. `CountAlwaysHasExpiry` follows from `ExpiryInv`: a
  key with slots and no expiry has its EXPIRE ahead, or a failure in its place behind. `SemaphoreImplementsSlots` maps every step, failures included,
  to a step of `UploadSlots` or to none. The moment of decision is the INCR: a
  request whose INCR returned more than the limit is refused from then on,
  although it learns so later, and until its DECR it takes a slot from others,
  which is why `UploadSlots` counts the refused as inside. `SlotsKeepLimit` is
  the use of it: the limit holds for whatever implements `UploadSlots`.
- `QuotaLedgerProofs`. `LedgerInv` adds to the accounting (`FilesAccounted`,
  `DailyIsExact`) that a charge meets a row (`RowFound`) and that each upload is
  charged once and under a date not ahead of the calendar (`ChargedOnce`);
  without the last the reset could match a count of another day.
  `LedgerImplementsAccount` shows that the row is what `MediaPipeline` counts on:
  checks, cached copies, alerts and resets are stutters of `QuotaAccount`, the
  charge is its `Count` because it meets a row and a saved media not charged yet
  (`RecordsSaved`), and a delete is one more release of its target.
  `NothingIsLost` adds the bytes: `StorageAccounted` equates the storage of the
  row plus what deletes took with the sum over the uploads charged. What a sum
  is cannot be had by the library's induction over finite sets, whose theorems
  take an operator; `SubsetInduction` is that induction for a set of subsets,
  and `SumIsCount` turns a sum into the size of a set of units, of which
  `SumAdds` and `SumOfNone` follow from facts on cardinalities. `AlertInv`
  adds to the bound on alerts that the cooldown key has one taker. `Serial` is
  what one upload at a time relies on: whatever it reads, in the cache or in its
  own hands, counts at least what the row does, so what it was allowed still
  fits. `SerialUploadsStayWithin` and `SerialAlertsMissNothing` follow (a larger
  quota has crossed the same thresholds, `CrossedGrows`) unless commits are
  ambiguous, Redis fails or a process dies: each leaves an entry that counts
  less than the row. Refused transactions are harmless.
- `MediaAccessProofs`. `AccessInv`: every copy of the list, in the row, in the
  cache, in a read or a merge under way, names only invited users. `SerialInv`
  gives `SerialAclIsUnion`: while merges do not overlap, one at most is to write
  and the list it read is still the row's.
- `UploadChecksProofs`. `RecentInv` is a time budget: the age of a status plus
  the time its call or entry has left never exceeds the bound;
  `VerdictIsAlwaysRecent` derives the action property from it. `StoredIsFit`
  and `ThumbnailIsImage` are about the checks alone, for files of any type,
  header and size: they rest on the tables agreeing (`ListedAreKnown`: every
  type that is listed, the opaque one aside, has a signature;
  `ImagesAreImages`). `OnlyFitIsAlwaysStored` puts them behind the gate.
- `MediaListingProofs`. `ListInv` says of each media that it is still ahead of
  the walk, or was shown, or one of the excuses holds; where a media stands is its
  rank among the active rows, and the lemmas say how a commit and a delete move
  it (`CommitRank`, `DeleteRank`) and that a page is the rows of a range of ranks
  (`RankDecides`, `FullPage`, `ReadPage`). The media need only be finitely many.
- `StartupProofs`. A readiness probe answers well only after the key was
  there, and nothing takes it away (`ReadyInv`); the markers there when a
  request came stay ahead of it until one is found (`MarkersAhead`), so one
  lookup that fails hides none; a destroyed loader starts no fetch.
  Of the bucket's rules: a replica whose bootstrap succeeded found its TTLs
  there or put them there, so when the last of them is through, those of some
  replica are there (`AppliedInv`; there has to be a replica, as without one
  nobody applies anything); until a rule of others changes between a GET and
  its PUT, what a replica is about to put is what is there (`MergedInv`).
  Of the partitions: `LockAlwaysCovers` rests on `LockCoversWork`, that one
  connection holds the lock, at least as often as there are tasks at work that
  could unlock through it, unless that session ended under them (`exposed`). So it
  survives tasks that unlock through a connection other than the one they locked
  with: such an unlock takes nothing away. `DefaultStaysEmpty` rests on
  `MonthsInv`: as soon as a replica serves, the current month has a partition or is
  one of the exceptions (`ServedInv`, `CaredFor`), and so does the next month unless
  a task still sees to it (`SeeingTo`). Nothing is assumed of the months the
  migration made, nor of when the first deployment comes.
- `BlobLinksProofs`. `PoolInv` is the invariant behind `IdentityInv`. What parts
  a URL from the expiry answered with it are two roundings, of the time left
  (`WholeSeconds`, `ReusedLink`) and of the moment of signing (`SignedInBounds`),
  and a wait: `SigningInv` keeps account of them from one clock read to the other.

Only model-checked is liveness, as the prover has no `ENABLED`:
`DeletedIsReclaimed`, `QuietUserHeals`, `DailyLockoutEnds`,
`DeletedIsForgotten` and `KeyIsLoaded`. Every safety invariant and action
property of the runs is a theorem, the refinements included (`ImplementsSlots`,
`ImplementsAccount` of both modules, and `ImplementsCatalog` where commits are
not ambiguous). The other way round, the
runs do not check the inductive invariants again that are only steps of a proof
(`PipelineInv`, `CleanupIsSafe`, `StoredInv`, `CountedOnce`, `AccountInv`,
`ReleasedIsDeleted`, `RecordsSaved`, `LimitInv`, `MissedInv`,
`ExpiryInv`, the `SerialInv` of `QuotaLedger`, `PoolInv`, `AskedInv`, `SigningInv`,
`AppliedInv`, `MergedInv`, `MonthsInv`): what they are for is checked.

## 6. Assumptions about what is outside `src/`

PostgreSQL statements are atomic and see committed rows; Redis commands are
atomic one by one; INCR and DECR create a missing key without an expiry and
EXPIRE does nothing to a missing one; S3 is consistent after a PUT. TypeORM's
`query` takes any free connection and `transaction` holds one. The database role
is neither superuser nor owner of the tables, as `rls.subscriber.ts` asks, so
the policies apply. Revocation markers are written by the auth service and
outlive the tokens they are about. messaging-service answers with the status at
some moment of the call. A presigned URL lasts whole seconds from the second it is
signed in, SigV4's `X-Amz-Date`. A pooled connection may close while the process
goes on, after the pool's idle timeout or because it is lost.

## 7. Not modelled

- `getUserQuota`: the cached quota of `QuotaLedger` and a percentage of it.
- How sharp and clamd come to their answers: their answers are inputs of
  `ContentChecks`.
- The event `media.uploaded` and the access-log rows of each read: written after
  the answer was decided, and read by nothing in the service. `EventsService`
  has no caller.
- Throttling, metrics, configuration checks, Docker scripts, Swagger, log and
  answer formatting.
- `rls.subscriber.ts:65-68`, a transaction without a user: every transaction of
  `BlobLinks` has one.
- The content of presigned URLs, the second S3 client for the public endpoint.

## 8. Plan

Order of work, most important behaviour first; 1 to 14 are done.

1. `MediaPipeline` with its catalogue and proofs. 2. `UploadSemaphore`.
3. `QuotaLedger`. 4. `MediaAccess`. 5. `KeyLoading`. 6. `AccessLogPartitions`.
7. `ConversationGate`. 8. `BlobLinks`. 9. `Lifecycle`. 10. `MediaListing`.
11. `ContentChecks` and `UploadChecks`.
12. `UploadSlots`, the abstract limit, and its refinement.
13. Proofs of every safety property of the runs.
14. `QuotaAccount`, the interface between pipeline and ledger, and its two
    refinements.
15. `MediaSystem`: upload and delete with the semaphore, the full quota row and
    the dedup merge in one module, showing that `MediaPipeline` and
    `QuotaLedger` are its projections.
16. An abstract specification of a cached cell, and which runs of the detailed
    modules implement it.
