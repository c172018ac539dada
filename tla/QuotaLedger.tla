----------------------------- MODULE QuotaLedger -----------------------------
(***************************************************************************)
(* The quota of one user: QuotaService over the user_quotas row            *)
(* (PostgreSQL), its cached copy and the alert cooldowns (Redis).          *)
(*                                                                         *)
(* An upload asks checkQuota before it stores anything and calls           *)
(* recordUpload once it has; the alert check recordUpload starts goes on   *)
(* after the request was answered.  Deletes call recordDelete, and every   *)
(* replica runs resetDailyUploads at midnight.  SQL statements are atomic, *)
(* Redis commands too, and any step of another actor may come between two  *)
(* of them.                                                                *)
(***************************************************************************)
EXTENDS Integers, FiniteSets, FiniteSetsExt, Deployment

CONSTANTS
  Uploads,      \* upload requests
  Deletes,      \* delete requests
  Sizes,        \* sizes of the blobs uploaded
  StorageLimit, FilesLimit, DailyLimit,  \* the limits in the row
  Thresholds,   \* QUOTA_ALERT_THRESHOLDS, in percent
  MaxInFlight,  \* how many uploads the semaphore admits at a time
  MaxDay,       \* bound: the last day
  Faults,       \* what may fail: "db", "commit", "redis", "crash"
  NoRow         \* no row, or no cache entry

ASSUME FiniteAssumption == IsFiniteSet(Uploads) /\ IsFiniteSet(Deletes)
ASSUME SizesAssumption == Sizes \subseteq Nat
ASSUME LimitsAssumption ==
  StorageLimit \in Nat \ {0} /\ FilesLimit \in Nat /\ DailyLimit \in Nat
ASSUME ThresholdsAssumption == Thresholds \subseteq Nat
ASSUME MaxDayAssumption == MaxDay \in Nat

VARIABLES
  pc,        \* where each upload is
  size,      \* the size it uploads
  snap,      \* the quota it read last
  todo,      \* thresholds its alert check has not tried yet
  dpc,       \* where each delete is
  target,    \* the upload whose media it deletes
  rpc,       \* where the cron of each replica is
  ran,       \* the last day it ran
  day,       \* CURRENT_DATE
  row,       \* the user_quotas row
  cache,     \* quota:user:<userId> in Redis
  cooldown,  \* thresholds whose cooldown key is set
  alerts,    \* history: alerts published at each threshold in this cooldown
  saved,     \* history: uploads whose media was saved
  charged,   \* history: the row's quota_date when recordUpload counted each
  released,  \* history: deletes recordDelete has counted
  overlapped \* history: an upload started while another had work left

uploadVars == <<pc, size, snap, todo>>
deleteVars == <<dpc, target>>
cronVars   == <<rpc, ran, day>>
alertVars  == <<cooldown, alerts>>
history    == <<saved, charged, released, overlapped>>
vars == <<uploadVars, deleteVars, cronVars, row, cache, alertVars, history>>

Ended == {"rejected", "uncharged", "failed", "done"}
Background == {"alertGet", "alertLoad", "alertFill", "acquire", "publish"}
PC == {"idle", "checkGet", "checkLoad", "checkFill", "decide", "transfer",
       "record", "invalidate"} \cup Background \cup Ended

Quota == [storage : Nat, files : Nat, daily : Nat, date : 0..MaxDay]

ASSUME NoRowAssumption == NoRow \notin Quota

InFlight == {u \in Uploads : pc[u] \notin Ended \cup Background \cup {"idle"}}
Busy == {u \in Uploads : pc[u] \notin Ended \cup {"idle"}}

NotCharged == 0 - 1

Init ==
  /\ pc = [u \in Uploads |-> "idle"]
  /\ size \in [Uploads -> Sizes]
  /\ snap = [u \in Uploads |-> NoRow]
  /\ todo = [u \in Uploads |-> {}]
  /\ dpc = [d \in Deletes |-> "idle"]
  /\ target \in [Deletes -> Uploads]
  /\ rpc = [r \in Replicas |-> "idle"]
  /\ ran = [r \in Replicas |-> 0]
  /\ day = 0
  /\ row = NoRow /\ cache = NoRow
  /\ cooldown = {} /\ alerts = [t \in Thresholds |-> 0]
  /\ saved = {} /\ charged = [u \in Uploads |-> NotCharged]
  /\ released = {} /\ overlapped = FALSE

To(u, s) == pc' = [pc EXCEPT ![u] = s] /\ UNCHANGED size

-----------------------------------------------------------------------------
(* Cache and row. *)

FreshRow == [storage |-> 0, files |-> 0, daily |-> 0, date |-> day]

\* Mutant: nothing is deleted.
KeepCached == UNCHANGED cache

\* invalidateCache: a Redis error is logged and ignored.
Invalidate ==
  \/ cache' = NoRow
  \/ "redis" \in Faults /\ UNCHANGED cache

\* Mutant: the new totals are computed from what the check read.
AddFromSnapshot(u) ==
  row' = [row EXCEPT !.storage = snap[u].storage + size[u],
                     !.files = snap[u].files + 1, !.daily = snap[u].daily + 1]

\* UPDATE ... SET storage_used = storage_used + :blobSize, ...
AddToRow(u) ==
  row' = [row EXCEPT !.storage = @ + size[u], !.files = @ + 1, !.daily = @ + 1]

Less(n, k) == IF n > k THEN n - k ELSE 0

\* UPDATE ... SET storage_used = GREATEST(0, storage_used - :blobSize), ...
SubFromRow(k) ==
  row' = [row EXCEPT !.storage = Less(@, k), !.files = Less(@, 1)]

-----------------------------------------------------------------------------
(* checkQuota *)

Start(u) ==
  /\ pc[u] = "idle"
  /\ Cardinality(InFlight) < MaxInFlight
  /\ To(u, "checkGet")
  /\ overlapped' = (overlapped \/ Busy # {})
  /\ UNCHANGED <<snap, todo, deleteVars, cronVars, row, cache, alertVars, saved,
                 charged, released>>

Percent(q) == (q.storage * 100) \div StorageLimit
Crossed(q) == {t \in Thresholds : Percent(q) >= t}

\* With the quota in hand the check decides; the alert check goes through the
\* thresholds that are crossed.
Proceed(u, q) ==
  IF pc[u] \in Background
  THEN To(u, IF Crossed(q) = {} THEN "done" ELSE "acquire")
       /\ todo' = [todo EXCEPT ![u] = Crossed(q)]
  ELSE To(u, "decide") /\ UNCHANGED todo

\* getOrCreateQuota, first from the cache; a Redis error is taken as a miss.
Get(u) ==
  /\ pc[u] \in {"checkGet", "alertGet"}
  /\ \/ /\ cache # NoRow
        /\ snap' = [snap EXCEPT ![u] = cache]
        /\ Proceed(u, cache)
     \/ /\ cache = NoRow \/ "redis" \in Faults
        /\ To(u, IF pc[u] = "checkGet" THEN "checkLoad" ELSE "alertLoad")
        /\ UNCHANGED <<snap, todo>>
  /\ UNCHANGED <<deleteVars, cronVars, row, cache, alertVars, history>>

\* The transaction: findOne, and an INSERT ... ON CONFLICT DO NOTHING if absent.
Load(u) ==
  /\ pc[u] \in {"checkLoad", "alertLoad"}
  /\ row' = IF row = NoRow THEN FreshRow ELSE row
  /\ snap' = [snap EXCEPT ![u] = row']
  /\ To(u, IF pc[u] = "checkLoad" THEN "checkFill" ELSE "alertFill")
  /\ UNCHANGED <<todo, deleteVars, cronVars, cache, alertVars, history>>

Fill(u) ==
  /\ pc[u] \in {"checkFill", "alertFill"}
  /\ \/ cache' = snap[u]
     \/ "redis" \in Faults /\ UNCHANGED cache
  /\ Proceed(u, snap[u])
  /\ UNCHANGED <<snap, deleteVars, cronVars, row, alertVars, history>>

Allowed(q, k) ==
  /\ q.storage + k <= StorageLimit
  /\ q.files < FilesLimit
  /\ q.daily < DailyLimit

Decide(u) ==
  /\ pc[u] = "decide"
  /\ To(u, IF Allowed(snap[u], size[u]) THEN "transfer" ELSE "rejected")
  /\ UNCHANGED <<snap, todo, deleteVars, cronVars, row, cache, alertVars,
                 history>>

-----------------------------------------------------------------------------
(* The upload itself (MediaPipeline), and recordUpload.                    *)

\* The media is saved, or the upload ends without one: it failed a validation,
\* a store failed, or the dedup entry answered it.
Transfer(u) ==
  /\ pc[u] = "transfer"
  /\ \/ To(u, "record") /\ saved' = saved \cup {u}
     \/ To(u, "uncharged") /\ UNCHANGED saved
  /\ UNCHANGED <<snap, todo, deleteVars, cronVars, row, cache, alertVars,
                 charged, released, overlapped>>

Charge(u) ==
  /\ AddToRow(u)
  /\ charged' = [charged EXCEPT ![u] = row.date]

Record(u) ==
  /\ pc[u] = "record"
  /\ Charge(u)
  /\ To(u, "invalidate")
  /\ UNCHANGED <<snap, todo, deleteVars, cronVars, cache, alertVars, saved,
                 released, overlapped>>

\* Mutant: recordUpload forgets the cache.
RecordedUncleared(u) ==
  /\ pc[u] = "invalidate"
  /\ KeepCached
  /\ To(u, "alertGet")
  /\ UNCHANGED <<snap, todo, deleteVars, cronVars, row, alertVars, history>>

\* The request is answered here; checkAndPublishQuotaAlert is not awaited.
Recorded(u) ==
  /\ pc[u] = "invalidate"
  /\ Invalidate
  /\ To(u, "alertGet")
  /\ UNCHANGED <<snap, todo, deleteVars, cronVars, row, alertVars, history>>

-----------------------------------------------------------------------------
(* publishQuotaAlert, for the thresholds crossed, in increasing order.     *)

IsNext(u, t) == t \in todo[u] /\ \A s \in todo[u] : t <= s

LeaveThreshold(u, t) ==
  /\ todo' = [todo EXCEPT ![u] = @ \ {t}]
  /\ To(u, IF todo[u] = {t} THEN "done" ELSE "acquire")

TakeCooldown(u, t) ==
  /\ cooldown' = cooldown \cup {t}
  /\ To(u, "publish") /\ UNCHANGED todo

\* Mutant: SET without NX.
AcquireAnyway(u) ==
  /\ pc[u] = "acquire"
  /\ \E t \in Thresholds : IsNext(u, t) /\ TakeCooldown(u, t)
  /\ UNCHANGED <<snap, deleteVars, cronVars, row, cache, alerts, history>>

\* SET cooldownKey NX EX
Acquire(u) ==
  /\ pc[u] = "acquire"
  /\ \E t \in Thresholds :
       /\ IsNext(u, t)
       /\ \/ t \notin cooldown /\ TakeCooldown(u, t)
          \/ t \in cooldown /\ LeaveThreshold(u, t) /\ UNCHANGED cooldown
  /\ UNCHANGED <<snap, deleteVars, cronVars, row, cache, alerts, history>>

Publish(u) ==
  /\ pc[u] = "publish"
  /\ \E t \in Thresholds :
       /\ IsNext(u, t)
       /\ alerts' = [alerts EXCEPT ![t] = @ + 1]
       /\ LeaveThreshold(u, t)
  /\ UNCHANGED <<snap, deleteVars, cronVars, row, cache, cooldown, history>>

-----------------------------------------------------------------------------
(* Failures of an upload: it ends, whatever the failing call did.          *)

UploadFails(u) ==
  /\ \/ pc[u] \in {"checkLoad", "alertLoad", "record"} /\ "db" \in Faults
        /\ UNCHANGED <<row, charged, alertVars>>
     \/ pc[u] = "record" /\ "commit" \in Faults
        /\ Charge(u) /\ UNCHANGED alertVars
     \/ pc[u] \in {"acquire", "publish"} /\ "redis" \in Faults
        /\ UNCHANGED <<row, charged, alertVars>>
     \/ pc[u] = "acquire" /\ "redis" \in Faults
        /\ \E t \in Thresholds : IsNext(u, t) /\ cooldown' = cooldown \cup {t}
        /\ UNCHANGED <<row, charged, alerts>>
     \/ u \in Busy /\ "crash" \in Faults
        /\ UNCHANGED <<row, charged, alertVars>>
  /\ To(u, "failed")
  /\ todo' = [todo EXCEPT ![u] = {}]
  /\ UNCHANGED <<snap, deleteVars, cronVars, cache, saved, released, overlapped>>

-----------------------------------------------------------------------------
(* Deletes (MediaPipeline) and recordDelete.                               *)

\* The owner deletes a media that was saved, perhaps before it was counted.
Release(d) ==
  /\ dpc[d] = "idle"
  /\ target[d] \in saved
  /\ SubFromRow(size[target[d]])
  /\ released' = released \cup {d}
  /\ dpc' = [dpc EXCEPT ![d] = "invalidate"]
  /\ UNCHANGED <<uploadVars, target, cronVars, cache, alertVars, saved, charged,
                 overlapped>>

Released(d) ==
  /\ dpc[d] = "invalidate"
  /\ Invalidate
  /\ dpc' = [dpc EXCEPT ![d] = "done"]
  /\ UNCHANGED <<uploadVars, target, cronVars, row, alertVars, history>>

DeleteFails(d) ==
  /\ \/ dpc[d] = "idle" /\ target[d] \in saved /\ "commit" \in Faults
        /\ SubFromRow(size[target[d]])
        /\ released' = released \cup {d}
     \/ dpc[d] = "idle" /\ target[d] \in saved /\ "db" \in Faults
        /\ UNCHANGED <<row, released>>
     \/ dpc[d] = "invalidate" /\ "crash" \in Faults
        /\ UNCHANGED <<row, released>>
  /\ dpc' = [dpc EXCEPT ![d] = "failed"]
  /\ UNCHANGED <<uploadVars, target, cronVars, cache, alertVars, saved, charged,
                 overlapped>>

-----------------------------------------------------------------------------
(* resetDailyUploads: the cron of every replica, at midnight UTC.           *)

\* Mutants: a function without its WHERE, or one that waits a day too long.
ResetAlways == row' = [row EXCEPT !.daily = 0, !.date = day]
ResetIfOlder ==
  row' = IF row.date + 1 < day THEN [row EXCEPT !.daily = 0, !.date = day]
                               ELSE row

\* UPDATE ... SET daily_uploads = 0, quota_date = CURRENT_DATE
\* WHERE quota_date < CURRENT_DATE
ResetIfStale ==
  row' = IF row.date < day THEN [row EXCEPT !.daily = 0, !.date = day] ELSE row

RanToday(r) == ran' = [ran EXCEPT ![r] = day]

\* Only the rows the function returns have their cache invalidated.
Reset(r) ==
  /\ ran[r] < day
  /\ IF row = NoRow THEN UNCHANGED row ELSE ResetIfStale
  /\ rpc' = [rpc EXCEPT ![r] = IF row' # row THEN "invalidate" ELSE "idle"]
  /\ RanToday(r)
  /\ UNCHANGED <<uploadVars, deleteVars, day, cache, alertVars, history>>

ResetInvalidate(r) ==
  /\ rpc[r] = "invalidate"
  /\ Invalidate
  /\ rpc' = [rpc EXCEPT ![r] = "idle"]
  /\ UNCHANGED <<uploadVars, deleteVars, ran, day, row, alertVars, history>>

\* The replica is down at midnight, or its query fails: it tries again tomorrow.
ResetMissed(r) ==
  /\ ran[r] < day
  /\ Faults \cap {"db", "crash"} # {}
  /\ RanToday(r)
  /\ UNCHANGED <<uploadVars, deleteVars, rpc, day, row, cache, alertVars, history>>

-----------------------------------------------------------------------------
(* Time. *)

\* The crons fire at midnight: they are through long before the next one.
NewDay ==
  /\ day < MaxDay
  /\ \A r \in Replicas : ran[r] = day /\ rpc[r] = "idle"
  /\ day' = day + 1
  /\ UNCHANGED <<uploadVars, deleteVars, rpc, ran, row, cache, alertVars, history>>

\* QUOTA_CACHE_TTL_MS
CacheExpires ==
  /\ cache # NoRow
  /\ cache' = NoRow
  /\ UNCHANGED <<uploadVars, deleteVars, cronVars, row, alertVars, history>>

\* QUOTA_ALERT_COOLDOWN_TTL_SECONDS: an hour, no publish takes that long.
CooldownExpires(t) ==
  /\ t \in cooldown
  /\ \A u \in Uploads : pc[u] = "publish" => ~IsNext(u, t)
  /\ cooldown' = cooldown \ {t}
  /\ alerts' = [alerts EXCEPT ![t] = 0]
  /\ UNCHANGED <<uploadVars, deleteVars, cronVars, row, cache, history>>

-----------------------------------------------------------------------------
UploadStep(u) ==
  \/ Get(u) \/ Load(u) \/ Fill(u) \/ Decide(u) \/ Transfer(u) \/ Record(u)
  \/ Recorded(u) \/ Acquire(u) \/ Publish(u)

CronStep(r) == Reset(r) \/ ResetInvalidate(r)

Next ==
  \/ \E u \in Uploads : Start(u) \/ UploadStep(u) \/ UploadFails(u)
  \/ \E d \in Deletes : Release(d) \/ Released(d) \/ DeleteFails(d)
  \/ \E r \in Replicas : CronStep(r) \/ ResetMissed(r)
  \/ NewDay
  \/ CacheExpires
  \/ \E t \in Thresholds : CooldownExpires(t)

Spec == Init /\ [][Next]_vars

\* What was started goes on, midnight comes and the cache entry expires.
Fairness ==
  /\ \A u \in Uploads : WF_vars(UploadStep(u))
  /\ \A d \in Deletes : WF_vars(Released(d))
  /\ \A r \in Replicas : WF_vars(CronStep(r))
  /\ WF_vars(NewDay) /\ WF_vars(CacheExpires)

FairSpec == Spec /\ Fairness

-----------------------------------------------------------------------------
(* Properties. *)

TypeOK ==
  /\ pc \in [Uploads -> PC] /\ size \in [Uploads -> Sizes]
  /\ snap \in [Uploads -> Quota \cup {NoRow}]
  /\ todo \in [Uploads -> SUBSET Thresholds]
  /\ dpc \in [Deletes -> {"idle", "invalidate", "done", "failed"}]
  /\ target \in [Deletes -> Uploads]
  /\ rpc \in [Replicas -> {"idle", "invalidate"}]
  /\ ran \in [Replicas -> 0..MaxDay] /\ day \in 0..MaxDay
  /\ row \in Quota \cup {NoRow} /\ cache \in Quota \cup {NoRow}
  /\ cooldown \subseteq Thresholds /\ alerts \in [Thresholds -> Nat]
  /\ saved \subseteq Uploads
  /\ charged \in [Uploads -> {NotCharged} \cup 0..MaxDay]
  /\ released \subseteq Deletes /\ overlapped \in BOOLEAN

Charged == {u \in Uploads : charged[u] # NotCharged}
Freed == [d \in Deletes |-> size[target[d]]]

\* Whatever happens at the same time, no update is lost: the row counts at least
\* what recordUpload added less what recordDelete took off (it stops at 0).
FilesAccounted ==
  row # NoRow => row.files >= Cardinality(Charged) - Cardinality(released)

StorageAccounted ==
  row # NoRow =>
    row.storage >= SumFunctionOnSet(size, Charged) - SumFunctionOnSet(Freed, released)

NeverUnderCharged == FilesAccounted /\ StorageAccounted

\* The row is the account MediaPipeline counts on: nothing moves its files but one
\* charge of a media that was saved and releases of media that were, whatever the
\* check, the alerts, the reset and the cache do at the same time.
Account == INSTANCE QuotaAccount WITH
  Media    <- Uploads,
  files    <- IF row = NoRow THEN 0 ELSE row.files,
  saved    <- saved,
  counted  <- Charged,
  released <- [m \in Uploads |-> Cardinality({d \in released : target[d] = m})]

ImplementsAccount == Account!Spec

\* The daily count is that of the uploads charged under the row's date, however
\* many replicas run the reset and whenever it comes between two uploads.
DailyIsExact ==
  row # NoRow => row.daily = Cardinality({u \in Uploads : charged[u] = row.date})

\* What makes both inductive: an upload is charged once, by a request that found
\* the row, under a date that never runs ahead of the calendar.
RowFound ==
  row = NoRow =>
    /\ cache = NoRow /\ saved = {} /\ Charged = {} /\ released = {}
    /\ \A u \in Uploads : pc[u] \in {"idle", "checkGet", "checkLoad", "failed"}

ChargedOnce ==
  /\ \A u \in Uploads :
       /\ pc[u] \in {"idle", "checkGet", "checkLoad", "checkFill", "decide",
                     "transfer", "record"} => u \notin Charged
       /\ u \in Charged => row # NoRow /\ charged[u] <= row.date
  /\ row # NoRow => row.date <= day
  /\ \A d \in Deletes : dpc[d] = "idle" => d \notin released

LedgerInv == RowFound /\ ChargedOnce /\ FilesAccounted /\ DailyIsExact

\* A threshold is announced at most once per cooldown, by all alert checks
\* together.
OneAlertPerCooldown == \A t \in Thresholds : alerts[t] <= 1

\* What makes it inductive: the cooldown key has one taker, who has announced
\* nothing yet.
OneTaker ==
  \A t \in Thresholds :
    /\ alerts[t] > 0 => t \in cooldown
    /\ \A u \in Uploads : pc[u] = "publish" /\ IsNext(u, t) =>
         /\ t \in cooldown /\ alerts[t] = 0
         /\ \A v \in Uploads : pc[v] = "publish" /\ IsNext(v, t) => v = u

AlertInv == OneAlertPerCooldown /\ OneTaker

\* The quota is checked before a blob is accepted: the row stays within its
\* limits.
WithinLimits ==
  row # NoRow =>
    row.storage <= StorageLimit /\ row.files <= FilesLimit /\ row.daily <= DailyLimit

\* Uploads that never overlap, with the alert check the last one left behind
\* neither, keep to the limits, whatever deletes, resets and expiries do.
SerialWithinLimits == ~overlapped => WithinLimits

\* u's alert check has its quota, and decides which thresholds to try.
AlertDecides(u) ==
  pc[u] \in {"alertGet", "alertFill"} /\ pc'[u] \in {"acquire", "done"}

\* It tries every threshold the row is past, its own upload included, unless uploads
\* overlapped: the cache was invalidated before it read, and nobody else fills it.
SerialAlertsMissNone ==
  [][\A u \in Uploads :
       ~overlapped /\ AlertDecides(u) => Crossed(row) \subseteq todo'[u]]_vars

\* The quota an upload that starts now would be checked against.
Effective == IF cache # NoRow THEN cache ELSE row

LockedOut == row # NoRow /\ Effective.daily >= DailyLimit

\* A user stopped by the daily limit can upload again, or has uploaded up to the
\* limit again: the reset of the next day comes through, if need be once a stale
\* cache entry expired.
DailyLockoutEnds ==
  \A d \in 0..(MaxDay - 1) :
    (LockedOut /\ day = d)
      ~> (~LockedOut \/ (row.date > d /\ row.daily >= DailyLimit))

=============================================================================
