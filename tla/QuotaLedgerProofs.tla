-------------------------- MODULE QuotaLedgerProofs --------------------------
(***************************************************************************)
(* Theorems about QuotaLedger, for any limits, sizes and thresholds, any   *)
(* number of uploads, deletes, replicas and days, and any failures.        *)
(***************************************************************************)
EXTENDS QuotaLedger, FiniteSetTheorems, TLAPS

\* A row whose totals are natural numbers keeps its type through the updates.
LEMMA RowUpdates ==
  ASSUME TypeOK, row # NoRow
  PROVE  /\ \A u \in Uploads : AddToRow(u) => row' \in Quota
         /\ \A d \in Deletes : SubFromRow(size[target[d]]) => row' \in Quota
         /\ ResetIfStale => row' \in Quota
<1>1. row \in Quota
  BY DEF TypeOK
<1> USE DEF TypeOK, Quota
<1>2. ASSUME NEW u \in Uploads, AddToRow(u) PROVE row' \in Quota
  <2>1. size[u] \in Nat
    BY SizesAssumption
  <2>2. /\ row.storage + size[u] \in Nat /\ row.files + 1 \in Nat
        /\ row.daily + 1 \in Nat /\ row.date \in 0..MaxDay
    BY <1>1, <2>1
  <2> HIDE DEF TypeOK
  <2> QED BY <1>1, <1>2, <2>2 DEF AddToRow
<1>3. ASSUME NEW d \in Deletes, SubFromRow(size[target[d]]) PROVE row' \in Quota
  <2>1. size[target[d]] \in Nat
    BY SizesAssumption
  <2>2. \A n, k \in Nat : Less(n, k) \in Nat
    BY DEF Less
  <2> HIDE DEF TypeOK
  <2> QED BY <1>1, <1>3, <2>1, <2>2 DEF SubFromRow
<1>4. ASSUME ResetIfStale PROVE row' \in Quota
  BY <1>1, <1>4, MaxDayAssumption DEF ResetIfStale
<1> QED BY <1>2, <1>3, <1>4

\* Whatever a check or an alert check goes on with, the request keeps its type.
LEMMA ProceedType ==
  ASSUME TypeOK, NEW u \in Uploads, NEW q, Proceed(u, q)
  PROVE  pc' \in [Uploads -> PC] /\ size' = size
         /\ todo' \in [Uploads -> SUBSET Thresholds]
BY DEF TypeOK, Proceed, To, PC, Background, Ended, Crossed

\* The type invariant is kept by every step.
LEMMA TypeStep == TypeOK /\ RowFound /\ [Next]_vars => TypeOK'
<1> SUFFICES ASSUME TypeOK, RowFound, [Next]_vars PROVE TypeOK'
  OBVIOUS
<1> USE DEF To, uploadVars, deleteVars, cronVars, alertVars, history
<1>0. ASSUME NEW u \in Uploads, pc[u] = "record" PROVE row # NoRow
  BY <1>0 DEF RowFound
<1>1. ASSUME NEW u \in Uploads, Start(u) PROVE TypeOK'
  <2>1. overlapped' \in BOOLEAN
    BY <1>1 DEF Start
  <2>2. pc' \in [Uploads -> PC]
    BY <1>1 DEF Start, TypeOK, PC
  <2> QED BY <1>1, <2>1, <2>2 DEF Start, TypeOK
<1>2. ASSUME NEW u \in Uploads, UploadStep(u) PROVE TypeOK'
  <2>1. CASE Get(u)
    <3>1. CASE snap' = [snap EXCEPT ![u] = cache] /\ Proceed(u, cache)
      <4>1. pc' \in [Uploads -> PC] /\ size' = size
              /\ todo' \in [Uploads -> SUBSET Thresholds]
        BY <3>1, ProceedType
      <4> QED BY <2>1, <3>1, <4>1 DEF Get, TypeOK
    <3>2. CASE To(u, IF pc[u] = "checkGet" THEN "checkLoad" ELSE "alertLoad")
               /\ UNCHANGED <<snap, todo>>
      BY <2>1, <3>2 DEF Get, TypeOK, PC, Background
    <3> QED BY <2>1, <3>1, <3>2 DEF Get
  <2>2. CASE Load(u)
    <3>1. row' \in Quota
      BY <2>2, MaxDayAssumption DEF Load, TypeOK, FreshRow, Quota
    <3> QED BY <2>2, <3>1 DEF Load, TypeOK, PC, Background
  <2>3. CASE Fill(u)
    <3>1. pc' \in [Uploads -> PC] /\ size' = size
            /\ todo' \in [Uploads -> SUBSET Thresholds]
      BY <2>3, ProceedType DEF Fill
    <3>2. cache' \in Quota \cup {NoRow}
      BY <2>3 DEF Fill, TypeOK
    <3> QED BY <2>3, <3>1, <3>2 DEF Fill, TypeOK
  <2>4. CASE Decide(u)
    BY <2>4 DEF Decide, TypeOK, PC, Ended
  <2>5. CASE Transfer(u)
    BY <2>5 DEF Transfer, TypeOK, PC, Ended
  <2>6. CASE Record(u)
    <3>1. row' \in Quota /\ row.date \in 0..MaxDay
      BY <2>6, <1>0, RowUpdates DEF Record, Charge, TypeOK, Quota
    <3> QED BY <2>6, <3>1 DEF Record, Charge, TypeOK, PC
  <2>7. CASE Recorded(u)
    BY <2>7 DEF Recorded, Invalidate, TypeOK, PC, Background
  <2>8. CASE Acquire(u)
    BY <2>8 DEF Acquire, TakeCooldown, LeaveThreshold, TypeOK, PC, Background,
                Ended
  <2>9. CASE Publish(u)
    BY <2>9 DEF Publish, LeaveThreshold, TypeOK, PC, Background, Ended
  <2> QED BY <1>2, <2>1, <2>2, <2>3, <2>4, <2>5, <2>6, <2>7, <2>8, <2>9
          DEF UploadStep
<1>3. ASSUME NEW u \in Uploads, UploadFails(u) PROVE TypeOK'
  <2>1. pc' \in [Uploads -> PC] /\ size' = size
          /\ todo' \in [Uploads -> SUBSET Thresholds]
    BY <1>3 DEF UploadFails, TypeOK, PC, Ended
  <2>2. CASE pc[u] = "record" /\ Charge(u) /\ UNCHANGED alertVars
    <3>1. row' \in Quota /\ row.date \in 0..MaxDay
      BY <2>2, <1>0, RowUpdates DEF Charge, TypeOK, Quota
    <3> QED BY <1>3, <2>1, <2>2, <3>1 DEF UploadFails, Charge, TypeOK
  <2>3. CASE UNCHANGED <<row, charged, alerts>> /\ cooldown' \subseteq Thresholds
    BY <1>3, <2>1, <2>3 DEF UploadFails, TypeOK
  <2> QED BY <1>3, <2>2, <2>3 DEF UploadFails, TypeOK
<1>4. ASSUME NEW d \in Deletes, Release(d) \/ Released(d) \/ DeleteFails(d)
      PROVE  TypeOK'
  <2>1. \/ UNCHANGED row
        \/ SubFromRow(size[target[d]]) /\ row # NoRow
    BY <1>4 DEF Release, Released, DeleteFails, RowFound
  <2>2. row' \in Quota \cup {NoRow}
    BY <2>1, RowUpdates DEF TypeOK
  <2> HIDE DEF SubFromRow
  <2>3. CASE Release(d) BY <2>2, <2>3 DEF Release, TypeOK
  <2>4. CASE Released(d) BY <2>4 DEF Released, Invalidate, TypeOK
  <2>5. CASE DeleteFails(d) BY <2>2, <2>5 DEF DeleteFails, TypeOK
  <2> QED BY <1>4, <2>3, <2>4, <2>5
<1>5. ASSUME NEW r \in Replicas, CronStep(r) \/ ResetMissed(r) PROVE TypeOK'
  <2>1. CASE Reset(r)
    <3>1. row' \in Quota \cup {NoRow}
      BY <2>1, RowUpdates DEF Reset, TypeOK
    <3> QED BY <2>1, <3>1 DEF Reset, RanToday, TypeOK
  <2>2. CASE ResetInvalidate(r)
    BY <2>2 DEF ResetInvalidate, Invalidate, TypeOK
  <2>3. CASE ResetMissed(r)
    BY <2>3 DEF ResetMissed, RanToday, TypeOK
  <2> QED BY <1>5, <2>1, <2>2, <2>3 DEF CronStep
<1>6. CASE NewDay
  BY <1>6, MaxDayAssumption DEF NewDay, TypeOK
<1>7. CASE CacheExpires
  BY <1>7 DEF CacheExpires, TypeOK
<1>8. ASSUME NEW t \in Thresholds, CooldownExpires(t) PROVE TypeOK'
  BY <1>8 DEF CooldownExpires, TypeOK
<1>9. CASE UNCHANGED vars
  BY <1>9 DEF vars, TypeOK
<1> QED BY <1>1, <1>2, <1>3, <1>4, <1>5, <1>6, <1>7, <1>8, <1>9 DEF Next

-----------------------------------------------------------------------------
(* The ledger: who was charged, and under which date.                      *)

Early == {"idle", "checkGet", "checkLoad", "checkFill", "decide", "transfer",
          "record"}

Accounted(f) == f >= Cardinality(Charged) - Cardinality(released)
UnderDate(dt) == {u \in Uploads : charged[u] = dt}

\* The sets the ledger counts are finite.
LEMMA CountsAreFinite ==
  /\ IsFiniteSet(Charged) /\ Cardinality(Charged) \in Nat
  /\ \A dt : IsFiniteSet(UnderDate(dt)) /\ Cardinality(UnderDate(dt)) \in Nat
  /\ TypeOK => IsFiniteSet(released) /\ Cardinality(released) \in Nat
BY FiniteAssumption, FS_Subset, FS_CardinalityType
   DEF Charged, UnderDate, TypeOK

\* Charging an upload counts it once, as a file and under the date of the row.
LEMMA ChargeCounts ==
  ASSUME TypeOK, LedgerInv, NEW u \in Uploads, pc[u] = "record", Charge(u),
         released' = released
  PROVE  /\ row' # NoRow /\ row'.date = row.date
         /\ \A v \in Uploads : charged'[v] = IF v = u THEN row.date ELSE charged[v]
         /\ FilesAccounted' /\ DailyIsExact'
<1>1. row # NoRow /\ u \notin Charged /\ row \in Quota
  BY DEF LedgerInv, RowFound, ChargedOnce, TypeOK
<1>2. row' \in Quota /\ row'.date = row.date /\ row'.files = row.files + 1
        /\ row'.daily = row.daily + 1
  BY <1>1, RowUpdates DEF Charge, AddToRow, Quota
<1>3. row' # NoRow
  BY <1>2, NoRowAssumption
<1>4. charged' = [charged EXCEPT ![u] = row.date] /\ row.date # NotCharged
        /\ charged \in [Uploads -> {NotCharged} \cup 0..MaxDay]
  BY <1>1, MaxDayAssumption DEF Charge, TypeOK, Quota, NotCharged
<1>5. Cardinality(Charged') = Cardinality(Charged) + 1
  <2>1. Charged' = Charged \cup {u}
    BY <1>4 DEF Charged
  <2> QED BY <1>1, <2>1, CountsAreFinite, FS_AddElement
<1>6. Cardinality(UnderDate(row.date)') = Cardinality(UnderDate(row.date)) + 1
  <2>1. UnderDate(row.date)' = UnderDate(row.date) \cup {u}
    BY <1>2, <1>4 DEF UnderDate
  <2>2. u \notin UnderDate(row.date)
    BY <1>1, <1>4 DEF UnderDate, Charged
  <2> QED BY <2>1, <2>2, CountsAreFinite, FS_AddElement
<1>7. FilesAccounted'
  <2>1. row.files \in Nat /\ row.files >= Cardinality(Charged) - Cardinality(released)
    BY <1>1 DEF LedgerInv, FilesAccounted, Quota
  <2> QED BY <1>2, <1>5, <2>1, CountsAreFinite DEF FilesAccounted
<1>8. DailyIsExact'
  <2>1. row.daily = Cardinality(UnderDate(row.date))
    BY <1>1 DEF LedgerInv, DailyIsExact, UnderDate
  <2> QED BY <1>2, <1>6, <2>1 DEF DailyIsExact, UnderDate
<1> QED BY <1>2, <1>3, <1>4, <1>7, <1>8

\* A step that leaves the row and what was charged alone leaves the ledger alone.
LEMMA LedgerKept ==
  ASSUME LedgerInv, UNCHANGED <<row, charged, released, saved, day>>,
         row = NoRow => cache' = NoRow,
         row = NoRow => \A u \in Uploads :
           pc'[u] \in {"idle", "checkGet", "checkLoad", "failed"},
         \A u \in Uploads : pc'[u] \in Early => u \notin Charged,
         \A d \in Deletes : dpc'[d] = "idle" => dpc[d] = "idle"
  PROVE  LedgerInv'
<1>1. Charged' = Charged
  BY DEF Charged
<1>2. RowFound'
  BY <1>1 DEF LedgerInv, RowFound
<1>3. ChargedOnce'
  BY <1>1 DEF LedgerInv, ChargedOnce, Early
<1>4. FilesAccounted' /\ DailyIsExact'
  BY <1>1 DEF LedgerInv, FilesAccounted, DailyIsExact
<1> QED BY <1>2, <1>3, <1>4 DEF LedgerInv

\* The ledger is kept by every step.
LEMMA LedgerStep == TypeOK /\ LedgerInv /\ [Next]_vars => LedgerInv'
<1> SUFFICES ASSUME TypeOK, LedgerInv, [Next]_vars PROVE LedgerInv'
  OBVIOUS
<1> USE DEF To, uploadVars, deleteVars, cronVars, alertVars, history
<1>0. /\ \A u \in Uploads : pc[u] \in Early => u \notin Charged
      /\ row = NoRow => cache = NoRow /\ \A u \in Uploads :
           pc[u] \in {"idle", "checkGet", "checkLoad", "failed"}
      /\ pc \in [Uploads -> PC] /\ dpc \in [Deletes -> {"idle", "invalidate", "done", "failed"}]
  BY DEF LedgerInv, RowFound, ChargedOnce, Early, TypeOK
<1>1. ASSUME NEW u \in Uploads, Start(u) PROVE LedgerInv'
  BY <1>0, <1>1, LedgerKept DEF Start, Early
<1>2. ASSUME NEW u \in Uploads, UploadStep(u) PROVE LedgerInv'
  <2>1. CASE Get(u)
    BY <1>0, <2>1, LedgerKept DEF Get, Proceed, Early, Background
  <2>2. CASE Load(u)
    <3>1. CASE row # NoRow
      <4>1. UNCHANGED <<row, charged, released, saved, day, cache, dpc>>
        BY <2>2, <3>1 DEF Load
      <4>2. \A v \in Uploads : pc'[v] \in Early => v \notin Charged
        BY <1>0, <2>2 DEF Load, Early
      <4> QED BY <3>1, <4>1, <4>2, LedgerKept
    <3>2. CASE row = NoRow
      <4>1. row' = FreshRow /\ row' # NoRow /\ day \in 0..MaxDay
        <5>1. FreshRow \in Quota
          BY MaxDayAssumption DEF TypeOK, FreshRow, Quota
        <5> QED BY <2>2, <3>2, <5>1, NoRowAssumption DEF Load, TypeOK
      <4>2. Charged = {} /\ Charged' = {} /\ released' = {} /\ day' = day
        BY <2>2, <3>2 DEF Load, LedgerInv, RowFound, Charged
      <4>3. \A d \in 0..MaxDay : {v \in Uploads : charged'[v] = d} = {}
        BY <2>2, <4>2, MaxDayAssumption DEF Charged, NotCharged
      <4>4. row'.date = day /\ row'.daily = 0 /\ row'.files = 0
        BY <4>1 DEF FreshRow
      <4>5. FilesAccounted' /\ DailyIsExact'
        BY <4>1, <4>2, <4>3, <4>4, FS_EmptySet DEF FilesAccounted, DailyIsExact
      <4>6. ChargedOnce'
        BY <4>1, <4>2, <4>4 DEF ChargedOnce
      <4> QED BY <4>1, <4>5, <4>6 DEF LedgerInv, RowFound
    <3> QED BY <3>1, <3>2
  <2>3. CASE Fill(u)
    BY <1>0, <2>3, LedgerKept DEF Fill, Proceed, Early, Background
  <2>4. CASE Decide(u)
    BY <1>0, <2>4, LedgerKept DEF Decide, Early
  <2>5. CASE Transfer(u)
    <3>1. row # NoRow /\ row' = row /\ Charged' = Charged
      BY <1>0, <2>5 DEF Transfer, Charged
    <3>2. ChargedOnce'
      BY <2>5, <3>1, <1>0 DEF Transfer, LedgerInv, ChargedOnce, Early, Charged
    <3>3. FilesAccounted' /\ DailyIsExact'
      BY <2>5, <3>1 DEF Transfer, LedgerInv, FilesAccounted, DailyIsExact
    <3> QED BY <3>1, <3>2, <3>3 DEF LedgerInv, RowFound
  <2>6. CASE Record(u)
    <3>1. /\ row' # NoRow /\ row'.date = row.date
          /\ \A v \in Uploads : charged'[v] = IF v = u THEN row.date ELSE charged[v]
          /\ FilesAccounted' /\ DailyIsExact'
      BY <2>6, ChargeCounts DEF Record
    <3>2. ChargedOnce'
      BY <1>0, <2>6, <3>1, MaxDayAssumption
         DEF Record, LedgerInv, ChargedOnce, Charged, TypeOK, Quota
    <3> QED BY <3>1, <3>2 DEF LedgerInv, RowFound
  <2>7. CASE Recorded(u)
    BY <1>0, <2>7, LedgerKept DEF Recorded, Invalidate, Early
  <2>8. CASE Acquire(u)
    BY <1>0, <2>8, LedgerKept DEF Acquire, TakeCooldown, LeaveThreshold, Early
  <2>9. CASE Publish(u)
    BY <1>0, <2>9, LedgerKept DEF Publish, LeaveThreshold, Early
  <2> QED BY <1>2, <2>1, <2>2, <2>3, <2>4, <2>5, <2>6, <2>7, <2>8, <2>9
          DEF UploadStep
<1>3. ASSUME NEW u \in Uploads, UploadFails(u) PROVE LedgerInv'
  <2>1. CASE UNCHANGED <<row, charged>>
    BY <1>0, <1>3, <2>1, LedgerKept DEF UploadFails, Early
  <2>2. CASE pc[u] = "record" /\ Charge(u)
    <3>1. /\ row' # NoRow /\ row'.date = row.date
          /\ \A v \in Uploads : charged'[v] = IF v = u THEN row.date ELSE charged[v]
          /\ FilesAccounted' /\ DailyIsExact'
      BY <1>3, <2>2, ChargeCounts DEF UploadFails
    <3>2. ChargedOnce'
      BY <1>0, <1>3, <3>1, MaxDayAssumption
         DEF UploadFails, LedgerInv, ChargedOnce, Charged, TypeOK, Quota
    <3> QED BY <3>1, <3>2 DEF LedgerInv, RowFound
  <2> QED BY <1>3, <2>1, <2>2 DEF UploadFails
<1>4. ASSUME NEW d \in Deletes, Release(d) \/ Released(d) \/ DeleteFails(d)
      PROVE  LedgerInv'
  <2>1. CASE UNCHANGED <<row, released>>
    BY <1>0, <1>4, <2>1, LedgerKept
       DEF Release, Released, DeleteFails, Invalidate, Early
  <2>2. CASE /\ dpc[d] = "idle" /\ row # NoRow /\ SubFromRow(size[target[d]])
             /\ released' = released \cup {d} /\ dpc'[d] # "idle"
             /\ UNCHANGED <<pc, charged, saved, day, cache>>
             /\ \A e \in Deletes : dpc'[e] = "idle" => e # d /\ dpc[e] = "idle"
    <3>1. row \in Quota /\ row' \in Quota /\ row' # NoRow
      BY <2>2, RowUpdates, NoRowAssumption DEF TypeOK
    <3>2. row'.files = Less(row.files, 1) /\ row'.daily = row.daily
            /\ row'.date = row.date
      BY <2>2, <3>1 DEF SubFromRow, Quota
    <3>3. d \notin released /\ Charged' = Charged
      BY <2>2 DEF LedgerInv, ChargedOnce, Charged
    <3>4. Cardinality(released') = Cardinality(released) + 1
      BY <2>2, <3>3, CountsAreFinite, FS_AddElement
    <3>5. row.files \in Nat /\ row.files >= Cardinality(Charged) - Cardinality(released)
      BY <2>2, <3>1 DEF LedgerInv, FilesAccounted, Quota
    <3>6. FilesAccounted'
      <4>1. row'.files >= row.files - 1 /\ row'.files \in Nat
        BY <3>2, <3>5 DEF Less
      <4> QED BY <3>3, <3>4, <3>5, <4>1, CountsAreFinite DEF FilesAccounted
    <3>7. DailyIsExact'
      BY <2>2, <3>2 DEF LedgerInv, DailyIsExact
    <3>8. ChargedOnce'
      BY <2>2, <3>1, <3>2, <3>3 DEF LedgerInv, ChargedOnce
    <3> QED BY <3>1, <3>6, <3>7, <3>8 DEF LedgerInv, RowFound
  <2> HIDE DEF SubFromRow
  <2> QED BY <1>0, <1>4, <2>1, <2>2
          DEF Release, Released, DeleteFails, LedgerInv, RowFound
<1>5. ASSUME NEW r \in Replicas, CronStep(r) \/ ResetMissed(r) PROVE LedgerInv'
  <2>1. CASE UNCHANGED row
    BY <1>0, <1>5, <2>1, LedgerKept
       DEF CronStep, Reset, ResetInvalidate, ResetMissed, Invalidate, RanToday
  <2>2. CASE /\ row # NoRow /\ row.date < day
             /\ row' = [row EXCEPT !.daily = 0, !.date = day]
             /\ UNCHANGED <<pc, dpc, saved, charged, released, day, cache>>
    <3>1. row \in Quota /\ day \in 0..MaxDay
      BY <2>2 DEF TypeOK
    <3>2. row'.files = row.files /\ row'.daily = 0 /\ row'.date = day /\ row' \in Quota
      BY <2>2, <3>1, MaxDayAssumption DEF Quota
    <3>3. row' # NoRow /\ Charged' = Charged
      BY <2>2, <3>2, NoRowAssumption DEF Charged
    <3>4. UnderDate(day)' = {}
      <4>1. \A u \in Uploads : charged'[u] # day
        <5> SUFFICES ASSUME NEW u \in Uploads, charged[u] = day PROVE FALSE
          BY <2>2
        <5>1. u \in Charged
          BY <3>1, MaxDayAssumption DEF Charged, NotCharged
        <5>2. day <= row.date
          BY <5>1 DEF LedgerInv, ChargedOnce
        <5> QED BY <2>2, <3>1, <5>2, MaxDayAssumption DEF Quota
      <4> QED BY <2>2, <4>1 DEF UnderDate
    <3>5. DailyIsExact'
      BY <2>2, <3>2, <3>4, FS_EmptySet DEF DailyIsExact, UnderDate
    <3>6. FilesAccounted'
      BY <2>2, <3>2, <3>3 DEF LedgerInv, FilesAccounted
    <3>7. ChargedOnce'
      <4>1. \A u \in Charged : charged[u] <= row.date /\ charged[u] \in 0..MaxDay
        BY DEF LedgerInv, ChargedOnce, Charged, TypeOK
      <4>2. \A u \in Charged : charged[u] <= day
        BY <2>2, <3>1, <4>1, MaxDayAssumption DEF Quota
      <4> QED BY <2>2, <3>1, <3>2, <3>3, <4>2, MaxDayAssumption
              DEF LedgerInv, ChargedOnce, Charged
    <3> QED BY <3>3, <3>5, <3>6, <3>7 DEF LedgerInv, RowFound
  <2> QED BY <1>5, <2>1, <2>2
          DEF CronStep, Reset, ResetInvalidate, ResetMissed, ResetIfStale
<1>6. CASE NewDay
  <2>1. UNCHANGED <<pc, dpc, row, cache, charged, saved, released>> /\ day' = day + 1
          /\ Charged' = Charged
    BY <1>6 DEF NewDay, Charged
  <2>2. row # NoRow => row.date <= day /\ row.date \in 0..MaxDay /\ day \in 0..MaxDay
    BY DEF LedgerInv, ChargedOnce, TypeOK, Quota
  <2>3. ChargedOnce'
    BY <2>1, <2>2, MaxDayAssumption DEF LedgerInv, ChargedOnce
  <2> QED BY <2>1, <2>3 DEF LedgerInv, RowFound, FilesAccounted, DailyIsExact
<1>7. CASE CacheExpires
  BY <1>0, <1>7, LedgerKept DEF CacheExpires
<1>8. ASSUME NEW t \in Thresholds, CooldownExpires(t) PROVE LedgerInv'
  BY <1>0, <1>8, LedgerKept DEF CooldownExpires
<1>9. CASE UNCHANGED vars
  BY <1>0, <1>9, LedgerKept DEF vars
<1> QED BY <1>1, <1>2, <1>3, <1>4, <1>5, <1>6, <1>7, <1>8, <1>9 DEF Next

\* Initially nobody is charged.
LEMMA LedgerInit == Init => TypeOK /\ LedgerInv
<1> SUFFICES ASSUME Init PROVE TypeOK /\ LedgerInv
  OBVIOUS
<1>1. TypeOK
  <2>1. overlapped \in BOOLEAN
    BY DEF Init
  <2> QED BY <2>1, MaxDayAssumption DEF Init, TypeOK, PC
<1>2. Charged = {} /\ row = NoRow /\ released = {}
  BY DEF Init, Charged
<1>3. RowFound /\ ChargedOnce
  BY <1>2 DEF Init, RowFound, ChargedOnce
<1> QED BY <1>1, <1>2, <1>3 DEF LedgerInv, FilesAccounted, DailyIsExact

\* The quota keeps its type.
THEOREM TypeCorrect == Spec => []TypeOK
<1>1. TypeOK /\ LedgerInv /\ [Next]_vars => (TypeOK /\ LedgerInv)'
  BY TypeStep, LedgerStep DEF LedgerInv
<1> QED BY <1>1, LedgerInit, PTL DEF Spec

\* The inductive invariant of the ledger: no upload is charged twice, none is
\* dropped from the files count, and the daily count is exact.
THEOREM LedgerInvariant == Spec => []LedgerInv
<1>1. TypeOK /\ LedgerInv /\ [Next]_vars => (TypeOK /\ LedgerInv)'
  BY TypeStep, LedgerStep DEF LedgerInv
<1> QED BY <1>1, LedgerInit, PTL DEF Spec

-----------------------------------------------------------------------------
(* Sums over finite sets.                                                  *)

\* Induction over the subsets of a finite set, on a set of them instead of a
\* predicate.
LEMMA SubsetInduction ==
  ASSUME NEW S, IsFiniteSet(S), NEW Good, {} \in Good,
         \A T \in SUBSET S : T # {} /\ (\A x \in T : T \ {x} \in Good) => T \in Good
  PROVE  SUBSET S \subseteq Good
<1> DEFINE Bad == {T \in SUBSET S : T \notin Good}
<1> SUFFICES ASSUME Bad # {} PROVE FALSE
  OBVIOUS
<1>1. \E T \in Bad : \A U \in Bad : ~ (<<U, T>> \in StrictSubsetOrdering(S))
  <2>1. IsWellFoundedOn(StrictSubsetOrdering(S), SUBSET S)
    BY FS_StrictSubsetOrderingWellFounded, FS_FiniteSubsetsOfFinite
  <2>2. Bad \subseteq SUBSET S
    OBVIOUS
  <2> HIDE DEF Bad
  <2> QED BY <2>1, <2>2, WFMin
<1>2. PICK T \in Bad : \A U \in Bad : ~ (<<U, T>> \in StrictSubsetOrdering(S))
  BY <1>1
<1>3. PICK x \in T : T \ {x} \notin Good
  OBVIOUS
<1>4. <<T \ {x}, T>> \in StrictSubsetOrdering(S) /\ T \ {x} \in Bad
  BY <1>3 DEF StrictSubsetOrdering
<1> QED BY <1>2, <1>4

\* A sum of naturals, as the size of a set: f[x] pairs for every x of S.
Units(f, S) == UNION {{x} \X (1..f[x]) : x \in S}

\* One element more adds its pairs.
LEMMA UnitsAdd ==
  ASSUME NEW f, NEW S, NEW x, x \notin S, f[x] \in Nat, IsFiniteSet(Units(f, S))
  PROVE  /\ IsFiniteSet(Units(f, S \cup {x}))
         /\ Cardinality(Units(f, S \cup {x})) = Cardinality(Units(f, S)) + f[x]
<1> DEFINE U == Units(f, S)
           V == {x} \X (1..f[x])
<1>1. IsFiniteSet(V) /\ Cardinality(V) = f[x]
  <2> DEFINE n == f[x]
             I == 1..n
  <2>1. IsFiniteSet(I) /\ Cardinality(I) = n
    BY FS_Interval
  <2>2. IsFiniteSet({x}) /\ Cardinality({x}) = 1
    BY FS_Singleton
  <2> HIDE DEF n, I
  <2>3. IsFiniteSet({x} \X I) /\ Cardinality({x} \X I) = 1 * n
    BY <2>1, <2>2, FS_Product
  <2>4. n \in Nat
    BY DEF n
  <2> QED BY <2>3, <2>4 DEF n, I
<1>2. Units(f, S \cup {x}) = U \cup V
  BY DEF Units
<1>3. U \cap V = {}
  BY DEF Units
<1> HIDE DEF U, V
<1>4. IsFiniteSet(U \cup V) /\ Cardinality(U \cup V) = Cardinality(U) + Cardinality(V) - 0
  BY <1>1, <1>3, FS_Union, FS_EmptySet DEF U
<1>5. Cardinality(U) \in Nat
  BY FS_CardinalityType DEF U
<1>6. Cardinality(U) + f[x] - 0 = Cardinality(U) + f[x]
  BY <1>5
<1> QED BY <1>1, <1>2, <1>4, <1>6 DEF U

First(s) == CHOOSE x \in s : TRUE

\* The sum of the community modules is that size.
LEMMA SumIsCount ==
  ASSUME NEW f, NEW S, IsFiniteSet(S), \A x \in S : f[x] \in Nat
  PROVE  /\ IsFiniteSet(Units(f, S))
         /\ SumFunctionOnSet(f, S) = Cardinality(Units(f, S))
<1>1. Units(f, {}) = {}
  BY DEF Units
<1>2. \A T \in SUBSET S : IsFiniteSet(Units(f, T))
  <2> DEFINE Good == {T \in SUBSET S : IsFiniteSet(Units(f, T))}
  <2>1. {} \in Good
    BY <1>1, FS_EmptySet
  <2>2. ASSUME NEW T \in SUBSET S, T # {}, \A x \in T : T \ {x} \in Good
        PROVE  T \in Good
    <3>1. PICK x : x \in T
      BY <2>2
    <3>2. (T \ {x}) \cup {x} = T
      BY <3>1
    <3> QED BY <2>2, <3>1, <3>2, UnitsAdd
  <2> HIDE DEF Good
  <2>3. SUBSET S \subseteq Good
    BY <2>1, <2>2, SubsetInduction
  <2> QED BY <2>3 DEF Good
<1> DEFINE Step(g, s) == IF s = {} THEN 0 ELSE f[First(s)] + g[s \ {First(s)}]
           Sums(g) == g = [s \in SUBSET S |-> Step(g, s)]
           h == [s \in SUBSET S |-> Cardinality(Units(f, s))]
<1>3. ASSUME NEW s \in SUBSET S, NEW x \in s
      PROVE  Cardinality(Units(f, s)) = f[x] + Cardinality(Units(f, s \ {x}))
  <2>1. (s \ {x}) \cup {x} = s
    OBVIOUS
  <2>2. Cardinality(Units(f, s)) = Cardinality(Units(f, s \ {x})) + f[x]
    BY <1>2, <2>1, UnitsAdd
  <2>3. Cardinality(Units(f, s \ {x})) \in Nat /\ f[x] \in Nat
    BY <1>2, FS_CardinalityType
  <2> QED BY <2>2, <2>3
<1>4. ASSUME NEW s \in SUBSET S PROVE Cardinality(Units(f, s)) = Step(h, s)
  <2>1. CASE s = {}
    BY <1>1, <2>1, FS_EmptySet
  <2>2. CASE s # {}
    <3>1. First(s) \in s
      BY <2>2 DEF First
    <3> QED BY <1>3, <2>2, <3>1
  <2> QED BY <2>1, <2>2
<1>5. Sums(h)
  BY <1>4
<1> DEFINE g == CHOOSE k : Sums(k)
<1>6. SumFunctionOnSet(f, S) = g[S]
  BY DEF SumFunctionOnSet, FoldFunctionOnSet, MapThenFoldSet, First
<1>7. Sums(g)
  <2> HIDE DEF Sums, h
  <2> QED BY <1>5
<1> HIDE DEF g
<1>8. \A s \in SUBSET S : g[s] = Step(g, s)
  BY <1>7
<1> DEFINE Good == {s \in SUBSET S : g[s] = Cardinality(Units(f, s))}
<1>9. {} \in Good
  BY <1>1, <1>8, FS_EmptySet
<1>10. ASSUME NEW s \in SUBSET S, s # {}, \A x \in s : s \ {x} \in Good PROVE s \in Good
  <2>1. First(s) \in s
    BY <1>10 DEF First
  <2> QED BY <1>3, <1>8, <1>10, <2>1
<1>11. SUBSET S \subseteq Good
  <2> HIDE DEF Good
  <2> QED BY <1>9, <1>10, SubsetInduction
<1> QED BY <1>2, <1>6, <1>11

\* One element more adds its value to a sum.
LEMMA SumAdds ==
  ASSUME NEW f, NEW S, IsFiniteSet(S), NEW x, x \notin S, \A y \in S \cup {x} : f[y] \in Nat
  PROVE  /\ SumFunctionOnSet(f, S) \in Nat
         /\ SumFunctionOnSet(f, S \cup {x}) = SumFunctionOnSet(f, S) + f[x]
<1>1. IsFiniteSet(S \cup {x})
  BY FS_AddElement
<1>2. /\ IsFiniteSet(Units(f, S))
      /\ SumFunctionOnSet(f, S) = Cardinality(Units(f, S))
  BY SumIsCount
<1>3. SumFunctionOnSet(f, S \cup {x}) = Cardinality(Units(f, S \cup {x}))
  BY <1>1, SumIsCount
<1>4. Cardinality(Units(f, S \cup {x})) = Cardinality(Units(f, S)) + f[x]
  BY <1>2, UnitsAdd
<1>5. Cardinality(Units(f, S)) \in Nat
  BY <1>2, FS_CardinalityType
<1> QED BY <1>2, <1>3, <1>4, <1>5

\* The empty sum.
LEMMA SumOfNone == ASSUME NEW f PROVE SumFunctionOnSet(f, {}) = 0
BY SumIsCount, FS_EmptySet DEF Units

-----------------------------------------------------------------------------
(* The storage.                                                            *)

\* What was charged and what was released, in the units of the row.
LEMMA SumsAreNat ==
  ASSUME TypeOK
  PROVE  /\ \A u \in Uploads : size[u] \in Nat
         /\ \A d \in Deletes : Freed[d] \in Nat
         /\ SumFunctionOnSet(size, Charged) \in Nat
         /\ SumFunctionOnSet(Freed, released) \in Nat
<1>1. /\ \A u \in Uploads : size[u] \in Nat
      /\ \A d \in Deletes : Freed[d] \in Nat
  BY SizesAssumption DEF TypeOK, Freed
<1>2. \A u \in Charged : size[u] \in Nat
  BY <1>1 DEF Charged
<1>3. \A d \in released : Freed[d] \in Nat
  BY <1>1 DEF TypeOK
<1>4. SumFunctionOnSet(size, Charged) \in Nat
  <2>1. IsFiniteSet(Units(size, Charged)) /\
        SumFunctionOnSet(size, Charged) = Cardinality(Units(size, Charged))
    BY <1>2, CountsAreFinite, SumIsCount
  <2> QED BY <2>1, FS_CardinalityType
<1>5. SumFunctionOnSet(Freed, released) \in Nat
  <2>1. IsFiniteSet(Units(Freed, released)) /\
        SumFunctionOnSet(Freed, released) = Cardinality(Units(Freed, released))
    BY <1>3, CountsAreFinite, SumIsCount
  <2> QED BY <2>1, FS_CardinalityType
<1> QED BY <1>1, <1>4, <1>5

\* A step that leaves the storage and what was charged alone.
LEMMA StorageKept ==
  ASSUME StorageAccounted, UNCHANGED <<size, target, charged, released>>,
         row' # NoRow => row # NoRow /\ row'.storage = row.storage
  PROVE  StorageAccounted'
<1>1. Charged' = Charged /\ Freed' = Freed
  BY DEF Charged, Freed
<1> QED BY <1>1 DEF StorageAccounted

\* A charge adds the size of its upload to both sides.
LEMMA ChargeAccounts ==
  ASSUME TypeOK, LedgerInv, StorageAccounted, NEW u \in Uploads, pc[u] = "record",
         Charge(u), UNCHANGED <<size, target, released>>
  PROVE  StorageAccounted'
<1>1. row # NoRow /\ u \notin Charged /\ row \in Quota
  BY DEF LedgerInv, RowFound, ChargedOnce, TypeOK
<1>2. row'.storage = row.storage + size[u]
  BY <1>1 DEF Charge, AddToRow, Quota
<1>3. Charged' = Charged \cup {u} /\ Freed' = Freed
  BY <1>1, MaxDayAssumption DEF Charge, Charged, Freed, TypeOK, Quota, NotCharged
<1> DEFINE added == SumFunctionOnSet(size, Charged)
           removed == SumFunctionOnSet(Freed, released)
<1>4. SumFunctionOnSet(size, Charged \cup {u}) = added + size[u]
  <2>1. \A v \in Charged \cup {u} : size[v] \in Nat
    BY SumsAreNat DEF Charged
  <2> QED BY <1>1, <2>1, CountsAreFinite, SumAdds
<1>5. row.storage >= added - removed
  BY <1>1 DEF StorageAccounted
<1>6. added \in Nat /\ removed \in Nat /\ size[u] \in Nat /\ row.storage \in Nat
  BY <1>1, SumsAreNat DEF Quota
<1>7. StorageAccounted' <=>
        (row' # NoRow => row'.storage >= SumFunctionOnSet(size, Charged \cup {u}) - removed)
  BY <1>3 DEF StorageAccounted
<1> HIDE DEF added, removed
<1> QED BY <1>2, <1>4, <1>5, <1>6, <1>7

\* A release takes the size of its media from both sides, or leaves nothing at all.
LEMMA ReleaseAccounts ==
  ASSUME TypeOK, LedgerInv, StorageAccounted, NEW d \in Deletes, dpc[d] = "idle",
         target[d] \in saved, SubFromRow(size[target[d]]), released' = released \cup {d},
         UNCHANGED <<size, target, charged>>
  PROVE  StorageAccounted'
<1>1. row # NoRow /\ d \notin released /\ row \in Quota
  BY DEF LedgerInv, RowFound, ChargedOnce, TypeOK
<1>2. row'.storage = Less(row.storage, Freed[d])
  BY <1>1 DEF SubFromRow, Quota, Freed
<1>3. Charged' = Charged /\ Freed' = Freed
  BY DEF Charged, Freed
<1> DEFINE added == SumFunctionOnSet(size, Charged)
           removed == SumFunctionOnSet(Freed, released)
<1>4. SumFunctionOnSet(Freed, released \cup {d}) = removed + Freed[d]
  <2>1. \A e \in released \cup {d} : Freed[e] \in Nat
    BY SumsAreNat DEF TypeOK
  <2> QED BY <1>1, <2>1, CountsAreFinite, SumAdds
<1>5. row.storage >= added - removed
  BY <1>1 DEF StorageAccounted
<1>6. added \in Nat /\ removed \in Nat /\ Freed[d] \in Nat /\ row.storage \in Nat
  BY <1>1, SumsAreNat DEF Quota
<1>7. StorageAccounted' <=>
        (row' # NoRow => row'.storage >= added - SumFunctionOnSet(Freed, released \cup {d}))
  BY <1>3 DEF StorageAccounted
<1> HIDE DEF added, removed
<1> QED BY <1>2, <1>4, <1>5, <1>6, <1>7 DEF Less

\* Every step keeps the storage accounted for.
LEMMA StorageStep ==
  TypeOK /\ LedgerInv /\ StorageAccounted /\ [Next]_vars => StorageAccounted'
<1> SUFFICES ASSUME TypeOK, LedgerInv, StorageAccounted, [Next]_vars
             PROVE  StorageAccounted'
  OBVIOUS
<1> USE DEF To, uploadVars, deleteVars, cronVars, alertVars, history
<1>1. ASSUME NEW u \in Uploads, Start(u) PROVE StorageAccounted'
  BY <1>1, StorageKept DEF Start
<1>2. ASSUME NEW u \in Uploads, UploadStep(u) PROVE StorageAccounted'
  <2>1. CASE Load(u)
    <3>1. CASE row # NoRow
      BY <2>1, <3>1, StorageKept DEF Load
    <3>2. CASE row = NoRow
      <4>1. row'.storage = 0
        BY <2>1, <3>2 DEF Load, FreshRow
      <4>2. Charged' = {} /\ released' = {}
        BY <2>1, <3>2 DEF Load, LedgerInv, RowFound, Charged
      <4>3. SumFunctionOnSet(size', {}) = 0 /\ SumFunctionOnSet(Freed', {}) = 0
        BY SumOfNone
      <4> QED BY <4>1, <4>2, <4>3 DEF StorageAccounted
    <3> QED BY <3>1, <3>2
  <2>2. CASE Record(u)
    BY <2>2, ChargeAccounts DEF Record
  <2>3. CASE UNCHANGED <<size, target, charged, released, row>>
    BY <2>3, StorageKept
  <2> QED BY <1>2, <2>1, <2>2, <2>3
          DEF UploadStep, Get, Fill, Decide, Transfer, Recorded, Acquire, Publish,
              Proceed, TakeCooldown, LeaveThreshold
<1>3. ASSUME NEW u \in Uploads, UploadFails(u) PROVE StorageAccounted'
  <2>1. UNCHANGED <<size, target, released>>
    BY <1>3 DEF UploadFails
  <2>2. CASE UNCHANGED <<row, charged>>
    BY <2>1, <2>2, StorageKept
  <2>3. CASE pc[u] = "record" /\ Charge(u)
    BY <2>1, <2>3, ChargeAccounts
  <2> QED BY <1>3, <2>2, <2>3 DEF UploadFails
<1>4. ASSUME NEW d \in Deletes, Release(d) \/ Released(d) \/ DeleteFails(d)
      PROVE  StorageAccounted'
  <2>1. UNCHANGED <<size, target, charged>>
    BY <1>4 DEF Release, Released, DeleteFails
  <2>2. CASE UNCHANGED <<row, released>>
    BY <2>1, <2>2, StorageKept
  <2>3. CASE /\ dpc[d] = "idle" /\ target[d] \in saved /\ SubFromRow(size[target[d]])
             /\ released' = released \cup {d}
    BY <2>1, <2>3, ReleaseAccounts
  <2> QED BY <1>4, <2>2, <2>3 DEF Release, Released, DeleteFails
<1>5. ASSUME NEW r \in Replicas, CronStep(r) \/ ResetMissed(r) PROVE StorageAccounted'
  <2>1. UNCHANGED <<size, target, charged, released>>
    BY <1>5 DEF CronStep, Reset, ResetInvalidate, ResetMissed
  <2>2. CASE UNCHANGED row
    BY <2>1, <2>2, StorageKept
  <2>3. CASE row # NoRow /\ row' = [row EXCEPT !.daily = 0, !.date = day]
    <3>1. row \in Quota
      BY <2>3 DEF TypeOK
    <3>2. row'.storage = row.storage
      BY <2>3, <3>1 DEF Quota
    <3> QED BY <2>1, <2>3, <3>2, StorageKept
  <2> QED BY <1>5, <2>2, <2>3
          DEF CronStep, Reset, ResetInvalidate, ResetMissed, ResetIfStale
<1>6. CASE UNCHANGED <<size, target, charged, released, row>>
  BY <1>6, StorageKept
<1> QED BY <1>1, <1>2, <1>3, <1>4, <1>5, <1>6
        DEF Next, NewDay, CacheExpires, CooldownExpires, vars

\* No update of the row is lost: its totals are at least what was charged less what
\* was released, for any number of requests of any sizes.
THEOREM NothingIsLost == Spec => []NeverUnderCharged
<1>1. Init => StorageAccounted
  BY DEF Init, StorageAccounted
<1>2. TypeOK /\ LedgerInv /\ StorageAccounted /\ [Next]_vars => StorageAccounted'
  BY StorageStep
<1>3. LedgerInv /\ StorageAccounted => NeverUnderCharged
  BY DEF LedgerInv, NeverUnderCharged
<1> QED BY <1>1, <1>2, <1>3, TypeCorrect, LedgerInvariant, PTL DEF Spec

-----------------------------------------------------------------------------
(* The alerts.                                                             *)

\* The threshold an alert check has reached is unique.
LEMMA NextIsUnique ==
  ASSUME TypeOK, NEW u \in Uploads, NEW s, NEW t, IsNext(u, s), IsNext(u, t)
  PROVE  s = t
<1>1. s \in Nat /\ t \in Nat /\ s <= t /\ t <= s
  BY ThresholdsAssumption DEF IsNext, TypeOK
<1> QED BY <1>1

\* A step that takes no cooldown key and publishes nothing.
LEMMA AlertsKept ==
  ASSUME AlertInv, UNCHANGED alerts,
         cooldown \subseteq cooldown',
         \A v \in Uploads : pc'[v] = "publish" => pc[v] = "publish" /\ todo'[v] = todo[v]
  PROVE  AlertInv'
BY DEF AlertInv, OneAlertPerCooldown, OneTaker, IsNext

\* One alert check at a time goes through SET NX and the publish for a threshold.
LEMMA AlertStep == TypeOK /\ AlertInv /\ [Next]_vars => AlertInv'
<1> SUFFICES ASSUME TypeOK, AlertInv, [Next]_vars PROVE AlertInv'
  OBVIOUS
<1> USE DEF To, uploadVars, deleteVars, cronVars, alertVars, history
<1>0. pc \in [Uploads -> PC] /\ todo \in [Uploads -> SUBSET Thresholds]
  BY DEF TypeOK
<1>1. ASSUME NEW u \in Uploads, Start(u) PROVE AlertInv'
  BY <1>0, <1>1, AlertsKept DEF Start
<1>2. ASSUME NEW u \in Uploads, UploadStep(u) PROVE AlertInv'
  <2>1. CASE Get(u)
    BY <1>0, <2>1, AlertsKept DEF Get, Proceed, Background
  <2>2. CASE Load(u)
    BY <1>0, <2>2, AlertsKept DEF Load
  <2>3. CASE Fill(u)
    BY <1>0, <2>3, AlertsKept DEF Fill, Proceed, Background
  <2>4. CASE Decide(u) \/ Transfer(u) \/ Record(u) \/ Recorded(u)
    BY <1>0, <2>4, AlertsKept DEF Decide, Transfer, Record, Recorded
  <2>5. CASE Acquire(u)
    <3>1. PICK t \in Thresholds :
            /\ IsNext(u, t)
            /\ \/ t \notin cooldown /\ TakeCooldown(u, t)
               \/ LeaveThreshold(u, t) /\ UNCHANGED cooldown
      BY <2>5 DEF Acquire
    <3>2. CASE LeaveThreshold(u, t) /\ UNCHANGED cooldown
      BY <1>0, <2>5, <3>2, AlertsKept DEF Acquire, LeaveThreshold
    <3>3. CASE t \notin cooldown /\ TakeCooldown(u, t)
      <4>1. /\ alerts' = alerts /\ todo' = todo /\ cooldown' = cooldown \cup {t}
            /\ pc' = [pc EXCEPT ![u] = "publish"]
        BY <2>5, <3>3 DEF Acquire, TakeCooldown
      <4>2. alerts[t] = 0
        BY <3>3 DEF AlertInv, OneTaker, TypeOK
      <4>3. \A v \in Uploads : pc[v] = "publish" => ~IsNext(v, t)
        BY <3>3 DEF AlertInv, OneTaker
      <4>4. \A s : IsNext(u, s) => s = t
        BY <3>1, NextIsUnique
      <4>5. \A v, s : IsNext(v, s)' <=> IsNext(v, s)
        BY <4>1 DEF IsNext
      <4>6. ASSUME NEW s \in Thresholds PROVE alerts'[s] <= 1 /\ (alerts'[s] > 0 => s \in cooldown')
        BY <4>1 DEF AlertInv, OneAlertPerCooldown, OneTaker
      <4>7. ASSUME NEW s \in Thresholds, NEW v \in Uploads, pc'[v] = "publish",
                   IsNext(v, s)'
            PROVE  /\ s \in cooldown' /\ alerts'[s] = 0
                   /\ \A w \in Uploads : pc'[w] = "publish" /\ IsNext(w, s)' => w = v
        <5>1. CASE v = u
          BY <1>0, <4>1, <4>2, <4>3, <4>4, <4>5, <4>7, <5>1
        <5>2. CASE v # u
          <6>1. pc[v] = "publish" /\ IsNext(v, s) /\ s # t
            BY <1>0, <4>1, <4>3, <4>5, <4>7, <5>2
          <6>2. /\ s \in cooldown /\ alerts[s] = 0
                /\ \A w \in Uploads : pc[w] = "publish" /\ IsNext(w, s) => w = v
            BY <6>1 DEF AlertInv, OneTaker
          <6> QED BY <1>0, <4>1, <4>4, <4>5, <6>1, <6>2
        <5> QED BY <5>1, <5>2
      <4> QED BY <4>6, <4>7 DEF AlertInv, OneAlertPerCooldown, OneTaker
    <3> QED BY <3>1, <3>2, <3>3
  <2>6. CASE Publish(u)
    <3>1. PICK t \in Thresholds :
            IsNext(u, t) /\ alerts' = [alerts EXCEPT ![t] = @ + 1] /\ LeaveThreshold(u, t)
      BY <2>6 DEF Publish
    <3>2. /\ t \in cooldown /\ alerts[t] = 0 /\ cooldown' = cooldown
          /\ \A v \in Uploads : pc[v] = "publish" /\ IsNext(v, t) => v = u
      BY <2>6, <3>1 DEF Publish, AlertInv, OneTaker
    <3>3. \A v \in Uploads : pc'[v] = "publish" =>
            v # u /\ pc[v] = "publish" /\ \A s : IsNext(v, s)' <=> IsNext(v, s)
      BY <1>0, <2>6, <3>1 DEF Publish, LeaveThreshold, IsNext
    <3>4. alerts'[t] = 1 /\ \A s \in Thresholds \ {t} : alerts'[s] = alerts[s]
      BY <3>1, <3>2 DEF TypeOK
    <3> QED BY <3>2, <3>3, <3>4 DEF AlertInv, OneAlertPerCooldown, OneTaker
  <2> QED BY <1>2, <2>1, <2>2, <2>3, <2>4, <2>5, <2>6 DEF UploadStep
<1>3. ASSUME NEW u \in Uploads, UploadFails(u) PROVE AlertInv'
  <2>1. alerts' = alerts /\ cooldown \subseteq cooldown'
    BY <1>3 DEF UploadFails
  <2>2. \A v \in Uploads : pc'[v] = "publish" => pc[v] = "publish" /\ todo'[v] = todo[v]
    BY <1>0, <1>3 DEF UploadFails
  <2> QED BY <2>1, <2>2, AlertsKept
<1>4. ASSUME NEW d \in Deletes, Release(d) \/ Released(d) \/ DeleteFails(d)
      PROVE  AlertInv'
  BY <1>4, AlertsKept DEF Release, Released, DeleteFails
<1>5. ASSUME NEW r \in Replicas, CronStep(r) \/ ResetMissed(r) PROVE AlertInv'
  BY <1>5, AlertsKept DEF CronStep, Reset, ResetInvalidate, ResetMissed
<1>6. CASE NewDay \/ CacheExpires \/ UNCHANGED vars
  BY <1>6, AlertsKept DEF NewDay, CacheExpires, vars
<1>7. ASSUME NEW t \in Thresholds, CooldownExpires(t) PROVE AlertInv'
  <2>1. cooldown' = cooldown \ {t} /\ alerts' = [alerts EXCEPT ![t] = 0]
          /\ pc' = pc /\ \A v, s : IsNext(v, s)' <=> IsNext(v, s)
    BY <1>7 DEF CooldownExpires, IsNext
  <2>2. \A v \in Uploads : pc[v] = "publish" => ~IsNext(v, t)
    BY <1>7 DEF CooldownExpires
  <2>3. alerts'[t] = 0 /\ \A s \in Thresholds \ {t} : alerts'[s] = alerts[s]
    BY <2>1 DEF TypeOK
  <2> QED BY <2>1, <2>2, <2>3 DEF AlertInv, OneAlertPerCooldown, OneTaker
<1> QED BY <1>1, <1>2, <1>3, <1>4, <1>5, <1>6, <1>7 DEF Next

\* The inductive invariant of the alerts: one taker per cooldown key, and at most
\* one alert per threshold while the key lives.
THEOREM AlertsAreBounded == Spec => []AlertInv
<1>1. Init => AlertInv
  BY DEF Init, AlertInv, OneAlertPerCooldown, OneTaker
<1> QED BY <1>1, AlertStep, TypeCorrect, PTL DEF Spec

-----------------------------------------------------------------------------
(* Uploads that do not overlap.                                            *)

\* q counts at least what r does.
Counts(q, r) ==
  /\ q # NoRow /\ r # NoRow
  /\ q.storage >= r.storage /\ q.files >= r.files /\ q.daily >= r.daily

OneBusy == \A u, v \in Uploads : u \in Busy /\ v \in Busy => u = v
CacheCounts ==
  cache # NoRow => Counts(cache, row) \/ \E u \in Uploads : pc[u] = "invalidate"
SnapCounts ==
  \A u \in Uploads :
    pc[u] \in {"checkFill", "decide", "alertFill"} => Counts(snap[u], row)
RoomLeft ==
  \A u \in Uploads :
    pc[u] \in {"transfer", "record"} => row # NoRow /\ Allowed(row, size[u])

\* What one upload at a time may rely on: nothing it reads counts less than the
\* row does, so what it was allowed still fits when it is charged.
Serial == OneBusy /\ CacheCounts /\ SnapCounts /\ RoomLeft /\ WithinLimits
SerialInv == ~overlapped => Serial

RowFalls == row' = row \/ (row' \in Quota /\ Counts(row, row'))

\* A row that falls breaks neither a reading of it nor a permission.
LEMMA FallingRow ==
  ASSUME TypeOK, TypeOK', RowFalls, WithinLimits
  PROVE  /\ \A q \in Quota \cup {NoRow} : Counts(q, row) => Counts(q, row')
         /\ \A k \in Nat : row # NoRow /\ Allowed(row, k) =>
                            row' # NoRow /\ Allowed(row', k)
         /\ WithinLimits'
<1>1. CASE row' = row
  BY <1>1 DEF WithinLimits
<1>2. CASE row' \in Quota /\ Counts(row, row')
  <2>1. row \in Quota /\ row # NoRow /\ row' # NoRow
    BY <1>2 DEF TypeOK, Counts
  <2>2. /\ row.storage \in Nat /\ row.files \in Nat /\ row.daily \in Nat
        /\ row'.storage \in Nat /\ row'.files \in Nat /\ row'.daily \in Nat
    BY <1>2, <2>1 DEF Quota
  <2>3. /\ row.storage >= row'.storage /\ row.files >= row'.files
        /\ row.daily >= row'.daily
    BY <1>2 DEF Counts
  <2>4. \A q \in Quota \cup {NoRow} : Counts(q, row) => Counts(q, row')
    <3> SUFFICES ASSUME NEW q \in Quota, Counts(q, row) PROVE Counts(q, row')
      BY DEF Counts
    <3>1. q.storage \in Nat /\ q.files \in Nat /\ q.daily \in Nat
      BY DEF Quota
    <3> QED BY <2>1, <2>2, <2>3, <3>1 DEF Counts
  <2>5. \A k \in Nat : Allowed(row, k) => Allowed(row', k)
    BY <2>2, <2>3, LimitsAssumption DEF Allowed
  <2>6. WithinLimits'
    BY <2>1, <2>2, <2>3, LimitsAssumption DEF WithinLimits
  <2> QED BY <2>1, <2>4, <2>5, <2>6
<1> QED BY <1>1, <1>2 DEF RowFalls

\* A step of a delete, a cron or a clock: the row falls, the cache may empty.
LEMMA SerialOthers ==
  ASSUME TypeOK, TypeOK', Serial, RowFalls, UNCHANGED uploadVars,
         cache' = cache \/ cache' = NoRow
  PROVE  Serial'
<1>1. pc' = pc /\ size' = size /\ snap' = snap
  BY DEF uploadVars
<1>2. /\ \A q \in Quota \cup {NoRow} : Counts(q, row) => Counts(q, row')
      /\ \A k \in Nat : row # NoRow /\ Allowed(row, k) =>
                         row' # NoRow /\ Allowed(row', k)
      /\ WithinLimits'
  BY FallingRow DEF Serial
<1>3. OneBusy'
  BY <1>1 DEF Serial, OneBusy, Busy
<1>4. CacheCounts'
  BY <1>1, <1>2 DEF Serial, CacheCounts, TypeOK
<1>5. SnapCounts'
  BY <1>1, <1>2 DEF Serial, SnapCounts, TypeOK
<1>6. RoomLeft'
  <2>1. \A u \in Uploads : size[u] \in Nat
    BY SizesAssumption DEF TypeOK
  <2> QED BY <1>1, <1>2, <2>1 DEF Serial, RoomLeft
<1> QED BY <1>2, <1>3, <1>4, <1>5, <1>6 DEF Serial

\* Deletes and resets only ever lower the row.
LEMMA DeletesLower ==
  ASSUME TypeOK, row # NoRow, NEW k \in Nat, SubFromRow(k)
  PROVE  row' \in Quota /\ Counts(row, row')
<1>1. row \in Quota
  BY DEF TypeOK
<1>2. \A n \in Nat : Less(n, k) \in Nat /\ Less(n, k) <= n
  BY DEF Less
<1>3. row.storage \in Nat /\ row.files \in Nat /\ row.daily \in Nat
  BY <1>1 DEF Quota
<1>4. Less(row.files, 1) \in Nat /\ Less(row.files, 1) <= row.files
  BY <1>3 DEF Less
<1>5. /\ row'.storage = Less(row.storage, k) /\ row'.files = Less(row.files, 1)
      /\ row'.daily = row.daily
  BY <1>1 DEF SubFromRow, Quota
<1>6. row' \in Quota
  BY <1>1, <1>2, <1>3, <1>4 DEF SubFromRow, Quota
<1>7. row' # NoRow
  BY <1>6, NoRowAssumption
<1> QED BY <1>2, <1>3, <1>4, <1>5, <1>6, <1>7 DEF Counts

\* The reset lowers the daily count and leaves the totals.
LEMMA ResetsLower == ASSUME TypeOK, row # NoRow, ResetIfStale PROVE RowFalls
<1>1. row \in Quota /\ day \in 0..MaxDay
  BY DEF TypeOK
<1>2. CASE row.date < day
  <2>1. row' = [row EXCEPT !.daily = 0, !.date = day]
    BY <1>2 DEF ResetIfStale
  <2>2. row' \in Quota
    BY <1>1, <2>1 DEF Quota
  <2>3. row'.storage = row.storage /\ row'.files = row.files /\ row'.daily = 0
    BY <1>1, <2>1 DEF Quota
  <2>4. row.storage \in Nat /\ row.files \in Nat /\ row.daily \in Nat
    BY <1>1 DEF Quota
  <2>5. row' # NoRow
    BY <2>2, NoRowAssumption
  <2> QED BY <2>2, <2>3, <2>4, <2>5 DEF RowFalls, Counts
<1>3. CASE ~(row.date < day)
  BY <1>3 DEF ResetIfStale, RowFalls
<1> QED BY <1>2, <1>3

\* A lone request reads nothing that counts less than the row.
LEMMA LoneHit ==
  ASSUME Serial, NEW u \in Uploads, pc[u] \in {"checkGet", "alertGet"},
         cache # NoRow
  PROVE  Counts(cache, row)
<1>1. \A v \in Uploads : pc[v] # "invalidate"
  <2> SUFFICES ASSUME NEW v \in Uploads, pc[v] = "invalidate" PROVE FALSE
    OBVIOUS
  <2>1. u \in Busy /\ v \in Busy
    BY DEF Busy, Ended
  <2> QED BY <2>1 DEF Serial, OneBusy
<1> QED BY <1>1 DEF Serial, CacheCounts

\* The steps of a lone request.
LEMMA SerialUpload ==
  ASSUME "redis" \notin Faults, TypeOK, TypeOK', LedgerInv, Serial,
         NEW u \in Uploads, UploadStep(u)
  PROVE  Serial'
<1>0. /\ pc \in [Uploads -> PC] /\ snap \in [Uploads -> Quota \cup {NoRow}]
      /\ row \in Quota \cup {NoRow} /\ cache \in Quota \cup {NoRow}
      /\ \A v \in Uploads : size[v] \in Nat
  BY SizesAssumption DEF TypeOK
<1>1. \A v \in Uploads : v # u => pc[v] \in Ended \cup {"idle"}
  <2>1. u \in Busy
    BY DEF UploadStep, Get, Load, Fill, Decide, Transfer, Record, Recorded, Acquire,
           Publish, Busy, Ended
  <2> QED BY <2>1 DEF Serial, OneBusy, Busy
<1>2. /\ size' = size
      /\ \A v \in Uploads : v # u =>
            pc'[v] = pc[v] /\ snap'[v] = snap[v] /\ pc[v] \in Ended \cup {"idle"}
  BY <1>0, <1>1
     DEF UploadStep, Get, Load, Fill, Decide, Transfer, Record, Recorded, Acquire,
         Publish, Proceed, To, TakeCooldown, LeaveThreshold
<1>3. OneBusy'
  BY <1>2 DEF OneBusy, Busy
<1>4. ASSUME /\ pc'[u] \in {"checkFill", "decide", "alertFill"} => Counts(snap'[u], row')
             /\ pc'[u] \in {"transfer", "record"} => row' # NoRow /\ Allowed(row', size[u])
             /\ cache' # NoRow => Counts(cache', row') \/ pc'[u] = "invalidate"
             /\ WithinLimits'
      PROVE  Serial'
  <2>1. \A v \in Uploads : pc'[v] \in {"checkFill", "decide", "alertFill", "transfer",
                                       "record"} => v = u
    BY <1>2 DEF Ended
  <2>2. SnapCounts' /\ RoomLeft'
    BY <1>2, <1>4, <2>1 DEF SnapCounts, RoomLeft
  <2>3. CacheCounts'
    BY <1>4 DEF CacheCounts
  <2> QED BY <1>3, <1>4, <2>2, <2>3 DEF Serial
<1>5. ASSUME UNCHANGED <<row, cache>>, pc[u] # "invalidate",
             pc'[u] \in {"checkFill", "decide", "alertFill"} => Counts(snap'[u], row),
             pc'[u] \in {"transfer", "record"} => row # NoRow /\ Allowed(row, size[u])
      PROVE  Serial'
  <2>1. \A v \in Uploads : pc[v] # "invalidate"
    BY <1>1, <1>5 DEF Ended
  <2>2. cache' # NoRow => Counts(cache', row')
    BY <1>5, <2>1 DEF Serial, CacheCounts
  <2>3. WithinLimits'
    BY <1>5 DEF Serial, WithinLimits
  <2> QED BY <1>4, <1>5, <2>2, <2>3
<1>6. CASE Get(u)
  <2>1. pc'[u] \notin {"checkFill", "alertFill", "transfer", "record"}
    BY <1>0, <1>6 DEF Get, Proceed, To, Background
  <2>2. pc'[u] = "decide" => cache # NoRow /\ snap'[u] = cache
    BY <1>0, <1>6 DEF Get, Proceed, To, Background
  <2>3. pc[u] \in {"checkGet", "alertGet"} /\ UNCHANGED <<row, cache>>
    BY <1>6 DEF Get
  <2>4. cache # NoRow => Counts(cache, row)
    BY <2>3, LoneHit
  <2> QED BY <1>5, <2>1, <2>2, <2>3, <2>4
<1>7. CASE Load(u)
  <2>1. /\ pc[u] \in {"checkLoad", "alertLoad"} /\ cache' = cache
        /\ pc'[u] \in {"checkFill", "alertFill"} /\ snap'[u] = row'
    BY <1>0, <1>7 DEF Load, To
  <2>2. \A v \in Uploads : pc[v] # "invalidate"
    BY <1>1, <2>1 DEF Ended
  <2>3. CASE row # NoRow
    <3>1. row' = row
      BY <1>7, <2>3 DEF Load
    <3>2. Counts(row, row)
      BY <1>0, <2>3 DEF Counts, Quota
    <3> QED BY <1>5, <2>1, <3>1, <3>2
  <2>4. CASE row = NoRow
    <3>1. row' = FreshRow /\ cache' = NoRow
      BY <1>7, <2>1, <2>4 DEF Load, LedgerInv, RowFound
    <3>2. row'.storage = 0 /\ row'.files = 0 /\ row'.daily = 0 /\ row' # NoRow
      <4>1. FreshRow \in Quota
        BY MaxDayAssumption DEF TypeOK, FreshRow, Quota
      <4> QED BY <3>1, <4>1, NoRowAssumption DEF FreshRow
    <3>3. Counts(row', row')
      BY <3>2 DEF Counts
    <3>4. WithinLimits'
      BY <3>2, LimitsAssumption DEF WithinLimits
    <3> QED BY <1>4, <2>1, <3>1, <3>3, <3>4
  <2> QED BY <2>3, <2>4
<1>8. CASE Fill(u)
  <2>1. /\ row' = row /\ cache' = snap[u] /\ snap' = snap
        /\ pc'[u] \in {"decide", "acquire", "done"}
    BY <1>0, <1>8 DEF Fill, Proceed, To, Background
  <2>2. Counts(snap[u], row)
    BY <1>8 DEF Fill, Serial, SnapCounts
  <2>3. WithinLimits'
    BY <2>1 DEF Serial, WithinLimits
  <2> QED BY <1>4, <2>1, <2>2, <2>3
<1>9. CASE Decide(u)
  <2>1. /\ UNCHANGED <<row, cache>> /\ pc[u] = "decide"
        /\ pc'[u] = IF Allowed(snap[u], size[u]) THEN "transfer" ELSE "rejected"
    BY <1>0, <1>9 DEF Decide, To
  <2>2. Counts(snap[u], row)
    BY <2>1 DEF Serial, SnapCounts
  <2>3. Allowed(snap[u], size[u]) => Allowed(row, size[u])
    <3>1. snap[u] \in Quota /\ row \in Quota
      BY <1>0, <2>2 DEF Counts
    <3>2. /\ snap[u].storage \in Nat /\ snap[u].files \in Nat /\ snap[u].daily \in Nat
          /\ row.storage \in Nat /\ row.files \in Nat /\ row.daily \in Nat
          /\ size[u] \in Nat
      BY <1>0, <3>1 DEF Quota
    <3> QED BY <2>2, <3>2, LimitsAssumption DEF Counts, Allowed
  <2>4. row # NoRow
    BY <2>2 DEF Counts
  <2> QED BY <1>5, <2>1, <2>3, <2>4
<1>10. CASE Transfer(u)
  <2>1. /\ UNCHANGED <<row, cache>> /\ pc[u] = "transfer"
        /\ pc'[u] \in {"record", "uncharged"}
    BY <1>0, <1>10 DEF Transfer, To
  <2>2. row # NoRow /\ Allowed(row, size[u])
    BY <2>1 DEF Serial, RoomLeft
  <2> QED BY <1>5, <2>1, <2>2
<1>11. CASE Record(u)
  <2>1. pc'[u] = "invalidate" /\ pc[u] = "record" /\ AddToRow(u)
    BY <1>0, <1>11 DEF Record, To, Charge
  <2>2. row # NoRow /\ Allowed(row, size[u])
    BY <2>1 DEF Serial, RoomLeft
  <2>3. /\ row'.storage = row.storage + size[u] /\ row'.files = row.files + 1
        /\ row'.daily = row.daily + 1
    BY <1>0, <2>1, <2>2 DEF AddToRow, Quota
  <2>4. row.files \in Nat /\ row.daily \in Nat
    BY <1>0, <2>2 DEF Quota
  <2>5. WithinLimits'
    BY <2>2, <2>3, <2>4, LimitsAssumption DEF WithinLimits, Allowed
  <2> QED BY <1>4, <2>1, <2>5
<1>12. CASE Recorded(u)
  <2>1. cache' = NoRow /\ row' = row /\ pc'[u] = "alertGet"
    BY <1>0, <1>12 DEF Recorded, Invalidate, To
  <2>2. WithinLimits'
    BY <2>1 DEF Serial, WithinLimits
  <2> QED BY <1>4, <2>1, <2>2
<1>13. CASE Acquire(u) \/ Publish(u)
  <2>1. /\ UNCHANGED <<row, cache>> /\ pc[u] \in {"acquire", "publish"}
        /\ pc'[u] \in {"acquire", "publish", "done"}
    BY <1>0, <1>13 DEF Acquire, Publish, TakeCooldown, LeaveThreshold, To
  <2> QED BY <1>5, <2>1
<1> QED BY <1>6, <1>7, <1>8, <1>9, <1>10, <1>11, <1>12, <1>13 DEF UploadStep

\* While uploads do not overlap and no call fails between two others, every step
\* keeps what one upload at a time relies on.
LEMMA SerialStep ==
  ASSUME "commit" \notin Faults, "redis" \notin Faults, "crash" \notin Faults,
         TypeOK, TypeOK', LedgerInv, SerialInv, [Next]_vars
  PROVE  SerialInv'
<1> SUFFICES ASSUME overlapped' = FALSE PROVE Serial'
  BY DEF SerialInv, TypeOK
<1>0. /\ pc \in [Uploads -> PC] /\ snap \in [Uploads -> Quota \cup {NoRow}]
      /\ row \in Quota \cup {NoRow} /\ cache \in Quota \cup {NoRow}
      /\ \A v \in Uploads : size[v] \in Nat
  BY SizesAssumption DEF TypeOK
<1>1. ASSUME NEW u \in Uploads, Start(u) PROVE Serial'
  <2>1. Busy = {} /\ overlapped = FALSE
    BY <1>1 DEF Start, TypeOK
  <2>2. Serial
    BY <2>1 DEF SerialInv
  <2>3. /\ UNCHANGED <<row, cache, snap, size>> /\ pc' = [pc EXCEPT ![u] = "checkGet"]
    BY <1>1 DEF Start, To
  <2>4. \A v \in Uploads : pc[v] \in Ended \cup {"idle"}
    BY <2>1 DEF Busy
  <2>5. \A v \in Uploads : v # u => pc'[v] = pc[v] /\ pc[v] \in Ended \cup {"idle"}
    BY <1>0, <2>3, <2>4
  <2>6. pc'[u] = "checkGet" /\ \A v \in Uploads : pc[v] # "invalidate"
    BY <1>0, <2>3, <2>4 DEF Ended
  <2>7. OneBusy'
    BY <2>5 DEF OneBusy, Busy
  <2>8. CacheCounts' /\ WithinLimits'
    BY <2>2, <2>3, <2>6 DEF Serial, CacheCounts, WithinLimits
  <2>9. SnapCounts' /\ RoomLeft'
    BY <2>5, <2>6 DEF SnapCounts, RoomLeft, Ended
  <2> QED BY <2>7, <2>8, <2>9 DEF Serial
<1>2. ASSUME NEW u \in Uploads, UploadStep(u) PROVE Serial'
  <2>1. overlapped' = overlapped
    BY <1>2 DEF UploadStep, Get, Load, Fill, Decide, Transfer, Record, Recorded,
                Acquire, Publish, history
  <2> QED BY <1>2, <2>1, SerialUpload DEF SerialInv
<1>3. ASSUME NEW u \in Uploads, UploadFails(u) PROVE Serial'
  <2>1. /\ UNCHANGED <<row, cache, snap, size, overlapped>>
        /\ pc' = [pc EXCEPT ![u] = "failed"]
        /\ pc[u] \in {"checkLoad", "alertLoad", "record"}
    BY <1>3 DEF UploadFails, To
  <2>2. Serial
    BY <2>1 DEF SerialInv
  <2>3. /\ pc'[u] = "failed" /\ \A v \in Uploads : v # u => pc'[v] = pc[v]
        /\ \A v \in Uploads : pc[v] = "invalidate" => pc'[v] = "invalidate"
    BY <1>0, <2>1
  <2>4. OneBusy'
    BY <2>2, <2>3 DEF Serial, OneBusy, Busy, Ended
  <2>5. CacheCounts' /\ WithinLimits'
    BY <2>1, <2>2, <2>3 DEF Serial, CacheCounts, WithinLimits
  <2>6. SnapCounts' /\ RoomLeft'
    BY <2>1, <2>2, <2>3 DEF Serial, SnapCounts, RoomLeft
  <2> QED BY <2>4, <2>5, <2>6 DEF Serial
<1>4. ASSUME UNCHANGED <<uploadVars, overlapped>>, RowFalls,
             cache' = cache \/ cache' = NoRow
      PROVE  Serial'
  <2>1. Serial
    BY <1>4 DEF SerialInv
  <2> QED BY <1>4, <2>1, SerialOthers
<1>5. ASSUME NEW d \in Deletes, Release(d) \/ Released(d) \/ DeleteFails(d)
      PROVE  Serial'
  <2>1. /\ UNCHANGED <<uploadVars, overlapped>>
        /\ cache' = cache \/ cache' = NoRow
        /\ \/ row' = row
           \/ target[d] \in saved /\ SubFromRow(size[target[d]])
    BY <1>5 DEF Release, Released, DeleteFails, Invalidate, history
  <2>2. RowFalls
    <3>1. CASE target[d] \in saved /\ SubFromRow(size[target[d]])
      <4>1. row # NoRow /\ size[target[d]] \in Nat
        BY <1>0, <3>1 DEF LedgerInv, RowFound, TypeOK
      <4> QED BY <3>1, <4>1, DeletesLower DEF RowFalls
    <3> QED BY <2>1, <3>1 DEF RowFalls
  <2> QED BY <1>4, <2>1, <2>2
<1>6. ASSUME NEW r \in Replicas, CronStep(r) \/ ResetMissed(r) PROVE Serial'
  <2>1. /\ UNCHANGED <<uploadVars, overlapped>>
        /\ cache' = cache \/ cache' = NoRow
        /\ row' = row \/ (row # NoRow /\ ResetIfStale)
    BY <1>6 DEF CronStep, Reset, ResetInvalidate, ResetMissed, Invalidate, history
  <2>2. RowFalls
    BY <2>1, ResetsLower DEF RowFalls
  <2> QED BY <1>4, <2>1, <2>2
<1>7. CASE NewDay \/ CacheExpires \/ UNCHANGED vars \/ \E t \in Thresholds : CooldownExpires(t)
  <2>1. /\ UNCHANGED <<uploadVars, overlapped, row>>
        /\ cache' = cache \/ cache' = NoRow
    BY <1>7 DEF NewDay, CacheExpires, CooldownExpires, vars, history
  <2> QED BY <1>4, <2>1 DEF RowFalls
<1> QED BY <1>1, <1>2, <1>3, <1>5, <1>6, <1>7 DEF Next

\* Nothing is read or charged yet.
LEMMA SerialInit == Init => SerialInv
<1> SUFFICES ASSUME Init PROVE Serial
  BY DEF SerialInv
<1>1. \A u \in Uploads : pc[u] = "idle"
  BY DEF Init
<1>2. OneBusy
  BY <1>1 DEF OneBusy, Busy
<1>3. SnapCounts /\ RoomLeft
  BY <1>1 DEF SnapCounts, RoomLeft
<1>4. CacheCounts /\ WithinLimits
  BY DEF Init, CacheCounts, WithinLimits
<1> QED BY <1>2, <1>3, <1>4 DEF Serial

\* Uploads one at a time keep to the three limits, whatever deletes, resets and
\* expiries do and whichever transaction is refused, as long as every commit is
\* heard of, Redis answers and no process dies.
THEOREM SerialUploadsStayWithin ==
  ASSUME "commit" \notin Faults, "redis" \notin Faults, "crash" \notin Faults
  PROVE  Spec => []SerialWithinLimits
<1>1. TypeOK /\ TypeOK' /\ LedgerInv /\ SerialInv /\ [Next]_vars => SerialInv'
  BY SerialStep
<1>2. SerialInv => SerialWithinLimits
  BY DEF SerialInv, Serial, SerialWithinLimits
<1> QED BY <1>1, <1>2, SerialInit, TypeCorrect, LedgerInvariant, PTL DEF Spec

\* Division by a positive number is monotone.
LEMMA DivGrows ==
  ASSUME NEW m \in Nat, NEW n \in Nat, m <= n, NEW d \in Nat \ {0}
  PROVE  m \div d \in Nat /\ n \div d \in Nat /\ m \div d <= n \div d
<1>1. m \div d \in Int /\ n \div d \in Int
  BY SMT
<1>2. m \div d >= 0 /\ n \div d >= 0
  BY SMT
<1>3. d * (m \div d) <= m /\ n <= d * (n \div d) + d - 1
  <2>1. d * (m \div d) <= m
    BY SMT
  <2>2. n <= d * (n \div d) + d - 1
    BY Z3
  <2> QED BY <2>1, <2>2
<1> DEFINE a == m \div d
         b == n \div d
<1>4. a \in Nat /\ b \in Nat /\ d * a <= d * b + d - 1
  <2>1. d * a \in Int /\ d * b \in Int
    BY <1>1
  <2> QED BY <1>1, <1>2, <1>3, <2>1
<1> HIDE DEF a, b
<1>5. ASSUME ~(a <= b) PROVE FALSE
  <2>1. PICK e \in Nat : a = b + 1 + e
    <3>1. a - b - 1 \in Nat /\ a = b + 1 + (a - b - 1)
      BY <1>4, <1>5
    <3> QED BY <3>1
  <2>2. d * a = d * b + d + d * e
    BY <1>4, <2>1, Z3
  <2>3. d * e \in Nat /\ d * b \in Nat
    BY <1>4, <2>1
  <2> QED BY <1>4, <2>2, <2>3
<1>6. a \in Nat /\ b \in Nat /\ a <= b
  BY <1>4, <1>5
<1> QED BY <1>6 DEF a, b

\* A quota that counts at least what another does has crossed what it has.
LEMMA CrossedGrows ==
  ASSUME NEW q \in Quota, NEW r \in Quota, Counts(q, r)
  PROVE  Crossed(r) \subseteq Crossed(q)
<1>1. /\ q.storage \in Nat /\ r.storage \in Nat /\ r.storage <= q.storage
      /\ StorageLimit \in Nat \ {0}
  BY LimitsAssumption DEF Quota, Counts
<1>2. Percent(r) <= Percent(q) /\ Percent(r) \in Nat /\ Percent(q) \in Nat
  <2>1. /\ r.storage * 100 \in Nat /\ q.storage * 100 \in Nat
        /\ r.storage * 100 <= q.storage * 100
    BY <1>1
  <2> QED BY <1>1, <2>1, DivGrows DEF Percent
<1>3. \A t \in Thresholds : t \in Nat
  BY ThresholdsAssumption
<1> QED BY <1>2, <1>3 DEF Crossed

\* An alert check that overlaps no other upload tries every threshold the row is
\* past, under the same assumptions: it read nothing older than its own charge.
THEOREM SerialAlertsMissNothing ==
  ASSUME "commit" \notin Faults, "redis" \notin Faults, "crash" \notin Faults
  PROVE  Spec => SerialAlertsMissNone
<1>1. TypeOK /\ LedgerInv /\ SerialInv /\ [Next]_vars
        => [\A u \in Uploads :
              ~overlapped /\ AlertDecides(u) => Crossed(row) \subseteq todo'[u]]_vars
  <2> SUFFICES ASSUME TypeOK, LedgerInv, SerialInv, [Next]_vars, NEW u \in Uploads,
                      ~overlapped, AlertDecides(u)
               PROVE  Crossed(row) \subseteq todo'[u]
    OBVIOUS
  <2>0. /\ pc \in [Uploads -> PC] /\ todo \in [Uploads -> SUBSET Thresholds]
        /\ row \in Quota \cup {NoRow} /\ cache \in Quota \cup {NoRow}
        /\ snap \in [Uploads -> Quota \cup {NoRow}]
    BY DEF TypeOK
  <2>1. Serial
    BY DEF SerialInv
  <2>2. Get(u) \/ Fill(u)
    BY <2>0 DEF AlertDecides, Next, Start, UploadStep, Get, Load, Fill, Decide, Transfer,
         Record, Recorded, Acquire, Publish, UploadFails, Release, Released,
         DeleteFails, CronStep, Reset, ResetInvalidate, ResetMissed, NewDay,
         CacheExpires, CooldownExpires, Proceed, To, TakeCooldown, LeaveThreshold,
         uploadVars, vars
  <2>3. PICK q \in Quota \cup {NoRow} : Counts(q, row) /\ todo'[u] = Crossed(q)
    <3>1. CASE Get(u)
      <4>1. cache # NoRow /\ todo'[u] = Crossed(cache)
        <5>1. pc[u] = "alertGet" /\ pc'[u] # "alertLoad"
          BY <3>1 DEF AlertDecides, Get
        <5>2. CASE cache # NoRow /\ Proceed(u, cache)
          BY <2>0, <5>1, <5>2 DEF Proceed, Background
        <5>3. CASE To(u, IF pc[u] = "checkGet" THEN "checkLoad" ELSE "alertLoad")
          BY <2>0, <5>1, <5>3 DEF To
        <5> QED BY <3>1, <5>2, <5>3 DEF Get
      <4>2. Counts(cache, row)
        BY <2>1, <3>1, <4>1, LoneHit DEF Get
      <4> QED BY <2>0, <4>1, <4>2
    <3>2. CASE Fill(u)
      <4>1. pc[u] = "alertFill" /\ todo'[u] = Crossed(snap[u])
        BY <2>0, <3>2 DEF AlertDecides, Fill, Proceed, To, Background
      <4>2. Counts(snap[u], row)
        BY <2>1, <4>1 DEF Serial, SnapCounts
      <4> QED BY <2>0, <4>1, <4>2
    <3> QED BY <2>2, <3>1, <3>2
  <2>4. q \in Quota /\ row \in Quota
    BY <2>0, <2>3 DEF Counts
  <2> QED BY <2>3, <2>4, CrossedGrows
<1>2. TypeOK /\ TypeOK' /\ LedgerInv /\ SerialInv /\ [Next]_vars => SerialInv'
  BY SerialStep
<1> QED BY <1>1, <1>2, SerialInit, TypeCorrect, LedgerInvariant, PTL
       DEF Spec, SerialAlertsMissNone

-----------------------------------------------------------------------------
(* The account.  The row implements what MediaPipeline counts on, with the   *)
(* check, the cache, the alerts, the reset and the calendar at work.         *)

\* An upload comes to recordUpload with its media saved.
RecordsSaved == \A u \in Uploads : pc[u] = "record" => u \in saved

Files == IF row = NoRow THEN 0 ELSE row.files
ReleasesOf(m) == {d \in released : target[d] = m}
ReleaseCounts == [m \in Uploads |-> Cardinality(ReleasesOf(m))]

\* Only a save leads to recordUpload, and no media is taken from the saved.
LEMMA RecordsSavedStep ==
  TypeOK /\ RecordsSaved /\ [Next]_vars => RecordsSaved'
<1> SUFFICES ASSUME TypeOK, RecordsSaved, [Next]_vars PROVE RecordsSaved'
  OBVIOUS
<1> USE DEF TypeOK, To, RecordsSaved, uploadVars, deleteVars, cronVars, alertVars, history
<1>1. ASSUME NEW u \in Uploads, Start(u) PROVE RecordsSaved'
  BY <1>1 DEF Start
<1>2. ASSUME NEW u \in Uploads, UploadStep(u) PROVE RecordsSaved'
  <2>1. CASE Transfer(u)
    BY <2>1 DEF Transfer
  <2>2. ASSUME UNCHANGED saved,
               \E q : q # "record" /\ pc' = [pc EXCEPT ![u] = q]
        PROVE  RecordsSaved'
    BY <2>2
  <2>3. CASE Get(u) \/ Fill(u)
    BY <2>2, <2>3 DEF Get, Fill, Proceed
  <2>4. CASE Load(u) \/ Decide(u) \/ Record(u) \/ Recorded(u)
    BY <2>2, <2>4 DEF Load, Decide, Record, Recorded
  <2>5. CASE Acquire(u) \/ Publish(u)
    BY <2>2, <2>5 DEF Acquire, Publish, TakeCooldown, LeaveThreshold
  <2> QED BY <1>2, <2>1, <2>3, <2>4, <2>5 DEF UploadStep
<1>3. ASSUME NEW u \in Uploads, UploadFails(u) PROVE RecordsSaved'
  BY <1>3 DEF UploadFails
<1>4. ASSUME UNCHANGED <<pc, saved>> PROVE RecordsSaved'
  BY <1>4
<1>5. ASSUME NEW d \in Deletes, Release(d) \/ Released(d) \/ DeleteFails(d)
      PROVE  RecordsSaved'
  BY <1>4, <1>5 DEF Release, Released, DeleteFails
<1>6. ASSUME NEW r \in Replicas, CronStep(r) \/ ResetMissed(r) PROVE RecordsSaved'
  BY <1>4, <1>6 DEF CronStep, Reset, ResetInvalidate, ResetMissed
<1>7. CASE NewDay \/ CacheExpires \/ \E t \in Thresholds : CooldownExpires(t)
  BY <1>4, <1>7 DEF NewDay, CacheExpires, CooldownExpires
<1>8. CASE UNCHANGED vars BY <1>4, <1>8 DEF vars
<1> QED BY <1>1, <1>2, <1>3, <1>5, <1>6, <1>7, <1>8 DEF Next

\* What the account is read from: a step that keeps it all is a stutter.
LEMMA AccountStutters ==
  ASSUME Files' = Files, UNCHANGED <<saved, released, target>>, Charged' = Charged
  PROVE  UNCHANGED Account!vars
BY DEF Account!vars, Files

\* A charge is the account's Count: the row was found, the media saved, and the
\* upload not charged yet.
LEMMA ChargeIsAccounted ==
  ASSUME TypeOK, LedgerInv, RecordsSaved, NEW u \in Uploads, pc[u] = "record",
         Charge(u), UNCHANGED <<saved, released, target>>
  PROVE  Account!Count(u)
<1>1. row # NoRow /\ row \in Quota /\ u \notin Charged /\ u \in saved
  BY DEF LedgerInv, RowFound, ChargedOnce, TypeOK, RecordsSaved
<1>2. row' \in Quota /\ row'.files = row.files + 1
  <2>1. row' \in Quota
    BY <1>1, RowUpdates DEF Charge
  <2>2. row'.files = row.files + 1
    BY <1>1 DEF Charge, AddToRow, Quota
  <2> QED BY <2>1, <2>2
<1>3. row' # NoRow
  BY <1>2, NoRowAssumption
<1>4. Charged' = Charged \cup {u}
  BY <1>1, MaxDayAssumption DEF Charge, Charged, TypeOK, Quota, NotCharged
<1> QED BY <1>1, <1>2, <1>3, <1>4 DEF Account!Count

\* A delete takes one file off the row, not below none, and is one more release
\* of its media.
LEMMA ReleaseIsAccounted ==
  ASSUME TypeOK, LedgerInv, NEW d \in Deletes, dpc[d] = "idle", target[d] \in saved,
         SubFromRow(size[target[d]]), released' = released \cup {d},
         UNCHANGED <<saved, charged, target>>
  PROVE  Account!Release(target[d])
<1>1. row # NoRow /\ row \in Quota /\ d \notin released /\ target[d] \in Uploads
  BY DEF LedgerInv, RowFound, ChargedOnce, TypeOK
<1>2. row' \in Quota
  BY <1>1, RowUpdates
<1>3. row' # NoRow
  BY <1>2, NoRowAssumption
<1>4. row'.files = IF row.files > 0 THEN row.files - 1 ELSE 0
  <2>1. row'.files = Less(row.files, 1) /\ row.files \in Nat
    BY <1>1 DEF SubFromRow, Quota
  <2> QED BY <2>1 DEF Less
<1>5. ReleaseCounts' = [ReleaseCounts EXCEPT ![target[d]] = @ + 1]
  <2>1. \A m \in Uploads \ {target[d]} : ReleasesOf(m)' = ReleasesOf(m)
    BY DEF ReleasesOf
  <2>2. ReleasesOf(target[d])' = ReleasesOf(target[d]) \cup {d}
    BY DEF ReleasesOf
  <2>3. IsFiniteSet(ReleasesOf(target[d])) /\ d \notin ReleasesOf(target[d])
    BY <1>1, CountsAreFinite, FS_Subset DEF ReleasesOf
  <2>4. Cardinality(ReleasesOf(target[d])') = Cardinality(ReleasesOf(target[d])) + 1
    BY <2>2, <2>3, FS_AddElement
  <2>5. \A m \in Uploads : ReleaseCounts[m] = Cardinality(ReleasesOf(m))
                            /\ ReleaseCounts'[m] = Cardinality(ReleasesOf(m)')
    BY DEF ReleaseCounts
  <2> QED BY <1>1, <2>1, <2>4, <2>5 DEF ReleaseCounts
<1>6. Charged' = Charged
  BY DEF Charged
<1> QED BY <1>1, <1>3, <1>4, <1>5, <1>6 DEF Account!Release, ReleaseCounts, ReleasesOf

\* The first row counts no file, and neither the alert checks nor a save move it.
LEMMA UploadIsAccounted ==
  ASSUME TypeOK, LedgerInv, RecordsSaved, NEW u \in Uploads,
         Start(u) \/ UploadStep(u) \/ UploadFails(u)
  PROVE  [Account!Next]_Account!vars
<1> USE DEF uploadVars, deleteVars, cronVars, alertVars, history
<1>1. ASSUME UNCHANGED <<row, charged, saved, released, target>>
      PROVE  UNCHANGED Account!vars
  BY <1>1, AccountStutters DEF Files, Charged
<1>2. CASE Load(u)
  <2>1. Files' = Files
    <3>1. FreshRow \in Quota /\ FreshRow.files = 0
      BY MaxDayAssumption DEF TypeOK, FreshRow, Quota
    <3> QED BY <1>2, <3>1, NoRowAssumption DEF Load, Files
  <2>2. Charged' = Charged
    BY <1>2 DEF Load, Charged
  <2> QED BY <1>2, <2>1, <2>2, AccountStutters DEF Load
<1>3. CASE Transfer(u)
  <2>1. ASSUME saved' = saved \cup {u} PROVE Account!Save(u)
    BY <1>3, <2>1 DEF Transfer, Account!Save, Charged
  <2> QED BY <1>1, <1>3, <2>1 DEF Transfer, Account!Next
<1>4. CASE Record(u)
  BY <1>4, ChargeIsAccounted DEF Record, Account!Next
<1>5. CASE UploadFails(u)
  <2>1. /\ UNCHANGED <<saved, released, target>>
        /\ UNCHANGED <<row, charged>> \/ (pc[u] = "record" /\ Charge(u))
    BY <1>5 DEF UploadFails
  <2> QED BY <1>1, <2>1, ChargeIsAccounted DEF Account!Next
<1>6. CASE Start(u) \/ Get(u) \/ Fill(u) \/ Decide(u) \/ Recorded(u) \/ Acquire(u)
           \/ Publish(u)
  BY <1>1, <1>6 DEF Start, Get, Fill, Decide, Recorded, Acquire, Publish
<1> QED BY <1>2, <1>3, <1>4, <1>5, <1>6 DEF UploadStep

\* A reset moves the daily count and its date only.
LEMMA ResetIsNotAccounted ==
  ASSUME TypeOK, NEW r \in Replicas, Reset(r)
  PROVE  UNCHANGED Account!vars
<1>1. Files' = Files
  <2>1. row \in Quota => /\ [row EXCEPT !.daily = 0, !.date = day] \in Quota
                         /\ [row EXCEPT !.daily = 0, !.date = day].files = row.files
    BY DEF TypeOK, Quota
  <2> QED BY <2>1, NoRowAssumption DEF Reset, ResetIfStale, Files, TypeOK
<1>2. Charged' = Charged /\ UNCHANGED <<saved, released, target>>
  BY DEF Reset, Charged, history, deleteVars
<1> QED BY <1>1, <1>2, AccountStutters

\* However many requests, replicas and failures move it, the row implements the
\* account: its files are those of saved media counted once each, less releases.
THEOREM LedgerImplementsAccount == Spec => ImplementsAccount
<1>1. Init => Account!Init /\ RecordsSaved
  <2> SUFFICES ASSUME Init PROVE Account!Init /\ RecordsSaved
    OBVIOUS
  <2>1. ReleaseCounts = [m \in Uploads |-> 0]
    BY FS_EmptySet DEF Init, ReleaseCounts, ReleasesOf
  <2>2. Charged = {}
    BY DEF Init, Charged
  <2> QED BY <2>1, <2>2 DEF Init, Account!Init, RecordsSaved, ReleaseCounts, ReleasesOf
<1>2. TypeOK /\ LedgerInv /\ RecordsSaved /\ [Next]_vars => [Account!Next]_Account!vars
  <2> SUFFICES ASSUME TypeOK, LedgerInv, RecordsSaved, [Next]_vars
               PROVE  [Account!Next]_Account!vars
    OBVIOUS
  <2> USE DEF uploadVars, deleteVars, cronVars, alertVars, history
  <2>1. ASSUME UNCHANGED <<row, charged, saved, released, target>>
        PROVE  UNCHANGED Account!vars
    BY <2>1, AccountStutters DEF Files, Charged
  <2>2. ASSUME NEW d \in Deletes, Release(d) \/ DeleteFails(d)
        PROVE  [Account!Next]_Account!vars
    <3>1. target[d] \in Uploads
      BY DEF TypeOK
    <3>2. \/ UNCHANGED <<row, charged, saved, released, target>>
          \/ Account!Release(target[d])
      BY <2>2, ReleaseIsAccounted DEF Release, DeleteFails
    <3> QED BY <2>1, <3>1, <3>2 DEF Account!Next
  <2>3. ASSUME NEW d \in Deletes, Released(d) PROVE UNCHANGED Account!vars
    BY <2>1, <2>3 DEF Released
  <2>4. ASSUME NEW r \in Replicas, CronStep(r) \/ ResetMissed(r)
        PROVE  UNCHANGED Account!vars
    BY <2>1, <2>4, ResetIsNotAccounted DEF CronStep, ResetInvalidate, ResetMissed
  <2>5. CASE NewDay \/ CacheExpires \/ \E t \in Thresholds : CooldownExpires(t)
    BY <2>1, <2>5 DEF NewDay, CacheExpires, CooldownExpires
  <2>6. CASE UNCHANGED vars
    BY <2>1, <2>6 DEF vars
  <2> QED BY <2>2, <2>3, <2>4, <2>5, <2>6, UploadIsAccounted DEF Next
<1>3. TypeOK /\ LedgerInv /\ [Next]_vars => (TypeOK /\ LedgerInv)'
  BY TypeStep, LedgerStep DEF LedgerInv
<1> QED BY <1>1, <1>2, <1>3, RecordsSavedStep, LedgerInit, PTL
        DEF Spec, ImplementsAccount, Account!Spec

=============================================================================
