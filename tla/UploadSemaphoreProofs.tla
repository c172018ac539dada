------------------------ MODULE UploadSemaphoreProofs ------------------------
(***************************************************************************)
(* Theorems about UploadSemaphore, for any limit, any TTL, any number of   *)
(* requests in flight and any number of failures.                          *)
(***************************************************************************)
EXTENDS UploadSemaphore, FiniteSetTheorems, TLAPS

\* The counter keeps its type.
THEOREM TypeCorrect == Spec => []TypeOK
<1> USE TTLAssumption, MaxFaultsAssumption DEF TypeOK, PC
<1>1. Init => TypeOK
  <2> SUFFICES ASSUME Init PROVE TypeOK
    OBVIOUS
  <2>1. exists \in BOOLEAN
    BY DEF Init
  <2>2. wiped \in BOOLEAN /\ bare \in BOOLEAN
    BY DEF Init
  <2> QED BY <2>1, <2>2 DEF Init
<1>2. TypeOK /\ [Next]_vars => TypeOK'
  <2> SUFFICES ASSUME TypeOK, [Next]_vars PROVE TypeOK'
    OBVIOUS
  <2> USE DEF To, Add, SetExpiry, Remove, KeyKept, Fault
  <2> DEFINE Bits == exists' \in BOOLEAN /\ wiped' \in BOOLEAN /\ bare' \in BOOLEAN
  <2>a. Remove => Bits
    OBVIOUS
  <2>b. (Add(1) \/ Add(-1)) /\ UNCHANGED bare => Bits
    OBVIOUS
  <2>c. SetExpiry => Bits
    OBVIOUS
  <2>d. UNCHANGED <<exists, wiped, bare>> => Bits
    OBVIOUS
  <2>e. Add(1) /\ ExpiryMissed => Bits
    BY DEF ExpiryMissed
  <2>f. KeyKept /\ (ExpiryMissed \/ UNCHANGED bare) => Bits
    BY DEF ExpiryMissed
  <2> HIDE DEF Bits
  <2>0. Remove => Bits /\ val' \in Int /\ ttl' \in 0..TTL
                  /\ leaked' \in Nat /\ missed' \in Nat
    BY <2>a
  <2> HIDE DEF Remove
  <2>1. ASSUME NEW r \in Requests, Request(r) PROVE TypeOK'
    <3>1. CASE Incr(r)
      <4>1. Bits BY <2>b, <3>1 DEF Incr
      <4> QED BY <3>1, <4>1 DEF Incr, Bits
    <3>2. CASE Expire(r)
      <4>1. Bits BY <2>c, <3>2 DEF Expire
      <4> QED BY <3>2, <4>1 DEF Expire, Bits
    <3>3. CASE RollBack(r)
      <4>1. Bits BY <2>b, <3>3 DEF RollBack
      <4> QED BY <3>3, <4>1 DEF RollBack, Bits
    <3>4. CASE Decr(r)
      <4>1. Bits BY <2>b, <3>4 DEF Decr
      <4> QED BY <3>4, <4>1 DEF Decr, Bits
    <3>5. CASE Del(r) BY <3>5, <2>0 DEF Del, Bits
    <3> QED BY <2>1, <3>1, <3>2, <3>3, <3>4, <3>5 DEF Request
  <2>2. ASSUME NEW r \in Requests, Crash(r) PROVE TypeOK'
    <3>1. Bits BY <2>f, <2>2 DEF Crash
    <3> QED BY <2>2, <3>1 DEF Crash, Bits
  <2>3. ASSUME NEW r \in Requests, CommandFails(r) PROVE TypeOK'
    <3> DEFINE KeyOK == Bits /\ val' \in Int /\ ttl' \in 0..TTL /\ missed' \in Nat
    <3>1. (Add(1) /\ ExpiryMissed) \/ (Add(-1) /\ UNCHANGED bare) => KeyOK
      BY <2>b, <2>e
    <3>2. SetExpiry => KeyOK
      BY <2>c
    <3>3. KeyKept /\ (ExpiryMissed \/ UNCHANGED bare) => KeyOK
      BY <2>f
    <3> HIDE DEF KeyOK, Add, SetExpiry, KeyKept
    <3>4. KeyOK /\ leaked' \in Nat
      BY <2>0, <2>3, <3>1, <3>2, <3>3 DEF CommandFails, KeyOK
    <3>5. pc' \in [Requests -> PC] /\ got' \in [Requests -> Int]
            /\ faults' \in 0..MaxFaults
      BY <2>3 DEF CommandFails
    <3> QED BY <3>4, <3>5 DEF KeyOK, Bits
  <2>4. CASE Tick
    <3>1. \/ ttl = 1 /\ Remove
          \/ ttl' \in 0..TTL /\ missed' \in Nat
             /\ UNCHANGED <<exists, val, leaked, wiped, bare>>
      <4> DEFINE left == IF ttl > 1 THEN ttl - 1 ELSE 0
      <4>1. Refreshed(left) => ttl' \in 0..TTL /\ missed' \in Nat
        <5>1. left \in 0..TTL
          OBVIOUS
        <5> QED BY <5>1 DEF Refreshed
      <4>2. \/ ttl = 1 /\ Remove
            \/ Refreshed(left) /\ UNCHANGED <<exists, val, leaked, wiped, bare>>
        BY <2>4 DEF Tick
      <4> QED BY <4>1, <4>2
    <3>2. UNCHANGED <<pc, got, faults>>
      BY <2>4 DEF Tick
    <3>3. CASE Remove
      BY <2>0, <3>2, <3>3 DEF Bits
    <3>4. CASE /\ ttl' \in 0..TTL /\ missed' \in Nat
               /\ UNCHANGED <<exists, val, leaked, wiped, bare>>
      <4>1. Bits BY <2>d, <3>4
      <4> QED BY <3>2, <3>4, <4>1 DEF Bits
    <3> QED BY <3>1, <3>3, <3>4
  <2>5. CASE UNCHANGED vars
    <3>1. Bits BY <2>d, <2>5 DEF vars, keyVars
    <3> QED BY <2>5, <3>1 DEF vars, keyVars, Bits
  <2> QED BY <2>1, <2>2, <2>3, <2>4, <2>5 DEF Next
<1> QED BY <1>1, <1>2, PTL DEF Spec

-----------------------------------------------------------------------------
(* How the requests holding a slot change when one of them moves.          *)

HoldingPC == {"expire", "rollback", "running"}

\* The requests that hold a slot can be counted.
LEMMA HoldingFinite ==
  IsFiniteSet(Holding) /\ Cardinality(Holding) \in Nat
BY RequestsAssumption, FS_Subset, FS_CardinalityType DEF Holding

\* A request takes a slot.
LEMMA HoldingGains ==
  ASSUME TypeOK, NEW r \in Requests, NEW s \in HoldingPC, To(r, s),
         r \notin Holding
  PROVE  Cardinality(Holding') = Cardinality(Holding) + 1
<1>1. Holding' = Holding \cup {r}
  BY DEF TypeOK, To, Holding, HoldingPC
<1> QED BY <1>1, HoldingFinite, FS_AddElement

\* It keeps the slot it has.
LEMMA HoldingKept ==
  ASSUME TypeOK, NEW r \in Requests, NEW s \in PC, To(r, s),
         r \in Holding <=> s \in HoldingPC
  PROVE  Holding' = Holding
BY DEF TypeOK, To, Holding, HoldingPC, PC

\* It gives its slot back.
LEMMA HoldingLoses ==
  ASSUME TypeOK, NEW r \in Requests, NEW s \in PC \ HoldingPC, To(r, s),
         r \in Holding
  PROVE  Cardinality(Holding') = Cardinality(Holding) - 1
<1>1. Holding' = Holding \ {r}
  BY DEF TypeOK, To, Holding, HoldingPC
<1> QED BY <1>1, HoldingFinite, FS_RemoveElement

-----------------------------------------------------------------------------
\* Every command that adds to the counter has a request, or a failure, to answer
\* for it; the commands that clear it can only take the counter below.
LEMMA NoPhantomStep ==
  TypeOK /\ NoPhantomSlots /\ [Next]_vars => NoPhantomSlots'
<1> SUFFICES ASSUME TypeOK, NoPhantomSlots, [Next]_vars
             PROVE  val' <= Cardinality(Holding') + leaked'
  BY DEF NoPhantomSlots
<1>0. /\ val <= Cardinality(Holding) + leaked
      /\ Cardinality(Holding) \in Nat /\ Cardinality(Holding') \in Nat
      /\ val \in Int /\ leaked \in Nat
  <2>1. IsFiniteSet(Holding') /\ Cardinality(Holding') \in Nat
    BY RequestsAssumption, FS_Subset, FS_CardinalityType DEF Holding
  <2> QED BY <2>1, HoldingFinite DEF NoPhantomSlots, TypeOK
<1>1. ASSUME NEW r \in Requests, Incr(r)
      PROVE  val' <= Cardinality(Holding') + leaked'
  <2>1. Cardinality(Holding') = Cardinality(Holding) + 1
    BY <1>1, HoldingGains DEF Incr, Holding, HoldingPC
  <2> QED BY <1>0, <1>1, <2>1 DEF Incr, Add
<1>2. ASSUME NEW r \in Requests, Expire(r)
      PROVE  val' <= Cardinality(Holding') + leaked'
  <2>1. Holding' = Holding
    BY <1>2, HoldingKept DEF Expire, Holding, HoldingPC, PC
  <2> QED BY <1>0, <1>2, <2>1 DEF Expire, SetExpiry
<1>3. ASSUME NEW r \in Requests, RollBack(r)
      PROVE  val' <= Cardinality(Holding') + leaked'
  <2>1. Cardinality(Holding') = Cardinality(Holding) - 1
    BY <1>3, HoldingLoses DEF RollBack, Holding, HoldingPC, PC
  <2> QED BY <1>0, <1>3, <2>1 DEF RollBack, Add
<1>4. ASSUME NEW r \in Requests, Decr(r)
      PROVE  val' <= Cardinality(Holding') + leaked'
  <2>1. Cardinality(Holding') = Cardinality(Holding) - 1
    BY <1>4, HoldingLoses DEF Decr, Holding, HoldingPC, PC
  <2> QED BY <1>0, <1>4, <2>1 DEF Decr, Add
<1>5. ASSUME NEW r \in Requests, Del(r)
      PROVE  val' <= Cardinality(Holding') + leaked'
  BY <1>0, <1>5 DEF Del, Remove
<1>6. ASSUME NEW r \in Requests, Crash(r)
      PROVE  val' <= Cardinality(Holding') + leaked'
  <2>1. CASE r \in Holding
    <3>1. Cardinality(Holding') = Cardinality(Holding) - 1
      BY <1>6, <2>1, HoldingLoses DEF Crash, HoldingPC, PC
    <3> QED BY <1>0, <1>6, <2>1, <3>1 DEF Crash, KeyKept
  <2>2. CASE r \notin Holding
    <3>1. Holding' = Holding
      BY <1>6, <2>2, HoldingKept DEF Crash, HoldingPC, PC
    <3> QED BY <1>0, <1>6, <2>2, <3>1 DEF Crash, KeyKept
  <2> QED BY <2>1, <2>2
<1>7. ASSUME NEW r \in Requests, CommandFails(r)
      PROVE  val' <= Cardinality(Holding') + leaked'
  <2>1. CASE pc[r] = "idle"
    <3>1. Holding' = Holding
      BY <1>7, <2>1, HoldingKept DEF CommandFails, Holding, HoldingPC, PC
    <3> QED BY <1>0, <1>7, <2>1, <3>1 DEF CommandFails, Add
  <2>2. CASE pc[r] \in HoldingPC
    <3>1. Cardinality(Holding') = Cardinality(Holding) - 1
      BY <1>7, <2>2, HoldingLoses DEF CommandFails, Holding, HoldingPC, PC
    <3> QED BY <1>0, <1>7, <2>2, <3>1
            DEF CommandFails, Add, KeyKept, SetExpiry, HoldingPC
  <2>3. CASE pc[r] = "del"
    <3>1. Holding' = Holding
      BY <1>7, <2>3, HoldingKept DEF CommandFails, Holding, HoldingPC, PC
    <3> QED BY <1>0, <1>7, <2>3, <3>1 DEF CommandFails, KeyKept, Remove
  <2> QED BY <2>1, <2>2, <2>3, <1>7 DEF TypeOK, PC, HoldingPC
<1>8. CASE Tick
  <2>1. Holding' = Holding
    BY <1>8 DEF Tick, Holding
  <2>2. \/ val' = 0 /\ leaked' = 0
        \/ val' = val /\ leaked' = leaked
    BY <1>8, Zenon DEF Tick, Remove
  <2> QED BY <1>0, <2>1, <2>2
<1>9. CASE UNCHANGED vars
  <2>1. Holding' = Holding
    BY <1>9 DEF vars, Holding
  <2> QED BY <1>0, <1>9, <2>1 DEF vars, keyVars
<1> QED BY <1>1, <1>2, <1>3, <1>4, <1>5, <1>6, <1>7, <1>8, <1>9
        DEF Next, Request

\* However requests, expiries, crashes and Redis failures interleave, the counter
\* never exceeds the uploads that hold a slot and the slots failures leaked.
THEOREM NeverPhantomSlots == Spec => []NoPhantomSlots
<1>1. Init => NoPhantomSlots
  <2> SUFFICES ASSUME Init PROVE NoPhantomSlots
    OBVIOUS
  <2>1. Holding = {}
    BY DEF Init, Holding
  <2> QED BY <2>1, FS_EmptySet DEF Init, NoPhantomSlots
<1> QED BY <1>1, NoPhantomStep, TypeCorrect, PTL DEF Spec

-----------------------------------------------------------------------------
(* The limit.  Until the key is taken away from under them, the counter is *)
(* at least the requests holding slots, and so is what INCR returned to    *)
(* the last of those that are in or will be let in.                        *)

LimitInv ==
  ~wiped => Cardinality(Holding) <= val /\ Cardinality(Accepted) <= MaxUploads

\* Who is let in holds a slot, and there are finitely many of either.
LEMMA AcceptedHold ==
  /\ Accepted \subseteq Holding /\ IsFiniteSet(Holding)
  /\ Cardinality(Accepted) \in Nat /\ Cardinality(Holding) \in Nat
  /\ Cardinality(Accepted) <= Cardinality(Holding)
<1>1. Accepted \subseteq Holding
  BY DEF Accepted, Holding
<1> QED BY <1>1, HoldingFinite, FS_Subset, FS_CardinalityType

\* The same after a step.
LEMMA AcceptedHoldNext ==
  /\ Accepted' \subseteq Holding' /\ IsFiniteSet(Holding')
  /\ Cardinality(Accepted') \in Nat /\ Cardinality(Holding') \in Nat
  /\ Cardinality(Accepted') <= Cardinality(Holding')
<1>1. Accepted' \subseteq Holding' /\ Holding' \subseteq Requests
  BY DEF Accepted, Holding
<1>2. IsFiniteSet(Holding') /\ IsFiniteSet(Accepted')
  BY <1>1, RequestsAssumption, FS_Subset
<1> QED BY <1>1, <1>2, FS_Subset, FS_CardinalityType

\* Fewer requests let in are not more.
LEMMA FewerAccepted ==
  ASSUME Accepted' \subseteq Accepted
  PROVE  Cardinality(Accepted') <= Cardinality(Accepted)
BY AcceptedHold, FS_Subset

\* A removed key leaves no request behind that counts, or is marked as wiped.
LEMMA RemovedLimit ==
  ASSUME TypeOK, Remove, Holding' = Holding
  PROVE  LimitInv'
<1>1. CASE Holding = {}
  <2>1. Holding' = {} /\ Accepted' = {}
    BY <1>1, AcceptedHoldNext
  <2> QED BY <2>1, FS_EmptySet, MaxUploadsAssumption DEF Remove, LimitInv
<1>2. CASE Holding # {}
  BY <1>2 DEF Remove, LimitInv
<1> QED BY <1>1, <1>2

\* A request that gives up its slot takes at most its own increment with it.
LEMMA LosesLimit ==
  ASSUME TypeOK, LimitInv, NEW r \in Requests, r \in Holding, NEW s \in {"idle", "del"},
         To(r, s), val' \in {val, val - 1}, UNCHANGED wiped,
         \A q \in Requests \ {r} : got'[q] = got[q]
  PROVE  LimitInv'
<1>1. Cardinality(Holding') = Cardinality(Holding) - 1
  BY HoldingLoses DEF PC, HoldingPC
<1>2. Accepted' \subseteq Accepted
  BY DEF Accepted, To, TypeOK
<1>3. Cardinality(Accepted') <= Cardinality(Accepted)
  BY <1>2, FewerAccepted
<1> QED BY <1>1, <1>3, AcceptedHold, AcceptedHoldNext, MaxUploadsAssumption DEF LimitInv, TypeOK

\* Requests that stay where they are, a counter that is not less: nothing is exceeded.
LEMMA KeptLimit ==
  ASSUME TypeOK, LimitInv, Holding' = Holding, Accepted' \subseteq Accepted,
         val' \in {val, val + 1}, UNCHANGED wiped
  PROVE  LimitInv'
<1>1. Cardinality(Accepted') <= Cardinality(Accepted)
  BY FewerAccepted
<1> QED BY <1>1, AcceptedHold, AcceptedHoldNext, MaxUploadsAssumption DEF LimitInv, TypeOK

\* Every command, failure and expiry keeps the limit.
LEMMA LimitStep == TypeOK /\ LimitInv /\ [Next]_vars => LimitInv'
<1> SUFFICES ASSUME TypeOK, LimitInv, [Next]_vars PROVE LimitInv'
  OBVIOUS
<1>1. ASSUME NEW r \in Requests, Incr(r) PROVE LimitInv'
  <2> SUFFICES ASSUME ~wiped PROVE LimitInv'
    BY <1>1 DEF Incr, Add, LimitInv
  <2>1. /\ pc[r] = "idle" /\ val' = val + 1 /\ UNCHANGED wiped
        /\ pc' = [pc EXCEPT ![r] = "expire"] /\ got' = [got EXCEPT ![r] = val + 1]
    BY <1>1 DEF Incr, Add, To
  <2>2. Cardinality(Holding') = Cardinality(Holding) + 1
    BY <1>1, HoldingGains DEF Incr, Holding, HoldingPC
  <2>3. Cardinality(Holding') <= val'
    BY <2>1, <2>2, AcceptedHold DEF LimitInv, TypeOK
  <2>4. CASE val + 1 <= MaxUploads
    BY <2>1, <2>3, <2>4, AcceptedHoldNext, MaxUploadsAssumption DEF LimitInv, TypeOK
  <2>5. CASE ~(val + 1 <= MaxUploads)
    <3>1. Accepted' \subseteq Accepted
      BY <2>1, <2>5 DEF Accepted, TypeOK
    <3>2. Cardinality(Accepted') <= Cardinality(Accepted)
      BY <3>1, FewerAccepted
    <3> QED BY <2>1, <2>3, <3>2, AcceptedHold, AcceptedHoldNext, MaxUploadsAssumption DEF LimitInv
  <2> QED BY <2>4, <2>5
<1>2. ASSUME NEW r \in Requests, Expire(r) PROVE LimitInv'
  <2>1. /\ pc[r] = "expire" /\ UNCHANGED <<val, wiped>> /\ got' = [got EXCEPT ![r] = 0]
        /\ pc' = [pc EXCEPT ![r] = IF got[r] > MaxUploads THEN "rollback" ELSE "running"]
    BY <1>2 DEF Expire, SetExpiry, To
  <2>2. Holding' = Holding
    BY <1>2, HoldingKept DEF Expire, Holding, HoldingPC, PC
  <2>3. Accepted' \subseteq Accepted
    BY <2>1, MaxUploadsAssumption DEF Accepted, TypeOK
  <2> QED BY <2>1, <2>2, <2>3, KeptLimit
<1>3. ASSUME NEW r \in Requests, RollBack(r) \/ Decr(r) PROVE LimitInv'
  <2>1. /\ r \in Holding /\ val' = val - 1 /\ UNCHANGED <<wiped, got>>
        /\ To(r, "idle") \/ To(r, "del")
    BY <1>3 DEF RollBack, Decr, Holding, Add
  <2> QED BY <2>1, LosesLimit
<1>4. ASSUME NEW r \in Requests, Del(r) PROVE LimitInv'
  <2>1. Holding' = Holding
    BY <1>4, HoldingKept DEF Del, Holding, HoldingPC, PC
  <2> QED BY <1>4, <2>1, RemovedLimit DEF Del
<1>5. ASSUME NEW r \in Requests, Crash(r) PROVE LimitInv'
  <2>1. UNCHANGED <<val, wiped>> /\ got' = [got EXCEPT ![r] = 0] /\ To(r, "idle")
    BY <1>5 DEF Crash, KeyKept
  <2>2. CASE r \in Holding
    BY <2>1, <2>2, LosesLimit DEF TypeOK
  <2>3. CASE r \notin Holding
    <3>1. Holding' = Holding
      BY <2>1, <2>3, HoldingKept DEF HoldingPC, PC
    <3>2. Accepted' \subseteq Accepted
      BY <2>1 DEF Accepted, To, TypeOK
    <3> QED BY <2>1, <3>1, <3>2, KeptLimit
  <2> QED BY <2>2, <2>3
<1>6. ASSUME NEW r \in Requests, CommandFails(r) PROVE LimitInv'
  <2>1. To(r, "idle") /\ got' = [got EXCEPT ![r] = 0]
    BY <1>6 DEF CommandFails
  <2>2. CASE r \in Holding
    <3>1. val' \in {val, val - 1} /\ UNCHANGED wiped
      BY <1>6, <2>2 DEF CommandFails, Holding, KeyKept, SetExpiry, Add
    <3> QED BY <2>1, <2>2, <3>1, LosesLimit DEF TypeOK
  <2>3. CASE r \notin Holding
    <3>1. Holding' = Holding
      BY <2>1, <2>3, HoldingKept DEF HoldingPC, PC
    <3>2. Accepted' \subseteq Accepted
      BY <2>1 DEF Accepted, To, TypeOK
    <3>3. Remove \/ (val' \in {val, val + 1} /\ UNCHANGED wiped)
      BY <1>6, <2>3 DEF CommandFails, Holding, KeyKept, Add
    <3> QED BY <3>1, <3>2, <3>3, RemovedLimit, KeptLimit
  <2> QED BY <2>2, <2>3
<1>7. CASE Tick
  <2>1. Holding' = Holding /\ Accepted' = Accepted
    BY <1>7 DEF Tick, Holding, Accepted
  <2>2. Remove \/ UNCHANGED <<val, wiped>>
    BY <1>7 DEF Tick
  <2> QED BY <2>1, <2>2, RemovedLimit, KeptLimit
<1>8. CASE UNCHANGED vars
  <2>1. Holding' = Holding /\ Accepted' = Accepted /\ UNCHANGED <<val, wiped>>
    BY <1>8 DEF vars, keyVars, Holding, Accepted
  <2> QED BY <2>1, KeptLimit
<1> QED BY <1>1, <1>2, <1>3, <1>4, <1>5, <1>6, <1>7, <1>8 DEF Next, Request

\* The inductive invariant of the limit.
THEOREM LimitInvariant == Spec => []LimitInv
<1>1. Init => LimitInv
  <2> SUFFICES ASSUME Init PROVE LimitInv
    OBVIOUS
  <2>1. Holding = {} /\ Accepted = {}
    BY DEF Init, Holding, Accepted
  <2> QED BY <2>1, FS_EmptySet, MaxUploadsAssumption DEF Init, LimitInv
<1> QED BY <1>1, LimitStep, TypeCorrect, PTL DEF Spec

\* No more uploads of a user run than the limit, however requests, rollbacks and
\* failures interleave, while no removal of the key hits requests that hold slots.
THEOREM AlwaysWithinMax == Spec => []WithinMax
<1>1. LimitInv => WithinMax
  <2> SUFFICES ASSUME LimitInv, ~wiped PROVE Cardinality(Running) <= MaxUploads
    BY DEF WithinMax
  <2>1. Running \subseteq Accepted /\ IsFiniteSet(Accepted)
    BY AcceptedHold, FS_Subset DEF Running, Accepted
  <2>2. Cardinality(Running) <= Cardinality(Accepted) /\ Cardinality(Running) \in Nat
    BY <2>1, FS_Subset, FS_CardinalityType
  <2> QED BY <2>2, AcceptedHold, MaxUploadsAssumption DEF LimitInv
<1> QED BY <1>1, LimitInvariant, PTL

-----------------------------------------------------------------------------
(* The expiry under running uploads.                                       *)

\* While an upload runs, every interval its key has lost was a refresh that
\* failed: uploads begin to run with a full TTL, and each interval renews it.
MissedInv == Running # {} /\ ttl > 0 => ttl + missed >= TTL

\* An upload that does not begin to run leaves the expiry to the others.
LEMMA NoneBegins ==
  ASSUME MissedInv, Running' \subseteq Running,
         UNCHANGED <<ttl, missed>> \/ ((ttl' = 0 \/ ttl' = TTL) /\ missed' = 0)
  PROVE  MissedInv'
<1>1. CASE UNCHANGED <<ttl, missed>>
  BY <1>1 DEF MissedInv
<1>2. CASE ttl' = 0
  BY <1>2 DEF MissedInv
<1>3. CASE ttl' = TTL /\ missed' = 0
  BY <1>3, TTLAssumption DEF MissedInv
<1> QED BY <1>1, <1>2, <1>3

\* Every step keeps it.
LEMMA MissedStep == TypeOK /\ MissedInv /\ [Next]_vars => MissedInv'
<1> SUFFICES ASSUME TypeOK, MissedInv, [Next]_vars PROVE MissedInv'
  OBVIOUS
<1>0. pc \in [Requests -> PC] /\ ttl \in 0..TTL /\ missed \in Nat
  BY DEF TypeOK
<1>a. ASSUME NEW r \in Requests, NEW s, To(r, s), s # "running"
      PROVE  Running' \subseteq Running
  BY <1>0, <1>a DEF To, Running
<1>b. /\ Add(1) \/ Add(-1) \/ KeyKept => UNCHANGED <<ttl, missed>>
      /\ Remove \/ SetExpiry => (ttl' = 0 \/ ttl' = TTL) /\ missed' = 0
  <2>1. Add(1) \/ Add(-1) => UNCHANGED <<ttl, missed>>
    BY DEF Add
  <2>2. KeyKept => UNCHANGED <<ttl, missed>>
    BY DEF KeyKept
  <2>3. Remove => (ttl' = 0 \/ ttl' = TTL) /\ missed' = 0
    BY DEF Remove
  <2>4. SetExpiry => (ttl' = 0 \/ ttl' = TTL) /\ missed' = 0
    BY DEF SetExpiry
  <2> QED BY <2>1, <2>2, <2>3, <2>4
<1>1. ASSUME NEW r \in Requests, Request(r) PROVE MissedInv'
  <2>1. CASE Incr(r) \/ RollBack(r) \/ Decr(r) \/ Del(r)
    <3>1. Running' \subseteq Running
      BY <2>1, <1>a DEF Incr, RollBack, Decr, Del
    <3> QED BY <2>1, <3>1, <1>b, NoneBegins DEF Incr, RollBack, Decr, Del
  <2>2. CASE Expire(r)
    <3>1. (ttl' = 0 \/ ttl' = TTL) /\ missed' = 0
      BY <2>2, <1>b DEF Expire
    <3>2. ttl' > 0 => ttl' + missed' >= TTL
      <4>1. CASE ttl' = 0
        BY <4>1
      <4>2. CASE ttl' = TTL /\ missed' = 0
        BY <4>2, TTLAssumption
      <4> QED BY <3>1, <4>1, <4>2
    <3> QED BY <3>2 DEF MissedInv
  <2> QED BY <1>1, <2>1, <2>2 DEF Request
<1>2. ASSUME NEW r \in Requests, Crash(r) \/ CommandFails(r) PROVE MissedInv'
  <2>1. Running' \subseteq Running
    BY <1>2, <1>a DEF Crash, CommandFails
  <2>2. UNCHANGED <<ttl, missed>> \/ ((ttl' = 0 \/ ttl' = TTL) /\ missed' = 0)
    BY <1>2, <1>b DEF Crash, CommandFails
  <2> QED BY <2>1, <2>2, NoneBegins
<1>3. CASE Tick
  <2>0. Running' = Running
    BY <1>3 DEF Tick, Running
  <2>1. CASE ttl = 1 /\ Remove
    BY <2>0, <2>1, <1>b, NoneBegins
  <2>2. CASE ttl # 1 /\ Refreshed(IF ttl > 1 THEN ttl - 1 ELSE 0)
    <3>1. CASE Running = {}
      BY <2>0, <3>1 DEF MissedInv
    <3>2. CASE Running # {} /\ ttl' = TTL /\ missed' = 0
      BY <3>2, TTLAssumption DEF MissedInv
    <3>3. CASE Running # {} /\ ttl > 1 /\ ttl' = ttl - 1 /\ missed' = missed + 1
      BY <1>0, <3>3, TTLAssumption DEF MissedInv
    <3>4. CASE ttl = 0 /\ ttl' = 0
      BY <3>4 DEF MissedInv
    <3> QED BY <1>0, <2>2, <3>1, <3>2, <3>3, <3>4 DEF Refreshed
  <2> QED BY <1>3, <2>1, <2>2 DEF Tick
<1>4. CASE UNCHANGED vars
  BY <1>4 DEF vars, keyVars, MissedInv, Running
<1> QED BY <1>1, <1>2, <1>3, <1>4 DEF Next

\* The key of a running upload expires only once TTL - 1 refreshes in a row have
\* failed; otherwise it goes with the DEL of a release.
THEOREM KeyAlwaysOutlives == Spec => KeyOutlivesUploads
<1>1. Init => MissedInv
  BY DEF Init, MissedInv, Running
<1>2. TypeOK /\ MissedInv /\ [Next]_vars
        => [exists /\ ~exists' /\ Running # {} =>
              \/ \E r \in Requests : pc[r] = "del" /\ pc'[r] = "idle"
              \/ missed >= TTL - 1]_vars
  <2> SUFFICES ASSUME TypeOK, MissedInv, [Next]_vars, exists, ~exists', Running # {}
               PROVE  \/ \E r \in Requests : pc[r] = "del" /\ pc'[r] = "idle"
                      \/ missed >= TTL - 1
    OBVIOUS
  <2>0. pc \in [Requests -> PC] /\ ttl \in 0..TTL /\ missed \in Nat
    BY DEF TypeOK
  <2>1. CASE \E r \in Requests : pc[r] = "del" /\ To(r, "idle")
    BY <2>0, <2>1 DEF To
  <2>2. CASE ttl = 1
    BY <2>0, <2>2, TTLAssumption DEF MissedInv
  <2>3. ~(UNCHANGED exists \/ exists' = TRUE)
    OBVIOUS
  <2>4. ~(Add(1) \/ Add(-1) \/ SetExpiry \/ KeyKept)
    BY <2>3 DEF Add, SetExpiry, KeyKept
  <2>5. ASSUME NEW r \in Requests, Request(r) PROVE Del(r)
    BY <2>4, <2>5 DEF Request, Incr, Expire, RollBack, Decr
  <2>6. ASSUME NEW r \in Requests, Crash(r) PROVE FALSE
    BY <2>4, <2>6 DEF Crash
  <2>7. ASSUME NEW r \in Requests, CommandFails(r) PROVE pc[r] = "del" /\ To(r, "idle")
    BY <2>4, <2>7 DEF CommandFails
  <2>8. CASE Tick
    BY <2>2, <2>3, <2>8 DEF Tick
  <2>9. ~UNCHANGED vars
    BY <2>3 DEF vars, keyVars
  <2> QED BY <2>1, <2>5, <2>6, <2>7, <2>8, <2>9 DEF Next, Del
<1> QED BY <1>1, <1>2, MissedStep, TypeCorrect, PTL DEF Spec, KeyOutlivesUploads

-----------------------------------------------------------------------------
(* The expiry the INCR asks for.                                           *)

\* A key with slots in it and no expiry has its EXPIRE ahead, or a failure in its
\* past; an absent key has neither slots nor expiry.
ExpiryInv == CountHasExpiry /\ (~exists => val = 0 /\ ttl = 0)

\* Commands that leave the expiry alone and add nothing: who is about to set it stays
\* about to, or goes as a failure that is remembered.
LEMMA ExpiryKept ==
  ASSUME TypeOK, ExpiryInv, NEW r \in Requests, NEW s, To(r, s),
         pc[r] = "expire" => ExpiryMissed,
         pc[r] # "expire" => UNCHANGED bare,
         val' \in {val, val - 1}, UNCHANGED ttl, exists' \/ (UNCHANGED <<exists, val>>)
  PROVE  ExpiryInv'
<1>0. pc \in [Requests -> PC] /\ val \in Int /\ ttl \in 0..TTL
  BY DEF TypeOK
<1>1. ~exists' => val' = 0 /\ ttl' = 0
  BY DEF ExpiryInv
<1>2. ASSUME val' > 0, ttl' = 0
      PROVE  bare' \/ \E q \in Requests : pc'[q] = "expire"
  <2>1. val > 0 /\ ttl = 0
    BY <1>0, <1>2
  <2>2. bare \/ \E q \in Requests : pc[q] = "expire"
    BY <2>1 DEF ExpiryInv, CountHasExpiry
  <2>3. CASE pc[r] = "expire"
    BY <2>1, <2>3 DEF ExpiryMissed
  <2>4. CASE pc[r] # "expire"
    BY <1>0, <2>2, <2>4 DEF To
  <2> QED BY <2>3, <2>4
<1> QED BY <1>1, <1>2 DEF ExpiryInv, CountHasExpiry

\* Every step keeps it.
LEMMA ExpiryStep == TypeOK /\ ExpiryInv /\ [Next]_vars => ExpiryInv'
<1> SUFFICES ASSUME TypeOK, ExpiryInv, [Next]_vars PROVE ExpiryInv'
  OBVIOUS
<1>0. pc \in [Requests -> PC] /\ val \in Int /\ ttl \in 0..TTL
  BY DEF TypeOK
<1>a. Remove => ExpiryInv'
  <2> SUFFICES ASSUME Remove PROVE ExpiryInv'
    OBVIOUS
  <2>1. val' = 0 /\ ttl' = 0
    BY DEF Remove
  <2> QED BY <2>1 DEF ExpiryInv, CountHasExpiry
<1>b. SetExpiry => ExpiryInv'
  <2> SUFFICES ASSUME SetExpiry PROVE ExpiryInv'
    OBVIOUS
  <2>1. UNCHANGED <<exists, val>> /\ ttl' = (IF exists THEN TTL ELSE 0)
    BY DEF SetExpiry
  <2>2. ~exists => val' = 0 /\ ttl' = 0
    BY <2>1 DEF ExpiryInv
  <2>3. exists => ttl' > 0
    BY <2>1, TTLAssumption
  <2> QED BY <2>1, <2>2, <2>3 DEF ExpiryInv, CountHasExpiry
<1>1. ASSUME NEW r \in Requests, Incr(r) PROVE ExpiryInv'
  <2>1. exists' /\ pc'[r] = "expire"
    BY <1>0, <1>1 DEF Incr, Add, To
  <2> QED BY <2>1 DEF ExpiryInv, CountHasExpiry
<1>2. ASSUME NEW r \in Requests, Expire(r) PROVE ExpiryInv'
  BY <1>2, <1>b DEF Expire
<1>3. ASSUME NEW r \in Requests, RollBack(r) \/ Decr(r) PROVE ExpiryInv'
  <2>1. /\ pc[r] # "expire" /\ exists' /\ val' = val - 1 /\ UNCHANGED <<ttl, bare>>
        /\ To(r, "idle") \/ To(r, "del")
    BY <1>3 DEF RollBack, Decr, Add
  <2> QED BY <2>1, ExpiryKept
<1>4. ASSUME NEW r \in Requests, Del(r) PROVE ExpiryInv'
  BY <1>4, <1>a DEF Del
<1>5. ASSUME NEW r \in Requests, Crash(r) PROVE ExpiryInv'
  <2>1. /\ To(r, "idle") /\ UNCHANGED <<exists, val, ttl>>
        /\ pc[r] = "expire" => ExpiryMissed
        /\ pc[r] # "expire" => UNCHANGED bare
    BY <1>5 DEF Crash, KeyKept
  <2> QED BY <2>1, ExpiryKept
<1>6. ASSUME NEW r \in Requests, CommandFails(r) PROVE ExpiryInv'
  <2>0. To(r, "idle")
    BY <1>6 DEF CommandFails
  <2>1. CASE pc[r] = "idle" /\ Add(1) /\ ExpiryMissed
    <3>1. exists' /\ ttl' = ttl /\ (ttl = 0 => bare')
      BY <2>1 DEF Add, ExpiryMissed
    <3> QED BY <3>1 DEF ExpiryInv, CountHasExpiry
  <2>2. CASE pc[r] = "expire" /\ KeyKept /\ ExpiryMissed
    <3>1. UNCHANGED <<exists, val, ttl>>
      BY <2>2 DEF KeyKept
    <3> QED BY <2>0, <2>2, <3>1, ExpiryKept
  <2>3. CASE pc[r] # "expire" /\ KeyKept /\ UNCHANGED bare
    <3>1. UNCHANGED <<exists, val, ttl>>
      BY <2>3 DEF KeyKept
    <3> QED BY <2>0, <2>3, <3>1, ExpiryKept
  <2>4. CASE pc[r] # "expire" /\ Add(-1) /\ UNCHANGED bare
    <3>1. exists' /\ val' = val - 1 /\ UNCHANGED ttl
      BY <1>0, <2>4 DEF Add
    <3> QED BY <2>0, <2>4, <3>1, ExpiryKept
  <2> QED BY <1>6, <1>a, <1>b, <2>1, <2>2, <2>3, <2>4 DEF CommandFails
<1>7. CASE Tick
  <2>1. CASE ttl = 1 /\ Remove
    BY <1>a, <2>1
  <2>2. CASE /\ ttl # 1 /\ Refreshed(IF ttl > 1 THEN ttl - 1 ELSE 0)
             /\ UNCHANGED <<exists, val, leaked, wiped, bare>>
    <3>1. ttl' = 0 => ttl = 0
      BY <1>0, <2>2, TTLAssumption DEF Refreshed
    <3>2. exists' /\ UNCHANGED <<val, bare, pc>>
      BY <1>7, <2>2 DEF Tick
    <3> QED BY <3>1, <3>2 DEF ExpiryInv, CountHasExpiry
  <2> QED BY <1>7, <2>1, <2>2 DEF Tick
<1>8. CASE UNCHANGED vars
  <2>1. UNCHANGED <<pc, exists, val, ttl, bare>>
    BY <1>8 DEF vars, keyVars
  <2> QED BY <2>1 DEF ExpiryInv, CountHasExpiry
<1> QED BY <1>1, <1>2, <1>3, <1>4, <1>5, <1>6, <1>7, <1>8 DEF Next, Request

\* Slots without an expiry are either about to get one or what a failure between INCR
\* and EXPIRE left: no other order of commands, removals and failures makes any.
THEOREM CountAlwaysHasExpiry == Spec => []CountHasExpiry
<1>1. Init => ExpiryInv
  BY DEF Init, ExpiryInv, CountHasExpiry
<1>2. ExpiryInv => CountHasExpiry
  BY DEF ExpiryInv
<1> QED BY <1>1, <1>2, ExpiryStep, TypeCorrect, PTL DEF Spec

-----------------------------------------------------------------------------
(* The promise of the limit.                                               *)

\* The promise counts as this module does.
LEMMA SameCount == \A S : Slots!Cardinality(S) = Cardinality(S)
BY DEF Slots!Cardinality, Cardinality, Slots!IsFiniteSet, IsFiniteSet

\* Who is inside, for the promise, holds a slot.
LEMMA InsideHold == Slots!Inside = Holding
BY AcceptedHold DEF Slots!Inside

\* A request that goes takes its slot along, or leaves it to the failures.
LEMMA LeaveRefines ==
  ASSUME TypeOK, NEW r \in Holding, NEW s \in {"idle", "del"}, To(r, s),
         \A q \in Requests \ {r} : got'[q] = got[q],
         leaked' = leaked \/ leaked' = leaked + 1, UNCHANGED wiped
  PROVE  \E q \in Requests : Slots!Leave(q)
<1>1. Accepted' = Accepted \ {r}
  BY DEF Accepted, To, TypeOK, Holding
<1>2. Holding' = Holding \ {r}
  BY DEF Holding, To, TypeOK
<1>3. (Holding \ Accepted)' = (Holding \ Accepted) \ {r}
  BY <1>1, <1>2
<1>4. r \in Requests
  BY DEF Holding
<1> QED BY <1>1, <1>3, <1>4, InsideHold DEF Slots!Leave

\* A step in which the requests that are in and those that are refused stay.
LEMMA StayRefines ==
  ASSUME Accepted' = Accepted, Holding' = Holding,
         \/ UNCHANGED <<leaked, wiped>>
         \/ leaked' = leaked + 1 /\ UNCHANGED wiped
         \/ Remove
  PROVE  [Slots!Next]_(Slots!vars)
<1>1. (Holding \ Accepted)' = Holding \ Accepted
  OBVIOUS
<1>2. CASE UNCHANGED <<leaked, wiped>>
  BY <1>1, <1>2 DEF Slots!vars
<1>3. CASE leaked' = leaked + 1 /\ UNCHANGED wiped
  BY <1>1, <1>3 DEF Slots!Next, Slots!Lose
<1>4. CASE Remove
  BY <1>1, <1>4, InsideHold DEF Slots!Next, Slots!Forget, Remove
<1> QED BY <1>2, <1>3, <1>4

\* INCR decides: below the limit there is room, beyond it all slots are taken.
LEMMA IncrRefines ==
  ASSUME TypeOK, NoPhantomSlots, LimitInv, NEW r \in Requests, Incr(r)
  PROVE  Slots!Enter(r) \/ Slots!Refuse(r)
<1>1. /\ pc[r] = "idle" /\ UNCHANGED <<leaked, wiped>>
      /\ pc' = [pc EXCEPT ![r] = "expire"] /\ got' = [got EXCEPT ![r] = val + 1]
  BY DEF Incr, Add, To
<1>2. r \notin Holding /\ r \notin Accepted /\ Holding' = Holding \cup {r}
  BY <1>1 DEF Holding, Accepted, TypeOK
<1>3. CASE val + 1 <= MaxUploads
  <2>1. Accepted' = Accepted \cup {r}
    BY <1>1, <1>3 DEF Accepted, TypeOK
  <2>2. (Holding \ Accepted)' = Holding \ Accepted
    BY <1>2, <2>1
  <2>3. ~wiped => Cardinality(Accepted) < MaxUploads
    BY <1>3, AcceptedHold, MaxUploadsAssumption DEF LimitInv, TypeOK
  <2>4. Slots!Room
    BY <2>3, SameCount DEF Slots!Room
  <2> QED BY <1>1, <1>2, <2>1, <2>2, <2>4, InsideHold DEF Slots!Enter
<1>4. CASE ~(val + 1 <= MaxUploads)
  <2>1. Accepted' = Accepted
    BY <1>1, <1>2, <1>4 DEF Accepted, TypeOK
  <2>2. (Holding \ Accepted)' = (Holding \ Accepted) \cup {r}
    BY <1>2, <2>1
  <2>3. Cardinality(Holding) + leaked >= MaxUploads
    BY <1>4, AcceptedHold, MaxUploadsAssumption DEF NoPhantomSlots, TypeOK
  <2>4. Slots!Full
    BY <2>3, SameCount, InsideHold DEF Slots!Full
  <2> QED BY <1>1, <1>2, <2>1, <2>2, <2>4, InsideHold DEF Slots!Refuse
<1> QED BY <1>3, <1>4

\* Every step of the commands is a step of the promise, or none.
LEMMA SlotsStep ==
  TypeOK /\ NoPhantomSlots /\ LimitInv /\ [Next]_vars => [Slots!Next]_(Slots!vars)
<1> SUFFICES ASSUME TypeOK, NoPhantomSlots, LimitInv, [Next]_vars
             PROVE  [Slots!Next]_(Slots!vars)
  OBVIOUS
<1>0. pc \in [Requests -> PC] /\ got \in [Requests -> Int]
  BY DEF TypeOK
<1>1. ASSUME NEW r \in Requests, Incr(r) PROVE [Slots!Next]_(Slots!vars)
  BY <1>1, IncrRefines DEF Slots!Next
<1>2. ASSUME NEW r \in Requests, Expire(r) PROVE [Slots!Next]_(Slots!vars)
  <2>1. /\ pc[r] = "expire" /\ UNCHANGED <<leaked, wiped>> /\ got' = [got EXCEPT ![r] = 0]
        /\ pc' = [pc EXCEPT ![r] = IF got[r] > MaxUploads THEN "rollback" ELSE "running"]
    BY <1>2 DEF Expire, SetExpiry, To
  <2>2. Holding' = Holding
    BY <1>0, <2>1 DEF Holding
  <2>3. Accepted' = Accepted
    BY <1>0, <2>1, MaxUploadsAssumption DEF Accepted
  <2> QED BY <2>1, <2>2, <2>3, StayRefines
<1>3. ASSUME NEW r \in Requests, RollBack(r) \/ Decr(r) PROVE [Slots!Next]_(Slots!vars)
  <2>1. /\ r \in Holding /\ UNCHANGED <<got, leaked, wiped>>
        /\ To(r, "idle") \/ To(r, "del")
    BY <1>3 DEF RollBack, Decr, Add, Holding
  <2> QED BY <2>1, LeaveRefines DEF Slots!Next
<1>4. ASSUME NEW r \in Requests, r \notin Holding, To(r, "idle"),
             \A q \in Requests \ {r} : got'[q] = got[q]
      PROVE  Holding' = Holding /\ Accepted' = Accepted
  BY <1>0, <1>4 DEF To, Holding, Accepted
<1>5. ASSUME NEW r \in Requests, Del(r) PROVE [Slots!Next]_(Slots!vars)
  <2>1. r \notin Holding /\ To(r, "idle") /\ got' = got /\ Remove
    BY <1>5 DEF Del, Holding
  <2> QED BY <1>4, <2>1, StayRefines
<1>6. ASSUME NEW r \in Requests, Crash(r) PROVE [Slots!Next]_(Slots!vars)
  <2>1. /\ To(r, "idle") /\ UNCHANGED wiped /\ \A q \in Requests \ {r} : got'[q] = got[q]
        /\ r \notin Holding => leaked' = leaked
        /\ r \in Holding => leaked' = leaked + 1
    BY <1>0, <1>6 DEF Crash, KeyKept, TypeOK
  <2>2. CASE r \in Holding
    BY <2>1, <2>2, LeaveRefines DEF Slots!Next
  <2>3. CASE r \notin Holding
    BY <1>4, <2>1, <2>3, StayRefines
  <2> QED BY <2>2, <2>3
<1>7. ASSUME NEW r \in Requests, CommandFails(r) PROVE [Slots!Next]_(Slots!vars)
  <2>1. To(r, "idle") /\ \A q \in Requests \ {r} : got'[q] = got[q]
    BY <1>0, <1>7 DEF CommandFails
  <2>2. CASE r \in Holding
    <3>1. UNCHANGED wiped /\ (leaked' = leaked \/ leaked' = leaked + 1)
      BY <1>7, <2>2 DEF CommandFails, Holding, KeyKept, SetExpiry, Add
    <3> QED BY <2>1, <2>2, <3>1, LeaveRefines DEF Slots!Next
  <2>3. CASE r \notin Holding
    <3>1. \/ UNCHANGED <<leaked, wiped>>
          \/ leaked' = leaked + 1 /\ UNCHANGED wiped
          \/ Remove
      BY <1>7, <2>3 DEF CommandFails, Holding, KeyKept, Add
    <3> QED BY <1>4, <2>1, <2>3, <3>1, StayRefines
  <2> QED BY <2>2, <2>3
<1>8. CASE Tick
  <2>1. Holding' = Holding /\ Accepted' = Accepted
    BY <1>8 DEF Tick, Holding, Accepted
  <2>2. Remove \/ UNCHANGED <<leaked, wiped>>
    BY <1>8 DEF Tick
  <2> QED BY <2>1, <2>2, StayRefines
<1>9. CASE UNCHANGED vars
  <2>1. Holding' = Holding /\ Accepted' = Accepted /\ UNCHANGED <<leaked, wiped>>
    BY <1>9 DEF vars, keyVars, Holding, Accepted
  <2> QED BY <2>1, StayRefines
<1> QED BY <1>1, <1>2, <1>3, <1>5, <1>6, <1>7, <1>8, <1>9 DEF Next, Request

\* The commands keep the promise of the limit, whatever fails: a request is let in
\* only while there is room and refused only while all slots are taken.
THEOREM SemaphoreImplementsSlots == Spec => ImplementsSlots
<1>1. Init => Slots!Init
  BY DEF Init, Slots!Init, Accepted, Holding
<1> QED BY <1>1, SlotsStep, TypeCorrect, NeverPhantomSlots, LimitInvariant, PTL
        DEF Spec, ImplementsSlots, Slots!Spec

\* The promise is worth something by itself: whatever keeps it keeps the limit.
THEOREM SlotsKeepLimit == ImplementsSlots => []WithinMax
<1> DEFINE Limited == ~wiped => Cardinality(Accepted) <= MaxUploads
<1>1. Slots!Init => Limited
  BY FS_EmptySet, MaxUploadsAssumption DEF Slots!Init
<1>2. Limited /\ [Slots!Next]_(Slots!vars) => Limited'
  <2> SUFFICES ASSUME Limited, [Slots!Next]_(Slots!vars), ~wiped'
               PROVE  Cardinality(Accepted') <= MaxUploads
    OBVIOUS
  <2>0. /\ IsFiniteSet(Accepted) /\ Cardinality(Accepted) \in Nat
        /\ Cardinality(Accepted') \in Nat
    BY AcceptedHold, AcceptedHoldNext, FS_Subset
  <2>1. ASSUME NEW r \in Requests, Slots!Enter(r)
        PROVE  Cardinality(Accepted') <= MaxUploads
    <3>1. /\ Accepted' = Accepted \cup {r} /\ r \notin Accepted /\ ~wiped
          /\ Cardinality(Accepted) < MaxUploads
      BY <2>1, SameCount DEF Slots!Enter, Slots!Inside, Slots!Room
    <3>2. Cardinality(Accepted') = Cardinality(Accepted) + 1
      BY <2>0, <3>1, FS_AddElement
    <3> QED BY <2>0, <3>1, <3>2, MaxUploadsAssumption
  <2>2. CASE Accepted' \subseteq Accepted /\ UNCHANGED wiped
    BY <2>0, <2>2, FewerAccepted, MaxUploadsAssumption
  <2>3. CASE Slots!Forget
    <3>1. Accepted' = {}
      BY <2>3 DEF Slots!Forget, Slots!Inside
    <3> QED BY <3>1, FS_EmptySet, MaxUploadsAssumption
  <2> QED BY <2>1, <2>2, <2>3
          DEF Slots!Next, Slots!Refuse, Slots!Leave, Slots!Lose, Slots!vars
<1>3. Limited => WithinMax
  <2>1. Running \subseteq Accepted /\ IsFiniteSet(Accepted)
    BY AcceptedHold, FS_Subset DEF Running, Accepted
  <2>2. Cardinality(Running) <= Cardinality(Accepted) /\ Cardinality(Running) \in Nat
    BY <2>1, FS_Subset, FS_CardinalityType
  <2> QED BY <2>2, AcceptedHold, MaxUploadsAssumption DEF WithinMax
<1> QED BY <1>1, <1>2, <1>3, PTL DEF ImplementsSlots, Slots!Spec

=============================================================================
