---------------------------- MODULE StartupProofs ----------------------------
(***************************************************************************)
(* Theorems about what a process does when it starts: it loads the key     *)
(* that verifies tokens (KeyLoading, for any backoff, tokens, devices,     *)
(* requests and probes), puts its lifecycle rules into the bucket          *)
(* (Lifecycle, for any replicas, rules and TTLs) and makes the partition   *)
(* of the month (AccessLogPartitions, for any replicas, connections and    *)
(* months); whatever fails.                                                *)
(***************************************************************************)
EXTENDS KeyLoading, Lifecycle, AccessLogPartitions, FiniteSetTheorems, TLAPS

-----------------------------------------------------------------------------
(* Types *)

\* The wait of the backoff stays between its first value and its cap.
LEMMA DelayInRange ==
  ASSUME NEW d \in InitialDelay..DelayCap
  PROVE  Smaller(d * 2, DelayCap) \in InitialDelay..DelayCap
BY BackoffAssumption DEF Smaller

\* A wait of the first loop comes before its last attempt.
WaitInv == lpc = "wait" => attempt < MaxAttempts

\* A request with lookups under way keeps its types when one of them settles.
LEMMA SettledType ==
  ASSUME TypeOK, NEW r \in Requests, NEW k, NEW hit \in BOOLEAN, Settled(r, k, hit)
  PROVE  /\ gpc' \in [Requests -> Verdicts \cup {"verify", "lookup", "marked"}]
         /\ pending' \in [Requests -> SUBSET (Tokens \cup Devices)]
<1> DEFINE next == CASE pending[r] # {k} /\ hit -> "marked"
                     [] pending[r] # {k} /\ ~hit -> "lookup"
                     [] pending[r] = {k} /\ hit -> "revoked"
                     [] OTHER -> "accepted"
<1>1. next \in Verdicts \cup {"verify", "lookup", "marked"}
  BY DEF Verdicts
<1>2. gpc' = [gpc EXCEPT ![r] = next] /\ pending' = [pending EXCEPT ![r] = @ \ {k}]
  BY DEF Settled
<1> HIDE DEF next
<1> QED BY <1>1, <1>2 DEF TypeOK

\* The loader keeps its types.
LEMMA LoaderType ==
  ASSUME TypeOK, WaitInv, LoaderStep \/ Destroy \/ EndpointChanges
  PROVE  TypeOK' /\ WaitInv'
<1> USE BackoffAssumption DEF TypeOK, WaitInv, guardVars, probeVars, loaderVars
<1>1. CASE Responds \/ Fetched
  BY <1>1 DEF Responds, Fetched
<1>2. CASE FetchFails
  <2>1. \/ lpc = "fetch" /\ attempt < MaxAttempts /\ lpc' = "wait"
        \/ lpc' \in {"bgWait", "end"}
    BY <1>2 DEF FetchFails, Sleep, Background
  <2>2. armed' \in BOOLEAN
    BY <1>2 DEF FetchFails, Sleep, Background
  <2> QED BY <1>2, <2>1, <2>2 DEF FetchFails
<1>3. CASE Wake
  <2>1. delay' \in InitialDelay..DelayCap
    BY <1>3, DelayInRange DEF Wake
  <2>2. attempt' \in 1..MaxAttempts
    BY <1>3 DEF Wake
  <2>3. lpc' \in {"end", "fetch"} /\ armed' \in BOOLEAN
    BY <1>3 DEF Wake
  <2> QED BY <1>3, <2>1, <2>2, <2>3 DEF Wake
<1>4. CASE BgWake
  BY <1>4 DEF BgWake
<1>5. CASE Destroy
  BY <1>5 DEF Destroy
<1>6. CASE EndpointChanges
  BY <1>6 DEF EndpointChanges
<1> QED BY <1>1, <1>2, <1>3, <1>4, <1>5, <1>6 DEF LoaderStep

\* So do the requests.
LEMMA GuardType ==
  ASSUME TypeOK, WaitInv, NEW r \in Requests, Guard(r)
  PROVE  TypeOK' /\ WaitInv'
<1> USE TokensAssumption DEF loaderVars, probeVars
<1>1. WaitInv'
  <2>1. UNCHANGED loaderVars
    BY DEF Guard, Arrive, Verify, LookUp, LookUpFails
  <2> QED BY <2>1 DEF WaitInv
<1>2. ASSUME NEW t \in Tokens, Arrive(r, t) PROVE TypeOK'
  <2>1. Markers(t) \cap revoked \in SUBSET (Tokens \cup Devices)
    BY DEF TypeOK
  <2>2. (IF loaded THEN "verify" ELSE "noKey") \in Verdicts \cup {"verify"}
    BY DEF Verdicts
  <2> HIDE DEF Markers
  <2> QED BY <1>2, <2>1, <2>2 DEF Arrive, TypeOK
<1>3. CASE Verify(r)
  <2>1. MarkersOf(r) \in SUBSET (Tokens \cup Devices)
    BY DEF TypeOK, MarkersOf, Markers
  <2>2. PICK s \in Verdicts \cup {"lookup"} : gpc' = [gpc EXCEPT ![r] = s]
    BY <1>3 DEF Verify, Verdicts
  <2>3. pending' \in {pending, [pending EXCEPT ![r] = MarkersOf(r)]}
    BY <1>3 DEF Verify
  <2>4. UNCHANGED <<loaderVars, destroyed, up, token, promised, late, revoked, probeVars>>
    BY <1>3 DEF Verify
  <2>5. gpc' \in [Requests -> Verdicts \cup {"verify", "lookup", "marked"}]
    BY <2>2 DEF TypeOK
  <2>6. pending' \in [Requests -> SUBSET (Tokens \cup Devices)]
    BY <2>1, <2>3 DEF TypeOK
  <2> QED BY <1>1, <2>4, <2>5, <2>6 DEF TypeOK
<1>4. ASSUME NEW k \in Tokens \cup Devices, LookUp(r, k) PROVE TypeOK'
  <2>1. (gpc[r] = "marked" \/ k \in revoked) \in BOOLEAN
    OBVIOUS
  <2>2. /\ gpc' \in [Requests -> Verdicts \cup {"verify", "lookup", "marked"}]
        /\ pending' \in [Requests -> SUBSET (Tokens \cup Devices)]
    BY <1>4, <2>1, SettledType, Zenon DEF LookUp
  <2>3. UNCHANGED <<loaderVars, destroyed, up, token, promised, late, revoked, probeVars>>
    BY <1>4 DEF LookUp
  <2> QED BY <2>2, <2>3 DEF TypeOK
<1>5. ASSUME NEW k \in Tokens \cup Devices, LookUpFails(r, k) PROVE TypeOK'
  <2> DEFINE hit == gpc[r] = "marked"
  <2>1. hit \in BOOLEAN
    OBVIOUS
  <2> DEFINE Kept == /\ gpc' \in [Requests -> Verdicts \cup {"verify", "lookup", "marked"}]
                     /\ pending' \in [Requests -> SUBSET (Tokens \cup Devices)]
  <2>2. ASSUME Settled(r, k, hit) PROVE Kept
    <3> HIDE DEF hit
    <3>1. Kept
      BY <2>1, <2>2, SettledType, Zenon
    <3> QED BY <3>1
  <2>3. ASSUME pending' = [pending EXCEPT ![r] = {}], gpc' = [gpc EXCEPT ![r] = "error"]
        PROVE  Kept
    <3>1. "error" \in Verdicts
      BY DEF Verdicts
    <3>2. {} \in SUBSET (Tokens \cup Devices)
      OBVIOUS
    <3> QED BY <2>3, <3>1, <3>2 DEF TypeOK
  <2>4. Kept
    BY <1>5, <2>2, <2>3 DEF LookUpFails
  <2>5. late' \in [Requests -> SUBSET (Tokens \cup Devices)]
    BY <1>5 DEF LookUpFails, TypeOK
  <2>6. UNCHANGED <<loaderVars, destroyed, up, token, promised, revoked, probeVars>>
    BY <1>5 DEF LookUpFails
  <2> QED BY <2>4, <2>5, <2>6 DEF TypeOK
<1> QED BY <1>1, <1>2, <1>3, <1>4, <1>5 DEF Guard

\* And the probes.
LEMMA ProbeType ==
  ASSUME TypeOK, WaitInv, NEW p \in Probes, Probe(p)
  PROVE  TypeOK' /\ WaitInv'
<1> USE DEF loaderVars, guardVars, TypeOK, WaitInv, Answers, Steps
<1>1. ASSUME NEW k \in {"check", "ready"}, Ask(p, k) PROVE TypeOK' /\ WaitInv'
  BY <1>1 DEF Ask
<1>2. ASSUME ppc[p] \in Steps \ {"key"} PROVE After[ppc[p]] \in Steps
  BY <1>2 DEF After
<1>3. CASE DependencyAnswers(p)
  BY <1>2, <1>3 DEF DependencyAnswers
<1>4. CASE DependencyFails(p)
  BY <1>2, <1>4 DEF DependencyFails
<1>5. CASE AskKey(p)
  BY <1>5 DEF AskKey, IsReady
<1> QED BY <1>1, <1>3, <1>4, <1>5 DEF Probe

\* Attempts and waits stay within the backoff, and everything else in its type.
THEOREM TypeCorrect == Spec => [](TypeOK /\ WaitInv)
<1>1. Init => TypeOK /\ WaitInv
  <2> SUFFICES ASSUME Init PROVE TypeOK /\ WaitInv
    OBVIOUS
  <2>1. attempt \in 1..MaxAttempts /\ delay \in InitialDelay..DelayCap
    BY BackoffAssumption DEF Init
  <2>2. "error" \in Verdicts /\ "notOk" \in Answers
    BY DEF Verdicts, Answers
  <2>3. /\ gpc \in [Requests -> Verdicts \cup {"verify", "lookup", "marked"}]
        /\ ppc \in [Probes -> Answers \cup Steps]
    BY <2>2 DEF Init
  <2> QED BY <2>1, <2>3 DEF Init, TypeOK, WaitInv
<1>2. TypeOK /\ WaitInv /\ [Next]_vars => (TypeOK /\ WaitInv)'
  <2> SUFFICES ASSUME TypeOK, WaitInv, [Next]_vars PROVE (TypeOK /\ WaitInv)'
    OBVIOUS
  <2>1. ASSUME NEW k \in Tokens \cup Devices, Revoke(k) PROVE (TypeOK /\ WaitInv)'
    BY <2>1 DEF Revoke, TypeOK, WaitInv, loaderVars, guardVars, probeVars
  <2>2. CASE UNCHANGED vars
    BY <2>2 DEF vars, TypeOK, WaitInv, loaderVars, guardVars, probeVars
  <2> QED BY <2>1, <2>2, LoaderType, GuardType, ProbeType DEF Next
<1> QED BY <1>1, <1>2, PTL DEF Spec

-----------------------------------------------------------------------------
(* Readiness *)

\* A key that was found is never given up, so an answer that it was there stays true.
ReadyInv == announced => loaded

\* Requests that arrive after a good probe find the key.
THEOREM ReadyMeansServed == Spec => []ServedAfterReady
<1>1. Init => ReadyInv /\ ServedAfterReady
  BY DEF Init, ReadyInv, ServedAfterReady
<1>2. TypeOK /\ ReadyInv /\ ServedAfterReady /\ [Next]_vars => (ReadyInv /\ ServedAfterReady)'
  <2> SUFFICES ASSUME TypeOK, ReadyInv, ServedAfterReady, [Next]_vars
               PROVE  (ReadyInv /\ ServedAfterReady)'
    OBVIOUS
  <2> USE DEF ReadyInv, ServedAfterReady, loaderVars, guardVars, probeVars
  <2>1. CASE LoaderStep \/ Destroy \/ EndpointChanges
    BY <2>1 DEF LoaderStep, Responds, Fetched, FetchFails, Wake, BgWake, Destroy, EndpointChanges
  <2>2. ASSUME NEW r \in Requests, NEW t \in Tokens, Arrive(r, t)
        PROVE  (ReadyInv /\ ServedAfterReady)'
    <3>1. promised'[r] => gpc'[r] # "noKey"
      BY <2>2 DEF Arrive, TypeOK
    <3>2. \A q \in Requests \ {r} : promised'[q] = promised[q] /\ gpc'[q] = gpc[q]
      BY <2>2 DEF Arrive, TypeOK
    <3> QED BY <2>2, <3>1, <3>2 DEF Arrive
  <2>3. ASSUME NEW r \in Requests, Verify(r) PROVE (ReadyInv /\ ServedAfterReady)'
    BY <2>3 DEF Verify, TypeOK
  <2>4. ASSUME NEW r \in Requests, NEW k \in Tokens \cup Devices, LookUp(r, k) \/ LookUpFails(r, k)
        PROVE  (ReadyInv /\ ServedAfterReady)'
    <3>1. PICK s \in {"marked", "lookup", "revoked", "accepted", "error"} :
            gpc' = [gpc EXCEPT ![r] = s]
      BY <2>4 DEF LookUp, LookUpFails, Settled
    <3>2. UNCHANGED <<loaded, announced, promised>>
      BY <2>4 DEF LookUp, LookUpFails
    <3> QED BY <3>1, <3>2 DEF TypeOK
  <2>5. ASSUME NEW k \in Tokens \cup Devices, Revoke(k) PROVE (ReadyInv /\ ServedAfterReady)'
    BY <2>5 DEF Revoke
  <2>6. ASSUME NEW p \in Probes, Probe(p) PROVE (ReadyInv /\ ServedAfterReady)'
    <3>1. UNCHANGED <<loaded, promised, gpc>>
      BY <2>6 DEF Probe, Ask, DependencyAnswers, DependencyFails, AskKey
    <3>2. announced' => announced \/ loaded
      BY <2>6 DEF Probe, Ask, DependencyAnswers, DependencyFails, AskKey, IsReady
    <3> QED BY <3>1, <3>2
  <2>7. CASE UNCHANGED vars
    BY <2>7 DEF vars
  <2> QED BY <2>1, <2>2, <2>3, <2>4, <2>5, <2>6, <2>7 DEF Next, Guard
<1> QED BY <1>1, <1>2, TypeCorrect, PTL DEF Spec

-----------------------------------------------------------------------------
(* Revocation *)

\* Until one of them is found, the markers that were there when a request arrived
\* are there and still to be looked up.
MarkersAhead ==
  \A r \in Requests :
    /\ late[r] \subseteq revoked
    /\ gpc[r] = "verify" => late[r] \subseteq Markers(token[r])
    /\ gpc[r] = "lookup" => late[r] \subseteq pending[r]
    /\ gpc[r] = "accepted" => late[r] = {}

\* A lookup that settles leaves the others ahead.
LEMMA SettledAhead ==
  ASSUME TypeOK, MarkersAhead, NEW r \in Requests, gpc[r] \in {"lookup", "marked"},
         NEW k, NEW hit \in BOOLEAN, Settled(r, k, hit),
         gpc[r] = "marked" => hit,
         late' = late \/ late' = [late EXCEPT ![r] = @ \ {k}],
         ~hit => k \notin late'[r],
         UNCHANGED <<revoked, token>>
  PROVE  MarkersAhead'
<1>1. ASSUME NEW q \in Requests \ {r}
      PROVE  late'[q] = late[q] /\ gpc'[q] = gpc[q] /\ pending'[q] = pending[q]
  BY DEF Settled, TypeOK
<1>2. late'[r] \subseteq late[r]
  BY DEF TypeOK
<1>3. gpc'[r] \in {"marked", "lookup", "revoked", "accepted"}
  BY DEF Settled, TypeOK
<1>4. ASSUME gpc'[r] \in {"lookup", "accepted"}
      PROVE  late'[r] \subseteq pending[r] \ {k} /\ (gpc'[r] = "accepted" => pending[r] = {k})
  <2>1. ~hit /\ (gpc'[r] = "accepted" => pending[r] = {k})
    BY <1>4 DEF Settled, TypeOK
  <2>2. late[r] \subseteq pending[r]
    BY <2>1 DEF MarkersAhead
  <2> QED BY <1>2, <2>1, <2>2
<1>5. pending'[r] = pending[r] \ {k}
  BY DEF Settled, TypeOK
<1> QED BY <1>1, <1>2, <1>3, <1>4, <1>5 DEF MarkersAhead

\* A token or device that was revoked before the request arrived is refused, unless
\* the lookup of that marker failed.
THEOREM RevokedAlwaysRefused == Spec => []RevokedIsRefused
<1>1. Init => MarkersAhead
  BY DEF Init, MarkersAhead
<1>2. TypeOK /\ MarkersAhead /\ [Next]_vars => MarkersAhead'
  <2> SUFFICES ASSUME TypeOK, MarkersAhead, [Next]_vars PROVE MarkersAhead'
    OBVIOUS
  <2>1. CASE \/ LoaderStep \/ Destroy \/ EndpointChanges
             \/ \E p \in Probes : Probe(p)
    <3>1. UNCHANGED <<guardVars, revoked>>
      BY <2>1 DEF LoaderStep, Responds, Fetched, FetchFails, Wake, BgWake, Destroy, EndpointChanges,
                  Probe, Ask, DependencyAnswers, DependencyFails, AskKey
    <3> QED BY <3>1 DEF MarkersAhead, guardVars, Markers
  <2>2. ASSUME NEW r \in Requests, NEW t \in Tokens, Arrive(r, t) PROVE MarkersAhead'
    <3>1. /\ late'[r] = Markers(t) \cap revoked /\ token'[r] = t
          /\ gpc'[r] \in {"verify", "noKey"} /\ UNCHANGED <<revoked, pending>>
      BY <2>2 DEF Arrive, TypeOK
    <3>2. \A q \in Requests \ {r} :
            late'[q] = late[q] /\ token'[q] = token[q] /\ gpc'[q] = gpc[q]
      BY <2>2 DEF Arrive, TypeOK
    <3> QED BY <3>1, <3>2 DEF MarkersAhead, Markers
  <2>3. ASSUME NEW r \in Requests, Verify(r) PROVE MarkersAhead'
    <3>1. \/ gpc'[r] = "lookup" /\ pending'[r] = Markers(token[r])
          \/ gpc'[r] = "invalid"
      BY <2>3 DEF Verify, TypeOK, MarkersOf
    <3>2. UNCHANGED <<late, token, revoked>> /\ gpc[r] = "verify"
      BY <2>3 DEF Verify
    <3>3. \A q \in Requests \ {r} : gpc'[q] = gpc[q] /\ pending'[q] = pending[q]
      BY <2>3 DEF Verify, TypeOK
    <3> QED BY <3>1, <3>2, <3>3 DEF MarkersAhead, Markers
  <2>4. ASSUME NEW r \in Requests, NEW k \in Tokens \cup Devices, LookUp(r, k)
        PROVE  MarkersAhead'
    <3> DEFINE hit == gpc[r] = "marked" \/ k \in revoked
    <3>1. ~hit => k \notin late'[r]
      BY <2>4 DEF LookUp, MarkersAhead
    <3>2. /\ gpc[r] \in {"lookup", "marked"} /\ Settled(r, k, hit) /\ late' = late
          /\ UNCHANGED <<revoked, token>> /\ hit \in BOOLEAN /\ (gpc[r] = "marked" => hit)
      BY <2>4 DEF LookUp
    <3> QED BY <3>1, <3>2, SettledAhead
  <2>5. ASSUME NEW r \in Requests, NEW k \in Tokens \cup Devices, LookUpFails(r, k)
        PROVE  MarkersAhead'
    <3> DEFINE hit == gpc[r] = "marked"
    <3>1. /\ gpc[r] \in {"lookup", "marked"} /\ late' = [late EXCEPT ![r] = @ \ {k}]
          /\ UNCHANGED <<revoked, token>> /\ hit \in BOOLEAN
      BY <2>5 DEF LookUpFails
    <3>2. k \notin late'[r] /\ late'[r] \subseteq late[r]
      BY <3>1 DEF TypeOK
    <3>3. CASE Settled(r, k, hit)
      BY <3>1, <3>2, <3>3, SettledAhead
    <3>4. CASE pending' = [pending EXCEPT ![r] = {}] /\ gpc' = [gpc EXCEPT ![r] = "error"]
      <4>1. gpc'[r] = "error" /\ \A q \in Requests \ {r} :
              late'[q] = late[q] /\ gpc'[q] = gpc[q] /\ pending'[q] = pending[q]
        BY <3>1, <3>4 DEF TypeOK
      <4> QED BY <3>1, <3>2, <4>1 DEF MarkersAhead, Markers
    <3> QED BY <2>5, <3>3, <3>4 DEF LookUpFails
  <2>6. ASSUME NEW k \in Tokens \cup Devices, Revoke(k) PROVE MarkersAhead'
    BY <2>6 DEF Revoke, MarkersAhead, guardVars, Markers
  <2>7. CASE UNCHANGED vars
    BY <2>7 DEF vars, MarkersAhead, guardVars, Markers
  <2> QED BY <2>1, <2>2, <2>3, <2>4, <2>5, <2>6, <2>7 DEF Next, Guard
<1>3. MarkersAhead => RevokedIsRefused
  BY DEF MarkersAhead, RevokedIsRefused
<1> QED BY <1>1, <1>2, <1>3, TypeCorrect, PTL DEF Spec

-----------------------------------------------------------------------------
(* Destruction *)

\* No step of any loop starts a fetch once the module is destroyed.
THEOREM NoFetchOnceDestroyed == Spec => NoFetchAfterDestroy
<1>1. [Next]_vars => [destroyed /\ lpc' \in {"fetch", "bgFetch"} => lpc' = lpc]_vars
  <2> SUFFICES ASSUME Next, destroyed, lpc' \in {"fetch", "bgFetch"} PROVE lpc' = lpc
    BY DEF vars
  <2>1. CASE LoaderStep
    BY <2>1 DEF LoaderStep, Responds, Fetched, FetchFails, Wake, BgWake, Sleep, Background
  <2>2. CASE ~LoaderStep
    BY <2>2 DEF Next, Destroy, EndpointChanges, Revoke, Guard, Arrive, Verify, LookUp,
                LookUpFails, Probe, Ask, DependencyAnswers, DependencyFails, AskKey, loaderVars
  <2> QED BY <2>1, <2>2
<1> QED BY <1>1, PTL DEF Spec, NoFetchAfterDestroy

-----------------------------------------------------------------------------
(* The lifecycle rules of the bucket.                                      *)

\* The configuration, the rules and the replicas keep their types.
THEOREM RulesTypeCorrect == RulesSpec => []RulesTypeOK
<1>1. RulesInit => RulesTypeOK
  <2> SUFFICES ASSUME RulesInit PROVE RulesTypeOK
    OBVIOUS
  <2>1. raced \in BOOLEAN
    BY DEF RulesInit
  <2> QED BY <2>1 DEF RulesInit, RulesTypeOK, Configs, Absent
<1>2. RulesTypeOK /\ [RulesNext]_rulesVars => RulesTypeOK'
  <2> SUFFICES ASSUME RulesTypeOK, [RulesNext]_rulesVars PROVE RulesTypeOK'
    OBVIOUS
  <2> USE DEF RulesTypeOK, Configs, bucket, To
  <2>1. ASSUME NEW r \in Replicas, Get(r) PROVE RulesTypeOK'
    BY <2>1 DEF Get, OtherRules
  <2>2. ASSUME NEW r \in Replicas, Put(r) PROVE RulesTypeOK'
    BY <2>2 DEF Put, PutRules
  <2>3. ASSUME NEW r \in Replicas, Fails(r) PROVE RulesTypeOK'
    BY <2>3 DEF Fails, PutRules
  <2>4. ASSUME NEW r \in Replicas, Restart(r) PROVE RulesTypeOK'
    BY <2>4 DEF Restart
  <2>5. ASSUME NEW t \in Configs, Deploy(t) PROVE RulesTypeOK'
    BY <2>5 DEF Deploy
  <2>6. ASSUME NEW o \in Others, Administer(o) PROVE RulesTypeOK'
    <3>1. raced' \in BOOLEAN
      BY <2>6 DEF Administer
    <3> QED BY <2>6, <3>1 DEF Administer
  <2>7. CASE UNCHANGED rulesVars
    BY <2>7 DEF rulesVars
  <2> QED BY <2>1, <2>2, <2>3, <2>4, <2>5, <2>6, <2>7 DEF RulesNext
<1> QED BY <1>1, <1>2, PTL DEF RulesSpec

\* A replica whose bootstrap succeeded found its TTLs in the bucket or put them
\* there; so when the last of them is through, some replica's are there.
AppliedInv ==
  (\A r \in Replicas : pc[r] = "done") => \E r \in Replicas : ours = want[r]

\* A change of TTLs is applied: once every replica runs those deployed and its
\* bootstrap succeeded, the bucket has them.
THEOREM ChangeIsAlwaysApplied ==
  ASSUME Replicas # {}
  PROVE  RulesSpec => []ChangeIsApplied
<1>1. RulesInit => AppliedInv
  BY DEF RulesInit, AppliedInv
<1>2. RulesTypeOK /\ AppliedInv /\ [RulesNext]_rulesVars => AppliedInv'
  <2> SUFFICES ASSUME RulesTypeOK, AppliedInv, [RulesNext]_rulesVars
               PROVE  AppliedInv'
    OBVIOUS
  <2> USE DEF To
  <2>0. /\ pc \in [Replicas -> {"get", "put", "done", "failed"}]
        /\ want \in [Replicas -> Configs]
    BY DEF RulesTypeOK
  <2>1. ASSUME NEW r \in Replicas, Get(r) PROVE AppliedInv'
    <3>1. CASE ours = want[r]
      BY <2>1, <3>1 DEF Get, bucket, AppliedInv
    <3>2. CASE ours # want[r]
      BY <2>0, <2>1, <3>2 DEF Get, UpToDate, AppliedInv
    <3> QED BY <3>1, <3>2
  <2>2. ASSUME NEW r \in Replicas, Put(r) PROVE AppliedInv'
    BY <2>2 DEF Put, PutRules, AppliedInv
  <2>3. ASSUME NEW r \in Replicas, Fails(r) \/ Restart(r) PROVE AppliedInv'
    <3>1. pc'[r] \in {"failed", "get"}
      BY <2>0, <2>3 DEF Fails, Restart
    <3> QED BY <3>1 DEF AppliedInv
  <2>4. CASE UNCHANGED <<ours, pc, want>>
    BY <2>4 DEF AppliedInv
  <2> QED BY <2>1, <2>2, <2>3, <2>4
          DEF RulesNext, Deploy, Administer, rulesVars, bucket
<1>3. AppliedInv => ChangeIsApplied
  BY DEF AppliedInv, ChangeIsApplied
<1> QED BY <1>1, <1>2, <1>3, RulesTypeCorrect, PTL DEF RulesSpec

\* Until an administrator comes between a GET and its PUT, what a replica is about
\* to put is what is there.
MergedInv ==
  ~raced => /\ others = expected
            /\ \A r \in Replicas : pc[r] = "put" => got[r] = others

\* The rules of administrators survive every replacement of the configuration,
\* unless one was changed between a GET and its PUT.
THEOREM OthersAreAlwaysKept == RulesSpec => []OthersAreKept
<1>1. RulesInit => MergedInv
  BY DEF RulesInit, MergedInv
<1>2. RulesTypeOK /\ MergedInv /\ [RulesNext]_rulesVars => MergedInv'
  <2> SUFFICES ASSUME RulesTypeOK, MergedInv, [RulesNext]_rulesVars, ~raced'
               PROVE  /\ others' = expected'
                      /\ \A r \in Replicas : pc'[r] = "put" => got'[r] = others'
    BY DEF MergedInv
  <2> USE DEF To, bucket
  <2>0. /\ pc \in [Replicas -> {"get", "put", "done", "failed"}]
        /\ got \in [Replicas -> SUBSET Others]
    BY DEF RulesTypeOK
  <2>1. ~raced
    <3>1. CASE \E o \in Others : Administer(o)
      BY <3>1 DEF Administer
    <3>2. CASE UNCHANGED raced
      BY <3>2
    <3> QED BY <3>1, <3>2 DEF RulesNext, Get, Put, Fails,
               Restart, Deploy, rulesVars
  <2>2. others = expected /\ \A r \in Replicas : pc[r] = "put" => got[r] = others
    BY <2>1 DEF MergedInv
  <2>3. ASSUME NEW r \in Replicas, Get(r) PROVE MergedInv'
    BY <2>0, <2>2, <2>3 DEF Get, OtherRules, MergedInv
  <2>4. ASSUME NEW r \in Replicas, Put(r) \/ Fails(r) PROVE MergedInv'
    <3>1. others' = others /\ UNCHANGED <<got, expected>>
      BY <2>2, <2>4 DEF Put, Fails, PutRules
    <3>2. \A s \in Replicas : pc'[s] = "put" => pc[s] = "put"
      BY <2>0, <2>4 DEF Put, Fails
    <3> QED BY <2>2, <3>1, <3>2 DEF MergedInv
  <2>5. ASSUME NEW r \in Replicas, Restart(r) PROVE MergedInv'
    BY <2>0, <2>2, <2>5 DEF Restart, MergedInv
  <2>6. ASSUME NEW o \in Others, Administer(o) PROVE MergedInv'
    <3>1. \A r \in Replicas : pc[r] # "put"
      BY <2>6 DEF Administer
    <3>2. others' = expected' /\ pc' = pc
      BY <2>2, <2>6 DEF Administer
    <3> QED BY <3>1, <3>2 DEF MergedInv
  <2>7. CASE UNCHANGED <<others, expected, pc, got>>
    BY <2>2, <2>7
  <2>8. MergedInv' => /\ others' = expected'
                      /\ \A r \in Replicas : pc'[r] = "put" => got'[r] = others'
    BY DEF MergedInv
  <2> QED BY <2>3, <2>4, <2>5, <2>6, <2>7, <2>8
          DEF RulesNext, Deploy, rulesVars
<1>3. MergedInv => OthersAreKept
  BY DEF MergedInv, OthersAreKept
<1> QED BY <1>1, <1>2, <1>3, RulesTypeCorrect, PTL DEF RulesSpec

-----------------------------------------------------------------------------
(* The partitions of the access log.                                       *)

\* What gives a month up excuses no other.
LEMMA OnlyThatMonth ==
  /\ \A T, m : LeftBy(T, m) \subseteq {m}
  /\ \A t \in Tasks : GivesUp(t) => excused' \subseteq excused \cup {tmonth[t]}
<1>1. \A T, m : LeftBy(T, m) \subseteq {m}
  BY DEF LeftBy
<1> QED BY <1>1 DEF GivesUp

\* The tasks, the lock and the partitions keep their types.
THEOREM MonthsTypeCorrect == MonthsSpec => []MonthsTypeOK
<1> USE MonthsAssumption DEF MonthsTypeOK, TaskPC, Ended, Working
<1>1. MonthsInit => MonthsTypeOK
  <2> SUFFICES ASSUME MonthsInit PROVE MonthsTypeOK
    OBVIOUS
  <2>1. month \in 0..MaxMonth /\ excused \subseteq Nat
    BY DEF MonthsInit
  <2> QED BY <2>1 DEF MonthsInit
<1>2. MonthsTypeOK /\ [MonthsNext]_monthsVars => MonthsTypeOK'
  <2> SUFFICES ASSUME MonthsTypeOK, [MonthsNext]_monthsVars
               PROVE  MonthsTypeOK'
    OBVIOUS
  <2>a. \A t \in Tasks : GivesUp(t) => excused' \subseteq Nat
    BY OnlyThatMonth
  <2>1. ASSUME NEW t \in Tasks, TryLock(t) PROVE MonthsTypeOK'
    <3>1. excused' \subseteq Nat
      BY <2>1, <2>a DEF TryLock
    <3>2. tpc' \in [Tasks -> TaskPC]
      BY <2>1 DEF TryLock, Goto
    <3>3. held' \in [Conns -> Nat]
      BY <2>1 DEF TryLock, Grant
    <3> QED BY <2>1, <3>1, <3>2, <3>3 DEF TryLock
  <2>2. ASSUME NEW t \in Tasks, CreatePartition(t) PROVE MonthsTypeOK'
    <3>1. excused' \subseteq Nat
      BY <2>2, <2>a DEF CreatePartition
    <3>2. tpc' \in [Tasks -> TaskPC]
      BY <2>2 DEF CreatePartition, Goto
    <3>3. partitions' \subseteq Nat
      <4>1. tmonth[t] \in Nat /\ partitions \subseteq Nat
        OBVIOUS
      <4>2. partitions' \in {partitions, partitions \cup {tmonth[t]}}
        BY <2>2 DEF CreatePartition
      <4> QED BY <4>1, <4>2
    <3> QED BY <2>2, <3>1, <3>2, <3>3 DEF CreatePartition
  <2>3. ASSUME NEW t \in Tasks, Unlock(t) PROVE MonthsTypeOK'
    <3>1. tpc' \in [Tasks -> TaskPC]
      BY <2>3 DEF Unlock, Goto
    <3>2. held' \in [Conns -> Nat]
      BY <2>3 DEF Unlock, Free
    <3>3. exposed' \subseteq Replicas
      BY <2>3 DEF Unlock
    <3> QED BY <2>3, <3>1, <3>2, <3>3 DEF Unlock
  <2>4. ASSUME NEW r \in Replicas, Start(r) \/ CronFires(r)
        PROVE  MonthsTypeOK'
    <3>1. /\ \E t \in Tasks, m \in Nat :
               /\ tpc' = [tpc EXCEPT ![t] = "lock"]
               /\ tmonth' = [tmonth EXCEPT ![t] = m]
          /\ running' \in {running, running \cup {r}} /\ due' \in {due, due \ {r}}
          /\ UNCHANGED <<month, held, partitions, inDefault, exposed, excused>>
      <4>1. <<r, "boot">> \in Tasks /\ <<r, "cron">> \in Tasks
        BY DEF Tasks
      <4>2. month \in Nat /\ month + 1 \in Nat
        OBVIOUS
      <4>3. CASE Start(r)
        BY <4>1, <4>2, <4>3 DEF Start, Launch
      <4>4. CASE CronFires(r)
        BY <4>1, <4>2, <4>4 DEF CronFires, Launch, NextMonth
      <4> QED BY <2>4, <4>3, <4>4
    <3>2. due' \subseteq running' /\ running' \subseteq Replicas
      BY <3>1
    <3>3. tpc' \in [Tasks -> TaskPC] /\ tmonth' \in [Tasks -> Nat]
      BY <3>1
    <3> QED BY <3>1, <3>2, <3>3
  <2>5. ASSUME NEW r \in Replicas, Stop(r) PROVE MonthsTypeOK'
    <3>1. excused' \subseteq excused \cup {month + 1}
      BY <2>5, OnlyThatMonth DEF Stop
    <3>2. month + 1 \in Nat
      OBVIOUS
    <3>3. /\ running' = running \ {r} /\ due' = due \ {r} /\ exposed' = exposed \ {r}
          /\ tpc' = [t \in Tasks |-> IF t[1] = r THEN "idle" ELSE tpc[t]]
          /\ tmonth' = [t \in Tasks |-> IF t[1] = r THEN 0 ELSE tmonth[t]]
          /\ held' = [c \in Conns |-> IF c[1] = r THEN 0 ELSE held[c]]
          /\ UNCHANGED <<month, partitions, inDefault>>
      BY <2>5 DEF Stop
    <3> QED BY <3>1, <3>2, <3>3
  <2>6. ASSUME NEW c \in Conns, Close(c) PROVE MonthsTypeOK'
    <3>1. exposed' \subseteq Replicas
      BY <2>6 DEF Close, Conns, Busy, Tasks
    <3> QED BY <2>6, <3>1 DEF Close
  <2>7. CASE Log
    BY <2>7 DEF Log
  <2>8. CASE NewMonth
    <3>1. month' \in 0..MaxMonth /\ month + 2 \in Nat
      BY <2>8 DEF NewMonth
    <3>2. due' \subseteq running /\ excused' \subseteq excused \cup {month + 2}
      BY <2>8 DEF NewMonth
    <3> QED BY <2>8, <3>1, <3>2 DEF NewMonth
  <2>9. CASE UNCHANGED monthsVars
    BY <2>9 DEF monthsVars
  <2> QED BY <2>1, <2>2, <2>3, <2>4, <2>5, <2>6, <2>7, <2>8, <2>9 DEF MonthsNext
<1> QED BY <1>1, <1>2, PTL DEF MonthsSpec

\* How many tasks may count on a session's lock.
Load(c) == Cardinality(WorkersOf(c))

\* They can be counted, before and after a step, and a task that works counts.
LEMMA WorkersCounted ==
  ASSUME NEW c \in Conns
  PROVE  /\ IsFiniteSet(WorkersOf(c)) /\ Load(c) \in Nat
         /\ IsFiniteSet(WorkersOf(c)') /\ Load(c)' \in Nat
         /\ \A t \in WorkersOf(c) : Load(c) > 0
<1> DEFINE two == {<<c[1], "boot">>} \cup {<<c[1], "cron">>}
<1>1. IsFiniteSet(two)
  BY FS_Singleton, FS_Union
<1>2. WorkersOf(c) \subseteq two
  BY DEF WorkersOf, ConnsOf, Tasks
<1>3. WorkersOf(c)' \subseteq two
  BY DEF WorkersOf, ConnsOf, Tasks
<1>4. IsFiniteSet(WorkersOf(c)) /\ Load(c) \in Nat
  BY <1>1, <1>2, FS_Subset, FS_CardinalityType DEF Load
<1> DEFINE W == WorkersOf(c)'
<1>5. IsFiniteSet(W) /\ Cardinality(W) \in Nat
  <2>1. W \subseteq two
    BY <1>3
  <2> HIDE DEF W
  <2> QED BY <1>1, <2>1, FS_Subset, FS_CardinalityType
<1>6. Load(c)' = Cardinality(W)
  BY DEF Load
<1>7. ASSUME NEW t \in WorkersOf(c) PROVE Load(c) # 0
  BY <1>4, <1>7, FS_EmptySet DEF Load
<1>8. \A t \in WorkersOf(c) : Load(c) > 0
  BY <1>4, <1>7
<1> QED BY <1>4, <1>5, <1>6, <1>8

\* What the lock invariant says of a task that is working.
LEMMA WorkerHolds ==
  ASSUME MonthsTypeOK, LockCoversWork,
         NEW t \in Tasks, tpc[t] \in Working, t[1] \notin exposed
  PROVE  \E d \in Conns :
           d[1] = t[1] /\ held[d] >= Load(d) /\ Load(d) > 0 /\ held[d] > 0
<1>1. PICK d \in ConnsOf(t) : held[d] >= Load(d)
  BY DEF LockCoversWork, Load
<1>2. d \in Conns /\ t \in WorkersOf(d) /\ d[1] = t[1]
  BY <1>1 DEF ConnsOf, WorkersOf
<1>3. Load(d) > 0 /\ Load(d) \in Nat /\ held[d] \in Nat
  BY <1>2, WorkersCounted DEF MonthsTypeOK
<1>4. held[d] > 0
  BY <1>1, <1>3
<1> QED BY <1>1, <1>2, <1>3, <1>4

\* A session that has the lock has it for every task that is working.
LEMMA HolderCovers ==
  ASSUME MonthsTypeOK, LockCoversWork,
         NEW t \in Tasks, tpc[t] \in Working, t[1] \notin exposed,
         NEW c \in Conns, held[c] > 0
  PROVE  c[1] = t[1] /\ held[c] >= Load(c)
<1>1. PICK d \in Conns : d[1] = t[1] /\ held[d] >= Load(d) /\ held[d] > 0
  BY WorkerHolds
<1>2. c = d
  BY <1>1 DEF LockCoversWork
<1> QED BY <1>1, <1>2

\* Where every task that works has its lock, one replica at a time creates.
LEMMA OneReplica ==
  ASSUME MonthsTypeOK, LockCoversWork
  PROVE  OneReplicaCreates
<1> SUFFICES ASSUME NEW t \in Tasks, NEW u \in Tasks,
                    tpc[t] = "create", tpc[u] = "create",
                    t[1] \notin exposed, u[1] \notin exposed
             PROVE  t[1] = u[1]
  BY DEF OneReplicaCreates
<1>1. tpc[t] \in Working /\ tpc[u] \in Working
  BY DEF Working
<1>2. PICK d \in Conns : d[1] = t[1] /\ held[d] > 0
  BY <1>1, WorkerHolds
<1>3. d[1] = u[1]
  BY <1>1, <1>2, HolderCovers
<1> QED BY <1>2, <1>3

\* Nobody starts to work, and a session that loses the lock leaves no worker behind
\* that is not known to be exposed.
LEMMA LockKept ==
  ASSUME MonthsTypeOK, LockCoversWork,
         \A t \in Tasks : tpc'[t] \in Working /\ t[1] \notin exposed'
                          => tpc[t] \in Working /\ t[1] \notin exposed,
         \A t \in Tasks : tpc'[t] \in Working => tpc[t] \in Working,
         \A c \in Conns :
           \/ held'[c] = held[c]
           \/ held'[c] = 0 /\ \A t \in Tasks : c[1] = t[1] =>
                                  tpc'[t] \notin Working \/ t[1] \in exposed'
  PROVE  LockCoversWork'
<1>1. ASSUME NEW c \in Conns, NEW d \in Conns, held'[c] > 0, held'[d] > 0
      PROVE  c = d
  <2>1. held[c] > 0 /\ held[d] > 0
    BY <1>1
  <2> QED BY <2>1 DEF LockCoversWork
<1>2. ASSUME NEW t \in Tasks, tpc'[t] \in Working, t[1] \notin exposed'
      PROVE  \E c \in ConnsOf(t) : held'[c] >= Load(c)'
  <2>1. PICK c \in Conns : c[1] = t[1] /\ held[c] >= Load(c)
    BY <1>2, WorkerHolds
  <2>2. held'[c] = held[c] /\ c \in ConnsOf(t)
    BY <1>2, <2>1 DEF ConnsOf
  <2> DEFINE W == WorkersOf(c)'
             after == Cardinality(W)
             before == Load(c)
             now == held[c]
  <2>3. W \subseteq WorkersOf(c)
    BY DEF WorkersOf, ConnsOf
  <2>4. Load(c)' = after
    BY DEF Load
  <2> HIDE DEF W
  <2>5. after <= before /\ after \in Nat /\ before \in Nat
    BY <2>3, WorkersCounted, FS_Subset, FS_CardinalityType DEF Load
  <2>6. now \in Nat /\ now >= before
    BY <2>1 DEF MonthsTypeOK
  <2> HIDE DEF after, before, now
  <2>7. now >= after
    BY <2>5, <2>6
  <2> QED BY <2>2, <2>4, <2>7 DEF now
<1>3. \A c : Load(c)' = Cardinality(WorkersOf(c)')
  BY DEF Load
<1> QED BY <1>1, <1>2, <1>3 DEF LockCoversWork

\* A session that gets the lock has it once more, for one task more.
LEMMA GrantKeeps ==
  ASSUME MonthsTypeOK, LockCoversWork,
         NEW t \in Tasks, NEW c \in ConnsOf(t),
         tpc[t] = "lock", Grant(c), Goto(t, "create"), UNCHANGED exposed
  PROVE  LockCoversWork'
<1>1. c \in Conns /\ c[1] = t[1]
  BY DEF ConnsOf
<1>2. /\ \A d \in Conns : held[d] > 0 => d = c
      /\ held'[c] = held[c] + 1
      /\ \A d \in Conns : d # c => held'[d] = held[d]
  BY <1>1 DEF Grant, MonthsTypeOK
<1>3. /\ \A u \in Tasks : u # t => tpc'[u] = tpc[u]
      /\ tpc'[t] \in Working /\ tpc[t] \notin Working
  BY DEF Goto, MonthsTypeOK, Working
<1>4. ASSUME NEW u \in Tasks, tpc[u] \in Working, u[1] \notin exposed
      PROVE  c[1] = u[1] /\ held[c] >= Load(c)
  BY <1>1, <1>2, <1>4, WorkerHolds, HolderCovers
<1>5. ASSUME t[1] \notin exposed PROVE held[c] >= Load(c)
  <2>1. CASE WorkersOf(c) = {}
    <3>1. Load(c) = 0
      BY <2>1, FS_EmptySet DEF Load
    <3>2. held[c] \in Nat
      BY <1>1 DEF MonthsTypeOK
    <3> QED BY <3>1, <3>2
  <2>2. ASSUME NEW u \in WorkersOf(c) PROVE held[c] >= Load(c)
    <3>1. u \in Tasks /\ tpc[u] \in Working /\ u[1] = t[1]
      BY <1>1 DEF WorkersOf, ConnsOf
    <3> QED BY <1>4, <1>5, <3>1
  <2> QED BY <2>1, <2>2
<1> DEFINE W == WorkersOf(c)'
           after == Cardinality(W)
           before == Load(c)
           now == held[c]
<1>6. W = WorkersOf(c) \cup {t} /\ t \notin WorkersOf(c)
  BY <1>1, <1>3 DEF WorkersOf, ConnsOf
<1>7. Load(c)' = after
  BY DEF Load
<1>8. now \in Nat /\ before \in Nat /\ held'[c] = now + 1
  BY <1>1, <1>2, WorkersCounted DEF MonthsTypeOK
<1>a. t[1] \notin exposed => now >= before
  BY <1>5
<1> HIDE DEF W
<1>9. after = before + 1
  BY <1>1, <1>6, WorkersCounted, FS_AddElement DEF Load
<1> HIDE DEF after, before, now
<1>10. t[1] \notin exposed => held'[c] >= Load(c)'
  <2> SUFFICES ASSUME t[1] \notin exposed PROVE held'[c] >= Load(c)'
    OBVIOUS
  <2>1. now + 1 >= before + 1
    BY <1>8, <1>a
  <2> QED BY <1>7, <1>8, <1>9, <2>1
<1>11. \A u \in Tasks : tpc'[u] \in Working /\ u[1] \notin exposed
                       => c \in ConnsOf(u) /\ u[1] = t[1]
  BY <1>1, <1>3, <1>4 DEF ConnsOf
<1>12. \A d, e \in Conns : held'[d] > 0 /\ held'[e] > 0 => d = e
  <2>1. \A d \in Conns : held'[d] > 0 => d = c
    BY <1>2
  <2> QED BY <2>1
<1>13. Load(c)' = Cardinality(WorkersOf(c)')
  BY DEF Load
<1>14. \A u \in Tasks : tpc'[u] \in Working /\ u[1] \notin exposed' =>
          \E d \in ConnsOf(u) : held'[d] >= Cardinality(WorkersOf(d)')
  BY <1>10, <1>11, <1>13
<1> QED BY <1>12, <1>14 DEF LockCoversWork

\* A session that unlocks has it once less, for one task less; one without the lock
\* takes it from nobody.
LEMMA FreeKeeps ==
  ASSUME MonthsTypeOK, LockCoversWork,
         NEW t \in Tasks, NEW c \in ConnsOf(t), NEW s \in Ended,
         tpc[t] \in Working, Free(c), Goto(t, s),
         \A u \in Tasks : tpc'[u] \in Working /\ u[1] \notin exposed' => u[1] \notin exposed
  PROVE  LockCoversWork'
<1>1. c \in Conns /\ c[1] = t[1]
  BY DEF ConnsOf
<1>2. \A d \in Conns : /\ held[d] \in Nat
                       /\ d # c => held'[d] = held[d]
                       /\ \/ held'[d] = held[d]
                          \/ held[d] > 0 /\ held'[d] = held[d] - 1
  BY <1>1 DEF Free, MonthsTypeOK
<1>3. /\ \A u \in Tasks : u # t => tpc'[u] = tpc[u]
      /\ tpc'[t] \notin Working
  BY DEF Goto, MonthsTypeOK, Working, Ended
<1>4. \A d, e \in Conns : held'[d] > 0 /\ held'[e] > 0 => d = e
  <2>1. \A d \in Conns : held'[d] > 0 => held[d] > 0
    BY <1>2
  <2> QED BY <2>1 DEF LockCoversWork
<1>5. ASSUME NEW u \in Tasks, tpc'[u] \in Working, u[1] \notin exposed'
      PROVE  \E d \in ConnsOf(u) : held'[d] >= Cardinality(WorkersOf(d)')
  <2>1. u # t /\ tpc[u] \in Working /\ u[1] \notin exposed
    BY <1>3, <1>5
  <2>2. PICK d \in Conns : d[1] = u[1] /\ held[d] >= Load(d) /\ held[d] > 0
    BY <2>1, WorkerHolds
  <2> DEFINE W == WorkersOf(d)'
             after == Cardinality(W)
             before == Load(d)
             now == held[d]
  <2>3. now \in Nat /\ before \in Nat /\ now >= before
    BY <1>2, <2>2, WorkersCounted
  <2>4. held'[d] = now \/ held'[d] = now - 1
    BY <1>2, <2>2
  <2>5. d \in ConnsOf(u)
    BY <2>2 DEF ConnsOf
  <2>6. CASE d[1] = t[1]
    <3>1. W = WorkersOf(d) \ {t} /\ t \in WorkersOf(d)
      BY <1>3, <2>6 DEF WorkersOf, ConnsOf
    <3> HIDE DEF W
    <3>2. after = before - 1
      BY <3>1, WorkersCounted, FS_RemoveElement DEF Load
    <3> HIDE DEF after, before, now
    <3>3. held'[d] >= after
      <4>1. now >= before - 1 /\ now - 1 >= before - 1
        BY <2>3
      <4> QED BY <2>4, <3>2, <4>1
    <3> QED BY <2>5, <3>3 DEF after, W
  <2>7. CASE d[1] # t[1]
    <3>1. W \subseteq WorkersOf(d)
      BY <1>3 DEF WorkersOf, ConnsOf
    <3>2. held'[d] = now
      BY <1>1, <1>2, <2>7
    <3> HIDE DEF W
    <3>3. after <= before /\ after \in Nat
      BY <3>1, WorkersCounted, FS_Subset, FS_CardinalityType DEF Load
    <3> HIDE DEF after, before, now
    <3>4. held'[d] >= after
      BY <2>3, <3>2, <3>3
    <3> QED BY <2>5, <3>4 DEF after, W
  <2> QED BY <2>6, <2>7
<1> QED BY <1>4, <1>5 DEF LockCoversWork

\* The lock covers the work, whatever fails: the sessions of a replica share its fate,
\* and a task that unlocks through a connection without the lock leaves it behind.
THEOREM LockAlwaysCovers == MonthsSpec => []LockInv
<1> USE MonthsAssumption
<1>1. MonthsInit => LockCoversWork
  <2> SUFFICES ASSUME MonthsInit PROVE LockCoversWork
    OBVIOUS
  <2>1. \A t \in Tasks : tpc[t] \notin Working
    BY DEF MonthsInit, Working
  <2>2. \A c \in Conns : ~(held[c] > 0)
    BY DEF MonthsInit
  <2> QED BY <2>1, <2>2 DEF LockCoversWork
<1>2. MonthsTypeOK /\ LockCoversWork /\ [MonthsNext]_monthsVars
      => LockCoversWork'
  <2> SUFFICES ASSUME MonthsTypeOK, LockCoversWork, [MonthsNext]_monthsVars
               PROVE  LockCoversWork'
    OBVIOUS
  <2>0. /\ tpc \in [Tasks -> TaskPC]
        /\ held \in [Conns -> Nat]
    BY DEF MonthsTypeOK
  <2>1. ASSUME NEW t \in Tasks, TryLock(t) PROVE LockCoversWork'
    <3>0. UNCHANGED exposed
      BY <2>1 DEF TryLock
    <3>1. ASSUME NEW c \in ConnsOf(t), Grant(c), Goto(t, "create")
          PROVE  LockCoversWork'
      BY <2>1, <3>0, <3>1, GrantKeeps DEF TryLock
    <3>2. CASE (Goto(t, "skipped") \/ Goto(t, "failed")) /\ UNCHANGED held
      <4>1. \A u \in Tasks : tpc'[u] \in Working => tpc[u] \in Working
        BY <2>0, <3>2 DEF Goto, Working
      <4> QED BY <3>0, <3>2, <4>1, LockKept
    <3> QED BY <2>1, <3>1, <3>2 DEF TryLock
  <2>2. ASSUME NEW t \in Tasks, CreatePartition(t)
        PROVE  LockCoversWork'
    <3>1. \A u \in Tasks : tpc'[u] \in Working => tpc[u] \in Working
      BY <2>0, <2>2 DEF CreatePartition, Goto, Working
    <3>2. held' = held /\ exposed' = exposed
      BY <2>2 DEF CreatePartition
    <3> QED BY <3>1, <3>2, LockKept
  <2>3. ASSUME NEW t \in Tasks, Unlock(t) PROVE LockCoversWork'
    <3>1. PICK s \in Ended : Goto(t, s)
      BY <2>3 DEF Unlock, Ended
    <3>2. tpc[t] \in Working
      BY <2>3 DEF Unlock, Working
    <3>a. \A u \in Tasks : tpc'[u] \in Working /\ u[1] \notin exposed' => u[1] \notin exposed
      BY <2>3 DEF Unlock, Busy
    <3>3. ASSUME NEW c \in ConnsOf(t), Free(c)
          PROVE  LockCoversWork'
      BY <3>1, <3>2, <3>3, <3>a, FreeKeeps
    <3>4. CASE UNCHANGED held
      <4>1. \A u \in Tasks : tpc'[u] \in Working => tpc[u] \in Working
        BY <2>0, <3>1 DEF Goto, Working, Ended
      <4> QED BY <3>4, <3>a, <4>1, LockKept
    <3> QED BY <2>3, <3>3, <3>4 DEF Unlock
  <2>4. ASSUME NEW r \in Replicas, Start(r) \/ CronFires(r)
        PROVE  LockCoversWork'
    <3>1. \E t \in Tasks : Goto(t, "lock")
      BY <2>4 DEF Start, CronFires, Launch, Goto, Tasks
    <3>2. \A u \in Tasks : tpc'[u] \in Working => tpc[u] \in Working
      BY <2>0, <3>1 DEF Goto, Working
    <3>3. held' = held /\ exposed' = exposed
      BY <2>4 DEF Start, CronFires
    <3> QED BY <3>2, <3>3, LockKept
  <2>5. ASSUME NEW r \in Replicas, Stop(r) PROVE LockCoversWork'
    <3>1. \A u \in Tasks : /\ tpc'[u] \in Working => tpc[u] \in Working
                           /\ u[1] = r => tpc'[u] \notin Working
      BY <2>5 DEF Stop, Working
    <3>2. \A c \in Conns : \/ held'[c] = held[c]
                           \/ held'[c] = 0 /\ c[1] = r
      BY <2>5 DEF Stop
    <3>3. exposed' = exposed \ {r}
      BY <2>5 DEF Stop
    <3> QED BY <3>1, <3>2, <3>3, LockKept
  <2>6. ASSUME NEW c \in Conns, Close(c) PROVE LockCoversWork'
    <3>1. tpc' = tpc /\ exposed \subseteq exposed'
      BY <2>6 DEF Close
    <3>2. \A d \in Conns : held'[d] = held[d] \/ (d = c /\ held'[d] = 0)
      BY <2>0, <2>6 DEF Close
    <3>3. \A t \in Tasks : c[1] = t[1] => tpc[t] \notin Working \/ t[1] \in exposed'
      BY <2>6 DEF Close, Busy
    <3> QED BY <3>1, <3>2, <3>3, LockKept
  <2>7. CASE UNCHANGED <<tpc, held, exposed>>
    BY <2>7, LockKept
  <2> QED BY <2>1, <2>2, <2>3, <2>4, <2>5, <2>6, <2>7
          DEF MonthsNext, Log, NewMonth, monthsVars
<1>3. MonthsTypeOK /\ LockCoversWork => LockInv
  BY OneReplica DEF LockInv
<1> QED BY <1>1, <1>2, <1>3, MonthsTypeCorrect, PTL DEF MonthsSpec

\* Month m is taken care of: it has its partition, or is one of the exceptions.
CaredFor(m) == m \in partitions \cup excused

\* The current month is taken care of as soon as a replica serves; until then, the
\* replicas that start are about to make its partition.
ServedInv ==
  \/ CaredFor(month)
  \/ \A r \in running : tpc[<<r, "boot">>] \notin Ended /\ tmonth[<<r, "boot">>] = month

\* What keeps the rows where they belong.  The next month is taken care of, or somebody
\* sees to it.
MonthsInv ==
  /\ \A t \in Tasks : t[2] = "boot" =>
       /\ tmonth[t] <= month
       /\ tpc[t] \in {"unlock", "unlockFailed"} => CaredFor(tmonth[t])
  /\ ServedInv
  /\ CaredFor(month + 1) \/ SeeingTo(month + 1) # {}
  /\ NoneInDefault

\* A step of one task keeps it, if a bootstrap that is past its CREATE has cared for its
\* month and the next month is not left to nobody.
LEMMA TaskMonths ==
  ASSUME MonthsTypeOK, MonthsInv, NEW t \in Tasks,
         UNCHANGED <<running, month, due, tmonth, inDefault>>,
         partitions \subseteq partitions', excused \subseteq excused',
         \A u \in Tasks : u # t => tpc'[u] = tpc[u],
         t[2] = "boot" /\ tpc'[t] \notin {"lock", "create"} => CaredFor(tmonth[t])',
         SeeingTo(month + 1) # {} => CaredFor(month + 1)' \/ SeeingTo(month + 1)' # {}
  PROVE  MonthsInv'
<1>0. \A m : CaredFor(m) => CaredFor(m)'
  BY DEF CaredFor
<1>1. ASSUME NEW u \in Tasks, u[2] = "boot"
      PROVE  /\ tmonth'[u] <= month'
             /\ tpc'[u] \in {"unlock", "unlockFailed"} => CaredFor(tmonth[u])'
  <2>1. /\ tmonth[u] <= month
        /\ tpc[u] \in {"unlock", "unlockFailed"} => CaredFor(tmonth[u])
    BY <1>1 DEF MonthsInv
  <2>2. CASE u = t
    BY <1>1, <2>1, <2>2
  <2>3. CASE u # t
    <3>1. tpc[u] \in {"unlock", "unlockFailed"} => CaredFor(tmonth[u])'
      BY <1>0, <2>1 DEF CaredFor
    <3> QED BY <2>1, <2>3, <3>1
  <2> QED BY <2>2, <2>3
<1>2. ServedInv'
  <2>1. CASE CaredFor(month)
    BY <1>0, <2>1 DEF ServedInv, CaredFor
  <2>2. CASE \A r \in running : tpc[<<r, "boot">>] \notin Ended /\ tmonth[<<r, "boot">>] = month
    <3>1. ASSUME NEW r \in running, tpc'[<<r, "boot">>] \in Ended PROVE CaredFor(month)'
      <4>1. <<r, "boot">> = t /\ t[2] = "boot" /\ tmonth[t] = month
        BY <2>2, <3>1 DEF MonthsTypeOK, Tasks
      <4> QED BY <3>1, <4>1 DEF Ended, CaredFor
    <3> QED BY <2>2, <3>1 DEF ServedInv, CaredFor
  <2> QED BY <2>1, <2>2 DEF MonthsInv, ServedInv
<1>3. CaredFor(month + 1)' \/ SeeingTo(month + 1)' # {}
  BY <1>0 DEF MonthsInv, CaredFor
<1>4. NoneInDefault'
  BY DEF MonthsInv, NoneInDefault
<1>5. \A u \in Tasks : CaredFor(tmonth[u])' <=> tmonth'[u] \in partitions' \cup excused'
  BY DEF CaredFor
<1> QED BY <1>1, <1>2, <1>3, <1>4, <1>5 DEF MonthsInv, CaredFor

\* A task that gives up excuses its month, unless somebody else sees to it.
LEMMA GivesUpMonths ==
  ASSUME MonthsTypeOK, MonthsInv, NEW t \in Tasks, GivesUp(t),
         UNCHANGED <<running, month, due, tmonth, partitions, inDefault>>,
         \A u \in Tasks : u # t => tpc'[u] = tpc[u]
  PROVE  MonthsInv'
<1>1. t[2] = "boot" => CaredFor(tmonth[t])'
  BY DEF GivesUp, CaredFor
<1>2. ASSUME SeeingTo(month + 1) # {}
      PROVE  CaredFor(month + 1)' \/ SeeingTo(month + 1)' # {}
  <2>1. \A u \in SeeingTo(month + 1) : u # t => u \in SeeingTo(month + 1)'
    BY DEF SeeingTo
  <2>2. CASE SeeingTo(month + 1) \subseteq {t}
    <3>1. t \in SeeingTo(month + 1)
      BY <1>2, <2>2
    <3>2. CASE t[1] \in due /\ t[2] = "cron"
      BY <3>2 DEF SeeingTo
    <3>3. CASE tmonth[t] = month + 1
      <4>1. t[2] # "boot"
        BY <3>3 DEF MonthsInv, MonthsTypeOK
      <4>2. excused' = excused \cup ({month + 1} \ partitions)
        BY <2>2, <3>3, <4>1 DEF GivesUp, LeftBy
      <4> QED BY <4>2 DEF CaredFor
    <3> QED BY <3>1, <3>2, <3>3 DEF SeeingTo
  <2> QED BY <2>1, <2>2
<1>3. excused \subseteq excused'
  BY DEF GivesUp
<1> QED BY <1>1, <1>2, <1>3, TaskMonths

\* The lock.
LEMMA TryLockMonths ==
  ASSUME MonthsTypeOK, MonthsInv, NEW t \in Tasks, TryLock(t)
  PROVE  MonthsInv'
<1>1. /\ UNCHANGED <<running, month, due, tmonth, partitions, inDefault>>
      /\ \A u \in Tasks : u # t => tpc'[u] = tpc[u]
  BY DEF TryLock, Goto, MonthsTypeOK
<1>2. CASE GivesUp(t)
  BY <1>1, <1>2, GivesUpMonths
<1>3. CASE Goto(t, "create") /\ UNCHANGED excused
  <2>1. tpc[t] = "lock" /\ tpc'[t] = "create"
    BY <1>3 DEF TryLock, Goto, MonthsTypeOK
  <2>2. SeeingTo(month + 1) \subseteq SeeingTo(month + 1)'
    BY <1>1, <2>1 DEF SeeingTo
  <2> QED BY <1>1, <1>3, <2>1, <2>2, TaskMonths
<1> QED BY <1>2, <1>3 DEF TryLock

\* The CREATE.
LEMMA CreateMonths ==
  ASSUME MonthsTypeOK, MonthsInv, NEW t \in Tasks, CreatePartition(t)
  PROVE  MonthsInv'
<1>1. /\ UNCHANGED <<running, month, due, tmonth, inDefault>>
      /\ \A u \in Tasks : u # t => tpc'[u] = tpc[u]
  BY DEF CreatePartition, Goto, MonthsTypeOK
<1>2. CASE UNCHANGED partitions /\ GivesUp(t)
  BY <1>1, <1>2, GivesUpMonths
<1>3. CASE partitions' = partitions \cup {tmonth[t]} /\ UNCHANGED excused
  <2>1. CaredFor(tmonth[t])'
    BY <1>1, <1>3 DEF CaredFor
  <2>2. ASSUME NEW u \in SeeingTo(month + 1)
        PROVE  CaredFor(month + 1)' \/ SeeingTo(month + 1)' # {}
    <3>1. CASE u # t \/ (u[1] \in due /\ u[2] = "cron")
      <4>1. u \in SeeingTo(month + 1)'
        BY <1>1, <3>1 DEF SeeingTo
      <4> QED BY <4>1
    <3>2. CASE u = t /\ tmonth[t] = month + 1
      BY <1>1, <2>1, <3>2 DEF CaredFor
    <3> QED BY <3>1, <3>2 DEF SeeingTo
  <2> QED BY <1>1, <1>3, <2>1, <2>2, TaskMonths
<1> QED BY <1>2, <1>3 DEF CreatePartition

\* The unlock.
LEMMA UnlockMonths ==
  ASSUME MonthsTypeOK, MonthsInv, NEW t \in Tasks, Unlock(t)
  PROVE  MonthsInv'
<1>1. /\ UNCHANGED <<running, month, due, tmonth, partitions, inDefault, excused>>
      /\ \A u \in Tasks : u # t => tpc'[u] = tpc[u]
      /\ tpc[t] \in {"unlock", "unlockFailed"}
  BY DEF Unlock, Goto, MonthsTypeOK
<1>2. t[2] = "boot" => CaredFor(tmonth[t])'
  BY <1>1 DEF MonthsInv, CaredFor
<1>3. SeeingTo(month + 1) \subseteq SeeingTo(month + 1)'
  BY <1>1 DEF SeeingTo
<1> QED BY <1>1, <1>2, <1>3, TaskMonths

\* A replica that starts is about to make the partition of the current month.
LEMMA StartMonths ==
  ASSUME MonthsTypeOK, MonthsInv, NEW r \in Replicas, Start(r)
  PROVE  MonthsInv'
<1> DEFINE b == <<r, "boot">>
<1>1. /\ UNCHANGED <<month, due, partitions, inDefault, excused>>
      /\ running' = running \cup {r} /\ b \in Tasks /\ tpc[b] \in Ended
      /\ tpc'[b] = "lock" /\ tmonth'[b] = month
      /\ \A u \in Tasks : u # b => tpc'[u] = tpc[u] /\ tmonth'[u] = tmonth[u]
  BY DEF Start, Launch, Tasks, MonthsTypeOK
<1>2. month \in Nat
  BY MonthsAssumption DEF MonthsTypeOK
<1>3. ASSUME NEW u \in Tasks, u[2] = "boot"
      PROVE  /\ tmonth'[u] <= month'
             /\ tpc'[u] \in {"unlock", "unlockFailed"} => CaredFor(tmonth'[u])
  BY <1>1, <1>2, <1>3 DEF MonthsInv
<1>4. ServedInv'
  <2>1. CASE CaredFor(month)
    BY <1>1, <2>1 DEF ServedInv, CaredFor
  <2>2. CASE \A q \in running : tpc[<<q, "boot">>] \notin Ended /\ tmonth[<<q, "boot">>] = month
    <3>1. ASSUME NEW q \in running'
          PROVE  tpc'[<<q, "boot">>] \notin Ended /\ tmonth'[<<q, "boot">>] = month'
      <4>1. CASE q = r
        BY <1>1, <4>1 DEF Ended
      <4>2. CASE q # r
        <5>1. q \in running /\ <<q, "boot">> \in Tasks /\ <<q, "boot">> # b
          BY <1>1, <4>2 DEF MonthsTypeOK, Tasks
        <5> QED BY <1>1, <2>2, <5>1
      <4> QED BY <4>1, <4>2
    <3> QED BY <3>1 DEF ServedInv
  <2> QED BY <2>1, <2>2 DEF MonthsInv, ServedInv
<1>5. SeeingTo(month + 1) \subseteq SeeingTo(month + 1)'
  <2>1. tpc[b] \notin {"lock", "create"}
    BY <1>1 DEF Ended
  <2> QED BY <1>1, <2>1 DEF SeeingTo
<1>6. CaredFor(month + 1)' \/ SeeingTo(month + 1)' # {}
  BY <1>1, <1>5 DEF MonthsInv, CaredFor
<1> QED BY <1>1, <1>3, <1>4, <1>6 DEF MonthsInv, CaredFor, NoneInDefault

\* The cron hands its month over to its task.
LEMMA CronMonths ==
  ASSUME MonthsTypeOK, MonthsInv, NEW r \in Replicas, CronFires(r)
  PROVE  MonthsInv'
<1> DEFINE c == <<r, "cron">>
<1>1. /\ UNCHANGED <<running, month, partitions, inDefault, excused>>
      /\ c \in Tasks /\ tpc'[c] = "lock" /\ tmonth'[c] = month + 1 /\ due' = due \ {r}
      /\ \A u \in Tasks : u # c => tpc'[u] = tpc[u] /\ tmonth'[u] = tmonth[u]
  BY DEF CronFires, Launch, NextMonth, Tasks, MonthsTypeOK
<1>2. \A u \in Tasks : u[2] = "boot" => tpc'[u] = tpc[u] /\ tmonth'[u] = tmonth[u]
  BY <1>1
<1>3. ServedInv'
  <2>1. \A q \in running : tpc'[<<q, "boot">>] = tpc[<<q, "boot">>]
                          /\ tmonth'[<<q, "boot">>] = tmonth[<<q, "boot">>]
    BY <1>2 DEF MonthsTypeOK, Tasks
  <2> QED BY <1>1, <2>1 DEF MonthsInv, ServedInv, CaredFor
<1>4. c \in SeeingTo(month + 1)'
  BY <1>1 DEF SeeingTo
<1> QED BY <1>1, <1>2, <1>3, <1>4 DEF MonthsInv, CaredFor, NoneInDefault

\* A replica that stops excuses the next month, unless another one sees to it.
LEMMA StopMonths ==
  ASSUME MonthsTypeOK, MonthsInv, NEW r \in Replicas, Stop(r)
  PROVE  MonthsInv'
<1> DEFINE own == {t \in Tasks : t[1] = r}
<1>1. /\ running' = running \ {r} /\ due' = due \ {r}
      /\ UNCHANGED <<month, partitions, inDefault>>
      /\ excused' = excused \cup LeftBy(own, month + 1)
      /\ \A u \in Tasks : u[1] # r => tpc'[u] = tpc[u] /\ tmonth'[u] = tmonth[u]
      /\ \A u \in Tasks : u[1] = r => tpc'[u] = "idle" /\ tmonth'[u] = 0
  BY DEF Stop, MonthsTypeOK
<1>2. month \in Nat
  BY MonthsAssumption DEF MonthsTypeOK
<1>3. ASSUME NEW u \in Tasks, u[2] = "boot"
      PROVE  /\ tmonth'[u] <= month'
             /\ tpc'[u] \in {"unlock", "unlockFailed"} => tmonth'[u] \in partitions' \cup excused'
  <2>1. CASE u[1] = r
    BY <1>1, <1>2, <2>1
  <2>2. CASE u[1] # r
    BY <1>1, <1>3, <2>2 DEF MonthsInv, CaredFor
  <2> QED BY <2>1, <2>2
<1>4. ServedInv'
  <2>1. \A q \in running' : /\ q \in running
                           /\ tpc'[<<q, "boot">>] = tpc[<<q, "boot">>]
                           /\ tmonth'[<<q, "boot">>] = tmonth[<<q, "boot">>]
    BY <1>1 DEF MonthsTypeOK, Tasks
  <2> QED BY <1>1, <2>1 DEF MonthsInv, ServedInv, CaredFor
<1>5. CaredFor(month + 1)' \/ SeeingTo(month + 1)' # {}
  <2>1. CASE CaredFor(month + 1)
    BY <1>1, <2>1 DEF CaredFor
  <2>2. CASE SeeingTo(month + 1) \subseteq own
    BY <1>1, <2>2 DEF LeftBy, CaredFor
  <2>3. ASSUME NEW u \in SeeingTo(month + 1), u \notin own
        PROVE  SeeingTo(month + 1)' # {}
    <3>1. u \in SeeingTo(month + 1)'
      BY <1>1, <2>3 DEF SeeingTo
    <3> QED BY <3>1
  <2> QED BY <2>1, <2>2, <2>3 DEF MonthsInv
<1> QED BY <1>1, <1>3, <1>4, <1>5 DEF MonthsInv, CaredFor, NoneInDefault

\* At the turn of the month the next one becomes the current: it has been seen to, and
\* somebody sees to the one after it, or it is excused.
LEMMA TurnMonths ==
  ASSUME MonthsTypeOK, MonthsInv, NewMonth
  PROVE  MonthsInv'
<1>0. month \in Nat
  BY MonthsAssumption DEF MonthsTypeOK
<1>1. PICK D \in SUBSET running :
        /\ due' = D
        /\ excused' = excused \cup IF D = {} THEN {month + 2} \ partitions ELSE {}
  BY DEF NewMonth
<1>2. /\ due = {} /\ \A r \in Replicas : tpc[<<r, "cron">>] \in Ended
      /\ month' = month + 1 /\ UNCHANGED <<running, tpc, tmonth, partitions, inDefault>>
  BY DEF NewMonth
<1>3. \A m : CaredFor(m) => CaredFor(m)'
  BY <1>1, <1>2 DEF CaredFor
<1>4. SeeingTo(month + 1) = {}
  <2> SUFFICES ASSUME NEW u \in Tasks, tpc[u] \in {"lock", "create"}, tmonth[u] = month + 1
               PROVE  FALSE
    BY <1>2 DEF SeeingTo
  <2>1. tmonth[u] \in Nat /\ u[2] \in {"boot", "cron"} /\ u = <<u[1], u[2]>> /\ u[1] \in Replicas
    BY DEF MonthsTypeOK, Tasks
  <2>2. u[2] # "boot"
    BY <1>0, <2>1 DEF MonthsInv
  <2>3. tpc[u] \in Ended
    BY <1>2, <2>1, <2>2
  <2> QED BY <2>3 DEF Ended
<1>5. CaredFor(month + 1)
  BY <1>4 DEF MonthsInv
<1>6. ServedInv'
  BY <1>2, <1>3, <1>5 DEF ServedInv, CaredFor
<1>7. ASSUME NEW u \in Tasks, u[2] = "boot"
      PROVE  /\ tmonth'[u] <= month'
             /\ tpc'[u] \in {"unlock", "unlockFailed"} => tmonth'[u] \in partitions' \cup excused'
  <2>1. tmonth[u] <= month /\ tmonth[u] \in Nat
    BY <1>7 DEF MonthsInv, MonthsTypeOK
  <2>2. tpc[u] \in {"unlock", "unlockFailed"} => CaredFor(tmonth[u])
    BY <1>7 DEF MonthsInv
  <2> QED BY <1>0, <1>1, <1>2, <2>1, <2>2 DEF CaredFor
<1>8. CaredFor(month + 1)' \/ SeeingTo(month + 1)' # {}
  <2>0. month' + 1 = month + 2
    BY <1>0, <1>2
  <2>1. CASE D = {}
    BY <1>1, <1>2, <2>0, <2>1 DEF CaredFor
  <2>2. ASSUME NEW r \in D PROVE SeeingTo(month + 1)' # {}
    <3>1. <<r, "cron">> \in SeeingTo(month + 1)'
      BY <1>1, <2>2 DEF SeeingTo, Tasks, MonthsTypeOK
    <3> QED BY <3>1
  <2> QED BY <2>1, <2>2
<1>9. NoneInDefault'
  BY <1>1, <1>2 DEF MonthsInv, NoneInDefault
<1> QED BY <1>6, <1>7, <1>8, <1>9 DEF MonthsInv, CaredFor

\* Whichever month the service is deployed in, and whatever fails: rows end up in the
\* default partition only in a month that nobody's cron was there to prepare, that a
\* replica entered after its own attempt was skipped or failed, or whose every cron task
\* was skipped, failed or stopped.
THEOREM DefaultStaysEmpty == MonthsSpec => []NoneInDefault
<1> USE MonthsAssumption
<1>1. MonthsInit => MonthsInv
  <2> SUFFICES ASSUME MonthsInit PROVE MonthsInv
    OBVIOUS
  <2>1. /\ month \in Nat /\ running = {} /\ inDefault = {} /\ partitions = Migrated
        /\ excused = {month + 1} \ Migrated
        /\ \A t \in Tasks : tpc[t] = "idle" /\ tmonth[t] = 0
    BY DEF MonthsInit
  <2>2. CaredFor(month + 1)
    BY <2>1 DEF CaredFor
  <2>3. \A t \in Tasks : tmonth[t] <= month
    BY <2>1
  <2> QED BY <2>1, <2>2, <2>3 DEF MonthsInv, ServedInv, NoneInDefault
<1>2. MonthsTypeOK /\ MonthsInv /\ [MonthsNext]_monthsVars => MonthsInv'
  <2> SUFFICES ASSUME MonthsTypeOK, MonthsInv, [MonthsNext]_monthsVars
               PROVE  MonthsInv'
    OBVIOUS
  <2>1. CASE Log
    <3>1. UNCHANGED <<running, month, due, tpc, tmonth, partitions, excused>>
      BY <2>1 DEF Log
    <3>2. month \notin partitions => month \in excused
      BY <2>1 DEF Log, MonthsInv, ServedInv, CaredFor
    <3>3. NoneInDefault'
      BY <2>1, <3>2 DEF Log, MonthsInv, NoneInDefault
    <3> QED BY <3>1, <3>3 DEF MonthsInv, ServedInv, CaredFor, SeeingTo
  <2>2. CASE UNCHANGED <<running, month, due, tpc, tmonth, partitions, inDefault, excused>>
    BY <2>2 DEF MonthsInv, ServedInv, CaredFor, SeeingTo, NoneInDefault
  <2> QED BY <2>1, <2>2, TryLockMonths, CreateMonths, UnlockMonths, StartMonths,
             CronMonths, StopMonths, TurnMonths DEF MonthsNext, Close, monthsVars
<1>3. MonthsInv => NoneInDefault
  BY DEF MonthsInv
<1> QED BY <1>1, <1>2, <1>3, MonthsTypeCorrect, PTL DEF MonthsSpec

=============================================================================
