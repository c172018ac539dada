-------------------------- MODULE UploadChecksProofs --------------------------
(***************************************************************************)
(* Theorems about ConversationGate and UploadChecks: for any number of     *)
(* uploads, any users and groups, any TTL, timeout and delay of Redis, and *)
(* every file, whatever its header, its size and what clamd makes of it.   *)
(***************************************************************************)
EXTENDS UploadChecks, TLAPS

-----------------------------------------------------------------------------
(* The gate. *)

\* A verdict moves the upload to an answer or to group-service.
LEMMA JudgeType ==
  ASSUME TypeOK, NEW u \in Uploads, NEW s \in BOOLEAN, Judge(u, s)
  PROVE  pc' \in [Uploads -> Ended \cup {"cache", "fetch", "answered", "write", "authorize"}]
BY DEF Judge, To, TypeOK, Ended

\* What an upload writes is an entry with its whole TTL.
LEMMA CachedType ==
  ASSUME TypeOK, NEW u \in Uploads
  PROVE  Cached(u) \subseteq Entries
BY TimesAssumption DEF Cached, Entries, TypeOK

\* Ageing keeps entries entries, and each is one that had a tick more left.
LEMMA AgedType ==
  ASSUME entry \subseteq Entries
  PROVE  /\ Aged \subseteq Entries
         /\ \A e \in Aged : \E x \in entry : e.val = x.val /\ e.left = x.left - 1
<1> SUFFICES ASSUME NEW x \in entry, x.left > 1
             PROVE  LET e == [x EXCEPT !.left = x.left - 1]
                    IN  e \in Entries /\ e.val = x.val /\ e.left = x.left - 1
  BY DEF Aged
<1>1. x \in Entries
  OBVIOUS
<1> QED BY <1>1, TimesAssumption DEF Entries

\* The gate keeps its type.
THEOREM TypeCorrect == Spec => []TypeOK
<1> USE TimesAssumption
<1>1. Init => TypeOK
  <2> SUFFICES ASSUME Init PROVE TypeOK
    OBVIOUS
  <2>1. e2ee \in BOOLEAN
    BY DEF Init
  <2> QED BY <2>1 DEF Init, TypeOK, Ended
<1>2. TypeOK /\ [Next]_vars => TypeOK'
  <2> SUFFICES ASSUME TypeOK, [Next]_vars PROVE TypeOK'
    OBVIOUS
  <2>1. ASSUME NEW u \in Uploads, NEW r \in Requests, Arrive(u, r) PROVE TypeOK'
    <3>1. e2ee' \in BOOLEAN
      BY <2>1 DEF Arrive, TypeOK
    <3> QED BY <2>1, <3>1 DEF Arrive, To, Ended, Clock, waits, TypeOK
  <2>2. ASSUME NEW u \in Uploads, ReadEntry(u) PROVE TypeOK'
    <3>1. CASE entry = {} /\ To(u, "fetch") /\ wait' = [wait EXCEPT ![u] = Timeout]
                 /\ UNCHANGED got
      <4>1. e2ee' \in BOOLEAN
        BY <2>2, <3>1 DEF ReadEntry, TypeOK
      <4> QED BY <2>2, <3>1, <4>1 DEF ReadEntry, To, Clock, TypeOK
    <3>2. ASSUME NEW e \in entry, Judge(u, e.val), UNCHANGED waits PROVE TypeOK'
      <4>1. e.val \in BOOLEAN
        BY DEF TypeOK, Entries
      <4>2. e2ee' \in BOOLEAN
        BY <2>2 DEF ReadEntry, TypeOK
      <4> QED BY <2>2, <3>2, <4>1, <4>2, JudgeType DEF ReadEntry, waits, Clock, TypeOK
    <3> QED BY <2>2, <3>1, <3>2 DEF ReadEntry
  <2>3. ASSUME NEW u \in Uploads, Serve(u) \/ Respond(u) PROVE TypeOK'
    <3>1. e2ee' \in BOOLEAN /\ got' \in [Uploads -> BOOLEAN]
      BY <2>3 DEF Serve, Respond, Fetched, TypeOK
    <3> QED BY <2>3, <3>1 DEF Serve, Respond, Fetched, To, Clock, TypeOK
  <2>4. ASSUME NEW u \in Uploads, FetchFails(u) PROVE TypeOK'
    <3>1. e2ee' \in BOOLEAN /\ got' \in [Uploads -> BOOLEAN]
      BY <2>4 DEF FetchFails, Fetched, TypeOK
    <3> QED BY <2>4, <3>1 DEF FetchFails, Fetched, To, TypeOK
  <2>5. ASSUME NEW u \in Uploads, WriteEntry(u) PROVE TypeOK'
    <3>1. got[u] \in BOOLEAN
      BY DEF TypeOK
    <3>2. e2ee' \in BOOLEAN
      BY <2>5 DEF WriteEntry, TypeOK
    <3> QED BY <2>5, <3>1, <3>2, JudgeType, CachedType
            DEF WriteEntry, waits, Clock, TypeOK
  <2>6. ASSUME NEW u \in Uploads, RedisFails(u) PROVE TypeOK'
    <3>1. e2ee' \in BOOLEAN
      BY <2>6 DEF RedisFails, TypeOK
    <3>2. entry' \subseteq Entries
      BY <2>6, CachedType DEF RedisFails, TypeOK
    <3> QED BY <2>6, <3>1, <3>2 DEF RedisFails, To, Clock, waits, Ended, TypeOK
  <2>7. ASSUME NEW u \in Uploads, Authorize(u) PROVE TypeOK'
    <3>1. e2ee' \in BOOLEAN
      BY <2>7 DEF Authorize, TypeOK
    <3> QED BY <2>7, <3>1 DEF Authorize, To, Clock, waits, Ended, TypeOK
  <2>8. CASE Toggle
    <3>1. e2ee' \in BOOLEAN
      BY <2>8 DEF Toggle, TypeOK
    <3> QED BY <2>8, <3>1 DEF Toggle, waits, TypeOK
  <2>9. CASE Tick
    <3>1. e2ee' \in BOOLEAN
      BY <2>9 DEF Tick, TypeOK
    <3>2. entry' \subseteq Entries
      BY <2>9, AgedType DEF Tick, TypeOK
    <3>3. wait' \in [Uploads -> Nat]
      BY <2>9 DEF Tick, TypeOK
    <3>4. sincePlain' \in Nat /\ sinceE2ee' \in Nat
      BY <2>9 DEF Tick, Later, Bound, TypeOK
    <3> QED BY <2>9, <3>1, <3>2, <3>3, <3>4 DEF Tick, TypeOK
  <2>10. CASE UNCHANGED vars
    <3>1. e2ee' \in BOOLEAN
      BY <2>10 DEF vars, TypeOK
    <3> QED BY <2>10, <3>1 DEF vars, waits, TypeOK
  <2> QED BY <2>1, <2>2, <2>3, <2>4, <2>5, <2>6, <2>7, <2>8, <2>9, <2>10
          DEF Next, UploadStep
<1> QED BY <1>1, <1>2, PTL DEF Spec

-----------------------------------------------------------------------------
(* How recent the status is that decides.                                  *)

\* What RecentInv says of one entry, and of one upload.
EntryRecent(e) == Since(e.val) + e.left <= Bound
UploadRecent(u) ==
  /\ pc[u] = "fetch" => wait[u] <= Timeout
  /\ pc[u] = "answered" => Since(got[u]) + wait[u] <= Timeout
  /\ pc[u] = "write" => Since(got[u]) + wait[u] <= Timeout + Settle

\* A step of one upload that leaves the conversation and the clock alone, and adds
\* no entry but one of a status that is being written, keeps the statuses recent.
LEMMA QuietStep ==
  ASSUME TypeOK, TypeOK', RecentInv, UNCHANGED <<e2ee, Clock>>, NEW u \in Uploads,
         \A v \in Uploads \ {u} : pc'[v] = pc[v] /\ got'[v] = got[v] /\ wait'[v] = wait[v],
         entry' \subseteq entry \/ (pc[u] = "write" /\ entry' \subseteq entry \cup Cached(u)),
         UploadRecent(u)'
  PROVE  RecentInv'
<1>1. \A s \in BOOLEAN : Since(s)' = Since(s) /\ Since(s) \in Nat
  BY DEF Clock, Since, TypeOK
<1>2. ASSUME NEW v \in Uploads PROVE UploadRecent(v)'
  <2>1. CASE v = u
    BY <2>1
  <2>2. CASE v # u
    <3>1. pc'[v] = pc[v] /\ got'[v] = got[v] /\ wait'[v] = wait[v] /\ got[v] \in BOOLEAN
      BY <2>2 DEF TypeOK
    <3>2. Since(got[v])' = Since(got[v])
      BY <3>1 DEF Since, Clock
    <3>3. UploadRecent(v)
      BY DEF RecentInv, UploadRecent
    <3> QED BY <3>1, <3>2, <3>3 DEF UploadRecent
  <2> QED BY <2>1, <2>2
<1>3. ASSUME NEW e \in entry' PROVE EntryRecent(e)'
  <2>1. CASE e \in entry
    <3>1. EntryRecent(e) /\ e.val \in BOOLEAN
      BY <2>1 DEF RecentInv, EntryRecent, TypeOK, Entries
    <3>2. Since(e.val)' = Since(e.val)
      BY DEF Since, Clock
    <3> QED BY <3>1, <3>2 DEF EntryRecent
  <2>2. CASE e \notin entry
    <3>1. pc[u] = "write" /\ e.val = got[u] /\ e.left = TTL
      BY <1>3, <2>2 DEF Cached
    <3>2. Since(got[u]) + wait[u] <= Timeout + Settle /\ wait[u] \in Nat
          /\ got[u] \in BOOLEAN
      BY <3>1 DEF RecentInv, TypeOK
    <3>3. Since(got[u]) \in Nat
      BY <1>1, <3>2
    <3>4. Since(e.val)' = Since(got[u])
      BY <3>1 DEF Since, Clock
    <3> QED BY <3>1, <3>2, <3>3, <3>4, TimesAssumption DEF EntryRecent, Bound
  <2> QED BY <2>1, <2>2
<1>4. Since(e2ee)' = 0
  BY DEF RecentInv, Since, Clock
<1> QED BY <1>2, <1>3, <1>4 DEF RecentInv, EntryRecent, UploadRecent

\* A step that only resets histories keeps the statuses recent.
LEMMA ResetStep ==
  ASSUME TypeOK, TypeOK', RecentInv, UNCHANGED <<entry, pc, got, wait>>,
         sincePlain' \in {0, sincePlain}, sinceE2ee' \in {0, sinceE2ee},
         Since(e2ee)' = 0
  PROVE  RecentInv'
<1>1. \A s \in BOOLEAN : Since(s)' <= Since(s) /\ Since(s) \in Nat /\ Since(s)' \in Nat
  BY DEF Since, TypeOK
<1>2. ASSUME NEW u \in Uploads PROVE UploadRecent(u)'
  <2>1. Since(got[u])' <= Since(got[u]) /\ Since(got[u]) \in Nat /\ Since(got[u])' \in Nat
        /\ got[u] \in BOOLEAN /\ wait[u] \in Nat
    BY <1>1 DEF TypeOK
  <2>2. UploadRecent(u)
    BY DEF RecentInv, UploadRecent
  <2> QED BY <2>1, <2>2, TimesAssumption DEF UploadRecent
<1>3. ASSUME NEW e \in entry PROVE EntryRecent(e)'
  <2>1. e.val \in BOOLEAN /\ e.left \in Nat
    BY TimesAssumption DEF TypeOK, Entries
  <2>2. Since(e.val)' <= Since(e.val) /\ Since(e.val) \in Nat /\ Since(e.val)' \in Nat
    BY <1>1, <2>1
  <2>3. EntryRecent(e)
    BY DEF RecentInv, EntryRecent
  <2> QED BY <2>1, <2>2, <2>3, TimesAssumption DEF EntryRecent, Bound
<1> QED BY <1>2, <1>3 DEF RecentInv, EntryRecent, UploadRecent

\* A tick ages a status by one at most, and takes one from its wait or its TTL.
LEMMA TickStep == ASSUME TypeOK, RecentInv, Tick PROVE RecentInv'
<1>1. \A s \in BOOLEAN : Since(s) \in Nat /\ Since(s)' \in Nat /\ Since(s)' <= Since(s) + 1
  BY TimesAssumption DEF Since, TypeOK, Tick, Later, Bound
<1>2. ASSUME NEW u \in Uploads PROVE UploadRecent(u)'
  <2>1. CASE pc[u] \in {"answered", "write"}
    <3>1. wait[u] \in Nat /\ got[u] \in BOOLEAN /\ pc[u] \in Calling
      BY <2>1 DEF TypeOK, Calling
    <3>2. wait[u] > 0 /\ wait'[u] = wait[u] - 1 /\ pc'[u] = pc[u] /\ got'[u] = got[u]
      BY <3>1 DEF Tick
    <3>3. UploadRecent(u)
      BY DEF RecentInv, UploadRecent
    <3>4. Since(got[u]) \in Nat /\ Since(got[u])' \in Nat /\ Since(got[u])' <= Since(got[u]) + 1
      BY <1>1, <3>1, <3>2 DEF Since
    <3>5. pc[u] = "answered" => Since(got[u])' + wait'[u] <= Timeout
      BY <3>1, <3>2, <3>3, <3>4, TimesAssumption DEF UploadRecent
    <3>6. pc[u] = "write" => Since(got[u])' + wait'[u] <= Timeout + Settle
      BY <3>1, <3>2, <3>3, <3>4, TimesAssumption DEF UploadRecent
    <3> QED BY <2>1, <3>2, <3>5, <3>6 DEF UploadRecent, Since
  <2>2. CASE pc[u] \notin {"answered", "write"}
    <3>1. UploadRecent(u) /\ wait[u] \in Nat
      BY DEF RecentInv, UploadRecent, TypeOK
    <3> QED BY <2>2, <3>1, TimesAssumption DEF Tick, UploadRecent
  <2> QED BY <2>1, <2>2
<1>3. ASSUME NEW e \in entry' PROVE EntryRecent(e)'
  <2>1. PICK x \in entry : e.val = x.val /\ e.left = x.left - 1
    BY <1>3, AgedType DEF Tick, TypeOK
  <2>2. x.val \in BOOLEAN /\ x.left \in Nat
    BY TimesAssumption DEF TypeOK, Entries
  <2>3. Since(x.val) + x.left <= Bound
    BY DEF RecentInv
  <2>4. Since(x.val) \in Nat /\ Since(x.val)' \in Nat /\ Since(x.val)' <= Since(x.val) + 1
    BY <1>1, <2>2
  <2>5. Since(e.val)' = Since(x.val)'
    BY <2>1 DEF Since
  <2>6. Since(x.val)' + e.left <= Bound
    BY <2>1, <2>2, <2>3, <2>4, TimesAssumption DEF Bound
  <2> QED BY <2>5, <2>6 DEF EntryRecent
<1>4. Since(e2ee)' = 0
  BY DEF Tick, Since, RecentInv
<1> QED BY <1>2, <1>3, <1>4 DEF RecentInv, EntryRecent, UploadRecent

\* Every step keeps the statuses recent.
LEMMA RecentStep == ASSUME TypeOK, TypeOK', RecentInv, [Next]_vars PROVE RecentInv'
<1> USE TimesAssumption
<1>1. ASSUME NEW u \in Uploads, NEW r \in Requests, Arrive(u, r) PROVE RecentInv'
  <2>1. pc'[u] \in {"cache", "badRequest", "passed", "authorize"}
    BY <1>1 DEF Arrive, To, TypeOK
  <2>2. \A v \in Uploads \ {u} : pc'[v] = pc[v] /\ got'[v] = got[v] /\ wait'[v] = wait[v]
    BY <1>1 DEF Arrive, To, waits, TypeOK
  <2> QED BY <1>1, <2>1, <2>2, QuietStep DEF Arrive, UploadRecent
<1>2. ASSUME NEW u \in Uploads, ReadEntry(u) PROVE RecentInv'
  <2>1. pc'[u] \in {"plaintext", "authorize", "passed", "fetch"}
    BY <1>2 DEF ReadEntry, Judge, To, TypeOK
  <2>2. \A v \in Uploads \ {u} : pc'[v] = pc[v] /\ got'[v] = got[v] /\ wait'[v] = wait[v]
    BY <1>2 DEF ReadEntry, Judge, To, waits, TypeOK
  <2>3. pc'[u] = "fetch" => wait'[u] = Timeout
    BY <1>2 DEF ReadEntry, Judge, To, TypeOK
  <2>4. UploadRecent(u)'
    BY <2>1, <2>3 DEF UploadRecent
  <2> QED BY <1>2, <2>2, <2>4, QuietStep DEF ReadEntry
<1>3. ASSUME NEW u \in Uploads, Serve(u) PROVE RecentInv'
  <2>1. pc[u] = "fetch" /\ pc'[u] = "answered" /\ got'[u] = e2ee /\ wait'[u] = wait[u]
    BY <1>3 DEF Serve, To, TypeOK
  <2>2. Since(got[u])' = 0 /\ wait[u] \in Nat /\ wait[u] <= Timeout
    BY <1>3, <2>1 DEF Serve, Since, Clock, RecentInv, TypeOK
  <2>3. UploadRecent(u)'
    BY <2>1, <2>2 DEF UploadRecent
  <2>4. \A v \in Uploads \ {u} : pc'[v] = pc[v] /\ got'[v] = got[v] /\ wait'[v] = wait[v]
    BY <1>3 DEF Serve, To, TypeOK
  <2> QED BY <1>3, <2>3, <2>4, QuietStep DEF Serve
<1>4. ASSUME NEW u \in Uploads, Respond(u) PROVE RecentInv'
  <2>1. pc[u] = "answered" /\ pc'[u] = "write" /\ got'[u] = got[u] /\ wait'[u] = Settle
    BY <1>4 DEF Respond, Fetched, To, TypeOK
  <2>2. got[u] \in BOOLEAN /\ wait[u] \in Nat /\ Since(got[u]) + wait[u] <= Timeout
    BY <2>1 DEF RecentInv, TypeOK
  <2>3. Since(got[u])' = Since(got[u]) /\ Since(got[u]) \in Nat
    BY <1>4, <2>1, <2>2 DEF Respond, Since, Clock, TypeOK
  <2>4. UploadRecent(u)'
    BY <2>1, <2>2, <2>3 DEF UploadRecent
  <2>5. \A v \in Uploads \ {u} : pc'[v] = pc[v] /\ got'[v] = got[v] /\ wait'[v] = wait[v]
    BY <1>4 DEF Respond, Fetched, To, TypeOK
  <2> QED BY <1>4, <2>4, <2>5, QuietStep DEF Respond
<1>5. ASSUME NEW u \in Uploads, FetchFails(u) PROVE RecentInv'
  <2>1. \A v \in Uploads : v # u => pc'[v] = pc[v] /\ got'[v] = got[v] /\ wait'[v] = wait[v]
    BY <1>5 DEF FetchFails, Fetched, To, TypeOK
  <2>2. pc'[u] = "write" /\ got'[u] = FALSE /\ wait'[u] = Settle
    BY <1>5 DEF FetchFails, Fetched, To, TypeOK
  <2>3. \A s \in BOOLEAN : Since(s)' <= Since(s) /\ Since(s) \in Nat /\ Since(s)' \in Nat
    BY <1>5 DEF FetchFails, Since, TypeOK
  <2>4. ASSUME NEW v \in Uploads PROVE UploadRecent(v)'
    <3>1. CASE v = u
      <4>1. Since(got[u])' = 0
        BY <1>5, <2>2 DEF FetchFails, Since
      <4> QED BY <2>2, <3>1, <4>1 DEF UploadRecent
    <3>2. CASE v # u
      <4>1. got[v] \in BOOLEAN /\ wait[v] \in Nat /\ UploadRecent(v)
        BY DEF TypeOK, RecentInv, UploadRecent
      <4>2. pc'[v] = pc[v] /\ got'[v] = got[v] /\ wait'[v] = wait[v]
        BY <2>1, <3>2
      <4>3. Since(got[v])' <= Since(got[v]) /\ Since(got[v]) \in Nat /\ Since(got[v])' \in Nat
        BY <2>3, <4>1, <4>2 DEF Since
      <4> QED BY <4>1, <4>2, <4>3 DEF UploadRecent
    <3> QED BY <3>1, <3>2
  <2>5. ASSUME NEW e \in entry PROVE EntryRecent(e)'
    <3>1. e.val \in BOOLEAN /\ e.left \in Nat /\ EntryRecent(e)
      BY DEF TypeOK, Entries, RecentInv, EntryRecent
    <3>2. Since(e.val)' <= Since(e.val) /\ Since(e.val) \in Nat /\ Since(e.val)' \in Nat
      BY <2>3, <3>1
    <3> QED BY <3>1, <3>2 DEF EntryRecent, Bound
  <2>6. Since(e2ee)' = 0 /\ entry' = entry
    BY <1>5 DEF FetchFails, Since, RecentInv
  <2> QED BY <2>4, <2>5, <2>6 DEF RecentInv, EntryRecent, UploadRecent
<1>6. ASSUME NEW u \in Uploads, WriteEntry(u) PROVE RecentInv'
  <2>1. pc'[u] \in {"plaintext", "authorize", "passed"}
    BY <1>6 DEF WriteEntry, Judge, To, TypeOK
  <2>2. \A v \in Uploads \ {u} : pc'[v] = pc[v] /\ got'[v] = got[v] /\ wait'[v] = wait[v]
    BY <1>6 DEF WriteEntry, Judge, To, waits, TypeOK
  <2> QED BY <1>6, <2>1, <2>2, QuietStep DEF WriteEntry, UploadRecent
<1>7. ASSUME NEW u \in Uploads, RedisFails(u) PROVE RecentInv'
  <2>1. pc'[u] = "failed"
    BY <1>7 DEF RedisFails, To, TypeOK
  <2>2. \A v \in Uploads \ {u} : pc'[v] = pc[v] /\ got'[v] = got[v] /\ wait'[v] = wait[v]
    BY <1>7 DEF RedisFails, To, waits, TypeOK
  <2> QED BY <1>7, <2>1, <2>2, QuietStep DEF RedisFails, UploadRecent
<1>8. ASSUME NEW u \in Uploads, Authorize(u) PROVE RecentInv'
  <2>1. pc'[u] \in {"passed", "forbidden", "unavailable"}
    BY <1>8 DEF Authorize, To, TypeOK
  <2>2. \A v \in Uploads \ {u} : pc'[v] = pc[v] /\ got'[v] = got[v] /\ wait'[v] = wait[v]
    BY <1>8 DEF Authorize, To, waits, TypeOK
  <2> QED BY <1>8, <2>1, <2>2, QuietStep DEF Authorize, UploadRecent
<1>9. CASE Toggle
  <2>1. Since(e2ee)' = 0
    BY <1>9 DEF Toggle, Since, TypeOK
  <2> QED BY <1>9, <2>1, ResetStep DEF Toggle, waits
<1>10. CASE Tick
  BY <1>10, TickStep
<1>11. CASE UNCHANGED vars
  <2>1. Since(e2ee)' = 0
    BY <1>11 DEF vars, Since, RecentInv
  <2> QED BY <1>11, <2>1, ResetStep DEF vars, waits
<1> QED BY <1>1, <1>2, <1>3, <1>4, <1>5, <1>6, <1>7, <1>8, <1>9, <1>10, <1>11
        DEF Next, UploadStep

\* The status of a call or of an entry is recent.
THEOREM StatusIsRecent == Spec => []RecentInv
<1>1. Init => RecentInv
  BY DEF Init, RecentInv, Since
<1>2. TypeOK /\ TypeOK' /\ RecentInv /\ [Next]_vars => RecentInv'
  BY RecentStep
<1> QED BY <1>1, <1>2, TypeCorrect, PTL DEF Spec

\* The status an upload is judged by: the entry's, or the one it wrote.
LEMMA JudgedByRecent ==
  ASSUME TypeOK, RecentInv, [Next]_vars, NEW u \in Uploads, pc[u] \in {"cache", "write"},
         pc'[u] \in {"plaintext", "passed", "authorize"}
  PROVE  \E s \in BOOLEAN : Judge(u, s) /\ Since(s) <= Bound
<1> USE TimesAssumption
<1>1. ReadEntry(u) \/ WriteEntry(u)
  BY DEF Next, UploadStep, Arrive, ReadEntry, Serve, Respond, FetchFails, Fetched, WriteEntry,
         RedisFails, Authorize, Toggle, Tick, To, Judge, Ended, TypeOK, vars
<1>2. CASE ReadEntry(u)
  <2>1. PICK e \in entry : Judge(u, e.val)
    BY <1>2 DEF ReadEntry, To, TypeOK
  <2>2. e.val \in BOOLEAN /\ e.left \in Nat /\ Since(e.val) + e.left <= Bound
    BY DEF TypeOK, Entries, RecentInv
  <2>3. Since(e.val) \in Nat
    BY <2>2 DEF Since, TypeOK
  <2>4. Since(e.val) <= Bound
    BY <2>2, <2>3 DEF Bound
  <2> QED BY <2>1, <2>2, <2>4
<1>3. CASE WriteEntry(u)
  <2>1. Judge(u, got[u]) /\ got[u] \in BOOLEAN /\ wait[u] \in Nat
        /\ Since(got[u]) + wait[u] <= Timeout + Settle
    BY <1>3 DEF WriteEntry, TypeOK, RecentInv
  <2>2. Since(got[u]) \in Nat
    BY <2>1 DEF Since, TypeOK
  <2>3. Since(got[u]) <= Bound
    BY <2>1, <2>2 DEF Bound
  <2> QED BY <2>1, <2>3
<1> QED BY <1>1, <1>2, <1>3

\* Plaintext is let into a conversation, and refused, only on a status of the bound.
THEOREM VerdictIsAlwaysRecent == Spec => VerdictIsRecent
<1>1. TypeOK /\ RecentInv /\ [Next]_vars => [\A u \in Uploads : Recent(u)]_vars
  <2> SUFFICES ASSUME TypeOK, RecentInv, [Next]_vars, NEW u \in Uploads PROVE Recent(u)
    OBVIOUS
  <2>1. ASSUME LetsIn(u) PROVE sincePlain <= Bound
    <3>1. PICK s \in BOOLEAN : Judge(u, s) /\ Since(s) <= Bound
      BY <2>1, JudgedByRecent DEF LetsIn
    <3>2. s = FALSE
      BY <2>1, <3>1 DEF LetsIn, Judge, To, TypeOK
    <3> QED BY <3>1, <3>2 DEF Since
  <2>2. ASSUME Refuses(u) PROVE sinceE2ee <= Bound
    <3>1. PICK s \in BOOLEAN : Judge(u, s) /\ Since(s) <= Bound
      BY <2>2, JudgedByRecent DEF Refuses
    <3>2. s = TRUE
      BY <2>2, <3>1 DEF Refuses, Judge, To, TypeOK
    <3> QED BY <3>1, <3>2 DEF Since
  <2> QED BY <2>1, <2>2 DEF Recent
<1> QED BY <1>1, TypeCorrect, StatusIsRecent, PTL DEF Spec, VerdictIsRecent

-----------------------------------------------------------------------------
(* The tables agree. *)

\* MAGIC_MAP knows every type of the allowlists but the opaque one.
LEMMA ListedAreKnown ==
  /\ \A t \in AvatarTypes : \E e \in ImageMagic : e[1] = t
  /\ \A t \in MessageTypes \ {OPAQUE} : \E e \in MAGIC_MAP : e[1] = t
<1>1. \A t \in AvatarTypes : \E e \in ImageMagic : e[1] = t
  <2>1. /\ Starts("image/jpeg", "ffd8ff") \in ImageMagic
        /\ Starts("image/png", "89PNG") \in ImageMagic
        /\ Starts("image/gif", "GIF8") \in ImageMagic
        /\ Riff("image/webp", "WEBP") \in ImageMagic
        /\ Brand("image/heic", "heic") \in ImageMagic
        /\ Brand("image/heif", "mif1") \in ImageMagic
    BY DEF ImageMagic
  <2>2. \A t, b : Starts(t, b)[1] = t /\ Riff(t, b)[1] = t /\ Brand(t, b)[1] = t
    BY DEF Starts, Riff, Brand
  <2> QED BY <2>1, <2>2 DEF AvatarTypes
<1>2. \A t \in {"video/mp4", "audio/mp4", "video/webm", "video/x-matroska",
                "video/quicktime", "audio/wav", "audio/mpeg", "audio/aac", "audio/ogg"} :
        \E e \in MediaMagic : e[1] = t
  <2>1. /\ <<"video/mp4", {<<4, "ftyp">>}>> \in MediaMagic
        /\ <<"audio/mp4", {<<4, "ftyp">>}>> \in MediaMagic
        /\ Starts("video/webm", "EBML") \in MediaMagic
        /\ Starts("video/x-matroska", "EBML") \in MediaMagic
        /\ Brand("video/quicktime", "qt") \in MediaMagic
        /\ Riff("audio/wav", "WAVE") \in MediaMagic
        /\ Starts("audio/mpeg", "ID3") \in MediaMagic
        /\ Starts("audio/aac", "fff1") \in MediaMagic
        /\ Starts("audio/ogg", "OggS") \in MediaMagic
    BY DEF MediaMagic
  <2>2. \A t, b : Starts(t, b)[1] = t /\ Riff(t, b)[1] = t /\ Brand(t, b)[1] = t
    BY DEF Starts, Riff, Brand
  <2> QED BY <2>1, <2>2
<1>3. \A t \in {"application/pdf", "application/msword", "application/zip"} \cup Office :
        \E e \in DocumentMagic : e[1] = t
  <2>1. /\ Starts("application/pdf", "%PDF") \in DocumentMagic
        /\ Starts("application/msword", "d0cf11e0") \in DocumentMagic
        /\ \A t \in Office \cup {"application/zip"} : Starts(t, "PK34") \in DocumentMagic
    BY DEF DocumentMagic
  <2>2. \A t, b : Starts(t, b)[1] = t
    BY DEF Starts
  <2> QED BY <2>1, <2>2
<1>4. \A t \in MessageTypes \ {OPAQUE} :
        \/ t \in AvatarTypes
        \/ t \in {"video/mp4", "audio/mp4", "video/webm", "video/x-matroska",
                  "video/quicktime", "audio/wav", "audio/mpeg", "audio/aac", "audio/ogg"}
        \/ t \in {"application/pdf", "application/msword", "application/zip"} \cup Office
  BY DEF MessageTypes, AvatarTypes
<1>5. ASSUME NEW t \in MessageTypes \ {OPAQUE} PROVE \E e \in MAGIC_MAP : e[1] = t
  <2>1. \/ \E e \in ImageMagic : e[1] = t
        \/ \E e \in MediaMagic : e[1] = t
        \/ \E e \in DocumentMagic : e[1] = t
    BY <1>1, <1>2, <1>3, <1>4, Zenon
  <2> QED BY <2>1 DEF MAGIC_MAP
<1> QED BY <1>1, <1>5

\* Each signature that MAGIC_MAP has for an image type is an image's.
LEMMA ImagesAreImages ==
  ASSUME NEW e \in MAGIC_MAP, e[1] \in AvatarTypes
  PROVE  e \in ImageMagic
<1>1. ASSUME e \in MediaMagic PROVE FALSE
  BY <1>1 DEF MediaMagic, Starts, Riff, Brand, AvatarTypes
<1>2. ASSUME e \in DocumentMagic PROVE FALSE
  BY <1>2 DEF DocumentMagic, Starts, Office, AvatarTypes
<1> QED BY <1>1, <1>2 DEF MAGIC_MAP

-----------------------------------------------------------------------------
(* What is stored. *)

\* 201 is the answer only when every question was answered with yes.
LEMMA StoredPassedAll ==
  ASSUME NEW ctx \in Contexts, NEW c, Outcome(Questions(ctx, c)) = 201
  PROVE  /\ c.size <= CONTEXT_SIZE_LIMITS[ctx]
         /\ MagicOk(c) /\ Listed(c, CONTEXT_MIME_ALLOWLIST[ctx])
         /\ DimensionsOk(c) /\ ScriptOk(c) /\ ClamAvOk(c)
<1> DEFINE q == Questions(ctx, c)
           refused == {i \in DOMAIN q : ~q[i][1]}
           first == CHOOSE i \in refused : \A j \in refused : i <= j
<1>1. DOMAIN q = 1..6
  BY DEF Questions
<1>2. \A i \in 1..6 : q[i][2] \in {413, 415, 422}
  BY DEF Questions
<1>3. ASSUME refused # {} PROVE FALSE
  <2>1. \E i \in refused : \A j \in refused : i <= j
    <3> HIDE DEF q
    <3>1. CASE 1 \in refused
      BY <1>1, <3>1
    <3>2. CASE 1 \notin refused /\ 2 \in refused
      BY <1>1, <3>2
    <3>3. CASE 1 \notin refused /\ 2 \notin refused /\ 3 \in refused
      BY <1>1, <3>3
    <3>4. CASE 1 \notin refused /\ 2 \notin refused /\ 3 \notin refused /\ 4 \in refused
      BY <1>1, <3>4
    <3>5. CASE \A k \in 1..4 : k \notin refused
      BY <1>1, <1>3, <3>5
    <3> QED BY <3>1, <3>2, <3>3, <3>4, <3>5
  <2>2. first \in 1..6
    BY <1>1, <2>1
  <2>3. Outcome(q) = q[first][2]
    BY <1>3 DEF Outcome
  <2>4. Outcome(q) = 201
    OBVIOUS
  <2> HIDE DEF q, first
  <2>5. q[first][2] # 201
    BY <1>2, <2>2
  <2> QED BY <2>3, <2>4, <2>5
<1>4. \A i \in 1..6 : q[i][1]
  BY <1>1, <1>3
<1>5. q[1][1] /\ q[2][1] /\ q[3][1] /\ q[4][1] /\ q[5][1] /\ q[6][1]
  BY <1>4
<1> QED BY <1>5 DEF Questions

\* In the whole of a verdict, FOUND is found across the pieces it came in.
LEMMA WholeVerdict ==
  ASSUME NEW c, c.heard = 3,
         Verdict(c.infected)[2] = "FO", Verdict(c.infected)[3] = "UND"
  PROVE  Found(Answer(c))
<1> DEFINE v == Verdict(c.infected)
<1> HIDE DEF v
<1>1. Answer(c) = [i \in 1..3 |-> v[i]]
  BY DEF Answer, v
<1>2. 2 \in DOMAIN Answer(c) /\ 3 \in DOMAIN Answer(c)
  BY <1>1
<1>3. Answer(c)[2] = v[2] /\ Answer(c)[3] = v[3]
  BY <1>1
<1>4. v[2] = "FO" /\ v[3] = "UND"
  BY DEF v
<1>5. 3 = 2 + 1
  OBVIOUS
<1> QED BY <1>2, <1>3, <1>4, <1>5 DEF Found

\* Every file that upload stores is fit: the tables agree, and no check is passed for
\* want of another.
THEOREM StoredIsFit ==
  ASSUME NEW ctx \in Contexts, NEW c \in Contents, Outcome(Questions(ctx, c)) = 201
  PROVE  Fit(ctx, c)
<1>1. /\ MagicOk(c) /\ Listed(c, CONTEXT_MIME_ALLOWLIST[ctx])
      /\ DimensionsOk(c) /\ ClamAvOk(c)
  BY StoredPassedAll
<1>2. c.type \in CONTEXT_MIME_ALLOWLIST[ctx]
  BY <1>1 DEF Listed
<1>3. Signed(c) \/ (ctx = "message" /\ c.type = OPAQUE)
  <2>1. CASE ctx = "message"
    <3>1. c.type \in MessageTypes
      BY <1>2, <2>1 DEF CONTEXT_MIME_ALLOWLIST, Contexts
    <3> QED BY <1>1, <2>1, <3>1, ListedAreKnown DEF MagicOk
  <2>2. CASE ctx # "message"
    <3>1. c.type \in AvatarTypes
      BY <1>2, <2>2 DEF CONTEXT_MIME_ALLOWLIST, Contexts
    <3>2. \E e \in MAGIC_MAP : e[1] = c.type
      BY <3>1, ListedAreKnown DEF MAGIC_MAP
    <3> QED BY <1>1, <3>2 DEF MagicOk
  <2> QED BY <2>1, <2>2
<1>4. ASSUME ctx \in PUBLIC_READABLE_CONTEXTS
      PROVE  /\ \E e \in ImageMagic : e[2] \subseteq c.head
             /\ c.area <= MAX_PIXELS
  <2>1. c.type \in AvatarTypes /\ ctx # "message"
    BY <1>2, <1>4 DEF CONTEXT_MIME_ALLOWLIST, Contexts, PUBLIC_READABLE_CONTEXTS
  <2>2. PICK e \in MAGIC_MAP : e[1] = c.type /\ e[2] \subseteq c.head
    BY <1>3, <2>1 DEF Signed
  <2>3. e \in ImageMagic
    BY <2>1, <2>2, ImagesAreImages
  <2>4. c.type \in IMAGE_MIME_TYPES
    BY <2>1 DEF AvatarTypes, IMAGE_MIME_TYPES
  <2> QED BY <1>1, <2>2, <2>3, <2>4 DEF DimensionsOk
<1>5. ~(c.infected /\ c.heard = 3 /\ c.ends = "end")
  <2> SUFFICES ASSUME c.infected, c.heard = 3, c.ends = "end" PROVE FALSE
    OBVIOUS
  <2>1. Verdict(c.infected)[2] = "FO" /\ Verdict(c.infected)[3] = "UND"
    BY DEF Verdict
  <2>2. Found(Answer(c))
    BY <2>1, WholeVerdict, Zenon
  <2> QED BY <1>1, <2>2, Zenon DEF ClamAvOk
<1> QED BY <1>3, <1>4, <1>5 DEF Fit

\* So is every thumbnail: an image by its signature, in whichever context.
THEOREM ThumbnailIsImage ==
  ASSUME NEW c \in Contents, Outcome(ThumbnailQuestions(c)) = 201
  PROVE  \E e \in ImageMagic : e[1] = c.type /\ e[2] \subseteq c.head
<1> DEFINE q == ThumbnailQuestions(c)
           refused == {i \in DOMAIN q : ~q[i][1]}
           first == CHOOSE i \in refused : \A j \in refused : i <= j
<1>1. DOMAIN q = 1..3
  BY DEF ThumbnailQuestions
<1>2. \A i \in 1..3 : q[i][2] \in {413, 415}
  BY DEF ThumbnailQuestions
<1>3. ASSUME refused # {} PROVE FALSE
  <2>1. \E i \in refused : \A j \in refused : i <= j
    <3> HIDE DEF q
    <3>1. CASE 1 \in refused
      BY <1>1, <3>1
    <3>2. CASE 1 \notin refused /\ 2 \in refused
      BY <1>1, <3>2
    <3>3. CASE 1 \notin refused /\ 2 \notin refused
      BY <1>1, <1>3, <3>3
    <3> QED BY <3>1, <3>2, <3>3
  <2>2. first \in 1..3
    BY <1>1, <2>1
  <2>3. Outcome(q) = q[first][2]
    BY <1>3 DEF Outcome
  <2>4. Outcome(q) = 201
    OBVIOUS
  <2> HIDE DEF q, first
  <2>5. q[first][2] # 201
    BY <1>2, <2>2
  <2> QED BY <2>3, <2>4, <2>5
<1>4. q[1][1] /\ q[2][1]
  BY <1>1, <1>3
<1>5. MagicOk(c) /\ Listed(c, THUMBNAIL_ALLOWED_MIME)
  BY <1>4 DEF ThumbnailQuestions
<1>6. c.type \in AvatarTypes
  BY <1>5 DEF Listed, THUMBNAIL_ALLOWED_MIME, AvatarTypes
<1>7. \E e \in MAGIC_MAP : e[1] = c.type
  BY <1>6, ListedAreKnown DEF MAGIC_MAP
<1>8. PICK e \in MAGIC_MAP : e[1] = c.type /\ e[2] \subseteq c.head
  BY <1>5, <1>7 DEF MagicOk, Signed
<1> QED BY <1>6, <1>8, ImagesAreImages

\* Of the requests the gate lets through, in any state it can be in, only fit files
\* are stored.
THEOREM OnlyFitIsAlwaysStored == Spec => []OnlyFitIsStored
<1>1. TypeOK => OnlyFitIsStored
  <2> SUFFICES ASSUME TypeOK, NEW u \in Uploads
               PROVE  <<req[u].ctx, req[u].mime>> \in Safe
    BY DEF OnlyFitIsStored
  <2>1. req[u] \in Requests /\ req[u].ctx \in Contexts
    BY DEF TypeOK, Requests, Contexts
  <2>2. <<req[u].ctx, req[u].mime>> \in Kinds
    BY <2>1 DEF Kinds
  <2>3. \A c \in Contents :
          Outcome(Questions(req[u].ctx, c)) = 201 => Fit(req[u].ctx, c)
    BY <2>1, StoredIsFit
  <2> QED BY <2>2, <2>3 DEF Safe, Brings
<1> QED BY <1>1, TypeCorrect, PTL

=============================================================================
