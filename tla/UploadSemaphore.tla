--------------------------- MODULE UploadSemaphore ---------------------------
(***************************************************************************)
(* The upload semaphore of one user: the Redis counter                     *)
(* upload:semaphore:<userId> that MediaService.upload increments before an *)
(* upload and decrements after it, on any replica.  INCR, EXPIRE, DECR and *)
(* DEL are atomic one by one, not together.                                *)
(*                                                                         *)
(* A request that ended starts again: Requests bounds how many are in      *)
(* flight at a time, not how many there are.                               *)
(***************************************************************************)
EXTENDS Integers, FiniteSets

CONSTANTS
  Requests,    \* upload requests of the user that may be in flight at a time
  MaxUploads,  \* MAX_CONCURRENT_UPLOADS
  TTL,         \* SEMAPHORE_TTL_SECONDS in refresh intervals
  MaxFaults,   \* bound: how many crashes and Redis failures occur
  Faults       \* which: "crash", "redis"

ASSUME MaxUploadsAssumption == MaxUploads \in Nat \ {0}
ASSUME TTLAssumption == TTL \in Nat /\ TTL > 1
ASSUME MaxFaultsAssumption == MaxFaults \in Nat
ASSUME RequestsAssumption == IsFiniteSet(Requests)

VARIABLES
  pc,       \* where each request is
  got,      \* the value INCR returned to it
  exists,   \* the key is in Redis
  val,      \* its value, 0 when absent as INCR and DECR take it
  ttl,      \* intervals before it expires, 0 when no expiry is set
  leaked,   \* history: increments nobody will undo, since the key appeared
  missed,   \* history: refreshes that failed since the expiry was last set
  wiped,    \* history: the key was last removed while requests held slots
  bare,     \* history: a failure after an INCR kept the key from its expiry
  faults    \* failures so far

keyVars == <<exists, val, ttl, leaked, missed, wiped, bare>>
vars == <<pc, got, keyVars, faults>>

PC == {"idle", "expire", "rollback", "running", "del"}

\* Requests the counter stands for: incremented, not yet decremented.
Holding == {r \in Requests : pc[r] \in {"expire", "rollback", "running"}}
Running == {r \in Requests : pc[r] = "running"}

\* Of these, the ones INCR told that they are within the limit.
Accepted ==
  {r \in Requests : pc[r] = "running" \/ (pc[r] = "expire" /\ got[r] <= MaxUploads)}

Init ==
  /\ pc = [r \in Requests |-> "idle"]
  /\ got = [r \in Requests |-> 0]
  /\ exists = FALSE /\ val = 0 /\ ttl = 0
  /\ leaked = 0 /\ missed = 0 /\ wiped = FALSE /\ bare = FALSE /\ faults = 0

To(r, s) == pc' = [pc EXCEPT ![r] = s]

-----------------------------------------------------------------------------
(* The Redis commands.  INCR and DECR create an absent key, without expiry. *)

Add(n) == exists' = TRUE /\ val' = val + n /\ UNCHANGED <<ttl, missed, wiped>>

\* Mutant: EXPIRE is not sent.
ExpiryForgotten == missed' = 0 /\ UNCHANGED <<exists, val, ttl, wiped, bare>>

SetExpiry ==
  /\ ttl' = (IF exists THEN TTL ELSE 0)
  /\ missed' = 0 /\ bare' = FALSE /\ UNCHANGED <<exists, val, wiped>>

Remove ==
  /\ exists' = FALSE /\ val' = 0 /\ ttl' = 0 /\ leaked' = 0 /\ missed' = 0
  /\ wiped' = (Holding # {}) /\ bare' = FALSE

KeyKept == UNCHANGED <<exists, val, ttl, missed, wiped>>

-----------------------------------------------------------------------------
(* acquireSemaphore *)

\* Mutant: the increment over the limit is not taken back.
ForgetRollBack(r) ==
  /\ pc[r] = "rollback"
  /\ KeyKept
  /\ To(r, "idle")
  /\ UNCHANGED <<got, leaked, bare, faults>>

Incr(r) ==
  /\ pc[r] = "idle"
  /\ Add(1)
  /\ got' = [got EXCEPT ![r] = val + 1]
  /\ To(r, "expire")
  /\ UNCHANGED <<leaked, bare, faults>>

\* Mutant: one upload too many is let in.
ExpireLax(r) ==
  /\ pc[r] = "expire"
  /\ SetExpiry
  /\ To(r, IF got[r] > MaxUploads + 1 THEN "rollback" ELSE "running")
  /\ got' = [got EXCEPT ![r] = 0]
  /\ UNCHANGED <<leaked, faults>>

\* Mutant: the limit itself is turned away.
ExpireStrict(r) ==
  /\ pc[r] = "expire"
  /\ SetExpiry
  /\ To(r, IF got[r] >= MaxUploads THEN "rollback" ELSE "running")
  /\ got' = [got EXCEPT ![r] = 0]
  /\ UNCHANGED <<leaked, faults>>

Expire(r) ==
  /\ pc[r] = "expire"
  /\ SetExpiry
  /\ To(r, IF got[r] > MaxUploads THEN "rollback" ELSE "running")
  /\ got' = [got EXCEPT ![r] = 0]
  /\ UNCHANGED <<leaked, faults>>

\* The request over the limit takes its increment back and answers 429.
RollBack(r) ==
  /\ pc[r] = "rollback"
  /\ Add(-1)
  /\ To(r, "idle")
  /\ UNCHANGED <<got, leaked, bare, faults>>

(* releaseSemaphore, in the finally of upload *)

Decr(r) ==
  /\ pc[r] = "running"
  /\ Add(-1)
  /\ To(r, IF val - 1 <= 0 THEN "del" ELSE "idle")
  /\ UNCHANGED <<got, leaked, bare, faults>>

Del(r) ==
  /\ pc[r] = "del"
  /\ Remove
  /\ To(r, "idle")
  /\ UNCHANGED <<got, faults>>

-----------------------------------------------------------------------------
(* Time, in refresh intervals: the key counts down, and the timer of every *)
(* running upload has fired once.                                          *)

\* Mutants: the timer is never started; it is never cleared.
NeverRefreshed(left) == ttl' = left /\ missed' = 0
AlwaysRefreshed(left) == ttl' = TTL /\ missed' = 0

Refreshed(left) ==
  \/ ttl' = (IF Running # {} THEN TTL ELSE left) /\ missed' = 0
  \/ /\ "redis" \in Faults /\ Running # {}
     /\ ttl' = left /\ missed' = IF left > 0 THEN missed + 1 ELSE 0

Tick ==
  /\ exists
  /\ \/ /\ ttl = 1
        /\ Remove
     \/ /\ ttl # 1
        /\ Refreshed(IF ttl > 1 THEN ttl - 1 ELSE 0)
        /\ UNCHANGED <<exists, val, leaked, wiped, bare>>
  /\ UNCHANGED <<pc, got, faults>>

-----------------------------------------------------------------------------
(* Failures. *)

Fault(k) == k \in Faults /\ faults < MaxFaults /\ faults' = faults + 1

\* The EXPIRE that follows an INCR does not come.
ExpiryMissed == bare' = (bare \/ ttl = 0)

\* The process running the request stops; what it held is never given back.
Crash(r) ==
  /\ pc[r] # "idle"
  /\ Fault("crash")
  /\ leaked' = leaked + IF r \in Holding THEN 1 ELSE 0
  /\ IF pc[r] = "expire" THEN ExpiryMissed ELSE UNCHANGED bare
  /\ To(r, "idle")
  /\ got' = [got EXCEPT ![r] = 0]
  /\ KeyKept

\* A command rejects and the request ends: it may have been applied or not.
\* acquireSemaphore is called outside the try, a failing EXPIRE releases nothing.
CommandFails(r) ==
  /\ Fault("redis")
  /\ \/ pc[r] = "idle" /\ Add(1) /\ leaked' = leaked + 1 /\ ExpiryMissed
     \/ pc[r] = "expire" /\ KeyKept /\ leaked' = leaked + 1 /\ ExpiryMissed
     \/ pc[r] = "expire" /\ SetExpiry /\ leaked' = leaked + 1
     \/ pc[r] \in {"rollback", "running"} /\ KeyKept /\ leaked' = leaked + 1
        /\ UNCHANGED bare
     \/ pc[r] \in {"rollback", "running"} /\ Add(-1) /\ UNCHANGED <<leaked, bare>>
     \/ pc[r] = "del" /\ KeyKept /\ UNCHANGED <<leaked, bare>>
     \/ pc[r] = "del" /\ Remove
  /\ To(r, "idle")
  /\ got' = [got EXCEPT ![r] = 0]

-----------------------------------------------------------------------------
Request(r) == Incr(r) \/ Expire(r) \/ RollBack(r) \/ Decr(r) \/ Del(r)

Next ==
  \/ \E r \in Requests : Request(r) \/ Crash(r) \/ CommandFails(r)
  \/ Tick

Spec == Init /\ [][Next]_vars

\* A request in flight goes on, an upload ends, and time passes; nobody has to
\* start an upload.
Fairness ==
  /\ \A r \in Requests : WF_vars(Expire(r) \/ RollBack(r) \/ Decr(r) \/ Del(r))
  /\ WF_vars(Tick)

FairSpec == Spec /\ Fairness

-----------------------------------------------------------------------------
(* Properties. *)

TypeOK ==
  /\ pc \in [Requests -> PC]
  /\ got \in [Requests -> Int]
  /\ exists \in BOOLEAN
  /\ val \in Int
  /\ ttl \in 0..TTL
  /\ leaked \in Nat /\ missed \in Nat /\ wiped \in BOOLEAN /\ bare \in BOOLEAN
  /\ faults \in 0..MaxFaults

\* The counter never stands for more uploads than requests hold or failures
\* left behind: a 429 is always due to real uploads, or to a failure, never to a
\* release that was forgotten.
NoPhantomSlots == val <= Cardinality(Holding) + leaked

\* The key of a running upload does not expire unless every refresh since its
\* expiry was set has failed: the timer comes round often enough to miss some.
KeyOutlivesUploads ==
  [][exists /\ ~exists' /\ Running # {} =>
       \/ \E r \in Requests : pc[r] = "del" /\ pc'[r] = "idle"
       \/ missed >= TTL - 1]_vars

\* A counter that takes slots has an expiry, or a request that is about to set it,
\* unless a crash or failure came between an INCR and its EXPIRE: the two commands
\* are not atomic, and what fails between them leaves slots nothing takes back.
CountHasExpiry ==
  val > 0 /\ ttl = 0 => bare \/ \E r \in Requests : pc[r] = "expire"

\* Slots that failures leaked are gone in the end if the user stays away: the expiry
\* is the safety net, except under a counter that a failure between INCR and EXPIRE
\* left without one.  That counter keeps its slots until the user's next EXPIRE.
QuietUserHeals ==
  <>[](\A r \in Requests : pc[r] = "idle") => <>[](~exists \/ val <= 0 \/ bare)

\* No more than MAX_CONCURRENT_UPLOADS uploads of a user run at a time, whatever
\* rollbacks and failures come in between, unless the counter was taken away from
\* under requests that hold slots (by the DEL of a release, or by its expiry).
WithinMax == ~wiped => Cardinality(Running) <= MaxUploads

\* The five commands together keep the promise of the limit: a request is let in or
\* refused when its INCR is served, whatever comes between that and its answer.
Slots == INSTANCE UploadSlots WITH
  Max     <- MaxUploads,
  in      <- Accepted,
  refused <- Holding \ Accepted,
  lost    <- leaked,
  unsure  <- wiped

ImplementsSlots == Slots!Spec

=============================================================================
