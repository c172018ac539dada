----------------------------- MODULE KeyLoading -----------------------------
(***************************************************************************)
(* The key that verifies tokens, in one process: JwksService fetches it    *)
(* from the auth service, with a backoff and then in the background, until *)
(* it has one or the module is destroyed.  The health controller reports   *)
(* whether it is there and JwtAuthGuard admits requests with it, unless    *)
(* Redis holds a revocation marker for their token or device.              *)
(*                                                                         *)
(* A request or a probe that was answered makes room for another one.      *)
(***************************************************************************)
EXTENDS Naturals

CONSTANTS
  MaxAttempts,  \* BACKOFF_MAX_ATTEMPTS
  InitialDelay, \* BACKOFF_INITIAL_MS, in seconds
  DelayCap,     \* BACKOFF_CAP_MS, in seconds
  Requests,     \* authenticated requests in flight
  Tokens,       \* tokens clients send
  Genuine,      \* those verifyAsync accepts and whose claims are complete
  Devices, DeviceOf,  \* the device each token was issued to
  Probes,       \* health requests in flight
  Outages        \* what may fail: "redis", "database", "cache", "minio"

ASSUME BackoffAssumption ==
  /\ MaxAttempts \in Nat \ {0}
  /\ InitialDelay \in Nat /\ DelayCap \in Nat /\ InitialDelay <= DelayCap
ASSUME TokensAssumption == Genuine \subseteq Tokens /\ DeviceOf \in [Tokens -> Devices]

VARIABLES
  lpc,       \* where the loader is
  attempt,   \* the fetch of the first loop it is at
  delay,     \* the wait after it, in seconds
  body,      \* the body of the response: none yet, whole or cut
  armed,     \* the timer of its wait is set
  loaded,    \* publicKey is set
  destroyed, \* _destroyed
  up,        \* the endpoint serves an ES256 key
  gpc,       \* where each request is in the guard, or its verdict
  token,     \* the token it carries
  pending,   \* the markers it is still looking up
  revoked,   \* tokens and devices with a revocation marker
  ppc,       \* where each probe is, or its answer
  kind,      \* "check" (GET /health) or "ready" (GET /health/ready)
  sick,      \* the check found something unhealthy
  announced, \* history: some probe was answered ok
  promised,  \* history: a probe had been when the request arrived
  late       \* history: its markers there when it arrived, none looked up in vain

loaderVars == <<lpc, attempt, delay, body, armed, loaded>>
guardVars  == <<gpc, token, pending, promised, late>>
probeVars  == <<ppc, kind, sick, announced>>
vars == <<loaderVars, destroyed, up, guardVars, revoked, probeVars>>

Verdicts == {"accepted", "noKey", "invalid", "revoked", "error"}
Answers  == {"ok", "notOk"}
Steps    == {"database", "cache", "minio", "key"}

Init ==
  /\ lpc = "fetch" /\ attempt = 1 /\ delay = InitialDelay /\ body = "none"
  /\ armed = FALSE /\ loaded = FALSE /\ destroyed = FALSE
  /\ up \in BOOLEAN
  /\ gpc = [r \in Requests |-> "error"] /\ token \in [Requests -> Tokens]
  /\ pending = [r \in Requests |-> {}]
  /\ revoked = {}
  /\ ppc = [p \in Probes |-> "notOk"] /\ kind = [p \in Probes |-> "check"]
  /\ sick = [p \in Probes |-> FALSE]
  /\ announced = FALSE
  /\ promised = [r \in Requests |-> FALSE] /\ late = [r \in Requests |-> {}]

-----------------------------------------------------------------------------
(* JwksService *)

Smaller(a, b) == IF a < b THEN a ELSE b

\* The endpoint answers in time, and the timer is cleared: the body is still to come.
Responds ==
  /\ lpc \in {"fetch", "bgFetch"} /\ body = "none"
  /\ up
  /\ body' = "whole"
  /\ UNCHANGED <<lpc, attempt, delay, armed, loaded, destroyed, up, guardVars, revoked, probeVars>>

\* loadPublicKey gets a document with an ES256 key: both loops end.
Fetched ==
  /\ lpc \in {"fetch", "bgFetch"} /\ body = "whole"
  /\ body' = "none"
  /\ loaded' = TRUE
  /\ lpc' = "end"
  /\ UNCHANGED <<attempt, delay, armed, destroyed, up, guardVars, revoked, probeVars>>

\* sleep: the timer is set whether the module was destroyed meanwhile or not.
Sleep(s) == armed' = TRUE /\ lpc' = s

\* Mutant: no retries in the background.
GiveUpBackground == armed' = FALSE /\ lpc' = "end"

\* The head of the loop in continueBackgroundRetry.
Background ==
  IF loaded \/ destroyed THEN lpc' = "end" /\ UNCHANGED armed
                         ELSE Sleep("bgWait")

\* loadPublicKey throws: no answer within FETCH_TIMEOUT_MS, not a usable one, or a
\* body that stopped.
FetchFails ==
  /\ lpc \in {"fetch", "bgFetch"}
  /\ (body = "none" /\ ~up) \/ body = "cut"
  /\ body' = "none"
  /\ IF lpc = "fetch" /\ attempt < MaxAttempts THEN Sleep("wait") ELSE Background
  /\ UNCHANGED <<attempt, delay, loaded, destroyed, up, guardVars, revoked, probeVars>>

\* Mutant: the loop goes on without a look at _destroyed.
WakeUnchecked ==
  /\ lpc = "wait" /\ armed
  /\ armed' = FALSE
  /\ delay' = Smaller(delay * 2, DelayCap)
  /\ attempt' = attempt + 1
  /\ lpc' = "fetch"
  /\ UNCHANGED <<body, loaded, destroyed, up, guardVars, revoked, probeVars>>

Wake ==
  /\ lpc = "wait" /\ armed
  /\ armed' = FALSE
  /\ delay' = Smaller(delay * 2, DelayCap)
  /\ attempt' = attempt + 1
  /\ lpc' = IF destroyed THEN "end" ELSE "fetch"
  /\ UNCHANGED <<body, loaded, destroyed, up, guardVars, revoked, probeVars>>

BgWake ==
  /\ lpc = "bgWait" /\ armed
  /\ armed' = FALSE
  /\ lpc' = IF destroyed THEN "end" ELSE "bgFetch"
  /\ UNCHANGED <<attempt, delay, body, loaded, destroyed, up, guardVars, revoked, probeVars>>

\* onModuleDestroy: a wait whose timer is cleared is never resumed.
Destroy ==
  /\ ~destroyed
  /\ destroyed' = TRUE
  /\ armed' = FALSE
  /\ UNCHANGED <<lpc, attempt, delay, body, loaded, up, guardVars, revoked, probeVars>>

\* The auth service goes, with what it was sending or not, and comes back.
EndpointChanges ==
  /\ up' = ~up
  /\ body' = body \/ (up /\ body = "whole" /\ body' = "cut")
  /\ UNCHANGED <<lpc, attempt, delay, armed, loaded, destroyed, guardVars, revoked, probeVars>>

-----------------------------------------------------------------------------
(* JwtAuthGuard.canActivate *)

Markers(t) == {t, DeviceOf[t]}

\* The key is looked at before anything is awaited.
Arrive(r, t) ==
  /\ gpc[r] \in Verdicts
  /\ token' = [token EXCEPT ![r] = t]
  /\ gpc' = [gpc EXCEPT ![r] = IF loaded THEN "verify" ELSE "noKey"]
  /\ promised' = [promised EXCEPT ![r] = announced]
  /\ late' = [late EXCEPT ![r] = Markers(t) \cap revoked]
  /\ UNCHANGED <<loaderVars, destroyed, up, pending, revoked, probeVars>>

\* Mutant: the marker of the device is not looked up.
TokenMarkerOnly(r) == {token[r]}

\* The markers Promise.all asks for.
MarkersOf(r) == Markers(token[r])

Verify(r) ==
  /\ gpc[r] = "verify"
  /\ IF token[r] \in Genuine
     THEN /\ gpc' = [gpc EXCEPT ![r] = "lookup"]
          /\ pending' = [pending EXCEPT ![r] = MarkersOf(r)]
     ELSE gpc' = [gpc EXCEPT ![r] = "invalid"] /\ UNCHANGED pending
  /\ UNCHANGED <<loaderVars, destroyed, up, token, promised, late, revoked, probeVars>>

\* Promise.all goes on when both lookups are through: hit, one of them found a
\* marker.
Settled(r, k, hit) ==
  /\ pending' = [pending EXCEPT ![r] = @ \ {k}]
  /\ gpc' = [gpc EXCEPT ![r] = CASE pending[r] # {k} /\ hit -> "marked"
                                 [] pending[r] # {k} /\ ~hit -> "lookup"
                                 [] pending[r] = {k} /\ hit -> "revoked"
                                 [] OTHER -> "accepted"]

LookUp(r, k) ==
  /\ gpc[r] \in {"lookup", "marked"} /\ k \in pending[r]
  /\ Settled(r, k, gpc[r] = "marked" \/ k \in revoked)
  /\ UNCHANGED <<loaderVars, destroyed, up, token, promised, late, revoked, probeVars>>

\* A lookup that fails ends the request, or the cache takes it as a miss.
LookUpFails(r, k) ==
  /\ "redis" \in Outages
  /\ gpc[r] \in {"lookup", "marked"} /\ k \in pending[r]
  /\ \/ Settled(r, k, gpc[r] = "marked")
     \/ /\ pending' = [pending EXCEPT ![r] = {}]
        /\ gpc' = [gpc EXCEPT ![r] = "error"]
  /\ late' = [late EXCEPT ![r] = @ \ {k}]
  /\ UNCHANGED <<loaderVars, destroyed, up, token, promised, revoked, probeVars>>

\* The auth service writes a marker, which outlives the tokens it is about.
Revoke(k) ==
  /\ k \notin revoked
  /\ revoked' = revoked \cup {k}
  /\ UNCHANGED <<loaderVars, destroyed, up, guardVars, probeVars>>

-----------------------------------------------------------------------------
(* HealthController: check visits every dependency, readiness stops at the *)
(* first one that is down.                                                 *)

After == [database |-> "cache", cache |-> "minio", minio |-> "key"]

Ask(p, k) ==
  /\ ppc[p] \in Answers
  /\ ppc' = [ppc EXCEPT ![p] = "database"]
  /\ kind' = [kind EXCEPT ![p] = k]
  /\ sick' = [sick EXCEPT ![p] = FALSE]
  /\ UNCHANGED <<loaderVars, destroyed, up, guardVars, revoked, announced>>

DependencyAnswers(p) ==
  /\ ppc[p] \in Steps \ {"key"}
  /\ ppc' = [ppc EXCEPT ![p] = After[@]]
  /\ UNCHANGED <<loaderVars, destroyed, up, guardVars, revoked, kind, sick, announced>>

DependencyFails(p) ==
  /\ ppc[p] \in Outages \cap (Steps \ {"key"})
  /\ IF kind[p] = "ready"
     THEN ppc' = [ppc EXCEPT ![p] = "notOk"] /\ UNCHANGED sick
     ELSE ppc' = [ppc EXCEPT ![p] = After[@]] /\ sick' = [sick EXCEPT ![p] = TRUE]
  /\ UNCHANGED <<loaderVars, destroyed, up, guardVars, revoked, kind, announced>>

\* Mutant: a loader that has not given up counts as ready.
StillTrying == loaded \/ lpc \in {"fetch", "wait"}

IsReady == loaded

AskKey(p) ==
  /\ ppc[p] = "key"
  /\ LET ok == IsReady /\ ~sick[p] IN
     /\ ppc' = [ppc EXCEPT ![p] = IF ok THEN "ok" ELSE "notOk"]
     /\ announced' = (announced \/ ok)
  /\ UNCHANGED <<loaderVars, destroyed, up, guardVars, revoked, kind, sick>>

-----------------------------------------------------------------------------
LoaderStep == Responds \/ Fetched \/ FetchFails \/ Wake \/ BgWake

Guard(r) ==
  \/ \E t \in Tokens : Arrive(r, t)
  \/ Verify(r)
  \/ \E k \in Tokens \cup Devices : LookUp(r, k) \/ LookUpFails(r, k)

Probe(p) ==
  \/ \E k \in {"check", "ready"} : Ask(p, k)
  \/ DependencyAnswers(p) \/ DependencyFails(p) \/ AskKey(p)

Next ==
  \/ LoaderStep
  \/ Destroy
  \/ EndpointChanges
  \/ \E r \in Requests : Guard(r)
  \/ \E k \in Tokens \cup Devices : Revoke(k)
  \/ \E p \in Probes : Probe(p)

Spec == Init /\ [][Next]_vars

\* A timer fires, and a fetch ends: the wait for the response after FETCH_TIMEOUT_MS
\* at the latest, a body that stops by the idle timeout of Node's own fetch.
Fairness == WF_vars(LoaderStep)

FairSpec == Spec /\ Fairness

-----------------------------------------------------------------------------
(* Properties. *)

TypeOK ==
  /\ lpc \in {"fetch", "wait", "bgFetch", "bgWait", "end"}
  /\ attempt \in 1..MaxAttempts /\ delay \in InitialDelay..DelayCap
  /\ body \in {"none", "whole", "cut"}
  /\ armed \in BOOLEAN /\ loaded \in BOOLEAN
  /\ destroyed \in BOOLEAN /\ up \in BOOLEAN
  /\ gpc \in [Requests -> Verdicts \cup {"verify", "lookup", "marked"}]
  /\ token \in [Requests -> Tokens]
  /\ pending \in [Requests -> SUBSET (Tokens \cup Devices)]
  /\ revoked \subseteq Tokens \cup Devices
  /\ ppc \in [Probes -> Answers \cup Steps]
  /\ kind \in [Probes -> {"check", "ready"}]
  /\ sick \in [Probes -> BOOLEAN]
  /\ announced \in BOOLEAN
  /\ promised \in [Requests -> BOOLEAN]
  /\ late \in [Requests -> SUBSET (Tokens \cup Devices)]

\* Once a probe was answered ok, no request that arrives is turned away for want
\* of a key: traffic sent on the strength of the probe is served.
ServedAfterReady == \A r \in Requests : promised[r] => gpc[r] # "noKey"

\* A request whose token or device was revoked before it arrived is not let in,
\* unless Redis failed to answer for the very marker: a lookup taken as a miss
\* does not hide what the other one finds.
RevokedIsRefused == \A r \in Requests : late[r] # {} => gpc[r] # "accepted"

\* A module that was destroyed starts no fetch, wherever its loader was.
NoFetchAfterDestroy ==
  [][destroyed /\ lpc' \in {"fetch", "bgFetch"} => lpc' = lpc]_vars

\* When the endpoint comes back for good the key is loaded, however many attempts
\* failed before, unless the module was destroyed.
KeyIsLoaded == <>[]up => <>(loaded \/ destroyed)

=============================================================================
