------------------------------- MODULE Lifecycle -------------------------------
(***************************************************************************)
(* The lifecycle configuration of the bucket: a whole document that every  *)
(* replica reads, compares and replaces when it starts, while              *)
(* administrators add and remove rules of their own, and deployments       *)
(* change the TTLs and restart the replicas one at a time.                 *)
(***************************************************************************)
EXTENDS Naturals, FiniteSets, Deployment

CONSTANTS
  Ids,     \* desiredRuleIds: messages-expiry and thumbnails-expiry
  Days,    \* TTLs that are deployed
  Others   \* rules of administrators

ASSUME DaysAssumption == Days \subseteq Nat \ {0}

Absent == 0
Configs == [Ids -> Days]

VARIABLES
  ours,     \* the bucket: Expiration.Days of each of our rules, or Absent
  others,   \* the bucket: the other rules
  pc,       \* where each replica is in onApplicationBootstrap
  want,     \* MESSAGE_BLOB_TTL_DAYS and THUMBNAIL_BLOB_TTL_DAYS of each replica
  got,      \* the other rules each replica was given
  target,   \* the TTLs being deployed
  expected, \* history: the rules administrators added and did not remove
  raced     \* history: one did between the GET and the PUT of a replica

bucket == <<ours, others>>
rulesVars == <<bucket, pc, want, got, target, expected, raced>>

RulesInit ==
  /\ ours = [i \in Ids |-> Absent]
  /\ others \in SUBSET Others /\ expected = others /\ raced = FALSE
  /\ pc = [r \in Replicas |-> "get"]
  /\ target \in Configs
  /\ want = [r \in Replicas |-> target]
  /\ got = [r \in Replicas |-> {}]

To(r, s) == pc' = [pc EXCEPT ![r] = s]

\* Mutant: a rule of ours that is there is taken to be right.
AllPresent(r) == \A i \in Ids : ours[i] # Absent

\* rulesUpToDate
UpToDate(r) == ours = want[r]

\* otherRules
OtherRules == others

\* GetBucketLifecycleConfiguration, and the comparison.  A bucket without a
\* configuration has no rules.
Get(r) ==
  /\ pc[r] = "get"
  /\ To(r, IF UpToDate(r) THEN "done" ELSE "put")
  /\ got' = [got EXCEPT ![r] = OtherRules]
  /\ UNCHANGED <<bucket, want, target, expected, raced>>

\* Mutant: the rules of others are not merged in.
PutOursOnly(r) == ours' = want[r] /\ others' = {}

\* newRules, replacing the whole configuration
PutRules(r) == ours' = want[r] /\ others' = got[r]

Put(r) ==
  /\ pc[r] = "put"
  /\ PutRules(r)
  /\ To(r, "done")
  /\ UNCHANGED <<want, got, target, expected, raced>>

\* S3 rejects a call, or the replica stops; a PUT may have been applied.  The
\* replica starts all the same.
Fails(r) ==
  /\ \/ pc[r] \in {"get", "put"} /\ UNCHANGED bucket
     \/ pc[r] = "put" /\ PutRules(r)
  /\ To(r, "failed")
  /\ UNCHANGED <<want, got, target, expected, raced>>

\* A replica is restarted, with the TTLs that are being deployed.
Restart(r) ==
  /\ pc[r] \in {"done", "failed"}
  /\ want' = [want EXCEPT ![r] = target]
  /\ To(r, "get")
  /\ UNCHANGED <<bucket, got, target, expected, raced>>

Deploy(t) ==
  /\ target' = t
  /\ UNCHANGED <<bucket, pc, want, got, expected, raced>>

\* An administrator adds or removes a rule.
Administer(o) ==
  /\ \/ others' = others \cup {o} /\ expected' = expected \cup {o}
     \/ others' = others \ {o} /\ expected' = expected \ {o}
  /\ raced' = (raced \/ \E r \in Replicas : pc[r] = "put")
  /\ UNCHANGED <<ours, pc, want, got, target>>

RulesNext ==
  \/ \E r \in Replicas : Get(r) \/ Put(r) \/ Fails(r) \/ Restart(r)
  \/ \E t \in Configs : Deploy(t)
  \/ \E o \in Others : Administer(o)

RulesSpec == RulesInit /\ [][RulesNext]_rulesVars

-----------------------------------------------------------------------------
(* Properties. *)

RulesTypeOK ==
  /\ ours \in [Ids -> Days \cup {Absent}]
  /\ others \subseteq Others /\ expected \subseteq Others /\ raced \in BOOLEAN
  /\ pc \in [Replicas -> {"get", "put", "done", "failed"}]
  /\ want \in [Replicas -> Configs] /\ target \in Configs
  /\ got \in [Replicas -> SUBSET Others]

\* Once every replica runs the TTLs that are deployed and its bootstrap succeeded,
\* the bucket has them, however the bootstraps of two deployments interleaved.
ChangeIsApplied ==
  (\A r \in Replicas : want[r] = target /\ pc[r] = "done") => ours = target

\* The rules of administrators are as they left them, however many replicas
\* replace the configuration, unless one was changed between a GET and its PUT.
OthersAreKept == ~raced => others = expected

=============================================================================
