----------------------------- MODULE MediaAccess -----------------------------
(***************************************************************************)
(* Who reads one media of a private context: the sharedWith list of its    *)
(* row, the metadata entry media:meta:<id> that getMetadata answers from,  *)
(* and the requests that read the media, extend the list or delete it.     *)
(*                                                                         *)
(* A read refused by enforceReadAccess and one the row-level security      *)
(* policy hides the row from are both "refused".  The policy lets through  *)
(* the users enforceReadAccess does; public contexts refuse nobody.        *)
(***************************************************************************)
EXTENDS Naturals, FiniteSets

CONSTANTS
  Owner,     \* owner_id
  Others,    \* other users
  Reads,     \* read requests in flight at a time
  Merges,    \* requests extending the list: share, or an upload's dedup hit
  Additions, \* the lists of users a merge may be asked to add, never empty
  Faults,    \* what may fail: "db", "s3", "redis", "crash"
  NoUser

ASSUME OwnerAssumption == Owner \notin Others

Users == Others \cup {Owner}

ASSUME AdditionsAssumption == Additions \subseteq SUBSET Users \ {{}}

VARIABLES
  row,        \* "active" or "deleted" (is_active = false)
  acl,        \* shared_with
  cache,      \* the lists metadata entries hold: none, or the one of the key
  rpc,        \* where each read is: its state, or its answer
  who,        \* the user it reads for
  seen,       \* the list it read
  mpc,        \* where each merge is
  adds,       \* the users it is asked to add
  known,      \* the list it read
  dpc,        \* where the delete request is
  asked,      \* history: users a merge was asked to add
  overlapped  \* history: a merge read the list while another was to write it

readVars  == <<rpc, who, seen>>
mergeVars == <<mpc, adds, known, asked, overlapped>>
vars == <<row, acl, cache, readVars, mergeVars, dpc>>

ReadEnded  == {"idle", "granted", "refused", "failed"}
MergeEnded == {"idle", "done", "unchanged", "notFound", "failed"}

Init ==
  /\ row = "active" /\ acl = {} /\ cache = {}
  /\ rpc = [r \in Reads |-> "idle"]
  /\ who = [r \in Reads |-> NoUser]
  /\ seen = [r \in Reads |-> {}]
  /\ mpc = [m \in Merges |-> "idle"]
  /\ adds \in [Merges -> Additions]
  /\ known = [m \in Merges |-> {}]
  /\ dpc = "idle"
  /\ asked = {} /\ overlapped = FALSE

ReadTo(r, s)  == rpc' = [rpc EXCEPT ![r] = s]
MergeTo(m, s) == mpc' = [mpc EXCEPT ![m] = s]

\* Mutant: whoever reaches the entry is served from it.
AnyoneMayRead(u, list) == TRUE

\* enforceReadAccess
MayRead(u, list) == u = Owner \/ u \in list

-----------------------------------------------------------------------------
(* Reads.  A request that was answered makes room for another one.         *)

Begin(r, u) ==
  /\ rpc[r] \in ReadEnded
  /\ ReadTo(r, "start")
  /\ who' = [who EXCEPT ![r] = u]
  /\ UNCHANGED <<row, acl, cache, seen, mergeVars, dpc>>

\* getMetadata, from the entry.
GetMeta(r) ==
  /\ rpc[r] = "start"
  /\ IF cache = {} THEN ReadTo(r, "load")
     ELSE \E list \in cache :
            ReadTo(r, IF MayRead(who[r], list) THEN "granted" ELSE "refused")
  /\ UNCHANGED <<row, acl, cache, who, seen, mergeVars, dpc>>

\* Mutant: findById without its is_active condition.
FindAny(u) == MayRead(u, acl)

\* findById: an active row the user is allowed to see.
Find(u) == row = "active" /\ MayRead(u, acl)

\* getMetadata, from the row.
LoadMeta(r) ==
  /\ rpc[r] = "load"
  /\ IF Find(who[r]) THEN ReadTo(r, "fill") /\ seen' = [seen EXCEPT ![r] = acl]
                     ELSE ReadTo(r, "refused") /\ UNCHANGED seen
  /\ UNCHANGED <<row, acl, cache, who, mergeVars, dpc>>

FillMeta(r) ==
  /\ rpc[r] = "fill"
  /\ cache' = {seen[r]}
  /\ ReadTo(r, "granted")
  /\ UNCHANGED <<row, acl, who, seen, mergeVars, dpc>>

\* getBlob, getThumbnail, streamBlob and streamThumbnail: always from the row.
ReadObject(r) ==
  /\ rpc[r] = "start"
  /\ ReadTo(r, IF Find(who[r]) THEN "granted" ELSE "refused")
  /\ UNCHANGED <<row, acl, cache, who, seen, mergeVars, dpc>>

\* A store rejects the call (a cache.set may have been applied), or the process
\* stops.
ReadFails(r) ==
  /\ \/ rpc[r] = "start" /\ Faults \cap {"redis", "db", "s3"} # {} /\ UNCHANGED cache
     \/ rpc[r] = "load" /\ "db" \in Faults /\ UNCHANGED cache
     \/ rpc[r] = "fill" /\ "redis" \in Faults /\ cache' \in {cache, {seen[r]}}
     \/ rpc[r] \notin ReadEnded /\ "crash" \in Faults /\ UNCHANGED cache
  /\ ReadTo(r, "failed")
  /\ UNCHANGED <<row, acl, who, seen, mergeVars, dpc>>

-----------------------------------------------------------------------------
(* Extending the list.  share reads and writes it in one transaction, the  *)
(* dedup hit of an upload in two: under READ COMMITTED another merge may   *)
(* commit in between either way.                                           *)

\* The owner is let in by owner_id, never listed.
Added(m) == adds[m] \ {Owner}

MergeRead(m) ==
  /\ mpc[m] = "idle"
  /\ MergeTo(m, CASE row # "active" -> "notFound"
                  [] row = "active" /\ Added(m) \subseteq acl -> "unchanged"
                  [] OTHER -> "write")
  /\ known' = [known EXCEPT ![m] = acl]
  /\ asked' = asked \cup adds[m]
  /\ overlapped' = (overlapped \/ \E n \in Merges : mpc[n] = "write")
  /\ UNCHANGED <<row, acl, cache, readVars, adds, dpc>>

\* Mutant: the list is replaced.
ReplaceAcl(m) == acl' = Added(m)

\* updateSharedWith: the union with the list that was read.
UpdateAcl(m) == acl' = known[m] \cup Added(m)

MergeWrite(m) ==
  /\ mpc[m] = "write"
  /\ UpdateAcl(m)
  /\ MergeTo(m, "invalidate")
  /\ UNCHANGED <<row, cache, readVars, adds, known, asked, overlapped, dpc>>

MergeInvalidate(m) ==
  /\ mpc[m] = "invalidate"
  /\ cache' = {}
  /\ MergeTo(m, "done")
  /\ UNCHANGED <<row, acl, readVars, adds, known, asked, overlapped, dpc>>

MergeFails(m) ==
  /\ \/ mpc[m] \in {"idle", "write"} /\ "db" \in Faults /\ UNCHANGED <<acl, cache>>
     \/ mpc[m] = "write" /\ "db" \in Faults /\ UpdateAcl(m) /\ UNCHANGED cache
     \/ mpc[m] = "invalidate" /\ "redis" \in Faults
        /\ cache' \in {cache, {}} /\ UNCHANGED acl
     \/ mpc[m] \notin MergeEnded /\ "crash" \in Faults /\ UNCHANGED <<acl, cache>>
  /\ MergeTo(m, "failed")
  /\ asked' = asked \cup adds[m]
  /\ UNCHANGED <<row, readVars, adds, known, overlapped, dpc>>

-----------------------------------------------------------------------------
(* Deleting: the steps of MediaPipeline that a reader notices.             *)

DeleteRead ==
  /\ dpc = "idle" /\ row = "active"
  /\ dpc' = "update"
  /\ UNCHANGED <<row, acl, cache, readVars, mergeVars>>

SoftDelete ==
  /\ dpc = "update"
  /\ row' = "deleted"
  /\ dpc' = "invalidate"
  /\ UNCHANGED <<acl, cache, readVars, mergeVars>>

\* The objects are gone, cache.del follows.
DeleteInvalidate ==
  /\ dpc = "invalidate"
  /\ cache' = {}
  /\ dpc' = "done"
  /\ UNCHANGED <<row, acl, readVars, mergeVars>>

DeleteFails ==
  /\ \/ dpc = "update" /\ "db" \in Faults
        /\ row' \in {"active", "deleted"} /\ UNCHANGED cache
     \/ dpc = "invalidate" /\ Faults \cap {"s3", "crash"} # {} /\ UNCHANGED <<row, cache>>
     \/ dpc = "invalidate" /\ "redis" \in Faults
        /\ cache' \in {cache, {}} /\ UNCHANGED row
  /\ dpc' = "failed"
  /\ UNCHANGED <<acl, readVars, mergeVars>>

\* META_CACHE_TTL_MS
CacheExpires ==
  /\ cache # {}
  /\ cache' = {}
  /\ UNCHANGED <<row, acl, readVars, mergeVars, dpc>>

-----------------------------------------------------------------------------
ReadStep(r) ==
  GetMeta(r) \/ LoadMeta(r) \/ FillMeta(r) \/ ReadObject(r) \/ ReadFails(r)
MergeStep(m) ==
  MergeRead(m) \/ MergeWrite(m) \/ MergeInvalidate(m) \/ MergeFails(m)
DeleteStep == DeleteRead \/ SoftDelete \/ DeleteInvalidate \/ DeleteFails

Next ==
  \/ \E r \in Reads, u \in Users : Begin(r, u)
  \/ \E r \in Reads : ReadStep(r)
  \/ \E m \in Merges : MergeStep(m)
  \/ DeleteStep
  \/ CacheExpires

Spec == Init /\ [][Next]_vars

\* A read in flight goes on, and Redis expires the entry.
Fairness ==
  /\ \A r \in Reads : WF_vars(ReadStep(r))
  /\ WF_vars(CacheExpires)

FairSpec == Spec /\ Fairness

-----------------------------------------------------------------------------
(* Properties. *)

TypeOK ==
  /\ row \in {"active", "deleted"}
  /\ acl \subseteq Others
  /\ cache \subseteq SUBSET Others
  /\ rpc \in [Reads -> ReadEnded \cup {"start", "load", "fill"}]
  /\ who \in [Reads -> Users \cup {NoUser}]
  /\ seen \in [Reads -> SUBSET Others]
  /\ mpc \in [Merges -> MergeEnded \cup {"write", "invalidate"}]
  /\ adds \in [Merges -> SUBSET Users]
  /\ known \in [Merges -> SUBSET Others]
  /\ asked \subseteq Users /\ overlapped \in BOOLEAN
  /\ dpc \in {"idle", "update", "invalidate", "done", "failed"}

\* However stale the entry is, nobody reads the media but its owner and users the
\* owner once asked to add.
OnlyInvitedRead ==
  \A r \in Reads : rpc[r] = "granted" => who[r] \in asked \cup {Owner}

\* What makes it inductive: no copy of the list names anybody else.
ListsAreInvited ==
  /\ acl \subseteq asked
  /\ cache \subseteq SUBSET asked
  /\ \A r \in Reads : seen[r] \subseteq asked
                      /\ (rpc[r] = "fill" => who[r] \in asked \cup {Owner})
  /\ \A m \in Merges : known[m] \subseteq asked
                       /\ (mpc[m] = "write" => adds[m] \subseteq asked)

AccessInv == OnlyInvitedRead /\ ListsAreInvited

\* The answered merges are all in the list.
AclIsUnion ==
  \A m \in Merges : mpc[m] \in {"invalidate", "done", "unchanged"} => Added(m) \subseteq acl

\* Merges that do not overlap lose nothing.
SerialAclIsUnion == ~overlapped => AclIsUnion

\* The metadata of a deleted media are served for a while at most: no read can
\* put the entry back for good.
DeletedIsForgotten == row = "deleted" ~> [](cache = {})

=============================================================================
