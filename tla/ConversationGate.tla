--------------------------- MODULE ConversationGate ---------------------------
(***************************************************************************)
(* What an upload request passes before its content is looked at: the      *)
(* end-to-end-encryption status of its conversation, asked of              *)
(* messaging-service and kept in Redis under e2ee:conv:<id>, and for a     *)
(* group icon the answer of group-service.  Time is counted in ticks; one  *)
(* conversation.                                                           *)
(***************************************************************************)
EXTENDS Naturals

CONSTANTS
  Uploads,  \* upload requests in flight at a time
  Users, Groups,
  Admins,   \* <<user, group>>: the user is an admin of the group
  TTL,      \* E2EE_STATUS_CACHE_TTL_MS
  Timeout,  \* MESSAGING_SERVICE_TIMEOUT_MS
  Settle,   \* what a cache.set takes at most
  Faults    \* what may fail: "messaging", "groups", "redis"

ASSUME TimesAssumption == TTL \in Nat \ {0} /\ Timeout \in Nat /\ Settle \in Nat
ASSUME IdsAssumption == Users \cap Groups = {} /\ Admins \subseteq Users \X Groups

\* conv: the request names the conversation.
Requests == [user : Users, ctx : {"message", "avatar", "group_icon"},
             mime : {"octet-stream", "image"}, conv : BOOLEAN]

VARIABLES
  e2ee,     \* messaging-service: the conversation is end-to-end encrypted
  entry,    \* the entries of the key: none, or one with the time it has left
  pc,       \* where each upload is: its state, or its answer
  req,      \* its request
  got,      \* the status it was given
  wait,     \* ticks until its call of messaging-service or Redis ends
  sincePlain, \* history: ticks since FALSE was the answer to give
  sinceE2ee   \* history: ticks since TRUE was

waits == <<got, wait>>
vars == <<e2ee, entry, pc, req, waits, sincePlain, sinceE2ee>>

\* No status older than this decides on an upload.
Bound == TTL + Timeout + Settle

Ended == {"idle", "passed", "badRequest", "plaintext", "forbidden", "unavailable", "failed"}

\* Mutant: the fetch is not given the abort signal.
Unaborted == {"write"}

\* States of a call that ends in time: the fetch is aborted.
Calling == {"fetch", "answered", "write"}

Init ==
  /\ e2ee \in BOOLEAN
  /\ entry = {}
  /\ pc = [u \in Uploads |-> "idle"]
  /\ req \in [Uploads -> Requests]
  /\ got = [u \in Uploads |-> FALSE] /\ wait = [u \in Uploads |-> 0]
  /\ sincePlain = 0 /\ sinceE2ee = 0

To(u, s) == pc' = [pc EXCEPT ![u] = s]
Clock == <<sincePlain, sinceE2ee>>

-----------------------------------------------------------------------------
(* POST /media/v1/upload *)

\* The controller: a request that brings no file, has no user or names another owner is
\* turned away, and a message upload names its conversation.
Arrive(u, r) ==
  /\ pc[u] \in Ended
  /\ req' = [req EXCEPT ![u] = r]
  /\ \/ To(u, "badRequest")
     \/ To(u, CASE r.conv -> "cache"
                [] ~r.conv /\ r.ctx = "message" -> "badRequest"
                [] ~r.conv /\ r.ctx = "avatar" -> "passed"
                [] OTHER -> "authorize")
  /\ UNCHANGED <<e2ee, entry, waits, Clock>>

\* enforceE2EEContentType, and what the controller goes on with.
Judge(u, encrypted) ==
  LET refuse == encrypted /\ req[u].mime # "octet-stream"
  IN To(u, CASE refuse -> "plaintext"
             [] ~refuse /\ req[u].ctx = "group_icon" -> "authorize"
             [] OTHER -> "passed")

\* isConversationE2EE: the entry decides, or messaging-service is asked.
ReadEntry(u) ==
  /\ pc[u] = "cache"
  /\ \/ \E e \in entry : Judge(u, e.val) /\ UNCHANGED waits
     \/ /\ entry = {}
        /\ To(u, "fetch")
        /\ wait' = [wait EXCEPT ![u] = Timeout]
        /\ UNCHANGED got
  /\ UNCHANGED <<e2ee, entry, req, Clock>>

\* messaging-service looks the conversation up; its answer is under way.
Serve(u) ==
  /\ pc[u] = "fetch"
  /\ To(u, "answered")
  /\ got' = [got EXCEPT ![u] = e2ee]
  /\ UNCHANGED <<e2ee, entry, req, wait, Clock>>

\* fetchE2eeStatus resolves: the answer is to be cached, whichever it is.
Fetched(u, answer) ==
  /\ To(u, "write")
  /\ got' = [got EXCEPT ![u] = answer]
  /\ wait' = [wait EXCEPT ![u] = Settle]

Respond(u) ==
  /\ pc[u] = "answered"
  /\ Fetched(u, got[u])
  /\ UNCHANGED <<e2ee, entry, req, Clock>>

\* Unreachable, too slow or an error status: FALSE is the answer to give.
FetchFails(u) ==
  /\ pc[u] \in {"fetch", "answered"} /\ "messaging" \in Faults
  /\ Fetched(u, FALSE)
  /\ sincePlain' = 0
  /\ UNCHANGED <<e2ee, entry, req, sinceE2ee>>

Cached(u) == {[val |-> got[u], left |-> TTL]}

WriteEntry(u) ==
  /\ pc[u] = "write"
  /\ entry' = Cached(u)
  /\ Judge(u, got[u])
  /\ UNCHANGED <<e2ee, req, waits, Clock>>

\* Redis rejects the call; a cache.set may have been applied.
RedisFails(u) ==
  /\ "redis" \in Faults
  /\ \/ pc[u] = "cache" /\ UNCHANGED entry
     \/ pc[u] = "write" /\ entry' \in {entry, Cached(u)}
  /\ To(u, "failed")
  /\ UNCHANGED <<e2ee, req, waits, Clock>>

-----------------------------------------------------------------------------
(* Group icons *)

\* isAdmin(ownerId): ownerId is both the group that is asked about and the
\* member looked for.
IsAdmin(ownerId) == <<ownerId, ownerId>> \in Admins

\* authorizeGroupIconUpload: 403, or 503 when group-service does not answer.
Authorize(u) ==
  /\ pc[u] = "authorize"
  /\ \/ To(u, IF IsAdmin(req[u].user) THEN "passed" ELSE "forbidden")
     \/ "groups" \in Faults /\ To(u, "unavailable")
  /\ UNCHANGED <<e2ee, entry, req, waits, Clock>>

-----------------------------------------------------------------------------
(* The conversation and the clock *)

Toggle ==
  /\ e2ee' = ~e2ee
  /\ IF e2ee THEN sincePlain' = 0 /\ UNCHANGED sinceE2ee
             ELSE sinceE2ee' = 0 /\ UNCHANGED sincePlain
  /\ UNCHANGED <<entry, pc, req, waits>>

\* Mutant: entries are written without a TTL.
Eternal == entry

\* Redis: an entry with no time left is gone.
Aged == {[e EXCEPT !.left = e.left - 1] : e \in {x \in entry : x.left > 1}}

\* The histories stop counting past the bound.
Later(n) == IF n > Bound THEN n ELSE n + 1

\* No call outlasts its wait.
Tick ==
  /\ \A u \in Uploads : pc[u] \in Calling => wait[u] > 0
  /\ entry' = Aged
  /\ wait' = [u \in Uploads |-> IF pc[u] \in Calling THEN wait[u] - 1 ELSE wait[u]]
  /\ sincePlain' = IF e2ee THEN Later(sincePlain) ELSE 0
  /\ sinceE2ee' = IF e2ee THEN 0 ELSE Later(sinceE2ee)
  /\ UNCHANGED <<e2ee, pc, req, got>>

-----------------------------------------------------------------------------
UploadStep(u) ==
  \/ ReadEntry(u) \/ Serve(u) \/ Respond(u) \/ FetchFails(u)
  \/ WriteEntry(u) \/ RedisFails(u) \/ Authorize(u)

Next ==
  \/ \E u \in Uploads, r \in Requests : Arrive(u, r)
  \/ \E u \in Uploads : UploadStep(u)
  \/ Toggle
  \/ Tick

Spec == Init /\ [][Next]_vars

-----------------------------------------------------------------------------
(* Properties. *)

Entries == [val : BOOLEAN, left : 1..TTL]

TypeOK ==
  /\ e2ee \in BOOLEAN
  /\ entry \subseteq Entries
  /\ pc \in [Uploads -> Ended \cup {"cache", "fetch", "answered", "write", "authorize"}]
  /\ req \in [Uploads -> Requests]
  /\ got \in [Uploads -> BOOLEAN]
  /\ wait \in [Uploads -> Nat]
  /\ sincePlain \in Nat /\ sinceE2ee \in Nat

\* How long ago the status s was the answer to give.
Since(s) == IF s THEN sinceE2ee ELSE sincePlain

\* What the bound rests on: the status of a call or an entry is as old as the
\* time that was spent of its waits and its TTL.
RecentInv ==
  /\ Since(e2ee) = 0
  /\ \A e \in entry : Since(e.val) + e.left <= Bound
  /\ \A u \in Uploads :
       /\ pc[u] = "fetch" => wait[u] <= Timeout
       /\ pc[u] = "answered" => Since(got[u]) + wait[u] <= Timeout
       /\ pc[u] = "write" => Since(got[u]) + wait[u] <= Timeout + Settle

\* The steps that let the content in, and that refuse it as plaintext.
LetsIn(u) ==
  pc[u] \in {"cache", "write"} /\ pc'[u] \in {"passed", "authorize"}
    /\ req[u].mime # "octet-stream"
Refuses(u) == pc[u] \in {"cache", "write"} /\ pc'[u] = "plaintext"

Recent(u) == (LetsIn(u) => sincePlain <= Bound) /\ (Refuses(u) => sinceE2ee <= Bound)

\* Whatever the cache holds and however late answers come, plaintext is let into a
\* conversation only if it was not encrypted, or messaging-service failed, within
\* the bound; and refused only if the conversation was encrypted within it.
VerdictIsRecent == [][\A u \in Uploads : Recent(u)]_vars

=============================================================================
