------------------------------- MODULE BlobLinks -------------------------------
(***************************************************************************)
(* GET /media/v1/:id/blob, /thumbnail and their ?stream=1 for one shared   *)
(* media: each request runs one transaction on a pooled connection, under  *)
(* the identity RlsSubscriber gives it.  The blob's presigned URL has an   *)
(* expiry the row remembers, the thumbnail's a whole one each time, and a  *)
(* stream or a missing thumbnail has no URL.  The database role is the one *)
(* the code asks for: neither a superuser nor the owner of the tables, so  *)
(* the policies apply.                                                     *)
(*                                                                         *)
(* Time is counted in ticks, and an expiry by the ticks left until it.     *)
(* The service's clock reads ticks; SigV4 stamps a URL with the second it  *)
(* is signed in, X-Amz-Date, and the URL lasts whole seconds from there.   *)
(* Signing reads a clock of its own, later than the service's.             *)
(***************************************************************************)
EXTENDS Integers

CONSTANTS
  Requests,   \* requests in flight at a time
  Conns,      \* connections of the pool
  Owner,      \* owner_id
  Recipients, \* shared_with
  Strangers,  \* other users
  Second,     \* ticks of a second
  Expiry,     \* SIGNED_URL_EXPIRY_SECONDS
  MaxWait,    \* bound: ticks between the two clock reads of an answer
  NoUser,     \* app.current_user_id is unset or empty
  NoConn

ASSUME TimeAssumption == Second \in Nat \ {0} /\ Expiry \in Nat \ {0} /\ MaxWait \in Nat
ASSUME ConnAssumption == NoConn \notin Conns
ASSUME UserAssumption == NoUser \notin {Owner} \cup Recipients \cup Strangers

Users == {Owner} \cup Recipients \cup Strangers

Ticks(seconds) == seconds * Second

VARIABLES
  phase,    \* the tick of the current second
  session,  \* each connection: app.current_user_id of the session
  local,    \* and its value for the transaction, if one was set
  conn,     \* the connection each request holds
  pc,       \* where each request is: its state, or its answer
  who,      \* the user it is of
  asked,    \* seconds it asks the signer for
  said,     \* ticks left of the expiry it answers
  url,      \* ticks left of the URL it answers
  waited,   \* history: ticks between the two clock reads of its answer
  wrote,    \* requests whose transaction updated the row
  stored    \* signed_url_expires_at: ticks left, 0 when null or past

poolVars == <<session, local, conn>>
answerVars == <<asked, said, url, waited>>
linkVars == <<answerVars, wrote, stored>>
vars == <<phase, poolVars, pc, who, linkVars>>

Ended == {"idle", "granted", "refused", "failed"}

\* A thumbnail is signed when the transaction is over.
Detached == Ended \cup {"thumb", "stamp"}

\* Its statements run under the identity Identify gave it.
InTransaction == {"find", "reuse", "renew", "update", "commit", "reply"}

\* Between the clock read of the service and the signer's, or the other way round.
Between == {"reuse", "renew", "stamp"}

Init ==
  /\ phase \in 0..Second-1
  /\ session = [c \in Conns |-> NoUser] /\ local = [c \in Conns |-> NoUser]
  /\ conn = [r \in Requests |-> NoConn]
  /\ pc = [r \in Requests |-> "idle"]
  /\ who \in [Requests -> Users]
  /\ asked = [r \in Requests |-> 0] /\ waited = [r \in Requests |-> 0]
  /\ said = [r \in Requests |-> 0] /\ url = [r \in Requests |-> 0]
  /\ wrote = {} /\ stored = 0

To(r, s) == pc' = [pc EXCEPT ![r] = s]

Free == Conns \ {conn[r] : r \in Requests}

-----------------------------------------------------------------------------
(* Transactions *)

\* Begin: a connection is taken and START TRANSACTION sent.  RlsInterceptor
\* bound the user to the request.
Begin(r, u) ==
  /\ pc[r] \in Ended
  /\ \E c \in Free : conn' = [conn EXCEPT ![r] = c]
  /\ who' = [who EXCEPT ![r] = u]
  /\ asked' = [asked EXCEPT ![r] = 0] /\ waited' = [waited EXCEPT ![r] = 0]
  /\ said' = [said EXCEPT ![r] = 0] /\ url' = [url EXCEPT ![r] = 0]
  /\ To(r, "begun")
  /\ UNCHANGED <<phase, session, local, wrote, stored>>

\* Mutant: set_config(..., false).
SetSession(c, u) == session' = [session EXCEPT ![c] = u] /\ UNCHANGED local

\* set_config('app.current_user_id', u, true)
SetConfig(c, u) == local' = [local EXCEPT ![c] = u] /\ UNCHANGED session

\* afterTransactionStart
Identify(r) ==
  /\ pc[r] = "begun"
  /\ SetConfig(conn[r], who[r])
  /\ To(r, "find")
  /\ UNCHANGED <<phase, conn, who, linkVars>>

\* COMMIT and ROLLBACK: the local value is gone, the connection back in the pool.
End(r) ==
  /\ local' = [local EXCEPT ![conn[r]] = NoUser]
  /\ conn' = [conn EXCEPT ![r] = NoConn]
  /\ wrote' = wrote \ {r}
  /\ UNCHANGED session

\* current_setting('app.current_user_id', TRUE)
CurrentUser(c) == IF local[c] # NoUser THEN local[c] ELSE session[c]

\* media_public_context_select_policy and media_owner_write_policy
MayRead(u) == u \in {Owner} \cup Recipients
MayWrite(u) == u = Owner

-----------------------------------------------------------------------------
(* getBlob, and the reads that end their transaction before they answer *)

AtLeast(m, n) == IF n < m THEN m ELSE n

\* Mutant: a reused URL is signed for the whole expiry.
WholeExpiry == [asked |-> Expiry, said |-> stored, next |-> "reuse"]

\* getOrGenerateSignedUrl: a URL that is to end when the last one does, in whole
\* seconds, or a new one that the row is to remember.
Reused == [asked |-> AtLeast(1, stored \div Second), said |-> stored, next |-> "reuse"]

Renewed == [asked |-> Expiry, said |-> Ticks(Expiry), next |-> "renew"]

\* findById finds the row the policies show, and enforceReadAccess lets the user in.
Admitted(r) == MayRead(CurrentUser(conn[r])) /\ MayRead(who[r])

\* getBlob, up to the signing: the clock is read, and the expiry decided.
FindForBlob(r) ==
  LET link == IF stored > 0 THEN Reused ELSE Renewed
  IN /\ pc[r] = "find" /\ Admitted(r)
     /\ asked' = [asked EXCEPT ![r] = link.asked]
     /\ said' = [said EXCEPT ![r] = link.said]
     /\ To(r, link.next)
     /\ UNCHANGED <<phase, poolVars, who, url, waited, wrote, stored>>

\* getThumbnail, streamBlob and streamThumbnail commit first; what they check then is
\* the row they read.
FindOnly(r) ==
  /\ pc[r] = "find" /\ Admitted(r)
  /\ To(r, "reply")
  /\ UNCHANGED <<phase, poolVars, who, linkVars>>

Refuse(r) ==
  /\ pc[r] = "find" /\ ~Admitted(r)
  /\ To(r, "refused") /\ End(r)
  /\ UNCHANGED <<phase, who, answerVars, stored>>

\* COMMIT, then null or the bytes, or a thumbnail that is still to be signed.
Reply(r) ==
  /\ pc[r] = "reply"
  /\ \/ To(r, "granted") /\ UNCHANGED asked
     \/ To(r, "thumb") /\ asked' = [asked EXCEPT ![r] = Expiry]
  /\ End(r)
  /\ UNCHANGED <<phase, who, said, url, waited, stored>>

\* generatePresignedUrl: the signer reads the clock and drops what is over a second.
Sign(r) ==
  /\ \/ pc[r] = "reuse" /\ To(r, "commit")
     \/ pc[r] = "renew" /\ To(r, "update")
     \/ pc[r] = "thumb" /\ To(r, "stamp")
  /\ url' = [url EXCEPT ![r] = Ticks(asked[r]) - phase]
  /\ asked' = [asked EXCEPT ![r] = 0]
  /\ UNCHANGED <<phase, poolVars, who, said, waited, wrote, stored>>

\* getThumbnail reads the clock when its URL is signed.
Stamp(r) ==
  /\ pc[r] = "stamp"
  /\ said' = [said EXCEPT ![r] = Ticks(Expiry)]
  /\ To(r, "granted")
  /\ UNCHANGED <<phase, poolVars, who, asked, url, waited, wrote, stored>>

\* updateSignedUrlExpiry: waits for the row lock, and updates no row the policy
\* hides from the user.
Update(r) ==
  /\ pc[r] = "update" /\ wrote = {}
  /\ wrote' = IF MayWrite(CurrentUser(conn[r])) THEN {r} ELSE {}
  /\ To(r, "commit")
  /\ UNCHANGED <<phase, poolVars, who, answerVars, stored>>

Commit(r) ==
  /\ pc[r] = "commit"
  /\ stored' = IF r \in wrote THEN said[r] ELSE stored
  /\ To(r, "granted") /\ End(r)
  /\ UNCHANGED <<phase, who, answerVars>>

\* A statement or the signing fails and the transaction is rolled back, or the
\* connection is lost and replaced by a new one; a COMMIT that is not answered may
\* have been applied.
Fails(r) ==
  /\ pc[r] \notin Detached
  /\ \/ stored' = stored
     \/ pc[r] = "commit" /\ r \in wrote /\ stored' = said[r]
  /\ To(r, "failed")
  /\ \/ End(r)
     \/ /\ session' = [session EXCEPT ![conn[r]] = NoUser]
        /\ local' = [local EXCEPT ![conn[r]] = NoUser]
        /\ conn' = [conn EXCEPT ![r] = NoConn]
        /\ wrote' = wrote \ {r}
  /\ UNCHANGED <<phase, who, answerVars>>

\* The thumbnail's signing fails.
SigningFails(r) ==
  /\ pc[r] = "thumb"
  /\ To(r, "failed")
  /\ UNCHANGED <<phase, poolVars, who, linkVars>>

-----------------------------------------------------------------------------
Sooner(n) == IF n > 0 THEN n - 1 ELSE 0

Tick ==
  /\ \A r \in Requests : pc[r] \in Between => waited[r] < MaxWait
  /\ phase' = IF phase + 1 = Second THEN 0 ELSE phase + 1
  /\ stored' = Sooner(stored)
  /\ said' = [r \in Requests |-> Sooner(said[r])]
  /\ url' = [r \in Requests |-> Sooner(url[r])]
  /\ waited' = [r \in Requests |-> IF pc[r] \in Between THEN waited[r] + 1 ELSE waited[r]]
  /\ UNCHANGED <<poolVars, pc, who, asked, wrote>>

Next ==
  \/ \E r \in Requests, u \in Users : Begin(r, u)
  \/ \E r \in Requests : \/ Identify(r) \/ FindForBlob(r) \/ FindOnly(r) \/ Refuse(r)
                        \/ Reply(r) \/ Sign(r) \/ Stamp(r) \/ Update(r) \/ Commit(r)
                        \/ Fails(r) \/ SigningFails(r)
  \/ Tick

Spec == Init /\ [][Next]_vars

-----------------------------------------------------------------------------
(* Properties. *)

TypeOK ==
  /\ phase \in 0..Second-1
  /\ session \in [Conns -> Users \cup {NoUser}]
  /\ local \in [Conns -> Users \cup {NoUser}]
  /\ conn \in [Requests -> Conns \cup {NoConn}]
  /\ pc \in [Requests -> Detached \cup InTransaction \cup {"begun"}]
  /\ who \in [Requests -> Users]
  /\ asked \in [Requests -> 0..Expiry] /\ waited \in [Requests -> 0..MaxWait]
  /\ said \in [Requests -> 0..Ticks(Expiry)] /\ url \in [Requests -> 0..Ticks(Expiry)]
  /\ wrote \subseteq Requests
  /\ stored \in 0..Ticks(Expiry)

\* Every statement of a transaction runs as the user of its request, and a
\* connection in the pool, which statements without a user may take, as nobody.
IdentityInv ==
  /\ \A r \in Requests : pc[r] \in InTransaction => CurrentUser(conn[r]) = who[r]
  /\ \A c \in Free : CurrentUser(c) = NoUser

\* What it rests on: requests in flight hold different connections, no session has
\* a user, and no transaction leaves one behind.
PoolInv ==
  /\ \A r \in Requests : pc[r] \in Detached <=> conn[r] = NoConn
  /\ \A r, q \in Requests : conn[r] = conn[q] /\ conn[r] # NoConn => r = q
  /\ \A c \in Conns : session[c] = NoUser
  /\ \A c \in Free : local[c] = NoUser

\* Two roundings part a URL from the expiry answered with it: it ends less than two
\* seconds before that expiry and less than one after it, but for the time that
\* passes between the two clock reads of the answer.
LinkIsHonest ==
  \A r \in Requests : pc[r] \in {"update", "commit", "granted"} /\ said[r] > 0 =>
    /\ said[r] - url[r] < 2 * Second + waited[r]
    /\ url[r] - said[r] < Second + waited[r]

=============================================================================
