---------------------------- MODULE BlobLinksProofs ----------------------------
(***************************************************************************)
(* Theorems about BlobLinks, for any pool, any number of requests and any  *)
(* expiry of at least a second.                                            *)
(***************************************************************************)
EXTENDS BlobLinks, TLAPS

\* Rounding down to a whole number of seconds loses less than one.
LEMMA WholeSeconds ==
  ASSUME NEW n \in Nat, NEW d \in Nat \ {0}
  PROVE  n \div d \in Nat /\ (n \div d) * d \in 0..n /\ n < (n \div d) * d + d
<1>1. n \div d \in Nat
  <2>1. n \div d \in Int
    BY SMT
  <2>2. n \div d >= 0
    BY SMT
  <2> QED BY <2>1, <2>2
<1>2. d * (n \div d) <= n
  BY SMT
<1>3. n <= d * (n \div d) + d - 1
  BY Z3
<1>4. \A q \in Nat : d * q = q * d /\ d * q \in Nat
  BY SMT
<1> QED BY <1>1, <1>2, <1>3, <1>4

\* Seconds in ticks are ordered as seconds are, and a second is at least a tick.
LEMMA TicksMonotone ==
  ASSUME NEW m \in Nat, NEW n \in Nat
  PROVE  /\ Ticks(n) \in Nat
         /\ m <= n => Ticks(m) <= Ticks(n)
         /\ m > n => Ticks(m) >= Ticks(n) + Second
<1> USE TimeAssumption DEF Ticks
<1>1. \A k \in Nat : k * Second \in Nat
  BY SMT
<1>2. ASSUME NEW i \in Nat, NEW k \in Nat PROVE (i + k) * Second = i * Second + k * Second
  BY SMT
<1>3. CASE m <= n
  <2>1. n - m \in Nat /\ m + (n - m) = n
    BY <1>3
  <2>2. n * Second = m * Second + (n - m) * Second
    BY <1>2, <2>1
  <2> QED BY <1>1, <1>3, <2>1, <2>2
<1>4. CASE m > n
  <2>1. m - n - 1 \in Nat /\ n + (1 + (m - n - 1)) = m
    BY <1>4
  <2>2. 1 + (m - n - 1) \in Nat
    BY <2>1
  <2>3. m * Second = n * Second + (1 + (m - n - 1)) * Second
    BY <1>2, <2>1, <2>2
  <2>4. (1 + (m - n - 1)) * Second = 1 * Second + (m - n - 1) * Second
    BY <1>2, <2>1
  <2>5. 1 * Second = Second
    OBVIOUS
  <2> QED BY <1>1, <1>4, <2>1, <2>3, <2>4, <2>5
<1> QED BY <1>1, <1>3, <1>4

\* A reused URL asks for one second at least and never for more than an expiry, and
\* what it asks for is within a second of the time the last URL has left.
LEMMA ReusedLink ==
  ASSUME stored \in 0..Ticks(Expiry), stored > 0
  PROVE  /\ Reused.asked \in 1..Expiry /\ Reused.said = stored /\ Reused.next = "reuse"
         /\ stored - Ticks(Reused.asked) < Second /\ Ticks(Reused.asked) - stored < Second
<1> USE TimeAssumption
<1> DEFINE n == stored \div Second
<1>0. Ticks(Expiry) \in Nat /\ stored \in Nat
  BY TicksMonotone
<1>1. n \in Nat /\ Ticks(n) \in 0..stored /\ stored < Ticks(n) + Second
  BY <1>0, WholeSeconds DEF Ticks
<1>2. Reused.asked = AtLeast(1, n) /\ Reused.said = stored /\ Reused.next = "reuse"
  BY DEF Reused
<1> HIDE DEF n
<1>3. CASE n < 1
  <2>1. n = 0 /\ AtLeast(1, n) = 1
    BY <1>1, <1>3 DEF AtLeast
  <2>2. Ticks(0) = 0 /\ Ticks(1) = Second
    BY DEF Ticks
  <2> QED BY <1>0, <1>1, <1>2, <2>1, <2>2
<1>4. CASE ~(n < 1)
  <2>1. AtLeast(1, n) = n
    BY <1>4 DEF AtLeast
  <2>2. ~(n > Expiry)
    <3> SUFFICES ASSUME n > Expiry PROVE FALSE
      OBVIOUS
    <3>1. Ticks(n) >= Ticks(Expiry) + Second
      BY <1>1, TicksMonotone
    <3> QED BY <3>1, <1>0, <1>1
  <2>3. n \in 1..Expiry
    BY <1>1, <1>4, <2>2
  <2> QED BY <1>0, <1>1, <1>2, <2>1, <2>3
<1> QED BY <1>3, <1>4

\* What is signed asks for a second at least, a thumbnail for the whole expiry, and a
\* request that has read no clock answers nothing yet.
AskedInv ==
  /\ \A r \in Requests : pc[r] \in {"reuse", "renew", "thumb"} => asked[r] >= 1
  /\ \A r \in Requests : pc[r] = "thumb" => asked[r] = Expiry
  /\ \A r \in Requests : pc[r] \in {"begun", "find", "reply"} => waited[r] = 0 /\ said[r] = 0

\* The ends of what is asked for, in the bounds of an expiry.
LEMMA SignedInBounds ==
  ASSUME TypeOK, AskedInv, NEW r \in Requests, pc[r] \in {"reuse", "renew", "thumb"}
  PROVE  /\ Ticks(asked[r]) \in Nat /\ Ticks(Expiry) \in Nat /\ phase \in Nat /\ phase < Second
         /\ Ticks(asked[r]) - phase \in 0..Ticks(Expiry)
<1> USE TimeAssumption DEF TypeOK
<1>1. asked[r] \in Nat /\ asked[r] > 0 /\ asked[r] <= Expiry
  BY DEF AskedInv
<1>2. Ticks(asked[r]) \in Nat /\ Ticks(asked[r]) >= Ticks(0) + Second
  BY <1>1, TicksMonotone
<1>3. Ticks(asked[r]) <= Ticks(Expiry) /\ Ticks(Expiry) \in Nat
  BY <1>1, TicksMonotone
<1>4. Ticks(0) = 0
  BY DEF Ticks
<1>5. phase \in Nat /\ phase < Second
  OBVIOUS
<1> QED BY <1>2, <1>3, <1>4, <1>5

\* Connections, requests and expiries keep their types: in particular no URL outlasts
\* the expiry.
THEOREM TypeCorrect == Spec => [](TypeOK /\ AskedInv)
<1> USE TimeAssumption, UserAssumption, ConnAssumption
<1>0. Ticks(Expiry) \in Nat
  BY TicksMonotone
<1>1. Init => TypeOK /\ AskedInv
  BY <1>0 DEF Init, TypeOK, AskedInv, Ended, Detached, Users
<1>2. TypeOK /\ AskedInv /\ [Next]_vars => TypeOK' /\ AskedInv'
  <2> SUFFICES ASSUME TypeOK, AskedInv, [Next]_vars PROVE TypeOK' /\ AskedInv'
    OBVIOUS
  <2> USE DEF TypeOK, AskedInv, Ended, Detached, InTransaction
  <2>1. ASSUME NEW r \in Requests, NEW u \in Users, Begin(r, u) PROVE TypeOK' /\ AskedInv'
    BY <1>0, <2>1 DEF Begin, To, Free
  <2>2. ASSUME NEW r \in Requests, Identify(r) PROVE TypeOK' /\ AskedInv'
    BY <2>2 DEF Identify, SetConfig, To, linkVars, answerVars
  <2>3. ASSUME NEW r \in Requests, FindForBlob(r) PROVE TypeOK' /\ AskedInv'
    <3> DEFINE link == IF stored > 0 THEN Reused ELSE Renewed
    <3>1. link.asked \in 1..Expiry /\ link.said \in 0..Ticks(Expiry) /\ link.next \in {"reuse", "renew"}
      <4>1. CASE stored > 0
        BY <4>1, ReusedLink
      <4>2. CASE ~(stored > 0)
        BY <1>0, <4>2 DEF Renewed
      <4> QED BY <4>1, <4>2
    <3>2. /\ asked' = [asked EXCEPT ![r] = link.asked]
          /\ said' = [said EXCEPT ![r] = link.said]
          /\ To(r, link.next)
          /\ UNCHANGED <<phase, poolVars, who, url, waited, wrote, stored>>
      BY <2>3 DEF FindForBlob
    <3> HIDE DEF link
    <3> QED BY <3>1, <3>2 DEF To, poolVars
  <2>4. ASSUME NEW r \in Requests, FindOnly(r) \/ Update(r) PROVE TypeOK' /\ AskedInv'
    BY <2>4 DEF FindOnly, Update, To, poolVars, linkVars, answerVars
  <2>5. ASSUME NEW r \in Requests, Refuse(r) \/ Commit(r) \/ Fails(r)
        PROVE  TypeOK' /\ AskedInv'
    BY <2>5 DEF Refuse, Commit, Fails, To, End, answerVars
  <2>6. ASSUME NEW r \in Requests, Reply(r) PROVE TypeOK' /\ AskedInv'
    <3>1. PICK s \in {"granted", "thumb"} : To(r, s)
      BY <2>6 DEF Reply
    <3>2. pc[r] = "reply" /\ End(r) /\ UNCHANGED <<phase, who, said, url, waited, stored>>
      BY <2>6 DEF Reply
    <3>3. TypeOK'
      <4>1. asked' \in [Requests -> 0..Expiry]
        BY <2>6 DEF Reply
      <4>2. pc' \in [Requests -> Detached \cup InTransaction \cup {"begun"}]
        BY <3>1 DEF To
      <4> QED BY <3>2, <4>1, <4>2 DEF End
    <3>4. s = "thumb" => asked'[r] = Expiry
      BY <2>6, <3>1 DEF Reply, To
    <3>5. \A q \in Requests \ {r} : asked'[q] = asked[q]
      BY <2>6 DEF Reply
    <3>6. AskedInv'
      BY <3>1, <3>2, <3>4, <3>5 DEF To
    <3> QED BY <3>3, <3>6
  <2>7. ASSUME NEW r \in Requests, Sign(r) PROVE TypeOK' /\ AskedInv'
    <3>1. pc[r] \in {"reuse", "renew", "thumb"}
      BY <2>7 DEF Sign
    <3>2. Ticks(asked[r]) - phase \in 0..Ticks(Expiry)
      BY <3>1, SignedInBounds
    <3> DEFINE t == Ticks(asked[r]) - phase
    <3>3. url' = [url EXCEPT ![r] = t]
      BY <2>7 DEF Sign
    <3> HIDE DEF t
    <3>4. t \in 0..Ticks(Expiry)
      BY <3>2 DEF t
    <3>5. PICK s \in {"commit", "update", "stamp"} : To(r, s)
      BY <2>7 DEF Sign
    <3>6. /\ asked' = [asked EXCEPT ![r] = 0]
          /\ UNCHANGED <<phase, poolVars, who, said, waited, wrote, stored>>
      BY <2>7 DEF Sign
    <3> QED BY <3>3, <3>4, <3>5, <3>6 DEF To, poolVars
  <2>8. ASSUME NEW r \in Requests, Stamp(r) PROVE TypeOK' /\ AskedInv'
    BY <1>0, <2>8 DEF Stamp, To, poolVars
  <2>9. ASSUME NEW r \in Requests, SigningFails(r) PROVE TypeOK' /\ AskedInv'
    BY <2>9 DEF SigningFails, To, poolVars, linkVars, answerVars
  <2>10. CASE Tick
    <3>1. \A n \in 0..Ticks(Expiry) : Sooner(n) \in 0..Ticks(Expiry)
      BY <1>0 DEF Sooner
    <3>2. waited' \in [Requests -> 0..MaxWait] /\ phase' \in 0..Second-1
      BY <2>10 DEF Tick
    <3>3. said' \in [Requests -> 0..Ticks(Expiry)] /\ url' \in [Requests -> 0..Ticks(Expiry)]
            /\ stored' \in 0..Ticks(Expiry)
      BY <2>10, <3>1 DEF Tick
    <3>4. \A q \in Requests : pc[q] \in {"begun", "find", "reply"} =>
                                waited'[q] = waited[q] /\ (said[q] = 0 => said'[q] = 0)
      BY <2>10 DEF Tick, Between, Sooner
    <3> QED BY <2>10, <3>2, <3>3, <3>4 DEF Tick, poolVars
  <2>11. CASE UNCHANGED vars
    BY <2>11 DEF vars, poolVars, linkVars, answerVars
  <2> QED BY <2>1, <2>2, <2>3, <2>4, <2>5, <2>6, <2>7, <2>8, <2>9, <2>10, <2>11 DEF Next
<1> QED BY <1>1, <1>2, PTL DEF Spec

-----------------------------------------------------------------------------
(* Identities. *)

\* What a transaction set is the identity its statements run under.
IdentitySet ==
  \A r \in Requests : pc[r] \in InTransaction => local[conn[r]] = who[r]

\* A request that gives its connection back cleans it, and takes nobody else's.
LEMMA Released ==
  ASSUME TypeOK, PoolInv, IdentitySet, NEW r \in Requests, pc[r] \notin Detached,
         pc' = [pc EXCEPT ![r] = "failed"] \/ pc' = [pc EXCEPT ![r] = "granted"]
           \/ pc' = [pc EXCEPT ![r] = "refused"] \/ pc' = [pc EXCEPT ![r] = "thumb"],
         local' = [local EXCEPT ![conn[r]] = NoUser],
         conn' = [conn EXCEPT ![r] = NoConn],
         session' \in {session, [session EXCEPT ![conn[r]] = NoUser]},
         UNCHANGED who
  PROVE  PoolInv' /\ IdentitySet'
<1> USE ConnAssumption DEF TypeOK, Ended, Detached, InTransaction
<1>1. conn[r] \in Conns /\ \A q \in Requests \ {r} : conn[q] # conn[r]
  BY DEF PoolInv
<1>2. \A c \in Conns : session'[c] = NoUser
  BY <1>1 DEF PoolInv
<1>3. \A c \in Free' : local'[c] = NoUser
  BY <1>1 DEF PoolInv, Free
<1>4. PoolInv'
  BY <1>1, <1>2, <1>3 DEF PoolInv
<1>5. IdentitySet'
  BY <1>1 DEF IdentitySet, PoolInv
<1> QED BY <1>4, <1>5

\* Connections stay apart and clean, whatever fails.
LEMMA IdentityStep ==
  ASSUME TypeOK, PoolInv, IdentitySet, [Next]_vars
  PROVE  PoolInv' /\ IdentitySet'
<1> USE ConnAssumption DEF TypeOK, Ended, Detached, InTransaction
<1>1. ASSUME NEW r \in Requests, NEW u \in Users, Begin(r, u) PROVE PoolInv' /\ IdentitySet'
  <2>1. PICK c \in Free : conn' = [conn EXCEPT ![r] = c]
    BY <1>1 DEF Begin
  <2>2. c \in Conns /\ (\A q \in Requests : conn[q] # c) /\ conn[r] = NoConn
    BY <1>1 DEF Free, Begin, PoolInv
  <2>3. Free' \subseteq Free
    BY <2>1, <2>2 DEF Free
  <2>4. PoolInv'
    BY <1>1, <2>1, <2>2, <2>3 DEF Begin, To, PoolInv
  <2>5. IdentitySet'
    BY <1>1, <2>1, <2>2 DEF Begin, To, IdentitySet
  <2> QED BY <2>4, <2>5
<1>2. ASSUME NEW r \in Requests, Identify(r) PROVE PoolInv' /\ IdentitySet'
  <2>1. conn[r] \in Conns /\ \A q \in Requests \ {r} : conn[q] # conn[r]
    BY <1>2 DEF Identify, PoolInv
  <2>2. Free' = Free /\ conn[r] \notin Free
    BY <1>2 DEF Identify, Free
  <2>3. PoolInv'
    BY <1>2, <2>1, <2>2 DEF Identify, SetConfig, To, PoolInv, Free
  <2>4. IdentitySet'
    BY <1>2, <2>1 DEF Identify, SetConfig, To, IdentitySet
  <2> QED BY <2>3, <2>4
<1>3. ASSUME NEW r \in Requests, FindForBlob(r) \/ FindOnly(r) PROVE PoolInv' /\ IdentitySet'
  <2>1. PICK s \in {"reuse", "renew", "reply"} : To(r, s)
    BY <1>3 DEF FindForBlob, FindOnly, Reused, Renewed
  <2>2. pc[r] = "find" /\ UNCHANGED <<poolVars, who>>
    BY <1>3 DEF FindForBlob, FindOnly
  <2>3. Free' = Free
    BY <2>2 DEF poolVars, Free
  <2> QED BY <2>1, <2>2, <2>3 DEF To, poolVars, PoolInv, IdentitySet
<1>4. ASSUME NEW r \in Requests, Update(r) \/ Sign(r) \/ Stamp(r) \/ SigningFails(r)
      PROVE  PoolInv' /\ IdentitySet'
  <2>1. PICK s \in {"commit", "update", "stamp", "granted", "failed"} : To(r, s)
    BY <1>4 DEF Update, Sign, Stamp, SigningFails
  <2>2. /\ UNCHANGED <<poolVars, who>>
        /\ \/ pc[r] \in {"update", "reuse", "renew"} /\ s \in {"commit", "update"}
           \/ pc[r] \in {"thumb", "stamp"} /\ s \in {"stamp", "granted", "failed"}
    BY <1>4, <2>1 DEF Update, Sign, Stamp, SigningFails, To
  <2>3. Free' = Free
    BY <2>2 DEF poolVars, Free
  <2> QED BY <2>1, <2>2, <2>3 DEF To, poolVars, PoolInv, IdentitySet
<1>5. ASSUME NEW r \in Requests, Commit(r) \/ Refuse(r) \/ Reply(r)
      PROVE  PoolInv' /\ IdentitySet'
  BY <1>5, Released DEF Commit, Refuse, Reply, To, End
<1>6. ASSUME NEW r \in Requests, Fails(r) PROVE PoolInv' /\ IdentitySet'
  BY <1>6, Released DEF Fails, To, End
<1>7. CASE Tick
  <2>1. Free' = Free
    BY <1>7 DEF Tick, poolVars, Free
  <2> QED BY <1>7, <2>1 DEF Tick, poolVars, PoolInv, IdentitySet
<1>8. CASE UNCHANGED vars
  <2>1. Free' = Free
    BY <1>8 DEF vars, poolVars, Free
  <2> QED BY <1>8, <2>1 DEF vars, poolVars, PoolInv, IdentitySet
<1> QED BY <1>1, <1>2, <1>3, <1>4, <1>5, <1>6, <1>7, <1>8 DEF Next

\* Statements run as the user of their request, pooled connections as nobody.
THEOREM IdentityIsIsolated == Spec => [](PoolInv /\ IdentityInv)
<1> USE ConnAssumption, UserAssumption
<1>1. Init => PoolInv /\ IdentitySet
  BY DEF Init, PoolInv, IdentitySet, Ended, Detached, InTransaction, Free
<1>2. TypeOK /\ PoolInv /\ IdentitySet /\ [Next]_vars => PoolInv' /\ IdentitySet'
  BY IdentityStep
<1>3. TypeOK /\ PoolInv /\ IdentitySet => IdentityInv
  <2> SUFFICES ASSUME TypeOK, PoolInv, IdentitySet PROVE IdentityInv
    OBVIOUS
  <2>1. \A u \in Users : u # NoUser
    BY DEF Users
  <2>2. ASSUME NEW r \in Requests, pc[r] \in InTransaction
        PROVE  CurrentUser(conn[r]) = who[r]
    BY <2>1, <2>2 DEF IdentitySet, CurrentUser, TypeOK
  <2>3. ASSUME NEW c \in Free PROVE CurrentUser(c) = NoUser
    BY <2>3 DEF PoolInv, CurrentUser, Free
  <2> QED BY <2>2, <2>3 DEF IdentityInv
<1> QED BY <1>1, <1>2, <1>3, TypeCorrect, PTL DEF Spec

-----------------------------------------------------------------------------
(* Links. *)

\* From the decision to the signing, and from the signing to the answer, the two ends
\* drift by no more than the time that passes.
SigningInv ==
  \A r \in Requests :
    /\ pc[r] \in {"reuse", "renew"} /\ said[r] > 0 =>
         /\ said[r] + waited[r] - Ticks(asked[r]) < Second
         /\ Ticks(asked[r]) - said[r] - waited[r] < Second
    /\ pc[r] = "stamp" => Ticks(Expiry) - url[r] < Second + waited[r]

\* What two ends of a link differ by stays as time passes.
LEMMA SoonerTogether ==
  ASSUME NEW m \in Nat, NEW n \in Nat, NEW a \in Nat, NEW b \in Nat,
         m > 0 => m - n < a /\ n - m < b
  PROVE  Sooner(m) > 0 => Sooner(m) - Sooner(n) < a /\ Sooner(n) - Sooner(m) < b
BY DEF Sooner

\* The step of LinkIsAlwaysHonest.
LEMMA LinkStep ==
  ASSUME TypeOK, AskedInv, SigningInv, LinkIsHonest, [Next]_vars
  PROVE  SigningInv' /\ LinkIsHonest'
<1> USE TimeAssumption DEF TypeOK, Ended, Detached, SigningInv, LinkIsHonest
<1>0. Ticks(Expiry) \in Nat
  BY TicksMonotone
<1>1. ASSUME NEW r \in Requests, NEW u \in Users, Begin(r, u)
      PROVE  SigningInv' /\ LinkIsHonest'
  BY <1>1 DEF Begin, To
<1>2. ASSUME NEW r \in Requests, Identify(r) PROVE SigningInv' /\ LinkIsHonest'
  BY <1>2 DEF Identify, To, linkVars, answerVars
<1>3. ASSUME NEW r \in Requests, FindForBlob(r) PROVE SigningInv' /\ LinkIsHonest'
  <2> DEFINE link == IF stored > 0 THEN Reused ELSE Renewed
  <2>1. /\ link.said - Ticks(link.asked) < Second /\ Ticks(link.asked) - link.said < Second
        /\ link.asked \in Nat /\ link.said \in Nat /\ link.next \in {"reuse", "renew"}
    <3>1. CASE stored > 0
      BY <3>1, ReusedLink
    <3>2. CASE ~(stored > 0)
      BY <1>0, <3>2 DEF Renewed
    <3> QED BY <3>1, <3>2
  <2>2. /\ asked' = [asked EXCEPT ![r] = link.asked] /\ said' = [said EXCEPT ![r] = link.said]
        /\ To(r, link.next) /\ UNCHANGED <<url, waited>>
    BY <1>3 DEF FindForBlob
  <2>3. waited[r] = 0
    BY <1>3 DEF FindForBlob, AskedInv
  <2> HIDE DEF link
  <2>4. Ticks(link.asked) \in Nat
    BY <2>1, TicksMonotone
  <2> QED BY <2>1, <2>2, <2>3, <2>4 DEF To
<1>4. ASSUME NEW r \in Requests,
             FindOnly(r) \/ Refuse(r) \/ Update(r) \/ Commit(r) \/ Fails(r) \/ SigningFails(r)
      PROVE  SigningInv' /\ LinkIsHonest'
  BY <1>4 DEF FindOnly, Refuse, Update, Commit, Fails, SigningFails, To, linkVars, answerVars
<1>5. ASSUME NEW r \in Requests, Reply(r) PROVE SigningInv' /\ LinkIsHonest'
  <2>1. PICK s \in {"granted", "thumb"} : To(r, s)
    BY <1>5 DEF Reply
  <2>2. pc[r] = "reply" /\ UNCHANGED <<said, url, waited>>
    BY <1>5 DEF Reply
  <2>3. \A q \in Requests \ {r} : asked'[q] = asked[q]
    BY <1>5 DEF Reply
  <2>4. said[r] = 0
    BY <2>2 DEF AskedInv
  <2> QED BY <2>1, <2>2, <2>3, <2>4 DEF To
<1>6. ASSUME NEW r \in Requests, Sign(r) PROVE SigningInv' /\ LinkIsHonest'
  <2>1. pc[r] \in {"reuse", "renew", "thumb"}
    BY <1>6 DEF Sign
  <2> DEFINE a == Ticks(asked[r])
  <2>2. a \in Nat /\ phase \in Nat /\ phase < Second
    BY <2>1, SignedInBounds
  <2>3. url' = [url EXCEPT ![r] = a - phase] /\ UNCHANGED <<said, waited>>
    BY <1>6 DEF Sign
  <2>4. asked' = [asked EXCEPT ![r] = 0]
    BY <1>6 DEF Sign
  <2>5. CASE pc[r] = "thumb"
    <3>1. pc' = [pc EXCEPT ![r] = "stamp"]
      BY <1>6, <2>5 DEF Sign, To
    <3>2. a = Ticks(Expiry)
      BY <2>5 DEF AskedInv
    <3> QED BY <2>2, <2>3, <2>4, <3>1, <3>2
  <2>6. CASE pc[r] # "thumb"
    <3>1. PICK s \in {"commit", "update"} : pc' = [pc EXCEPT ![r] = s]
      BY <1>6, <2>6 DEF Sign, To
    <3>2. said[r] > 0 => said[r] + waited[r] - a < Second /\ a - said[r] - waited[r] < Second
      BY <2>1, <2>6
    <3> HIDE DEF a
    <3> QED BY <2>2, <2>3, <2>4, <3>1, <3>2
  <2> QED BY <2>5, <2>6
<1>7. ASSUME NEW r \in Requests, Stamp(r) PROVE SigningInv' /\ LinkIsHonest'
  BY <1>0, <1>7 DEF Stamp, To
<1>8. CASE Tick
  <2>1. ASSUME NEW r \in Requests, pc[r] \in {"reuse", "renew"}, said'[r] > 0
        PROVE  /\ said'[r] + waited'[r] - Ticks(asked[r]) < Second
               /\ Ticks(asked[r]) - said'[r] - waited'[r] < Second
    <3>1. said'[r] = Sooner(said[r]) /\ waited'[r] = waited[r] + 1
      BY <1>8, <2>1 DEF Tick, Between
    <3>2. said[r] \in Nat /\ waited[r] \in Nat
      BY <1>0
    <3>3. said[r] > 0 /\ said'[r] = said[r] - 1
      BY <2>1, <3>1, <3>2 DEF Sooner
    <3>4. Ticks(asked[r]) \in Nat
      BY <2>1, SignedInBounds
    <3>5. /\ said[r] + waited[r] - Ticks(asked[r]) < Second
          /\ Ticks(asked[r]) - said[r] - waited[r] < Second
      BY <2>1, <3>3
    <3> QED BY <3>1, <3>2, <3>3, <3>4, <3>5
  <2>2. ASSUME NEW r \in Requests, pc[r] = "stamp"
        PROVE  Ticks(Expiry) - url'[r] < Second + waited'[r]
    BY <1>0, <1>8, <2>2 DEF Tick, Sooner, Between
  <2>3. SigningInv'
    BY <1>8, <2>1, <2>2 DEF Tick
  <2>4. ASSUME NEW r \in Requests, pc[r] \in {"update", "commit", "granted"}, said'[r] > 0
        PROVE  /\ said'[r] - url'[r] < 2 * Second + waited'[r]
               /\ url'[r] - said'[r] < Second + waited'[r]
    BY <1>8, <2>4, SoonerTogether DEF Tick, Between, Sooner
  <2> QED BY <1>8, <2>3, <2>4 DEF Tick
<1>9. CASE UNCHANGED vars
  BY <1>9 DEF vars, linkVars, answerVars
<1> QED BY <1>1, <1>2, <1>3, <1>4, <1>5, <1>6, <1>7, <1>8, <1>9 DEF Next

\* The URL ends less than two seconds before, and less than one after, the expiry that
\* is answered with it, but for the time between the two clock reads of the answer.
THEOREM LinkIsAlwaysHonest == Spec => []LinkIsHonest
<1>1. Init => SigningInv /\ LinkIsHonest
  BY TimeAssumption DEF Init, SigningInv, LinkIsHonest
<1>2. TypeOK /\ AskedInv /\ SigningInv /\ LinkIsHonest /\ [Next]_vars
        => SigningInv' /\ LinkIsHonest'
  BY LinkStep
<1> QED BY <1>1, <1>2, TypeCorrect, PTL DEF Spec
=============================================================================
