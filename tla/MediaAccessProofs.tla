-------------------------- MODULE MediaAccessProofs --------------------------
(***************************************************************************)
(* Theorems about MediaAccess, for any users, any number of reads and      *)
(* merges, and any failures.                                               *)
(***************************************************************************)
EXTENDS MediaAccess, TLAPS

ReadPC  == ReadEnded \cup {"start", "load", "fill"}
MergePC == MergeEnded \cup {"write", "invalidate"}

\* The type invariant is kept by every step of every request.
LEMMA TypeStep == TypeOK /\ [Next]_vars => TypeOK'
<1> SUFFICES ASSUME TypeOK, [Next]_vars PROVE TypeOK'
  OBVIOUS
<1> USE OwnerAssumption DEF TypeOK, ReadEnded, MergeEnded, ReadTo, MergeTo,
        readVars, mergeVars, Users
<1>1. ASSUME NEW r \in Reads, NEW u \in Users, Begin(r, u) PROVE TypeOK'
  BY <1>1 DEF Begin
<1>2. ASSUME NEW r \in Reads, ReadStep(r) PROVE TypeOK'
  <2>1. CASE GetMeta(r) BY <2>1 DEF GetMeta
  <2>2. CASE LoadMeta(r) BY <2>2 DEF LoadMeta
  <2>3. CASE FillMeta(r) BY <2>3 DEF FillMeta
  <2>4. CASE ReadObject(r) BY <2>4 DEF ReadObject
  <2>5. CASE ReadFails(r) BY <2>5 DEF ReadFails
  <2> QED BY <1>2, <2>1, <2>2, <2>3, <2>4, <2>5 DEF ReadStep
<1>3. ASSUME NEW m \in Merges, MergeStep(m) PROVE TypeOK'
  <2>1. CASE MergeRead(m)
    <3>1. overlapped' \in BOOLEAN
      BY <2>1 DEF MergeRead
    <3>2. mpc' \in [Merges -> MergePC]
      BY <2>1 DEF MergeRead, MergePC
    <3> QED BY <2>1, <3>1, <3>2 DEF MergeRead, MergePC
  <2>2. CASE MergeWrite(m) BY <2>2 DEF MergeWrite, UpdateAcl, Added
  <2>3. CASE MergeInvalidate(m) BY <2>3 DEF MergeInvalidate
  <2>4. CASE MergeFails(m) BY <2>4 DEF MergeFails, UpdateAcl, Added
  <2> QED BY <1>3, <2>1, <2>2, <2>3, <2>4 DEF MergeStep
<1>4. CASE DeleteStep
  BY <1>4 DEF DeleteStep, DeleteRead, SoftDelete, DeleteInvalidate, DeleteFails
<1>5. CASE CacheExpires
  BY <1>5 DEF CacheExpires
<1>6. CASE UNCHANGED vars
  BY <1>6 DEF vars
<1> QED BY <1>1, <1>2, <1>3, <1>4, <1>5, <1>6 DEF Next

\* Every reachable state has its type.
THEOREM TypeCorrect == Spec => []TypeOK
<1>1. Init => TypeOK
  BY AdditionsAssumption DEF Init, TypeOK, ReadEnded, MergeEnded, Users
<1> QED BY <1>1, TypeStep, PTL DEF Spec

-----------------------------------------------------------------------------
\* Every list a step leaves behind, in the row, in the entry or in a request,
\* comes from a list that was there and from users just asked for; and a read is
\* granted only against one of them.
LEMMA AccessStep == TypeOK /\ AccessInv /\ [Next]_vars => AccessInv'
<1> SUFFICES ASSUME TypeOK, AccessInv, [Next]_vars PROVE AccessInv'
  OBVIOUS
<1> USE DEF TypeOK, AccessInv, OnlyInvitedRead, ListsAreInvited, ReadTo,
        MergeTo, readVars, mergeVars, MayRead
<1>1. ASSUME NEW r \in Reads, NEW u \in Users, Begin(r, u) PROVE AccessInv'
  BY <1>1 DEF Begin
<1>2. ASSUME NEW r \in Reads, ReadStep(r) PROVE AccessInv'
  <2>1. CASE GetMeta(r) BY <2>1 DEF GetMeta
  <2>2. CASE LoadMeta(r) BY <2>2 DEF LoadMeta, Find
  <2>3. CASE FillMeta(r) BY <2>3 DEF FillMeta
  <2>4. CASE ReadObject(r) BY <2>4 DEF ReadObject, Find
  <2>5. CASE ReadFails(r) BY <2>5 DEF ReadFails
  <2> QED BY <1>2, <2>1, <2>2, <2>3, <2>4, <2>5 DEF ReadStep
<1>3. ASSUME NEW m \in Merges, MergeStep(m) PROVE AccessInv'
  <2>1. CASE MergeRead(m) BY <2>1 DEF MergeRead
  <2>2. CASE MergeWrite(m) BY <2>2 DEF MergeWrite, UpdateAcl, Added
  <2>3. CASE MergeInvalidate(m) BY <2>3 DEF MergeInvalidate
  <2>4. CASE MergeFails(m) BY <2>4 DEF MergeFails, UpdateAcl, Added
  <2> QED BY <1>3, <2>1, <2>2, <2>3, <2>4 DEF MergeStep
<1>4. CASE DeleteStep
  BY <1>4 DEF DeleteStep, DeleteRead, SoftDelete, DeleteInvalidate, DeleteFails
<1>5. CASE CacheExpires
  BY <1>5 DEF CacheExpires
<1>6. CASE UNCHANGED vars
  BY <1>6 DEF vars
<1> QED BY <1>1, <1>2, <1>3, <1>4, <1>5, <1>6 DEF Next

\* The inductive invariant of the readers holds in every behaviour.
THEOREM AccessInvariant == Spec => []AccessInv
<1>1. Init => AccessInv
  BY DEF Init, AccessInv, OnlyInvitedRead, ListsAreInvited
<1> QED BY <1>1, AccessStep, TypeCorrect, PTL DEF Spec

\* Whatever entries go stale and whatever updates are lost, only the owner and
\* users the owner asked to add ever read the media.
THEOREM OnlyInvitedAlwaysRead == Spec => []OnlyInvitedRead
<1>1. AccessInv => OnlyInvitedRead
  BY DEF AccessInv
<1> QED BY <1>1, AccessInvariant, PTL

-----------------------------------------------------------------------------
\* While merges do not overlap, one at most is to write, and the list it read is
\* still the row's.
SerialInv ==
  ~overlapped =>
    /\ \A m, n \in Merges : mpc[m] = "write" /\ mpc[n] = "write" => m = n
    /\ \A m \in Merges : mpc[m] = "write" => known[m] = acl
    /\ AclIsUnion

\* A merge that writes the list it read, alone, adds to the row's.
LEMMA UpdateAdds ==
  ASSUME TypeOK, SerialInv, ~overlapped, NEW m \in Merges, mpc[m] = "write", UpdateAcl(m)
  PROVE  acl' = acl \cup Added(m) /\ \A n \in Merges \ {m} : mpc[n] # "write"
BY DEF SerialInv, UpdateAcl

\* A step that leaves the list alone and starts no merge keeps the rest.
LEMMA SerialKept ==
  ASSUME TypeOK, SerialInv, NEW m \in Merges,
         NEW s \in {"done", "failed"}, MergeTo(m, s), s = "done" => mpc[m] = "invalidate",
         UNCHANGED <<acl, adds, known, overlapped>>
  PROVE  SerialInv'
BY DEF SerialInv, AclIsUnion, Added, MergeTo, TypeOK

\* Every step of every request keeps it.
LEMMA SerialStep == TypeOK /\ SerialInv /\ [Next]_vars => SerialInv'
<1> SUFFICES ASSUME TypeOK, SerialInv, [Next]_vars PROVE SerialInv'
  OBVIOUS
<1>1. CASE UNCHANGED <<mergeVars, acl>>
  BY <1>1 DEF SerialInv, AclIsUnion, Added, mergeVars
<1>2. ASSUME NEW m \in Merges, MergeRead(m) PROVE SerialInv'
  <2> SUFFICES ASSUME ~overlapped' PROVE SerialInv'
    BY DEF SerialInv
  <2>1. ~overlapped /\ \A n \in Merges : mpc[n] # "write"
    BY <1>2 DEF MergeRead
  <2>2. /\ known'[m] = acl /\ UNCHANGED <<acl, adds>>
        /\ mpc'[m] = "unchanged" => Added(m) \subseteq acl
        /\ mpc'[m] \in {"notFound", "unchanged", "write"}
    BY <1>2 DEF MergeRead, MergeTo, TypeOK
  <2>3. \A n \in Merges \ {m} : mpc'[n] = mpc[n]
    BY <1>2 DEF MergeRead, MergeTo, TypeOK
  <2> QED BY <2>1, <2>2, <2>3 DEF SerialInv, AclIsUnion, Added
<1>3. ASSUME NEW m \in Merges, mpc[m] = "write", UpdateAcl(m),
             NEW s \in {"invalidate", "failed"}, MergeTo(m, s),
             UNCHANGED <<adds, known, overlapped>>
      PROVE  SerialInv'
  <2> SUFFICES ASSUME ~overlapped PROVE SerialInv'
    BY <1>3 DEF SerialInv
  <2>1. acl' = acl \cup Added(m) /\ \A n \in Merges \ {m} : mpc[n] # "write"
    BY <1>3, UpdateAdds
  <2>2. mpc'[m] = s /\ \A n \in Merges \ {m} : mpc'[n] = mpc[n]
    BY <1>3 DEF MergeTo, TypeOK
  <2> QED BY <1>3, <2>1, <2>2 DEF SerialInv, AclIsUnion, Added
<1>4. ASSUME NEW m \in Merges, MergeFails(m) PROVE SerialInv'
  <2>1. CASE UNCHANGED acl
    BY <1>4, <2>1, SerialKept DEF MergeFails
  <2>2. CASE mpc[m] = "write" /\ UpdateAcl(m)
    BY <1>3, <1>4, <2>2 DEF MergeFails
  <2> QED BY <1>4, <2>1, <2>2 DEF MergeFails
<1>5. ASSUME NEW m \in Merges, MergeStep(m) PROVE SerialInv'
  <2>1. CASE MergeWrite(m)
    BY <1>3, <2>1 DEF MergeWrite
  <2>2. CASE MergeInvalidate(m)
    BY <2>2, SerialKept DEF MergeInvalidate
  <2> QED BY <1>2, <1>4, <1>5, <2>1, <2>2 DEF MergeStep
<1>6. ASSUME NEW r \in Reads, NEW u \in Users, Begin(r, u) PROVE SerialInv'
  BY <1>1, <1>6 DEF Begin
<1>7. ASSUME NEW r \in Reads, ReadStep(r) PROVE SerialInv'
  BY <1>1, <1>7 DEF ReadStep, GetMeta, LoadMeta, FillMeta, ReadObject, ReadFails
<1>8. CASE DeleteStep \/ CacheExpires \/ UNCHANGED vars
  BY <1>1, <1>8
     DEF DeleteStep, DeleteRead, SoftDelete, DeleteInvalidate, DeleteFails, CacheExpires, vars
<1> QED BY <1>5, <1>6, <1>7, <1>8 DEF Next

\* Merges that do not overlap are all in the list, whatever else fails around them.
THEOREM SerialAclIsAlwaysUnion == Spec => []SerialAclIsUnion
<1>1. Init => SerialInv
  BY DEF Init, SerialInv, AclIsUnion
<1>2. SerialInv => SerialAclIsUnion
  BY DEF SerialInv, SerialAclIsUnion
<1> QED BY <1>1, <1>2, SerialStep, TypeCorrect, PTL DEF Spec

=============================================================================
