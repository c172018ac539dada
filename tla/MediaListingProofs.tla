-------------------------- MODULE MediaListingProofs --------------------------
(***************************************************************************)
(* Theorems about MediaListing, for any number of media and any limits.    *)
(***************************************************************************)
EXTENDS MediaListing, FiniteSetTheorems, TLAPS

-----------------------------------------------------------------------------
(* Pages and counts. *)

\* A request has a page and a limit within bounds, whatever was sent.
LEMMA LimitInRange ==
  ASSUME NEW raw \in Asked
  PROVE  LimitOf(raw) \in 1..MaxLimit
BY LimitsAssumption, AskedAssumption DEF LimitOf, Greater, Lesser

\* The walk starts at page 1: no page asked for means the first.
LEMMA FirstPage == PageOf(NaN) = 1
BY DEF PageOf

\* The page after p, asked for, is the page served.
LEMMA NextPage ==
  ASSUME NEW p \in Nat \ {0}
  PROVE  PageOf(p + 1) = p + 1
BY AskedAssumption DEF PageOf, Greater

\* The rows before a page, and with it.
LEMMA PageBounds ==
  ASSUME NEW p \in Nat \ {0}, NEW l \in Nat \ {0}
  PROVE  /\ (p - 1) * l \in Nat /\ p * l \in Nat
         /\ p * l = (p - 1) * l + l
         /\ (p + 1) * l = p * l + l
         /\ (1 - 1) * l = 0
<1>1. PICK q \in Nat : p = q + 1
  <2> p - 1 \in Nat /\ p = (p - 1) + 1
    OBVIOUS
  <2> QED OBVIOUS
<1>2. q * l \in Nat
  OBVIOUS
<1>3. (q + 1) * l = q * l + l /\ (q + 2) * l = q * l + l + l
  OBVIOUS
<1>4. p - 1 = q /\ p + 1 = q + 2
  BY <1>1
<1> QED BY <1>1, <1>2, <1>3, <1>4

\* The last page holds the last row: rounding up leaves none out.
LEMMA LastPage ==
  ASSUME NEW total \in Nat, NEW p \in Nat \ {0}, limit \in Nat \ {0},
         ~(p < TotalPages(total))
  PROVE  total <= p * limit
<1> DEFINE q == TotalPages(total)
<1>1. q \in Int /\ limit * q <= total + limit - 1 /\ total + limit - 1 < limit * q + limit
  BY DEF TotalPages
<1>2. q <= p
  BY <1>1
<1>3. limit * q <= limit * p
  BY <1>1, <1>2
<1>4. limit * p = p * limit
  OBVIOUS
<1> HIDE DEF q
<1>5. limit * q \in Int /\ p * limit \in Int
  BY <1>1
<1> QED BY <1>1, <1>3, <1>4, <1>5

\* There are finitely many active media, and fewer before one of them.
LEMMA RankType ==
  ASSUME TypeOK, NEW m \in Media
  PROVE  /\ IsFiniteSet(Active) /\ Cardinality(Active) \in Nat
         /\ IsFiniteSet(Newer(m)) /\ Rank(m) \in Nat
         /\ m \in Active => Rank(m) < Cardinality(Active)
<1>1. IsFiniteSet(Active)
  BY MediaAssumption, FS_Subset DEF Active
<1>2. IsFiniteSet(Newer(m))
  BY <1>1, FS_Subset DEF Newer
<1>3. Cardinality(Active) \in Nat /\ Rank(m) \in Nat
  BY <1>1, <1>2, FS_CardinalityType DEF Rank
<1>4. ASSUME m \in Active PROVE Rank(m) < Cardinality(Active)
  <2>1. m \notin Newer(m)
    BY DEF Newer, TypeOK
  <2>2. Newer(m) \subseteq Active
    BY DEF Newer
  <2> QED BY <1>1, <1>3, <1>4, <2>1, <2>2, FS_Subset DEF Rank
<1> QED BY <1>1, <1>2, <1>3, <1>4

-----------------------------------------------------------------------------
(* Where a page begins and ends. *)

\* A media whose time no other active one has is among the first n rows exactly
\* when fewer than n come before it, in whichever order the statement reads ties.
LEMMA RankDecides ==
  ASSUME TypeOK, NEW n \in Nat, NEW S \in First(n), NEW m \in Active,
         \A x \in Active \ {m} : created[x] # created[m]
  PROVE  m \in S <=> Rank(m) < n
<1>1. /\ S \subseteq Active /\ m \in Media
      /\ Cardinality(S) = Lesser(n, Cardinality(Active))
      /\ \A s \in S, r \in Active \ S : created[s] >= created[r]
  BY DEF First, Active
<1>2. created \in [Media -> Nat] /\ Active \subseteq Media
  BY DEF TypeOK, Active
<1>3. /\ IsFiniteSet(Active) /\ Cardinality(Active) \in Nat
      /\ IsFiniteSet(Newer(m)) /\ Rank(m) \in Nat
  BY <1>1, RankType
<1>4. IsFiniteSet(S) /\ Cardinality(S) \in Nat
  BY <1>1, <1>3, FS_Subset, FS_CardinalityType
<1>5. ASSUME m \in S PROVE Rank(m) < n
  <2>1. Newer(m) \subseteq S
    BY <1>1, <1>2, <1>5 DEF Newer
  <2>2. m \notin Newer(m)
    BY <1>1, <1>2 DEF Newer
  <2>3. Rank(m) < Cardinality(S)
    BY <1>3, <1>4, <1>5, <2>1, <2>2, FS_Subset DEF Rank
  <2>4. Cardinality(S) <= n
    BY <1>1, <1>3 DEF Lesser
  <2> QED BY <1>3, <1>4, <2>3, <2>4
<1>6. ASSUME m \notin S PROVE n <= Rank(m)
  <2>1. S \subseteq Newer(m)
    BY <1>1, <1>2, <1>6 DEF Newer
  <2>2. Cardinality(S) <= Rank(m)
    BY <1>3, <2>1, FS_Subset DEF Rank
  <2>3. Cardinality(S) # Cardinality(Active)
    BY <1>1, <1>3, <1>6, FS_Subset
  <2>4. Cardinality(S) = n
    BY <1>1, <2>3 DEF Lesser
  <2> QED BY <2>2, <2>4
<1> QED BY <1>3, <1>5, <1>6

\* A page with a media still to come is full.
LEMMA FullPage ==
  ASSUME TypeOK, NEW a \in Nat, NEW b \in Nat, a <= b, b <= Cardinality(Active),
         NEW S \in First(a), NEW R \in First(b), S \subseteq R
  PROVE  Cardinality(R \ S) = b - a
<1>1. IsFiniteSet(Active) /\ Cardinality(Active) \in Nat
  BY MediaAssumption, FS_Subset, FS_CardinalityType DEF Active
<1>2. /\ S \subseteq Active /\ Cardinality(S) = Lesser(a, Cardinality(Active))
      /\ R \subseteq Active /\ Cardinality(R) = Lesser(b, Cardinality(Active))
  BY DEF First
<1>3. Cardinality(S) = a /\ Cardinality(R) = b
  BY <1>1, <1>2 DEF Lesser
<1>4. IsFiniteSet(R)
  BY <1>1, <1>2, FS_Subset
<1>5. Cardinality(R \ S) = Cardinality(R) - Cardinality(R \cap S)
  BY <1>4, FS_Difference
<1>6. R \cap S = S
  OBVIOUS
<1> QED BY <1>3, <1>5, <1>6

-----------------------------------------------------------------------------
(* Types. *)

\* The listing keeps its type.
THEOREM TypeCorrect == Spec => []TypeOK
<1>1. Init => TypeOK
  BY LimitsAssumption DEF Init, TypeOK
<1>2. TypeOK /\ [Next]_vars => TypeOK'
  <2> SUFFICES ASSUME TypeOK, [Next]_vars PROVE TypeOK'
    OBVIOUS
  <2> USE DEF TypeOK
  <2>1. ASSUME NEW m \in Media, Insert(m) PROVE TypeOK'
    BY <2>1 DEF Insert, To, walkVars
  <2>2. ASSUME NEW m \in Media, Commit(m) PROVE TypeOK'
    BY <2>2 DEF Commit, To, walkVars, Walking
  <2>3. ASSUME NEW m \in Media, SoftDelete(m) PROVE TypeOK'
    BY <2>3 DEF SoftDelete, To, walkVars, Walking
  <2>4. ASSUME NEW raw \in Asked, Open(raw) PROVE TypeOK'
    <3>1. limit' \in 1..MaxLimit /\ page' = 1
      BY <2>4, LimitInRange, FirstPage DEF Open
    <3> QED BY <2>4, <3>1 DEF Open, rowVars, Active
  <2>5. CASE ReadItems
    <3>1. items' \subseteq Media
      BY <2>5 DEF ReadItems, First, Active
    <3> QED BY <2>5, <3>1 DEF ReadItems, rowVars
  <2>6. CASE ReadCount
    <3>1. PageOf(page + 1) = page + 1
      BY NextPage
    <3>2. pc' \in {"items", "done"} /\ page' \in Nat \ {0}
      BY <2>6, <3>1 DEF ReadCount
    <3>3. shown' \in [Media -> Nat]
      BY <2>6 DEF ReadCount
    <3> QED BY <2>6, <3>2, <3>3 DEF ReadCount, rowVars
  <2>7. CASE PageFails
    BY <2>7 DEF PageFails, rowVars
  <2>8. CASE UNCHANGED vars
    BY <2>8 DEF vars, rowVars, walkVars
  <2> QED BY <2>1, <2>2, <2>3, <2>4, <2>5, <2>6, <2>7, <2>8 DEF Next
<1> QED BY <1>1, <1>2, PTL DEF Spec

-----------------------------------------------------------------------------
(* What the histories say of the rows. *)

\* Every step keeps it: an item is met only while its row is there.
LEMMA HistoryStep == TypeOK /\ HistoryInv /\ [Next]_vars => HistoryInv'
<1> SUFFICES ASSUME TypeOK, HistoryInv, [Next]_vars PROVE HistoryInv'
  OBVIOUS
<1> USE DEF TypeOK, HistoryInv, Met, Active, Walking
<1>1. ASSUME NEW m \in Media, Insert(m) PROVE HistoryInv'
  BY <1>1 DEF Insert, To, walkVars
<1>2. ASSUME NEW m \in Media, Commit(m) PROVE HistoryInv'
  BY <1>2 DEF Commit, To, walkVars
<1>3. ASSUME NEW m \in Media, SoftDelete(m) PROVE HistoryInv'
  BY <1>3 DEF SoftDelete, To, walkVars
<1>4. ASSUME NEW raw \in Asked, Open(raw) PROVE HistoryInv'
  BY <1>4 DEF Open, rowVars
<1>5. CASE ReadItems
  <2>1. items' \subseteq Active
    BY <1>5 DEF ReadItems, First
  <2> QED BY <1>5, <2>1 DEF ReadItems, rowVars
<1>6. CASE ReadCount
  <2>1. pc' \in {"items", "done"}
    BY <1>6 DEF ReadCount
  <2>2. \A m \in Media : shown'[m] > 0 => m \in Met
    BY <1>6 DEF ReadCount
  <2> QED BY <1>6, <2>1, <2>2 DEF ReadCount, rowVars
<1>7. CASE PageFails
  BY <1>7 DEF PageFails, rowVars
<1>8. CASE UNCHANGED vars
  BY <1>8 DEF vars, rowVars, walkVars
<1> QED BY <1>1, <1>2, <1>3, <1>4, <1>5, <1>6, <1>7, <1>8 DEF Next

-----------------------------------------------------------------------------
(* How far uploads and deletes move a media. *)

\* A commit moves it back, and only if the media committed is newer.
LEMMA CommitRank ==
  ASSUME TypeOK, TypeOK', NEW j \in Media, Commit(j), NEW m \in Media
  PROVE  /\ Rank(m) <= Rank(m)'
         /\ ~(created[j] > created[m]) => Rank(m)' = Rank(m)
<1>1. Active' = Active \cup {j} /\ created' = created
  BY DEF Commit, To, Active, TypeOK
<1>2. Newer(m) \subseteq Newer(m)'
  BY <1>1 DEF Newer
<1>3. IsFiniteSet(Newer(m)')
  <2>1. IsFiniteSet(Active')
    BY MediaAssumption, FS_Subset DEF Active
  <2> QED BY <2>1, FS_Subset DEF Newer
<1>4. ASSUME ~(created[j] > created[m]) PROVE Newer(m)' = Newer(m)
  BY <1>1, <1>4 DEF Newer
<1> QED BY <1>2, <1>3, <1>4, FS_Subset DEF Rank

\* A delete moves it forward, and only if the media deleted is newer.
LEMMA DeleteRank ==
  ASSUME TypeOK, NEW d \in Media, SoftDelete(d), NEW m \in Media
  PROVE  /\ Rank(m)' <= Rank(m)
         /\ ~(created[d] > created[m]) => Rank(m)' = Rank(m)
<1>1. Active' = Active \ {d} /\ created' = created
  BY DEF SoftDelete, To, Active, TypeOK
<1>2. Newer(m)' \subseteq Newer(m)
  BY <1>1 DEF Newer
<1>3. IsFiniteSet(Newer(m))
  BY RankType
<1>4. ASSUME ~(created[d] > created[m]) PROVE Newer(m)' = Newer(m)
  BY <1>1, <1>4 DEF Newer
<1> QED BY <1>2, <1>3, <1>4, FS_Subset DEF Rank

\* What reads leave alone.
LEMMA RowsKept ==
  ASSUME UNCHANGED rowVars
  PROVE  Active' = Active /\ \A m : Rank(m)' = Rank(m)
BY DEF rowVars, Active, Rank, Newer

\* A save that begins changes nothing for the media met.
LEMMA InsertKeeps ==
  ASSUME TypeOK, HistoryInv, NEW x \in Media, Insert(x), NEW m \in Met
  PROVE  /\ Active' = Active /\ Rank(m)' = Rank(m) /\ Tied(m)' = Tied(m)
         /\ Pulled(m)' = Pulled(m) /\ Pushed(m)' = Pushed(m)
<1>1. Active' = Active /\ x \notin Active
  BY DEF Insert, To, Active, TypeOK
<1>2. x \notin Met /\ Met' = Met /\ joined' = joined /\ left' = left
  BY DEF Insert, HistoryInv, Met, walkVars
<1>3. \A y \in Media \ {x} : created'[y] = created[y]
  BY DEF Insert, TypeOK
<1>4. Met \subseteq Media /\ Active \subseteq Media /\ left \subseteq Met /\ joined \subseteq Met
  BY DEF TypeOK, Met, Active, HistoryInv
<1>5. Newer(m)' = Newer(m)
  BY <1>1, <1>2, <1>3, <1>4 DEF Newer
<1>6. Tied(m)' <=> Tied(m)
  BY <1>2, <1>3, <1>4 DEF Tied
<1>7. (Pulled(m)' <=> Pulled(m)) /\ (Pushed(m)' <=> Pushed(m))
  BY <1>2, <1>3, <1>4 DEF Pulled, Pushed
<1> QED BY <1>1, <1>5, <1>6, <1>7 DEF Rank, Tied, Pulled, Pushed

\* When nothing moves a media's created_at, the exemptions stay.
LEMMA ExemptStay ==
  ASSUME created' = created, left \subseteq left', joined \subseteq joined',
         opened' = opened, NEW m
  PROVE  /\ Pulled(m) => Pulled(m)'
         /\ Pushed(m) => Pushed(m)'
         /\ Tied(m) => Tied(m)'
BY DEF Pulled, Pushed, Tied, Met

-----------------------------------------------------------------------------
(* Nothing is missed, nothing is seen twice. *)

\* On the page of its rank, a media is read.
LEMMA ReadPage ==
  ASSUME TypeOK, HistoryInv, ReadItems, NEW m \in Active, ~Tied(m)
  PROVE  /\ m \in items' => (page - 1) * limit <= Rank(m) /\ Rank(m) < page * limit
         /\ m \notin items' /\ (page - 1) * limit <= Rank(m) =>
              page * limit <= Rank(m) /\ Cardinality(items') = limit
<1> DEFINE a == (page - 1) * limit
           b == page * limit
<1>1. a \in Nat /\ b \in Nat /\ b = a + limit /\ limit \in Nat
  BY PageBounds, LimitsAssumption DEF TypeOK
<1>2. PICK S \in First(a), R \in First(b) : S \subseteq R /\ items' = R \ S
  BY DEF ReadItems
<1>3. Active \subseteq Met /\ m \in Media
  BY DEF ReadItems, HistoryInv, Walking, Active
<1>4. \A x \in Active \ {m} : created[x] # created[m]
  BY <1>3 DEF Tied
<1> HIDE DEF a, b
<1>5. (m \in S <=> Rank(m) < a) /\ (m \in R <=> Rank(m) < b)
  BY <1>1, <1>2, <1>4, RankDecides
<1>6. /\ Rank(m) \in Nat /\ Cardinality(Active) \in Nat
      /\ Rank(m) < Cardinality(Active)
  BY <1>3, RankType
<1>7. ASSUME b <= Rank(m) PROVE Cardinality(items') = limit
  <2>1. a <= b /\ b <= Cardinality(Active)
    BY <1>1, <1>6, <1>7
  <2>2. Cardinality(R \ S) = b - a
    BY <1>1, <1>2, <2>1, FullPage
  <2> QED BY <1>1, <1>2, <2>2
<1>8. m \in items' => a <= Rank(m) /\ Rank(m) < b
  BY <1>1, <1>2, <1>5, <1>6
<1>9. m \notin items' /\ a <= Rank(m) => b <= Rank(m)
  BY <1>1, <1>2, <1>5, <1>6
<1> QED BY <1>7, <1>8, <1>9 DEF a, b

\* A media that stays is not lost sight of.
LEMMA MissStep ==
  TypeOK /\ TypeOK' /\ HistoryInv /\ MissInv /\ [Next]_vars => MissInv'
<1> SUFFICES ASSUME TypeOK, TypeOK', HistoryInv, MissInv, [Next]_vars,
                    NEW m \in opened' \ left'
             PROVE  Pulled(m)' \/ Tied(m)' \/ shown'[m] > 0 \/ Ahead(m)'
  BY DEF MissInv
<1>0. /\ m \in Media /\ limit \in Nat \ {0} /\ page \in Nat \ {0}
      /\ Rank(m) \in Nat /\ Rank(m)' \in Nat
  <2>1. m \in Media
    BY DEF TypeOK
  <2>2. Rank(m) \in Nat
    BY <2>1, RankType
  <2>3. IsFiniteSet(Newer(m)')
    <3>1. IsFiniteSet(Active')
      BY MediaAssumption, FS_Subset DEF Active
    <3> QED BY <3>1, FS_Subset DEF Newer
  <2> QED BY <2>1, <2>2, <2>3, FS_CardinalityType, LimitsAssumption DEF TypeOK, Rank
<1>a. m \in opened \ left => Pulled(m) \/ Tied(m) \/ shown[m] > 0 \/ Ahead(m)
  BY DEF MissInv
<1>1. ASSUME NEW x \in Media, Insert(x)
      PROVE  Pulled(m)' \/ Tied(m)' \/ shown'[m] > 0 \/ Ahead(m)'
  <2>1. m \in opened \ left /\ m \in Met
    BY <1>1 DEF Insert, walkVars, Met
  <2>2. Rank(m)' = Rank(m) /\ Tied(m)' = Tied(m) /\ Pulled(m)' = Pulled(m)
    BY <1>1, <2>1, InsertKeeps
  <2> QED BY <1>a, <1>1, <2>1, <2>2 DEF Insert, walkVars, Ahead, Walking
<1>2. ASSUME NEW j \in Media, Commit(j)
      PROVE  Pulled(m)' \/ Tied(m)' \/ shown'[m] > 0 \/ Ahead(m)'
  <2>1. m \in opened \ left
    BY <1>2 DEF Commit, walkVars
  <2>2. Rank(m) <= Rank(m)'
    BY <1>0, <1>2, CommitRank
  <2>3. (Pulled(m) => Pulled(m)') /\ (Tied(m) => Tied(m)')
    BY <1>2, ExemptStay DEF Commit, walkVars
  <2>4. Ahead(m) => Ahead(m)'
    <3>1. (page - 1) * limit \in Nat /\ page * limit \in Nat
      BY <1>0, PageBounds
    <3> QED BY <1>0, <1>2, <2>2, <3>1 DEF Commit, walkVars, Ahead, Walking
  <2> QED BY <1>a, <1>2, <2>1, <2>3, <2>4 DEF Commit, walkVars
<1>3. ASSUME NEW d \in Media, SoftDelete(d)
      PROVE  Pulled(m)' \/ Tied(m)' \/ shown'[m] > 0 \/ Ahead(m)'
  <2>1. m \in opened \ left
    BY <1>3 DEF SoftDelete, walkVars
  <2>2. (Pulled(m) => Pulled(m)') /\ (Tied(m) => Tied(m)')
    BY <1>3, ExemptStay DEF SoftDelete, walkVars
  <2>3. CASE Walking /\ created[d] > created[m]
    BY <1>3, <2>3 DEF SoftDelete, Pulled
  <2>4. CASE Walking /\ ~(created[d] > created[m])
    <3>1. Rank(m)' = Rank(m)
      BY <1>0, <1>3, <2>4, DeleteRank
    <3> QED BY <1>a, <1>3, <2>1, <2>2, <3>1 DEF SoftDelete, walkVars, Ahead, Walking
  <2>5. CASE ~Walking
    BY <1>a, <1>3, <2>1, <2>2, <2>5 DEF SoftDelete, walkVars, Ahead, Walking
  <2> QED BY <2>3, <2>4, <2>5
<1>4. ASSUME NEW raw \in Asked, Open(raw)
      PROVE  Ahead(m)'
  <2>1. page' = 1 /\ limit' \in Nat \ {0}
    BY <1>4, FirstPage, LimitsAssumption DEF Open, TypeOK
  <2>2. (page' - 1) * limit' = 0
    BY <2>1, PageBounds
  <2> QED BY <1>0, <1>4, <2>2 DEF Open, Ahead
<1>5. CASE ReadItems
  <2>1. m \in opened \ left /\ m \in Active /\ Walking
    BY <1>5 DEF ReadItems, HistoryInv, Walking
  <2>2. created' = created /\ left' = left /\ joined' = joined /\ opened' = opened
    BY <1>5 DEF ReadItems, rowVars
  <2>3. (Pulled(m) => Pulled(m)') /\ (Tied(m) => Tied(m)')
    BY <2>2, ExemptStay
  <2>4. ASSUME ~Tied(m), Ahead(m) PROVE Ahead(m)'
    <3>1. (page - 1) * limit <= Rank(m)
      BY <1>0, <2>1, <2>4, PageBounds DEF Ahead
    <3>2. m \notin items' => page * limit <= Rank(m) /\ Cardinality(items') = limit
      BY <1>5, <2>1, <2>4, <3>1, ReadPage
    <3>3. Rank(m)' = Rank(m) /\ page' = page /\ limit' = limit /\ pc' = "count"
      BY <1>5, RowsKept DEF ReadItems
    <3> QED BY <1>0, <3>1, <3>2, <3>3, PageBounds DEF Ahead
  <2> QED BY <1>a, <1>5, <2>1, <2>3, <2>4 DEF ReadItems
<1>6. CASE ReadCount
  <2>1. m \in opened \ left /\ m \in Active /\ pc = "count"
    BY <1>6 DEF ReadCount, HistoryInv, Walking
  <2>2. created' = created /\ left' = left /\ joined' = joined /\ opened' = opened
    BY <1>6 DEF ReadCount, rowVars
  <2>3. (Pulled(m) => Pulled(m)') /\ (Tied(m) => Tied(m)')
    BY <2>2, ExemptStay
  <2>4. shown[m] \in Nat /\ shown'[m] = IF m \in items THEN shown[m] + 1 ELSE shown[m]
    BY <1>0, <1>6 DEF ReadCount, TypeOK
  <2>5. ASSUME m \notin items, Ahead(m) PROVE Ahead(m)'
    <3>1. page * limit <= Rank(m) /\ Cardinality(items) = limit
      BY <1>0, <2>1, <2>5, PageBounds DEF Ahead
    <3>2. PICK total \in Totals :
            IF page < TotalPages(total)
              THEN pc' = "items" /\ page' = PageOf(page + 1)
              ELSE pc' = "done" /\ UNCHANGED page
      BY <1>6 DEF ReadCount
    <3>3. total = Cardinality(Active)
      BY <1>0, <3>1, <3>2 DEF Totals
    <3>4. total \in Nat /\ Rank(m) < total
      BY <1>0, <2>1, <3>3, RankType
    <3>5. ~(total <= page * limit)
      BY <1>0, <3>1, <3>4, PageBounds
    <3>6. page < TotalPages(total)
      BY <1>0, <3>4, <3>5, LastPage
    <3>7. pc' = "items" /\ page' = page + 1 /\ limit' = limit
      BY <1>0, <1>6, <3>2, <3>6, NextPage DEF ReadCount
    <3>8. page' - 1 = page
      BY <1>0, <3>7
    <3>9. Rank(m)' = Rank(m)
      BY <1>6, RowsKept DEF ReadCount
    <3> QED BY <1>0, <3>1, <3>7, <3>8, <3>9, PageBounds DEF Ahead
  <2> QED BY <1>a, <2>1, <2>3, <2>4, <2>5
<1>7. CASE PageFails
  <2>1. m \in opened \ left
    BY <1>7 DEF PageFails
  <2>2. Rank(m)' = Rank(m)
    BY <1>7, RowsKept DEF PageFails
  <2>3. (Pulled(m) => Pulled(m)') /\ (Tied(m) => Tied(m)')
    BY <1>7, ExemptStay DEF PageFails, rowVars
  <2> QED BY <1>a, <1>7, <2>1, <2>2, <2>3 DEF PageFails, Ahead, Walking
<1>8. CASE UNCHANGED vars
  <2>1. Rank(m)' = Rank(m)
    BY <1>8, RowsKept DEF vars
  <2>2. (Pulled(m) => Pulled(m)') /\ (Tied(m) => Tied(m)')
    BY <1>8, ExemptStay DEF vars, rowVars, walkVars
  <2> QED BY <1>a, <1>8, <2>1, <2>2 DEF vars, walkVars, Ahead, Walking
<1> QED BY <1>1, <1>2, <1>3, <1>4, <1>5, <1>6, <1>7, <1>8 DEF Next

\* One that was shown is not shown again.
LEMMA TwiceStep ==
  TypeOK /\ TypeOK' /\ HistoryInv /\ TwiceInv /\ [Next]_vars => TwiceInv'
<1> SUFFICES ASSUME TypeOK, TypeOK', HistoryInv, TwiceInv, [Next]_vars,
                    NEW m \in Media
             PROVE  Pushed(m)' \/ Tied(m)' \/ Once(m)'
  BY DEF TwiceInv
<1>0. /\ limit \in Nat \ {0} /\ page \in Nat \ {0} /\ Rank(m) \in Nat
      /\ shown[m] \in Nat
  BY RankType, LimitsAssumption DEF TypeOK
<1>a. Pushed(m) \/ Tied(m) \/ Once(m)
  BY DEF TwiceInv
<1>1. ASSUME NEW x \in Media, Insert(x)
      PROVE  Pushed(m)' \/ Tied(m)' \/ Once(m)'
  <2>1. CASE m \in Met
    <3>1. /\ Rank(m)' = Rank(m) /\ Tied(m)' = Tied(m) /\ Pushed(m)' = Pushed(m)
          /\ Active' = Active
      BY <1>1, <2>1, InsertKeeps
    <3> QED BY <1>a, <1>1, <3>1 DEF Insert, walkVars, Once, Walking
  <2>2. CASE m \notin Met
    <3>1. ~(shown[m] > 0) /\ m \notin items
      BY <2>2 DEF HistoryInv
    <3> QED BY <1>0, <1>1, <3>1 DEF Insert, walkVars, Once
  <2> QED BY <2>1, <2>2
<1>2. ASSUME NEW j \in Media, Commit(j)
      PROVE  Pushed(m)' \/ Tied(m)' \/ Once(m)'
  <2>1. (Pushed(m) => Pushed(m)') /\ (Tied(m) => Tied(m)')
    BY <1>2, ExemptStay DEF Commit, walkVars
  <2>2. CASE Walking /\ created[j] > created[m]
    BY <1>2, <2>2 DEF Commit, Pushed
  <2>3. CASE ~Walking
    BY <1>a, <1>2, <2>1, <2>3 DEF Commit, walkVars, Once, Walking
  <2>4. CASE Walking /\ ~(created[j] > created[m])
    <3>1. Rank(m)' = Rank(m)
      BY <1>2, <2>4, CommitRank
    <3>2. CASE m = j
      <4>1. m \notin Met
        BY <1>2, <3>2 DEF Commit, HistoryInv
      <4>2. ~(shown[m] > 0) /\ m \notin items
        BY <4>1 DEF HistoryInv
      <4> QED BY <1>0, <1>2, <4>2 DEF Commit, walkVars, Once
    <3>3. CASE m # j
      <4>1. m \in Active' => m \in Active
        BY <1>2, <3>3 DEF Commit, To, Active, TypeOK
      <4> QED BY <1>a, <1>2, <2>1, <3>1, <4>1 DEF Commit, walkVars, Once, Walking
    <3> QED BY <3>2, <3>3
  <2> QED BY <2>2, <2>3, <2>4
<1>3. ASSUME NEW d \in Media, SoftDelete(d)
      PROVE  Pushed(m)' \/ Tied(m)' \/ Once(m)'
  <2>1. (Pushed(m) => Pushed(m)') /\ (Tied(m) => Tied(m)')
    BY <1>3, ExemptStay DEF SoftDelete, walkVars
  <2>2. Rank(m)' <= Rank(m) /\ Rank(m)' \in Nat
    <3>1. IsFiniteSet(Active')
      BY MediaAssumption, FS_Subset DEF Active
    <3>2. IsFiniteSet(Newer(m)')
      BY <3>1, FS_Subset DEF Newer
    <3> QED BY <1>3, <3>2, DeleteRank, FS_CardinalityType DEF Rank
  <2>3. m \in Active' => m \in Active
    BY <1>3 DEF SoftDelete, To, Active, TypeOK
  <2>4. (page - 1) * limit \in Nat /\ page * limit \in Nat
    BY <1>0, PageBounds
  <2>5. Once(m) => Once(m)'
    BY <1>0, <1>3, <2>2, <2>3, <2>4 DEF SoftDelete, walkVars, Once, Walking
  <2> QED BY <1>a, <2>1, <2>5
<1>4. ASSUME NEW raw \in Asked, Open(raw)
      PROVE  Once(m)'
  BY <1>4 DEF Open, Once
<1>5. CASE ReadItems
  <2>1. (Pushed(m) => Pushed(m)') /\ (Tied(m) => Tied(m)')
    BY <1>5, ExemptStay DEF ReadItems, rowVars
  <2>2. ASSUME ~Tied(m), Once(m) PROVE Once(m)'
    <3>1. Rank(m)' = Rank(m) /\ Active' = Active
      BY <1>5, RowsKept DEF ReadItems
    <3>2. UNCHANGED <<limit, page, shown>> /\ pc = "items" /\ items' \subseteq Active
      BY <1>5 DEF ReadItems, First
    <3>3. m \in items' => (page - 1) * limit <= Rank(m) /\ Rank(m) < page * limit
      BY <1>5, <2>2, <3>2, ReadPage
    <3>4. m \in items' => ~(shown[m] > 0)
      BY <1>0, <2>2, <3>2, <3>3, PageBounds DEF Once, Walking
    <3>5. m \in items' => shown[m] = 0
      BY <1>0, <3>4
    <3> QED BY <2>2, <3>1, <3>2, <3>3, <3>5 DEF Once, Walking
  <2> QED BY <1>a, <2>1, <2>2
<1>6. CASE ReadCount
  <2>1. (Pushed(m) => Pushed(m)') /\ (Tied(m) => Tied(m)')
    BY <1>6, ExemptStay DEF ReadCount, rowVars
  <2>2. ASSUME Once(m) PROVE Once(m)'
    <3>1. Rank(m)' = Rank(m) /\ Active' = Active
      BY <1>6, RowsKept DEF ReadCount
    <3>2. /\ shown'[m] = IF m \in items THEN shown[m] + 1 ELSE shown[m]
          /\ items' = {} /\ pc = "count" /\ limit' = limit
      BY <1>6 DEF ReadCount
    <3>3. shown'[m] <= 1
      BY <1>0, <2>2, <3>2 DEF Once
    <3>4. pc' = "items" => page' = page + 1
      BY <1>6, <1>0, NextPage DEF ReadCount
    <3>5. pc' \in {"items", "done"}
      BY <1>6 DEF ReadCount
    <3>6. ASSUME pc' = "items", m \in Active', shown'[m] > 0
          PROVE  Rank(m)' < (page' - 1) * limit'
      <4>1. Rank(m) < (page - 1) * limit \/ Rank(m) < page * limit
        BY <1>0, <2>2, <3>1, <3>2, <3>6 DEF Once, Walking
      <4>2. Rank(m) < page * limit
        BY <1>0, <4>1, PageBounds
      <4>3. page' - 1 = page
        BY <1>0, <3>4, <3>6
      <4> QED BY <3>1, <3>2, <4>2, <4>3
    <3> QED BY <3>2, <3>3, <3>5, <3>6 DEF Once, Walking
  <2> QED BY <1>a, <2>1, <2>2
<1>7. CASE PageFails
  <2>1. Rank(m)' = Rank(m) /\ Active' = Active
    BY <1>7, RowsKept DEF PageFails
  <2>2. (Pushed(m) => Pushed(m)') /\ (Tied(m) => Tied(m)')
    BY <1>7, ExemptStay DEF PageFails, rowVars
  <2> QED BY <1>a, <1>7, <2>1, <2>2 DEF PageFails, Once, Walking
<1>8. CASE UNCHANGED vars
  <2>1. Rank(m)' = Rank(m) /\ Active' = Active
    BY <1>8, RowsKept DEF vars
  <2>2. (Pushed(m) => Pushed(m)') /\ (Tied(m) => Tied(m)')
    BY <1>8, ExemptStay DEF vars, rowVars, walkVars
  <2> QED BY <1>a, <1>8, <2>1, <2>2 DEF vars, walkVars, Once, Walking
<1> QED BY <1>1, <1>2, <1>3, <1>4, <1>5, <1>6, <1>7, <1>8 DEF Next

-----------------------------------------------------------------------------
(* The theorems. *)

\* Where each media is, as the walk goes on: what getUserMedia keeps to, page by page.
THEOREM ListKept == Spec => []ListInv
<1>1. Init => ListInv
  <2> SUFFICES ASSUME Init PROVE ListInv
    OBVIOUS
  <2>1. HistoryInv
    BY DEF Init, HistoryInv, Active, Walking, Met
  <2>2. MissInv
    BY DEF Init, MissInv
  <2>3. TwiceInv
    BY DEF Init, TwiceInv, Once, Walking
  <2> QED BY <2>1, <2>2, <2>3 DEF ListInv
<1>2. TypeOK /\ TypeOK' /\ ListInv /\ [Next]_vars => ListInv'
  BY HistoryStep, MissStep, TwiceStep DEF ListInv
<1> QED BY <1>1, <1>2, TypeCorrect, PTL DEF Spec

\* Going through getUserMedia's pages misses none of the media that stay, unless a
\* newer one was deleted on the way or the order is not decided.
THEOREM WalkIsComplete == Spec => []NoneMissed
<1>1. ListInv => NoneMissed
  BY DEF ListInv, MissInv, Ahead, NoneMissed
<1> QED BY <1>1, ListKept, PTL

\* It shows none twice, unless a newer one was committed on the way or the order is
\* not decided.
THEOREM WalkIsOnce == Spec => []NoneTwice
<1>1. TypeOK /\ ListInv => NoneTwice
  BY DEF TypeOK, ListInv, TwiceInv, Once, NoneTwice
<1> QED BY <1>1, ListKept, TypeCorrect, PTL

=============================================================================
