----------------------------- MODULE MediaListing -----------------------------
(***************************************************************************)
(* GET /media/v1/my-media: the media of one user, newest first, in pages   *)
(* cut out by number.  The rows and how many there are in all come from up *)
(* to two statements of a READ COMMITTED transaction, and a client that    *)
(* goes through the pages makes one request after another: uploads and     *)
(* deletes of the same user come in between.                               *)
(***************************************************************************)
EXTENDS Integers, FiniteSets

CONSTANTS
  Media,         \* media ids of the user
  MaxLimit,      \* the most items of a page, 100
  DefaultLimit,  \* the items of a page when nothing is asked, 20
  Asked,         \* what clients send as ?limit
  NaN            \* what parseInt makes of nothing, or of something else

ASSUME MediaAssumption == IsFiniteSet(Media)
ASSUME LimitsAssumption == MaxLimit \in Nat \ {0} /\ DefaultLimit \in 1..MaxLimit
ASSUME AskedAssumption == Asked \subseteq Int \cup {NaN} /\ NaN \notin Int

VARIABLES
  row,     \* the row of each media: none yet, not committed, active, deleted
  created, \* its created_at
  now,     \* the clock of the database
  pc,      \* where the client is
  limit, page,  \* of the request under way
  items,   \* the rows its first statement returned
  shown,   \* history: how many pages had the media, in this walk
  opened,  \* history: the active media when the walk began
  joined,  \* history: those committed since
  left     \* history: those deleted since

rowVars == <<row, created, now>>
walkVars == <<limit, page, items, shown, opened>>
vars == <<rowVars, pc, walkVars, joined, left>>

Active == {m \in Media : row[m] = "active"}
Walking == pc \in {"items", "count"}

Init ==
  /\ row = [m \in Media |-> "none"]
  /\ created = [m \in Media |-> 0] /\ now = 0
  /\ pc = "idle"
  /\ limit = DefaultLimit /\ page = 1 /\ items = {}
  /\ shown = [m \in Media |-> 0]
  /\ opened = {} /\ joined = {} /\ left = {}

To(m, s) == row' = [row EXCEPT ![m] = s]

-----------------------------------------------------------------------------
(* Uploads and deletes, as far as the list sees them (MediaPipeline).      *)

\* The save: created_at is the time its transaction began.
Insert(m) ==
  /\ row[m] = "none"
  /\ To(m, "saving")
  /\ now' \in {now, now + 1}
  /\ created' = [created EXCEPT ![m] = now']
  /\ UNCHANGED <<pc, walkVars, joined, left>>

Commit(m) ==
  /\ row[m] = "saving"
  /\ To(m, "active")
  /\ joined' = IF Walking THEN joined \cup {m} ELSE joined
  /\ UNCHANGED <<created, now, pc, walkVars, left>>

SoftDelete(m) ==
  /\ row[m] = "active"
  /\ To(m, "deleted")
  /\ left' = IF Walking THEN left \cup {m} ELSE left
  /\ UNCHANGED <<created, now, pc, walkVars, joined>>

-----------------------------------------------------------------------------
(* One page *)

Greater(a, b) == IF a > b THEN a ELSE b
Lesser(a, b) == IF a < b THEN a ELSE b

\* Math.max(1, parseInt(rawPage) || 1)
PageOf(raw) == IF raw = NaN THEN 1 ELSE Greater(1, raw)

\* Math.min(100, Math.max(1, parseInt(rawLimit) || 20))
LimitOf(raw) ==
  IF raw \in {NaN, 0} THEN DefaultLimit ELSE Lesser(MaxLimit, Greater(1, raw))

\* Mutant: no ORDER BY.
AnyFirst(n) ==
  {S \in SUBSET Active : Cardinality(S) = Lesser(n, Cardinality(Active))}

\* The first n rows in an order by created_at DESC: rows of the same time come in
\* whichever order the statement finds them.
First(n) ==
  {S \in SUBSET Active :
     /\ Cardinality(S) = Lesser(n, Cardinality(Active))
     /\ \A s \in S, r \in Active \ S : created[s] >= created[r]}

\* Math.ceil(total / limit)
TotalPages(total) == (total + limit - 1) \div limit

-----------------------------------------------------------------------------
(* A client that goes from page to page *)

Open(raw) ==
  /\ ~Walking
  /\ pc' = "items"
  /\ limit' = LimitOf(raw) /\ page' = PageOf(NaN)
  /\ items' = {} /\ shown' = [m \in Media |-> 0]
  /\ opened' = Active /\ joined' = {} /\ left' = {}
  /\ UNCHANGED rowVars

\* Mutant: pages are counted from 0.
ReadItemsFromZero ==
  /\ pc = "items"
  /\ \E skipped \in First(page * limit), read \in First((page + 1) * limit) :
       skipped \subseteq read /\ items' = read \ skipped
  /\ pc' = "count"
  /\ UNCHANGED <<rowVars, limit, page, shown, opened, joined, left>>

\* findAndCount: the rows, skip (page - 1) * limit, take limit ...
ReadItems ==
  /\ pc = "items"
  /\ \E skipped \in First((page - 1) * limit), read \in First(page * limit) :
       skipped \subseteq read /\ items' = read \ skipped
  /\ pc' = "count"
  /\ UNCHANGED <<rowVars, limit, page, shown, opened, joined, left>>

\* The number that goes with the rows: of a second statement, unless the rows read
\* are too few for a page and say it themselves.
Totals ==
  {Cardinality(Active)} \cup
  {n \in {(page - 1) * limit + Cardinality(items)} :
     Cardinality(items) < limit /\ (page = 1 \/ items # {})}

\* ... and their number.  The client has the answer, and goes on to the last page.
ReadCount ==
  /\ pc = "count"
  /\ shown' = [m \in Media |-> IF m \in items THEN shown[m] + 1 ELSE shown[m]]
  /\ items' = {}
  /\ \E total \in Totals :
       IF page < TotalPages(total)
         THEN pc' = "items" /\ page' = PageOf(page + 1)
         ELSE pc' = "done" /\ UNCHANGED page
  /\ UNCHANGED <<rowVars, limit, opened, joined, left>>

\* The transaction fails, or its answer is lost: the client asks for the page again.
PageFails ==
  /\ pc = "count"
  /\ pc' = "items" /\ items' = {}
  /\ UNCHANGED <<rowVars, limit, page, shown, opened, joined, left>>

-----------------------------------------------------------------------------
Next ==
  \/ \E m \in Media : Insert(m) \/ Commit(m) \/ SoftDelete(m)
  \/ \E raw \in Asked : Open(raw)
  \/ ReadItems \/ ReadCount \/ PageFails

Spec == Init /\ [][Next]_vars

-----------------------------------------------------------------------------
(* Properties. *)

TypeOK ==
  /\ row \in [Media -> {"none", "saving", "active", "deleted"}]
  /\ created \in [Media -> Nat] /\ now \in Nat
  /\ pc \in {"idle", "items", "count", "done"}
  /\ limit \in 1..MaxLimit /\ page \in Nat \ {0}
  /\ items \subseteq Media /\ shown \in [Media -> Nat]
  /\ opened \subseteq Media /\ joined \subseteq Media /\ left \subseteq Media

\* The media the list had at some time of the walk.
Met == opened \cup joined

\* The order does not decide where the media is.
Tied(m) == \E x \in Met \ {m} : created[x] = created[m]

\* A newer media was deleted since the walk began; one has joined.
Pulled(m) == \E d \in left : created[d] > created[m]
Pushed(m) == \E j \in joined : created[j] > created[m]

\* A walk through the pages misses none of the media that stay, unless a newer one
\* was deleted meanwhile, or two were created at the same time.
NoneMissed ==
  pc = "done" => \A m \in opened \ left : shown[m] = 0 => Pulled(m) \/ Tied(m)

\* It shows none twice unless a newer one was added meanwhile, be it one whose
\* transaction began before the walk, or two were created at the same time.
NoneTwice == \A m \in Media : shown[m] > 1 => Pushed(m) \/ Tied(m)

-----------------------------------------------------------------------------
(* What makes them inductive. *)

\* How many rows come before the media.
Newer(m) == {x \in Active : created[x] > created[m]}
Rank(m) == Cardinality(Newer(m))

\* What the histories say of the rows.
HistoryInv ==
  /\ Walking => opened \cup joined \subseteq Active \cup left
  /\ Walking => Active \subseteq Met
  /\ \A m \in Met : row[m] \in {"active", "deleted"}
  /\ \A m \in left : row[m] = "deleted" /\ m \in Met
  /\ \A m \in Media : shown[m] > 0 \/ m \in items => m \in Met
  /\ pc # "count" => items = {}

\* The media is still to come.
Ahead(m) ==
  /\ pc # "done"
  /\ Walking => Rank(m) >= (page - 1) * limit
  /\ pc = "count" /\ m \notin items =>
       Rank(m) >= page * limit /\ Cardinality(items) = limit

\* It was shown at most once, and if so it lies behind.
Once(m) ==
  /\ shown[m] <= 1
  /\ m \in items => shown[m] = 0
  /\ Walking /\ m \in Active =>
       /\ shown[m] > 0 => Rank(m) < (page - 1) * limit
       /\ m \in items => Rank(m) < page * limit

MissInv == \A m \in opened \ left : Pulled(m) \/ Tied(m) \/ shown[m] > 0 \/ Ahead(m)
TwiceInv == \A m \in Media : Pushed(m) \/ Tied(m) \/ Once(m)

ListInv == HistoryInv /\ MissInv /\ TwiceInv

=============================================================================
