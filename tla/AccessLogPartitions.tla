------------------------- MODULE AccessLogPartitions -------------------------
(***************************************************************************)
(* The monthly partitions of media_access_logs.  Every replica makes the   *)
(* partition of the current month when it starts and that of the next one  *)
(* on the 1st, under an advisory lock of PostgreSQL; rows of a month       *)
(* without a partition go to the default one.                              *)
(*                                                                         *)
(* The lock belongs to a database session, that is to one connection of    *)
(* the replica's pool, and dataSource.query takes any connection that is   *)
(* free: the lock, the CREATE and the unlock may use three.                *)
(***************************************************************************)
EXTENDS Naturals, FiniteSets, Deployment

CONSTANTS
  Slots,      \* connections of each replica's pool
  Migrated,   \* months of the calendar whose partition the migration made
  MaxMonth,   \* bound: the last month of the calendar
  Faults      \* "db": a statement fails; "stop": a replica stops

ASSUME MonthsAssumption == MaxMonth \in Nat /\ Migrated \subseteq Nat

VARIABLES
  running,    \* replicas that are up
  month,      \* the current month
  due,        \* replicas whose cron has not fired this month
  tpc,        \* where each task is
  tmonth,     \* the month it makes the partition of
  held,       \* how often each connection's session holds the lock
  partitions, \* months that have a partition
  inDefault,  \* months with rows in the default partition
  exposed,    \* history: replicas that lost the lock under a task that works
  excused     \* history: months whose partition nobody made in time, see NoneInDefault

monthsVars ==
  <<running, month, due, tpc, tmonth, held, partitions, inDefault, exposed, excused>>

Tasks == Replicas \X {"boot", "cron"}
Conns == Replicas \X Slots
ConnsOf(t) == {c \in Conns : c[1] = t[1]}

Ended == {"idle", "done", "skipped", "failed"}
Working == {"create", "unlock", "unlockFailed"}
TaskPC == Ended \cup {"lock"} \cup Working

Busy(r) == \E t \in Tasks : t[1] = r /\ tpc[t] \in Working

\* The first deployment may come in any month.  Nobody was up on the 1st of it, to
\* make the partition of the next one.
MonthsInit ==
  /\ running = {} /\ month \in 0..MaxMonth /\ due = {}
  /\ tpc = [t \in Tasks |-> "idle"] /\ tmonth = [t \in Tasks |-> 0]
  /\ held = [c \in Conns |-> 0]
  /\ partitions = Migrated /\ inDefault = {}
  /\ exposed = {} /\ excused = {month + 1} \ Migrated

-----------------------------------------------------------------------------
(* The months that are excused.                                            *)

\* The tasks that are about to make the partition of month m, or due to.
SeeingTo(m) ==
  {t \in Tasks : \/ tpc[t] \in {"lock", "create"} /\ tmonth[t] = m
                 \/ t[1] \in due /\ t[2] = "cron" /\ m = month + 1}

\* Month m, if it has no partition and nobody but the tasks of T sees to it.
LeftBy(T, m) == IF SeeingTo(m) \subseteq T THEN {m} \ partitions ELSE {}

\* A task ends without having made its partition.  After a bootstrap the replica
\* serves all the same, though another may still be creating it.
GivesUp(t) ==
  excused' = excused \cup IF t[2] = "boot" THEN {tmonth[t]} \ partitions
                                          ELSE LeftBy({t}, tmonth[t])

-----------------------------------------------------------------------------
(* ensurePartitionForMonth *)

Launch(t, m) ==
  /\ tpc[t] \in Ended
  /\ tpc' = [tpc EXCEPT ![t] = "lock"]
  /\ tmonth' = [tmonth EXCEPT ![t] = m]

Goto(t, s) == tpc' = [tpc EXCEPT ![t] = s]

\* Mutant: the answer of pg_try_advisory_lock is ignored.
LockAnyway(c) == held' = [held EXCEPT ![c] = @ + 1]

\* pg_try_advisory_lock in the session of c: it nests.
Grant(c) ==
  /\ \A d \in Conns : held[d] > 0 => d = c
  /\ held' = [held EXCEPT ![c] = @ + 1]

\* The query of the lock gets it, is told that another session has it, or fails.
TryLock(t) ==
  /\ tpc[t] = "lock"
  /\ \E c \in ConnsOf(t) :
       \/ Grant(c) /\ Goto(t, "create") /\ UNCHANGED excused
       \/ /\ \E d \in Conns : held[d] > 0 /\ d # c
          /\ UNCHANGED held /\ Goto(t, "skipped") /\ GivesUp(t)
       \/ /\ "db" \in Faults
          /\ UNCHANGED held /\ Goto(t, "failed") /\ GivesUp(t)
  /\ UNCHANGED <<running, month, due, tmonth, partitions, inDefault, exposed>>

\* CREATE TABLE IF NOT EXISTS ... PARTITION OF is refused while the default
\* partition holds rows of that month.
CreatePartition(t) ==
  LET m == tmonth[t] IN
  /\ tpc[t] = "create"
  /\ \/ /\ m \in partitions \/ m \notin inDefault
        /\ partitions' = partitions \cup {m}
        /\ Goto(t, "unlock") /\ UNCHANGED excused
     \/ /\ m \in inDefault \ partitions \/ "db" \in Faults
        /\ UNCHANGED partitions
        /\ Goto(t, "unlockFailed") /\ GivesUp(t)
  /\ UNCHANGED <<running, month, due, tmonth, held, inDefault, exposed>>

\* pg_advisory_unlock in the session of c: a warning if it does not hold it.
Free(c) == held' = [held EXCEPT ![c] = IF @ > 0 THEN @ - 1 ELSE 0]

\* The finally block.
Unlock(t) ==
  /\ tpc[t] \in {"unlock", "unlockFailed"}
  /\ \/ /\ \E c \in ConnsOf(t) : Free(c)
        /\ Goto(t, IF tpc[t] = "unlock" THEN "done" ELSE "failed")
     \/ "db" \in Faults /\ Goto(t, "failed") /\ UNCHANGED held
  /\ exposed' = {r \in exposed : Busy(r)'}
  /\ UNCHANGED <<running, month, due, tmonth, partitions, inDefault, excused>>

-----------------------------------------------------------------------------
(* Starting, the cron, and the rows. *)

\* onApplicationBootstrap; the cron of a month that has begun is not made up for.
Start(r) ==
  /\ r \notin running
  /\ running' = running \cup {r}
  /\ Launch(<<r, "boot">>, month)
  /\ UNCHANGED <<month, due, held, partitions, inDefault, exposed, excused>>

\* Mutant: the cron makes the partition of the month it runs in.
ThisMonth == month

NextMonth == month + 1

\* createNextMonthPartition
CronFires(r) ==
  /\ r \in due
  /\ due' = due \ {r}
  /\ Launch(<<r, "cron">>, NextMonth)
  /\ UNCHANGED <<running, month, held, partitions, inDefault, exposed, excused>>

\* The process ends, and with it the sessions of its connections.
Stop(r) ==
  /\ "stop" \in Faults /\ r \in running
  /\ running' = running \ {r}
  /\ due' = due \ {r}
  /\ tpc' = [t \in Tasks |-> IF t[1] = r THEN "idle" ELSE tpc[t]]
  /\ tmonth' = [t \in Tasks |-> IF t[1] = r THEN 0 ELSE tmonth[t]]
  /\ held' = [c \in Conns |-> IF c[1] = r THEN 0 ELSE held[c]]
  /\ exposed' = exposed \ {r}
  /\ excused' = excused \cup LeftBy({t \in Tasks : t[1] = r}, month + 1)
  /\ UNCHANGED <<month, partitions, inDefault>>

\* A session with the lock ends while its process goes on: the connection is lost, or
\* was idle for the ten seconds of the pool.  A CREATE on another one may take longer.
Close(c) ==
  /\ held[c] > 0
  /\ held' = [held EXCEPT ![c] = 0]
  /\ exposed' = exposed \cup {r \in {c[1]} : Busy(r)}
  /\ UNCHANGED <<running, month, due, tpc, tmonth, partitions, inDefault, excused>>

\* writeAccessLog: a replica serves once its bootstrap hooks are through.
Log ==
  /\ \E r \in running : tpc[<<r, "boot">>] \in Ended
  /\ inDefault' = inDefault \cup ({month} \ partitions)
  /\ UNCHANGED <<running, month, due, tpc, tmonth, held, partitions, exposed, excused>>

\* Midnight of the 1st.  The cron of the last month is through; a replica that is
\* starting may not have its own registered yet.
NewMonth ==
  /\ month < MaxMonth
  /\ due = {} /\ \A r \in Replicas : tpc[<<r, "cron">>] \in Ended
  /\ month' = month + 1
  /\ \E D \in SUBSET running :
       /\ \A r \in running : tpc[<<r, "boot">>] \in Ended => r \in D
       /\ due' = D
       /\ excused' = excused \cup IF D = {} THEN {month + 2} \ partitions ELSE {}
  /\ UNCHANGED <<running, tpc, tmonth, held, partitions, inDefault, exposed>>

-----------------------------------------------------------------------------
MonthsNext ==
  \/ \E t \in Tasks : TryLock(t) \/ CreatePartition(t) \/ Unlock(t)
  \/ \E r \in Replicas : Start(r) \/ CronFires(r) \/ Stop(r)
  \/ \E c \in Conns : Close(c)
  \/ Log
  \/ NewMonth

MonthsSpec == MonthsInit /\ [][MonthsNext]_monthsVars

-----------------------------------------------------------------------------
(* Properties. *)

MonthsTypeOK ==
  /\ running \subseteq Replicas /\ due \subseteq running
  /\ month \in 0..MaxMonth
  /\ tpc \in [Tasks -> TaskPC] /\ tmonth \in [Tasks -> Nat]
  /\ held \in [Conns -> Nat]
  /\ partitions \subseteq Nat /\ inDefault \subseteq Nat
  /\ exposed \subseteq Replicas /\ excused \subseteq Nat

\* The lock does what it is for: two replicas never make partitions at the same
\* time, whichever connections their statements use, unless one of them lost the
\* session that had the lock.
OneReplicaCreates ==
  \A t, u \in Tasks : tpc[t] = "create" /\ tpc[u] = "create" =>
    t[1] = u[1] \/ t[1] \in exposed \/ u[1] \in exposed

\* What makes it inductive: one session has the lock, at least once for every task
\* of its replica that is working.
WorkersOf(c) == {t \in Tasks : c \in ConnsOf(t) /\ tpc[t] \in Working}

LockCoversWork ==
  /\ \A c, d \in Conns : held[c] > 0 /\ held[d] > 0 => c = d
  /\ \A t \in Tasks : tpc[t] \in Working /\ t[1] \notin exposed =>
       \E c \in ConnsOf(t) : held[c] >= Cardinality(WorkersOf(c))

LockInv == OneReplicaCreates /\ LockCoversWork

\* The log of an access never falls into the default partition, but in a month
\*  - before which the migration made no partition and nobody's cron was there to: the
\*    one after the first deployment, and the one after a 1st without a replica;
\*  - of which a replica was skipped or failed when it started, and served all the
\*    same;
\*  - of which every cron that was to make the partition was skipped, failed or stopped.
NoneInDefault == inDefault \subseteq excused

=============================================================================
