-------------------------------- MODULE Store --------------------------------
(***************************************************************************)
(* The database file shared by every thread (db/conn.rs, db/transaction.rs *)
(* and SQLite itself).  All writes happen inside exclusive_transaction: a  *)
(* writer takes the one exclusive lock, works on wdb, which nobody else    *)
(* sees (write-ahead log), and either commits or rolls back.  The nested   *)
(* transaction() calls are savepoints of it.                               *)
(*                                                                         *)
(* A process has one thread that follows the ledger and one thread per     *)
(* configured safe.  A panic kills a thread, a crash a whole process, and  *)
(* both roll an open transaction back.                                     *)
(***************************************************************************)
EXTENDS AuditDb

CONSTANTS Procs,        \* processes sharing the database file
          MaxFailures   \* bound on crashes and lock timeouts

ASSUME StoreAssumption == MaxFailures \in Nat

VARIABLES db,        \* the committed database
          wdb,       \* the database as the lock holder sees it
          holder,    \* the threads inside an exclusive transaction
          failures   \* crashes and lock timeouts so far

storeVars == <<db, wdb, holder, failures>>

ScanThread(p) == <<p, 0>>

Workers == Procs \X DOMAIN Config

Threads == {ScanThread(p) : p \in Procs} \cup Workers

ThreadsOf(p) == {t \in Threads : t[1] = p}

StoreTypeOK ==
  /\ db \in Databases
  /\ wdb \in Databases
  /\ holder \subseteq Threads
  /\ failures \in 0 .. MaxFailures

StoreInit ==
  /\ db = EmptyDb
  /\ wdb = EmptyDb
  /\ holder = {}
  /\ failures = 0

\* BEGIN EXCLUSIVE
Begin(t) ==
  /\ holder = {}
  /\ holder' = {t}
  /\ wdb' = db
  /\ UNCHANGED <<db, failures>>

\* A write of the lock holder leaves one of the databases in outcomes.
Write(t, outcomes) ==
  /\ t \in holder
  /\ wdb' \in outcomes
  /\ UNCHANGED <<db, holder, failures>>

Commit(t) ==
  /\ t \in holder
  /\ db' = wdb
  /\ holder' = holder \ {t}
  /\ UNCHANGED <<wdb, failures>>

\* Mutant: statements are committed one by one.
RollbackNothing(ts) ==
  /\ holder' = holder \ ts
  /\ db' = IF holder \cap ts # {} THEN wdb ELSE db
  /\ UNCHANGED wdb

\* An open transaction of the threads in ts, if any, is undone.
RollbackOf(ts) ==
  /\ holder' = holder \ ts
  /\ wdb' = IF holder \cap ts # {} THEN db ELSE wdb
  /\ UNCHANGED db

Rollback(t) ==
  /\ t \in holder
  /\ RollbackOf({t})
  /\ UNCHANGED failures

\* BEGIN EXCLUSIVE gives up after busy_timeout while another thread holds
\* the lock.
LockTimeout(t) ==
  /\ holder \notin {{}, {t}}
  /\ failures < MaxFailures
  /\ failures' = failures + 1
  /\ UNCHANGED <<db, wdb, holder>>

CrashStore(ts) ==
  /\ failures < MaxFailures
  /\ failures' = failures + 1
  /\ RollbackOf(ts)

=============================================================================
