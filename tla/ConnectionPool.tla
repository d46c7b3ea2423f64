---------------------------- MODULE ConnectionPool ----------------------------
(***************************************************************************)
(* The connection pool of a scan-ledger process (db/mod.rs: new_from_path, *)
(* get_conn; db/conn.rs).  The main thread, the safe threads and the gRPC  *)
(* handlers share db_connections connections; the writers hold theirs      *)
(* while they wait for the exclusive lock of the database, and the main    *)
(* thread also while it waits for the watcher to know a block's timestamp. *)
(*                                                                         *)
(* r2d2's Pool::get and SQLite's busy handler give up after 30 seconds: a  *)
(* thread panics, which ends the process; a handler answers INTERNAL.      *)
(***************************************************************************)
EXTENDS Naturals, Sequences, FiniteSets, Functions

CONSTANTS Safes,         \* the safe threads
          Handlers,      \* the gRPC requests served at one time
          PoolSizes,     \* values of db_connections
          MaxTimeouts    \* bound on waits that are given up

Main == "main"

Users == {Main} \cup Safes \cup Handlers

ASSUME PoolAssumption ==
  /\ IsFiniteSet(Users)
  /\ Main \notin Safes \cup Handlers /\ Safes \cap Handlers = {}
  /\ PoolSizes \subseteq Nat \ {0}
  /\ MaxTimeouts \in Nat

VARIABLES db_connections,   \* the size of the pool
          at,               \* the step each user is at, 0 between two rounds
          conns,            \* the connections each user holds
          lock,             \* who is in an exclusive transaction
          panicked,         \* the threads that have panicked, and why
          timeouts          \* waits given up so far

poolVars == <<db_connections, at, conns, lock, panicked, timeouts>>

PoolInit ==
  /\ db_connections \in PoolSizes
  /\ at = [u \in Users |-> 0]
  /\ conns = [u \in Users |-> 0]
  /\ lock = {}
  /\ panicked = {}
  /\ timeouts = 0

----------------------------------------------------------------------------
(* The steps of one round.                                                 *)

\* Mutant: sync_block, which gets a connection of its own, is called instead
\* of sync_block_with_conn.
StepsWithSyncBlock(u) ==
  CASE u = Main -> <<"get_conn", "read", "timestamp", "begin", "get_conn", "write">>
    [] u \in Safes -> <<"get_conn", "begin", "write">>
    [] u \in Handlers -> <<"get_conn", "read">>

\* Mutant: the timestamp is polled inside the transaction.
StepsWithLateTimestamp(u) ==
  CASE u = Main -> <<"get_conn", "read", "begin", "timestamp", "write">>
    [] u \in Safes -> <<"get_conn", "begin", "write">>
    [] u \in Handlers -> <<"get_conn", "read">>

\* An iteration of sync_loop, a transaction of process_transactions, a request.
Steps(u) ==
  CASE u = Main -> <<"get_conn", "read", "timestamp", "begin", "write">>
    [] u \in Safes -> <<"get_conn", "begin", "write">>
    [] u \in Handlers -> <<"get_conn", "read">>

Running == panicked = {}

IsAt(u, step) == Running /\ at[u] # 0 /\ Steps(u)[at[u]] = step

\* The connections are dropped at the end of a round.
Advance(u) ==
  IF at[u] < Len(Steps(u))
  THEN at' = [at EXCEPT ![u] = @ + 1] /\ UNCHANGED conns
  ELSE at' = [at EXCEPT ![u] = 0] /\ conns' = [conns EXCEPT ![u] = 0]

EndRound(u) == at' = [at EXCEPT ![u] = 0] /\ conns' = [conns EXCEPT ![u] = 0]

InUse == SumFunctionOnSet(conns, Users)

Start(u) ==
  /\ Running /\ at[u] = 0
  /\ at' = [at EXCEPT ![u] = 1]
  /\ UNCHANGED <<db_connections, conns, lock, panicked, timeouts>>

get_conn(u) ==
  /\ IsAt(u, "get_conn")
  /\ InUse < db_connections
  /\ conns' = [conns EXCEPT ![u] = @ + 1]
  /\ at' = [at EXCEPT ![u] = @ + 1]
  /\ UNCHANGED <<db_connections, lock, panicked, timeouts>>

\* A read: the write-ahead log lets it through whoever holds the lock.
Read(u) ==
  /\ IsAt(u, "read")
  /\ Advance(u)
  /\ UNCHANGED <<db_connections, lock, panicked, timeouts>>

\* sync_loop: nothing more to sync.
NothingToSync ==
  /\ IsAt(Main, "read")
  /\ EndRound(Main)
  /\ UNCHANGED <<db_connections, lock, panicked, timeouts>>

\* poll_block_timestamp returns once the watcher has the block.
Timestamp ==
  /\ IsAt(Main, "timestamp")
  /\ Advance(Main)
  /\ UNCHANGED <<db_connections, lock, panicked, timeouts>>

BeginExclusive(u) ==
  /\ IsAt(u, "begin")
  /\ lock = {}
  /\ lock' = {u}
  /\ Advance(u)
  /\ UNCHANGED <<db_connections, panicked, timeouts>>

Commit(u) ==
  /\ IsAt(u, "write")
  /\ lock' = lock \ {u}
  /\ Advance(u)
  /\ UNCHANGED <<db_connections, panicked, timeouts>>

----------------------------------------------------------------------------
(* Timeouts.                                                               *)

\* Pool::get gives up.  sync_loop returns the error, which panics like the
\* expect of process_transactions.
ConnTimeout(u) ==
  /\ IsAt(u, "get_conn")
  /\ InUse >= db_connections
  /\ timeouts < MaxTimeouts
  /\ timeouts' = timeouts + 1
  /\ IF u \in Handlers
     THEN EndRound(u) /\ UNCHANGED panicked
     ELSE panicked' = panicked \cup {<<u, "no connection">>} /\ UNCHANGED <<at, conns>>
  /\ UNCHANGED <<db_connections, lock>>

LockTimeout(u) ==
  /\ IsAt(u, "begin")
  /\ lock # {}
  /\ timeouts < MaxTimeouts
  /\ timeouts' = timeouts + 1
  /\ panicked' = panicked \cup {<<u, "locked">>}
  /\ UNCHANGED <<db_connections, at, conns, lock>>

\* The process has ended and is started again.
RestartProcess ==
  /\ ~Running
  /\ at' = [u \in Users |-> 0]
  /\ conns' = [u \in Users |-> 0]
  /\ lock' = {}
  /\ panicked' = {}
  /\ UNCHANGED <<db_connections, timeouts>>

PoolNext ==
  \/ \E u \in Users : \/ Start(u) \/ get_conn(u) \/ Read(u)
                      \/ BeginExclusive(u) \/ Commit(u)
                      \/ ConnTimeout(u) \/ LockTimeout(u)
  \/ NothingToSync \/ Timestamp \/ RestartProcess

\* Threads run, a thread in a transaction commits, and a safe thread or handler
\* that waits for a connection or the lock is let in eventually.  Nothing else
\* is assumed of the main thread, whose watcher may never answer.
PoolSpec ==
  /\ PoolInit /\ [][PoolNext]_poolVars
  /\ WF_poolVars(RestartProcess)
  /\ \A u \in Users : WF_poolVars(Commit(u))
  /\ \A u \in Handlers : WF_poolVars(Read(u))
  /\ \A u \in Safes \cup Handlers : SF_poolVars(get_conn(u))
  /\ \A u \in Safes : SF_poolVars(BeginExclusive(u))

----------------------------------------------------------------------------

\* A pool with a connection per thread and concurrent request is enough: no
\* thread dies for want of a connection, because nobody takes a second one
\* while it holds the first.
PoolSuffices ==
  Cardinality(Users) <= db_connections =>
    \A u \in Users : <<u, "no connection">> \notin panicked

\* With two connections or more, whatever a safe thread or a handler starts
\* comes to an end, although pool and lock are fought over and although the
\* watcher may never know the timestamp the main thread waits for with a
\* connection in its hands.
RoundsEnd ==
  \A u \in Safes \cup Handlers : (db_connections >= 2 /\ at[u] # 0) ~> (at[u] = 0)

=============================================================================
