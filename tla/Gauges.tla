-------------------------------- MODULE Gauges --------------------------------
(***************************************************************************)
(* The Prometheus gauges of a process (src/counters.rs,                    *)
(* Counters::update_prometheus).  They live in memory: every inc_* copies  *)
(* the whole counters row to them, from inside the open transaction, and   *)
(* nothing else writes them, neither a rollback nor the start of a         *)
(* process.                                                                *)
(***************************************************************************)
EXTENDS ReserveAuditor

VARIABLE gauges   \* per process

gaugeVars == <<vars, gauges>>

ZeroGauges == [c \in CounterNames |-> 0]

GaugeInit == Init /\ gauges = [p \in Procs |-> ZeroGauges]

\* The counters as they are when the current statement of thread t fails:
\* three error paths increment one first, and its rollback cannot undo the
\* gauges.
CountersAtError(t) ==
  LET p == t[1]
  IN  CASE /\ t = ScanThread(p) /\ scan[p].pc = "mint_txs"
           /\ lookup_mint_config(wdb, scan[p].block_index, Contents(p).mint_txs[scan[p].pos]) = {}
           -> Inc(wdb, "num_mint_txs_without_matching_mint_config").counters
        [] /\ t = ScanThread(p) /\ scan[p].pc = "burns"
           /\ Output(p).amount > scan[p].bal[Output(p).token_id]
           -> Inc(wdb, "num_burns_exceeding_balance").counters
        [] /\ t # ScanThread(p) /\ work[t].pc = "transfers"
           /\ Transfer(t).token_addr = {}
           -> Inc(wdb, "num_invalid_ethereum_transactions").counters
        [] OTHER -> gauges[p]

\* Mutant: the row is read before it is updated.
update_prometheus_first(before, after) == before.counters

\* Counters::get(conn)?.update_prometheus(), after the UPDATE of the row.
update_prometheus(before, after) == after.counters

\* The lock holder, a thread of p, increments a counter.
Counts(p) ==
  holder # {} /\ holder' = holder /\ holder \subseteq ThreadsOf(p) /\ wdb'.counters # wdb.counters

\* A thread of p leaves its transaction through an error (db' = db; so does
\* one that commits nothing, at a point where no counter is incremented).
Errs(p) == /\ holder # {} /\ holder' = {} /\ holder \subseteq ThreadsOf(p)
           /\ db' = db /\ failures' = failures

Restarts(p) == ThreadIsDead(p) /\ ~ThreadIsDead(p)'

GaugesAfter(p) ==
  IF Restarts(p)    THEN ZeroGauges
  ELSE IF Counts(p) THEN update_prometheus(wdb, wdb')
  ELSE IF Errs(p)   THEN CountersAtError(CHOOSE t \in holder : TRUE)
  ELSE gauges[p]

GaugeNext == Next /\ gauges' = [p \in Procs |-> GaugesAfter(p)]

GaugeSpec == GaugeInit /\ [][GaugeNext]_gaugeVars

----------------------------------------------------------------------------
(* Properties.                                                             *)

InTransaction(p) == holder \cap ThreadsOf(p) # {}

\* The gauges of a running process never count what is not in the database:
\* they are written before the commit, and every path that increments and then
\* rolls back also ends the process.
GaugesAreCommitted ==
  \A p \in Procs : (~ThreadIsDead(p) /\ ~InTransaction(p)) =>
    \A c \in CounterNames : gauges[p][c] <= db.counters[c]

\* A commit that changes any counter leaves all gauges of its process equal to
\* the committed row, whatever they showed before (the zeros of a fresh start,
\* or what another process has counted since).
GaugesFollowCommits ==
  [][\A p \in Procs : (InTransaction(p) /\ db'.counters # db.counters)
                      => gauges'[p] = db'.counters]_gaugeVars

=============================================================================
