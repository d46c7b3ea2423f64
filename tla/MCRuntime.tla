------------------------------ MODULE MCRuntime ------------------------------
(***************************************************************************)
(* The three parts of the running system that share no state with the      *)
(* database of ReserveAuditor: a fetch of a listing (six transactions in   *)
(* pages of two), the connection pool (two safes and one request, with     *)
(* pools of two, three and four connections) and the opening of a new file *)
(* by a scanner, the HTTP server and a command.                            *)
(*                                                                         *)
(* They are independent of one another, so a behaviour follows one of them *)
(* and leaves the others as they are initially.                            *)
(***************************************************************************)
EXTENDS Fetcher, ConnectionPool, OpenDb

CONSTANTS safe1, safe2, grpc, scan_ledger, http_server, get_block_audit_data

VARIABLE part    \* the part this behaviour is about

runtimeVars == <<fetcherVars, poolVars, openVars, part>>

RuntimeInit ==
  /\ part \in {"fetcher", "pool", "open_db"}
  /\ FetcherInit /\ PoolInit /\ OpenDbInit
  /\ part # "pool" => db_connections = CHOOSE n \in PoolSizes : TRUE

InFetcher(A) == part = "fetcher" /\ A /\ UNCHANGED <<poolVars, openVars, part>>

InPool(A) == part = "pool" /\ A /\ UNCHANGED <<fetcherVars, openVars, part>>

InOpenDb(A) == part = "open_db" /\ A /\ UNCHANGED <<fetcherVars, poolVars, part>>

RuntimeNext == InFetcher(FetcherNext) \/ InPool(PoolNext) \/ InOpenDb(OpenDbNext)

\* The fairness of FetcherSpec, PoolSpec and OpenDbSpec.
RuntimeFairness ==
  /\ WF_runtimeVars(InFetcher(FetcherStep))
  /\ WF_runtimeVars(InPool(RestartProcess))
  /\ \A u \in Users : WF_runtimeVars(InPool(Commit(u)))
  /\ \A u \in Handlers : WF_runtimeVars(InPool(Read(u)))
  /\ \A u \in Safes \cup Handlers : SF_runtimeVars(InPool(get_conn(u)))
  /\ \A u \in Safes : SF_runtimeVars(InPool(BeginExclusive(u)))
  /\ \A p \in Procs : SF_runtimeVars(InOpenDb(OpenStep(p)))

RuntimeSpec == RuntimeInit /\ [][RuntimeNext]_runtimeVars /\ RuntimeFairness

----------------------------------------------------------------------------

\* Every process that opens the file (new_from_path) gets it open in the end,
\* whatever crashes and whoever is faster, in the behaviours that are about it.
EveryoneOpensInTheEnd == part = "open_db" => EveryoneOpens

=============================================================================
