------------------------------ MODULE MCHttpApi ------------------------------
(***************************************************************************)
(* Small instances for the main thread and the read side: one client next  *)
(* to one process that syncs blocks with config transactions, attributed   *)
(* and unattributed mints, and burns (LedgerBlocks).                       *)
(***************************************************************************)
EXTENDS HttpApi, MCReserveAuditor

\* The client makes its requests while the ledger has at most this many blocks.
MaxBlocksAsked == 3

LedgerSpec ==
  HttpInit /\ [][/\ HttpNext
                 /\ \/ Len(ledger') <= MaxBlocksAsked
                    \/ \A c \in Clients : handler'[c] = IdleHandler]_httpVars

=============================================================================
