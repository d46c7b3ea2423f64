------------------------------ MODULE MCGauges ------------------------------
(***************************************************************************)
(* Two scan-ledger processes share the database file.  A block may be      *)
(* there twice (its mint is counted, and the second time rolled back); one *)
(* of the transactions backs the mint, the other has no token address.     *)
(***************************************************************************)
EXTENDS Gauges, MCReserveAuditor

TwoProcessesBlocks ==
  {Block(<< >>, <<Mint(tk1, 2, h1, {})>>, << >>), Block(<< >>, << >>, << >>)}

TwoProcessesApi ==
  [a \in {safe1} |->
     {EthTx(h1, <<TransferOf(safe1, usd, 25)>>), EthTx(h2, <<NoTokenTransfer(safe1)>>)}]

=============================================================================
