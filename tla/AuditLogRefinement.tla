-------------------------- MODULE AuditLogRefinement --------------------------
(***************************************************************************)
(* The running auditor implements AuditLog: the committed database, with   *)
(* the ids in the audit tables replaced by the rows they point to, behaves *)
(* like the log.  All that happens inside a transaction, every rollback,   *)
(* crash and restart, is a stuttering step.                                *)
(***************************************************************************)
EXTENDS ReserveAuditor

WithNonce(n) == CHOOSE m \in db.mint_txs : m.nonce = n

DepositOf(h) == CHOOSE e \in db.deposits : e.eth_tx_hash = h

WithKey(k) == CHOOSE b \in db.burn_tx_outs : b.public_key = k

WithdrawalOf(h) == CHOOSE w \in db.withdrawals : w.eth_tx_hash = h

Log == INSTANCE AuditLog WITH
  Backs <- Backs,
  Redeems <- Redeems,
  Names <- LAMBDA w, b : w.public_key = b.public_key,
  mints <- db.mint_txs,
  deposits <- db.deposits,
  burns <- db.burn_tx_outs,
  withdrawals <- db.withdrawals,
  mint_log <- [i \in DOMAIN db.audited_mints |->
                 <<WithNonce(db.audited_mints[i].mint), DepositOf(db.audited_mints[i].deposit)>>],
  burn_log <- [i \in DOMAIN db.audited_burns |->
                 <<WithKey(db.audited_burns[i].burn), WithdrawalOf(db.audited_burns[i].withdrawal)>>]

\* An auditor that audits Gnosis (Config has safes, each listed once) implements
\* the abstract audit log: each
\* commit adds one block or one Ethereum transaction together with exactly the
\* pairs it completes; entries are never changed, never moved, never added
\* later.
ImplementsAuditLog == Log!LogSpec

=============================================================================
