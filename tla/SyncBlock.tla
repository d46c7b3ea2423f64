------------------------------ MODULE SyncBlock ------------------------------
(***************************************************************************)
(* What syncing one block writes (ReserveAuditorDb::sync_block_with_conn   *)
(* and lookup_mint_config, db/mod.rs), one operator per statement of its   *)
(* loops.  An insert is preceded by a predicate for the UNIQUE constraints *)
(* it may run into; LedgerSync puts the statements in order.               *)
(***************************************************************************)
EXTENDS AuditDb, FiniteSetsExt, Functions

----------------------------------------------------------------------------
(* The ledger (external): what a block holds that the auditor reads.       *)

CoreMintConfigTxs ==
  [token_id: Tokens, nonce: Nonces, total_mint_limit: U64,
   configs: Seq(MintConfigs)]

\* signed_by: the signer sets whose verification of the signature succeeds.
CoreMintTxs ==
  [token_id: Tokens, amount: U64, nonce: Nonces, signed_by: SUBSET Signers]

\* burn: the output view-key-matches the burn address.
TxOuts == [burn: BOOLEAN, token_id: Tokens, amount: U64, public_key: PublicKeys]

BlockContents ==
  [mint_config_txs: Seq(CoreMintConfigTxs), mint_txs: Seq(CoreMintTxs),
   outputs: Seq(TxOuts)]

----------------------------------------------------------------------------
(* Mint configs.                                                           *)

MintConfigTxExists(d, block_index, tx) ==
  \E c \in d.mint_config_txs :
    \/ c.nonce = tx.nonce
    \/ c.block_index = block_index /\ c.token_id = tx.token_id

insert_from_core_mint_config_tx(d, block_index, tx) ==
  [d EXCEPT !.mint_config_txs = @ \cup
     {[block_index |-> block_index, token_id |-> tx.token_id,
       nonce |-> tx.nonce, total_mint_limit |-> tx.total_mint_limit,
       configs |-> tx.configs]}]

most_recent_for_token(d, block_index, token_id) ==
  LET earlier == {c \in d.mint_config_txs :
                    c.token_id = token_id /\ c.block_index < block_index}
  IN  {c \in earlier : \A o \in earlier : o.block_index <= c.block_index}

mint_config_id(config_tx, position) ==
  [block_index |-> config_tx.block_index, token_id |-> config_tx.token_id,
   position |-> position]

\* SUM(amount) of rows of mint_txs or burn_tx_outs.
SumOfAmounts(rows) == SumFunction([r \in rows |-> r.amount])

\* The two get_total_minted_before_block: the (wrapping) sum of what the
\* configs in ids, each from a block before the mint's, minted before a block.
get_total_minted_before_block(d, ids, block_index) ==
  WrapU64(SumOfAmounts({m \in d.mint_txs :
            /\ \E id \in m.mint_config_id : id \in ids /\ id.block_index < m.block_index
            /\ m.block_index < block_index}))

\* Mutant: the amount about to be minted is left out.
FitsLimitBefore(total, amount, limit) == total <= limit

\* checked_add(total, amount) is some value no greater than limit.
FitsLimit(total, amount, limit) == total + amount <= MaxU64 /\ total + amount <= limit

\* The mint config a mint is attributed to: {} or {its id}.
lookup_mint_config(d, block_index, mint_tx) ==
  UNION {LET ids == {mint_config_id(c, i) : i \in DOMAIN c.configs}
             fits(i) ==
               /\ c.configs[i].signer_set \in mint_tx.signed_by
               /\ FitsLimit(get_total_minted_before_block(d, {mint_config_id(c, i)}, block_index),
                            mint_tx.amount, c.configs[i].mint_limit)
         IN  IF FitsLimit(get_total_minted_before_block(d, ids, block_index),
                          mint_tx.amount, c.total_mint_limit)
             THEN {mint_config_id(c, i) : i \in FirstOf({j \in DOMAIN c.configs : fits(j)})}
             ELSE {} :
         c \in most_recent_for_token(d, block_index, mint_tx.token_id)}

----------------------------------------------------------------------------
(* Mints and burns.  bal is the balance map the block is accounted in.     *)

get_balances_for_block(d, block_index) ==
  LET rows == {r \in d.block_balance : r.block_index = block_index}
  IN  IF rows = {} THEN [t \in Tokens |-> 0] ELSE (CHOOSE r \in rows : TRUE).balances

MintTxExists(d, mint_tx) == \E m \in d.mint_txs : m.nonce = mint_tx.nonce

\* *mint_balance += amount
mint_balance(bal, mint_tx) ==
  [bal EXCEPT ![mint_tx.token_id] = WrapU64(@ + mint_tx.amount)]

mint_tx_row(d, block_index, mint_tx) ==
  [block_index |-> block_index, token_id |-> mint_tx.token_id,
   amount |-> mint_tx.amount, nonce |-> mint_tx.nonce,
   mint_config_id |-> lookup_mint_config(d, block_index, mint_tx)]

store_mint_tx(d, block_index, mint_tx) ==
  LET row == mint_tx_row(d, block_index, mint_tx)
      counted == IF row.mint_config_id = {}
                 THEN Inc(d, "num_mint_txs_without_matching_mint_config")
                 ELSE d
  IN  [counted EXCEPT !.mint_txs = @ \cup {row}]

BurnTxOutExists(d, tx_out) == \E b \in d.burn_tx_outs : b.public_key = tx_out.public_key

\* Mutant: the balance wraps below 0.
burn_balance_wraps(bal, tx_out) ==
  [bal EXCEPT ![tx_out.token_id] = WrapU64(@ + MaxU64 + 1 - tx_out.amount)]

burn_balance(bal, tx_out) ==
  [bal EXCEPT ![tx_out.token_id] =
     IF tx_out.amount > @ THEN 0 ELSE @ - tx_out.amount]

burn_tx_out_row(block_index, tx_out) ==
  [block_index |-> block_index, token_id |-> tx_out.token_id,
   amount |-> tx_out.amount, public_key |-> tx_out.public_key]

store_burn_tx_out(d, bal, block_index, tx_out) ==
  LET counted == IF tx_out.amount > bal[tx_out.token_id]
                 THEN Inc(d, "num_burns_exceeding_balance") ELSE d
  IN  [counted EXCEPT !.burn_tx_outs = @ \cup {burn_tx_out_row(block_index, tx_out)}]

\* inc_num_blocks_synced, block_audit.set, set_balances_for_block
finish_block(d, block_index, bal) ==
  [Inc(d, "num_blocks_synced") EXCEPT
     !.block_audit_data = @ \cup {block_index},
     !.block_balance = @ \cup {[block_index |-> block_index, balances |-> bal]}]

=============================================================================
