-------------------------- MODULE MCReconfiguration --------------------------
(***************************************************************************)
(* Two safes become one, and the token of the one that stays is replaced.  *)
(* Deposits and withdrawals to both safes may have been stored before, and *)
(* their mints and burns may come after.                                   *)
(***************************************************************************)
EXTENDS Reconfiguration

CONSTANTS tk1, tk2, safe1, safe2, usd, eur, h1, h2, h3, h4, k1, k2

Token(id, addr) == [token_id |-> id, eth_token_contract_addrs |-> {addr}, decimals |-> 0]

Safe(addr, tokens) == [safe_addr |-> addr, tokens |-> tokens, token_decimals_max |-> 0]

Before == <<Safe(safe1, <<Token(tk1, usd)>>), Safe(safe2, <<Token(tk1, usd)>>)>>

After == <<Safe(safe1, <<Token(tk1, eur)>>)>>

Deposit(h, safe, token) ==
  [kind |-> "ethereum", tx_hash |-> h,
   transfers |-> <<[tx_hash |-> h, to |-> safe, token_addr |-> {token}, value |-> {2}]>>]

Withdrawal(h, safe, token, k) ==
  [kind |-> "multi_sig", tx_hash |-> h, safe |-> safe, multi_send |-> TRUE,
   to |-> token, transfer_ok |-> TRUE, transfer_data |-> <<{1}>>,
   aux_ok |-> TRUE, amount |-> {1}, public_key |-> k]

\* What is executed before the change, and on the remaining safe after it.
BeforeApi ==
  [a \in {safe1, safe2} |->
     IF a = safe1 THEN {Deposit(h1, safe1, usd), Withdrawal(h3, safe1, usd, k1)}
     ELSE {Deposit(h2, safe2, usd), Withdrawal(h4, safe2, usd, k1)}]

AfterApi ==
  [a \in {safe1} |-> {Deposit(h2, safe1, eur), Withdrawal(h4, safe1, eur, k1)}]

Mint(h) ==
  [token_id |-> tk1, amount |-> 2, nonce |-> [identifier |-> 1, eth_tx_hash |-> h],
   signed_by |-> {}]

Block(mints, burns) == [mint_config_txs |-> << >>, mint_txs |-> mints, outputs |-> burns]

ReconfBlocks ==
  {Block(<<Mint(h1)>>, << >>), Block(<<Mint(h2)>>, << >>),
   Block(<< >>, <<[burn |-> TRUE, token_id |-> tk1, amount |-> 1, public_key |-> k1]>>)}

=============================================================================
