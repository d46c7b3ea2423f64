--------------------------- MODULE MCReserveAuditor ---------------------------
(***************************************************************************)
(* Small instances of ReserveAuditor.  Every run takes its constants from  *)
(* here: one or two tokens, one or two safes, at most three blocks, a few  *)
(* listed transactions, u64 cut down to 0 .. 15 and token values with one  *)
(* decimal digit more than the auditor keeps (so 25 truncates to 2).       *)
(***************************************************************************)
EXTENDS Claims, AuditorInvariant, AuditLogRefinement

CONSTANTS tk1, tk2,                  \* token ids
          safe1, safe2, usd, eur, junk,   \* addresses: safes, contracts
          h1, h2, h3, h4,            \* Ethereum transaction hashes
          k1, k2,                    \* TxOut public keys
          s1, s2                     \* signer sets

----------------------------------------------------------------------------
(* Constructors.                                                           *)

Token(id, addr) == [token_id |-> id, eth_token_contract_addrs |-> {addr}, decimals |-> 1]

Safe(addr, tokens) == [safe_addr |-> addr, tokens |-> tokens, token_decimals_max |-> 0]

Block(configs, mints, outs) ==
  [mint_config_txs |-> configs, mint_txs |-> mints, outputs |-> outs]

Mint(tk, amt, h, signers) ==
  [token_id |-> tk, amount |-> amt, nonce |-> EthereumGnosisDeposit(h), signed_by |-> signers]

Burn(tk, amt, k) == [burn |-> TRUE, token_id |-> tk, amount |-> amt, public_key |-> k]

OtherOut(k) == [burn |-> FALSE, token_id |-> tk1, amount |-> 1, public_key |-> k]

ConfigTx(tk, h, total, configs) ==
  [token_id |-> tk, nonce |-> [identifier |-> 0, eth_tx_hash |-> h],
   total_mint_limit |-> total, configs |-> configs]

MintConfig(limit, signer) == [mint_limit |-> limit, signer_set |-> signer]

EthTx(h, transfers) ==
  [kind |-> "ethereum", tx_hash |-> h,
   transfers |-> [k \in DOMAIN transfers |->
                    [tx_hash |-> h, to |-> transfers[k].to,
                     token_addr |-> transfers[k].token_addr, value |-> transfers[k].value]]]

TransferOf(to, token, value) == [to |-> to, token_addr |-> {token}, value |-> {value}]

MultiSig(h, safe, token, amt, k) ==
  [kind |-> "multi_sig", tx_hash |-> h, safe |-> safe, multi_send |-> TRUE,
   to |-> token, transfer_ok |-> TRUE, transfer_data |-> <<{amt}>>,
   aux_ok |-> TRUE, amount |-> {amt}, public_key |-> k]

Module(h) == [kind |-> "module", tx_hash |-> h]

Undecodable(h) == [kind |-> "undecodable", tx_hash |-> h]

OneSafe == <<Safe(safe1, <<Token(tk1, usd)>>)>>

TwoSafes == <<Safe(safe1, <<Token(tk1, usd)>>), Safe(safe2, <<Token(tk1, usd), Token(tk2, eur)>>)>>

NoSafes == << >>

NoApi == [a \in {} |-> {}]

----------------------------------------------------------------------------
(* mints: a mint may come before or after its deposit, with the right or   *)
(* the wrong amount or token, alone or with another in its block.          *)

MintsBlocks ==
  {Block(<< >>, <<Mint(tk1, 2, h1, {})>>, << >>),
   Block(<< >>, <<Mint(tk1, 3, h1, {}), Mint(tk1, 2, h2, {})>>, << >>),
   Block(<< >>, <<Mint(tk1, 2, h2, {})>>, << >>),
   Block(<< >>, <<Mint(tk2, 2, h1, {})>>, << >>)}

MintsApi ==
  [a \in {safe1} |->
     {EthTx(h1, <<TransferOf(safe1, usd, 25)>>),
      EthTx(h2, <<TransferOf(junk, usd, 9), TransferOf(safe1, usd, 29)>>)}]

----------------------------------------------------------------------------
(* burns: two withdrawals may name the same public key.                    *)

BurnsBlocks ==
  {Block(<< >>, << >>, <<Burn(tk1, 1, k1)>>),
   Block(<< >>, << >>, <<OtherOut(k1), Burn(tk1, 2, k2)>>),
   Block(<< >>, << >>, <<Burn(tk2, 1, k1), Burn(tk1, 1, k2)>>)}

BurnsApi ==
  [a \in {safe1} |->
     {MultiSig(h1, safe1, usd, 10, k1),
      MultiSig(h2, safe1, usd, 19, k1),
      MultiSig(h3, safe1, usd, 20, k2)}]

----------------------------------------------------------------------------
(* safes: transactions of every shape, two safes that list the same hash.  *)

NoTokenTransfer(to) == [to |-> to, token_addr |-> {}, value |-> {5}]

NoValueTransfer(to, token) == [to |-> to, token_addr |-> {token}, value |-> {}]

\* A well-formed withdrawal; the records below spoil one of its parts.
GoodMultiSig == MultiSig(h2, safe1, usd, 10, k1)

SafesApi ==
  [a \in {safe1, safe2} |->
     IF a = safe1
     THEN {EthTx(h1, <<TransferOf(safe1, usd, 25), TransferOf(safe2, eur, 30)>>),
           EthTx(h2, <<TransferOf(safe1, usd, 25), TransferOf(safe1, junk, 5)>>),
           EthTx(h2, <<TransferOf(safe1, junk, 5), TransferOf(safe1, usd, 25)>>),
           EthTx(h2, <<TransferOf(safe1, usd, 25), NoTokenTransfer(safe1)>>),
           EthTx(h2, <<NoValueTransfer(safe1, usd)>>),
           EthTx(h2, <<TransferOf(safe1, usd, 160)>>),
           EthTx(h2, <<TransferOf(safe1, usd, 25), TransferOf(safe1, usd, 35)>>),
           GoodMultiSig,
           MultiSig(h2, safe2, usd, 10, k1),
           MultiSig(h2, safe1, junk, 10, k1),
           MultiSig(h2, safe1, usd, 160, k1),
           [GoodMultiSig EXCEPT !.amount = {}],
           [GoodMultiSig EXCEPT !.multi_send = FALSE],
           [GoodMultiSig EXCEPT !.transfer_ok = FALSE],
           [GoodMultiSig EXCEPT !.aux_ok = FALSE],
           [GoodMultiSig EXCEPT !.transfer_data = << >>],
           [GoodMultiSig EXCEPT !.transfer_data = <<{10}, {7}>>]}
     ELSE {EthTx(h1, <<TransferOf(safe1, usd, 25), TransferOf(safe2, eur, 30)>>),
           MultiSig(h3, safe2, eur, 10, k1),
           Module(h3),
           Undecodable(h3)}]

----------------------------------------------------------------------------
(* matching: all three in one state graph.  A behaviour is about mints and *)
(* deposits, about burns and withdrawals (the two share no row), or about  *)
(* the transactions of two safes without a ledger.                         *)

MatchingBlocks == MintsBlocks \cup BurnsBlocks

MatchingApi ==
  [a \in {safe1, safe2} |->
     SafesApi[a] \cup (IF a = safe1 THEN MintsApi[a] \cup BurnsApi[a] ELSE {})]

ListedKinds == UNION {{api[a][i].kind : i \in DOMAIN api[a]} : a \in DOMAIN api}

MintSide == ListedKinds \subseteq {"ethereum"} /\ \A i \in DOMAIN ledger : ledger[i].outputs = << >>

BurnSide == ListedKinds \subseteq {"multi_sig"} /\ \A i \in DOMAIN ledger : ledger[i].mint_txs = << >>

Listed(a) == {api[a][i] : i \in DOMAIN api[a]}

\* The thread of the second safe has nothing to do.
SecondSafeIsIdle ==
  Listed(safe2) = {} /\ \A p \in Procs : work[<<p, 2>>].pc \in {"poll", "dead"}

MatchingSide ==
  \/ MintSide /\ SecondSafeIsIdle /\ Listed(safe1) \subseteq MintsApi[safe1]
  \/ BurnSide /\ SecondSafeIsIdle /\ Listed(safe1) \subseteq BurnsApi[safe1]
  \/ ledger = << >> /\ \A a \in {safe1, safe2} : Listed(a) \subseteq SafesApi[a]

MatchingSpec == Init /\ [][Next /\ MatchingSide']_vars

----------------------------------------------------------------------------
(* ledger: mint configs and their limits, balances, blocks that repeat a   *)
(* nonce or a public key.                                                  *)

LedgerBlocks ==
  {Block(<<ConfigTx(tk1, h1, 3, <<MintConfig(1, s1), MintConfig(2, s2)>>)>>, << >>, << >>),
   Block(<<ConfigTx(tk1, h2, 2, <<MintConfig(2, s1)>>)>>, <<Mint(tk1, 2, h1, {s1, s2})>>, << >>),
   Block(<< >>, <<Mint(tk1, 1, h2, {s2}), Mint(tk1, 1, h3, {s1})>>, <<Burn(tk1, 3, k1)>>),
   Block(<< >>, <<Mint(tk1, 1, h4, {s1})>>, <<Burn(tk1, 1, k2), OtherOut(k1)>>)}

----------------------------------------------------------------------------
(* progress: well-formed transactions and blocks, a transaction that       *)
(* panics the thread, one failure.                                         *)

ProgressBlocks ==
  {Block(<< >>, << >>, << >>),
   Block(<< >>, <<Mint(tk1, 2, h1, {})>>, <<Burn(tk1, 1, k1)>>)}

ProgressApi ==
  [a \in {safe1} |-> {EthTx(h1, <<TransferOf(safe1, usd, 25)>>),
                      MultiSig(h2, safe1, usd, 10, k1),
                      EthTx(h3, <<NoTokenTransfer(safe1)>>)}]

----------------------------------------------------------------------------
(* The instances that refute the claims.                                   *)

NoBlocks == {}

SharedKeyBlocks == {Block(<< >>, << >>, <<Burn(tk1, 1, k1)>>)}

SharedKeyApi ==
  [a \in {safe1} |-> {MultiSig(h1, safe1, usd, 20, k1), MultiSig(h2, safe1, usd, 10, k1)}]

LimitBlocks ==
  {Block(<<ConfigTx(tk1, h1, 2, <<MintConfig(5, s1)>>)>>, << >>, << >>),
   Block(<< >>, <<Mint(tk1, 2, h1, {s1}), Mint(tk1, 1, h2, {s1})>>, << >>)}

NoTokenApi == [a \in {safe1} |-> {EthTx(h1, <<NoTokenTransfer(safe1)>>)}]

SharedTxApi ==
  [a \in {safe1, safe2} |->
     {EthTx(h1, <<TransferOf(safe1, usd, 25), TransferOf(safe2, usd, 30)>>)}]

UnknownTokenApi ==
  [a \in {safe1} |-> {EthTx(h1, <<TransferOf(safe1, junk, 5), TransferOf(safe1, usd, 25)>>)}]

=============================================================================
