-------------------------------- MODULE Claims --------------------------------
(***************************************************************************)
(* What comments, log messages and the schema say about the auditor and    *)
(* its code does not do.  Each formula is the claim; a run of its own      *)
(* shows a behaviour of the code that refutes it.                          *)
(***************************************************************************)
EXTENDS ReserveAuditor

\* try_match_burn_with_withdrawal finds a matching withdrawal: a stored burn
\* that some stored withdrawal redeems is in the audit log.
RedeemableBurnsAreMatched ==
  \A b \in db.burn_tx_outs :
    (\E w \in db.withdrawals : Redeems(w, b)) => BurnIsAudited(db, b.public_key)

\* The total_mint_limit of a MintConfigTx is "the maximal amount that can be
\* minted by configurations specified in this tx", and mints that exceed it
\* are counted instead of attributed.
TotalMintLimitIsKept ==
  \A c \in db.mint_config_txs :
    SumOfAmounts(MintedWith(db, IdsOf(c))) <= c.total_mint_limit

\* num_invalid_ethereum_transactions counts the Ethereum transfers without a
\* valid structure: a listed transfer to the safe that has no token address is
\* eventually counted.
InvalidTransfersAreCounted ==
  \A a \in AuditedSafes : \A x \in ApiTxs[a] :
    (/\ \E i \in DOMAIN api[a] : api[a][i] = x
     /\ \E f \in TransfersTo(x, a) : f.token_addr = {})
    ~> (db.counters["num_invalid_ethereum_transactions"] > 0)

IsKnownToken(cfg, f) ==
  \E addr \in f.token_addr : get_token_by_eth_contract_addr(cfg, addr) # {}

\* Transfers of unknown tokens are ignored: a recorded transaction with a
\* transfer of an audited token to the safe has its deposit, whatever other
\* transfers it holds.
UnknownTransfersAreIgnored ==
  \A i \in DOMAIN Config : \A k \in DOMAIN api[Config[i].safe_addr] :
    LET x == api[Config[i].safe_addr][k]
    IN  (/\ x.tx_hash \in db.gnosis_safe_txs
         /\ \E f \in TransfersTo(x, Config[i].safe_addr) : IsKnownToken(Config[i], f))
        => DepositExists(db, x.tx_hash)

\* A transaction that is skipped as "already-processed" has been processed: of
\* a recorded transaction, every safe that lists it has its deposits and its
\* withdrawal (transfers of tokens that are not audited aside).
SkippedTxsAreProcessed ==
  \A i \in DOMAIN Config : \A k \in DOMAIN api[Config[i].safe_addr] :
    LET x == api[Config[i].safe_addr][k]
    IN  (x.tx_hash \in db.gnosis_safe_txs /\ ~HasUnknownToken(x, Config[i]))
        => IsComplete(db, x, Config[i])

=============================================================================
