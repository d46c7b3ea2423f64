------------------------------- MODULE HttpApi -------------------------------
(***************************************************************************)
(* The handlers of the HTTP API, the gRPC API and get-block-audit-data     *)
(* that combine several queries (http_api/service.rs, routes.rs,           *)
(* src/service.rs, bin/main.rs).                                           *)
(*                                                                         *)
(* A handler runs next to the writers.  Only the command line wraps its    *)
(* queries in a transaction; everywhere else each SQL statement sees the   *)
(* database as of its own moment, so blocks are committed between two      *)
(* queries of one request.                                                 *)
(***************************************************************************)
EXTENDS ReserveAuditor

CONSTANT Clients   \* requests that are served at the same time

VARIABLE handler   \* the request each client has made, and how far it is

httpVars == <<vars, handler>>

BlockIndices == 0 .. MaxBlocks

\* block is the block asked for, {} the last one.
Requests ==
  [route: {"block_audit_data"}, via: {"http", "grpc", "cli"}, block: Option(BlockIndices)]
  \cup [route: {"mint_info"}, block: Option(BlockIndices) \ {{}}]
  \cup [route: {"ledger_balance"}, token_id: Tokens]

\* Error::NotFound, Error::ObjectNotSaved, an invalid signature, and the gRPC
\* status INTERNAL; "ok" otherwise.
Statuses == {"ok", "not_found", "object_not_saved", "bad_signature", "internal"}

\* Mutant: burns and config transactions are read first.
SwappedQueries(route) ==
  CASE route = "mint_info" -> <<"mint_config_txs", "mint_txs", "mint_configs">>
    [] route = "ledger_balance" -> <<"burn_total", "mint_total", "done">>

\* The order in which a handler reads tables that a block writes together.
Queries(route) ==
  CASE route = "mint_info" -> <<"mint_txs", "mint_config_txs", "mint_configs">>
    [] route = "ledger_balance" -> <<"mint_total", "burn_total", "done">>

NextQuery(route, pc) ==
  Queries(route)[1 + CHOOSE i \in DOMAIN Queries(route) : Queries(route)[i] = pc]

FirstPc(req) ==
  CASE req.route # "block_audit_data" -> Queries(req.route)[1]
    [] req.route = "block_audit_data" /\ req.via = "cli" -> "cli"
    [] OTHER -> IF req.block = {} THEN "last" ELSE "get"

Handlers ==
  [pc: {"idle", "last", "get", "balances", "cli", "mint_txs", "mint_config_txs", "mint_configs",
        "signers", "mint_config", "mint_config_tx", "mint_total", "burn_total", "done"},
   req: Requests,
   since: Nat,                         \* blocks synced when the request came
   block: Option(Nat),                 \* the block asked for, or found
   balances: Option(BalanceMaps),
   mint_txs: SUBSET MintTxRows,
   mint_config_txs: SUBSET MintConfigTxRows,
   configs_of: SUBSET [mint_config_tx: MintConfigTxRows, mint_configs: Seq(MintConfigs)],
   todo: SUBSET MintTxRows,            \* mints not yet joined with their config
   mints_with_configs: SUBSET [mint_tx: MintTxRows, mint_config_tx: MintConfigTxRows,
                               mint_config: MintConfigs],
   mint_total: Nat, burn_total: Nat,
   status: Statuses]

NewHandler(pc, req, n) ==
  [pc |-> pc, req |-> req, since |-> n,
   block |-> IF req.route = "ledger_balance" THEN {} ELSE req.block,
   balances |-> {}, mint_txs |-> {}, mint_config_txs |-> {}, configs_of |-> {}, todo |-> {},
   mints_with_configs |-> {}, mint_total |-> 0, burn_total |-> 0, status |-> "ok"]

IdleHandler == NewHandler("idle", [route |-> "block_audit_data", via |-> "http", block |-> {}], 0)

\* Every request is at a step of its handler, with the rows and sums that step
\* has read.
HttpTypeOK == handler \in [Clients -> Handlers]

HttpInit == Init /\ handler = [c \in Clients |-> IdleHandler]

----------------------------------------------------------------------------
(* Helpers.                                                                *)

BlockOf(c) == CHOOSE b \in handler[c].block : TRUE

\* A reply leaves the answer in handler[c] until the client asks again.
Reply(c, h) == handler' = [handler EXCEPT ![c] = [h EXCEPT !.pc = "done"]]

Fail(c, status) == Reply(c, [handler[c] EXCEPT !.status = status])

Continue(c, h) == handler' = [handler EXCEPT ![c] = h]

Ask(c, req) ==
  /\ handler[c].pc \in {"idle", "done"}
  /\ handler' = [handler EXCEPT ![c] = NewHandler(FirstPc(req), req, num_blocks_synced(db))]
  /\ UNCHANGED vars

----------------------------------------------------------------------------
(* Block audit data.                                                       *)

\* Mutant: the number of blocks is taken for an index, and one is subtracted
\* twice.
BlockBeforeLast(c) ==
  /\ handler[c].pc = "last"
  /\ IF db.block_audit_data = {}
     THEN Fail(c, "not_found")
     ELSE Continue(c, [handler[c] EXCEPT !.pc = "get", !.block = {Max(db.block_audit_data) - 1}])
  /\ UNCHANGED vars

\* BlockAuditData::last_synced_block_index
LastSyncedBlock(c) ==
  /\ handler[c].pc = "last"
  /\ IF db.block_audit_data = {}
     THEN Fail(c, "not_found")
     ELSE Continue(c, [handler[c] EXCEPT !.pc = "get", !.block = {Max(db.block_audit_data)}])
  /\ UNCHANGED vars

\* BlockAuditData::get.  gRPC answers with the block index alone; when it asked
\* for the last block, a missing row is an INTERNAL error.
GetBlockAuditData(c) ==
  LET h == handler[c]
      missing == IF h.req.via = "grpc" /\ h.req.block = {} THEN "internal" ELSE "not_found"
  IN  /\ h.pc = "get"
      /\ IF BlockOf(c) \notin db.block_audit_data THEN Fail(c, missing)
         ELSE IF h.req.via = "grpc" THEN Reply(c, h)
         ELSE Continue(c, [h EXCEPT !.pc = "balances"])
      /\ UNCHANGED vars

\* Mutant: the balances of the newest block, whatever block was found.
GetNewestBalances(c) ==
  /\ handler[c].pc = "balances"
  /\ Reply(c, [handler[c] EXCEPT !.balances =
                 {get_balances_for_block(db, Max(db.block_audit_data))}])
  /\ UNCHANGED vars

GetBalances(c) ==
  /\ handler[c].pc = "balances"
  /\ Reply(c, [handler[c] EXCEPT !.balances = {get_balances_for_block(db, BlockOf(c))}])
  /\ UNCHANGED vars

\* cmd_get_block_audit_data: the same three queries in one transaction.
CmdGetBlockAuditData(c) ==
  LET h == handler[c]
      found == IF h.req.block # {} THEN h.req.block
               ELSE IF db.block_audit_data = {} THEN {} ELSE {Max(db.block_audit_data)}
  IN  /\ h.pc = "cli"
      /\ IF found # {} /\ found \subseteq db.block_audit_data
         THEN Reply(c, [h EXCEPT !.block = found,
                          !.balances = {get_balances_for_block(db, b) : b \in found}])
         ELSE Fail(c, "not_found")
      /\ UNCHANGED vars

----------------------------------------------------------------------------
(* Mint info of a block.                                                   *)

get_mint_txs_by_block_index(d, b) == {m \in d.mint_txs : m.block_index = b}

get_by_block_index(d, b) == {x \in d.mint_config_txs : x.block_index = b}

get_by_mint_config_tx_id(d, x) == IF x \in d.mint_config_txs THEN x.configs ELSE << >>

\* Mutant: the config is looked up in the newest transaction of the token.
get_by_newest_id(d, id) ==
  {x \in d.mint_config_txs :
     /\ x.token_id = id.token_id
     /\ \A y \in d.mint_config_txs : y.token_id = id.token_id => y.block_index <= x.block_index
     /\ id.position \in DOMAIN x.configs}

\* MintConfig::get_by_id, and MintConfigTx::get_by_id of the transaction it
\* belongs to: {} or the one row that holds the config.
get_by_id(d, id) ==
  {x \in d.mint_config_txs : /\ x.block_index = id.block_index
                             /\ x.token_id = id.token_id
                             /\ id.position \in DOMAIN x.configs}

\* MintTx::decode: the mint as the ledger holds it (the protobuf column).
decode(m) ==
  LET txs == ledger[m.block_index + 1].mint_txs
  IN  txs[CHOOSE i \in DOMAIN txs : txs[i].nonce = m.nonce]

GetMintTxs(c) ==
  /\ handler[c].pc = "mint_txs"
  /\ Continue(c, [handler[c] EXCEPT !.pc = NextQuery("mint_info", @),
                    !.mint_txs = get_mint_txs_by_block_index(db, BlockOf(c))])
  /\ UNCHANGED vars

GetMintConfigTxs(c) ==
  /\ handler[c].pc = "mint_config_txs"
  /\ Continue(c, [handler[c] EXCEPT !.pc = NextQuery("mint_info", @),
                    !.mint_config_txs = get_by_block_index(db, BlockOf(c))])
  /\ UNCHANGED vars

\* One config transaction of the block is joined with its configs.
GetMintConfigs(c) ==
  /\ handler[c].pc = "mint_configs"
  /\ \E x \in handler[c].mint_config_txs \ {r.mint_config_tx : r \in handler[c].configs_of} :
       Continue(c, [handler[c] EXCEPT !.configs_of = @ \cup
         {[mint_config_tx |-> x, mint_configs |-> get_by_mint_config_tx_id(db, x)]}])
  /\ UNCHANGED vars

MintConfigsDone(c) ==
  /\ handler[c].pc = "mint_configs"
  /\ handler[c].mint_config_txs = {r.mint_config_tx : r \in handler[c].configs_of}
  /\ Continue(c, [handler[c] EXCEPT !.pc = "signers", !.todo = handler[c].mint_txs])
  /\ UNCHANGED vars

\* The mint the handler is at.  Rows come by id; any order does here.
MintOf(c) == CHOOSE m \in handler[c].todo : TRUE

ConfigId(c) == CHOOSE id \in MintOf(c).mint_config_id : TRUE

\* MintTx::get_signers: a mint without mint_config_id is ObjectNotSaved, a
\* config that is gone NotFound, and the signature is verified once more.
GetSigners(c) ==
  /\ handler[c].pc = "signers"
  /\ handler[c].todo # {}
  /\ IF MintOf(c).mint_config_id = {} THEN Fail(c, "object_not_saved")
     ELSE IF get_by_id(db, ConfigId(c)) = {} THEN Fail(c, "not_found")
     ELSE IF \A x \in get_by_id(db, ConfigId(c)) :
               x.configs[ConfigId(c).position].signer_set \notin decode(MintOf(c)).signed_by
          THEN Fail(c, "bad_signature")
     ELSE Continue(c, [handler[c] EXCEPT !.pc = "mint_config"])
  /\ UNCHANGED vars

\* A mint whose config is not found is left out of the answer.
GetMintConfig(c) ==
  /\ handler[c].pc = "mint_config"
  /\ Continue(c, IF get_by_id(db, ConfigId(c)) = {}
                 THEN [handler[c] EXCEPT !.pc = "signers", !.todo = @ \ {MintOf(c)}]
                 ELSE [handler[c] EXCEPT !.pc = "mint_config_tx"])
  /\ UNCHANGED vars

GetMintConfigTx(c) ==
  /\ handler[c].pc = "mint_config_tx"
  /\ Continue(c, [handler[c] EXCEPT !.pc = "signers", !.todo = @ \ {MintOf(c)},
                    !.mints_with_configs = @ \cup
                      {[mint_tx |-> MintOf(c), mint_config_tx |-> x,
                        mint_config |-> x.configs[ConfigId(c).position]] :
                       x \in get_by_id(db, ConfigId(c))}])
  /\ UNCHANGED vars

MintInfoDone(c) ==
  /\ handler[c].pc = "signers"
  /\ handler[c].todo = {}
  /\ Reply(c, handler[c])
  /\ UNCHANGED vars

----------------------------------------------------------------------------
(* Ledger balance of a token: two sums (u128), two connections.            *)

MintTotal(d, token) == SumOfAmounts({m \in d.mint_txs : m.token_id = token})

BurnTotal(d, token) == SumOfAmounts({b \in d.burn_tx_outs : b.token_id = token})

get_mint_total(c) ==
  /\ handler[c].pc = "mint_total"
  /\ Continue(c, [handler[c] EXCEPT !.pc = NextQuery("ledger_balance", @),
                    !.mint_total = MintTotal(db, handler[c].req.token_id)])
  /\ UNCHANGED vars

get_burn_total(c) ==
  /\ handler[c].pc = "burn_total"
  /\ Continue(c, [handler[c] EXCEPT !.pc = NextQuery("ledger_balance", @),
                    !.burn_total = BurnTotal(db, handler[c].req.token_id)])
  /\ UNCHANGED vars

----------------------------------------------------------------------------

HandlerStep(c) ==
  \/ LastSyncedBlock(c) \/ GetBlockAuditData(c) \/ GetBalances(c) \/ CmdGetBlockAuditData(c)
  \/ GetMintTxs(c) \/ GetMintConfigTxs(c) \/ GetMintConfigs(c) \/ MintConfigsDone(c)
  \/ GetSigners(c) \/ GetMintConfig(c) \/ GetMintConfigTx(c) \/ MintInfoDone(c)
  \/ get_mint_total(c) \/ get_burn_total(c)

HttpNext ==
  \/ Next /\ UNCHANGED handler
  \/ \E c \in Clients : (\E req \in Requests : Ask(c, req)) \/ HandlerStep(c)

HttpSpec == HttpInit /\ [][HttpNext]_httpVars

----------------------------------------------------------------------------
(* Properties.                                                             *)

Answered(c, route) == handler[c].pc = "done" /\ handler[c].req.route = route

\* An answer about a block, found by index or as the last one, in one
\* transaction or in three queries, carries the balances the auditor stored
\* for that very block; the last block is at least as recent as when the
\* request came, and a block that was synced then is always found (never
\* NotFound, and never INTERNAL from gRPC), whatever is committed meanwhile.
BlockAnswersAreConsistent ==
  \A c \in Clients : Answered(c, "block_audit_data") =>
    LET h == handler[c]
    IN  /\ h.status = "ok" =>
             /\ h.req.via # "grpc" =>
                  \E r \in db.block_balance :
                    r.block_index = BlockOf(c) /\ h.balances = {r.balances}
             /\ BlockOf(c) \in db.block_audit_data
             /\ h.req.block = {} => BlockOf(c) + 1 >= h.since
        /\ h.status # "ok" => /\ h.status = "not_found"
                              /\ h.since <= (IF h.req.block = {} THEN 0 ELSE BlockOf(c))

\* What the ledger says about the mints of block b.
MintNonces(b) == {ledger[b + 1].mint_txs[i].nonce : i \in DOMAIN ledger[b + 1].mint_txs}

ConfigNonces(b) ==
  {ledger[b + 1].mint_config_txs[i].nonce : i \in DOMAIN ledger[b + 1].mint_config_txs}

\* mint_info reads the two tables of a block one after the other, outside any
\* transaction, while the block may be committed in between: the answer holds
\* all mints of the block or none, all its config transactions or none, never
\* mints without the config transactions of their block, and everything if the
\* block was synced when the request came; no mint is dropped because the
\* config it is attributed to was not found.
MintInfoIsWhole ==
  \A c \in Clients : (Answered(c, "mint_info") /\ handler[c].status = "ok") =>
    LET h == handler[c]
        mints == {x.mint_tx.nonce : x \in h.mints_with_configs}
        configTxs == {x.mint_config_tx.nonce : x \in h.configs_of}
        none == mints = {} /\ configTxs = {}
    IN  IF BlockOf(c) < Len(ledger)
        THEN /\ mints \in {{}, MintNonces(BlockOf(c))}
             /\ configTxs \in {{}, ConfigNonces(BlockOf(c))}
             /\ (mints # {} \/ h.since > BlockOf(c)) => configTxs = ConfigNonces(BlockOf(c))
             /\ h.since > BlockOf(c) => mints = MintNonces(BlockOf(c))
             /\ \A x \in h.mints_with_configs :
                  /\ x.mint_config_tx.block_index < BlockOf(c)
                  /\ x.mint_config.signer_set \in decode(x.mint_tx).signed_by
        ELSE none

\* A mint_info request fails for one reason only: a mint of the block is
\* attributed to no config, which the counter has recorded as well.  No config
\* a mint points to is missing and no stored signature fails to verify.
MintInfoFailsOnlyUnattributed ==
  \A c \in Clients : (Answered(c, "mint_info") /\ handler[c].status # "ok") =>
    /\ handler[c].status = "object_not_saved"
    /\ \E m \in db.mint_txs : m.block_index = BlockOf(c) /\ m.mint_config_id = {}
    /\ db.counters["num_mint_txs_without_matching_mint_config"] > 0

\* The balance a client computes from ledger_balance (minted minus burned)
\* never exceeds what was in circulation when the second sum was read, and is
\* exact when nothing was committed since the first: mints are summed first.
BalanceIsNeverOverstated ==
  [][\A c \in Clients :
       (handler[c].req.route = "ledger_balance" /\ handler[c].pc # "done" /\ handler'[c].pc = "done")
       => LET t == handler[c].req.token_id
          IN  handler'[c].mint_total + BurnTotal(db, t) <= MintTotal(db, t) + handler'[c].burn_total
    ]_httpVars

=============================================================================
