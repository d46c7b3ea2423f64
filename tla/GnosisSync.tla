------------------------------ MODULE GnosisSync ------------------------------
(***************************************************************************)
(* The thread per audited safe (gnosis/sync_thread.rs, gnosis/sync.rs,     *)
(* gnosis/utils.rs).  A poll fetches every transaction the safe            *)
(* transaction service lists (newest first) and works through them, each   *)
(* in an exclusive transaction of its own: insert the raw transaction      *)
(* (already there: skip), decode it, store its deposits or its withdrawal  *)
(* and try to match them.  An error that is not UnknownToken rolls the     *)
(* transaction back and panics the thread (expect("failed processing       *)
(* transaction")).                                                         *)
(***************************************************************************)
EXTENDS Store, AuditedMint, AuditedBurn

CONSTANT ApiTxs   \* per safe address, the transactions its listing may hold

\* A transfer: token_addr is {} for an ether transfer, value may be missing.
EthereumTransfers ==
  [tx_hash: EthTxHashes, to: EthAddrs, token_addr: Option(EthAddrs), value: Option(Nat)]

\* A transfer has a hash of its own; the service lists it under the
\* transaction it is part of, so the two agree (external).
EthereumTransactions ==
  {x \in [kind: {"ethereum"}, tx_hash: EthTxHashes, transfers: Seq(EthereumTransfers)] :
     \A k \in DOMAIN x.transfers : x.transfers[k].tx_hash = x.tx_hash}

\* The checks of parse_withdrawal_with_pub_key_multi_sig_tx come in three
\* groups: multi_send (the outer multiSend of two values), transfer_ok (the
\* first value is a two-parameter "transfer"), aux_ok (the second value calls
\* the token's auxiliary burn contract).  transfer_data is the value column of
\* the transfers list, amount the second parameter of the transfer ({}: it is
\* not a number).
MultiSigTransactions ==
  [kind: {"multi_sig"}, tx_hash: EthTxHashes, safe: EthAddrs,
   multi_send: BOOLEAN, to: EthAddrs, transfer_ok: BOOLEAN,
   transfer_data: Seq(Option(Nat)),
   aux_ok: BOOLEAN, amount: Option(Nat), public_key: PublicKeys]

\* Module transactions are only logged; an undecodable one fails decode().
OtherTransactions == [kind: {"module", "undecodable"}, tx_hash: EthTxHashes]

RawGnosisTransactions ==
  EthereumTransactions \cup MultiSigTransactions \cup OtherTransactions

AuditedSafes == {Config[i].safe_addr : i \in DOMAIN Config}

ASSUME GnosisAssumption == ApiTxs \in [AuditedSafes -> SUBSET RawGnosisTransactions]

VARIABLES api,    \* what the transaction service lists per safe (external)
          work    \* the safe threads

gnosisVars == <<api, work>>

WorkPcs == {"poll", "begin", "insert", "transfers", "multi_sig", "commit", "dead"}

WorkAt(pc) == [pc |-> pc, todo |-> << >>, pos |-> 1]

GnosisTypeOK ==
  /\ api \in [AuditedSafes -> Seq(RawGnosisTransactions)]
  /\ work \in [Workers -> [pc: WorkPcs, todo: Seq(RawGnosisTransactions),
                        pos: Nat \ {0}]]

GnosisInit ==
  /\ api = [a \in AuditedSafes |-> << >>]
  /\ work = [t \in Workers |-> WorkAt("poll")]

----------------------------------------------------------------------------
(* Helpers.                                                                *)

audited_safe(t) == Config[t[2]]

Tx(t) == Head(work[t].todo)

Transfer(t) == Tx(t).transfers[work[t].pos]

WorkGoto(t, pc) == work' = [work EXCEPT ![t].pc = pc, ![t].pos = 1]

\* Mutant: the error is handled after the transaction was committed.
WorkFailsCommitted(t) ==
  /\ Commit(t)
  /\ work' = [work EXCEPT ![t] = WorkAt("dead")]
  /\ UNCHANGED api

\* Mutant: the error is logged and the thread polls again.
WorkFailsQuietly(t) ==
  /\ Rollback(t)
  /\ work' = [work EXCEPT ![t] = WorkAt("poll")]
  /\ UNCHANGED api

\* expect("failed processing transaction"), or a panic inside it
WorkFails(t) ==
  /\ Rollback(t)
  /\ work' = [work EXCEPT ![t] = WorkAt("dead")]
  /\ UNCHANGED api

\* truncate_value, before the conversion to u64
truncated(value, token_decimals, max_decimals) ==
  IF token_decimals > max_decimals
  THEN value \div (10 ^ (token_decimals - max_decimals))
  ELSE value

\* A missing (or unparsable) value panics on unwrap, one beyond u64 on the
\* conversion.
ValuePanics(value, token, cfg) ==
  \A v \in value : truncated(v, token.decimals, cfg.token_decimals_max) \notin U64

\* Mutant: the raw Ethereum value is stored.
truncate_nothing(value, token, cfg) == CHOOSE v \in value : TRUE

truncate_value(value, token, cfg) ==
  CHOOSE u \in {truncated(v, token.decimals, cfg.token_decimals_max) : v \in value} : TRUE

----------------------------------------------------------------------------
(* The safe transaction service lists one more executed transaction.       *)

ListTx(a) ==
  /\ \E x \in ApiTxs[a] :
       /\ \A i \in DOMAIN api[a] : api[a][i].tx_hash # x.tx_hash
       /\ api' = [api EXCEPT ![a] = <<x>> \o @]
  /\ UNCHANGED <<storeVars, work>>

\* A successful poll.  A failed one changes nothing (it is retried after
\* poll_interval).
Poll(t) ==
  /\ work[t].pc = "poll"
  /\ work' = [work EXCEPT ![t].pc = "begin", ![t].todo = api[audited_safe(t).safe_addr]]
  /\ UNCHANGED <<storeVars, api>>

PollDone(t) ==
  /\ work[t].pc = "begin"
  /\ work[t].todo = << >>
  /\ WorkGoto(t, "poll")
  /\ UNCHANGED <<storeVars, api>>

BeginTx(t) ==
  /\ work[t].pc = "begin"
  /\ work[t].todo # << >>
  /\ Begin(t)
  /\ WorkGoto(t, "insert")
  /\ UNCHANGED api

TxLockTimeout(t) ==
  /\ work[t].pc = "begin"
  /\ work[t].todo # << >>
  /\ LockTimeout(t)
  /\ work' = [work EXCEPT ![t] = WorkAt("dead")]
  /\ UNCHANGED api

----------------------------------------------------------------------------
(* process_transactions, inside the exclusive transaction.                 *)

GnosisSafeTxExists(d, tx) == tx.tx_hash \in d.gnosis_safe_txs

\* Mutant: a poll stops at the first transaction it has seen before.
SkipRest(t) ==
  /\ work[t].pc = "insert"
  /\ GnosisSafeTxExists(wdb, Tx(t))
  /\ Commit(t)
  /\ work' = [work EXCEPT ![t] = WorkAt("poll")]
  /\ UNCHANGED api

\* GnosisSafeTx::insert says AlreadyExists: nothing else is done.
SkipTx(t) ==
  /\ work[t].pc = "insert"
  /\ GnosisSafeTxExists(wdb, Tx(t))
  /\ Write(t, {wdb})
  /\ WorkGoto(t, "commit")
  /\ UNCHANGED api

InsertTx(t) ==
  /\ work[t].pc = "insert"
  /\ ~GnosisSafeTxExists(wdb, Tx(t))
  /\ Tx(t).kind # "undecodable"
  /\ Write(t, {[wdb EXCEPT !.gnosis_safe_txs = @ \cup {Tx(t).tx_hash}]})
  /\ WorkGoto(t, CASE Tx(t).kind = "ethereum"  -> "transfers"
                   [] Tx(t).kind = "multi_sig" -> "multi_sig"
                   [] Tx(t).kind = "module"    -> "commit")
  /\ UNCHANGED api

DecodeFails(t) ==
  /\ work[t].pc = "insert"
  /\ ~GnosisSafeTxExists(wdb, Tx(t))
  /\ Tx(t).kind = "undecodable"
  /\ WorkFails(t)

CommitTx(t) ==
  /\ work[t].pc = "commit"
  /\ Commit(t)
  /\ work' = [work EXCEPT ![t] = [WorkAt("begin") EXCEPT !.todo = Tail(work[t].todo)]]
  /\ UNCHANGED api

----------------------------------------------------------------------------
(* process_eth_transaction: the transfers in order.                        *)

AtTransfer(t) ==
  /\ work[t].pc = "transfers"
  /\ work[t].pos <= Len(Tx(t).transfers)

IsDeposit(t) == Transfer(t).to = audited_safe(t).safe_addr

\* The configured token of a transfer: {} or {token}.
TransferToken(t) ==
  UNION {get_token_by_eth_contract_addr(audited_safe(t), a) : a \in Transfer(t).token_addr}

new_deposit(t, token) ==
  [eth_tx_hash |-> Transfer(t).tx_hash,
   safe_addr   |-> Transfer(t).to,
   token_addr  |-> CHOOSE a \in Transfer(t).token_addr : TRUE,
   amount      |-> truncate_value(Transfer(t).value, token, audited_safe(t))]

DepositExists(d, hash) == \E e \in d.deposits : e.eth_tx_hash = hash

\* GnosisSafeDeposit::insert: eth_tx_hash is UNIQUE and a foreign key into
\* gnosis_safe_txs.
DepositRefused(d, hash) == DepositExists(d, hash) \/ hash \notin d.gnosis_safe_txs

\* Mutant: a transfer that is none of the safe's ends the loop.
UnknownTransferEnds(t) ==
  /\ AtTransfer(t)
  /\ ~IsDeposit(t)
  /\ Write(t, {wdb})
  /\ WorkGoto(t, "commit")
  /\ UNCHANGED api

\* Not a deposit to this safe: logged as an unknown transfer.
UnknownTransfer(t) ==
  /\ AtTransfer(t)
  /\ ~IsDeposit(t)
  /\ Write(t, {wdb})
  /\ work' = [work EXCEPT ![t].pos = @ + 1]
  /\ UNCHANGED api

\* Not an audited token: counted, and the UnknownToken error ends the loop
\* over the transfers; process_transactions ignores it and commits.
UnknownTokenTransfer(t) ==
  /\ AtTransfer(t)
  /\ IsDeposit(t)
  /\ Transfer(t).token_addr # {}
  /\ TransferToken(t) = {}
  /\ Write(t, {Inc(wdb, "num_invalid_ethereum_transactions")})
  /\ WorkGoto(t, "commit")
  /\ UNCHANGED api

\* A deposit is stored and matched; the result of matching is only logged.
StoreDeposit(t) ==
  /\ AtTransfer(t)
  /\ IsDeposit(t)
  /\ \E token \in TransferToken(t) :
       LET e == new_deposit(t, token)
       IN  /\ ~ValuePanics(Transfer(t).value, token, audited_safe(t))
           /\ ~DepositRefused(wdb, e.eth_tx_hash)
           /\ Write(t, try_match_deposit_with_mint(
                         [wdb EXCEPT !.deposits = @ \cup {e}], e, audited_safe(t)))
  /\ work' = [work EXCEPT ![t].pos = @ + 1]
  /\ UNCHANGED api

\* A transfer without a token address is an ApiResultParse error (the counter
\* it increments is rolled back with the rest); a value that cannot be
\* converted panics; a second deposit of one Ethereum transaction violates
\* UNIQUE(eth_tx_hash), and one of an unrecorded transaction the foreign key.
DepositFails(t) ==
  /\ AtTransfer(t)
  /\ IsDeposit(t)
  /\ \/ Transfer(t).token_addr = {}
     \/ \E token \in TransferToken(t) :
          \/ ValuePanics(Transfer(t).value, token, audited_safe(t))
          \/ DepositRefused(wdb, Transfer(t).tx_hash)
  /\ WorkFails(t)

TransfersDone(t) ==
  /\ work[t].pc = "transfers"
  /\ work[t].pos > Len(Tx(t).transfers)
  /\ Write(t, {wdb})
  /\ WorkGoto(t, "commit")
  /\ UNCHANGED api

----------------------------------------------------------------------------
(* process_multi_sig_transaction.                                          *)

AtMultiSig(t) == work[t].pc = "multi_sig"

IsWithdrawal(t) == Tx(t).safe = audited_safe(t).safe_addr

WithdrawalToken(t) == get_token_by_eth_contract_addr(audited_safe(t), Tx(t).to)

\* The checks that precede the unwrap of the first transfer.  The length of
\* transfer_data is compared with 1, but the error is built and dropped.
HeaderParses(t) == Tx(t).multi_send /\ WithdrawalToken(t) # {} /\ Tx(t).transfer_ok

\* token_transfers[0].value.unwrap()
FirstTransferPanics(t) ==
  \A i \in DOMAIN Tx(t).transfer_data : i = 1 => Tx(t).transfer_data[i] = {}

new_withdrawal(t, token) ==
  [eth_tx_hash |-> Tx(t).tx_hash,
   safe_addr   |-> Tx(t).safe,
   token_addr  |-> Tx(t).to,
   amount      |-> truncate_value(Tx(t).amount, token, audited_safe(t)),
   public_key  |-> Tx(t).public_key]

WithdrawalExists(d, hash) == \E w \in d.withdrawals : w.eth_tx_hash = hash

OtherSafeMultiSig(t) ==
  /\ AtMultiSig(t)
  /\ ~IsWithdrawal(t)
  /\ Write(t, {wdb})
  /\ WorkGoto(t, "commit")
  /\ UNCHANGED api

InvalidMultiSig(t) ==
  /\ AtMultiSig(t)
  /\ IsWithdrawal(t)
  /\ ~HeaderParses(t) \/ (~FirstTransferPanics(t) /\ ~Tx(t).aux_ok)
  /\ Write(t, {Inc(wdb, "num_invalid_multi_sig_transactions")})
  /\ WorkGoto(t, "commit")
  /\ UNCHANGED api

StoreWithdrawal(t) ==
  /\ AtMultiSig(t)
  /\ IsWithdrawal(t)
  /\ HeaderParses(t) /\ ~FirstTransferPanics(t) /\ Tx(t).aux_ok
  /\ \E token \in WithdrawalToken(t) :
       LET w == new_withdrawal(t, token)
       IN  /\ ~ValuePanics(Tx(t).amount, token, audited_safe(t))
           /\ ~WithdrawalExists(wdb, w.eth_tx_hash)
           /\ Write(t, try_match_withdrawal_with_burn(
                         [wdb EXCEPT !.withdrawals = @ \cup {w}], w, audited_safe(t)))
  /\ WorkGoto(t, "commit")
  /\ UNCHANGED api

\* The first transfer or its value is missing, or the amount is not a number
\* or exceeds u64 (panics).  The transaction's hash is new here, so UNIQUE(eth_tx_hash) of
\* the withdrawals holds.
MultiSigFails(t) ==
  /\ AtMultiSig(t)
  /\ IsWithdrawal(t)
  /\ HeaderParses(t)
  /\ \/ FirstTransferPanics(t)
     \/ /\ Tx(t).aux_ok
        /\ \E token \in WithdrawalToken(t) :
             \/ ValuePanics(Tx(t).amount, token, audited_safe(t))
             \/ WithdrawalExists(wdb, Tx(t).tx_hash)
  /\ WorkFails(t)

----------------------------------------------------------------------------

\* The steps the thread takes by itself, without acquiring the lock.
WorkStep(t) ==
  \/ Poll(t) \/ PollDone(t)
  \/ SkipTx(t) \/ InsertTx(t) \/ DecodeFails(t) \/ CommitTx(t)
  \/ UnknownTransfer(t) \/ UnknownTokenTransfer(t) \/ StoreDeposit(t)
  \/ DepositFails(t) \/ TransfersDone(t)
  \/ OtherSafeMultiSig(t) \/ InvalidMultiSig(t) \/ StoreWithdrawal(t)
  \/ MultiSigFails(t)

GnosisNext ==
  \/ \E a \in AuditedSafes : ListTx(a)
  \/ \E t \in Workers : WorkStep(t) \/ BeginTx(t) \/ TxLockTimeout(t)

=============================================================================
