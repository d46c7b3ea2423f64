------------------------------ MODULE TablePage ------------------------------
(***************************************************************************)
(* The list queries of the HTTP API and the page that shows them           *)
(* (http_api/service.rs; frontend: useTableData.ts, apiHandler.ts).        *)
(*                                                                         *)
(* The page asks for its tables at once and is shown when all have been    *)
(* answered (Promise.all), each from the database as of its own moment.  A *)
(* client of the API may also read the audit log page by page.             *)
(***************************************************************************)
EXTENDS ReserveAuditor

CONSTANTS PageLimit,   \* limit of the page's audit log queries (300)
          PageToken    \* the token whose mints and burns the page shows

ASSUME PageAssumption == PageLimit \in Nat \ {0} /\ PageToken \in Tokens

AuditTables == {"audited_mints", "audited_burns"}

\* The tables that show mints and deposits, and those of burns and withdrawals.
MintTables == {"audited_mints", "unaudited_mints", "unaudited_deposits"}

BurnTables == {"audited_burns", "unaudited_burns", "unaudited_withdrawals"}

Tables == MintTables \cup BurnTables

VARIABLES page,    \* the page: when it was opened and what was answered
          pager    \* per audit table, the rows read page by page so far

pageVars == <<vars, page, pager>>

----------------------------------------------------------------------------
(* The queries.                                                            *)

\* Mutant: the NOT EXISTS subquery is not correlated with the mint.
find_mint_txs_of_empty_log(d) == {m \in d.mint_txs : d.audited_mints = << >>}

find_unaudited_mint_txs(d) == {m \in d.mint_txs : ~MintIsAudited(d, m.nonce)}

find_unaudited_deposits(d) == {e \in d.deposits : ~DepositIsAudited(d, e.eth_tx_hash)}

find_unaudited_burn_tx_outs(d) == {b \in d.burn_tx_outs : ~BurnIsAudited(d, b.public_key)}

\* Mutant: the NOT EXISTS subquery is not correlated with the withdrawal.
find_withdrawals_of_empty_log(d) == {w \in d.withdrawals : d.audited_burns = << >>}

find_unaudited_withdrawals(d) == {w \in d.withdrawals : ~WithdrawalIsAudited(d, w.eth_tx_hash)}

\* The rows at the positions that the inner joins keep, ordered by id.
RowsAt(rows, kept) ==
  [n \in 1 .. Cardinality(kept) |->
     rows[CHOOSE i \in kept : Cardinality({j \in kept : j <= i}) = n]]

list_with_mint_and_deposit(d) ==
  RowsAt(d.audited_mints,
         {i \in DOMAIN d.audited_mints :
            /\ \E m \in d.mint_txs : m.nonce = d.audited_mints[i].mint
            /\ \E e \in d.deposits : e.eth_tx_hash = d.audited_mints[i].deposit})

list_with_burn_and_withdrawal(d) ==
  RowsAt(d.audited_burns,
         {i \in DOMAIN d.audited_burns :
            /\ \E b \in d.burn_tx_outs : b.public_key = d.audited_burns[i].burn
            /\ \E w \in d.withdrawals : w.eth_tx_hash = d.audited_burns[i].withdrawal})

\* Mutant: newest first.
PageOfNewest(rows, offset, limit) ==
  LET n == Len(rows)
  IN  [i \in 1 .. Min({limit, IF offset < n THEN n - offset ELSE 0}) |-> rows[n + 1 - offset - i]]

\* OFFSET offset LIMIT limit
PageOf(rows, offset, limit) == SubSeq(rows, offset + 1, Min({offset + limit, Len(rows)}))

list(d, table, offset, limit) ==
  PageOf(IF table = "audited_mints" THEN list_with_mint_and_deposit(d)
         ELSE list_with_burn_and_withdrawal(d), offset, limit)

Query(d, table) ==
  CASE table \in AuditTables            -> list(d, table, 0, PageLimit)
    [] table = "unaudited_mints"        -> find_unaudited_mint_txs(d)
    [] table = "unaudited_burns"        -> find_unaudited_burn_tx_outs(d)
    [] table = "unaudited_withdrawals"  -> find_unaudited_withdrawals(d)
    [] table = "unaudited_deposits"     -> find_unaudited_deposits(d)

----------------------------------------------------------------------------

Closed == [open |-> FALSE, from |-> EmptyDb, answers |-> << >>]

PageInit ==
  /\ Init
  /\ page = Closed
  /\ pager = [t \in AuditTables |-> << >>]

\* fetchData sends all requests; from is the database at that moment.
OpenPage ==
  /\ ~page.open
  /\ page' = [open |-> TRUE, from |-> db, answers |-> << >>]
  /\ UNCHANGED <<vars, pager>>

AnswerTable(table) ==
  /\ page.open
  /\ table \notin DOMAIN page.answers
  /\ page' = [page EXCEPT !.answers =
                [t \in DOMAIN @ \cup {table} |-> IF t = table THEN Query(db, t) ELSE @[t]]]
  /\ UNCHANGED <<vars, pager>>

Loaded == page.open /\ DOMAIN page.answers = Tables

\* What the page shows when it is loaded: of the unaudited mints and burns only those of
\* one token.
shown(table) ==
  IF table \in {"unaudited_mints", "unaudited_burns"}
  THEN {x \in page.answers[table] : x.token_id = PageToken}
  ELSE page.answers[table]

\* The user leaves the page, and may open it again.
ClosePage ==
  /\ Loaded
  /\ page' = Closed
  /\ UNCHANGED <<vars, pager>>

\* A client reads the next rows of an audit table.
ReadOn(table) ==
  /\ pager' = [pager EXCEPT ![table] = @ \o list(db, table, Len(@), PageLimit)]
  /\ UNCHANGED <<vars, page>>

PageNext ==
  \/ Next /\ UNCHANGED <<page, pager>>
  \/ OpenPage \/ ClosePage
  \/ \E table \in Tables : AnswerTable(table)
  \/ \E table \in AuditTables : ReadOn(table)

PageSpec == PageInit /\ [][PageNext]_pageVars

----------------------------------------------------------------------------
(* Properties.                                                             *)

\* Each of rows, named id(x) in column side of the audit log, is on the page
\* once: in the list of unaudited rows or, up to the limit, in the audit log.
\* A row that was matched while the page was loading is exempt.
ListedOnce(log, list_table, rows, id(_), side) ==
  \A x \in rows :
    LET was == \E i \in DOMAIN page.from[log] : page.from[log][i][side] = id(x)
        positions == {i \in DOMAIN db[log] : db[log][i][side] = id(x)}
        entries == {i \in DOMAIN shown(log) : shown(log)[i][side] = id(x)}
    IN  was = (positions # {}) =>
          /\ (x \in shown(list_table)) = ~was
          /\ Cardinality(entries) = IF was /\ \E i \in positions : i <= PageLimit THEN 1 ELSE 0

\* Three tables are read at three moments while mints, deposits and matches
\* are committed: every mint (of the shown token) and every deposit stored
\* when the page was opened is on it exactly once, audited or unaudited, unless
\* it was matched during the load or lies beyond the limit of the log query.
MintsAreListedOnce ==
  MintTables \subseteq DOMAIN page.answers =>
    /\ ListedOnce("audited_mints", "unaudited_mints",
                  {m \in page.from.mint_txs : m.token_id = PageToken}, LAMBDA m : m.nonce, "mint")
    /\ ListedOnce("audited_mints", "unaudited_deposits",
                  page.from.deposits, LAMBDA e : e.eth_tx_hash, "deposit")

\* The same for burns and withdrawals.
BurnsAreListedOnce ==
  BurnTables \subseteq DOMAIN page.answers =>
    /\ ListedOnce("audited_burns", "unaudited_burns",
                  {b \in page.from.burn_tx_outs : b.token_id = PageToken},
                  LAMBDA b : b.public_key, "burn")
    /\ ListedOnce("audited_burns", "unaudited_withdrawals",
                  page.from.withdrawals, LAMBDA w : w.eth_tx_hash, "withdrawal")

\* Pages of the audit log read at different times fit together: what a client
\* has collected with growing offsets is the beginning of the log, no row
\* repeated, skipped or moved, although the log grows between two pages.
PagesFitTogether ==
  \A t \in AuditTables : Extends(db[t], pager[t])

=============================================================================
