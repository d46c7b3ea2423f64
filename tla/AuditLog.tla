------------------------------- MODULE AuditLog -------------------------------
(***************************************************************************)
(* What the auditor promises its users, without threads, transactions,     *)
(* ids, counters or failures: four tables that only grow, and an audit log *)
(* that pairs their rows.                                                  *)
(*                                                                         *)
(* Rows arrive in units: a block brings mints and burns, an Ethereum       *)
(* transaction deposits or a withdrawal.  In the same step, and never      *)
(* later, the log records the pairs the new rows complete.  The mint log   *)
(* is exact.  The burn log may miss a pair only when several withdrawals   *)
(* name one burn.                                                          *)
(***************************************************************************)
EXTENDS Naturals, Sequences

CONSTANTS Backs(_, _),     \* Backs(e, m): deposit e is what mint m stands for
          Redeems(_, _),   \* Redeems(w, b): withdrawal w pays out burn b
          Names(_, _)      \* Names(w, b): w carries the public key of b

VARIABLES mints, deposits, burns, withdrawals, mint_log, burn_log

logVars == <<mints, deposits, burns, withdrawals, mint_log, burn_log>>

Entries(log) == {log[i] : i \in DOMAIN log}

IsAppended(older, log) == Len(older) <= Len(log) /\ \A i \in DOMAIN older : log[i] = older[i]

LogInit ==
  /\ mints = {} /\ deposits = {} /\ burns = {} /\ withdrawals = {}
  /\ mint_log = << >> /\ burn_log = << >>

----------------------------------------------------------------------------

\* Every pair <<mint, deposit>> that belongs together is in the log, once, and
\* nothing else is.
RecordMints ==
  /\ IsAppended(mint_log, mint_log')
  /\ Entries(mint_log') = {x \in mints' \X deposits' : Backs(x[2], x[1])}
  /\ \A i, j \in DOMAIN mint_log' :
       (mint_log'[i][1] = mint_log'[j][1] \/ mint_log'[i][2] = mint_log'[j][2]) => i = j

\* A new entry pairs a burn with a withdrawal that redeems it, one of which has
\* just arrived; a pair with no rival is never left out.
RecordBurns ==
  /\ IsAppended(burn_log, burn_log')
  /\ \A x \in Entries(burn_log') \ Entries(burn_log) :
       /\ x \in burns' \X withdrawals' /\ Redeems(x[2], x[1])
       /\ x[1] \notin burns \/ x[2] \notin withdrawals
  /\ \A b \in burns', w \in withdrawals' :
       (Redeems(w, b) /\ \A v \in withdrawals' : Names(v, b) => v = w)
       => <<b, w>> \in Entries(burn_log')
  /\ \A i, j \in DOMAIN burn_log' :
       (burn_log'[i][1] = burn_log'[j][1] \/ burn_log'[i][2] = burn_log'[j][2]) => i = j

StoreBlock ==
  /\ mints \subseteq mints' /\ burns \subseteq burns'
  /\ UNCHANGED <<deposits, withdrawals>>
  /\ RecordMints /\ RecordBurns

StoreEthereumTx ==
  /\ deposits \subseteq deposits' /\ withdrawals \subseteq withdrawals'
  /\ deposits' = deposits \/ withdrawals' = withdrawals
  /\ UNCHANGED <<mints, burns>>
  /\ RecordMints /\ RecordBurns

LogSpec == LogInit /\ [][StoreBlock \/ StoreEthereumTx]_logVars

=============================================================================
