------------------------------- MODULE Fetcher -------------------------------
(***************************************************************************)
(* How a poll gets the listing of a safe (gnosis/fetcher.rs, poll() of     *)
(* gnosis/sync.rs).  The transaction service answers in pages, newest      *)
(* transaction first, and new transactions push the older ones down while  *)
(* a fetch is under way: a page may repeat what the previous one held.  A  *)
(* page that cannot be fetched ends the fetch, and everything is fetched   *)
(* again at the next poll.                                                 *)
(*                                                                         *)
(* GnosisSync takes the listing in one step (Poll); FetchCoversListing is  *)
(* what allows it to.                                                      *)
(***************************************************************************)
EXTENDS Naturals, Sequences, FiniteSets, SequencesExt

CONSTANTS MaxTxs,        \* bound on the transactions of the safe
          PageSize,      \* transactions per page
          MaxFailures    \* bound on failed requests and crashes

ASSUME FetcherAssumption == MaxTxs \in Nat /\ PageSize \in Nat \ {0} /\ MaxFailures \in Nat

\* A transaction is named by its rank in the order of execution.
Txs == 1 .. MaxTxs

VARIABLES listing,    \* what the service lists, newest first (external)
          thread,     \* the safe thread
          recorded,   \* gnosis_safe_txs
          failures,   \* failed requests and crashes so far
          snapshot    \* history: the listing when the first page was read

fetcherVars == <<listing, thread, recorded, failures, snapshot>>

\* pc is "sleep", "fetch" or "process"; url the offset in the URL of the page to
\* fetch next; raw_transactions what was fetched; pos the one to process next.
Sleeping == [pc |-> "sleep", url |-> 0, raw_transactions |-> << >>, pos |-> 1]

FetcherInit ==
  /\ listing = << >>
  /\ thread = Sleeping
  /\ recorded = {}
  /\ failures = 0
  /\ snapshot = << >>

----------------------------------------------------------------------------
(* The transaction service (external).                                     *)

ExecuteTx ==
  /\ Len(listing) < MaxTxs
  /\ listing' = <<Len(listing) + 1>> \o listing
  /\ UNCHANGED <<thread, recorded, failures, snapshot>>

Results(url) == SubSeq(listing, url + 1, Min({url + PageSize, Len(listing)}))

\* The URL of the page after url, if there is one.
NextUrl(url) == IF url + PageSize < Len(listing) THEN {url + PageSize} ELSE {}

----------------------------------------------------------------------------
(* poll() and get_all_transaction_data.                                    *)

StartPoll ==
  /\ thread.pc = "sleep"
  /\ thread' = [thread EXCEPT !.pc = "fetch"]
  /\ UNCHANGED <<listing, recorded, failures, snapshot>>

\* Mutant: fetching stops at a transaction that was seen before, although
\* nothing tells whether a complete fetch ever happened.
FetchPageUntilSeen ==
  /\ thread.pc = "fetch"
  /\ LET raw  == thread.raw_transactions \o Results(thread.url)
         seen == \E x \in ToSet(Results(thread.url)) : x \in recorded
     IN  thread' = IF NextUrl(thread.url) = {} \/ seen
                   THEN [thread EXCEPT !.pc = "process", !.raw_transactions = raw]
                   ELSE [thread EXCEPT !.url = CHOOSE u \in NextUrl(thread.url) : TRUE,
                                       !.raw_transactions = raw]
  /\ snapshot' = IF thread.url = 0 THEN listing ELSE snapshot
  /\ UNCHANGED <<listing, recorded, failures>>

FetchPage ==
  /\ thread.pc = "fetch"
  /\ LET raw == thread.raw_transactions \o Results(thread.url)
     IN  thread' = IF NextUrl(thread.url) = {}
                   THEN [thread EXCEPT !.pc = "process", !.raw_transactions = raw]
                   ELSE [thread EXCEPT !.url = CHOOSE u \in NextUrl(thread.url) : TRUE,
                                       !.raw_transactions = raw]
  /\ snapshot' = IF thread.url = 0 THEN listing ELSE snapshot
  /\ UNCHANGED <<listing, recorded, failures>>

\* Mutant: an error is taken for the end of the listing.
FetchEndsEarly ==
  /\ thread.pc = "fetch"
  /\ failures < MaxFailures
  /\ failures' = failures + 1
  /\ thread' = [thread EXCEPT !.pc = "process"]
  /\ UNCHANGED <<listing, recorded, snapshot>>

\* A request that fails, a status other than 200, or a body that does not
\* parse: the pages fetched so far are dropped and the thread sleeps.
FetchFails ==
  /\ thread.pc = "fetch"
  /\ failures < MaxFailures
  /\ failures' = failures + 1
  /\ thread' = Sleeping
  /\ UNCHANGED <<listing, recorded, snapshot>>

\* process_transactions: the next transaction, in a database transaction of
\* its own, unless it is recorded already.
ProcessTx ==
  /\ thread.pc = "process"
  /\ thread.pos <= Len(thread.raw_transactions)
  /\ recorded' = recorded \cup {thread.raw_transactions[thread.pos]}
  /\ thread' = [thread EXCEPT !.pos = @ + 1]
  /\ UNCHANGED <<listing, failures, snapshot>>

PollEnds ==
  /\ thread.pc = "process"
  /\ thread.pos > Len(thread.raw_transactions)
  /\ thread' = Sleeping
  /\ UNCHANGED <<listing, recorded, failures, snapshot>>

\* The process dies and is started again; what is recorded is recorded.
CrashAndRestart ==
  /\ failures < MaxFailures
  /\ failures' = failures + 1
  /\ thread' = Sleeping
  /\ UNCHANGED <<listing, recorded, snapshot>>

\* What the thread does when nothing fails.
FetcherStep == StartPoll \/ FetchPage \/ ProcessTx \/ PollEnds

FetcherNext == ExecuteTx \/ FetcherStep \/ FetchFails \/ CrashAndRestart

\* The thread polls for ever, and a request is answered in the end.
FetcherSpec ==
  /\ FetcherInit /\ [][FetcherNext]_fetcherVars
  /\ WF_fetcherVars(FetcherStep)

----------------------------------------------------------------------------

\* No older transaction of listed is in raw before every newer one is.
FirstsInOrder(raw, listed) ==
  \A k \in DOMAIN raw : \A i, j \in DOMAIN listed :
    i < j /\ raw[k] = listed[j] => \E l \in 1 .. k - 1 : raw[l] = listed[i]

\* get_all_transaction_data returns every transaction that was listed when its
\* first page was read, first in the order of that listing, however the listing
\* grows between two pages.  It may repeat some, and return some of the newer
\* ones too, among the older ones, but nothing that was never listed.
FetchCoversListing ==
  thread.pc = "process" =>
    /\ ToSet(snapshot) \subseteq ToSet(thread.raw_transactions)
    /\ FirstsInOrder(thread.raw_transactions, snapshot)
    /\ ToSet(thread.raw_transactions) \subseteq ToSet(listing)

\* Every transaction the service lists is recorded in the end, in spite of
\* failed pages and of crashes that leave newer transactions recorded and
\* older ones not.
ListedTxsAreRecorded ==
  \A x \in Txs : (x \in ToSet(listing)) ~> (x \in recorded)

=============================================================================
