----------------------------- MODULE MCTablePage -----------------------------
(***************************************************************************)
(* Small instances for the page: two pairs to be matched, so that the      *)
(* second exceeds the limit of one row.                                    *)
(***************************************************************************)
EXTENDS TablePage, MCReserveAuditor

PageBlocks ==
  {Block(<< >>, <<Mint(tk1, 2, h1, {})>>, << >>),
   Block(<< >>, <<Mint(tk1, 2, h2, {})>>, << >>),
   Block(<< >>, <<Mint(tk2, 1, h1, {}), Mint(tk1, 2, h2, {})>>, << >>),
   Block(<< >>, << >>, <<Burn(tk1, 1, k1)>>),
   Block(<< >>, << >>, <<Burn(tk1, 2, k2)>>)}

PageApi ==
  [a \in {safe1} |->
     MintsApi[a] \cup {MultiSig(h1, safe1, usd, 10, k1), MultiSig(h3, safe1, usd, 20, k2)}]

\* As in MatchingSpec, a behaviour is about one side, and only the tables of
\* that side are answered, unless there is nothing to show at all.
OneSidePage ==
  \/ MintSide /\ DOMAIN page.answers \subseteq MintTables
  \/ BurnSide /\ DOMAIN page.answers \subseteq BurnTables
  \/ MintSide /\ BurnSide /\ page.from = EmptyDb

TablePageSpec == PageInit /\ [][PageNext /\ OneSidePage']_pageVars

=============================================================================
