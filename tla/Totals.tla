-------------------------------- MODULE Totals --------------------------------
(* A total, over any finite set of keys: what the pages and the ledger do      *)
(* with a loop or with reduce, in whatever order.                              *)
EXTENDS Integers, FiniteSetsExt

TotalOf(figure) == MapThenSumSet(LAMBDA k : figure[k], DOMAIN figure)
=============================================================================
