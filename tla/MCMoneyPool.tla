---------------------------- MODULE MCMoneyPool ----------------------------
(* Instances of MoneyPool for TLC: two joins, a purse of a few cats.       *)
EXTENDS MoneyPool

Trades2 == {-2, 1}
=============================================================================
