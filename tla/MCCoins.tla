------------------------------ MODULE MCCoins ------------------------------
(***************************************************************************)
(* An instance of Coins for TLC.  With one input and no memo the fee at    *)
(* one satoshi per vbyte is 110 without and 141 with change, so that       *)
(* paying 100 meets its limits at 210 (exactly enough), 534 and 535 (dust  *)
(* change and change worth keeping).                                       *)
(***************************************************************************)
EXTENDS Coins, TLC

\* Coins have no other property than their value.
CoinSymmetry == Permutations(Coin)
===========================================================================
