----------------------------- MODULE MCBalance -----------------------------
(***************************************************************************)
(* Two chains, one scanned for addresses and one with tokens, and the two  *)
(* networks of the wallet.                                                 *)
(***************************************************************************)
EXTENDS Balance

CONSTANTS btc, eth, thorchain, maya

MCChains == <<btc, eth>>
MCBackends == <<thorchain, maya>>
===========================================================================
