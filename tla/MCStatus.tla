------------------------------ MODULE MCStatus ------------------------------
(***************************************************************************)
(* The two networks of the wallet, and a hash given with and without 0x.   *)
(***************************************************************************)
EXTENDS Status

CONSTANTS thorchain, maya, h1, h2

MCOrder == <<thorchain, maya>>
MCArgs == {[backend |-> be, txid |-> [prefix |-> p, hash |-> h1]] :
                be \in {"auto", maya}, p \in {"", "0x", "0X"}}
===========================================================================
