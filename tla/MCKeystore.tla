----------------------------- MODULE MCKeystore -----------------------------
(***************************************************************************)
(* Instances of Keystore for TLC in which two invocations race.            *)
(***************************************************************************)
EXTENDS Keystore, TLC

CONSTANTS main, spare, s0, s1, s2, good, bad, b1

OldKey == [label |-> main, kind |-> "hd", secret |-> s0, bip39 |-> b1]
NewHd(l, b) == [label |-> l, kind |-> "hd", secret |-> s1, bip39 |-> b]
NewRaw(l) == [label |-> l, kind |-> "raw", secret |-> s2, bip39 |-> None]

Existing(v) == [NoFile EXCEPT !.state = "whole", !.version = v, !.phrase = good,
                              !.entries = <<OldKey>>]

Cmd(op, force, phrase, e) == [op |-> op, force |-> force, phrase |-> phrase, entry |-> e]
PlainInit(phrase) == Cmd("init", FALSE, phrase, OldKey)
AddHd == Cmd("add", FALSE, good, NewHd(spare, b1))

\* Two additions with different labels; two plain inits.
Additions == {AddHd, Cmd("add", FALSE, good, NewRaw(main))}
Inits == {PlainInit(good), PlainInit(bad)}
EmptyKeystore == {[Existing(2) EXCEPT !.entries = <<>>]}
NoKeystore == {NoFile}
===========================================================================
