--------------------------- MODULE MCDestination ---------------------------
(***************************************************************************)
(* Instances of Destination, and with it of Keystore, for TLC.             *)
(***************************************************************************)
EXTENDS Destination, TLC

CONSTANTS main, raw, spare, s0, s1, s2, good, bad, b1

RawKey == [label |-> raw, kind |-> "raw", secret |-> s2, bip39 |-> None]
HdKey(l, s, b) == [label |-> l, kind |-> "hd", secret |-> s, bip39 |-> b]

\* A raw key before the first HD key, with a BIP-39 passphrase, in either version.
Existing(v) == [NoFile EXCEPT !.state = "whole", !.version = v, !.phrase = good,
                              !.entries = <<RawKey, HdKey(main, s0, b1)>>]
AnyFile == {NoFile, Existing(1), Existing(2)}

Cmd(op, force, phrase, e) == [op |-> op, force |-> force, phrase |-> phrase, entry |-> e]
Init_(force, phrase) == Cmd("init", force, phrase, RawKey)
Read == Cmd("read", FALSE, good, RawKey)

\* Creating with and without --force, adding keys with new and used labels,
\* reading, and a wrong passphrase.
AllCommands == {Init_(FALSE, good), Init_(FALSE, bad), Init_(TRUE, good), Read,
                Cmd("add", FALSE, good, HdKey(spare, s1, b1)),
                Cmd("add", FALSE, good, [RawKey EXCEPT !.label = spare]),
                Cmd("add", FALSE, good, HdKey(main, s1, None)),
                Cmd("add", FALSE, bad, RawKey)}

\* One command that only reads.
ReadOnly == {Read}
OldFile == {Existing(1)}

\* Nothing tells one invocation from another.
ProcSymmetry == Permutations(Proc)
===========================================================================
