---------------------------- MODULE Destination ----------------------------
(***************************************************************************)
(* Which addresses the wallet receives at: the key a command selects from  *)
(* the keystore (_load_mnemonic), the addresses it derives from that key   *)
(* (the adapters' derive_address), what `address` shows, and where a swap  *)
(* pays out (_resolve_destination with validate_destination_address).      *)
(*                                                                         *)
(* It extends Keystore: between the command that receives and the command  *)
(* that spends, other invocations add keys, are interrupted, rewrite a     *)
(* version 1 file as version 2, or lose power.  An address is the secret,  *)
(* the BIP-39 passphrase and the path it is derived from.                  *)
(***************************************************************************)
EXTENDS Keystore

CONSTANTS
    First,      \* no --key: the first HD key
    Target,     \* chains that are swapped to
    Form        \* forms of typed addresses

VARIABLE resolved   \* what each invocation came to: [kind, key, place, to, addrs]

dvars == <<vars, resolved>>

DerivableChains == {"BTC", "ETH", "TRON"}
TargetChains == DerivableChains \cup {"LTC", "DOGE", "BCH", "DASH"}

Pending == [kind |-> "pending", key |-> First, place |-> 0, to |-> "none",
            form |-> "none", addrs |-> {}]

---------------------------------------------------------------------------
\* Keys and addresses

\* The HD keys that --key names; without --key, every HD key.
Matches(entries, key) ==
    {i \in DOMAIN entries : entries[i].kind = "hd" /\ key \in {First, entries[i].label}}

\* _load_mnemonic takes the first of them: the place it has in the keystore.
Selected(entries, key) ==
    {i \in Matches(entries, key) : \A j \in Matches(entries, key) : i <= j}

\* The receive path of each chain; BSC is an EVM chain and shares ETH's.
PathOf(chain) == CASE chain = "BTC" -> "m/84'/0'/0'/0/0"
                   [] chain \in {"ETH", "BSC"} -> "m/44'/60'/0'/0/0"
                   [] OTHER -> "m/44'/195'/0'/0/0"

\* Mutant: the passphrase is left out of the derivation.
derive_address_NoPassphrase(e, path) == [secret |-> e.secret, bip39 |-> None, path |-> path]

derive_address(e, path) == [secret |-> e.secret, bip39 |-> e.bip39, path |-> path]

\* The paths a command can sign for: the scanned account's on BTC, one elsewhere.
SignPaths(chain) ==
    IF chain = "BTC" THEN {"m/84'/0'/0'/0/0", "m/84'/0'/0'/0/1", "m/84'/0'/0'/1/0"}
    ELSE {PathOf(chain)}

\* What the adapters sign with: the mnemonic and the passphrase they were given.
Signs(e, path) == [secret |-> e.secret, bip39 |-> e.bip39, path |-> path]

---------------------------------------------------------------------------
\* Typed destinations

\* Forms of addresses: lower-case and upper-case bech32 (or cashaddr), base58,
\* hexadecimal, and what is no address at all.
Forms == {"bech32", "BECH32", "base58", "hex", "junk"}

ASSUME DestinationAssumption == Target \subseteq TargetChains /\ Form \subseteq Forms

\* _RULES: the forms each chain's pattern matches.
Rules(chain) == CASE chain \in {"BTC", "LTC", "BCH"}   -> {"bech32", "base58"}
                  [] chain \in {"DOGE", "DASH", "TRON"} -> {"base58"}
                  [] OTHER -> {"hex"}

validate_destination_address(chain, form) == form \in Rules(chain)

---------------------------------------------------------------------------
\* Commands that have read the keystore

Reader(p) == pc[p] = "done" /\ cmd[p].op = "read" /\ resolved[p].kind = "pending"

Result(p, r) == resolved' = [resolved EXCEPT ![p] = r] /\ UNCHANGED vars

\* "no matching HD key in keystore".
NoKey(p) ==
    /\ Reader(p)
    /\ \E key \in Label \cup {First} :
        /\ Selected(keystore[p], key) = {}
        /\ Result(p, [Pending EXCEPT !.kind = "nokey", !.key = key])

\* The key at place i, and the addresses it derives on some chains.
Answer(p, kind, key, i, to, chains) ==
    [Pending EXCEPT !.kind = kind, !.key = key, !.place = i, !.to = to,
        !.addrs = {<<c, derive_address(keystore[p][i], PathOf(c))>> : c \in chains}]

\* cmd_address: one address for each chain.
ShowAddress(p) ==
    /\ Reader(p)
    /\ \E key \in Label \cup {First} : \E i \in Selected(keystore[p], key) :
        Result(p, Answer(p, "shown", key, i, "none", DerivableChains \cup {"BSC"}))

\* _resolve_destination without --dest: derived from the key that pays, or, on
\* a chain the wallet has no keys for, "a --dest address is required".
DeriveDestination(p) ==
    /\ Reader(p)
    /\ \E key \in Label \cup {First} : \E i \in Selected(keystore[p], key) :
        \E to \in Target :
            Result(p, IF to \in DerivableChains THEN Answer(p, "derived", key, i, to, {to})
                      ELSE Answer(p, "required", key, i, to, {}))

\* _resolve_destination with --dest: taken as typed, or SystemExit.
TypedDestination(p) ==
    /\ Reader(p)
    /\ \E key \in Label \cup {First} : Selected(keystore[p], key) # {}
    /\ \E to \in Target, form \in Form :
        Result(p, [Pending EXCEPT !.to = to, !.form = form,
            !.kind = IF validate_destination_address(to, form) THEN "typed" ELSE "refused"])

---------------------------------------------------------------------------
DInit == Init /\ resolved = [p \in Proc |-> Pending]

DStep(p) == NoKey(p) \/ ShowAddress(p) \/ DeriveDestination(p) \/ TypedDestination(p)

DNext == (Next /\ UNCHANGED resolved) \/ \E p \in Proc : DStep(p)

DSpec == DInit /\ [][DNext]_dvars

---------------------------------------------------------------------------
\* Properties

\* The addresses a later command with the same --key can sign for.
Spendable(key, chain) ==
    LET entries == Loaded(file)
    IN  {Signs(entries[i], path) : i \in Selected(entries, key), path \in SignPaths(chain)}

\* Funds sent to an address that the wallet derived from one of the keys of the
\* keystore stay within reach of the same command line, whatever is added,
\* interrupted or rewritten in between ("or an auto-derived --dest would pay an
\* address the user cannot spend", cli.py _resolve_destination).
FundsStaySpendable ==
    original.state = "whole" /\ ~Recreated =>
        \A p \in Proc : resolved[p].place \in DOMAIN original.entries =>
            \A a \in resolved[p].addrs : a[2] \in Spendable(resolved[p].key, a[1])

---------------------------------------------------------------------------
\* What a comment says, and the code does not do

\* The forms that are valid: BIP-173 and cashaddr allow all upper case.
ValidForms(chain) == IF "bech32" \in Rules(chain) THEN Rules(chain) \cup {"BECH32"}
                     ELSE Rules(chain)

\* "Rules are kept permissive so a valid address is never rejected" (addresses.py).
ValidNeverRejected ==
    \A p \in Proc :
        resolved[p].kind = "refused" => resolved[p].form \notin ValidForms(resolved[p].to)

---------------------------------------------------------------------------
\* The inductive invariant behind FundsStaySpendable

\* What a command has read begins with the original keys, as they derive.
ReadInv ==
    original.state = "whole" /\ ~Recreated =>
        \A p \in Proc : pc[p] = "done" /\ cmd[p].op = "read" => Keeps(keystore[p])

\* What was derived from an original key is what that key derives.
ResolvedInv ==
    /\ DOMAIN resolved = Proc
    /\ original.state = "whole" /\ ~Recreated =>
        \A p \in Proc : resolved[p].place \in DOMAIN original.entries =>
            /\ resolved[p].place \in Selected(Derived(original), resolved[p].key)
            /\ \A a \in resolved[p].addrs :
                    a[2] = Signs(Derived(original)[resolved[p].place], PathOf(a[1]))
===========================================================================
