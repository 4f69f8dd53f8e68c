------------------------------- MODULE Coins -------------------------------
(***************************************************************************)
(* Which coins a Bitcoin transaction spends, and its fee and change:       *)
(* select_coins, sweep_amount and the size estimate of chains/coins.py,    *)
(* with the uses that cli.py and chains/btc.py make of them.               *)
(*                                                                         *)
(* Amounts are satoshis, sizes are virtual bytes, fee rates are tenths of  *)
(* a satoshi per virtual byte (the program has a float there).             *)
(***************************************************************************)
EXTENDS Integers, FiniteSets, FiniteSetsExt

CONSTANTS
    Coin,       \* the confirmed UTXOs
    Value,      \* their possible values
    Amount,     \* amounts to send
    Rate,       \* fee rates
    MemoLen,    \* lengths of the memo; 0 is a plain send without OP_RETURN
    PayeeVB     \* sizes of the output to the payee, by the type of its address

OP_RETURN_MAX_BYTES == 80
OP_PUSHDATA1 == 76
TX_OVERHEAD_VB == 11
P2WPKH_INPUT_VB == 68
P2WPKH_OUTPUT_VB == 31
DUST_P2WPKH == 294
\* The largest output of a payee: P2TR and P2WSH.  P2WPKH is 31, P2SH 32, P2PKH 34.
MAX_OUTPUT_VB == 43

VARIABLES
    value,      \* the value of each coin
    request,    \* [sweep, swap, amount, rate, memo, payee]: what is to be built
    chosen,     \* the coins taken so far
    total,      \* the sum of their values
    selection,  \* the transaction's send amount, fee and change
    pc          \* "select", "sweep", "selected" or "insufficient"

vars == <<value, request, chosen, total, selection, pc>>

ASSUME CoinsAssumption ==
    /\ IsFiniteSet(Coin) /\ Value \subseteq Nat \ {0} /\ Amount \subseteq Nat
    /\ Rate \subseteq Nat \ {0} /\ MemoLen \subseteq 0 .. OP_RETURN_MAX_BYTES
    /\ PayeeVB \subseteq 0 .. MAX_OUTPUT_VB

---------------------------------------------------------------------------
\* Sizes and fees

\* math.ceil(vsize * fee_rate)
FeeFor(vsize, rate) == (vsize * rate + 9) \div 10

\* The script that encode_op_return makes: opcode, push, data.
encode_op_return_len(n) == IF n < OP_PUSHDATA1 THEN 2 + n ELSE 3 + n

_op_return_vb(n) == 8 + 1 + 2 + n

\* Mutant: the OP_RETURN output is left out.
estimate_vsize_NoMemo(inputs, outputs, memo) ==
    TX_OVERHEAD_VB + inputs * P2WPKH_INPUT_VB + outputs * P2WPKH_OUTPUT_VB

estimate_vsize(inputs, outputs, memo) ==
    TX_OVERHEAD_VB + inputs * P2WPKH_INPUT_VB + outputs * P2WPKH_OUTPUT_VB
        + (IF memo = 0 THEN 0 ELSE _op_return_vb(memo))

\* sum(coin.value for coin in ...)
Sum(v, S) == MapThenSumSet(LAMBDA c : v[c], S)

NoSelection == [send |-> 0, fee |-> 0, change |-> 0]

---------------------------------------------------------------------------
\* select_coins

\* Mutant: smallest first.
NextCoins_Smallest == {c \in Coin \ chosen : \A d \in Coin \ chosen : value[c] <= value[d]}

\* The coin to be tried next is the largest one left; any of those of equal value.
NextCoins == {c \in Coin \ chosen : \A d \in Coin \ chosen : value[d] <= value[c]}

FeeWithChange(n) == FeeFor(estimate_vsize(n, 2, request.memo), request.rate)
FeeNoChange(n) == FeeFor(estimate_vsize(n, 1, request.memo), request.rate)

\* Mutant: the remainder is not part of the fee that is reported.
Decide_FeeNoRemainder(n, t) ==
    LET change == t - request.amount - FeeWithChange(n)
    IN  CASE change >= DUST_P2WPKH ->
                {[send |-> request.amount, fee |-> FeeWithChange(n), change |-> change]}
          [] change < DUST_P2WPKH /\ t >= request.amount + FeeNoChange(n) ->
                {[send |-> request.amount, fee |-> FeeNoChange(n), change |-> 0]}
          [] OTHER -> {}

\* Mutant: there is never a change output.
Decide_NoChange(n, t) ==
    IF t >= request.amount + FeeNoChange(n)
    THEN {[send |-> request.amount, fee |-> t - request.amount, change |-> 0]} ELSE {}

\* The Selection that n coins worth t allow: with change if the change is worth
\* keeping, else without, the remainder going to the fee; none if t is too small.
Decide(n, t) ==
    LET change == t - request.amount - FeeWithChange(n)
    IN  CASE change >= DUST_P2WPKH ->
                {[send |-> request.amount, fee |-> FeeWithChange(n), change |-> change]}
          [] change < DUST_P2WPKH /\ t >= request.amount + FeeNoChange(n) ->
                {[send |-> request.amount, fee |-> t - request.amount, change |-> 0]}
          [] OTHER -> {}

\* One round of the loop.
Take ==
    /\ pc = "select"
    /\ \E c \in NextCoins :
        LET found == Decide(Cardinality(chosen) + 1, total + value[c])
        IN  /\ chosen' = chosen \cup {c}
            /\ total' = total + value[c]
            /\ IF found = {} THEN UNCHANGED <<selection, pc>>
               ELSE pc' = "selected" /\ selection' \in found
    /\ UNCHANGED <<value, request>>

\* The loop runs out of coins: InsufficientFunds.
RunOut ==
    /\ pc = "select" /\ chosen = Coin
    /\ pc' = "insufficient"
    /\ UNCHANGED <<value, request, chosen, total, selection>>

---------------------------------------------------------------------------
\* sweep_amount

\* A swap is swept before its memo is known, so the longest memo is assumed;
\* a liquidity deposit and a plain send know theirs.
SweepMemo == IF request.swap THEN OP_RETURN_MAX_BYTES ELSE request.memo

\* Mutant: what is left is not looked at.
TooSmall_Never(send) == FALSE

TooSmall(send) == send < DUST_P2WPKH

\* sweep_amount, then build_unsigned_swap with sweep: every coin, no change.
Sweep ==
    LET all  == Sum(value, Coin)
        fee  == FeeFor(estimate_vsize(Cardinality(Coin), 1, SweepMemo), request.rate)
    IN  /\ pc = "sweep"
        /\ IF TooSmall(all - fee)
           THEN pc' = "insufficient" /\ UNCHANGED <<chosen, total, selection>>
           ELSE /\ chosen' = Coin /\ total' = all
                /\ selection' = [send |-> all - fee, fee |-> fee, change |-> 0]
                /\ pc' = "selected"
        /\ UNCHANGED <<value, request>>

---------------------------------------------------------------------------
RequestType == {r \in [sweep : BOOLEAN, swap : BOOLEAN, amount : Amount, rate : Rate,
                       memo : MemoLen, payee : PayeeVB] : r.swap => r.memo > 0}

Init ==
    /\ value \in [Coin -> Value]
    /\ request \in RequestType
    /\ chosen = {} /\ total = 0 /\ selection = NoSelection
    /\ pc = IF request.sweep THEN "sweep" ELSE "select"

Next == Take \/ RunOut \/ Sweep

Spec == Init /\ [][Next]_vars

---------------------------------------------------------------------------
\* Properties

\* Types of the variables.
TypeOK ==
    /\ value \in [Coin -> Value] /\ request \in RequestType
    /\ chosen \subseteq Coin /\ total \in Nat
    /\ selection \in [send : Nat, fee : Nat, change : Nat]
    /\ pc \in {"select", "sweep", "selected", "insufficient"}

\* The coins spent are the payment, the change and the fee that the gate is told:
\* no satoshi goes to the miners unseen by the fee cap.
Balanced ==
    pc = "selected" => Sum(value, chosen) = selection.send + selection.fee + selection.change

\* What is folded into the fee instead of being returned is less than dust and the
\* cost of a change output.
OverpayBounded ==
    pc = "selected" /\ selection.change = 0 /\ ~request.sweep =>
        selection.fee < FeeWithChange(Cardinality(chosen)) + DUST_P2WPKH

\* The coins of S can pay for the request.
Pays(S) == Sum(value, S) >= request.amount + FeeNoChange(Cardinality(S))

\* Largest first is complete and frugal: coins are found whenever some set of
\* coins can pay, and no smaller number of coins could.
FewestCoins ==
    /\ pc = "insufficient" /\ ~request.sweep => \A S \in (SUBSET Coin) \ {{}} : ~Pays(S)
    /\ pc = "selected" /\ ~request.sweep =>
            \A S \in (SUBSET Coin) \ {{}} : Pays(S) => Cardinality(S) >= Cardinality(chosen)

\* The size of the transaction that is built from the selection: the output that
\* the payee's address needs, the change, and the script that encode_op_return makes.
BuiltSize ==
    TX_OVERHEAD_VB + Cardinality(chosen) * P2WPKH_INPUT_VB + request.payee
        + (IF selection.change > 0 THEN P2WPKH_OUTPUT_VB ELSE 0)
        + (IF request.memo = 0 THEN 0 ELSE 8 + 1 + encode_op_return_len(request.memo))

\* The transaction pays at least nine tenths of the rate asked for, as it is built:
\* whatever script the payee's address stands for (the estimate takes it for P2WPKH),
\* with the PUSHDATA1 of long memos (the estimate has none), and whatever memo a
\* swept swap turns out to have.
FeeNearItsRate ==
    pc = "selected" => 100 * selection.fee >= 9 * (BuiltSize * request.rate)

---------------------------------------------------------------------------
\* The inductive invariant behind the properties

\* While coins are selected, those taken are the largest, and no set of coins
\* that is not larger can pay.
Greedy ==
    pc = "select" =>
        /\ \A c \in chosen, d \in Coin \ chosen : value[d] <= value[c]
        /\ \A S \in (SUBSET Coin) \ {{}} :
               Cardinality(S) <= Cardinality(chosen) => ~Pays(S)

CoinsInv ==
    /\ TypeOK
    /\ total = Sum(value, chosen)
    /\ pc = "select" => ~request.sweep
    /\ pc = "sweep" => request.sweep
    /\ Greedy
    /\ Balanced /\ OverpayBounded /\ FewestCoins /\ FeeNearItsRate

---------------------------------------------------------------------------
\* What a comment says, and the code does not do

\* "memo_len defaults to the maximum so the fee is never underestimated"
\* (coins.py sweep_amount).
FeeNeverUnderestimated ==
    pc = "selected" /\ request.sweep => selection.fee >= FeeFor(BuiltSize, request.rate)
===========================================================================
