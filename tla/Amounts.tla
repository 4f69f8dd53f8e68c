------------------------------ MODULE Amounts ------------------------------
(***************************************************************************)
(* The way of an amount through one spending command: the text after       *)
(* --amount (or "max"), THORChain's 1e8 base units, the native units of    *)
(* the asset, the transaction, and what the account is charged.  Between   *)
(* the reading of the fees, the reading of the balance and the inclusion   *)
(* of the transaction the chain's base fee moves and payments arrive.      *)
(* A token transaction is paid for in the chain's own coin, of which the   *)
(* program reads nothing before it posts.                                  *)
(*                                                                         *)
(* A typed amount is an integer number of 10^-Frac base units; what is not *)
(* a positive number is an amount <= 0.  Sweeps of BTC are in Coins.tla.   *)
(***************************************************************************)
EXTENDS Integers

CONSTANTS
    Typed,      \* amounts that are typed
    Frac,       \* digits a typed amount has below one base unit
    Prec,       \* significant digits of a Decimal operation (28)
    Balance,    \* balances and payments, in native units
    BaseFee,    \* base fees of the ETH chain
    Tip,        \* eth_maxPriorityFeePerGas
    Gas,        \* gas limit of the transaction
    MaxFeeWei,  \* ETH_MAX_FEE_WEI
    WeiPerUnit, \* WEI_PER_THORCHAIN_UNIT
    Unit,       \* base units per native unit of a 6-decimal asset (100)
    TronCost,   \* TRX that bandwidth and energy may cost, in sun
    FeeLimit    \* DEFAULT_TRC20_FEE_LIMIT_SUN

VARIABLES
    job,        \* [asset, sweep, typed]: the command line
    balance,    \* the account's balance of the asset, in native units
    coin,       \* its balance of the chain's own coin, if the asset is a token
    baseFee,    \* the base fee of the next block
    maxFee,     \* max_fee_per_gas of fetch_fees
    seen,       \* the balance that was read
    amount,     \* 1e8 base units
    native,     \* native units in the transaction
    pc

vars == <<job, balance, coin, baseFee, maxFee, seen, amount, native, pc>>

Assets == {"BTC", "ETH", "ERC20", "TRX", "TRC20"}
Tokens == {"ERC20", "TRC20"}
\* --amount max is there for ETH and the tokens (and for BTC, see above).
JobType == {j \in [asset : Assets, sweep : BOOLEAN, typed : Typed \cup {0}] :
                j.sweep => j.asset \in {"ETH"} \cup Tokens /\ j.typed = 0}

ASSUME AmountsAssumption ==
    /\ Typed \subseteq Int /\ Frac \in Nat /\ Prec \in Nat \ {0}
    /\ Balance \subseteq Nat /\ BaseFee \subseteq Nat
    /\ Tip \in Nat /\ Gas \in Nat /\ MaxFeeWei \in Nat
    /\ WeiPerUnit \in Nat \ {0} /\ Unit \in Nat \ {0}
    /\ TronCost \subseteq Nat /\ FeeLimit \in Nat

---------------------------------------------------------------------------
\* Decimal arithmetic

RoundHalfEven(n, m) ==
    LET q == n \div m
        r == n % m
    IN  IF 2 * r > m \/ (2 * r = m /\ q % 2 = 1) THEN q + 1 ELSE q

\* Powers of ten.
Pow10[k \in 0 .. Prec + Frac] == IF k = 0 THEN 1 ELSE 10 * Pow10[k - 1]

\* A typed amount is less than 10^Prec base units (there are not 10^28 base units
\* of any coin).
ASSUME TypedAssumption == \A n \in Typed : n < Pow10[Prec + Frac]

Digits(n) == CHOOSE k \in 1 .. Prec + Frac : Pow10[k - 1] <= n /\ n < Pow10[k]

\* Mutant: the product has the precision of a float.
Scaled_Float(n) == RoundHalfEven(n, Pow10[Frac + 1]) * Pow10[Frac + 1]

\* amount * THORCHAIN_UNIT is rounded to the precision of the context.
Scaled(n) ==
    IF n < Pow10[Prec] THEN n
    ELSE LET m == Pow10[Digits(n) - Prec] IN RoundHalfEven(n, m) * m

\* The type of --amount: positive, and at least one base unit.
_amount(n) == n > 0 /\ Scaled(n) >= Pow10[Frac]

_base_units(n) == RoundHalfEven(Scaled(n), Pow10[Frac])

---------------------------------------------------------------------------
\* Sweeps and native units

\* Mutant: the fee is not reserved.
eth_sweep_sendable_All(wei, fee) == wei

\* The part of an ETH balance that a sweep may send.
eth_sweep_sendable(wei, fee) == wei - Gas * fee

\* InsufficientFunds.
NothingToSweep(n) == n <= 0

\* sendable // WEI_PER_THORCHAIN_UNIT
ToUnits(wei) == wei \div WeiPerUnit

\* Mutant: the token is taken to have eight decimals.
token_sweep_amount_Eight(bal) == bal

token_sweep_amount(bal) == bal * Unit

\* What is put into the transaction.
Native(asset, a) == CASE asset = "BTC" -> a
                      [] asset = "ETH" -> a * WeiPerUnit
                      [] OTHER -> a \div Unit

---------------------------------------------------------------------------
\* The command

Evm == {"ETH", "ERC20"}

\* argparse: "--amount max", or a number.
ParseAmount ==
    /\ pc = "parse"
    /\ pc' = CASE ~job.sweep /\ ~_amount(job.typed) -> "usage"
               [] (job.sweep \/ _amount(job.typed)) /\ job.asset \in Evm -> "fees"
               [] OTHER -> "amount"
    /\ UNCHANGED <<job, balance, coin, baseFee, maxFee, seen, amount, native>>

\* fetch_fees: twice the base fee and the tip.
FetchFees ==
    /\ pc = "fees"
    /\ maxFee' = 2 * baseFee + Tip
    /\ pc' = "amount"
    /\ UNCHANGED <<job, balance, coin, baseFee, seen, amount, native>>

\* eth_sweep_amount, token_sweep_amount (both InsufficientFunds) or _base_units.
ComputeAmount ==
    LET sendable == eth_sweep_sendable(balance, maxFee)
    IN  /\ pc = "amount"
        /\ seen' = balance
        /\ \/ /\ ~job.sweep
              /\ amount' = _base_units(job.typed) /\ pc' = "build"
           \/ /\ job.sweep /\ job.asset = "ETH"
              /\ IF NothingToSweep(sendable) THEN pc' = "aborted" /\ UNCHANGED amount
                 ELSE amount' = ToUnits(sendable) /\ pc' = "build"
           \/ /\ job.sweep /\ job.asset # "ETH"
              /\ IF NothingToSweep(balance) THEN pc' = "aborted" /\ UNCHANGED amount
                 ELSE amount' = token_sweep_amount(balance) /\ pc' = "build"
        /\ UNCHANGED <<job, balance, coin, baseFee, maxFee, native>>

\* Mutant: the base fee of the moment is looked at, not what may be charged.
OverCap_BaseFee == Gas * baseFee > MaxFeeWei

\* The fee cap of the verify gates.
OverCap == Gas * maxFee > MaxFeeWei

\* The conversion (to_sun and to_token_native raise on a remainder) and the gate.
BuildTx ==
    /\ pc = "build"
    /\ IF job.asset \in {"TRX", "TRC20"} /\ amount % Unit # 0
       THEN pc' = "remainder" /\ UNCHANGED native
       ELSE /\ native' = Native(job.asset, amount)
            /\ pc' = IF job.asset \in Evm /\ OverCap THEN "aborted"
                     ELSE "post"
    /\ UNCHANGED <<job, balance, coin, baseFee, maxFee, seen, amount>>

\* What the fee takes from the asset itself: only ETH pays for its own gas.
Reserve == IF job.asset = "ETH" THEN Gas * maxFee ELSE 0

\* The account has too little of the chain's own coin for a token transaction.
CoinShort ==
    \/ job.asset = "ERC20" /\ coin < Gas * maxFee
    \/ job.asset = "TRC20" /\ \E k \in TronCost : coin < k

\* What a node may do with the transaction.  Of a token it looks only at the coin
\* that pays the fee (TRON may take the transaction nevertheless and let it run out
\* of energy); of anything else at the balance.
NodeAnswers ==
    CASE job.asset = "ERC20" -> IF CoinShort THEN {"rejected"} ELSE {"pending"}
      [] job.asset = "TRC20" -> IF CoinShort THEN {"rejected", "pending"} ELSE {"pending"}
      [] OTHER -> IF balance >= native + Reserve THEN {"pending"} ELSE {"rejected"}

PostTx ==
    /\ pc = "post"
    /\ pc' \in NodeAnswers
    /\ UNCHANGED <<job, balance, coin, baseFee, maxFee, seen, amount, native>>

\* The price of gas in the block: the base fee and the tip, at most max_fee_per_gas.
GasPrice == IF baseFee + Tip < maxFee THEN baseFee + Tip ELSE maxFee

Least(x, y) == IF x < y THEN x ELSE y

\* A block includes it, if it is of an EVM chain while the base fee is not above
\* max_fee_per_gas.  A token transaction without the tokens, or on TRON without the
\* energy, reverts: the fee is gone and the tokens stay.
Mine ==
    /\ pc = "pending"
    /\ \/ /\ job.asset = "BTC"
          /\ balance' = balance - native /\ pc' = "mined"
          /\ UNCHANGED coin
       \/ /\ job.asset = "ETH" /\ baseFee <= maxFee
          /\ balance' = balance - native - Gas * GasPrice /\ pc' = "mined"
          /\ UNCHANGED coin
       \/ /\ job.asset = "ERC20" /\ baseFee <= maxFee
          /\ coin' = coin - Gas * GasPrice
          /\ \/ balance >= native /\ balance' = balance - native /\ pc' = "mined"
             \/ balance < native /\ UNCHANGED balance /\ pc' = "reverted"
       \/ \E k \in TronCost \cup {0} :
          \/ /\ job.asset = "TRX" /\ balance >= native + k
             /\ balance' = balance - native - k /\ pc' = "mined"
             /\ UNCHANGED coin
          \/ /\ job.asset = "TRC20"
             /\ coin' = coin - Least(k, Least(coin, FeeLimit))
             /\ IF k <= coin /\ k <= FeeLimit /\ balance >= native
                THEN balance' = balance - native /\ pc' = "mined"
                ELSE UNCHANGED balance /\ pc' = "reverted"
    /\ UNCHANGED <<job, baseFee, maxFee, seen, amount, native>>

Done == {"usage", "aborted", "remainder", "rejected", "mined", "reverted"}

\* The base fee moves.
BaseFeeMoves ==
    /\ pc \notin Done
    /\ baseFee' \in BaseFee
    /\ UNCHANGED <<job, balance, coin, maxFee, seen, amount, native, pc>>

\* Somebody pays into the account; bound: until its balance leaves Balance.
\* (Other invocations that spend from it are in SpendFlow.tla.)
PaymentArrives ==
    /\ pc \notin Done
    /\ \E b \in Balance :
        \/ balance \in Balance /\ balance' = balance + b /\ UNCHANGED coin
        \/ job.asset \in Tokens /\ coin \in Balance /\ coin' = coin + b /\ UNCHANGED balance
    /\ UNCHANGED <<job, baseFee, maxFee, seen, amount, native, pc>>

Init ==
    /\ job \in JobType
    /\ balance \in Balance /\ baseFee \in BaseFee
    /\ coin \in IF job.asset \in Tokens THEN Balance ELSE {0}
    /\ maxFee = 0 /\ seen = 0 /\ amount = 0 /\ native = 0
    /\ pc = "parse"

Next == \/ ParseAmount \/ FetchFees \/ ComputeAmount \/ BuildTx \/ PostTx \/ Mine
        \/ BaseFeeMoves \/ PaymentArrives

Spec == Init /\ [][Next]_vars

---------------------------------------------------------------------------
\* Properties

\* Types of the variables.
TypeOK ==
    /\ job \in JobType /\ balance \in Nat /\ coin \in Nat /\ baseFee \in Nat /\ maxFee \in Nat
    /\ seen \in Nat /\ amount \in Nat /\ native \in Nat
    /\ pc \in {"parse", "fees", "amount", "build", "post", "pending"} \cup Done

Computed == pc \in {"build", "remainder", "post", "pending", "rejected", "mined", "reverted"}

\* A typed amount is never a whole base unit off, and never becomes nothing,
\* although it is rounded twice: to the precision of a Decimal and to an integer
\* (cli.py _amount and _base_units).
CloseToTyped ==
    Computed /\ ~job.sweep =>
        /\ amount > 0
        /\ amount * Pow10[Frac] - job.typed < Pow10[Frac]
        /\ job.typed - amount * Pow10[Frac] < Pow10[Frac]

\* The transaction has passed the gate.
Built == {"post", "pending", "rejected", "mined", "reverted"}

\* "max" means max: a token sweep sends all that was read, and an ETH sweep
\* leaves the worst-case fee and less than one base unit (coins.py
\* token_sweep_amount, eth.py eth_sweep_amount).
SweepComplete ==
    pc \in Built /\ job.sweep =>
        IF job.asset = "ETH" THEN seen - (native + Gas * maxFee) < WeiPerUnit
        ELSE native = seen

\* A sweep is never too large, whatever the base fee does after it was read.  An
\* ETH sweep is taken and mined ("the deposit always leaves enough wei to pay the
\* L1 fee", eth.py eth_sweep_amount).  A token sweep is turned away only for want of
\* the chain's own coin, of which the program only warns (cli.py _send_tron); once
\* taken it has the tokens it sends, and only TRON's energy can fail it.
SweepAffordable ==
    job.sweep => /\ pc = "rejected" => CoinShort
                 /\ pc \in {"pending", "reverted"} => balance >= native + Reserve
                 /\ pc = "reverted" => job.asset = "TRC20"

\* No transaction costs more than ETH_MAX_FEE_WEI, or on TRON the fee limit of a
\* token transfer, at whatever price it is mined.
FeeWithinCap ==
    [][pc = "pending" /\ pc' \in {"mined", "reverted"} =>
            /\ job.asset = "ETH" => balance - balance' - native <= MaxFeeWei
            /\ job.asset = "ERC20" => coin - coin' <= MaxFeeWei
            /\ job.asset = "TRC20" => coin - coin' <= FeeLimit]_vars

---------------------------------------------------------------------------
\* The inductive invariant behind the sweep properties

\* A typed amount was accepted; what a sweep computed is what it read, which is
\* still there.
SweepInv ==
    /\ pc \in {"fees", "amount"} /\ ~job.sweep => _amount(job.typed)
    /\ pc \in {"build", "post", "pending"} /\ job.sweep => seen <= balance
    /\ pc \in {"build"} \cup Built /\ job.sweep =>
        /\ amount = IF job.asset = "ETH" THEN ToUnits(seen - Reserve) ELSE seen * Unit
        /\ seen - Reserve >= 0
    /\ pc \in Built =>
        /\ native = Native(job.asset, amount)
        /\ job.asset \in Evm => Gas * maxFee <= MaxFeeWei
    /\ pc = "pending" =>
        /\ job.asset \notin Tokens => balance >= native + Reserve
        /\ job.asset = "ERC20" => coin >= Gas * maxFee
    /\ pc = "rejected" /\ job.sweep => CoinShort
    /\ pc = "reverted" /\ job.sweep => balance >= native + Reserve /\ job.asset = "TRC20"

AmountInv == TypeOK /\ SweepInv
===========================================================================
