------------------------------- MODULE Gates -------------------------------
(***************************************************************************)
(* The pre-broadcast verify gates of verify.py and chains/eth.py.  A gate  *)
(* compares a built, still unsigned transaction with the plan made from    *)
(* the quote (or from the command line) and is TRUE when the program's     *)
(* list of problems is empty.                                              *)
(*                                                                         *)
(* Transactions are decoded records.  A Bitcoin transaction is             *)
(*   [outs |-> sequence of outputs, fee |-> satoshis, ...]                 *)
(* with outputs [addr, value, data, memo]; data = TRUE marks an OP_RETURN. *)
(* An ETH or TRON transaction is                                           *)
(*   [fn, to, payee, amount, value, memo, expiry, chainId, fee, ...]       *)
(* where fn is the contract function its call data decodes to ("none" for  *)
(* a native transfer), payee and amount are the decoded arguments of that  *)
(* function, and value is the native coin that rides along.                *)
(*                                                                         *)
(* A memo is [id, names, long]: the addresses that occur in its text, and  *)
(* whether it exceeds the 80 bytes of an OP_RETURN.                        *)
(***************************************************************************)
EXTENDS Integers

CONSTANTS NoAddr,   \* the empty string / None where an address is expected
          MainNet   \* the chain id EthSwapPlan and the token gate expect

\* The empty memo: falsy, and what a plain send carries.
NoMemo == [id |-> "none", names |-> {}, long |-> FALSE]

\* Mutant: the memo of the quote is trusted.
memo_pays_destination_Trusted(destination, memo) == TRUE

\* The destination occurs in the memo (an empty destination always passes).
memo_pays_destination(destination, memo) ==
    destination = NoAddr \/ destination \in memo.names

---------------------------------------------------------------------------
\* Bitcoin

OutsTo(tx, addr) == {i \in DOMAIN tx.outs : tx.outs[i].addr = addr}
DataOuts(tx) == {i \in DOMAIN tx.outs : tx.outs[i].data}

\* Exactly one output pays addr, and it pays exactly amount.
OneOutTo(tx, addr, amount) ==
    \E i \in DOMAIN tx.outs : /\ OutsTo(tx, addr) = {i}
                              /\ tx.outs[i].value = amount

\* Everything that is neither the payment nor data returns to the wallet.
ChangeIsOwned(tx, addr, owned) ==
    \A i \in DOMAIN tx.outs \ (OutsTo(tx, addr) \cup DataOuts(tx)) :
        tx.outs[i].addr \in owned

verify_btc_swap(tx, plan, owned, now, max_fee) ==
    /\ now < plan.expiry
    /\ OneOutTo(tx, plan.payee, plan.amount)
    /\ \E i \in DOMAIN tx.outs : /\ DataOuts(tx) = {i}
                                 /\ ~tx.outs[i].memo.long
                                 /\ tx.outs[i].memo = plan.memo
    /\ ChangeIsOwned(tx, plan.payee, owned)
    /\ memo_pays_destination(plan.destination, plan.memo)
    /\ tx.fee \in 0 .. max_fee

verify_btc_send(tx, plan, owned, max_fee) ==
    /\ OneOutTo(tx, plan.payee, plan.amount)
    /\ DataOuts(tx) = {}
    /\ ChangeIsOwned(tx, plan.payee, owned)
    /\ tx.fee \in 0 .. max_fee

---------------------------------------------------------------------------
\* Ethereum.  Addresses are compared case-insensitively: one model value
\* stands for all spellings of an address.

verify_eth_swap(tx, plan, now, max_fee) ==
    /\ now < plan.expiry
    /\ tx.to = plan.payee
    /\ tx.value = plan.amount
    /\ tx.memo = plan.memo
    /\ tx.chainId = MainNet
    /\ memo_pays_destination(plan.destination, plan.memo)
    /\ tx.fee <= max_fee

verify_eth_send(tx, plan, max_fee) ==
    /\ tx.to = plan.payee
    /\ tx.value = plan.amount
    /\ tx.memo = NoMemo
    /\ tx.chainId = plan.chainId
    /\ tx.fee <= max_fee

verify_eth_token_send(tx, plan, max_fee) ==
    /\ tx.to = plan.token
    /\ tx.value = 0
    /\ tx.fn = "transfer"
    /\ tx.payee = plan.payee
    /\ tx.amount = plan.amount
    /\ tx.chainId = plan.chainId
    /\ tx.fee <= max_fee

\* Mutant: the cap is applied to each of the two fees.
verify_eth_token_swap_FeeEach(approve, deposit, plan, now, max_fee) ==
    /\ now < plan.expiry
    /\ memo_pays_destination(plan.destination, deposit.memo)
    /\ approve.fee <= max_fee /\ deposit.fee <= max_fee

\* The two transactions of an ERC-20 deposit: approve, then the router call.
verify_eth_token_swap(approve, deposit, plan, now, max_fee) ==
    /\ now < plan.expiry
    /\ approve.to = plan.token /\ deposit.to = plan.router
    /\ approve.value = 0 /\ deposit.value = 0
    /\ approve.chainId = MainNet /\ deposit.chainId = MainNet
    /\ approve.fn = "approve"
    /\ approve.payee = plan.router
    /\ approve.amount = plan.amount
    /\ deposit.fn = "depositWithExpiry"
    /\ deposit.payee = plan.payee
    /\ deposit.token = plan.token
    /\ deposit.amount = plan.amount
    /\ deposit.memo = plan.memo
    /\ deposit.expiry = plan.expiry
    /\ memo_pays_destination(plan.destination, deposit.memo)
    /\ approve.fee + deposit.fee <= max_fee

---------------------------------------------------------------------------
\* TRON.  fn = "none" is a TransferContract, anything else a
\* TriggerSmartContract; fees are charged separately and are not checked.

verify_tron_swap(tx, plan, now) ==
    /\ now < plan.expiry
    /\ tx.fn = "none"
    /\ tx.to = plan.payee
    /\ tx.value = plan.amount
    /\ tx.memo = plan.memo
    /\ memo_pays_destination(plan.destination, plan.memo)

verify_tron_token_swap(tx, plan, now) ==
    /\ now < plan.expiry
    /\ tx.fn = "transfer"
    /\ tx.to = plan.token
    /\ tx.payee = plan.payee
    /\ tx.amount = plan.amount
    /\ tx.value = 0
    /\ tx.memo = plan.memo
    /\ memo_pays_destination(plan.destination, plan.memo)

verify_tron_send(tx, plan) ==
    /\ tx.fn = "none"
    /\ tx.to = plan.payee
    /\ tx.value = plan.amount
    /\ tx.memo = NoMemo

verify_tron_token_send(tx, plan) ==
    /\ tx.fn = "transfer"
    /\ tx.to = plan.token
    /\ tx.payee = plan.payee
    /\ tx.amount = plan.amount
    /\ tx.value = 0
    /\ tx.memo = NoMemo
===========================================================================
