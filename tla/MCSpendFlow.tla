---------------------------- MODULE MCSpendFlow ----------------------------
(***************************************************************************)
(* Instances of SpendFlow for TLC: which command lines are run together.   *)
(***************************************************************************)
EXTENDS SpendFlow

CONSTANTS d1, other

\* A memo that names the destination, one that pays somebody else, and one
\* that does not fit into an OP_RETURN.
MCMemo == {[id |-> "pays", names |-> {d1}, long |-> FALSE],
           [id |-> "other", names |-> {other}, long |-> FALSE],
           [id |-> "long", names |-> {d1}, long |-> TRUE]}
GoodMemo == {[id |-> "pays", names |-> {d1}, long |-> FALSE]}

BaseJob == [cmd |-> "swap", chain |-> "ETH", token |-> FALSE, sweep |-> FALSE,
            confirm |-> TRUE, yes |-> FALSE, amount |-> 4, dest |-> d1,
            backend |-> "thorchain"]

\* Every command on every chain, with and without token, sweep and flags.
AllJobs == {j \in [cmd : {"swap", "send", "add", "withdraw"}, chain : Chains,
                   token : BOOLEAN, sweep : BOOLEAN, confirm : BOOLEAN,
                   yes : BOOLEAN, amount : {3, 4}, dest : {d1, NoAddr},
                   backend : {"thorchain", "auto"}] :
              /\ j.token => j.chain # "BTC"
              /\ j.cmd \in {"add", "withdraw"} => j.backend = "thorchain"
              /\ j.cmd = "withdraw" => ~j.sweep
              /\ j.cmd = "send" => j.dest = d1
              /\ j.yes => j.confirm
              /\ j.amount = 3 => j.chain = "TRON"
              /\ j.dest = NoAddr => j.cmd = "swap"
              \* the flags are independent: not every combination is needed
              /\ j.sweep \/ j.amount = 3 \/ j.dest = NoAddr \/ j.backend = "auto" => j.yes
              /\ j.sweep \/ j.amount = 3 => j.backend = "thorchain" /\ j.dest = d1}

\* Token swaps of different sizes and a plain send, all from one ETH account.
EthJobs == {[BaseJob EXCEPT !.token = TRUE, !.yes = TRUE],
            [BaseJob EXCEPT !.token = TRUE, !.yes = TRUE, !.amount = 8],
            [BaseJob EXCEPT !.cmd = "send", !.yes = TRUE]}

\* Single command lines for the runs about one question.
NativeSwap == {[BaseJob EXCEPT !.yes = TRUE]}
TinyTokenSend == {[BaseJob EXCEPT !.cmd = "send", !.token = TRUE, !.yes = TRUE,
                                  !.amount = 1]}
TronSend == {[BaseJob EXCEPT !.cmd = "send", !.chain = "TRON", !.yes = TRUE]}
===========================================================================
