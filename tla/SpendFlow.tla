----------------------------- MODULE SpendFlow -----------------------------
(***************************************************************************)
(* Every command of the wallet that can move money - swap, send,           *)
(* add-liquidity and withdraw-liquidity from BTC, ETH (and ERC-20) or TRON *)
(* (and TRC-20) - as a process of its own.  A process is one invocation of *)
(* the program.  It reads the account, picks a backend, reads the clock,   *)
(* asks the backend for its status and for a quote, builds the             *)
(* transactions and checks them with the verify gate, asks the user, looks *)
(* at the clock again, signs, and posts the signed transactions in turn.   *)
(* Every step that waits for the network or for the user is an action, so  *)
(* that other invocations, the clock and the network move in between.      *)
(*                                                                         *)
(* The invocations share one account, and nothing else: there is no lock.  *)
(***************************************************************************)
EXTENDS Gates, Sequences

CONSTANTS
    Proc,         \* invocations of the program
    Job,          \* the command lines that are run (records, see JobType)
    Backend,      \* swap networks (thorchain, maya)
    Vault,        \* inbound addresses of the networks
    Dest,         \* addresses a user pays or swaps to
    Router,       \* the router contract of a quote for an ERC-20
    Token,        \* the token contract
    Own,          \* the wallet's own (change) address
    Coin,         \* the wallet's confirmed UTXOs
    Memo,         \* memos a swap quote may carry
    Lifetime,     \* seconds a quote is valid for when it arrives
    MinAmount,    \* recommended_min_amount_in values of quotes
    Fee,          \* fees the chains may ask
    MaxFee,       \* --max-fee, ETH_MAX_FEE_WEI
    Balance,      \* amounts a sweep may find
    DustThreshold,\* dust_threshold of inbound_addresses
    DepositLife,  \* lifetime of a liquidity plan (3600 s)
    Unit,         \* 1e8 base units per native unit of a 6-decimal asset (100)
    WeiPerUnit,   \* WEI_PER_THORCHAIN_UNIT
    ZeroFirst,    \* the token refuses to change a non-zero allowance (USDT)
    Reply,        \* what comes back for a transaction that the node has not taken
    MaxTime,      \* bound on the clock
    NoExpiry      \* a plan without an expiry attribute

Chains == {"BTC", "ETH", "TRON"}
JobType == [cmd : {"swap", "send", "add", "withdraw"}, chain : Chains,
            token : BOOLEAN, sweep : BOOLEAN, confirm : BOOLEAN,
            yes : BOOLEAN, amount : Nat, dest : Dest \cup {NoAddr},
            backend : Backend \cup {"auto"}]

VARIABLES
    clock,      \* the wall clock
    net,        \* what each backend would answer now
    chain,      \* transactions accepted by the source chains
    ethNonce,   \* next nonce of the account ("pending")
    spent,      \* coins spent by accepted transactions
    allowance,  \* what the router may take of the token
    inflight,   \* ended invocations whose last post may still reach the node
    pc,         \* where each invocation is
    ctx,        \* what it works from, as it learns it:
                \*   job      its command line
                \*   acct     what it read of the account: nonce, coins, fee, amount
                \*   backend  the backend it chose
                \*   now      the time read before prepare_swap / prepare_liquidity
                \*   status   the inbound_addresses answer for the source chain
                \*   quote    the quote
    prepared,   \* its Prepared: txs, plan, safe
    answer,     \* what the user typed at the prompt
    cursor,     \* the transaction it posts next
    signedAt    \* when it signed

ledger == <<chain, ethNonce, spent, allowance>>
env == <<clock, net, ledger, inflight>>
locals == <<ctx, prepared, answer, cursor, signedAt>>
vars == <<env, pc, locals>>

---------------------------------------------------------------------------
\* Command lines

isSwap(j)  == j.cmd = "swap"
isSend(j)  == j.cmd = "send"
isLP(j)    == j.cmd \in {"add", "withdraw"}

ASSUME ConstantsAssumption ==
    /\ Unit \in Nat \ {0} /\ WeiPerUnit \in Nat \ {0}
    /\ DepositLife \in Nat /\ DustThreshold \in Nat
    /\ MaxTime \in Nat /\ MaxFee \in Nat
    /\ Fee \subseteq Nat /\ Balance \subseteq Nat /\ MinAmount \subseteq Nat
    /\ Lifetime \subseteq Int
    /\ ZeroFirst \in BOOLEAN
    /\ Reply \subseteq {"error", "none", "null"}
    /\ Job \subseteq JobType
    /\ \A j \in Job : isLP(j) => j.backend \in Backend
    /\ NoAddr \notin Vault /\ Own \notin Vault
    /\ NoExpiry \notin Int

\* Command lines refused (exit status 2) before anything is read.
UsageError(j) ==
    \/ isSwap(j) /\ j.dest = NoAddr
    \/ isLP(j) /\ j.token
    \/ j.chain = "TRON" /\ j.sweep /\ ~j.token

Ended == {"usage", "aborted", "dry", "declined", "failed", "done", "crashed",
          "killed"}
Steps == {"account", "select", "now", "inbound", "mimir", "quote", "build",
          "gated", "prompt", "check", "post"}

\* The step after the account has been read.
AfterAccount(j) == CASE isSwap(j) -> "select"
                     [] isSend(j) -> "build"
                     [] OTHER     -> "now"

\* The step after the network's status has been read.
AfterInbound(j) == CASE isSwap(j)         -> "quote"
                     [] j.cmd = "add"     -> "mimir"
                     [] OTHER             -> "build"

---------------------------------------------------------------------------
\* Amounts: THORChain's 1e8 base units, and the native units of an asset.

\* Mutant: a token is taken to have 18 decimals, like the coin.
Native_EighteenDecimals(j, amount) ==
    IF j.chain = "ETH" THEN amount * WeiPerUnit
    ELSE IF j.chain = "TRON" THEN amount \div Unit ELSE amount

\* 10**decimals // 10**8, * 10**10, or satoshis as they are.
Native(j, amount) ==
    CASE j.chain = "BTC"              -> amount
      [] j.chain = "ETH" /\ ~j.token  -> amount * WeiPerUnit
      [] OTHER                        -> amount \div Unit

\* to_sun and to_token_native refuse a remainder; the ERC-20 paths floor.
Convertible(j, amount) == j.chain = "TRON" => amount % Unit = 0

\* What --amount max may find: every sweep refuses an empty balance, but
\* eth_sweep_amount divides after its check and may return 0.
SweepAmounts(j) ==
    IF j.chain = "ETH" /\ ~j.token THEN Balance \cup {0} ELSE Balance \ {0}

---------------------------------------------------------------------------
\* Building

AddMemo == [id |-> "add", names |-> {}, long |-> FALSE]
WithdrawMemo == [id |-> "withdraw", names |-> {}, long |-> FALSE]

MemoOf(c) == CASE isSwap(c.job)        -> c.quote.memo
               [] c.job.cmd = "add"    -> AddMemo
               [] c.job.cmd = "withdraw" -> WithdrawMemo
               [] OTHER                 -> NoMemo

Recipient(c) == CASE isSwap(c.job) -> c.quote.vault
                  [] isSend(c.job) -> c.job.dest
                  [] OTHER          -> c.status.vault

\* amount None (withdraw) means the chain's dust threshold.
AmountOf(c) == IF c.job.cmd = "withdraw" THEN DustThreshold ELSE c.acct.amount

\* The plan the gate checks against, made from the quote or the command line.
PlanOf(c) ==
    [payee       |-> Recipient(c),
     amount      |-> Native(c.job, AmountOf(c)),
     memo        |-> MemoOf(c),
     destination |-> IF isSwap(c.job) THEN c.job.dest ELSE NoAddr,
     expiry      |-> CASE isSwap(c.job) -> c.quote.expiry
                       [] isLP(c.job)   -> c.now + DepositLife
                       [] OTHER          -> NoExpiry,
     token       |-> Token,
     router      |-> IF isSwap(c.job) THEN c.quote.router ELSE NoAddr,
     chainId     |-> MainNet]

PayOut(c)  == [addr |-> Recipient(c), value |-> Native(c.job, AmountOf(c)),
               data |-> FALSE, memo |-> NoMemo]
DataOut(c) == [addr |-> NoAddr, value |-> 0, data |-> TRUE, memo |-> MemoOf(c)]
ChangeOut(v) == [addr |-> Own, value |-> v, data |-> FALSE, memo |-> NoMemo]

BtcTx(c, coins, fee, change) ==
    [chain |-> "BTC", coins |-> coins, fee |-> fee,
     outs |-> <<PayOut(c)>> \o (IF isSend(c.job) THEN <<>> ELSE <<DataOut(c)>>)
                            \o (IF change > 0 THEN <<ChangeOut(change)>> ELSE <<>>)]

\* build_unsigned_swap of the BTC adapter.  Which coins are taken, and the
\* fee and change that follow, is select_coins' choice (see Coins.tla): here
\* any non-empty selection; a sweep takes every coin and has no change.
BtcTxs(c) ==
    {<<BtcTx(c, coins, fee, change)>> :
        coins  \in IF c.job.sweep THEN {c.acct.coins}
                   ELSE (SUBSET c.acct.coins) \ {{}},
        fee    \in Fee,
        change \in IF c.job.sweep THEN {0} ELSE {0, 1}}

\* A native transfer on ETH or TRON.
NativeTx(c) ==
    [chain |-> c.job.chain, fn |-> "none", to |-> Recipient(c),
     payee |-> NoAddr, token |-> NoAddr, amount |-> 0,
     value |-> Native(c.job, AmountOf(c)),
     memo |-> MemoOf(c), expiry |-> NoExpiry, chainId |-> MainNet,
     fee |-> c.acct.fee, nonce |-> c.acct.nonce]

\* transfer(payee, amount) on a token contract.
TransferTx(c) ==
    [NativeTx(c) EXCEPT !.fn = "transfer", !.to = Token, !.value = 0,
        !.payee = Recipient(c), !.amount = Native(c.job, AmountOf(c))]

ApproveTx(c) ==
    [NativeTx(c) EXCEPT !.fn = "approve", !.to = Token, !.value = 0,
        !.payee = c.quote.router, !.amount = Native(c.job, AmountOf(c)),
        !.memo = NoMemo]

DepositTx(c) ==
    [NativeTx(c) EXCEPT !.fn = "depositWithExpiry", !.to = c.quote.router,
        !.value = 0, !.payee = c.quote.vault, !.token = Token,
        !.amount = Native(c.job, AmountOf(c)),
        !.expiry = c.quote.expiry, !.nonce = c.acct.nonce + 1]

\* The transactions, in broadcast order, that the adapter may build.
BuiltTxs(c) ==
    CASE c.job.chain = "BTC" -> BtcTxs(c)
      [] c.job.chain = "ETH" /\ c.job.token /\ isSwap(c.job) ->
            {<<ApproveTx(c), DepositTx(c)>>}
      [] OTHER -> {<<IF c.job.token THEN TransferTx(c) ELSE NativeTx(c)>>}

\* The gate each build_and_verify* method applies to what it has built.
Gate(j, txs, plan, t) ==
    CASE j.chain = "BTC" /\ isSend(j)  -> verify_btc_send(txs[1], plan, {Own}, MaxFee)
      [] j.chain = "BTC" /\ ~isSend(j) -> verify_btc_swap(txs[1], plan, {Own}, t, MaxFee)
      [] j.chain = "ETH" /\ isSend(j) /\ ~j.token -> verify_eth_send(txs[1], plan, MaxFee)
      [] j.chain = "ETH" /\ isSend(j) /\ j.token  -> verify_eth_token_send(txs[1], plan, MaxFee)
      [] j.chain = "ETH" /\ ~isSend(j) /\ ~j.token -> verify_eth_swap(txs[1], plan, t, MaxFee)
      [] j.chain = "ETH" /\ ~isSend(j) /\ j.token ->
            verify_eth_token_swap(txs[1], txs[2], plan, t, MaxFee)
      [] j.chain = "TRON" /\ isSend(j) /\ ~j.token -> verify_tron_send(txs[1], plan)
      [] j.chain = "TRON" /\ isSend(j) /\ j.token  -> verify_tron_token_send(txs[1], plan)
      [] j.chain = "TRON" /\ ~isSend(j) /\ ~j.token -> verify_tron_swap(txs[1], plan, t)
      [] j.chain = "TRON" /\ ~isSend(j) /\ j.token -> verify_tron_token_swap(txs[1], plan, t)

---------------------------------------------------------------------------
\* The invocation, step by step

NoStatus == [tradable |-> FALSE, lpPaused |-> FALSE, vault |-> NoAddr]
NoQuote  == [vault |-> NoAddr, router |-> NoAddr, memo |-> NoMemo, expiry |-> 0,
             min |-> 0]
NoPrepared == [txs |-> <<>>, plan |-> [expiry |-> NoExpiry], safe |-> FALSE]
IdleJob == [cmd |-> "send", chain |-> "BTC", token |-> FALSE, sweep |-> FALSE,
            confirm |-> FALSE, yes |-> FALSE, amount |-> 0, dest |-> NoAddr,
            backend |-> "auto"]

NoContext == [job |-> IdleJob, backend |-> "none", now |-> 0, status |-> NoStatus,
              acct |-> [nonce |-> 0, coins |-> {}, fee |-> 0, amount |-> 0],
              quote |-> NoQuote]

Goto(p, l) == pc' = [pc EXCEPT ![p] = l]

\* main parses the command line and calls the handler.
CmdStart(p) ==
    /\ pc[p] = "idle"
    /\ \E j \in Job :
        /\ ctx' = [ctx EXCEPT ![p].job = j]
        /\ Goto(p, IF UsageError(j) THEN "usage" ELSE "account")
    /\ UNCHANGED <<env, prepared, answer, cursor, signedAt>>

\* scan_account + fetch_utxos + fetch_fee_rate, or get_nonce + fetch_fees
\* (+ balances for a sweep).  "ABORTED" on no coins or nothing to sweep.
ReadAccount(p) ==
    LET j == ctx[p].job
        free == Coin \ spent
    IN  /\ pc[p] = "account"
        /\ \/ /\ j.chain = "BTC" => free # {}
              /\ \E a \in (IF j.sweep THEN SweepAmounts(j) ELSE {j.amount}), f \in Fee :
                    ctx' = [ctx EXCEPT ![p].acct =
                        [nonce |-> ethNonce, coins |-> free, fee |-> f, amount |-> a]]
              /\ Goto(p, AfterAccount(j))
           \/ /\ j.sweep \/ (j.chain = "BTC" /\ free = {})
              /\ Goto(p, "aborted")
              /\ UNCHANGED ctx
        /\ UNCHANGED <<env, prepared, answer, cursor, signedAt>>

\* _select_backend: an explicit backend is taken unquoted; otherwise the best
\* of those that quoted, and SwapAborted when none did.
SelectBackend(p) ==
    LET choice == ctx[p].job.backend
    IN  /\ pc[p] = "select"
        /\ \/ /\ \E b \in (IF choice = "auto" THEN Backend ELSE {choice}) :
                    ctx' = [ctx EXCEPT ![p].backend = b]
              /\ Goto(p, "now")
           \/ /\ choice = "auto"
              /\ Goto(p, "aborted")
              /\ UNCHANGED ctx
        /\ UNCHANGED <<env, prepared, answer, cursor, signedAt>>

\* now=int(time.time()) is evaluated before the network calls that follow.
\* Liquidity commands always name their backend.
ReadClock(p) ==
    /\ pc[p] = "now"
    /\ ctx' = [ctx EXCEPT ![p].now = clock,
                          ![p].backend = IF isLP(ctx[p].job) THEN ctx[p].job.backend
                                         ELSE @]
    /\ Goto(p, "inbound")
    /\ UNCHANGED <<env, prepared, answer, cursor, signedAt>>

\* inbound_addresses().get(chain): the chain must be tradable, and for
\* liquidity the answer must hold a vault address.
InboundAddresses(p) ==
    LET n == net[ctx[p].backend]
    IN  /\ pc[p] = "inbound"
        /\ \E v \in {n.vault, NoAddr} :
            /\ ctx' = [ctx EXCEPT ![p].status = [n EXCEPT !.vault = v]]
            /\ Goto(p, IF n.tradable /\ (isLP(ctx[p].job) => v # NoAddr)
                       THEN AfterInbound(ctx[p].job) ELSE "aborted")
        /\ UNCHANGED <<env, prepared, answer, cursor, signedAt>>

\* An add is refused while mimir says deposits are paused.
Mimir(p) ==
    /\ pc[p] = "mimir"
    /\ Goto(p, IF net[ctx[p].backend].lpPaused THEN "aborted" ELSE "build")
    /\ UNCHANGED <<env, locals>>

\* Mutant: a failed quote is retried, from the network's status on.
QuoteSwap_Retry(p) ==
    /\ pc[p] = "quote"
    /\ \E m \in Memo, life \in Lifetime, r \in {Router, NoAddr} :
        \/ /\ ctx' = [ctx EXCEPT ![p].quote =
                    [vault |-> net[ctx[p].backend].vault, router |-> r, memo |-> m,
                     expiry |-> clock + life, min |-> 0]]
           /\ Goto(p, "build")
        \/ Goto(p, "inbound") /\ UNCHANGED ctx
    /\ UNCHANGED <<env, prepared, answer, cursor, signedAt>>

\* quote_swap, then the minimum and the memo.
QuoteSwap(p) ==
    /\ pc[p] = "quote"
    /\ \/ \E m \in Memo \cup {NoMemo}, life \in Lifetime, min \in MinAmount,
             r \in {Router, NoAddr} :
            /\ ctx' = [ctx EXCEPT ![p].quote =
                    [vault |-> net[ctx[p].backend].vault, router |-> r, memo |-> m,
                     expiry |-> clock + life, min |-> min]]
            /\ Goto(p, IF ctx[p].acct.amount < min \/ m = NoMemo THEN "aborted"
                       ELSE "build")
       \/ Goto(p, "aborted") /\ UNCHANGED ctx       \* ThorchainError
    /\ UNCHANGED <<env, prepared, answer, cursor, signedAt>>

\* Errors while building: InsufficientFunds from select_coins and a remainder
\* of a TRON amount are reported; a memo over 80 bytes on BTC, a quote without
\* router and a TRON send with a remainder end in a traceback.
BuildFails(c) ==
    \/ c.job.chain = "BTC" /\ ~c.job.sweep
    \/ ~Convertible(c.job, AmountOf(c)) /\ ~isSend(c.job)

BuildCrashes(c) ==
    \/ c.job.chain = "BTC" /\ MemoOf(c).long
    \/ c.job.chain = "ETH" /\ c.job.token /\ isSwap(c.job) /\ c.quote.router = NoAddr
    \/ ~Convertible(c.job, AmountOf(c)) /\ isSend(c.job)

\* build_and_verify, build_and_verify_deposit and build_and_verify_send.
BuildAndVerify(p) ==
    LET c == ctx[p]
    IN  /\ pc[p] = "build"
        /\ \/ /\ ~BuildCrashes(c) /\ Convertible(c.job, AmountOf(c))
              /\ \E txs \in BuiltTxs(c) :
                    prepared' = [prepared EXCEPT ![p] =
                        [txs |-> txs, plan |-> PlanOf(c),
                         safe |-> Gate(c.job, txs, PlanOf(c), c.now)]]
              /\ Goto(p, "gated")
           \/ /\ BuildFails(c) /\ Goto(p, "aborted") /\ UNCHANGED prepared
           \/ /\ BuildCrashes(c) /\ Goto(p, "crashed") /\ UNCHANGED prepared
        /\ UNCHANGED <<env, ctx, answer, cursor, signedAt>>

\* Mutant: problems are printed and the user is asked all the same.
Confirm_IgnoreProblems(p) ==
    /\ pc[p] = "gated"
    /\ Goto(p, IF ~ctx[p].job.confirm THEN "dry"
               ELSE IF ctx[p].job.yes THEN "check" ELSE "prompt")
    /\ UNCHANGED <<env, locals>>

\* _confirm_and_execute up to the prompt.
Confirm(p) ==
    /\ pc[p] = "gated"
    /\ Goto(p, IF ~prepared[p].safe THEN "aborted"
               ELSE IF ~ctx[p].job.confirm THEN "dry"
               ELSE IF ctx[p].job.yes THEN "check" ELSE "prompt")
    /\ UNCHANGED <<env, locals>>

\* The user types 'yes', or anything else.
Prompt(p) ==
    /\ pc[p] = "prompt"
    /\ \E a \in {"yes", "no"} :
        /\ answer' = [answer EXCEPT ![p] = a]
        /\ Goto(p, IF a = "yes" THEN "check" ELSE "declined")
    /\ UNCHANGED <<env, ctx, prepared, cursor, signedAt>>

\* Mutant: the clock is not read again before signing.
Expired_NotReread(plan) == FALSE

\* time.time() >= expiry, on whatever plan has an expiry.
Expired(plan) == plan.expiry # NoExpiry /\ clock >= plan.expiry

\* The second look at the clock, then execute_swap: sign everything.
ExecuteSwap(p) ==
    /\ pc[p] = "check"
    /\ IF Expired(prepared[p].plan)
       THEN Goto(p, "aborted") /\ UNCHANGED <<cursor, signedAt>>
       ELSE /\ Goto(p, "post")
            /\ cursor' = [cursor EXCEPT ![p] = 1]
            /\ signedAt' = [signedAt EXCEPT ![p] = clock]
    /\ UNCHANGED <<env, ctx, prepared, answer>>

---------------------------------------------------------------------------
\* The source chains

\* A node takes an ETH transaction with the next nonce and a BTC transaction
\* whose inputs are unspent.
Acceptable(tx) == CASE tx.chain = "ETH" -> tx.nonce = ethNonce
                    [] tx.chain = "BTC" -> tx.coins \cap spent = {}
                    [] OTHER            -> TRUE

\* The token's approve, the router's depositWithExpiry (which may also revert
\* for reasons of its own), and whether the transaction takes effect.
Executes(tx, ok) ==
    CASE tx.chain = "ETH" /\ tx.fn = "approve" ->
            ok = (~ZeroFirst \/ allowance = 0 \/ tx.amount = 0)
      [] tx.chain = "ETH" /\ tx.fn = "depositWithExpiry" ->
            ok => clock <= tx.expiry /\ tx.amount <= allowance
      [] OTHER -> ok

AllowanceAfter(tx, ok) ==
    CASE tx.chain = "ETH" /\ tx.fn = "approve" /\ ok -> tx.amount
      [] tx.chain = "ETH" /\ tx.fn = "depositWithExpiry" /\ ok -> allowance - tx.amount
      [] OTHER -> allowance

Accept(p, tx) ==
    /\ Acceptable(tx)
    /\ \E ok \in BOOLEAN :
        /\ Executes(tx, ok)
        /\ chain' = chain \cup {[p |-> p, i |-> cursor[p], tx |-> tx, ok |-> ok]}
        /\ allowance' = AllowanceAfter(tx, ok)
    /\ ethNonce' = IF tx.chain = "ETH" THEN ethNonce + 1 ELSE ethNonce
    /\ spent' = IF tx.chain = "BTC" THEN spent \cup tx.coins ELSE spent

\* A post that brings no answer: HTTP_ERRORS, or an answer that is no answer,
\* is "BROADCAST FAILED"; tronpy's own transport errors are not caught.
Unanswered(p) == IF ctx[p].job.chain = "TRON" THEN "crashed" ELSE "failed"

\* On to the next raw transaction, or out of the loop.
Advance(p) ==
    LET last == cursor[p] = Len(prepared[p].txs)
    IN  /\ Goto(p, IF last THEN "done" ELSE "post")
        /\ cursor' = IF last THEN cursor ELSE [cursor EXCEPT ![p] = @ + 1]

\* Mutant: an error does not stop the loop, only the last post is looked at.
Broadcast_GoOn(p) ==
    /\ pc[p] = "post"
    /\ Accept(p, prepared[p].txs[cursor[p]]) \/ UNCHANGED ledger
    /\ Advance(p)
    /\ UNCHANGED <<clock, net, inflight, ctx, prepared, answer, signedAt>>

\* One round of the loop in broadcast: post the transaction, and go on when the
\* node answered with its txid.  A post that brings no answer may have been taken
\* or may reach the node later; ETH's _rpc takes a "result" of null for a txid.
Broadcast(p) ==
    LET tx == prepared[p].txs[cursor[p]]
    IN  /\ pc[p] = "post"
        /\ \/ /\ Accept(p, tx)
              /\ Advance(p) \/ (Goto(p, Unanswered(p)) /\ UNCHANGED cursor)
              /\ UNCHANGED inflight
           \/ /\ \E r \in Reply :
                    /\ r = "null" => tx.chain = "ETH"
                    /\ IF r = "null" THEN Advance(p)
                       ELSE /\ Goto(p, IF r = "error" THEN "failed" ELSE Unanswered(p))
                            /\ UNCHANGED cursor
                    /\ inflight' = IF r = "none" THEN inflight \cup {p} ELSE inflight
              /\ UNCHANGED ledger
        /\ UNCHANGED <<clock, net, ctx, prepared, answer, signedAt>>

\* ^C, or a read above that fails: main handles no exception.  A post that was
\* under way may still reach the node.
Kill(p) ==
    /\ pc[p] \in Steps
    /\ Goto(p, "killed")
    /\ inflight' = IF pc[p] = "post" THEN inflight \cup {p} ELSE inflight
    /\ UNCHANGED <<clock, net, ledger, locals>>

---------------------------------------------------------------------------
\* The world around the program

Tick == /\ clock < MaxTime
        /\ clock' = clock + 1
        /\ UNCHANGED <<net, ledger, inflight, pc, locals>>

\* A network halts or resumes, pauses liquidity deposits, or rotates its vault.
NetworkChange(b) ==
    /\ \E t, l \in BOOLEAN, v \in Vault :
        net' = [net EXCEPT ![b] = [tradable |-> t, lpPaused |-> l, vault |-> v]]
    /\ UNCHANGED <<clock, ledger, inflight, pc, locals>>

\* A node takes a transaction that its sender had given up on.
LateAccept(p) ==
    /\ p \in inflight
    /\ Accept(p, prepared[p].txs[cursor[p]])
    /\ inflight' = inflight \ {p}
    /\ UNCHANGED <<clock, net, pc, locals>>

---------------------------------------------------------------------------
Init ==
    /\ clock = 0
    /\ net \in [Backend -> [tradable : {TRUE}, lpPaused : {FALSE}, vault : Vault]]
    /\ chain = {} /\ ethNonce = 0 /\ spent = {} /\ allowance = 0
    /\ inflight = {}
    /\ pc = [p \in Proc |-> "idle"]
    /\ ctx = [p \in Proc |-> NoContext]
    /\ prepared = [p \in Proc |-> NoPrepared]
    /\ answer = [p \in Proc |-> "none"]
    /\ cursor = [p \in Proc |-> 0]
    /\ signedAt = [p \in Proc |-> 0]

Step(p) ==
    \/ CmdStart(p) \/ ReadAccount(p) \/ SelectBackend(p) \/ ReadClock(p)
    \/ InboundAddresses(p) \/ Mimir(p) \/ QuoteSwap(p) \/ BuildAndVerify(p)
    \/ Confirm(p) \/ Prompt(p) \/ ExecuteSwap(p) \/ Broadcast(p)

Next ==
    \/ \E p \in Proc : Step(p) \/ Kill(p) \/ LateAccept(p)
    \/ Tick
    \/ \E b \in Backend : NetworkChange(b)

Spec == Init /\ [][Next]_vars

\* Every call of the program returns: HTTP calls time out (net.py), the user
\* answers the prompt.  Nothing is assumed of the networks or the clock.
FairSpec == Spec /\ \A p \in Proc : WF_vars(Step(p))

---------------------------------------------------------------------------
\* What a transaction does on its chain, and what it costs

\* The payments that leave the wallet: <<address, native units>>.
Payments(tx) ==
    CASE tx.chain = "BTC" ->
            {<<tx.outs[i].addr, tx.outs[i].value>> :
                i \in {k \in DOMAIN tx.outs :
                            ~tx.outs[k].data /\ tx.outs[k].addr # Own}}
      [] tx.chain # "BTC" /\ tx.fn = "none"    -> {<<tx.to, tx.value>>}
      [] tx.chain # "BTC" /\ tx.fn = "approve" -> {}
      [] OTHER -> {<<tx.payee, tx.amount>>}

\* The memo the network reads from the transaction.
MemosOf(tx) == IF tx.chain = "BTC"
               THEN {tx.outs[i].memo : i \in DataOuts(tx)}
               ELSE {tx.memo}

\* Its transaction at the cursor is about to be posted, or may still arrive.
Posting(p) == pc[p] = "post" \/ p \in inflight

OnChain(p, i) == \E e \in chain : e.p = p /\ e.i = i

---------------------------------------------------------------------------
\* Properties

NetType == [tradable : BOOLEAN, lpPaused : BOOLEAN, vault : Vault]
QuoteType == [vault : Vault \cup {NoAddr}, router : {Router, NoAddr},
              memo : Memo \cup {NoMemo}, expiry : Int, min : Nat]
ContextType ==
    [job : Job \cup {IdleJob}, backend : Backend \cup {"none"}, now : Nat,
     status : [tradable : BOOLEAN, lpPaused : BOOLEAN, vault : Vault \cup {NoAddr}],
     acct : [nonce : Nat, coins : SUBSET Coin, fee : Nat, amount : Nat],
     quote : QuoteType]

\* Types of the variables.
TypeOK ==
    /\ clock \in Nat /\ ethNonce \in Nat /\ allowance \in Int
    /\ spent \subseteq Coin /\ inflight \subseteq Proc
    /\ pc \in [Proc -> {"idle"} \cup Steps \cup Ended]
    /\ net \in [Backend -> NetType]
    /\ ctx \in [Proc -> ContextType]
    /\ DOMAIN prepared = Proc
    /\ answer \in [Proc -> {"none", "yes", "no"}]
    /\ cursor \in [Proc -> 0 .. 2]
    /\ signedAt \in [Proc -> Nat]
    /\ \A e \in chain : e.p \in Proc /\ e.i \in 1 .. 2 /\ e.ok \in BOOLEAN

\* Nothing reaches a chain without --confirm and, unless --yes was given too, a
\* typed 'yes'; and what reaches it is one of the transactions of a Prepared
\* whose list of problems was empty (cli.py _confirm_and_execute).
Authorised ==
    \A e \in chain :
        /\ ctx[e.p].job.confirm
        /\ ctx[e.p].job.yes \/ answer[e.p] = "yes"
        /\ prepared[e.p].safe
        /\ e.tx = prepared[e.p].txs[e.i]

\* Whom an invocation may pay, and how much: the address the user typed or the
\* vault the network named; the amount the user typed (or swept, or the dust
\* threshold), never more than that when it is expressed in coarser units.
Intended(c, pay) ==
    LET a == CASE c.job.cmd = "withdraw" -> DustThreshold
               [] c.job.cmd # "withdraw" /\ c.job.sweep -> c.acct.amount
               [] OTHER -> c.job.amount
    IN  /\ pay[1] = CASE c.job.cmd = "send" -> c.job.dest
                      [] c.job.cmd = "swap" -> c.quote.vault
                      [] OTHER -> c.status.vault
        /\ \/ c.job.chain = "BTC" /\ pay[2] = a
           \/ c.job.chain = "ETH" /\ ~c.job.token /\ pay[2] = a * WeiPerUnit
           \/ /\ c.job.chain = "TRON" \/ c.job.token
              /\ pay[2] * Unit <= a /\ a < (pay[2] + 1) * Unit

\* The only money that leaves the wallet goes to the recipient the user named
\* or to the vault the network named, in the amount the user asked for, across
\* the conversions between the two units of every asset.
OnlyIntendedPayments ==
    \A e \in chain : \A pay \in Payments(e.tx) : Intended(ctx[e.p], pay)

\* A swap deposit that moves money carries a memo that names the destination,
\* whatever memo the network's quote contained.
DepositNamesDestination ==
    \A e \in chain :
        isSwap(ctx[e.p].job) /\ Payments(e.tx) # {} =>
            \A m \in MemosOf(e.tx) : ctx[e.p].job.dest \in m.names

\* All the transactions of one invocation together stay below the fee cap
\* (BTC and ETH; TRON fees are not the program's to set).
FeeCapped ==
    \A e, f \in chain :
        e.p = f.p /\ ctx[e.p].job.chain # "TRON" =>
            /\ e.tx.fee <= MaxFee
            /\ e.i # f.i => e.tx.fee + f.tx.fee <= MaxFee

\* However long the quote, the build and the user took, the signature was made
\* before the quote expired, and after the clock was read for the gate.
FreshWhenSigned ==
    \A e \in chain :
        /\ prepared[e.p].plan.expiry # NoExpiry =>
                signedAt[e.p] < prepared[e.p].plan.expiry
        /\ ctx[e.p].now <= signedAt[e.p]

\* What the user is told is what happened: a txid means that every
\* transaction is on the chain; usage, "ABORTED", "DRY RUN" and "not broadcast"
\* mean that none is; "BROADCAST FAILED" leaves at most what was posted so far.
OutcomeHonest ==
    \A p \in Proc :
        /\ pc[p] = "done" => \A i \in DOMAIN prepared[p].txs : OnChain(p, i)
        /\ pc[p] \in {"usage", "aborted", "dry", "declined"} => ~ \E i \in 1 .. 2 : OnChain(p, i)
        /\ \A i \in 1 .. 2 : OnChain(p, i) => i <= cursor[p]

\* A deposit is only ever posted in the nonce right after its own approve, so
\* that no other transaction of the account can come between the two, and no
\* invocation posts a nonce that leaves a gap; the same holds of what may arrive
\* after the invocation has given up.
NoNonceGap ==
    \A p \in Proc :
        Posting(p) /\ ctx[p].job.chain = "ETH" =>
            /\ prepared[p].txs[cursor[p]].nonce <= ethNonce
            /\ cursor[p] = 2 => \E e \in chain :
                    /\ e.p = p /\ e.i = 1 /\ e.tx.fn = "approve"
                    /\ e.tx.nonce + 1 = prepared[p].txs[2].nonce

LastEth(e) == e.tx.chain = "ETH" /\ e.tx.nonce + 1 = ethNonce

\* The router's allowance after a swap of a token: nothing when the deposit
\* took effect, and exactly the amount of this swap when it failed or was never
\* sent ("an exact-amount allowance to the router remains", cli.py).
ResidualAllowanceExact ==
    \A e \in chain : LastEth(e) =>
        /\ e.tx.fn = "approve" => allowance = e.tx.amount
        /\ e.tx.fn = "depositWithExpiry" => allowance = IF e.ok THEN 0 ELSE e.tx.amount

\* Every invocation ends.
Terminates == \A p \in Proc : pc[p] # "idle" ~> pc[p] \in Ended

---------------------------------------------------------------------------
\* What comments, messages and documentation say, and the code does not do

\* "A swap cross-checks the vault against an independent quote" (swap.py).
VaultCrossChecked ==
    \A e \in chain : isSwap(ctx[e.p].job) =>
        \A pay \in Payments(e.tx) : ctx[e.p].status.vault \in {pay[1], NoAddr}

\* BroadcastError is "raised when broadcasting a signed tx is rejected" (swap.py).
FailedMeansRejected ==
    \A p \in Proc : pc[p] = "failed" => ~OnChain(p, cursor[p])

\* "a positive amount that would round to zero base units can never reach a tx"
\* (cli.py _amount).
NoZeroPayment ==
    \A e \in chain : \A pay \in Payments(e.tx) : pay[2] > 0

\* "so the CLI can report a clean message instead of leaking a traceback" (swap.py).
NoTracebackAfterSigning ==
    \A p \in Proc : pc[p] = "crashed" => cursor[p] = 0

---------------------------------------------------------------------------
\* The inductive invariant behind the safety properties

\* The amount is the one typed, unless the balance is swept.
AmountRead(p) == ctx[p].job.sweep \/ ctx[p].acct.amount = ctx[p].job.amount

\* From the gate on, the transactions and the plan are those of the context.
Verified(p) ==
    /\ AmountRead(p)
    /\ prepared[p].txs \in BuiltTxs(ctx[p])
    /\ prepared[p].plan = PlanOf(ctx[p])
    /\ prepared[p].safe =>
            Gate(ctx[p].job, prepared[p].txs, prepared[p].plan, ctx[p].now)

Approved(p) == ctx[p].job.yes \/ answer[p] = "yes"

\* What has been established once the invocation signs.
Signed(p) ==
    /\ Verified(p) /\ prepared[p].safe
    /\ ctx[p].job.confirm /\ Approved(p)
    /\ prepared[p].plan.expiry # NoExpiry => signedAt[p] < prepared[p].plan.expiry
    /\ ctx[p].now <= signedAt[p]
    /\ cursor[p] \in 1 .. Len(prepared[p].txs)

Late == {"post", "done", "failed", "crashed", "killed"}

ProcessInv(p) ==
    /\ ctx[p].now <= clock
    /\ pc[p] \notin {"idle", "usage"} => ctx[p].job \in Job /\ ~UsageError(ctx[p].job)
    /\ pc[p] \in {"select", "now", "inbound", "mimir", "quote", "build"} => AmountRead(p)
    /\ pc[p] = "select" => isSwap(ctx[p].job)
    /\ pc[p] = "now" => isLP(ctx[p].job) \/ ctx[p].backend \in Backend
    /\ pc[p] \in {"inbound", "mimir", "quote"} => ctx[p].backend \in Backend
    /\ pc[p] \in {"gated", "prompt", "check"} => Verified(p)
    /\ pc[p] \in {"prompt", "check"} => prepared[p].safe /\ ctx[p].job.confirm
    /\ pc[p] = "check" => Approved(p)
    /\ p \in inflight => pc[p] \in {"failed", "crashed", "killed"}
    /\ Posting(p) => Signed(p)
    /\ "null" \notin Reply =>
        /\ Posting(p) => \A i \in 1 .. cursor[p] - 1 : OnChain(p, i)
        /\ pc[p] = "done" => \A i \in DOMAIN prepared[p].txs : OnChain(p, i)

\* Every transaction on a chain belongs to an invocation that signed it; what
\* that invocation knew then is what it knows ever after.
EntryInv(e) ==
    /\ pc[e.p] \in Late
    /\ Signed(e.p)
    /\ e.i \in 1 .. cursor[e.p]
    /\ e.tx = prepared[e.p].txs[e.i]

FlowInv == TypeOK /\ (\A p \in Proc : ProcessInv(p)) /\ (\A e \in chain : EntryInv(e))

\* Nonces are handed out once and in order.
NonceInv ==
    /\ \A p \in Proc : ctx[p].acct.nonce <= ethNonce
    /\ \A e \in chain : e.tx.chain = "ETH" => e.tx.nonce < ethNonce
    /\ \A e, f \in chain : e.tx.chain = "ETH" /\ f.tx.chain = "ETH"
                           /\ e.tx.nonce = f.tx.nonce => e = f

---------------------------------------------------------------------------
\* What the wallet promises (Spending.tla), and how this specification keeps it

phaseBar ==
    [p \in Proc |-> CASE pc[p] = "check" -> "consented"
                      [] pc[p] = "post"  -> "committed"
                      [] pc[p] = "done"  -> "done"
                      [] pc[p] \in Ended \ {"done"} ->
                            IF p \in inflight THEN "unsure" ELSE "stopped"
                      [] OTHER -> "open"]

orderBar ==
    [p \in Proc |-> IF pc[p] \in {"check", "post", "done"} \/ p \in inflight
                    THEN prepared[p].txs ELSE <<>>]

landedBar ==
    [p \in Proc |-> {<<e.i, e.tx>> : e \in {f \in chain : f.p = p}}]

Abs == INSTANCE Spending WITH
           phase <- phaseBar, order <- orderBar, landed <- landedBar

\* Whatever the interleaving with other invocations, the clock and the network,
\* and wherever the program is interrupted, an invocation posts the list the
\* user consented to, in order, never skips or repeats a transaction, and posts
\* nothing after it has stopped: all that can still land is the one transaction
\* whose post was under way (cli.py _confirm_and_execute, swap.py execute_swap,
\* the broadcast loops of the adapters).
KeepsPromise == Abs!Spec

\* The transaction at the cursor is not on the chain yet.
PostInv == \A p \in Proc : Posting(p) => ~OnChain(p, cursor[p])

===========================================================================
