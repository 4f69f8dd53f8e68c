-------------------------- MODULE SpendFlow_proofs --------------------------
(***************************************************************************)
(* Theorems about SpendFlow, for any number of invocations, any command    *)
(* lines, any quotes and any interleaving.                                 *)
(***************************************************************************)
EXTENDS SpendFlow, TLAPS

---------------------------------------------------------------------------
\* What the builders return

\* Amounts in native units are integers, never negative.
LEMMA NativeType ==
    ASSUME NEW j \in JobType, NEW a \in Nat
    PROVE  Native(j, a) \in Nat
<1>1. CASE j.chain = "BTC"
  BY <1>1 DEF Native
<1>2. CASE j.chain = "ETH" /\ ~j.token
  BY <1>2, ConstantsAssumption DEF Native
<1>3. CASE j.chain # "BTC" /\ ~(j.chain = "ETH" /\ ~j.token)
  <2>1. a \div Unit \in Nat
    BY ConstantsAssumption
  <2> QED
    BY <1>3, <2>1 DEF Native
<1> QED
  BY <1>1, <1>2, <1>3

\* A job of a context is a command line or the idle one.
LEMMA AmountType ==
    ASSUME NEW c \in ContextType, c.job \in Job
    PROVE  /\ c.job \in JobType
           /\ AmountOf(c) \in Nat
           /\ Native(c.job, AmountOf(c)) \in Nat
<1>1. c.job \in JobType
  BY ConstantsAssumption
<1>2. AmountOf(c) \in Nat
  BY ConstantsAssumption DEF AmountOf, ContextType
<1> QED
  BY <1>1, <1>2, NativeType

\* One transaction, or two for the deposit of an ERC-20.
LEMMA BuiltShape ==
    ASSUME NEW c \in ContextType, NEW txs \in BuiltTxs(c)
    PROVE  /\ Len(txs) \in 1 .. 2
           /\ DOMAIN txs = 1 .. Len(txs)
           /\ Len(txs) = 2 => /\ c.job.chain = "ETH" /\ c.job.token /\ isSwap(c.job)
                              /\ txs = <<ApproveTx(c), DepositTx(c)>>
<1>1. CASE c.job.chain = "BTC"
  BY <1>1 DEF BuiltTxs, BtcTxs
<1>2. CASE c.job.chain = "ETH" /\ c.job.token /\ isSwap(c.job)
  <2>1. txs = <<ApproveTx(c), DepositTx(c)>>
    BY <1>2 DEF BuiltTxs
  <2> QED
    BY <1>2, <2>1
<1>3. CASE /\ c.job.chain # "BTC"
           /\ ~(c.job.chain = "ETH" /\ c.job.token /\ isSwap(c.job))
  BY <1>3 DEF BuiltTxs
<1> QED
  BY <1>1, <1>2, <1>3

\* Every transaction is for the chain of the command; those of an ETH account
\* carry the nonce that was read, or the one after it.
LEMMA BuiltFields ==
    ASSUME NEW c \in ContextType, c.job \in Job, NEW txs \in BuiltTxs(c),
           NEW i \in 1 .. Len(txs)
    PROVE  /\ txs[i].chain = c.job.chain
           /\ c.job.chain = "BTC" => txs[i].coins \subseteq c.acct.coins
           /\ c.job.chain # "BTC" =>
                /\ txs[i].nonce = c.acct.nonce + (i - 1)
                /\ txs[i].fn \in {"none", "transfer", "approve", "depositWithExpiry"}
                /\ txs[i].fn # "none" =>
                     /\ txs[i].amount = Native(c.job, AmountOf(c))
                     /\ txs[i].amount \in Nat
<1> USE DEF NativeTx
<1>0. c.acct.nonce \in Nat
  BY DEF ContextType
<1>1. CASE c.job.chain = "BTC"
  <2>1. txs \in BtcTxs(c)
    BY <1>1 DEF BuiltTxs
  <2>2. PICK coins \in SUBSET c.acct.coins, fee \in Fee, change \in {0, 1} :
            txs = <<BtcTx(c, coins, fee, change)>>
    BY <2>1 DEF BtcTxs
  <2>3. i = 1
    BY <2>2
  <2> QED
    BY <1>1, <2>2, <2>3 DEF BtcTx
<1>2. CASE c.job.chain = "ETH" /\ c.job.token /\ isSwap(c.job)
  <2>1. txs = <<ApproveTx(c), DepositTx(c)>>
    BY <1>2 DEF BuiltTxs
  <2>2. i \in 1 .. 2
    BY <2>1
  <2>3. /\ ApproveTx(c).chain = c.job.chain /\ DepositTx(c).chain = c.job.chain
        /\ ApproveTx(c).nonce = c.acct.nonce
        /\ DepositTx(c).nonce = c.acct.nonce + 1
        /\ ApproveTx(c).fn = "approve" /\ DepositTx(c).fn = "depositWithExpiry"
        /\ ApproveTx(c).amount = Native(c.job, AmountOf(c))
        /\ DepositTx(c).amount = Native(c.job, AmountOf(c))
    BY DEF ApproveTx, DepositTx
  <2>4. CASE i = 1
    BY <1>0, <1>2, <2>1, <2>3, <2>4, AmountType
  <2>5. CASE i = 2
    BY <1>0, <1>2, <2>1, <2>3, <2>5, AmountType
  <2> QED
    BY <2>2, <2>4, <2>5
<1>3. CASE /\ c.job.chain # "BTC"
           /\ ~(c.job.chain = "ETH" /\ c.job.token /\ isSwap(c.job))
  <2>1. txs = <<IF c.job.token THEN TransferTx(c) ELSE NativeTx(c)>>
    BY <1>3 DEF BuiltTxs
  <2>2. i = 1
    BY <2>1
  <2>3. CASE c.job.token
    <3>1. /\ TransferTx(c).chain = c.job.chain /\ TransferTx(c).nonce = c.acct.nonce
          /\ TransferTx(c).fn = "transfer"
          /\ TransferTx(c).amount = Native(c.job, AmountOf(c))
      BY DEF TransferTx
    <3> QED
      BY <1>0, <1>3, <2>1, <2>2, <2>3, <3>1, AmountType
  <2>4. CASE ~c.job.token
    BY <1>0, <1>3, <2>1, <2>2, <2>4
  <2> QED
    BY <2>3, <2>4
<1> QED
  BY <1>1, <1>2, <1>3

---------------------------------------------------------------------------
\* Frames

\* What an invocation established does not change while its locals do not.
LEMMA SignedFrame ==
    ASSUME NEW p \in Proc,
           ctx'[p] = ctx[p], prepared'[p] = prepared[p], answer'[p] = answer[p],
           signedAt'[p] = signedAt[p]
    PROVE  /\ Verified(p)' <=> Verified(p)
           /\ Approved(p)' <=> Approved(p)
           /\ cursor'[p] = cursor[p] => (Signed(p)' <=> Signed(p))
<1>1. Verified(p)' <=> Verified(p)
  BY DEF Verified, AmountRead
<1>2. Approved(p)' <=> Approved(p)
  BY DEF Approved
<1> QED
  BY <1>1, <1>2 DEF Signed

\* A process changes nobody else's locals.
LEMMA OthersUntouched ==
    ASSUME TypeOK, NEW q \in Proc, Step(q) \/ Kill(q) \/ LateAccept(q),
           NEW p \in Proc, p # q
    PROVE  /\ pc'[p] = pc[p] /\ ctx'[p] = ctx[p] /\ prepared'[p] = prepared[p]
           /\ answer'[p] = answer[p] /\ cursor'[p] = cursor[p]
           /\ signedAt'[p] = signedAt[p] /\ (p \in inflight' <=> p \in inflight)
<1>1. CASE Broadcast(q)
  BY <1>1 DEF TypeOK, Broadcast, Advance, Goto
<1>2. CASE Kill(q) \/ LateAccept(q)
  BY <1>2 DEF TypeOK, Kill, LateAccept, Goto, locals
<1>3. CASE Step(q) /\ ~Broadcast(q)
  BY <1>3 DEF TypeOK, Step, CmdStart, ReadAccount, SelectBackend, ReadClock,
         InboundAddresses, Mimir, QuoteSwap, BuildAndVerify, Confirm, Prompt,
         ExecuteSwap, Goto, locals, env, ledger
<1> QED
  BY <1>1, <1>2, <1>3

---------------------------------------------------------------------------
\* Types

LEMMA TypeInit == Init => TypeOK
<1> SUFFICES ASSUME Init PROVE TypeOK
  OBVIOUS
<1>1. NoContext \in ContextType
  BY DEF NoContext, ContextType, NoStatus, QuoteType, NoQuote
<1>2. net \in [Backend -> NetType]
  BY DEF Init, NetType
<1> QED
  BY <1>1, <1>2 DEF Init, TypeOK

\* The signed transaction at the cursor.
LEMMA AtCursor ==
    ASSUME TypeOK, NEW p \in Proc, ProcessInv(p), Posting(p)
    PROVE  /\ ctx[p] \in ContextType /\ ctx[p].job \in Job
           /\ prepared[p].txs \in BuiltTxs(ctx[p])
           /\ cursor[p] \in 1 .. Len(prepared[p].txs)
           /\ Len(prepared[p].txs) \in 1 .. 2
           /\ prepared[p].txs[cursor[p]].chain = ctx[p].job.chain
<1>1. ctx[p] \in ContextType
  BY DEF TypeOK
<1>2. ctx[p].job \in Job /\ Signed(p)
  BY DEF ProcessInv, Posting
<1>3. prepared[p].txs \in BuiltTxs(ctx[p]) /\ cursor[p] \in 1 .. Len(prepared[p].txs)
  BY <1>2 DEF Signed, Verified
<1> QED
  BY <1>1, <1>2, <1>3, BuiltShape, BuiltFields

\* What an accepted transaction does to the types.
LEMMA AcceptTypes ==
    ASSUME TypeOK, NEW p \in Proc, ProcessInv(p), Posting(p),
           Accept(p, prepared[p].txs[cursor[p]])
    PROVE  /\ ethNonce' \in Nat /\ spent' \subseteq Coin /\ allowance' \in Int
           /\ \A e \in chain' : e.p \in Proc /\ e.i \in 1 .. 2 /\ e.ok \in BOOLEAN
<1> DEFINE tx == prepared[p].txs[cursor[p]]
<1>2. /\ cursor[p] \in 1 .. Len(prepared[p].txs) /\ Len(prepared[p].txs) \in 1 .. 2
      /\ tx.chain = "BTC" => tx.coins \subseteq Coin
      /\ tx.chain = "ETH" /\ tx.fn # "none" => tx.amount \in Nat
  <2>1. /\ ctx[p].job \in Job /\ prepared[p].txs \in BuiltTxs(ctx[p])
        /\ cursor[p] \in 1 .. Len(prepared[p].txs) /\ Len(prepared[p].txs) \in 1 .. 2
    BY AtCursor
  <2>2. ctx[p] \in ContextType /\ ctx[p].acct.coins \subseteq Coin
    BY DEF TypeOK, ContextType
  <2> QED
    BY <2>1, <2>2, BuiltFields
<1>3. ethNonce' \in Nat /\ spent' \subseteq Coin
  BY <1>2 DEF Accept, TypeOK
<1>4. PICK ok \in BOOLEAN :
        /\ chain' = chain \cup {[p |-> p, i |-> cursor[p], tx |-> tx, ok |-> ok]}
        /\ allowance' = AllowanceAfter(tx, ok)
  BY DEF Accept
<1>5. allowance' \in Int
  <2> HIDE DEF tx
  <2> QED BY <1>2, <1>4 DEF AllowanceAfter, TypeOK
<1>6. \A e \in chain' : e.p \in Proc /\ e.i \in 1 .. 2 /\ e.ok \in BOOLEAN
  BY <1>2, <1>4 DEF TypeOK
<1> QED
  BY <1>3, <1>5, <1>6

\* The fields of a context can be filled in one at a time.
LEMMA ContextUpdate ==
    ASSUME NEW c \in ContextType
    PROVE  /\ \A j \in Job : [c EXCEPT !.job = j] \in ContextType
           /\ \A a \in [nonce : Nat, coins : SUBSET Coin, fee : Nat, amount : Nat] :
                [c EXCEPT !.acct = a] \in ContextType
           /\ \A b \in Backend : [c EXCEPT !.backend = b] \in ContextType
           /\ \A t \in Nat, b \in Backend \cup {"none"} :
                [c EXCEPT !.now = t, !.backend = b] \in ContextType
           /\ \A n \in [tradable : BOOLEAN, lpPaused : BOOLEAN, vault : Vault \cup {NoAddr}] :
                [c EXCEPT !.status = n] \in ContextType
           /\ \A q \in QuoteType : [c EXCEPT !.quote = q] \in ContextType
  BY DEF ContextType

\* A step that only fills in one context and moves one counter keeps the types.
LEMMA ContextStep ==
    ASSUME TypeOK, NEW p \in Proc, NEW c \in ContextType, NEW l \in Steps \cup Ended,
           ctx' = [ctx EXCEPT ![p] = c], Goto(p, l),
           UNCHANGED <<env, prepared, answer, cursor, signedAt>>
    PROVE  TypeOK'
  BY DEF TypeOK, Goto, env, ledger

LEMMA TypeStep ==
    ASSUME FlowInv, [Next]_vars
    PROVE  TypeOK'
<1> USE DEF FlowInv
<1>0. TypeOK /\ (\A p \in Proc : ctx[p] \in ContextType /\ ProcessInv(p))
  BY DEF TypeOK
<1>1. ASSUME NEW p \in Proc, CmdStart(p) PROVE TypeOK'
  <2>1. PICK j \in Job : /\ ctx' = [ctx EXCEPT ![p].job = j]
                         /\ Goto(p, IF UsageError(j) THEN "usage" ELSE "account")
    BY <1>1 DEF CmdStart
  <2>2. [ctx[p] EXCEPT !.job = j] \in ContextType
    BY <1>0, ContextUpdate
  <2>3. ctx' = [ctx EXCEPT ![p] = [ctx[p] EXCEPT !.job = j]]
    BY <1>0, <2>1 DEF TypeOK
  <2>4. (IF UsageError(j) THEN "usage" ELSE "account") \in Steps \cup Ended
    BY DEF Steps, Ended
  <2> QED
    BY <1>0, <1>1, <2>1, <2>2, <2>3, <2>4, ContextStep DEF CmdStart
<1>2. ASSUME NEW p \in Proc, ReadAccount(p) PROVE TypeOK'
  <2> DEFINE j == ctx[p].job
  <2>1. CASE pc' = [pc EXCEPT ![p] = "aborted"] /\ ctx' = ctx
    BY <1>0, <1>2, <2>1 DEF ReadAccount, TypeOK, Steps, Ended, env, ledger
  <2>2. CASE ~(pc' = [pc EXCEPT ![p] = "aborted"] /\ ctx' = ctx)
    <3>1. PICK a \in (IF j.sweep THEN SweepAmounts(j) ELSE {j.amount}), f \in Fee :
            ctx' = [ctx EXCEPT ![p].acct =
              [nonce |-> ethNonce, coins |-> Coin \ spent, fee |-> f, amount |-> a]]
      BY <1>2, <2>2 DEF ReadAccount, Goto
    <3>2. a \in Nat
      <4>1. j \in JobType \cup {IdleJob}
        BY <1>0, ConstantsAssumption DEF ContextType
      <4>2. j.amount \in Nat
        BY <4>1 DEF JobType, IdleJob
      <4> QED
        BY <4>2, ConstantsAssumption DEF SweepAmounts
    <3>3. f \in Nat
      BY ConstantsAssumption
    <3> DEFINE ac == [nonce |-> ethNonce, coins |-> Coin \ spent, fee |-> f, amount |-> a]
    <3>4. ac \in [nonce : Nat, coins : SUBSET Coin, fee : Nat, amount : Nat]
      BY <1>0, <3>2, <3>3 DEF TypeOK
    <3>5. [ctx[p] EXCEPT !.acct = ac] \in ContextType
      <4> HIDE DEF ac
      <4> QED BY <1>0, <3>4, ContextUpdate
    <3>6. ctx' = [ctx EXCEPT ![p] = [ctx[p] EXCEPT !.acct = ac]]
      BY <1>0, <3>1 DEF TypeOK
    <3>7. AfterAccount(j) \in Steps \cup Ended
      BY DEF AfterAccount, Steps
    <3>8. Goto(p, AfterAccount(j)) /\ UNCHANGED <<env, prepared, answer, cursor, signedAt>>
      BY <1>2, <2>2 DEF ReadAccount, Goto
    <3> QED
      BY <1>0, <3>5, <3>6, <3>7, <3>8, ContextStep
  <2> QED
    BY <2>1, <2>2
<1>3. ASSUME NEW p \in Proc, SelectBackend(p) PROVE TypeOK'
  <2>1. CASE pc' = [pc EXCEPT ![p] = "aborted"] /\ ctx' = ctx
    BY <1>0, <1>3, <2>1 DEF SelectBackend, TypeOK, Steps, Ended, env, ledger
  <2>2. CASE ~(pc' = [pc EXCEPT ![p] = "aborted"] /\ ctx' = ctx)
    <3>1. PICK b \in Backend : ctx' = [ctx EXCEPT ![p].backend = b]
      <4>1. ctx[p].job.backend # "auto" => ctx[p].job.backend \in Backend
        BY <1>0, ConstantsAssumption DEF ContextType, JobType, IdleJob
      <4> QED
        BY <1>3, <2>2, <4>1 DEF SelectBackend, Goto
    <3>2. ctx' = [ctx EXCEPT ![p] = [ctx[p] EXCEPT !.backend = b]]
      BY <1>0, <3>1 DEF TypeOK
    <3>3. [ctx[p] EXCEPT !.backend = b] \in ContextType
      BY <1>0, ContextUpdate
    <3>4. Goto(p, "now") /\ UNCHANGED <<env, prepared, answer, cursor, signedAt>>
      BY <1>3, <2>2 DEF SelectBackend, Goto
    <3>5. "now" \in Steps \cup Ended
      BY DEF Steps
    <3> QED
      BY <1>0, <3>2, <3>3, <3>4, <3>5, ContextStep
  <2> QED
    BY <2>1, <2>2
<1>4. ASSUME NEW p \in Proc, ReadClock(p) PROVE TypeOK'
  <2> DEFINE b == IF isLP(ctx[p].job) THEN ctx[p].job.backend ELSE ctx[p].backend
  <2>1. b \in Backend \cup {"none"}
    BY <1>0, <1>4, ConstantsAssumption DEF ReadClock, ProcessInv, ContextType
  <2>2. ctx' = [ctx EXCEPT ![p] = [ctx[p] EXCEPT !.now = clock, !.backend = b]]
    BY <1>0, <1>4 DEF ReadClock, TypeOK
  <2>3. clock \in Nat
    BY <1>0 DEF TypeOK
  <2>4. [ctx[p] EXCEPT !.now = clock, !.backend = b] \in ContextType
    <3> HIDE DEF b
    <3> QED BY <1>0, <2>1, <2>3, ContextUpdate
  <2>5. "inbound" \in Steps \cup Ended
    BY DEF Steps
  <2> QED
    BY <1>0, <1>4, <2>2, <2>4, <2>5, ContextStep DEF ReadClock
<1>5. ASSUME NEW p \in Proc, InboundAddresses(p) PROVE TypeOK'
  <2> DEFINE n == net[ctx[p].backend]
  <2>1. PICK v \in {n.vault, NoAddr} :
            /\ ctx' = [ctx EXCEPT ![p].status = [n EXCEPT !.vault = v]]
            /\ Goto(p, IF n.tradable /\ (isLP(ctx[p].job) => v # NoAddr)
                       THEN AfterInbound(ctx[p].job) ELSE "aborted")
    BY <1>5 DEF InboundAddresses
  <2>2. n \in NetType
    BY <1>0, <1>5 DEF InboundAddresses, ProcessInv, TypeOK
  <2>3. [n EXCEPT !.vault = v] \in
            [tradable : BOOLEAN, lpPaused : BOOLEAN, vault : Vault \cup {NoAddr}]
    <3> HIDE DEF n
    <3> QED BY <2>1, <2>2 DEF NetType
  <2>4. [ctx[p] EXCEPT !.status = [n EXCEPT !.vault = v]] \in ContextType
    <3> HIDE DEF n
    <3> QED BY <1>0, <2>3, ContextUpdate
  <2>5. ctx' = [ctx EXCEPT ![p] = [ctx[p] EXCEPT !.status = [n EXCEPT !.vault = v]]]
    BY <1>0, <2>1 DEF TypeOK
  <2>6. (IF n.tradable /\ (isLP(ctx[p].job) => v # NoAddr)
         THEN AfterInbound(ctx[p].job) ELSE "aborted") \in Steps \cup Ended
    BY DEF AfterInbound, Steps, Ended
  <2> QED
    BY <1>0, <1>5, <2>1, <2>4, <2>5, <2>6, ContextStep DEF InboundAddresses
<1>6. ASSUME NEW p \in Proc, Mimir(p) PROVE TypeOK'
  BY <1>0, <1>6 DEF Mimir, TypeOK, Goto, env, ledger, locals, Steps, Ended
<1>7. ASSUME NEW p \in Proc, QuoteSwap(p) PROVE TypeOK'
  <2>1. CASE pc' = [pc EXCEPT ![p] = "aborted"] /\ ctx' = ctx
    BY <1>0, <1>7, <2>1 DEF QuoteSwap, TypeOK, Steps, Ended, env, ledger
  <2>2. CASE ~(pc' = [pc EXCEPT ![p] = "aborted"] /\ ctx' = ctx)
    <3>1. PICK m \in Memo \cup {NoMemo}, life \in Lifetime, min \in MinAmount,
             r \in {Router, NoAddr} :
            /\ ctx' = [ctx EXCEPT ![p].quote =
                    [vault |-> net[ctx[p].backend].vault, router |-> r, memo |-> m,
                     expiry |-> clock + life, min |-> min]]
            /\ Goto(p, IF ctx[p].acct.amount < min \/ m = NoMemo THEN "aborted"
                       ELSE "build")
      BY <1>7, <2>2 DEF QuoteSwap, Goto
    <3> DEFINE q == [vault |-> net[ctx[p].backend].vault, router |-> r, memo |-> m,
                     expiry |-> clock + life, min |-> min]
    <3>2. q \in QuoteType
      <4>1. net[ctx[p].backend].vault \in Vault
        BY <1>0, <1>7 DEF QuoteSwap, ProcessInv, TypeOK, NetType
      <4>2. clock + life \in Int /\ min \in Nat
        BY <1>0, ConstantsAssumption DEF TypeOK
      <4> QED
        BY <4>1, <4>2 DEF QuoteType
    <3>3. [ctx[p] EXCEPT !.quote = q] \in ContextType
      <4> HIDE DEF q
      <4> QED BY <1>0, <3>2, ContextUpdate
    <3>4. ctx' = [ctx EXCEPT ![p] = [ctx[p] EXCEPT !.quote = q]]
      BY <1>0, <3>1 DEF TypeOK
    <3>5. (IF ctx[p].acct.amount < min \/ m = NoMemo THEN "aborted" ELSE "build")
            \in Steps \cup Ended
      BY DEF Steps, Ended
    <3>6. UNCHANGED <<env, prepared, answer, cursor, signedAt>>
      BY <1>7 DEF QuoteSwap
    <3> QED
      BY <1>0, <3>1, <3>3, <3>4, <3>5, <3>6, ContextStep
  <2> QED
    BY <2>1, <2>2
<1>8. ASSUME NEW p \in Proc, BuildAndVerify(p) PROVE TypeOK'
  BY <1>0, <1>8 DEF BuildAndVerify, TypeOK, Goto, env, ledger, Steps, Ended
<1>9. ASSUME NEW p \in Proc, Confirm(p) PROVE TypeOK'
  BY <1>0, <1>9 DEF Confirm, TypeOK, Goto, env, ledger, locals, Steps, Ended
<1>10. ASSUME NEW p \in Proc, Prompt(p) PROVE TypeOK'
  BY <1>0, <1>10 DEF Prompt, TypeOK, Goto, env, ledger, Steps, Ended
<1>11. ASSUME NEW p \in Proc, ExecuteSwap(p) PROVE TypeOK'
  BY <1>0, <1>11 DEF ExecuteSwap, TypeOK, Goto, env, ledger, Steps, Ended
<1>12. ASSUME NEW p \in Proc, Broadcast(p) PROVE TypeOK'
  <2> DEFINE tx == prepared[p].txs[cursor[p]]
             last == cursor[p] = Len(prepared[p].txs)
  <2>1. /\ pc[p] = "post" /\ Posting(p)
        /\ UNCHANGED <<clock, net, ctx, prepared, answer, signedAt>>
    BY <1>12 DEF Broadcast, Posting
  <2>2. cursor[p] \in 1 .. Len(prepared[p].txs) /\ Len(prepared[p].txs) \in 1 .. 2
    BY <1>0, <2>1, AtCursor
  <2>3. /\ pc' \in [Proc -> {"idle"} \cup Steps \cup Ended]
        /\ cursor' \in [Proc -> 0 .. 2] /\ inflight' \subseteq Proc
    <3>1. PICK l \in {"post", "done", "failed", "crashed"} : pc' = [pc EXCEPT ![p] = l]
      BY <1>12 DEF Broadcast, Advance, Goto, Unanswered
    <3>2. cursor' = cursor \/ (~last /\ cursor' = [cursor EXCEPT ![p] = @ + 1])
      BY <1>12 DEF Broadcast, Advance
    <3>3. pc' \in [Proc -> {"idle"} \cup Steps \cup Ended]
      BY <1>0, <3>1 DEF TypeOK, Steps, Ended
    <3>4. cursor' \in [Proc -> 0 .. 2]
      <4>1. \A n \in 1 .. 2 : \A k \in 1 .. n : k # n => k + 1 \in 0 .. 2
        OBVIOUS
      <4>2. ~last => cursor[p] + 1 \in 0 .. 2
        BY <2>2, <4>1
      <4> QED
        BY <1>0, <3>2, <4>2 DEF TypeOK
    <3>5. inflight' \subseteq Proc
      BY <1>0, <1>12 DEF Broadcast, TypeOK
    <3> QED
      BY <3>3, <3>4, <3>5
  <2>4. CASE UNCHANGED ledger
    BY <1>0, <2>1, <2>3, <2>4 DEF TypeOK, ledger
  <2>5. CASE Accept(p, tx)
    BY <1>0, <2>1, <2>3, <2>5, AcceptTypes DEF TypeOK
  <2> QED
    BY <1>12, <2>4, <2>5 DEF Broadcast
<1>13. ASSUME NEW p \in Proc, Kill(p) PROVE TypeOK'
  BY <1>0, <1>13 DEF Kill, TypeOK, Goto, env, ledger, locals, Steps, Ended
<1>14. CASE Tick
  BY <1>0, <1>14 DEF Tick, TypeOK, ledger, locals
<1>15. ASSUME NEW b \in Backend, NetworkChange(b) PROVE TypeOK'
  BY <1>0, <1>15 DEF NetworkChange, NetType, TypeOK, ledger, locals
<1>17. ASSUME NEW p \in Proc, LateAccept(p) PROVE TypeOK'
  <2>1. /\ Posting(p) /\ Accept(p, prepared[p].txs[cursor[p]])
        /\ inflight' \subseteq Proc /\ UNCHANGED <<clock, net, pc, locals>>
    BY <1>0, <1>17 DEF LateAccept, Posting, TypeOK
  <2> QED
    BY <1>0, <2>1, AcceptTypes DEF TypeOK, locals
<1>16. CASE UNCHANGED vars
  BY <1>0, <1>16 DEF vars, TypeOK, env, ledger, locals
<1> QED
  BY <1>1, <1>2, <1>3, <1>4, <1>5, <1>6, <1>7, <1>8, <1>9, <1>10, <1>11, <1>12,
     <1>13, <1>14, <1>15, <1>16, <1>17 DEF Next, Step

---------------------------------------------------------------------------
\* The inductive invariant: frames

\* An invocation that does not move keeps what it has established, whatever
\* the clock, the networks and the other invocations do.
LEMMA ProcessFrame ==
    ASSUME TypeOK, TypeOK', NEW p \in Proc, ProcessInv(p),
           pc'[p] = pc[p], ctx'[p] = ctx[p], prepared'[p] = prepared[p],
           answer'[p] = answer[p], cursor'[p] = cursor[p], signedAt'[p] = signedAt[p],
           p \in inflight' => p \in inflight, clock <= clock', chain \subseteq chain'
    PROVE  ProcessInv(p)'
<1>1. Verified(p)' <=> Verified(p)
  BY SignedFrame
<1>2. Approved(p)' <=> Approved(p)
  BY SignedFrame
<1>3. Signed(p)' <=> Signed(p)
  BY SignedFrame
<1>4. /\ AmountRead(p)' <=> AmountRead(p)
      /\ \A i : OnChain(p, i) => OnChain(p, i)'
      /\ Posting(p)' => Posting(p)
  BY DEF OnChain, AmountRead, Posting
<1>5. ctx'[p].now <= clock'
  BY DEF ProcessInv, TypeOK, ContextType
<1> QED
  BY <1>1, <1>2, <1>3, <1>4, <1>5 DEF ProcessInv

LEMMA EntryFrame ==
    ASSUME NEW e, e.p \in Proc, EntryInv(e),
           pc'[e.p] = pc[e.p] \/ pc'[e.p] \in Late,
           ctx'[e.p] = ctx[e.p], prepared'[e.p] = prepared[e.p],
           answer'[e.p] = answer[e.p], cursor'[e.p] = cursor[e.p],
           signedAt'[e.p] = signedAt[e.p]
    PROVE  EntryInv(e)'
<1>1. Signed(e.p)' <=> Signed(e.p)
  BY SignedFrame
<1> QED
  BY <1>1 DEF EntryInv

\* Before the invocation signs, nothing of it is on a chain: whatever it does
\* to its own locals, the invariant of the entries stays.
LEMMA EarlyEntries ==
    ASSUME FlowInv, NEW q \in Proc, Step(q) \/ Kill(q), pc[q] \notin Late, chain' = chain
    PROVE  \A e \in chain' : EntryInv(e)'
<1> SUFFICES ASSUME NEW e \in chain PROVE EntryInv(e)'
  OBVIOUS
<1>1. e.p \in Proc /\ EntryInv(e) /\ TypeOK
  BY DEF FlowInv, TypeOK
<1>2. e.p # q
  BY <1>1 DEF EntryInv
<1> QED
  BY <1>1, <1>2, OthersUntouched, EntryFrame

\* The part of the invariant that concerns an invocation before its build.
LEMMA EarlyInv ==
    ASSUME NEW q \in Proc, q \notin inflight',
           pc'[q] \in {"usage", "account", "select", "now", "inbound", "mimir",
                       "quote", "build", "aborted", "dry", "declined", "failed",
                       "crashed", "killed"},
           ctx'[q].now <= clock',
           pc'[q] # "usage" => ctx'[q].job \in Job /\ ~UsageError(ctx'[q].job),
           pc'[q] \in {"select", "now", "inbound", "mimir", "quote", "build"} =>
                AmountRead(q)',
           pc'[q] = "select" => isSwap(ctx'[q].job),
           pc'[q] = "now" => isLP(ctx'[q].job) \/ ctx'[q].backend \in Backend,
           pc'[q] \in {"inbound", "mimir", "quote"} => ctx'[q].backend \in Backend
    PROVE  ProcessInv(q)'
  BY DEF ProcessInv, Posting, UsageError, isSwap, isLP

\* What an own step has to show, for the invariant of every invocation.
LEMMA OthersInv ==
    ASSUME FlowInv, TypeOK', NEW q \in Proc, Step(q) \/ Kill(q) \/ LateAccept(q),
           clock' = clock, chain \subseteq chain', ProcessInv(q)'
    PROVE  \A p \in Proc : ProcessInv(p)'
<1> SUFFICES ASSUME NEW p \in Proc, p # q PROVE ProcessInv(p)'
  OBVIOUS
<1>1. TypeOK /\ ProcessInv(p) /\ clock \in Nat
  BY DEF FlowInv, TypeOK
<1> QED
  BY <1>1, OthersUntouched, ProcessFrame

---------------------------------------------------------------------------
\* The inductive invariant: one lemma per phase of an invocation

\* Up to the quote an invocation only fills in its context.
LEMMA ReadingStep ==
    ASSUME FlowInv, TypeOK', NEW q \in Proc,
           \/ CmdStart(q) \/ ReadAccount(q) \/ SelectBackend(q) \/ ReadClock(q)
           \/ InboundAddresses(q) \/ Mimir(q) \/ QuoteSwap(q)
    PROVE  FlowInv'
<1>0. /\ TypeOK /\ ProcessInv(q) /\ ctx[q] \in ContextType
      /\ clock \in Nat /\ ctx[q].now \in Nat
  BY DEF FlowInv, TypeOK, ContextType
<1>1. /\ Step(q) /\ clock' = clock /\ chain' = chain
      /\ q \notin inflight' /\ ~Posting(q)'
  <2>1. Step(q) /\ clock' = clock /\ chain' = chain /\ inflight' = inflight
    BY DEF Step, CmdStart, ReadAccount, SelectBackend, ReadClock, InboundAddresses,
           Mimir, QuoteSwap, env, ledger
  <2>2. q \notin inflight
    BY <1>0 DEF ProcessInv, CmdStart, ReadAccount, SelectBackend, ReadClock,
                InboundAddresses, Mimir, QuoteSwap
  <2>3. pc'[q] # "post"
    BY <1>0 DEF CmdStart, ReadAccount, SelectBackend, ReadClock, InboundAddresses,
                Mimir, QuoteSwap, AfterAccount, AfterInbound, Goto, TypeOK
  <2> QED
    BY <2>1, <2>2, <2>3 DEF Posting
<1>2. pc[q] \notin Late
  BY DEF CmdStart, ReadAccount, SelectBackend, ReadClock, InboundAddresses,
         Mimir, QuoteSwap, Late
<1>3. ProcessInv(q)'
  <2>1. CASE CmdStart(q)
    <3>1. PICK j \in Job : /\ ctx' = [ctx EXCEPT ![q].job = j]
                           /\ pc' = [pc EXCEPT ![q] = IF UsageError(j) THEN "usage" ELSE "account"]
      BY <2>1 DEF CmdStart, Goto
    <3>2. ctx'[q].job = j /\ ctx'[q].now = ctx[q].now
      BY <1>0, <3>1 DEF TypeOK, ContextType
    <3>3. pc'[q] = IF UsageError(j) THEN "usage" ELSE "account"
      BY <1>0, <3>1 DEF TypeOK
    <3>4. ctx'[q].now <= clock'
      BY <1>0, <1>1, <3>2 DEF ProcessInv
    <3> QED
      BY <1>1, <3>2, <3>3, <3>4, EarlyInv DEF AmountRead
  <2>2. CASE ReadAccount(q)
    <3>1. /\ ctx'[q].job = ctx[q].job /\ ctx'[q].now = ctx[q].now
          /\ pc'[q] \in {AfterAccount(ctx[q].job), "aborted"}
      BY <1>0, <2>2 DEF ReadAccount, Goto, TypeOK, ContextType
    <3>5. pc'[q] # "aborted" => AmountRead(q)'
      <4> SUFFICES ASSUME pc'[q] # "aborted", ~ctx[q].job.sweep
                   PROVE  ctx'[q].acct.amount = ctx[q].job.amount
        BY <3>1 DEF AmountRead
      <4>1. PICK f \in Fee : ctx' = [ctx EXCEPT ![q].acct =
                [nonce |-> ethNonce, coins |-> Coin \ spent, fee |-> f,
                 amount |-> ctx[q].job.amount]]
        BY <1>0, <2>2 DEF ReadAccount, Goto, TypeOK
      <4> QED
        BY <1>0, <4>1 DEF TypeOK, ContextType
    <3>2. ctx[q].job \in Job /\ ~UsageError(ctx[q].job) /\ ctx[q].now <= clock
      BY <1>0, <2>2 DEF ProcessInv, ReadAccount
    <3>3. ctx[q].job.cmd \in {"swap", "send", "add", "withdraw"}
      BY <3>2, ConstantsAssumption DEF JobType
    <3>4. /\ AfterAccount(ctx[q].job) \in {"select", "build", "now"}
          /\ AfterAccount(ctx[q].job) = "select" => isSwap(ctx[q].job)
          /\ AfterAccount(ctx[q].job) = "now" => isLP(ctx[q].job)
      BY <3>3 DEF AfterAccount, isSwap, isSend, isLP
    <3> QED
      BY <1>1, <3>1, <3>2, <3>5, <3>4, EarlyInv DEF AmountRead
  <2>3. CASE SelectBackend(q)
    <3>1. ctx[q].job \in Job /\ ~UsageError(ctx[q].job) /\ ctx[q].now <= clock /\ AmountRead(q)
      BY <1>0, <2>3 DEF ProcessInv, SelectBackend
    <3>2. ctx[q].job.backend # "auto" => ctx[q].job.backend \in Backend
      BY <3>1, ConstantsAssumption DEF JobType
    <3>3. /\ ctx'[q].job = ctx[q].job /\ ctx'[q].acct = ctx[q].acct
          /\ ctx'[q].now = ctx[q].now
          /\ pc'[q] \in {"now", "aborted"}
          /\ pc'[q] = "now" => ctx'[q].backend \in Backend
      BY <1>0, <2>3, <3>2 DEF SelectBackend, Goto, TypeOK, ContextType
    <3> QED
      BY <1>1, <3>1, <3>3, EarlyInv DEF AmountRead
  <2>4. CASE ReadClock(q)
    <3> DEFINE b == IF isLP(ctx[q].job) THEN ctx[q].job.backend ELSE ctx[q].backend
    <3>1. /\ ctx'[q].job = ctx[q].job /\ ctx'[q].acct = ctx[q].acct
          /\ ctx'[q].now = clock /\ pc'[q] = "inbound"
          /\ ctx'[q].backend = b
      <4>1. ctx' = [ctx EXCEPT ![q] = [ctx[q] EXCEPT !.now = clock, !.backend = b]]
        BY <1>0, <2>4 DEF ReadClock, TypeOK
      <4>2. ctx'[q] = [ctx[q] EXCEPT !.now = clock, !.backend = b]
        BY <1>0, <4>1 DEF TypeOK
      <4>3. pc'[q] = "inbound"
        BY <1>0, <2>4 DEF ReadClock, Goto, TypeOK
      <4> HIDE DEF b
      <4> QED
        BY <1>0, <4>2, <4>3 DEF ContextType
    <3>2. ctx[q].job \in Job /\ ~UsageError(ctx[q].job) /\ AmountRead(q)
      BY <1>0, <2>4 DEF ProcessInv, ReadClock
    <3>3. ctx'[q].backend \in Backend
      BY <1>0, <2>4, <3>1, <3>2, ConstantsAssumption DEF ProcessInv, ReadClock
    <3> QED
      BY <1>0, <1>1, <3>1, <3>2, <3>3, EarlyInv DEF AmountRead
  <2>5. CASE InboundAddresses(q)
    <3>1. /\ ctx'[q].job = ctx[q].job /\ ctx'[q].acct = ctx[q].acct
          /\ ctx'[q].now = ctx[q].now
          /\ ctx'[q].backend = ctx[q].backend
          /\ pc'[q] \in {"quote", "mimir", "build", "aborted"}
      BY <1>0, <2>5 DEF InboundAddresses, Goto, AfterInbound, TypeOK, ContextType
    <3>2. /\ ctx[q].job \in Job /\ ~UsageError(ctx[q].job) /\ ctx[q].now <= clock
          /\ ctx[q].backend \in Backend /\ AmountRead(q)
      BY <1>0, <2>5 DEF ProcessInv, InboundAddresses
    <3> QED
      BY <1>1, <3>1, <3>2, EarlyInv DEF AmountRead
  <2>6. CASE Mimir(q)
    <3>1. ctx' = ctx /\ pc'[q] \in {"build", "aborted"}
      BY <1>0, <2>6 DEF Mimir, Goto, TypeOK, locals
    <3>2. ctx[q].job \in Job /\ ~UsageError(ctx[q].job) /\ ctx[q].now <= clock /\ AmountRead(q)
      BY <1>0, <2>6 DEF ProcessInv, Mimir
    <3> QED
      BY <1>1, <3>1, <3>2, EarlyInv DEF AmountRead
  <2>7. CASE QuoteSwap(q)
    <3>1. /\ ctx'[q].job = ctx[q].job /\ ctx'[q].acct = ctx[q].acct
          /\ ctx'[q].now = ctx[q].now
          /\ pc'[q] \in {"build", "aborted"}
      BY <1>0, <2>7 DEF QuoteSwap, Goto, TypeOK, ContextType
    <3>2. ctx[q].job \in Job /\ ~UsageError(ctx[q].job) /\ ctx[q].now <= clock /\ AmountRead(q)
      BY <1>0, <2>7 DEF ProcessInv, QuoteSwap
    <3> QED
      BY <1>1, <3>1, <3>2, EarlyInv DEF AmountRead
  <2> QED
    BY <2>1, <2>2, <2>3, <2>4, <2>5, <2>6, <2>7
<1>4. \A p \in Proc : ProcessInv(p)'
  BY <1>1, <1>3, OthersInv
<1>5. \A e \in chain' : EntryInv(e)'
  BY <1>1, <1>2, EarlyEntries
<1> QED
  BY <1>4, <1>5 DEF FlowInv

\* Building, gate, prompt and signature establish Verified, Approved and Signed.
LEMMA ApprovalStep ==
    ASSUME FlowInv, TypeOK', NEW q \in Proc,
           BuildAndVerify(q) \/ Confirm(q) \/ Prompt(q) \/ ExecuteSwap(q)
    PROVE  FlowInv'
<1>0. /\ TypeOK /\ ProcessInv(q) /\ ctx[q] \in ContextType
      /\ clock \in Nat /\ ctx[q].now \in Nat
  BY DEF FlowInv, TypeOK, ContextType
<1>1. /\ Step(q) /\ clock' = clock /\ chain' = chain /\ ctx' = ctx
      /\ q \notin inflight' /\ (Posting(q)' => pc'[q] = "post")
  <2>1. Step(q) /\ clock' = clock /\ chain' = chain /\ ctx' = ctx /\ inflight' = inflight
    BY DEF Step, BuildAndVerify, Confirm, Prompt, ExecuteSwap, env, ledger, locals
  <2>2. q \notin inflight
    BY <1>0 DEF ProcessInv, BuildAndVerify, Confirm, Prompt, ExecuteSwap
  <2> QED
    BY <2>1, <2>2 DEF Posting
<1>2. pc[q] \notin Late
  BY DEF BuildAndVerify, Confirm, Prompt, ExecuteSwap, Late
<1>3. ctx[q].job \in Job /\ ~UsageError(ctx[q].job) /\ ctx[q].now <= clock
  BY <1>0 DEF ProcessInv, BuildAndVerify, Confirm, Prompt, ExecuteSwap
<1>4. ProcessInv(q)'
  <2>1. CASE BuildAndVerify(q)
    <3>1. CASE pc'[q] \in {"aborted", "crashed"}
      BY <1>1, <1>3, <3>1, EarlyInv
    <3>2. CASE pc'[q] \notin {"aborted", "crashed"}
      <4>1. pc'[q] = "gated"
        BY <1>0, <2>1, <3>2 DEF BuildAndVerify, Goto, TypeOK
      <4>2. PICK txs \in BuiltTxs(ctx[q]) :
              prepared' = [prepared EXCEPT ![q] =
                 [txs |-> txs, plan |-> PlanOf(ctx[q]),
                  safe |-> Gate(ctx[q].job, txs, PlanOf(ctx[q]), ctx[q].now)]]
        BY <1>0, <2>1, <3>2 DEF BuildAndVerify, Goto, TypeOK
      <4>3. /\ prepared'[q].txs = txs /\ prepared'[q].plan = PlanOf(ctx[q])
            /\ prepared'[q].safe = Gate(ctx[q].job, txs, PlanOf(ctx[q]), ctx[q].now)
        BY <1>0, <4>2 DEF TypeOK
      <4>4. Verified(q)'
        BY <1>0, <1>1, <2>1, <4>3 DEF Verified, AmountRead, ProcessInv, BuildAndVerify
      <4> QED
        BY <1>1, <1>3, <4>1, <4>4 DEF ProcessInv
    <3> QED
      BY <3>1, <3>2
  <2>2. CASE Confirm(q)
    <3>1. /\ pc[q] = "gated" /\ prepared' = prepared /\ answer' = answer
          /\ signedAt' = signedAt /\ cursor' = cursor
          /\ pc'[q] = IF ~prepared[q].safe THEN "aborted"
                      ELSE IF ~ctx[q].job.confirm THEN "dry"
                      ELSE IF ctx[q].job.yes THEN "check" ELSE "prompt"
      BY <1>0, <2>2 DEF Confirm, Goto, TypeOK, locals
    <3>2. Verified(q)'
      BY <1>0, <1>1, <3>1, SignedFrame DEF ProcessInv
    <3>3. CASE pc'[q] \in {"aborted", "dry"}
      BY <1>1, <1>3, <3>3, EarlyInv
    <3>4. CASE pc'[q] \notin {"aborted", "dry"}
      <4>1. /\ prepared'[q].safe /\ ctx'[q].job.confirm /\ pc'[q] \in {"check", "prompt"}
            /\ pc'[q] = "check" => Approved(q)'
        BY <1>1, <3>1, <3>4 DEF Approved
      <4> QED
        BY <1>1, <1>3, <3>2, <4>1 DEF ProcessInv
    <3> QED
      BY <3>3, <3>4
  <2>3. CASE Prompt(q)
    <3>1. /\ pc[q] = "prompt" /\ prepared' = prepared
          /\ pc'[q] = "declined" \/ (pc'[q] = "check" /\ answer'[q] = "yes")
      BY <1>0, <2>3 DEF Prompt, Goto, TypeOK
    <3>2. Verified(q)'
      BY <1>0, <1>1, <3>1 DEF ProcessInv, Verified, AmountRead
    <3>3. CASE pc'[q] = "declined"
      BY <1>1, <1>3, <3>3, EarlyInv
    <3>4. CASE pc'[q] = "check" /\ answer'[q] = "yes"
      <4>1. prepared'[q].safe /\ ctx'[q].job.confirm /\ Approved(q)'
        BY <1>0, <1>1, <3>1, <3>4 DEF Approved, ProcessInv
      <4> QED
        BY <1>1, <1>3, <3>2, <3>4, <4>1 DEF ProcessInv
    <3> QED
      BY <3>1, <3>3, <3>4
  <2>4. CASE ExecuteSwap(q)
    <3>1. CASE Expired(prepared[q].plan)
      <4>1. pc'[q] = "aborted"
        BY <1>0, <2>4, <3>1 DEF ExecuteSwap, Goto, TypeOK
      <4> QED
        BY <1>1, <1>3, <4>1, EarlyInv
    <3>2. CASE ~Expired(prepared[q].plan)
      <4>1. /\ pc[q] = "check" /\ pc'[q] = "post" /\ cursor'[q] = 1
            /\ signedAt'[q] = clock /\ prepared' = prepared /\ answer' = answer
        BY <1>0, <2>4, <3>2 DEF ExecuteSwap, Goto, TypeOK
      <4>2. /\ Verified(q) /\ prepared[q].safe /\ ctx[q].job.confirm /\ Approved(q)
        BY <1>0, <4>1 DEF ProcessInv
      <4>3. Verified(q)' /\ Approved(q)'
        BY <1>1, <4>1, <4>2 DEF Verified, Approved, AmountRead
      <4>4. prepared[q].txs \in BuiltTxs(ctx[q]) /\ prepared[q].plan = PlanOf(ctx[q])
        BY <4>2 DEF Verified
      <4>5. prepared[q].plan.expiry # NoExpiry => prepared[q].plan.expiry \in Int
        BY <1>0, <4>4, ConstantsAssumption DEF PlanOf, ContextType, QuoteType
      <4>6. prepared[q].plan.expiry # NoExpiry => clock < prepared[q].plan.expiry
        BY <1>0, <3>2, <4>5 DEF Expired
      <4>7. 1 \in 1 .. Len(prepared[q].txs)
        <5>1. \A n \in 1 .. 2 : 1 \in 1 .. n
          OBVIOUS
        <5> QED
          BY <1>0, <4>4, <5>1, BuiltShape
      <4>8. Signed(q)'
        BY <1>1, <1>3, <4>1, <4>2, <4>3, <4>6, <4>7 DEF Signed
      <4> QED
        BY <1>1, <1>3, <4>1, <4>8 DEF ProcessInv
    <3> QED
      BY <3>1, <3>2
  <2> QED
    BY <2>1, <2>2, <2>3, <2>4
<1>5. \A p \in Proc : ProcessInv(p)'
  BY <1>1, <1>4, OthersInv
<1>6. \A e \in chain' : EntryInv(e)'
  BY <1>1, <1>2, EarlyEntries
<1> QED
  BY <1>5, <1>6 DEF FlowInv

\* Posting: the transaction at the cursor is signed; it reaches the chain or
\* not, and the cursor moves on only after an answer.
LEMMA BroadcastStep ==
    ASSUME FlowInv, TypeOK', NEW q \in Proc, Broadcast(q)
    PROVE  FlowInv'
<1> DEFINE tx == prepared[q].txs[cursor[q]]
           n == Len(prepared[q].txs)
<1>0. /\ TypeOK /\ ProcessInv(q) /\ ctx[q] \in ContextType
      /\ clock \in Nat /\ ctx[q].now \in Nat /\ pc[q] = "post"
  BY DEF FlowInv, TypeOK, ContextType, Broadcast
<1>1. /\ Step(q) /\ clock' = clock /\ ctx' = ctx /\ prepared' = prepared
      /\ answer' = answer /\ signedAt' = signedAt
  BY DEF Step, Broadcast
<1>2. /\ ctx[q].job \in Job /\ ~UsageError(ctx[q].job) /\ ctx[q].now <= clock
      /\ Signed(q) /\ Posting(q) /\ q \notin inflight
      /\ "null" \notin Reply => \A i \in 1 .. cursor[q] - 1 : OnChain(q, i)
  BY <1>0 DEF ProcessInv, Posting
<1>3. cursor[q] \in 1 .. n /\ n \in 1 .. 2 /\ DOMAIN prepared[q].txs = 1 .. n
  BY <1>0, <1>2, AtCursor, BuiltShape
<1>4. /\ chain \subseteq chain'
      /\ \A e \in chain' \ chain : e.p = q /\ e.i = cursor[q] /\ e.tx = tx
  BY DEF Broadcast, Accept, ledger
<1>5. \/ /\ pc'[q] \in {"failed", "crashed"} /\ cursor' = cursor
      \/ /\ pc'[q] = "done" /\ cursor' = cursor /\ cursor[q] = n /\ q \notin inflight'
         /\ "null" \notin Reply => \E e \in chain' : e.p = q /\ e.i = cursor[q]
      \/ /\ pc'[q] = "post" /\ cursor[q] # n /\ cursor'[q] = cursor[q] + 1
         /\ q \notin inflight'
         /\ "null" \notin Reply => \E e \in chain' : e.p = q /\ e.i = cursor[q]
  <2>1. Accept(q, tx) => \E e \in chain' : e.p = q /\ e.i = cursor[q]
    <3> SUFFICES ASSUME Accept(q, tx) PROVE \E e \in chain' : e.p = q /\ e.i = cursor[q]
      OBVIOUS
    <3>1. PICK ok \in BOOLEAN :
            chain' = chain \cup {[p |-> q, i |-> cursor[q], tx |-> tx, ok |-> ok]}
      BY DEF Accept
    <3> DEFINE new == [p |-> q, i |-> cursor[q], tx |-> tx, ok |-> ok]
    <3>2. new \in chain' /\ new.p = q /\ new.i = cursor[q]
      BY <3>1
    <3> HIDE DEF new
    <3> QED
      BY <3>2
  <2>2. \A l \in {"failed", "crashed", "done", "post"} : Goto(q, l) => pc'[q] = l
    BY <1>0 DEF Goto, TypeOK
  <2>3. cursor' = [cursor EXCEPT ![q] = @ + 1] => cursor'[q] = cursor[q] + 1
    BY <1>0 DEF TypeOK
  <2>4. Unanswered(q) \in {"failed", "crashed"}
    BY DEF Unanswered
  <2>5. \/ (Goto(q, "failed") \/ Goto(q, Unanswered(q))) /\ cursor' = cursor
        \/ /\ Accept(q, tx) \/ "null" \in Reply
           /\ Goto(q, IF cursor[q] = n THEN "done" ELSE "post")
           /\ cursor' = IF cursor[q] = n THEN cursor ELSE [cursor EXCEPT ![q] = @ + 1]
           /\ q \notin inflight'
    BY <1>2 DEF Broadcast, Advance
  <2>6. CASE (Goto(q, "failed") \/ Goto(q, Unanswered(q))) /\ cursor' = cursor
    BY <2>2, <2>4, <2>6
  <2>7. CASE /\ Accept(q, tx) \/ "null" \in Reply
             /\ Goto(q, "done") /\ cursor' = cursor /\ cursor[q] = n /\ q \notin inflight'
    BY <2>1, <2>2, <2>7
  <2>8. CASE /\ Accept(q, tx) \/ "null" \in Reply
             /\ Goto(q, "post") /\ cursor[q] # n /\ q \notin inflight'
             /\ cursor' = [cursor EXCEPT ![q] = @ + 1]
    BY <2>1, <2>2, <2>3, <2>8
  <2> QED
    BY <2>5, <2>6, <2>7, <2>8
<1>6. /\ pc'[q] \in Late
      /\ cursor[q] <= cursor'[q] /\ cursor'[q] \in 1 .. n
  <2>1. \A m \in 1 .. 2 : \A k \in 1 .. m : k # m => k <= k + 1 /\ k + 1 \in 1 .. m
    OBVIOUS
  <2>2. cursor[q] <= cursor[q]
    BY <1>3
  <2> QED
    BY <1>3, <1>5, <2>1, <2>2 DEF Late
<1>7. Signed(q)'
  <2>1. Verified(q)' /\ Approved(q)'
    BY <1>1, <1>2 DEF Signed, Verified, Approved, AmountRead
  <2> QED
    BY <1>1, <1>2, <1>6, <2>1 DEF Signed
<1>8. "null" \notin Reply => \A i \in 1 .. cursor[q] - 1 : OnChain(q, i)'
  BY <1>2, <1>4 DEF OnChain
<1>9. ProcessInv(q)'
  <2>1. CASE pc'[q] \in {"failed", "crashed"} /\ cursor' = cursor
    BY <1>1, <1>2, <1>7, <1>8, <2>1 DEF ProcessInv
  <2>2. CASE /\ pc'[q] = "done" /\ cursor[q] = n /\ q \notin inflight'
             /\ "null" \notin Reply => \E e \in chain' : e.p = q /\ e.i = cursor[q]
    <3>1. \A i \in 1 .. n : i \in 1 .. n - 1 \/ i = n
      BY <1>3
    <3>2. "null" \notin Reply => \A i \in DOMAIN prepared'[q].txs : OnChain(q, i)'
      BY <1>1, <1>3, <1>8, <2>2, <3>1 DEF OnChain
    <3> QED
      BY <1>1, <1>2, <2>2, <3>2 DEF ProcessInv, Posting
  <2>3. CASE /\ pc'[q] = "post" /\ cursor'[q] = cursor[q] + 1 /\ q \notin inflight'
             /\ "null" \notin Reply => \E e \in chain' : e.p = q /\ e.i = cursor[q]
    <3> DEFINE k == cursor[q]
    <3>0. k \in Int /\ cursor'[q] = k + 1
      BY <1>3, <2>3
    <3>1. \A i \in 1 .. cursor'[q] - 1 : i \in 1 .. k - 1 \/ i = k
      <4> HIDE DEF k
      <4> QED BY <3>0
    <3>2. "null" \notin Reply => \A i \in 1 .. cursor'[q] - 1 : OnChain(q, i)'
      BY <1>8, <2>3, <3>1 DEF OnChain
    <3> QED
      BY <1>1, <1>2, <1>7, <2>3, <3>2 DEF ProcessInv
  <2> QED
    BY <1>5, <2>1, <2>2, <2>3
<1>10. \A p \in Proc : ProcessInv(p)'
  BY <1>1, <1>4, <1>9, OthersInv
<1>11. ASSUME NEW e \in chain' PROVE EntryInv(e)'
  <2>1. CASE e \in chain /\ e.p # q
    <3>1. e.p \in Proc /\ EntryInv(e)
      BY <2>1 DEF FlowInv, TypeOK
    <3> QED
      BY <1>0, <1>1, <2>1, <3>1, OthersUntouched, EntryFrame
  <2>2. CASE e \in chain /\ e.p = q
    <3>1. e.i \in 1 .. cursor[q] /\ e.tx = prepared[q].txs[e.i]
      BY <2>2 DEF FlowInv, EntryInv
    <3>2. e.i \in 1 .. cursor'[q]
      BY <1>3, <1>6, <3>1
    <3> QED
      BY <1>1, <1>6, <1>7, <2>2, <3>1, <3>2 DEF EntryInv
  <2>3. CASE e \notin chain
    <3>1. e.p = q /\ e.i = cursor[q] /\ e.tx = tx
      BY <1>4, <2>3
    <3>2. e.i \in 1 .. cursor'[q]
      BY <1>3, <1>6, <3>1
    <3> QED
      BY <1>1, <1>6, <1>7, <3>1, <3>2 DEF EntryInv
  <2> QED
    BY <2>1, <2>2, <2>3
<1> QED
  BY <1>10, <1>11 DEF FlowInv

\* A killed invocation leaves on the chains what it had posted, and may leave one
\* transaction under way.
LEMMA KillStep ==
    ASSUME FlowInv, TypeOK', NEW q \in Proc, Kill(q)
    PROVE  FlowInv'
<1>0. /\ TypeOK /\ ProcessInv(q) /\ clock' = clock /\ chain' = chain
      /\ ctx' = ctx /\ prepared' = prepared /\ answer' = answer /\ cursor' = cursor
      /\ signedAt' = signedAt /\ pc[q] \in Steps /\ pc'[q] = "killed"
      /\ q \in inflight' => Posting(q)
  BY DEF FlowInv, TypeOK, Kill, Goto, ledger, locals, Posting
<1>1. ctx[q].job \in Job /\ ~UsageError(ctx[q].job) /\ ctx[q].now <= clock
  BY <1>0 DEF ProcessInv, Steps
<1>2. ProcessInv(q)'
  <2>1. CASE q \notin inflight'
    BY <1>0, <1>1, <2>1, EarlyInv
  <2>2. CASE q \in inflight'
    <3>1. /\ Signed(q)
          /\ "null" \notin Reply => \A i \in 1 .. cursor[q] - 1 : OnChain(q, i)
      BY <1>0, <2>2 DEF ProcessInv
    <3>2. Signed(q)'
      BY <1>0, <3>1, SignedFrame
    <3>3. "null" \notin Reply => \A i \in 1 .. cursor'[q] - 1 : OnChain(q, i)'
      BY <1>0, <3>1 DEF OnChain
    <3> QED
      BY <1>0, <1>1, <3>2, <3>3 DEF ProcessInv
  <2> QED
    BY <2>1, <2>2
<1>3. \A p \in Proc : ProcessInv(p)'
  BY <1>0, <1>2, OthersInv
<1>4. ASSUME NEW e \in chain' PROVE EntryInv(e)'
  <2>1. e.p \in Proc /\ EntryInv(e)
    BY <1>0 DEF FlowInv, TypeOK
  <2>2. pc'[e.p] = pc[e.p] \/ pc'[e.p] \in Late
    BY <1>0, <2>1, OthersUntouched DEF Late
  <2> QED
    BY <1>0, <2>1, <2>2, EntryFrame
<1> QED
  BY <1>3, <1>4 DEF FlowInv

\* What arrives late was signed like what arrives in time.
LEMMA LateStep ==
    ASSUME FlowInv, TypeOK', NEW q \in Proc, LateAccept(q)
    PROVE  FlowInv'
<1> DEFINE tx == prepared[q].txs[cursor[q]]
<1>0. /\ TypeOK /\ ProcessInv(q) /\ clock' = clock /\ clock \in Nat /\ pc' = pc
      /\ ctx' = ctx /\ prepared' = prepared /\ answer' = answer /\ cursor' = cursor
      /\ signedAt' = signedAt /\ q \in inflight /\ q \notin inflight'
      /\ inflight' \subseteq inflight
  BY DEF FlowInv, TypeOK, LateAccept, locals
<1>1. /\ chain \subseteq chain'
      /\ \A e \in chain' \ chain : e.p = q /\ e.i = cursor[q] /\ e.tx = tx
  BY DEF LateAccept, Accept
<1>2. /\ Signed(q) /\ pc[q] \in Late
  BY <1>0 DEF ProcessInv, Posting, Late
<1>3. \A p \in Proc : ProcessInv(p)'
  BY <1>0, <1>1, ProcessFrame DEF FlowInv
<1>4. ASSUME NEW e \in chain' PROVE EntryInv(e)'
  <2>1. CASE e \in chain
    <3>1. e.p \in Proc /\ EntryInv(e)
      BY <1>0, <2>1 DEF FlowInv, TypeOK
    <3> QED
      BY <1>0, <3>1, EntryFrame
  <2>2. CASE e \notin chain
    <3>1. e.p = q /\ e.i = cursor[q] /\ e.tx = tx
      BY <1>1, <2>2
    <3>2. Signed(q)'
      BY <1>0, <1>2, SignedFrame
    <3>3. e.i \in 1 .. cursor'[q]
      <4>1. cursor[q] \in 1 .. Len(prepared[q].txs) /\ cursor[q] \in 0 .. 2
        BY <1>0, <1>2 DEF Signed, TypeOK
      <4> QED
        BY <1>0, <3>1, <4>1
    <3> QED
      BY <1>0, <1>2, <3>1, <3>2, <3>3 DEF EntryInv
  <2> QED
    BY <2>1, <2>2
<1> QED
  BY <1>3, <1>4 DEF FlowInv

\* The clock and the networks move without touching an invocation.
LEMMA EnvironmentStep ==
    ASSUME FlowInv, TypeOK',
           Tick \/ (\E b \in Backend : NetworkChange(b)) \/ UNCHANGED vars
    PROVE  FlowInv'
<1>1. /\ TypeOK /\ chain' = chain /\ pc' = pc /\ ctx' = ctx /\ prepared' = prepared
      /\ answer' = answer /\ cursor' = cursor /\ signedAt' = signedAt
      /\ inflight' = inflight
  BY DEF FlowInv, Tick, NetworkChange, vars, env, ledger, locals
<1>2. clock <= clock'
  BY DEF FlowInv, TypeOK, Tick, NetworkChange, vars, env, ledger
<1>3. \A p \in Proc : ProcessInv(p)'
  BY <1>1, <1>2, ProcessFrame DEF FlowInv
<1>4. ASSUME NEW e \in chain' PROVE EntryInv(e)'
  <2>1. e.p \in Proc /\ EntryInv(e)
    BY <1>1 DEF FlowInv, TypeOK
  <2> QED
    BY <1>1, <2>1, EntryFrame
<1> QED
  BY <1>3, <1>4 DEF FlowInv

\* FlowInv is inductive.
THEOREM FlowInvariant == Spec => []FlowInv
<1>1. Init => FlowInv
  <2> SUFFICES ASSUME Init PROVE FlowInv
    OBVIOUS
  <2>1. TypeOK
    BY TypeInit
  <2>2. ASSUME NEW p \in Proc PROVE ProcessInv(p)
    <3>1. pc[p] = "idle" /\ ctx[p].now = 0 /\ clock = 0
      BY DEF Init, NoContext
    <3>2. inflight = {}
      BY DEF Init
    <3> QED
      BY <3>1, <3>2 DEF ProcessInv, Posting
  <2>3. chain = {}
    BY DEF Init
  <2> QED
    BY <2>1, <2>2, <2>3 DEF FlowInv
<1>2. FlowInv /\ [Next]_vars => FlowInv'
  <2> SUFFICES ASSUME FlowInv, [Next]_vars PROVE FlowInv'
    OBVIOUS
  <2>1. TypeOK'
    BY TypeStep
  <2>2. ASSUME NEW p \in Proc, Step(p) \/ Kill(p) PROVE FlowInv'
    BY <2>1, <2>2, ReadingStep, ApprovalStep, BroadcastStep, KillStep DEF Step
  <2>3. CASE Tick \/ (\E b \in Backend : NetworkChange(b)) \/ UNCHANGED vars
    BY <2>1, <2>3, EnvironmentStep
  <2>4. ASSUME NEW p \in Proc, LateAccept(p) PROVE FlowInv'
    BY <2>1, <2>4, LateStep
  <2> QED
    BY <2>2, <2>3, <2>4 DEF Next
<1> QED
  BY <1>1, <1>2, PTL DEF Spec

---------------------------------------------------------------------------
\* What the invariant says of the user's money

\* The types are invariant.
THEOREM TypeCorrect == Spec => []TypeOK
<1>1. FlowInv => TypeOK
  BY DEF FlowInv
<1> QED
  BY <1>1, FlowInvariant, PTL

\* Nothing is broadcast without --confirm, consent and a passed gate.
THEOREM OnlyAuthorised == Spec => []Authorised
<1>1. FlowInv => Authorised
  BY DEF FlowInv, EntryInv, Signed, Approved, Authorised
<1> QED
  BY <1>1, FlowInvariant, PTL

\* Nothing is signed after its quote has expired.
THEOREM NeverSignedStale == Spec => []FreshWhenSigned
<1>1. FlowInv => FreshWhenSigned
  BY DEF FlowInv, EntryInv, Signed, FreshWhenSigned
<1> QED
  BY <1>1, FlowInvariant, PTL

\* Unless a node answers with a null result, what the program reports is what is
\* on the chain.
THEOREM HonestOutcome == ASSUME "null" \notin Reply PROVE Spec => []OutcomeHonest
<1>1. ASSUME FlowInv PROVE OutcomeHonest
  <2> SUFFICES ASSUME NEW p \in Proc
               PROVE  /\ pc[p] = "done" => \A i \in DOMAIN prepared[p].txs : OnChain(p, i)
                      /\ pc[p] \in {"usage", "aborted", "dry", "declined"} =>
                            ~ \E i \in 1 .. 2 : OnChain(p, i)
                      /\ \A i \in 1 .. 2 : OnChain(p, i) => i <= cursor[p]
    BY DEF OutcomeHonest
  <2>1. pc[p] = "done" => \A i \in DOMAIN prepared[p].txs : OnChain(p, i)
    BY <1>1 DEF FlowInv, ProcessInv
  <2>2. \A e \in chain : e.p = p => pc[p] \in Late /\ e.i \in 1 .. cursor[p]
    BY <1>1 DEF FlowInv, EntryInv
  <2>3. \A i \in 1 .. 2 : OnChain(p, i) => pc[p] \in Late /\ i \in 1 .. cursor[p]
    BY <2>2 DEF OnChain
  <2>4. cursor[p] \in Int
    BY <1>1 DEF FlowInv, TypeOK
  <2>5. \A i \in 1 .. 2 : i \in 1 .. cursor[p] => i <= cursor[p]
    BY <2>4
  <2> QED
    BY <2>1, <2>3, <2>5 DEF Late
<1>2. FlowInv => OutcomeHonest
  BY <1>1
<1> QED
  BY <1>2, FlowInvariant, PTL

\* Which gate checks which command.
LEMMA GateCases ==
    ASSUME NEW c \in ContextType, c.job \in Job, ~UsageError(c.job),
           NEW txs \in BuiltTxs(c), NEW t, Gate(c.job, txs, PlanOf(c), t)
    PROVE  \/ /\ c.job.chain = "BTC" /\ isSend(c.job)
              /\ verify_btc_send(txs[1], PlanOf(c), {Own}, MaxFee)
           \/ /\ c.job.chain = "BTC" /\ ~isSend(c.job)
              /\ verify_btc_swap(txs[1], PlanOf(c), {Own}, t, MaxFee)
           \/ /\ c.job.chain = "ETH" /\ isSend(c.job) /\ ~c.job.token
              /\ txs = <<NativeTx(c)>> /\ verify_eth_send(txs[1], PlanOf(c), MaxFee)
           \/ /\ c.job.chain = "ETH" /\ isSend(c.job) /\ c.job.token
              /\ txs = <<TransferTx(c)>> /\ verify_eth_token_send(txs[1], PlanOf(c), MaxFee)
           \/ /\ c.job.chain = "ETH" /\ ~isSend(c.job) /\ ~c.job.token
              /\ txs = <<NativeTx(c)>> /\ verify_eth_swap(txs[1], PlanOf(c), t, MaxFee)
           \/ /\ c.job.chain = "ETH" /\ isSwap(c.job) /\ c.job.token
              /\ txs = <<ApproveTx(c), DepositTx(c)>>
              /\ verify_eth_token_swap(txs[1], txs[2], PlanOf(c), t, MaxFee)
           \/ /\ c.job.chain = "TRON" /\ isSend(c.job) /\ ~c.job.token
              /\ txs = <<NativeTx(c)>> /\ verify_tron_send(txs[1], PlanOf(c))
           \/ /\ c.job.chain = "TRON" /\ isSend(c.job) /\ c.job.token
              /\ txs = <<TransferTx(c)>> /\ verify_tron_token_send(txs[1], PlanOf(c))
           \/ /\ c.job.chain = "TRON" /\ ~isSend(c.job) /\ ~c.job.token
              /\ txs = <<NativeTx(c)>> /\ verify_tron_swap(txs[1], PlanOf(c), t)
           \/ /\ c.job.chain = "TRON" /\ isSwap(c.job) /\ c.job.token
              /\ txs = <<TransferTx(c)>> /\ verify_tron_token_swap(txs[1], PlanOf(c), t)
<1>1. /\ c.job.chain \in {"BTC", "ETH", "TRON"} /\ c.job.token \in BOOLEAN
      /\ c.job.cmd \in {"swap", "send", "add", "withdraw"}
  BY ConstantsAssumption DEF JobType, Chains
<1>2. c.job.token /\ ~isSend(c.job) => isSwap(c.job)
  BY <1>1 DEF UsageError, isLP, isSend, isSwap
<1>3. isSwap(c.job) => ~isSend(c.job)
  BY DEF isSwap, isSend
<1>4. CASE c.job.chain = "BTC"
  BY <1>4 DEF Gate
<1>5. CASE c.job.chain = "ETH"
  BY <1>1, <1>2, <1>3, <1>5 DEF Gate, BuiltTxs
<1>6. CASE c.job.chain = "TRON"
  BY <1>1, <1>2, <1>3, <1>6 DEF Gate, BuiltTxs
<1> QED
  BY <1>1, <1>4, <1>5, <1>6

\* The gate of a Bitcoin transaction leaves one payment: everything else is
\* data or returns to the wallet.
LEMMA BtcPayments ==
    ASSUME NEW tx, tx.chain = "BTC", NEW addr, NEW amount,
           OneOutTo(tx, addr, amount), ChangeIsOwned(tx, addr, {Own})
    PROVE  Payments(tx) \subseteq {<<addr, amount>>}
<1>1. PICK i \in DOMAIN tx.outs : OutsTo(tx, addr) = {i} /\ tx.outs[i].value = amount
  BY DEF OneOutTo
<1>2. ASSUME NEW k \in DOMAIN tx.outs, ~tx.outs[k].data, tx.outs[k].addr # Own
      PROVE  tx.outs[k].addr = addr /\ tx.outs[k].value = amount
  <2>1. k \in OutsTo(tx, addr)
    BY <1>2 DEF ChangeIsOwned, DataOuts
  <2> QED
    BY <1>1, <2>1 DEF OutsTo
<1>3. Payments(tx) = {<<tx.outs[k].addr, tx.outs[k].value>> :
                        k \in {m \in DOMAIN tx.outs :
                                ~tx.outs[m].data /\ tx.outs[m].addr # Own}}
  BY DEF Payments
<1> QED
  BY <1>2, <1>3

\* A transaction that passed the gate pays the plan's payee and nobody else.
LEMMA GatedPayments ==
    ASSUME NEW c \in ContextType, c.job \in Job, ~UsageError(c.job),
           NEW txs \in BuiltTxs(c), NEW t, Gate(c.job, txs, PlanOf(c), t),
           NEW i \in 1 .. Len(txs)
    PROVE  Payments(txs[i]) \subseteq {<<Recipient(c), Native(c.job, AmountOf(c))>>}
<1> DEFINE addr == Recipient(c)
           amt == Native(c.job, AmountOf(c))
<1>1. /\ PlanOf(c).payee = addr /\ PlanOf(c).amount = amt
  BY DEF PlanOf
<1>2. i = 1 \/ (i = 2 /\ txs = <<ApproveTx(c), DepositTx(c)>>)
  <2>1. \A n \in 1 .. 2 : \A k \in 1 .. n : k = 1 \/ (k = 2 /\ n = 2)
    OBVIOUS
  <2>2. i = 1 \/ (i = 2 /\ Len(txs) = 2)
    BY <2>1, BuiltShape
  <2> QED
    BY <2>2, BuiltShape
<1>3. txs[i].chain = c.job.chain
  BY BuiltFields
<1>4. CASE c.job.chain = "BTC"
  <2>1. i = 1
    <3>1. Len(txs) # 2 /\ Len(txs) \in 1 .. 2
      BY <1>4, BuiltShape
    <3> QED
      BY <3>1
  <2>2. OneOutTo(txs[1], addr, amt) /\ ChangeIsOwned(txs[1], addr, {Own})
    BY <1>1, <1>4, GateCases DEF verify_btc_send, verify_btc_swap
  <2> QED
    BY <1>3, <1>4, <2>1, <2>2, BtcPayments
<1>5. CASE c.job.chain # "BTC" /\ txs = <<NativeTx(c)>>
  <2>1. i = 1 /\ txs[1].fn = "none"
    BY <1>5 DEF NativeTx
  <2>2. txs[1].to = addr /\ txs[1].value = amt
    BY <1>1, <1>5, <2>1, GateCases
       DEF verify_eth_send, verify_eth_swap, verify_tron_send, verify_tron_swap,
           verify_eth_token_send, verify_tron_token_send, verify_tron_token_swap,
           verify_eth_token_swap
  <2> QED
    BY <1>3, <1>5, <2>1, <2>2 DEF Payments
<1>6. CASE c.job.chain # "BTC" /\ txs = <<TransferTx(c)>>
  <2>1. i = 1 /\ txs[1] = TransferTx(c)
    BY <1>6
  <2>2. txs[1].fn = "transfer" /\ txs[1].payee = addr /\ txs[1].amount = amt
    BY <2>1 DEF TransferTx, NativeTx
  <2> QED
    BY <1>3, <1>6, <2>1, <2>2 DEF Payments
<1>7. CASE c.job.chain # "BTC" /\ txs = <<ApproveTx(c), DepositTx(c)>> /\ isSwap(c.job)
  <2>0. verify_eth_token_swap(txs[1], txs[2], PlanOf(c), t, MaxFee)
    <3>1. Len(txs) = 2 /\ c.job.token /\ c.job.chain = "ETH" /\ ~isSend(c.job)
      BY <1>7, BuiltShape DEF isSwap, isSend
    <3> QED
      BY <3>1, GateCases
  <2>1. /\ txs[1].fn = "approve" /\ txs[2].fn = "depositWithExpiry"
        /\ txs[2].payee = addr /\ txs[2].amount = amt
    BY <1>1, <2>0 DEF verify_eth_token_swap
  <2> QED
    BY <1>2, <1>3, <1>7, <2>1 DEF Payments
<1> QED
  BY <1>4, <1>5, <1>6, <1>7, GateCases

\* A swap transaction that passed the gate and pays carries a memo that names
\* the destination.
LEMMA GatedMemo ==
    ASSUME NEW c \in ContextType, c.job \in Job, ~UsageError(c.job), isSwap(c.job),
           NEW txs \in BuiltTxs(c), NEW t, Gate(c.job, txs, PlanOf(c), t),
           NEW i \in 1 .. Len(txs), Payments(txs[i]) # {}
    PROVE  \A m \in MemosOf(txs[i]) : c.job.dest \in m.names
<1>1. /\ PlanOf(c).destination = c.job.dest /\ PlanOf(c).memo = MemoOf(c)
      /\ c.job.dest # NoAddr /\ ~isSend(c.job)
  BY DEF PlanOf, UsageError, isSwap, isSend
<1>2. txs[i].chain = c.job.chain
  BY BuiltFields
<1>3. CASE c.job.chain = "BTC"
  <2>1. i = 1
    <3>1. Len(txs) # 2 /\ Len(txs) \in 1 .. 2
      BY <1>3, BuiltShape
    <3> QED
      BY <3>1
  <2>2. verify_btc_swap(txs[1], PlanOf(c), {Own}, t, MaxFee)
    BY <1>1, <1>3, GateCases
  <2>3. /\ \A k \in DataOuts(txs[1]) : txs[1].outs[k].memo = MemoOf(c)
        /\ c.job.dest \in MemoOf(c).names
    BY <1>1, <2>2 DEF verify_btc_swap, memo_pays_destination
  <2> QED
    BY <1>2, <1>3, <2>1, <2>3 DEF MemosOf
<1>4. CASE c.job.chain # "BTC" /\ Len(txs) = 1
  <2>1. i = 1
    BY <1>4
  <2>2. \/ verify_eth_swap(txs[1], PlanOf(c), t, MaxFee)
        \/ verify_tron_swap(txs[1], PlanOf(c), t)
        \/ verify_tron_token_swap(txs[1], PlanOf(c), t)
    <3>1. txs # <<ApproveTx(c), DepositTx(c)>>
      BY <1>4
    <3> QED
      BY <1>1, <1>4, <3>1, GateCases
  <2>3. txs[1].memo = MemoOf(c) /\ c.job.dest \in MemoOf(c).names
    BY <1>1, <2>2 DEF verify_eth_swap, verify_tron_swap, verify_tron_token_swap,
                      memo_pays_destination
  <2> QED
    BY <1>2, <1>4, <2>1, <2>3 DEF MemosOf
<1>5. CASE c.job.chain # "BTC" /\ Len(txs) = 2
  <2>1. /\ c.job.chain = "ETH"
        /\ verify_eth_token_swap(txs[1], txs[2], PlanOf(c), t, MaxFee)
    <3>1. c.job.chain = "ETH" /\ c.job.token
      BY <1>5, BuiltShape
    <3> QED
      BY <1>1, <3>1, GateCases
  <2>2. txs[1].fn = "approve"
    BY <2>1 DEF verify_eth_token_swap
  <2>3. i # 1
    BY <1>2, <1>5, <2>2 DEF Payments
  <2>4. i = 2
    BY <1>5, <2>3
  <2>5. c.job.dest \in txs[2].memo.names
    BY <1>1, <2>1 DEF verify_eth_token_swap, memo_pays_destination
  <2> QED
    BY <1>2, <1>5, <2>4, <2>5 DEF MemosOf
<1>6. Len(txs) = 1 \/ Len(txs) = 2
  BY BuiltShape
<1> QED
  BY <1>3, <1>4, <1>5, <1>6

\* The fees of the transactions that passed the gate stay below the cap together.
LEMMA GatedFees ==
    ASSUME NEW c \in ContextType, c.job \in Job, ~UsageError(c.job),
           c.job.chain # "TRON",
           NEW txs \in BuiltTxs(c), NEW t, Gate(c.job, txs, PlanOf(c), t),
           NEW i \in 1 .. Len(txs), NEW k \in 1 .. Len(txs)
    PROVE  /\ txs[i].fee <= MaxFee
           /\ i # k => txs[i].fee + txs[k].fee <= MaxFee
<1>0. MaxFee \in Nat /\ c.acct.fee \in Nat
  BY ConstantsAssumption DEF ContextType
<1>1. CASE Len(txs) = 1
  <2>1. i = 1 /\ k = 1
    BY <1>1
  <2>2. txs # <<ApproveTx(c), DepositTx(c)>>
    BY <1>1
  <2>3. \/ txs[1].fee \in 0 .. MaxFee
        \/ txs[1].fee <= MaxFee
    BY <2>2, GateCases DEF verify_btc_send, verify_btc_swap, verify_eth_send,
                           verify_eth_token_send, verify_eth_swap
  <2> QED
    BY <1>0, <2>1, <2>3
<1>2. CASE Len(txs) = 2
  <2>1. /\ c.job.chain = "ETH" /\ c.job.token /\ isSwap(c.job)
        /\ txs = <<ApproveTx(c), DepositTx(c)>>
    BY <1>2, BuiltShape
  <2>2. verify_eth_token_swap(txs[1], txs[2], PlanOf(c), t, MaxFee)
    BY <2>1, GateCases DEF isSwap, isSend
  <2>3. txs[1].fee + txs[2].fee <= MaxFee
    BY <2>2 DEF verify_eth_token_swap
  <2>4. ApproveTx(c).fee = c.acct.fee /\ DepositTx(c).fee = c.acct.fee
    BY DEF ApproveTx, DepositTx, NativeTx
  <2>5. txs[1].fee = c.acct.fee /\ txs[2].fee = c.acct.fee
    BY <2>1, <2>4
  <2>6. i \in {1, 2} /\ k \in {1, 2}
    BY <1>2
  <2>7. c.acct.fee <= MaxFee /\ c.acct.fee + c.acct.fee <= MaxFee
    BY <1>0, <2>3, <2>5
  <2> QED
    BY <2>5, <2>6, <2>7
<1> QED
  BY <1>1, <1>2, BuiltShape

\* What is known of every transaction on a chain.
LEMMA EntryFacts ==
    ASSUME FlowInv, NEW e \in chain
    PROVE  /\ ctx[e.p] \in ContextType /\ ctx[e.p].job \in Job
           /\ ~UsageError(ctx[e.p].job)
           /\ prepared[e.p].txs \in BuiltTxs(ctx[e.p])
           /\ Gate(ctx[e.p].job, prepared[e.p].txs, PlanOf(ctx[e.p]), ctx[e.p].now)
           /\ e.i \in 1 .. Len(prepared[e.p].txs)
           /\ e.tx = prepared[e.p].txs[e.i]
           /\ AmountRead(e.p)
<1>1. /\ e.p \in Proc /\ EntryInv(e) /\ ProcessInv(e.p) /\ ctx[e.p] \in ContextType
  BY DEF FlowInv, TypeOK
<1>2. ctx[e.p].job \in Job /\ ~UsageError(ctx[e.p].job)
  BY <1>1 DEF EntryInv, ProcessInv, Late
<1>3. /\ prepared[e.p].txs \in BuiltTxs(ctx[e.p])
      /\ Gate(ctx[e.p].job, prepared[e.p].txs, PlanOf(ctx[e.p]), ctx[e.p].now)
      /\ cursor[e.p] \in 1 .. Len(prepared[e.p].txs)
      /\ e.i \in 1 .. cursor[e.p] /\ e.tx = prepared[e.p].txs[e.i]
      /\ AmountRead(e.p)
  BY <1>1 DEF EntryInv, Signed, Verified
<1>4. \A n \in 1 .. 2 : \A k \in 1 .. n : \A l \in 1 .. k : l \in 1 .. n
  OBVIOUS
<1>5. e.i \in 1 .. Len(prepared[e.p].txs)
  BY <1>1, <1>3, <1>4, BuiltShape
<1> QED
  BY <1>1, <1>2, <1>3, <1>5

\* Recipient, amount and conversion are the user's.
LEMMA NativeIntended ==
    ASSUME NEW c \in ContextType, c.job \in Job,
           c.job.sweep \/ c.acct.amount = c.job.amount
    PROVE  Intended(c, <<Recipient(c), Native(c.job, AmountOf(c))>>)
<1> DEFINE a == AmountOf(c)
           n == Native(c.job, a)
<1>1. c.job.chain \in {"BTC", "ETH", "TRON"} /\ a \in Nat
  BY AmountType DEF JobType, Chains
<1>2. a = CASE c.job.cmd = "withdraw" -> DustThreshold
            [] c.job.cmd # "withdraw" /\ c.job.sweep -> c.acct.amount
            [] OTHER -> c.job.amount
  BY DEF AmountOf
<1>3. Recipient(c) = CASE c.job.cmd = "send" -> c.job.dest
                       [] c.job.cmd = "swap" -> c.quote.vault
                       [] OTHER -> c.status.vault
  BY DEF Recipient, isSwap, isSend
<1>4. \A u \in Nat \ {0} : (a \div u) * u <= a /\ a < ((a \div u) + 1) * u
  <2> HIDE DEF a
  <2>1. \A u \in Nat \ {0} : a = u * (a \div u) + (a % u) /\ (a % u) \in 0 .. u - 1
    BY <1>1
  <2> QED
    BY <1>1, <2>1
<1>5. \/ c.job.chain = "BTC" /\ n = a
      \/ c.job.chain = "ETH" /\ ~c.job.token /\ n = a * WeiPerUnit
      \/ (c.job.chain = "TRON" \/ c.job.token) /\ n = a \div Unit
  BY <1>1 DEF Native
<1>6. \/ c.job.chain = "BTC" /\ n = a
      \/ c.job.chain = "ETH" /\ ~c.job.token /\ n = a * WeiPerUnit
      \/ (c.job.chain = "TRON" \/ c.job.token) /\ n * Unit <= a /\ a < (n + 1) * Unit
  BY <1>4, <1>5, ConstantsAssumption
<1> QED
  BY <1>2, <1>3, <1>6 DEF Intended

\* Money goes where the user or the network's quote said, and nowhere else.
THEOREM PaymentsIntended == Spec => []OnlyIntendedPayments
<1>1. FlowInv => OnlyIntendedPayments
  <2> SUFFICES ASSUME FlowInv, NEW e \in chain, NEW pay \in Payments(e.tx)
               PROVE  Intended(ctx[e.p], pay)
    BY DEF OnlyIntendedPayments
  <2> DEFINE c == ctx[e.p]
  <2>1. /\ c \in ContextType /\ c.job \in Job /\ ~UsageError(c.job)
        /\ c.job.sweep \/ c.acct.amount = c.job.amount
        /\ pay = <<Recipient(c), Native(c.job, AmountOf(c))>>
    <3>1. /\ c \in ContextType /\ c.job \in Job /\ ~UsageError(c.job)
          /\ prepared[e.p].txs \in BuiltTxs(c)
          /\ Gate(c.job, prepared[e.p].txs, PlanOf(c), c.now)
          /\ e.i \in 1 .. Len(prepared[e.p].txs) /\ e.tx = prepared[e.p].txs[e.i]
      BY EntryFacts
    <3>2. c.job.sweep \/ c.acct.amount = c.job.amount
      BY EntryFacts DEF AmountRead
    <3>3. Payments(e.tx) \subseteq {<<Recipient(c), Native(c.job, AmountOf(c))>>}
      <4> HIDE DEF c
      <4> QED BY <3>1, GatedPayments
    <3> QED
      BY <3>1, <3>2, <3>3
  <2> HIDE DEF c
  <2>2. Intended(c, <<Recipient(c), Native(c.job, AmountOf(c))>>)
    BY <2>1, NativeIntended
  <2> QED
    BY <2>1, <2>2 DEF c
<1> QED
  BY <1>1, FlowInvariant, PTL

\* Every swap deposit names the user's destination, whatever the quote said.
THEOREM DestinationNamed == Spec => []DepositNamesDestination
<1>1. FlowInv => DepositNamesDestination
  BY EntryFacts, GatedMemo DEF DepositNamesDestination
<1> QED
  BY <1>1, FlowInvariant, PTL

\* An invocation never pays more than the fee cap, all transactions together.
THEOREM FeesCapped == Spec => []FeeCapped
<1>1. ASSUME FlowInv, NEW e \in chain, NEW f \in chain, e.p = f.p,
             ctx[e.p].job.chain # "TRON"
      PROVE  e.tx.fee <= MaxFee /\ (e.i # f.i => e.tx.fee + f.tx.fee <= MaxFee)
  BY <1>1, EntryFacts, GatedFees
<1>2. FlowInv => FeeCapped
  BY <1>1 DEF FeeCapped
<1> QED
  BY <1>2, FlowInvariant, PTL

---------------------------------------------------------------------------
\* The one ETH account that concurrent invocations share: its nonces, and the
\* allowance its token swaps leave with the router

\* What a step does to the nonces: only ReadAccount copies the account's nonce,
\* and only an accepted transaction advances it.
LEMMA NonceMoves ==
    ASSUME FlowInv, [Next]_vars
    PROVE  /\ ethNonce \in Nat /\ ethNonce' \in Nat /\ ethNonce <= ethNonce'
           /\ \A p \in Proc : \/ ctx'[p].acct.nonce = ctx[p].acct.nonce
                              \/ ctx'[p].acct.nonce = ethNonce
           /\ \/ chain' = chain /\ ethNonce' = ethNonce /\ allowance' = allowance
              \/ \E p \in Proc : Posting(p) /\ Accept(p, prepared[p].txs[cursor[p]])
<1>0. TypeOK /\ TypeOK' /\ \A p \in Proc : ctx[p] \in ContextType
  BY TypeStep DEF FlowInv, TypeOK
<1>1. \/ chain' = chain /\ ethNonce' = ethNonce /\ allowance' = allowance
      \/ \E p \in Proc : Posting(p) /\ Accept(p, prepared[p].txs[cursor[p]])
  <2>1. ASSUME NEW p \in Proc, Broadcast(p) \/ LateAccept(p) \/ Kill(p)
        PROVE  \/ chain' = chain /\ ethNonce' = ethNonce /\ allowance' = allowance
               \/ Posting(p) /\ Accept(p, prepared[p].txs[cursor[p]])
    BY <2>1 DEF Broadcast, LateAccept, Kill, ledger, Posting
  <2>2. ASSUME NEW p \in Proc,
               \/ CmdStart(p) \/ ReadAccount(p) \/ SelectBackend(p) \/ ReadClock(p)
               \/ InboundAddresses(p) \/ Mimir(p) \/ QuoteSwap(p)
        PROVE  UNCHANGED env
    BY <2>2 DEF CmdStart, ReadAccount, SelectBackend, ReadClock, InboundAddresses, Mimir,
                QuoteSwap
  <2>3. ASSUME NEW p \in Proc,
               \/ BuildAndVerify(p) \/ Confirm(p) \/ Prompt(p) \/ ExecuteSwap(p)
        PROVE  UNCHANGED env
    BY <2>3 DEF BuildAndVerify, Confirm, Prompt, ExecuteSwap
  <2>4. CASE Tick \/ (\E b \in Backend : NetworkChange(b)) \/ UNCHANGED vars
    BY <2>4 DEF Tick, NetworkChange, vars, env, ledger
  <2> QED BY <2>1, <2>2, <2>3, <2>4 DEF Next, Step, env, ledger
<1>2. ethNonce \in Nat /\ ethNonce' \in Nat
  BY <1>0 DEF TypeOK
<1>3. ethNonce' = ethNonce \/ ethNonce' = ethNonce + 1
  BY <1>1 DEF Accept
<1>4. ASSUME NEW p \in Proc
      PROVE  ctx'[p].acct.nonce = ctx[p].acct.nonce \/ ctx'[p].acct.nonce = ethNonce
  <2>1. CASE ctx' = ctx
    BY <2>1
  <2>2. ASSUME NEW q \in Proc, Step(q) \/ Kill(q), p # q
        PROVE  ctx'[p] = ctx[p]
    BY <1>0, <2>2, OthersUntouched
  <2>3. CASE CmdStart(p)
    BY <1>0, <2>3 DEF CmdStart, TypeOK, ContextType
  <2>4. CASE ReadAccount(p)
    BY <1>0, <2>4 DEF ReadAccount, TypeOK, ContextType
  <2>5. CASE SelectBackend(p)
    BY <1>0, <2>5 DEF SelectBackend, TypeOK, ContextType
  <2>6. CASE ReadClock(p)
    <3> DEFINE b == IF isLP(ctx[p].job) THEN ctx[p].job.backend ELSE ctx[p].backend
    <3>1. ctx' = [ctx EXCEPT ![p] = [ctx[p] EXCEPT !.now = clock, !.backend = b]]
      BY <1>0, <2>6 DEF ReadClock, TypeOK
    <3>2. ctx'[p] = [ctx[p] EXCEPT !.now = clock, !.backend = b]
      BY <1>0, <3>1 DEF TypeOK
    <3> HIDE DEF b
    <3> QED
      BY <1>0, <3>2 DEF ContextType
  <2>7. CASE InboundAddresses(p)
    BY <1>0, <2>7 DEF InboundAddresses, TypeOK, ContextType
  <2>8. CASE QuoteSwap(p)
    BY <1>0, <2>8 DEF QuoteSwap, TypeOK, ContextType
  <2>9. CASE \/ Mimir(p) \/ BuildAndVerify(p) \/ Confirm(p) \/ Prompt(p)
             \/ ExecuteSwap(p) \/ Broadcast(p) \/ Kill(p) \/ Tick
             \/ (\E b \in Backend : NetworkChange(b)) \/ UNCHANGED vars
             \/ (\E q \in Proc : LateAccept(q))
    BY <2>9, <2>1 DEF Mimir, BuildAndVerify, Confirm, Prompt, ExecuteSwap,
                      Broadcast, Kill, LateAccept, Tick, NetworkChange, vars, locals
  <2> QED
    BY <2>2, <2>3, <2>4, <2>5, <2>6, <2>7, <2>8, <2>9 DEF Next, Step
<1> QED
  BY <1>1, <1>2, <1>3, <1>4

\* The entry an accepted transaction adds, and the nonce it takes.
LEMMA AcceptedEntry ==
    ASSUME FlowInv, NEW p \in Proc, Posting(p),
           Accept(p, prepared[p].txs[cursor[p]])
    PROVE  \E e, ok :
             /\ chain' = chain \cup {e} /\ ok \in BOOLEAN
             /\ e.p = p /\ e.i = cursor[p] /\ e.tx = prepared[p].txs[cursor[p]]
             /\ e.ok = ok /\ e.tx.chain = ctx[p].job.chain
             /\ Executes(e.tx, ok) /\ allowance' = AllowanceAfter(e.tx, ok)
             /\ e.tx.chain = "ETH" =>
                    /\ e.tx.nonce = ethNonce /\ ethNonce' = ethNonce + 1
                    /\ ctx[p].acct.nonce + (cursor[p] - 1) = ethNonce
             /\ e.tx.chain # "ETH" => ethNonce' = ethNonce
<1> DEFINE tx == prepared[p].txs[cursor[p]]
<1>1. /\ TypeOK /\ ProcessInv(p)
  BY DEF FlowInv
<1>2. /\ ctx[p] \in ContextType /\ ctx[p].job \in Job
      /\ prepared[p].txs \in BuiltTxs(ctx[p])
      /\ cursor[p] \in 1 .. Len(prepared[p].txs)
      /\ tx.chain = ctx[p].job.chain
  BY <1>1, AtCursor
<1>3. tx.chain = "ETH" => tx.nonce = ctx[p].acct.nonce + (cursor[p] - 1)
  BY <1>2, BuiltFields
<1>4. PICK ok \in BOOLEAN :
            /\ Executes(tx, ok)
            /\ chain' = chain \cup {[p |-> p, i |-> cursor[p], tx |-> tx, ok |-> ok]}
            /\ allowance' = AllowanceAfter(tx, ok)
  BY DEF Accept
<1>5. /\ Acceptable(tx)
      /\ ethNonce' = IF tx.chain = "ETH" THEN ethNonce + 1 ELSE ethNonce
  BY DEF Accept
<1>6. tx.chain = "ETH" => tx.nonce = ethNonce
  BY <1>5 DEF Acceptable
<1> DEFINE e == [p |-> p, i |-> cursor[p], tx |-> tx, ok |-> ok]
<1>7. /\ chain' = chain \cup {e} /\ e.p = p /\ e.i = cursor[p]
      /\ e.tx = prepared[p].txs[cursor[p]] /\ e.ok = ok
  BY <1>4
<1>8. /\ e.tx.chain = ctx[p].job.chain
      /\ Executes(e.tx, ok) /\ allowance' = AllowanceAfter(e.tx, ok)
      /\ e.tx.chain = "ETH" =>
            /\ e.tx.nonce = ethNonce /\ ethNonce' = ethNonce + 1
            /\ ctx[p].acct.nonce + (cursor[p] - 1) = ethNonce
      /\ e.tx.chain # "ETH" => ethNonce' = ethNonce
  BY <1>2, <1>3, <1>4, <1>5, <1>6
<1> HIDE DEF e
<1> QED
  BY <1>7, <1>8

\* Nonces on the chain are natural numbers.
LEMMA NonceType ==
    ASSUME FlowInv, NEW e \in chain, e.tx.chain = "ETH"
    PROVE  e.tx.nonce \in Nat
<1>1. /\ ctx[e.p] \in ContextType /\ ctx[e.p].job \in Job
      /\ prepared[e.p].txs \in BuiltTxs(ctx[e.p])
      /\ e.i \in 1 .. Len(prepared[e.p].txs)
      /\ e.tx = prepared[e.p].txs[e.i]
  BY EntryFacts
<1>2. ctx[e.p].job.chain = "ETH" /\ e.tx.nonce = ctx[e.p].acct.nonce + (e.i - 1)
  BY <1>1, BuiltFields
<1>3. ctx[e.p].acct.nonce \in Nat
  BY <1>1 DEF ContextType
<1>4. e.i \in 1 .. 2
  BY DEF FlowInv, TypeOK
<1> QED
  BY <1>2, <1>3, <1>4

\* Nonces of accepted transactions are below the account's nonce, and unique.
THEOREM NonceInvariant == Spec => []NonceInv
<1>1. Init => NonceInv
  BY DEF Init, NonceInv, NoContext
<1>2. FlowInv /\ NonceInv /\ [Next]_vars => NonceInv'
  <2> SUFFICES ASSUME FlowInv, NonceInv, [Next]_vars PROVE NonceInv'
    OBVIOUS
  <2>0. /\ ethNonce \in Nat /\ ethNonce' \in Nat /\ ethNonce <= ethNonce'
        /\ \A p \in Proc : ctx[p].acct.nonce \in Nat /\ ctx'[p].acct.nonce \in Nat
        /\ \A e \in chain : e.tx.chain = "ETH" => e.tx.nonce \in Nat
    <3>1. \A p \in Proc : ctx[p].acct.nonce \in Nat /\ ctx'[p].acct.nonce \in Nat
      BY TypeStep DEF FlowInv, TypeOK, ContextType
    <3>2. \A e \in chain : e.tx.chain = "ETH" => e.tx.nonce \in Nat
      BY NonceType
    <3> QED
      BY <3>1, <3>2, NonceMoves
  <2>1. \A p \in Proc : ctx'[p].acct.nonce <= ethNonce'
    <3>1. \A p \in Proc : ctx[p].acct.nonce <= ethNonce
      BY DEF NonceInv
    <3> QED
      BY <2>0, <3>1, NonceMoves
  <2>2. CASE chain' = chain /\ ethNonce' = ethNonce
    BY <2>1, <2>2 DEF NonceInv
  <2>3. ASSUME NEW p \in Proc, Posting(p), Accept(p, prepared[p].txs[cursor[p]])
        PROVE  NonceInv'
    <3>1. PICK n : /\ chain' = chain \cup {n}
                   /\ n.tx.chain = "ETH" => n.tx.nonce = ethNonce /\ ethNonce' = ethNonce + 1
                   /\ n.tx.chain # "ETH" => ethNonce' = ethNonce
      BY <2>3, AcceptedEntry
    <3>2. \A e \in chain : e.tx.chain = "ETH" => e.tx.nonce < ethNonce
      BY DEF NonceInv
    <3>3. \A e \in chain' : e.tx.chain = "ETH" => e.tx.nonce < ethNonce'
      BY <2>0, <3>1, <3>2
    <3>4. \A e, f \in chain : e.tx.chain = "ETH" /\ f.tx.chain = "ETH"
                              /\ e.tx.nonce = f.tx.nonce => e = f
      BY DEF NonceInv
    <3>5. \A e, f \in chain' : e.tx.chain = "ETH" /\ f.tx.chain = "ETH"
                               /\ e.tx.nonce = f.tx.nonce => e = f
      BY <2>0, <3>1, <3>2, <3>4
    <3> QED
      BY <2>1, <3>3, <3>5 DEF NonceInv
  <2> QED
    BY <2>2, <2>3, NonceMoves
<1> QED
  BY <1>1, <1>2, FlowInvariant, PTL DEF Spec

\* An invocation that is about to post its second transaction has its approve
\* on the chain, with the nonce before.
LEMMA ApproveBefore ==
    ASSUME FlowInv, "null" \notin Reply, NEW p \in Proc, Posting(p), cursor[p] = 2
    PROVE  \E e \in chain :
             /\ e.p = p /\ e.i = 1 /\ e.tx = ApproveTx(ctx[p])
             /\ e.tx.chain = "ETH" /\ e.tx.fn = "approve"
             /\ e.tx.nonce = ctx[p].acct.nonce
             /\ e.tx.amount = Native(ctx[p].job, AmountOf(ctx[p]))
             /\ prepared[p].txs[2] = DepositTx(ctx[p])
<1>0. TypeOK /\ ProcessInv(p)
  BY DEF FlowInv
<1>1. /\ ctx[p] \in ContextType /\ ctx[p].job \in Job
      /\ prepared[p].txs \in BuiltTxs(ctx[p])
      /\ cursor[p] \in 1 .. Len(prepared[p].txs) /\ Len(prepared[p].txs) \in 1 .. 2
  BY <1>0, AtCursor
<1>2. Len(prepared[p].txs) = 2
  <2>1. \A n \in 1 .. 2 : 2 \in 1 .. n => n = 2
    OBVIOUS
  <2> QED
    BY <1>1, <2>1
<1>3. prepared[p].txs = <<ApproveTx(ctx[p]), DepositTx(ctx[p])>> /\ ctx[p].job.chain = "ETH"
  BY <1>1, <1>2, BuiltShape
<1>4. OnChain(p, 1)
  BY <1>0 DEF ProcessInv
<1>5. PICK e \in chain : e.p = p /\ e.i = 1
  BY <1>4 DEF OnChain
<1>6. e.tx = prepared[p].txs[1]
  BY <1>5, EntryFacts
<1>7. /\ ApproveTx(ctx[p]).chain = ctx[p].job.chain /\ ApproveTx(ctx[p]).fn = "approve"
      /\ ApproveTx(ctx[p]).nonce = ctx[p].acct.nonce
      /\ ApproveTx(ctx[p]).amount = Native(ctx[p].job, AmountOf(ctx[p]))
  BY DEF ApproveTx, NativeTx
<1> QED
  BY <1>3, <1>5, <1>6, <1>7

\* A deposit follows its own approve without a gap, unless a node answers the
\* approve with a null result.
THEOREM NonceGapFree == ASSUME "null" \notin Reply PROVE Spec => []NoNonceGap
<1>1. ASSUME FlowInv, NonceInv PROVE NoNonceGap
  <2> SUFFICES ASSUME NEW p \in Proc, Posting(p), ctx[p].job.chain = "ETH"
               PROVE  /\ prepared[p].txs[cursor[p]].nonce <= ethNonce
                      /\ cursor[p] = 2 => \E e \in chain :
                            /\ e.p = p /\ e.i = 1 /\ e.tx.fn = "approve"
                            /\ e.tx.nonce + 1 = prepared[p].txs[2].nonce
    BY DEF NoNonceGap
  <2>1. /\ TypeOK /\ ProcessInv(p) /\ ctx[p] \in ContextType
        /\ ctx[p].acct.nonce \in Nat /\ ethNonce \in Nat /\ cursor[p] \in 0 .. 2
    BY <1>1 DEF FlowInv, TypeOK, ContextType
  <2>2. /\ ctx[p].job \in Job /\ prepared[p].txs \in BuiltTxs(ctx[p])
        /\ cursor[p] \in 1 .. Len(prepared[p].txs) /\ Len(prepared[p].txs) \in 1 .. 2
    BY <2>1, AtCursor
  <2>3. prepared[p].txs[cursor[p]].nonce = ctx[p].acct.nonce + (cursor[p] - 1)
    BY <2>1, <2>2, BuiltFields
  <2>4. ctx[p].acct.nonce <= ethNonce
    BY <1>1 DEF NonceInv
  <2>5. CASE cursor[p] = 2
    <3>1. PICK e \in chain : /\ e.p = p /\ e.i = 1 /\ e.tx.chain = "ETH"
                             /\ e.tx.fn = "approve" /\ e.tx.nonce = ctx[p].acct.nonce
      BY <1>1, <2>5, ApproveBefore
    <3>2. e.tx.nonce < ethNonce
      BY <1>1, <3>1 DEF NonceInv
    <3>3. e.tx.nonce + 1 = prepared[p].txs[2].nonce
      BY <2>1, <2>3, <2>5, <3>1
    <3>4. prepared[p].txs[cursor[p]].nonce <= ethNonce
      BY <2>1, <2>3, <2>5, <3>1, <3>2
    <3> QED
      BY <3>1, <3>3, <3>4
  <2>6. CASE cursor[p] = 1
    BY <2>1, <2>3, <2>4, <2>6
  <2>7. cursor[p] # 0
    BY <2>2
  <2> QED
    BY <2>1, <2>5, <2>6, <2>7
<1>2. FlowInv /\ NonceInv => NoNonceGap
  BY <1>1
<1> QED
  BY <1>2, FlowInvariant, NonceInvariant, PTL

\* With a token that lets an allowance be overwritten, and nodes that answer with a
\* txid or not at all, what a swap leaves with the router is nothing, or exactly its
\* own amount, whenever its transactions arrive.
THEOREM AllowanceExact ==
    ASSUME ~ZeroFirst, "null" \notin Reply PROVE Spec => []ResidualAllowanceExact
<1>1. Init => ResidualAllowanceExact
  BY DEF Init, ResidualAllowanceExact
<1>2. FlowInv /\ NonceInv /\ ResidualAllowanceExact /\ [Next]_vars
        => ResidualAllowanceExact'
  <2> SUFFICES ASSUME FlowInv, NonceInv, ResidualAllowanceExact, [Next]_vars
               PROVE  ResidualAllowanceExact'
    OBVIOUS
  <2>1. CASE chain' = chain /\ ethNonce' = ethNonce /\ allowance' = allowance
    BY <2>1 DEF ResidualAllowanceExact, LastEth
  <2>2. ASSUME NEW p \in Proc, Posting(p), Accept(p, prepared[p].txs[cursor[p]])
        PROVE  ResidualAllowanceExact'
    <3>1. PICK n, ok :
             /\ chain' = chain \cup {n} /\ ok \in BOOLEAN
             /\ n.p = p /\ n.i = cursor[p] /\ n.tx = prepared[p].txs[cursor[p]]
             /\ n.ok = ok /\ n.tx.chain = ctx[p].job.chain
             /\ Executes(n.tx, ok) /\ allowance' = AllowanceAfter(n.tx, ok)
             /\ n.tx.chain = "ETH" =>
                    /\ n.tx.nonce = ethNonce /\ ethNonce' = ethNonce + 1
                    /\ ctx[p].acct.nonce + (cursor[p] - 1) = ethNonce
             /\ n.tx.chain # "ETH" => ethNonce' = ethNonce
      BY <2>2, AcceptedEntry
    <3>2. /\ TypeOK /\ ProcessInv(p) /\ ethNonce \in Nat /\ allowance \in Int
          /\ ctx[p] \in ContextType /\ ctx[p].acct.nonce \in Nat
      BY DEF FlowInv, TypeOK, ContextType
    <3>3. /\ ctx[p].job \in Job /\ prepared[p].txs \in BuiltTxs(ctx[p])
          /\ cursor[p] \in 1 .. Len(prepared[p].txs) /\ Len(prepared[p].txs) \in 1 .. 2
      BY <2>2, <3>2, AtCursor
    <3>4. CASE n.tx.chain # "ETH"
      <4>1. allowance' = allowance /\ ethNonce' = ethNonce
        BY <3>1, <3>4 DEF AllowanceAfter
      <4> QED
        BY <3>1, <3>4, <4>1 DEF ResidualAllowanceExact, LastEth
    <3>5. CASE n.tx.chain = "ETH"
      <4>1. \A e \in chain : ~LastEth(e)'
        <5> SUFFICES ASSUME NEW e \in chain, e.tx.chain = "ETH", e.tx.nonce + 1 = ethNonce'
                     PROVE  FALSE
          BY DEF LastEth
        <5>1. e.tx.nonce < ethNonce /\ e.tx.nonce \in Int
          BY NonceType DEF NonceInv
        <5> QED
          BY <3>1, <3>2, <3>5, <5>1
      <4>2. n.tx.fn = "approve" => allowance' = n.tx.amount
        BY <3>1, <3>5 DEF Executes, AllowanceAfter
      <4>3. n.tx.fn = "depositWithExpiry" =>
                allowance' = IF n.ok THEN 0 ELSE n.tx.amount
        <5> SUFFICES ASSUME n.tx.fn = "depositWithExpiry"
                     PROVE  allowance' = IF n.ok THEN 0 ELSE n.tx.amount
          OBVIOUS
        <5>1. cursor[p] = 2
          <6>1. CASE Len(prepared[p].txs) = 2
            <7>1. prepared[p].txs = <<ApproveTx(ctx[p]), DepositTx(ctx[p])>>
              BY <3>2, <3>3, <6>1, BuiltShape
            <7>2. ApproveTx(ctx[p]).fn = "approve"
              BY DEF ApproveTx, NativeTx
            <7>3. cursor[p] # 1
              BY <3>1, <7>1, <7>2
            <7> QED
              BY <3>3, <6>1, <7>3
          <6>2. CASE Len(prepared[p].txs) = 1
            <7>1. cursor[p] = 1
              BY <3>3, <6>2
            <7>2. prepared[p].txs = <<IF ctx[p].job.token THEN TransferTx(ctx[p])
                                      ELSE NativeTx(ctx[p])>>
              <8>1. ctx[p].job.chain = "ETH"
                BY <3>1, <3>5
              <8>2. ~(ctx[p].job.token /\ isSwap(ctx[p].job))
                BY <3>3, <6>2, <8>1 DEF BuiltTxs
              <8> QED
                BY <3>3, <8>1, <8>2 DEF BuiltTxs
            <7>3. TransferTx(ctx[p]).fn = "transfer" /\ NativeTx(ctx[p]).fn = "none"
              BY DEF TransferTx, NativeTx
            <7> QED
              BY <3>1, <7>1, <7>2, <7>3
          <6> QED
            BY <3>3, <6>1, <6>2
        <5>2. PICK a \in chain :
                 /\ a.tx.chain = "ETH" /\ a.tx.fn = "approve"
                 /\ a.tx.nonce = ctx[p].acct.nonce
                 /\ a.tx.amount = Native(ctx[p].job, AmountOf(ctx[p]))
                 /\ prepared[p].txs[2] = DepositTx(ctx[p])
          BY <2>2, <5>1, ApproveBefore
        <5>3. LastEth(a)
          BY <3>1, <3>2, <3>5, <5>1, <5>2 DEF LastEth
        <5>4. allowance = a.tx.amount
          BY <5>2, <5>3 DEF ResidualAllowanceExact
        <5>5. n.tx.amount = allowance
          <6>1. DepositTx(ctx[p]).amount = Native(ctx[p].job, AmountOf(ctx[p]))
            BY DEF DepositTx, NativeTx
          <6> QED
            BY <3>1, <5>1, <5>2, <5>4, <6>1
        <5> QED
          BY <3>1, <3>2, <3>5, <5>5 DEF AllowanceAfter
      <4> QED
        BY <3>1, <4>1, <4>2, <4>3 DEF ResidualAllowanceExact
    <3> QED
      BY <3>4, <3>5
  <2> QED
    BY <2>1, <2>2, NonceMoves
<1> QED
  BY <1>1, <1>2, FlowInvariant, NonceInvariant, PTL DEF Spec

---------------------------------------------------------------------------
\* SpendFlow implements Spending: every step of an invocation is a step of the
\* abstract specification or leaves it unchanged

\* What a step does to the chain and to the invocation that takes it

EarlySteps == {"idle", "account", "select", "now", "inbound", "mimir", "quote",
               "build", "gated", "prompt"}
Stopped == Ended \ {"done"}

\* Up to the consent nothing is posted, and consent changes no transaction.
LEMMA EarlyMoves ==
    ASSUME TypeOK, NEW p \in Proc, Step(p), pc[p] \in EarlySteps
    PROVE  /\ chain' = chain /\ inflight' = inflight
           /\ pc'[p] \in EarlySteps \cup Stopped \cup {"check"}
           /\ pc'[p] = "check" => prepared' = prepared
<1> USE DEF TypeOK, Goto, env, ledger, locals, EarlySteps, Stopped, Ended
<1>1. CASE CmdStart(p)
  BY <1>1 DEF CmdStart
<1>2. CASE ReadAccount(p)
  BY <1>2 DEF ReadAccount, AfterAccount
<1>3. CASE SelectBackend(p)
  BY <1>3 DEF SelectBackend
<1>4. CASE ReadClock(p)
  BY <1>4 DEF ReadClock
<1>5. CASE InboundAddresses(p)
  BY <1>5 DEF InboundAddresses, AfterInbound
<1>6. CASE Mimir(p)
  BY <1>6 DEF Mimir
<1>7. CASE QuoteSwap(p)
  BY <1>7 DEF QuoteSwap
<1>8. CASE BuildAndVerify(p)
  BY <1>8 DEF BuildAndVerify
<1>9. CASE Confirm(p)
  BY <1>9 DEF Confirm
<1>10. CASE Prompt(p)
  BY <1>10 DEF Prompt
<1>11. CASE ExecuteSwap(p) \/ Broadcast(p)
  BY <1>11 DEF ExecuteSwap, Broadcast
<1> QED
  BY <1>1, <1>2, <1>3, <1>4, <1>5, <1>6, <1>7, <1>8, <1>9, <1>10, <1>11 DEF Step

\* The other steps are the signing and the posting.
LEMMA LateMoves ==
    ASSUME NEW p \in Proc, Step(p), pc[p] \notin EarlySteps
    PROVE  ExecuteSwap(p) \/ Broadcast(p)
  BY DEF Step, CmdStart, ReadAccount, SelectBackend, ReadClock, InboundAddresses,
         Mimir, QuoteSwap, BuildAndVerify, Confirm, Prompt, EarlySteps

\* One round of the broadcast loop: the transaction at the cursor lands, or
\* nothing does; the loop goes on only after it has landed.
LEMMA BroadcastMoves ==
    ASSUME TypeOK, NEW p \in Proc, Broadcast(p), "null" \notin Reply
    PROVE  /\ pc[p] = "post" /\ prepared' = prepared
           /\ \/ /\ \E ok \in BOOLEAN :
                      chain' = chain \cup {[p |-> p, i |-> cursor[p],
                                            tx |-> prepared[p].txs[cursor[p]], ok |-> ok]}
                 /\ inflight' = inflight
                 /\ \/ /\ cursor[p] = Len(prepared[p].txs)
                       /\ pc'[p] = "done" /\ cursor' = cursor
                    \/ /\ cursor[p] # Len(prepared[p].txs)
                       /\ pc'[p] = "post" /\ cursor'[p] = cursor[p] + 1
                    \/ pc'[p] \in {"failed", "crashed"} /\ cursor' = cursor
              \/ /\ chain' = chain /\ cursor' = cursor
                 /\ pc'[p] \in {"failed", "crashed"}
                 /\ inflight' = inflight \/ inflight' = inflight \cup {p}
<1> DEFINE tx == prepared[p].txs[cursor[p]]
<1>1. /\ pc[p] = "post" /\ prepared' = prepared
      /\ \/ /\ Accept(p, tx) /\ inflight' = inflight
            /\ Advance(p) \/ (Goto(p, Unanswered(p)) /\ cursor' = cursor)
         \/ /\ chain' = chain /\ cursor' = cursor
            /\ Goto(p, "failed") \/ Goto(p, Unanswered(p))
            /\ inflight' = inflight \/ inflight' = inflight \cup {p}
  BY DEF Broadcast, ledger
<1>2. \A l \in {"failed", "crashed", "done", "post"} : Goto(p, l) => pc'[p] = l
  BY DEF Goto, TypeOK
<1>3. Unanswered(p) \in {"failed", "crashed"}
  BY DEF Unanswered
<1>4. Advance(p) =>
        \/ cursor[p] = Len(prepared[p].txs) /\ pc'[p] = "done" /\ cursor' = cursor
        \/ /\ cursor[p] # Len(prepared[p].txs)
           /\ pc'[p] = "post" /\ cursor'[p] = cursor[p] + 1
  BY <1>2 DEF Advance, TypeOK
<1>5. Accept(p, tx) => \E ok \in BOOLEAN :
        chain' = chain \cup {[p |-> p, i |-> cursor[p], tx |-> tx, ok |-> ok]}
  BY DEF Accept
<1> QED
  BY <1>1, <1>2, <1>3, <1>4, <1>5

\* A transaction that lands after its invocation has ended.
LEMMA LateMove ==
    ASSUME NEW p \in Proc, LateAccept(p)
    PROVE  /\ p \in inflight /\ Posting(p) /\ inflight' = inflight \ {p}
           /\ pc' = pc /\ prepared' = prepared /\ cursor' = cursor
           /\ \E ok \in BOOLEAN :
                chain' = chain \cup {[p |-> p, i |-> cursor[p],
                                      tx |-> prepared[p].txs[cursor[p]], ok |-> ok]}
  BY DEF LateAccept, Accept, Posting, locals

---------------------------------------------------------------------------
\* The transaction at the cursor has not landed

LEMMA PostStep ==
    ASSUME FlowInv, PostInv, [Next]_vars, "null" \notin Reply
    PROVE  PostInv'
<1> SUFFICES ASSUME NEW p \in Proc, Posting(p)', NEW e \in chain',
                    e.p = p, e.i = cursor'[p]
             PROVE  FALSE
  BY DEF PostInv, OnChain
<1>0. TypeOK /\ ProcessInv(p) /\ \A f \in chain : EntryInv(f)
  BY DEF FlowInv
<1>1. CASE e \in chain /\ Posting(p) /\ cursor'[p] = cursor[p]
  BY <1>1 DEF PostInv, OnChain
<1>2. CASE ExecuteSwap(p)
  <2>1. pc[p] = "check" /\ e \in chain
    BY <1>2 DEF ExecuteSwap, env, ledger
  <2> QED
    BY <1>0, <2>1 DEF EntryInv, Late
<1>3. CASE Broadcast(p)
  <2>0. Posting(p) /\ p \notin inflight
    BY <1>0, <1>3 DEF Broadcast, Posting, ProcessInv
  <2>1. CASE chain' = chain /\ cursor' = cursor
    BY <1>1, <2>0, <2>1
  <2>2. CASE ~(chain' = chain /\ cursor' = cursor)
    <3>1. /\ inflight' = inflight
          /\ e \in chain \/ e.i = cursor[p]
      BY <1>0, <1>3, <2>2, BroadcastMoves
    <3>2. pc'[p] = "post"
      BY <2>0, <3>1 DEF Posting
    <3>3. cursor'[p] = cursor[p] + 1
      BY <1>0, <1>3, <2>2, <3>2, BroadcastMoves
    <3>4. cursor[p] \in Nat
      BY <1>0 DEF TypeOK
    <3>5. e \in chain => e.i \in 1 .. cursor[p]
      BY <1>0 DEF EntryInv
    <3> QED
      BY <3>1, <3>3, <3>4, <3>5
  <2> QED
    BY <2>1, <2>2
<1>4. ASSUME NEW q \in Proc, q # p, Step(q) \/ Kill(q) \/ LateAccept(q) PROVE FALSE
  <2>1. Posting(p) /\ cursor'[p] = cursor[p]
    BY <1>0, <1>4, OthersUntouched DEF Posting
  <2>2. CASE chain' = chain
    BY <1>1, <2>1, <2>2
  <2>3. CASE Broadcast(q) \/ LateAccept(q)
    <3>1. e \in chain \/ e.p = q
      BY <1>0, <2>3, BroadcastMoves, LateMove
    <3> QED
      BY <1>1, <1>4, <2>1, <3>1
  <2>4. Kill(q) \/ ExecuteSwap(q) => chain' = chain
    BY DEF Kill, ExecuteSwap, env, ledger
  <2> QED
    BY <1>0, <1>4, <2>2, <2>3, <2>4, EarlyMoves, LateMoves
<1>5. CASE Step(p)
  <2>1. CASE pc[p] \in EarlySteps
    <3>1. p \notin inflight
      BY <1>0, <2>1 DEF ProcessInv, EarlySteps
    <3> QED
      BY <1>0, <1>5, <2>1, <3>1, EarlyMoves DEF EarlySteps, Stopped, Ended, Posting
  <2> QED
    BY <1>2, <1>3, <1>5, <2>1, LateMoves
<1>6. CASE Kill(p)
  <2>1. Posting(p) /\ cursor' = cursor /\ chain' = chain
    BY <1>0, <1>6 DEF Kill, Goto, TypeOK, Posting, ledger, locals
  <2> QED
    BY <1>1, <2>1
<1>7. CASE LateAccept(p)
  <2>1. pc[p] # "post" /\ pc' = pc /\ p \notin inflight'
    BY <1>0, <1>7, LateMove DEF ProcessInv
  <2> QED
    BY <2>1 DEF Posting
<1>8. CASE Tick \/ (\E b \in Backend : NetworkChange(b)) \/ UNCHANGED vars
  <2>1. chain' = chain /\ pc' = pc /\ cursor' = cursor /\ inflight' = inflight
    BY <1>8 DEF Tick, NetworkChange, vars, env, ledger, locals
  <2> QED
    BY <1>1, <2>1 DEF Posting
<1> QED
  BY <1>4, <1>5, <1>6, <1>7, <1>8 DEF Next

---------------------------------------------------------------------------
\* The refinement

\* A step of one invocation moves only its own part of the abstract state.
LEMMA BarMoves ==
    ASSUME TypeOK, "null" \notin Reply, NEW p \in Proc,
           Step(p) \/ Kill(p) \/ LateAccept(p)
    PROVE  /\ phaseBar' = [phaseBar EXCEPT ![p] = phaseBar'[p]]
           /\ orderBar' = [orderBar EXCEPT ![p] = orderBar'[p]]
           /\ landedBar' = [landedBar EXCEPT ![p] = landedBar'[p]]
<1>1. \A q \in Proc : q # p => /\ pc'[q] = pc[q] /\ prepared'[q] = prepared[q]
                               /\ q \in inflight' <=> q \in inflight
  BY OthersUntouched
<1>2. \A q \in Proc : q # p => phaseBar'[q] = phaseBar[q] /\ orderBar'[q] = orderBar[q]
  <2> SUFFICES ASSUME NEW q \in Proc, q # p
               PROVE  phaseBar'[q] = phaseBar[q] /\ orderBar'[q] = orderBar[q]
    OBVIOUS
  <2>1. pc'[q] = pc[q] /\ prepared'[q] = prepared[q]
    BY <1>1
  <2>2. q \in inflight' <=> q \in inflight
    BY <1>1
  <2>3. phaseBar'[q] = phaseBar[q]
    BY <2>1, <2>2 DEF phaseBar
  <2>4. orderBar'[q] = orderBar[q]
    BY <2>1, <2>2, <2>3 DEF orderBar
  <2> QED
    BY <2>3, <2>4
<1>3. chain' = chain \/ \E e : e.p = p /\ chain' = chain \cup {e}
  <2>1. CASE Broadcast(p) \/ LateAccept(p)
    <3>1. chain' = chain \/ \E ok \in BOOLEAN :
              chain' = chain \cup {[p |-> p, i |-> cursor[p],
                                    tx |-> prepared[p].txs[cursor[p]], ok |-> ok]}
      BY <2>1, BroadcastMoves, LateMove
    <3> QED
      BY <3>1
  <2>2. Kill(p) \/ ExecuteSwap(p) => chain' = chain
    BY DEF Kill, ExecuteSwap, env, ledger
  <2> QED
    BY <2>1, <2>2, EarlyMoves, LateMoves
<1>4. \A q \in Proc : q # p => {f \in chain' : f.p = q} = {f \in chain : f.p = q}
  BY <1>3
<1>5. \A q \in Proc : q # p => landedBar'[q] = landedBar[q]
  BY <1>4 DEF landedBar
<1>6. /\ phaseBar' = [q \in Proc |-> phaseBar'[q]]
      /\ orderBar' = [q \in Proc |-> orderBar'[q]]
      /\ landedBar' = [q \in Proc |-> landedBar'[q]]
      /\ DOMAIN phaseBar = Proc /\ DOMAIN orderBar = Proc /\ DOMAIN landedBar = Proc
  BY DEF phaseBar, orderBar, landedBar
<1> QED
  BY <1>2, <1>5, <1>6

\* Before its first post an invocation has nothing on the chain; while it
\* posts it has exactly the transactions before the cursor.
LEMMA LandedPrefix ==
    ASSUME FlowInv, PostInv, "null" \notin Reply, NEW p \in Proc
    PROVE  /\ pc[p] \notin Late => landedBar[p] = {}
           /\ Posting(p) => landedBar[p] = Abs!Prefix(p, cursor[p] - 1)
<1>0. TypeOK /\ ProcessInv(p) /\ \A f \in chain : EntryInv(f)
  BY DEF FlowInv
<1>1. pc[p] \notin Late => landedBar[p] = {}
  BY <1>0 DEF EntryInv, landedBar
<1>2. ASSUME Posting(p) PROVE landedBar[p] = Abs!Prefix(p, cursor[p] - 1)
  <2>0. cursor[p] \in Nat
    BY <1>0 DEF TypeOK
  <2>1. \A f \in chain : f.p = p => /\ f.i \in 1 .. cursor[p] - 1
                                    /\ f.tx = prepared[p].txs[f.i]
    <3> SUFFICES ASSUME NEW f \in chain, f.p = p
                 PROVE  f.i \in 1 .. cursor[p] - 1 /\ f.tx = prepared[p].txs[f.i]
      OBVIOUS
    <3>1. f.i \in 1 .. cursor[p] /\ f.tx = prepared[p].txs[f.i]
      BY <1>0 DEF EntryInv
    <3>2. f.i # cursor[p]
      BY <1>2 DEF PostInv, OnChain
    <3> QED
      BY <2>0, <3>1, <3>2
  <2>2. \A i \in 1 .. cursor[p] - 1 : \E f \in chain : f.p = p /\ f.i = i
    BY <1>0, <1>2 DEF ProcessInv, OnChain
  <2>3. landedBar[p] = {<<j, prepared[p].txs[j]>> : j \in 1 .. cursor[p] - 1}
    <3>1. landedBar[p] = {<<e.i, e.tx>> : e \in {f \in chain : f.p = p}}
      BY DEF landedBar
    <3>2. \A x \in landedBar[p] : x \in {<<j, prepared[p].txs[j]>> : j \in 1 .. cursor[p] - 1}
      BY <2>1, <3>1
    <3>3. \A j \in 1 .. cursor[p] - 1 : <<j, prepared[p].txs[j]>> \in landedBar[p]
      BY <2>1, <2>2, <3>1
    <3> QED
      BY <3>2, <3>3
  <2>4. orderBar[p] = prepared[p].txs
    BY <1>2 DEF orderBar, Posting
  <2> QED
    BY <2>3, <2>4 DEF Abs!Prefix
<1> QED
  BY <1>1, <1>2

\* The step that lands a transaction extends the prefix by one.
LEMMA PrefixGrows ==
    ASSUME FlowInv, PostInv, "null" \notin Reply, NEW p \in Proc, Posting(p), NEW ok \in BOOLEAN,
           chain' = chain \cup {[p |-> p, i |-> cursor[p],
                                 tx |-> prepared[p].txs[cursor[p]], ok |-> ok]}
    PROVE  landedBar'[p] = Abs!Prefix(p, cursor[p])
<1> DEFINE new == [p |-> p, i |-> cursor[p], tx |-> prepared[p].txs[cursor[p]], ok |-> ok]
<1>1. cursor[p] \in Nat \ {0}
  BY DEF FlowInv, ProcessInv, Signed, TypeOK
<1>2. orderBar[p] = prepared[p].txs
  BY DEF orderBar, Posting
<1>3. new.p = p /\ new.i = cursor[p] /\ new.tx = prepared[p].txs[cursor[p]]
  OBVIOUS
<1> HIDE DEF new
<1>4. landedBar'[p] = landedBar[p] \cup {<<cursor[p], prepared[p].txs[cursor[p]]>>}
  <2>1. /\ landedBar[p] = {<<e.i, e.tx>> : e \in {f \in chain : f.p = p}}
        /\ landedBar'[p] = {<<e.i, e.tx>> : e \in {f \in chain' : f.p = p}}
    BY DEF landedBar
  <2>2. {f \in chain' : f.p = p} = {f \in chain : f.p = p} \cup {new}
    BY <1>3 DEF new
  <2> QED
    BY <1>3, <2>1, <2>2
<1>5. landedBar[p] = {<<j, prepared[p].txs[j]>> : j \in 1 .. cursor[p] - 1}
  BY <1>2, LandedPrefix DEF Abs!Prefix
<1>6. 1 .. cursor[p] = (1 .. cursor[p] - 1) \cup {cursor[p]}
  BY <1>1
<1>7. Abs!Prefix(p, cursor[p]) = {<<j, prepared[p].txs[j]>> : j \in 1 .. cursor[p]}
  BY <1>2 DEF Abs!Prefix
<1>8. {<<j, prepared[p].txs[j]>> : j \in 1 .. cursor[p]}
        = {<<j, prepared[p].txs[j]>> : j \in 1 .. cursor[p] - 1}
            \cup {<<cursor[p], prepared[p].txs[cursor[p]]>>}
  BY <1>6
<1> QED
  BY <1>4, <1>5, <1>7, <1>8

\* Every step is a step of the abstract specification, or leaves it unchanged.
LEMMA PromiseStep ==
    ASSUME FlowInv, PostInv, [Next]_vars, "null" \notin Reply
    PROVE  [Abs!Next]_(Abs!avars)
<1>0. TypeOK /\ \A p \in Proc : ProcessInv(p)
  BY DEF FlowInv
<1>a. /\ \A p \in Proc : Abs!Stop(p) => Abs!Next
      /\ \A p \in Proc : Abs!Consent(p) => Abs!Next
      /\ \A p \in Proc : Abs!Commit(p) => Abs!Next
      /\ \A p \in Proc : Abs!Land(p) => Abs!Next
      /\ \A p \in Proc : Abs!GiveUp(p) => Abs!Next
      /\ \A p \in Proc : Abs!LandLate(p) => Abs!Next
  BY DEF Abs!Next
<1>b. \A p \in Proc : p \in inflight => pc[p] \in {"failed", "crashed", "killed"}
  BY <1>0 DEF ProcessInv
<1>c. ASSUME NEW p \in Proc, Step(p) \/ Kill(p), chain' = chain, prepared' = prepared,
             pc[p] = "post", pc'[p] \in Stopped, p \in inflight'
      PROVE  Abs!Next
  <2>1. landedBar' = landedBar
    BY <1>c DEF landedBar
  <2>2. phaseBar[p] = "committed" /\ phaseBar'[p] = "unsure"
    BY <1>c DEF phaseBar, Stopped, Ended
  <2>3. orderBar'[p] = orderBar[p]
    BY <1>c DEF orderBar
  <2>4. [orderBar EXCEPT ![p] = orderBar[p]] = orderBar
    BY DEF orderBar
  <2>5. Abs!GiveUp(p)
    BY <1>0, <1>c, <2>1, <2>2, <2>3, <2>4, BarMoves DEF Abs!GiveUp
  <2> QED
    BY <1>a, <2>5
<1>1. ASSUME NEW p \in Proc, Step(p) \/ Kill(p), chain' = chain, p \notin inflight',
             pc[p] \in EarlySteps \cup {"check", "post"}, pc'[p] \in Stopped
      PROVE  Abs!Next
  <2>1. landedBar' = landedBar
    BY <1>1 DEF landedBar
  <2>2. phaseBar[p] \in {"open", "consented", "committed"} /\ phaseBar'[p] = "stopped"
    BY <1>1 DEF phaseBar, EarlySteps, Stopped, Ended
  <2>3. orderBar'[p] = <<>>
    BY <1>1 DEF orderBar, Stopped, Ended
  <2>4. Abs!Stop(p)
    BY <1>0, <1>1, <2>1, <2>2, <2>3, BarMoves DEF Abs!Stop
  <2> QED
    BY <1>a, <2>4
<1>2. ASSUME NEW p \in Proc, Step(p), pc[p] \in EarlySteps
      PROVE  [Abs!Next]_(Abs!avars)
  <2>1. /\ chain' = chain /\ pc'[p] \in EarlySteps \cup Stopped \cup {"check"}
        /\ pc'[p] = "check" => prepared' = prepared
        /\ p \notin inflight /\ p \notin inflight'
    BY <1>0, <1>b, <1>2, EarlyMoves DEF EarlySteps
  <2>2. landedBar' = landedBar
    BY <2>1 DEF landedBar
  <2>3. phaseBar[p] = "open" /\ orderBar[p] = <<>>
    BY <1>2, <2>1 DEF phaseBar, orderBar, EarlySteps, Ended
  <2>4. CASE pc'[p] \in EarlySteps
    <3>1. phaseBar'[p] = "open" /\ orderBar'[p] = <<>>
      BY <2>1, <2>4 DEF phaseBar, orderBar, EarlySteps, Ended
    <3>2. phaseBar' = phaseBar /\ orderBar' = orderBar
      <4>1. DOMAIN phaseBar = Proc /\ DOMAIN orderBar = Proc
        BY DEF phaseBar, orderBar
      <4>2. /\ [phaseBar EXCEPT ![p] = phaseBar[p]] = phaseBar
            /\ [orderBar EXCEPT ![p] = orderBar[p]] = orderBar
        BY DEF phaseBar, orderBar
      <4> QED
        BY <1>0, <1>2, <2>3, <3>1, <4>2, BarMoves
    <3> QED
      BY <2>2, <3>2 DEF Abs!avars
  <2>5. CASE pc'[p] = "check"
    <3>1. phaseBar'[p] = "consented" /\ orderBar'[p] = prepared'[p].txs
      BY <2>5 DEF phaseBar, orderBar, Ended
    <3>2. prepared'[p].txs # <<>>
      <4>1. Confirm(p) \/ Prompt(p)
        BY <1>0, <1>2, <2>5 DEF Step, CmdStart, ReadAccount, SelectBackend, ReadClock,
             InboundAddresses, Mimir, QuoteSwap, BuildAndVerify, ExecuteSwap, Broadcast,
             Advance, AfterAccount, AfterInbound, Goto, TypeOK, EarlySteps
      <4>2. pc[p] \in {"gated", "prompt"}
        BY <4>1 DEF Confirm, Prompt
      <4>3. prepared[p].txs \in BuiltTxs(ctx[p]) /\ ctx[p] \in ContextType
        BY <1>0, <4>2 DEF ProcessInv, Verified, TypeOK
      <4>4. Len(prepared[p].txs) \in 1 .. 2
        BY <4>3, BuiltShape
      <4>5. prepared[p].txs # <<>>
        BY <4>4
      <4> QED
        BY <2>1, <2>5, <4>5
    <3>3. Abs!Consent(p)
      BY <1>0, <1>2, <2>2, <2>3, <3>1, <3>2, BarMoves DEF Abs!Consent
    <3> QED
      BY <1>a, <3>3
  <2>6. CASE pc'[p] \in Stopped
    BY <1>1, <1>2, <2>1, <2>6
  <2> QED
    BY <2>1, <2>4, <2>5, <2>6
<1>3. ASSUME NEW p \in Proc, ExecuteSwap(p) PROVE Abs!Next
  <2>1. /\ Step(p) /\ chain' = chain /\ prepared' = prepared /\ pc[p] = "check"
        /\ p \notin inflight'
    BY <1>b, <1>3 DEF ExecuteSwap, env, ledger, Step
  <2>2. pc'[p] \in {"aborted", "post"}
    BY <1>0, <1>3 DEF ExecuteSwap, Goto, TypeOK
  <2>3. CASE pc'[p] = "aborted"
    BY <1>1, <2>1, <2>3 DEF Stopped, Ended
  <2>4. CASE pc'[p] = "post"
    <3>1. /\ phaseBar[p] = "consented" /\ phaseBar'[p] = "committed"
          /\ orderBar'[p] = orderBar[p]
      BY <2>1, <2>4 DEF phaseBar, orderBar, Ended
    <3>2. landedBar' = landedBar
      BY <2>1 DEF landedBar
    <3>3. [orderBar EXCEPT ![p] = orderBar[p]] = orderBar
      BY DEF orderBar
    <3>4. orderBar' = orderBar
      BY <1>0, <2>1, <3>1, <3>3, BarMoves
    <3>5. Abs!Commit(p)
      BY <1>0, <2>1, <3>1, <3>2, <3>4, BarMoves DEF Abs!Commit
    <3> QED
      BY <1>a, <3>5
  <2> QED
    BY <2>2, <2>3, <2>4
<1>4. ASSUME NEW p \in Proc, Broadcast(p) PROVE Abs!Next
  <2>1. Step(p) /\ pc[p] = "post" /\ prepared' = prepared
    BY <1>0, <1>4, BroadcastMoves DEF Step
  <2>2. CASE chain' = chain /\ pc'[p] \in {"failed", "crashed"}
    <3>1. pc'[p] \in Stopped
      BY <2>2 DEF Stopped, Ended
    <3> QED
      BY <1>1, <1>c, <2>1, <2>2, <3>1
  <2>3. ASSUME NEW ok \in BOOLEAN,
               chain' = chain \cup {[p |-> p, i |-> cursor[p],
                                     tx |-> prepared[p].txs[cursor[p]], ok |-> ok]}
        PROVE  Abs!Next
    <3>1. phaseBar[p] = "committed" /\ orderBar[p] = prepared[p].txs
      BY <2>1 DEF phaseBar, orderBar, Ended
    <3>2. /\ landedBar[p] = Abs!Prefix(p, cursor[p] - 1)
          /\ landedBar'[p] = Abs!Prefix(p, cursor[p])
      BY <2>1, <2>3, LandedPrefix, PrefixGrows DEF Posting
    <3>3. cursor[p] \in DOMAIN orderBar[p]
      <4>1. /\ ctx[p] \in ContextType /\ prepared[p].txs \in BuiltTxs(ctx[p])
            /\ cursor[p] \in 1 .. Len(prepared[p].txs)
        BY <1>0, <2>1, AtCursor DEF Posting
      <4> QED
        BY <3>1, <4>1, BuiltShape
    <3>7. p \notin inflight'
      <4>1. p \notin inflight
        BY <1>b, <2>1
      <4>2. chain' # chain
        <5>1. ~OnChain(p, cursor[p])
          BY <2>1 DEF PostInv, Posting
        <5>3. \E f \in chain' : f.p = p /\ f.i = cursor[p]
          <6> DEFINE new == [p |-> p, i |-> cursor[p],
                             tx |-> prepared[p].txs[cursor[p]], ok |-> ok]
          <6>1. new \in chain' /\ new.p = p /\ new.i = cursor[p]
            BY <2>3
          <6> HIDE DEF new
          <6> QED BY <6>1
        <5> QED BY <5>1, <5>3 DEF OnChain
      <4> QED
        BY <1>0, <1>4, <4>1, <4>2, BroadcastMoves
    <3>4. landedBar' = [landedBar EXCEPT ![p] = Abs!Prefix(p, cursor[p])]
      BY <1>0, <2>1, <3>2, BarMoves
    <3>5. CASE pc'[p] \in {"failed", "crashed"}
      <4>1. phaseBar'[p] = "stopped" /\ orderBar'[p] = <<>>
        BY <3>5, <3>7 DEF phaseBar, orderBar, Ended
      <4>2. Abs!Land(p)
        BY <1>0, <2>1, <3>1, <3>2, <3>3, <3>4, <4>1, BarMoves DEF Abs!Land
      <4> QED
        BY <1>a, <4>2
    <3>6. CASE pc'[p] \in {"post", "done"}
      <4>1. pc'[p] = "done" <=> cursor[p] = Len(orderBar[p])
        BY <1>0, <1>4, <3>1, <3>6, BroadcastMoves
      <4>2. /\ phaseBar'[p] = IF cursor[p] = Len(orderBar[p]) THEN "done" ELSE phaseBar[p]
            /\ orderBar'[p] = orderBar[p]
        BY <2>1, <3>1, <3>6, <4>1 DEF phaseBar, orderBar
      <4>3. [orderBar EXCEPT ![p] = orderBar[p]] = orderBar
        BY DEF orderBar
      <4>4. orderBar' = orderBar
        BY <1>0, <2>1, <4>2, <4>3, BarMoves
      <4>5. Abs!Land(p)
        BY <1>0, <2>1, <3>1, <3>2, <3>3, <3>4, <4>2, <4>4, BarMoves DEF Abs!Land
      <4> QED
        BY <1>a, <4>5
    <3> QED
      BY <1>0, <1>4, <3>5, <3>6, BroadcastMoves
  <2> QED
    BY <1>0, <1>4, <2>2, <2>3, BroadcastMoves
<1>5. ASSUME NEW p \in Proc, Kill(p) PROVE Abs!Next
  <2>1. /\ pc[p] \in EarlySteps \cup {"check", "post"} /\ pc'[p] = "killed"
        /\ chain' = chain /\ prepared' = prepared
        /\ pc[p] = "post" <=> p \in inflight'
    BY <1>0, <1>b, <1>5 DEF Kill, Goto, TypeOK, Steps, EarlySteps, ledger, locals
  <2>2. "killed" \in Stopped
    BY DEF Stopped, Ended
  <2> QED
    BY <1>1, <1>c, <1>5, <2>1, <2>2
<1>6. CASE Tick \/ (\E b \in Backend : NetworkChange(b)) \/ UNCHANGED vars
  <2>1. chain' = chain /\ pc' = pc /\ prepared' = prepared /\ inflight' = inflight
    BY <1>6 DEF Tick, NetworkChange, vars, env, ledger, locals
  <2> QED
    BY <2>1 DEF Abs!avars, phaseBar, orderBar, landedBar
<1>7. ASSUME NEW p \in Proc, LateAccept(p) PROVE Abs!Next
  <2>1. /\ Posting(p) /\ p \in inflight /\ p \notin inflight' /\ pc' = pc
        /\ pc[p] \in {"failed", "crashed", "killed"}
    BY <1>b, <1>7, LateMove
  <2>2. PICK ok \in BOOLEAN :
          chain' = chain \cup {[p |-> p, i |-> cursor[p],
                                tx |-> prepared[p].txs[cursor[p]], ok |-> ok]}
    BY <1>7, LateMove
  <2>3. /\ phaseBar[p] = "unsure" /\ phaseBar'[p] = "stopped"
        /\ orderBar[p] = prepared[p].txs /\ orderBar'[p] = <<>>
    BY <2>1 DEF phaseBar, orderBar, Ended
  <2>4. /\ landedBar[p] = Abs!Prefix(p, cursor[p] - 1)
        /\ landedBar'[p] = Abs!Prefix(p, cursor[p])
    BY <2>1, <2>2, LandedPrefix, PrefixGrows
  <2>5. cursor[p] \in DOMAIN orderBar[p]
    <3>1. /\ ctx[p] \in ContextType /\ prepared[p].txs \in BuiltTxs(ctx[p])
          /\ cursor[p] \in 1 .. Len(prepared[p].txs)
      BY <1>0, <2>1, AtCursor
    <3> QED
      BY <2>3, <3>1, BuiltShape
  <2>6. Abs!LandLate(p)
    BY <1>0, <1>7, <2>3, <2>4, <2>5, BarMoves DEF Abs!LandLate
  <2> QED
    BY <1>a, <2>6
<1> QED
  BY <1>2, <1>3, <1>4, <1>5, <1>6, <1>7, LateMoves DEF Next

\* At the start nobody has consented and nothing has landed.
LEMMA PromiseInit == Init => Abs!Init /\ PostInv
  BY DEF Init, Abs!Init, PostInv, Posting, phaseBar, orderBar, landedBar, Ended

\* The spending commands keep what Spending promises, for any number of
\* invocations: the list consented to lands in order, nothing twice, nothing
\* after a stop but the one transaction that was under way, and "done" means all
\* of it, unless a node answers with a null result.
THEOREM PromiseKept == ASSUME "null" \notin Reply PROVE Spec => KeepsPromise
<1>1. FlowInv /\ PostInv /\ [Next]_vars => PostInv'
  BY PostStep
<1>2. FlowInv /\ PostInv /\ [Next]_vars => [Abs!Next]_(Abs!avars)
  BY PromiseStep
<1> QED
  BY <1>1, <1>2, PromiseInit, FlowInvariant, PTL DEF Spec, KeepsPromise, Abs!Spec

===========================================================================
