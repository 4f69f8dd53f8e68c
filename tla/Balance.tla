------------------------------ MODULE Balance ------------------------------
(***************************************************************************)
(* The balance command: for every chain the wallet's own balance, the      *)
(* liquidity positions of its addresses on every backend, and its tokens.  *)
(* Each of these is a call that can fail, and a failure is to cost no more *)
(* than the line it is about.                                              *)
(***************************************************************************)
EXTENDS Integers, Sequences

CONSTANTS
    Chain,      \* chains with an adapter
    Chains,     \* _wallet_adapters: the chains, in order
    Backend,    \* swap networks
    Backends,   \* default_backends: the networks, in order
    Tokens,     \* chains whose adapter has token_balances
    Scanned,    \* the chain whose addresses are scanned for (BTC)
    MaxAddr,    \* bound on the addresses a scan finds
    None

ASSUME BalanceAssumption ==
    /\ Chains \in Seq(Chain) /\ Backends \in Seq(Backend) /\ Len(Chains) > 0
    /\ Tokens \subseteq Chain /\ MaxAddr \in Nat \ {0}
    /\ \A ch \in Chain : \E i \in DOMAIN Chains : Chains[i] = ch
    /\ \A i, j \in DOMAIN Chains : Chains[i] = Chains[j] => i = j
    /\ \A be \in Backend : \E i \in DOMAIN Backends : Backends[i] = be

VARIABLES
    lp,         \* the networks: positions by backend, chain and address
    pc,         \* "native", "lookup", "price", "tokens", "done" or "crashed"
    c,          \* the chain
    b,          \* the backend
    a,          \* the address
    addresses,  \* how many addresses the chain's report covers
    price,      \* the price: its pool and whether it is 0.0, or None
    priced,     \* the pool has been asked
    out,        \* lines printed
    err,        \* failures reported
    covered,    \* addresses covered on each chain (history)
    crashedIn   \* the step that ended in a traceback (history)

vars == <<lp, pc, c, b, a, addresses, price, priced, out, err, covered, crashedIn>>
history == <<covered, crashedIn>>
loops == <<c, b, a, addresses, price, priced>>

chain == Chains[c]
backend == Backends[b]

\* What a position holds: nothing worth reporting, the asset alone, or the
\* protocol's own coin too.
Position == {"none", "asset", "both"}

\* Where positions may be: only a scanned chain has more than one address.
Slot == {s \in Backend \X Chain \X (1 .. MaxAddr) : s[2] = Scanned \/ s[3] = 1}

---------------------------------------------------------------------------
\* Lines

Native(ch) == [kind |-> "native", chain |-> ch]
TokenLine(ch) == [kind |-> "tokens", chain |-> ch]

\* LiquidityPosition.format: with a price the protocol's side is valued and
\* folded in, at nothing if the pool is empty; without one it is flagged as not
\* counted.
LpLine(p) ==
    [kind |-> "lp", chain |-> chain, backend |-> backend, addr |-> a, price |-> p,
     protocol |-> IF lp[<<backend, chain, a>>] # "both" THEN "none"
                  ELSE IF p = None THEN "flagged"
                  ELSE IF p.zero THEN "nothing" ELSE "folded"]

LookupFailed(ch, be) == [kind |-> "lp", chain |-> ch, backend |-> be]

---------------------------------------------------------------------------
\* Steps

Crash(where) == pc' = "crashed" /\ crashedIn' = where

\* The adapter loop goes on.
NextChain ==
    /\ pc' = IF c < Len(Chains) THEN "native" ELSE "done"
    /\ c' = IF c < Len(Chains) THEN c + 1 ELSE c

\* Mutant: the price is fetched once for all backends.
NextBackend_KeepPrice == b' = b + 1 /\ a' = 1 /\ UNCHANGED <<price, priced>>

\* The backend loop goes on: price and priced start afresh.
NextBackend == b' = b + 1 /\ a' = 1 /\ price' = None /\ priced' = FALSE

\* Mutant: a chain that cannot be asked ends the command.
Unavailable_Stop == pc' = "done" /\ UNCHANGED c

\* continue
Unavailable == NextChain

\* The adapter's wallet_balance.  A failure is reported and the chain is left; an
\* answer of null is no number, and TypeError is not among those caught.
WalletBalance ==
    /\ pc = "native"
    /\ \/ \E n \in (IF chain = Scanned THEN 0 .. MaxAddr ELSE {1}) :
            /\ out' = out \cup {Native(chain)}
            /\ addresses' = n /\ covered' = [covered EXCEPT ![chain] = n]
            /\ b' = 1 /\ a' = 1 /\ price' = None /\ priced' = FALSE
            /\ pc' = "lookup"
            /\ UNCHANGED <<c, err, crashedIn>>
       \/ /\ err' = err \cup {Native(chain)}
          /\ Unavailable
          /\ UNCHANGED <<b, a, addresses, price, priced, out, history>>
       \/ /\ Crash("native")
          /\ UNCHANGED <<loops, out, err, covered>>
    /\ UNCHANGED lp

\* Mutant: an unreachable backend ends the report of positions.
AfterFailure_Return == b' = Len(Backends) + 1 /\ a' = 1 /\ price' = None /\ priced' = FALSE

\* break
AfterFailure == NextBackend

\* One liquidity_provider call; positions are printed, with the price once it is
\* known.
Lookup ==
    /\ pc = "lookup" /\ b <= Len(Backends) /\ a <= addresses
    /\ \/ /\ lp[<<backend, chain, a>>] = "none"
          /\ a' = a + 1
          /\ UNCHANGED <<pc, c, b, addresses, price, priced, out, err, history>>
       \/ /\ lp[<<backend, chain, a>>] # "none" /\ ~priced
          /\ pc' = "price"
          /\ UNCHANGED <<loops, out, err, history>>
       \/ /\ lp[<<backend, chain, a>>] # "none" /\ priced
          /\ out' = out \cup {LpLine(price)}
          /\ a' = a + 1
          /\ UNCHANGED <<pc, c, b, addresses, price, priced, err, history>>
       \/ /\ err' = err \cup {LookupFailed(chain, backend)}
          /\ AfterFailure
          /\ UNCHANGED <<pc, c, addresses, out, history>>
       \/ /\ Crash("lookup")                        \* a number that is none
          /\ UNCHANGED <<loops, out, err, covered>>
    /\ UNCHANGED lp

\* What is printed when the pool cannot be asked.
PoolFails == {LpLine(None)}

\* asset_per_protocol of the pool, which is 0.0 for one without protocol balance.
PriceOf(zero) == [pool |-> <<backend, chain>>, zero |-> zero]

\* The first position of a backend: its pool is asked for the price.  Depths that
\* are no numbers end in a traceback: only HTTP_ERRORS are caught.
PoolPrice ==
    /\ pc = "price"
    /\ \/ /\ \/ \E zero \in BOOLEAN : /\ price' = PriceOf(zero)
                                      /\ out' = out \cup {LpLine(PriceOf(zero))}
             \/ price' = None /\ out' = out \cup PoolFails
          /\ priced' = TRUE /\ a' = a + 1 /\ pc' = "lookup"
          /\ UNCHANGED <<c, b, addresses, crashedIn>>
       \/ /\ Crash("price")
          /\ UNCHANGED <<loops, out>>
    /\ UNCHANGED <<lp, err, covered>>

\* The loops over addresses and backends end.
EndOfAddresses ==
    /\ pc = "lookup" /\ b <= Len(Backends) /\ a > addresses
    /\ NextBackend
    /\ UNCHANGED <<lp, pc, c, addresses, out, err, history>>

EndOfBackends ==
    /\ pc = "lookup" /\ b > Len(Backends)
    /\ pc' = "tokens"
    /\ UNCHANGED <<lp, loops, out, err, history>>

\* _report_token_balances.
TokenBalances ==
    /\ pc = "tokens"
    /\ \/ /\ chain \notin Tokens
          /\ NextChain
          /\ UNCHANGED <<out, err, crashedIn>>
       \/ /\ chain \in Tokens
          /\ out' = out \cup {TokenLine(chain)}
          /\ NextChain
          /\ UNCHANGED <<err, crashedIn>>
       \/ /\ chain \in Tokens
          /\ err' = err \cup {TokenLine(chain)}
          /\ NextChain
          /\ UNCHANGED <<out, crashedIn>>
       \/ /\ chain \in Tokens /\ Crash("tokens")
          /\ UNCHANGED <<c, out, err>>
    /\ UNCHANGED <<lp, b, a, addresses, price, priced, covered>>

---------------------------------------------------------------------------
Init ==
    /\ lp \in [Slot -> Position]
    /\ pc = "native" /\ c = 1 /\ b = 1 /\ a = 1 /\ addresses = 0
    /\ price = None /\ priced = FALSE /\ out = {} /\ err = {}
    /\ covered = [ch \in Chain |-> 0] /\ crashedIn = "none"

Next == WalletBalance \/ Lookup \/ PoolPrice \/ EndOfAddresses \/ EndOfBackends
        \/ TokenBalances

Spec == Init /\ [][Next]_vars

---------------------------------------------------------------------------
\* Properties

\* The chain has its balance or its failure, and with the balance also its tokens
\* or their failure.
Reported(ch) ==
    \/ Native(ch) \in err
    \/ /\ Native(ch) \in out
       /\ ch \in Tokens => TokenLine(ch) \in out \cup err

\* The position is printed, or the failure of its backend on this chain is
\* reported.
Accounted(s) ==
    \/ LookupFailed(s[2], s[1]) \in err
    \/ \E l \in out : l.kind = "lp" /\ <<l.backend, l.chain, l.addr>> = s

\* The positions of the addresses that the report of their chain covers.
Due == {s \in Slot : s[3] <= covered[s[2]] /\ lp[s] # "none"}

\* A failing chain, backend or token call costs no other chain its lines.
EveryChainReported == pc = "done" => \A ch \in Chain : Reported(ch)

\* No position of a covered address is passed over in silence, whichever lookups
\* and backends fail.
PositionsAccounted == pc = "done" => \A s \in Due : Accounted(s)

\* A position is valued at the price of its own pool, and its protocol side is
\* folded in (at nothing, in an empty pool) or flagged, never dropped.
PricedByOwnPool ==
    \A l \in out : l.kind = "lp" =>
        /\ l.price # None => l.price.pool = <<l.backend, l.chain>>
        /\ (l.protocol = "none") = (lp[<<l.backend, l.chain, l.addr>>] # "both")

---------------------------------------------------------------------------
\* The inductive invariant behind the properties

\* Where the loops are.
LoopsOK ==
    /\ pc \in {"native", "lookup", "price", "tokens", "done", "crashed"}
    /\ c \in 1 .. Len(Chains) /\ b \in 1 .. Len(Backends) + 1 /\ a \in Nat \ {0}
    /\ addresses \in Nat /\ covered \in [Chain -> Nat]
    /\ pc = "done" => c = Len(Chains)
    /\ pc = "price" => b <= Len(Backends)
    /\ pc \in {"lookup", "price"} =>
        /\ covered[chain] = addresses
        /\ price # None => b <= Len(Backends) /\ price.pool = <<backend, chain>>

\* The chains that are through, those to come and the one in between.
ChainsOK ==
    /\ \A i \in 1 .. Len(Chains) :
        /\ (i < c \/ pc = "done") => /\ Reported(Chains[i])
                                     /\ \A s \in Due : s[2] = Chains[i] => Accounted(s)
        /\ (i > c \/ (i = c /\ pc = "native")) => covered[Chains[i]] = 0
    /\ pc \in {"lookup", "price", "tokens"} => Native(chain) \in out

\* The positions on the chain in between that have been passed.
Passed(s) ==
    \/ pc = "tokens"
    \/ \E k \in 1 .. b - 1 : Backends[k] = s[1]
    \/ b <= Len(Backends) /\ s[1] = backend /\ s[3] < a

PositionsOK ==
    pc \in {"lookup", "price", "tokens"} =>
        \A s \in Due : s[2] = chain /\ Passed(s) => Accounted(s)

BalanceInv == LoopsOK /\ ChainsOK /\ PositionsOK /\ PricedByOwnPool

---------------------------------------------------------------------------
\* What a comment says, and the code does not do

\* "a failure here is reported but does not sink the rest of the `balance` output"
\* (_report_token_balances).
TokenFailureContained == crashedIn # "tokens"
===========================================================================
