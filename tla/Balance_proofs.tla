--------------------------- MODULE Balance_proofs ---------------------------
(***************************************************************************)
(* Theorems about the balance command, for any number of chains, backends  *)
(* and addresses, any positions, and whichever calls fail.                 *)
(***************************************************************************)
EXTENDS Balance, TLAPS

---------------------------------------------------------------------------
\* What the loops run over

\* The chains and backends, by their places.
LEMMA Places ==
    /\ Len(Chains) \in Nat \ {0} /\ Len(Backends) \in Nat
    /\ \A i \in 1 .. Len(Chains) : Chains[i] \in Chain
    /\ \A ch \in Chain : \E i \in 1 .. Len(Chains) : Chains[i] = ch
    /\ \A i, j \in 1 .. Len(Chains) : Chains[i] = Chains[j] => i = j
    /\ \A be \in Backend : \E i \in 1 .. Len(Backends) : Backends[i] = be
<1>1. /\ Chains \in Seq(Chain) /\ Backends \in Seq(Backend) /\ Len(Chains) > 0
      /\ \A ch \in Chain : \E i \in DOMAIN Chains : Chains[i] = ch
      /\ \A i, j \in DOMAIN Chains : Chains[i] = Chains[j] => i = j
      /\ \A be \in Backend : \E i \in DOMAIN Backends : Backends[i] = be
  BY BalanceAssumption
<1>2. /\ DOMAIN Chains = 1 .. Len(Chains) /\ DOMAIN Backends = 1 .. Len(Backends)
      /\ Len(Chains) \in Nat /\ Len(Backends) \in Nat
      /\ \A i \in 1 .. Len(Chains) : Chains[i] \in Chain
  BY <1>1
<1> QED
  BY <1>1, <1>2

\* A slot is a backend, a chain and an address.
LEMMA Slots ==
    ASSUME NEW s \in Slot
    PROVE  /\ s = <<s[1], s[2], s[3]>> /\ s[1] \in Backend /\ s[2] \in Chain
           /\ s[3] \in Nat \ {0}
BY BalanceAssumption DEF Slot

---------------------------------------------------------------------------
\* Lines are only added

\* What has been printed or reported stays so.
LEMMA LinesStay ==
    ASSUME out \subseteq out', err \subseteq err'
    PROVE  /\ \A ch : Reported(ch) => Reported(ch)'
           /\ \A s : Accounted(s) => Accounted(s)'
BY DEF Reported, Accounted, Native, TokenLine, LookupFailed

\* A step within a chain leaves the other chains as they are.
LEMMA SameChain ==
    ASSUME BalanceInv, out \subseteq out', err \subseteq err',
           UNCHANGED <<lp, c, addresses, covered>>,
           pc \in {"lookup", "price", "tokens"},
           pc' \in {"lookup", "price", "tokens", "crashed"}
    PROVE  ChainsOK' /\ Due' = Due
<1>1. Due' = Due
  BY DEF Due
<1>2. ChainsOK
  BY DEF BalanceInv
<1>3. ASSUME NEW i \in 1 .. Len(Chains), i < c
      PROVE  Reported(Chains[i])' /\ \A s \in Due : s[2] = Chains[i] => Accounted(s)'
  BY <1>2, <1>3, LinesStay DEF ChainsOK
<1>4. \A i \in 1 .. Len(Chains) : i > c => covered[Chains[i]] = 0
  BY <1>2 DEF ChainsOK
<1>5. Native(chain) \in out'
  BY <1>2 DEF ChainsOK
<1>6. chain' = chain /\ Native(chain)' = Native(chain)
  BY DEF chain, Native
<1> QED
  BY <1>1, <1>3, <1>4, <1>5, <1>6 DEF ChainsOK

\* When a chain is left with all it owes, the next one is begun.
LEMMA ChainLeft ==
    ASSUME BalanceInv, NextChain, out \subseteq out', err \subseteq err',
           UNCHANGED <<lp, b, a, addresses, covered>>, pc \in {"native", "tokens"},
           NEW j \in 1 .. Len(Chains), j = c, Reported(Chains[j])',
           \A s \in Due : s[2] = chain => Accounted(s)'
    PROVE  LoopsOK' /\ ChainsOK' /\ PositionsOK'
<1>1. LoopsOK /\ ChainsOK
  BY DEF BalanceInv
<1>2. Due' = Due
  BY DEF Due
<1>3. \/ c < Len(Chains) /\ c' = c + 1 /\ pc' = "native"
      \/ c = Len(Chains) /\ c' = c /\ pc' = "done"
  BY <1>1, Places DEF NextChain, LoopsOK
<1>4. c \in 1 .. Len(Chains) /\ Len(Chains) \in Nat
  BY <1>1, Places DEF LoopsOK
<1>5. LoopsOK'
  BY <1>1, <1>3, <1>4 DEF LoopsOK
<1>6. ASSUME NEW i \in 1 .. Len(Chains), (i < c \/ pc = "done")' 
      PROVE  Reported(Chains[i])' /\ \A s \in Due : s[2] = Chains[i] => Accounted(s)'
  <2>1. i < c \/ i = c
    BY <1>3, <1>4, <1>6
  <2>2. CASE i < c
    BY <1>1, <2>2, LinesStay DEF ChainsOK
  <2>3. CASE i = c
    <3>1. i = j /\ chain = Chains[i]
      BY <2>3 DEF chain
    <3> QED
      BY <3>1
  <2> QED
    BY <2>1, <2>2, <2>3
<1>7. ASSUME NEW i \in 1 .. Len(Chains), (i > c \/ (i = c /\ pc = "native"))'
      PROVE  covered'[Chains[i]] = 0
  <2>1. i > c
    BY <1>3, <1>4, <1>7
  <2> QED
    BY <1>1, <2>1 DEF ChainsOK
<1>8. ChainsOK'
  BY <1>2, <1>3, <1>6, <1>7 DEF ChainsOK
<1> QED
  BY <1>3, <1>5, <1>8 DEF PositionsOK

---------------------------------------------------------------------------
\* The steps

\* Nothing is printed but by the steps below, so that only their lines matter.
LEMMA OtherLines ==
    ASSUME BalanceInv, lp' = lp, \A l \in out' : l \in out \/ l.kind # "lp"
    PROVE  PricedByOwnPool'
BY DEF BalanceInv, PricedByOwnPool

\* A printed position is valued at its own pool, and its protocol side is there.
LEMMA PrintedLine ==
    ASSUME BalanceInv, NEW p, p = None \/ p.pool = <<backend, chain>>,
           out' = out \cup {LpLine(p)}, lp' = lp
    PROVE  /\ PricedByOwnPool'
           /\ \A s \in Slot : s = <<backend, chain, a>> => Accounted(s)'
<1> DEFINE l == LpLine(p)
<1>1. /\ l.kind = "lp" /\ l.price = p /\ l.backend = backend /\ l.chain = chain
      /\ l.addr = a
      /\ (l.protocol = "none") = (lp[<<backend, chain, a>>] # "both")
  BY DEF LpLine
<1> HIDE DEF l
<1>2. PricedByOwnPool'
  <2> SUFFICES ASSUME NEW k \in out', k.kind = "lp"
               PROVE  /\ k.price # None => k.price.pool = <<k.backend, k.chain>>
                      /\ (k.protocol = "none") = (lp[<<k.backend, k.chain, k.addr>>] # "both")
    BY DEF PricedByOwnPool
  <2>1. CASE k \in out
    BY <2>1 DEF BalanceInv, PricedByOwnPool
  <2>2. CASE k = l
    BY <1>1, <2>2
  <2> QED
    BY <2>1, <2>2 DEF l
<1>3. l \in out'
  BY DEF l
<1>4. \A s : s = <<backend, chain, a>> => Accounted(s)'
  BY <1>1, <1>3 DEF Accounted
<1> QED
  BY <1>2, <1>4

\* After an address, the one after it is due.
LEMMA NextAddress ==
    ASSUME BalanceInv, out \subseteq out', err \subseteq err', a' = a + 1,
           UNCHANGED <<lp, c, b, addresses, covered>>,
           pc \in {"lookup", "price"}, pc' = "lookup", b <= Len(Backends),
           \A s \in Due : s = <<backend, chain, a>> => Accounted(s)'
    PROVE  PositionsOK'
<1> SUFFICES ASSUME NEW s \in Due, s[2] = chain, Passed(s)'
             PROVE  Accounted(s)'
  BY DEF PositionsOK, Due, chain
<1>1. LoopsOK /\ a \in Nat
  BY DEF BalanceInv, LoopsOK
<1>2. s \in Slot
  BY DEF Due
<1>3. s = <<s[1], s[2], s[3]>> /\ s[3] \in Nat
  BY <1>2, Slots
<1>4. Passed(s) \/ (s[1] = backend /\ s[3] = a)
  BY <1>1, <1>3 DEF Passed, backend
<1>5. CASE Passed(s)
  BY <1>5, LinesStay DEF BalanceInv, PositionsOK
<1>6. CASE s[1] = backend /\ s[3] = a
  BY <1>3, <1>6
<1> QED
  BY <1>4, <1>5, <1>6

\* When a backend is left, its positions have been dealt with.
LEMMA BackendLeft ==
    ASSUME BalanceInv, out \subseteq out', err \subseteq err', NextBackend,
           UNCHANGED <<lp, c, addresses, covered>>,
           pc = "lookup", pc' = "lookup", b <= Len(Backends),
           \A s \in Due : s[1] = backend /\ s[2] = chain => Accounted(s)'
    PROVE  PositionsOK'
<1> SUFFICES ASSUME NEW s \in Due, s[2] = chain, Passed(s)'
             PROVE  Accounted(s)'
  BY DEF PositionsOK, Due, chain
<1>1. /\ b \in Nat \ {0} /\ b' = b + 1 /\ a' = 1
  BY Places DEF BalanceInv, LoopsOK, NextBackend
<1>2. s[3] \in Nat \ {0}
  BY Slots DEF Due
<1>3. PICK k \in 1 .. b : Backends[k] = s[1]
  BY <1>1, <1>2 DEF Passed
<1>4. CASE k = b
  BY <1>3, <1>4 DEF backend
<1>5. CASE k # b
  <2>1. k \in 1 .. b - 1
    BY <1>1, <1>5
  <2>2. Passed(s)
    BY <1>3, <2>1 DEF Passed
  <2> QED
    BY <2>2, LinesStay DEF BalanceInv, PositionsOK
<1> QED
  BY <1>4, <1>5

\* A traceback ends the command where it is.
LEMMA Crashed ==
    ASSUME BalanceInv, UNCHANGED <<lp, loops, out, err, covered>>, pc' = "crashed",
           pc \in {"native", "lookup", "price", "tokens"}
    PROVE  BalanceInv'
<1>1. Due' = Due
  BY DEF Due
<1>2. LoopsOK' /\ PositionsOK' /\ PricedByOwnPool'
  BY DEF BalanceInv, LoopsOK, PositionsOK, PricedByOwnPool, loops
<1>3. ChainsOK'
  BY <1>1, LinesStay DEF BalanceInv, ChainsOK, loops
<1> QED
  BY <1>2, <1>3 DEF BalanceInv

\* wallet_balance: the report of a chain begins, or the chain is left.
LEMMA WalletBalanceStep == BalanceInv /\ WalletBalance => BalanceInv'
<1> SUFFICES ASSUME BalanceInv, WalletBalance PROVE BalanceInv'
  OBVIOUS
<1>0. /\ LoopsOK /\ ChainsOK /\ pc = "native" /\ lp' = lp
      /\ c \in 1 .. Len(Chains) /\ chain \in Chain /\ covered \in [Chain -> Nat]
      /\ covered[chain] = 0
  BY Places DEF BalanceInv, WalletBalance, LoopsOK, ChainsOK, chain
<1>1. ASSUME NEW n \in Nat,
             out' = out \cup {Native(chain)}, addresses' = n,
             covered' = [covered EXCEPT ![chain] = n],
             b' = 1, a' = 1, price' = None, pc' = "lookup", UNCHANGED <<c, err>>
      PROVE  BalanceInv'
  <2>1. chain' = chain /\ covered' \in [Chain -> Nat] /\ covered'[chain] = n
        /\ \A ch \in Chain : ch # chain => covered'[ch] = covered[ch]
    BY <1>0, <1>1 DEF chain
  <2>2. LoopsOK'
    BY <1>0, <1>1, <2>1, Places DEF LoopsOK
  <2>3. ASSUME NEW i \in 1 .. Len(Chains), i # c
        PROVE  /\ Chains[i] \in Chain /\ Chains[i] # chain
               /\ \A s \in Due' : s[2] = Chains[i] => s \in Due
    BY <1>0, <2>1, <2>3, Places DEF Due, chain
  <2>4. ChainsOK'
    <3>1. ASSUME NEW i \in 1 .. Len(Chains), i < c
          PROVE  Reported(Chains[i])' /\ \A s \in Due' : s[2] = Chains[i] => Accounted(s)'
      <4>1. i # c
        BY <1>0, <3>1
      <4> QED
        BY <1>0, <1>1, <2>3, <3>1, <4>1, LinesStay DEF ChainsOK
    <3>2. ASSUME NEW i \in 1 .. Len(Chains), i > c
          PROVE  covered'[Chains[i]] = 0
      <4>1. i # c
        BY <1>0, <3>2
      <4> QED
        BY <1>0, <2>1, <2>3, <3>2, <4>1 DEF ChainsOK
    <3>3. Native(chain)' = Native(chain)
      BY <2>1 DEF Native
    <3> QED
      BY <1>1, <3>1, <3>2, <3>3 DEF ChainsOK
  <2>5. PositionsOK'
    <3> SUFFICES ASSUME NEW s \in Due' PROVE ~Passed(s)'
      BY DEF PositionsOK
    <3>1. s[3] \in Nat \ {0}
      BY Slots DEF Due
    <3> QED
      BY <1>1, <3>1 DEF Passed
  <2>6. PricedByOwnPool'
    <3>1. Native(chain).kind # "lp"
      BY DEF Native
    <3> QED
      BY <1>0, <1>1, <3>1, OtherLines
  <2> QED
    BY <2>2, <2>4, <2>5, <2>6 DEF BalanceInv
<1>2. ASSUME err' = err \cup {Native(chain)}, Unavailable,
             UNCHANGED <<b, a, addresses, price, priced, out, history>>
      PROVE  BalanceInv'
  <2>0. PICK j \in 1 .. Len(Chains) : j = c
    BY <1>0
  <2>1. Reported(Chains[j])'
    BY <1>2, <2>0 DEF Reported, Native, chain
  <2>2. \A s \in Due : s[2] # chain
    <3> SUFFICES ASSUME NEW s \in Due, s[2] = chain PROVE FALSE
      OBVIOUS
    <3>1. s[3] \in Nat \ {0} /\ s[3] <= covered[chain]
      BY Slots DEF Due
    <3> QED
      BY <1>0, <3>1
  <2>3. LoopsOK' /\ ChainsOK' /\ PositionsOK'
    BY <1>0, <1>2, <2>0, <2>1, <2>2, ChainLeft DEF Unavailable, history
  <2> QED
    BY <1>0, <1>2, <2>3, OtherLines DEF BalanceInv
<1>3. ASSUME Crash("native"), UNCHANGED <<loops, out, err, covered>>
      PROVE  BalanceInv'
  BY <1>0, <1>3, Crashed DEF Crash
<1>4. \A n \in (IF chain = Scanned THEN 0 .. MaxAddr ELSE {1}) : n \in Nat
  BY BalanceAssumption
<1> QED
  BY <1>1, <1>2, <1>3, <1>4 DEF WalletBalance

\* liquidity_provider: an address is passed, a price is needed or the backend is
\* left.
LEMMA LookupStep == BalanceInv /\ Lookup => BalanceInv'
<1> SUFFICES ASSUME BalanceInv, Lookup PROVE BalanceInv'
  OBVIOUS
<1>0. /\ LoopsOK /\ pc = "lookup" /\ b <= Len(Backends) /\ lp' = lp
      /\ b \in 1 .. Len(Backends) /\ Len(Backends) \in Nat /\ a \in Nat
  BY Places DEF BalanceInv, Lookup, LoopsOK
<1>1. CASE /\ lp[<<backend, chain, a>>] = "none" /\ a' = a + 1
           /\ UNCHANGED <<pc, c, b, addresses, price, priced, out, err, history>>
  <2>1. \A s \in Due : s # <<backend, chain, a>>
    BY <1>1 DEF Due
  <2>2. PositionsOK'
    BY <1>0, <1>1, <2>1, NextAddress DEF history
  <2>3. ChainsOK'
    BY <1>0, <1>1, SameChain DEF history
  <2>4. LoopsOK'
    BY <1>0, <1>1 DEF LoopsOK, history, chain, backend
  <2> QED
    BY <1>0, <1>1, <2>2, <2>3, <2>4, OtherLines DEF BalanceInv
<1>2. CASE pc' = "price" /\ UNCHANGED <<loops, out, err, history>>
  <2>1. ChainsOK' /\ Due' = Due
    BY <1>0, <1>2, SameChain DEF history, loops
  <2>2. LoopsOK'
    BY <1>0, <1>2 DEF LoopsOK, history, loops, chain, backend
  <2>3. PositionsOK'
    BY <1>0, <1>2, <2>1, LinesStay DEF BalanceInv, PositionsOK, Passed, loops, chain, backend
  <2> QED
    BY <1>0, <1>2, <2>1, <2>2, <2>3, OtherLines DEF BalanceInv
<1>3. CASE /\ out' = out \cup {LpLine(price)} /\ a' = a + 1
           /\ UNCHANGED <<pc, c, b, addresses, price, priced, err, history>>
  <2>1. price = None \/ price.pool = <<backend, chain>>
    BY <1>0 DEF LoopsOK
  <2>2. PricedByOwnPool' /\ \A s \in Due : s = <<backend, chain, a>> => Accounted(s)'
    BY <1>0, <1>3, <2>1, PrintedLine DEF Due
  <2>3. PositionsOK'
    BY <1>0, <1>3, <2>2, NextAddress DEF history
  <2>4. ChainsOK'
    BY <1>0, <1>3, SameChain DEF history
  <2>5. LoopsOK'
    BY <1>0, <1>3 DEF LoopsOK, history, chain, backend
  <2> QED
    BY <2>2, <2>3, <2>4, <2>5 DEF BalanceInv
<1>4. CASE /\ err' = err \cup {LookupFailed(chain, backend)} /\ AfterFailure
           /\ UNCHANGED <<pc, c, addresses, out, history>>
  <2>1. NextBackend
    BY <1>4 DEF AfterFailure
  <2>2. \A s \in Due : s[1] = backend /\ s[2] = chain => Accounted(s)'
    BY <1>4 DEF Accounted, LookupFailed
  <2>3. PositionsOK'
    BY <1>0, <1>4, <2>1, <2>2, BackendLeft DEF history
  <2>4. ChainsOK'
    BY <1>0, <1>4, SameChain DEF history
  <2>5. LoopsOK'
    BY <1>0, <1>4, <2>1 DEF LoopsOK, history, NextBackend, chain
  <2> QED
    BY <1>0, <1>4, <2>3, <2>4, <2>5, OtherLines DEF BalanceInv
<1>5. CASE Crash("lookup") /\ UNCHANGED <<loops, out, err, covered>>
  BY <1>0, <1>5, Crashed DEF Crash
<1> QED
  BY <1>1, <1>2, <1>3, <1>4, <1>5 DEF Lookup

\* The pool's price, or none, is used for the position at hand.
LEMMA PoolPriceStep == BalanceInv /\ PoolPrice => BalanceInv'
<1> SUFFICES ASSUME BalanceInv, PoolPrice PROVE BalanceInv'
  OBVIOUS
<1>6. CASE Crash("price") /\ UNCHANGED <<lp, loops, out, err, covered>>
  BY <1>6, Crashed DEF Crash, PoolPrice
<1>7. SUFFICES ASSUME UNCHANGED <<lp, c, b, addresses, err, covered, crashedIn>>,
                      a' = a + 1, pc' = "lookup",
                      \E p : /\ p = None \/ p.pool = <<backend, chain>>
                             /\ price' = p /\ out' = out \cup {LpLine(p)}
               PROVE  BalanceInv'
  <2>1. \A zero : PriceOf(zero).pool = <<backend, chain>>
    BY DEF PriceOf
  <2> QED
    BY <1>6, <2>1 DEF PoolPrice, PoolFails
<1>0. /\ LoopsOK /\ pc = "price" /\ b <= Len(Backends) /\ a \in Nat
      /\ UNCHANGED <<lp, c, b, addresses, err, covered, crashedIn>>
      /\ a' = a + 1 /\ pc' = "lookup"
  BY <1>7 DEF BalanceInv, PoolPrice, LoopsOK
<1>1. PICK p : /\ p = None \/ p.pool = <<backend, chain>>
               /\ price' = p /\ out' = out \cup {LpLine(p)}
  BY <1>7
<1>2. PricedByOwnPool' /\ \A s \in Due : s = <<backend, chain, a>> => Accounted(s)'
  BY <1>0, <1>1, PrintedLine DEF Due
<1>3. PositionsOK'
  BY <1>0, <1>1, <1>2, NextAddress
<1>4. ChainsOK'
  BY <1>0, <1>1, SameChain
<1>5. LoopsOK'
  BY <1>0, <1>1 DEF LoopsOK, chain, backend
<1> QED
  BY <1>2, <1>3, <1>4, <1>5 DEF BalanceInv

\* The last address of a backend has been passed.
LEMMA EndOfAddressesStep == BalanceInv /\ EndOfAddresses => BalanceInv'
<1> SUFFICES ASSUME BalanceInv, EndOfAddresses PROVE BalanceInv'
  OBVIOUS
<1>0. /\ LoopsOK /\ pc = "lookup" /\ b <= Len(Backends) /\ a > addresses /\ NextBackend
      /\ UNCHANGED <<lp, pc, c, addresses, out, err, history>>
      /\ a \in Nat /\ addresses \in Nat /\ covered[chain] = addresses
      /\ b \in 1 .. Len(Backends) /\ Len(Backends) \in Nat
  BY Places DEF BalanceInv, EndOfAddresses, LoopsOK
<1>1. ASSUME NEW s \in Due, s[1] = backend, s[2] = chain
      PROVE  Accounted(s)'
  <2>1. s[3] \in Nat /\ s[3] <= addresses
    BY <1>0, <1>1, Slots DEF Due
  <2>2. Passed(s)
    BY <1>0, <1>1, <2>1 DEF Passed
  <2>3. Accounted(s)
    BY <1>0, <1>1, <2>2 DEF BalanceInv, PositionsOK
  <2> QED
    BY <1>0, <2>3, LinesStay
<1>2. PositionsOK'
  BY <1>0, <1>1, BackendLeft DEF history
<1>3. ChainsOK'
  BY <1>0, SameChain DEF history
<1>4. LoopsOK'
  BY <1>0 DEF LoopsOK, history, NextBackend, chain
<1> QED
  BY <1>0, <1>2, <1>3, <1>4, OtherLines DEF BalanceInv

\* The last backend has been passed, and with it all there are.
LEMMA EndOfBackendsStep == BalanceInv /\ EndOfBackends => BalanceInv'
<1> SUFFICES ASSUME BalanceInv, EndOfBackends PROVE BalanceInv'
  OBVIOUS
<1>0. /\ LoopsOK /\ pc = "lookup" /\ b > Len(Backends) /\ pc' = "tokens"
      /\ UNCHANGED <<lp, loops, out, err, history>>
      /\ b \in 1 .. Len(Backends) + 1 /\ Len(Backends) \in Nat
  BY Places DEF BalanceInv, EndOfBackends, LoopsOK
<1>1. ChainsOK' /\ Due' = Due
  BY <1>0, SameChain DEF history, loops
<1>2. LoopsOK'
  BY <1>0 DEF LoopsOK, history, loops
<1>3. ASSUME NEW s \in Due, s[2] = chain
      PROVE  Accounted(s)'
  <2>1. s[1] \in Backend
    BY Slots DEF Due
  <2>2. PICK k \in 1 .. Len(Backends) : Backends[k] = s[1]
    BY <2>1, Places
  <2>3. k \in 1 .. b - 1
    BY <1>0
  <2>4. Passed(s)
    BY <2>2, <2>3 DEF Passed
  <2> QED
    BY <1>0, <1>3, <2>4, LinesStay DEF BalanceInv, PositionsOK
<1>4. PositionsOK'
  BY <1>0, <1>1, <1>3 DEF PositionsOK, loops, chain
<1> QED
  BY <1>0, <1>1, <1>2, <1>4, OtherLines DEF BalanceInv

\* _report_token_balances ends the report of a chain.
LEMMA TokenBalancesStep == BalanceInv /\ TokenBalances => BalanceInv'
<1> SUFFICES ASSUME BalanceInv, TokenBalances PROVE BalanceInv'
  OBVIOUS
<1>0. /\ ChainsOK /\ PositionsOK /\ pc = "tokens" /\ Native(chain) \in out
      /\ UNCHANGED <<lp, b, a, addresses, price, priced, covered>>
      /\ c \in 1 .. Len(Chains)
  BY DEF BalanceInv, TokenBalances, ChainsOK, LoopsOK
<1>1. \A s \in Due : s[2] = chain => Accounted(s)
  BY <1>0 DEF PositionsOK, Passed
<1>2. CASE Crash("tokens") /\ UNCHANGED <<c, out, err>>
  BY <1>0, <1>2, Crashed DEF Crash, loops
<1>3. CASE /\ NextChain /\ out \subseteq out' /\ err \subseteq err'
           /\ chain \in Tokens => TokenLine(chain) \in out' \cup err'
           /\ \A l \in out' : l \in out \/ l.kind # "lp"
  <2>0. PICK j \in 1 .. Len(Chains) : j = c
    BY <1>0
  <2>1. Reported(Chains[j])'
    BY <1>0, <1>3, <2>0 DEF Reported, Native, TokenLine, chain
  <2>2. \A s \in Due : s[2] = chain => Accounted(s)'
    BY <1>1, <1>3, LinesStay
  <2>3. LoopsOK' /\ ChainsOK' /\ PositionsOK'
    BY <1>0, <1>3, <2>0, <2>1, <2>2, ChainLeft
  <2> QED
    BY <1>0, <1>3, <2>3, OtherLines DEF BalanceInv
<1>4. TokenLine(chain).kind # "lp"
  BY DEF TokenLine
<1> QED
  BY <1>2, <1>3, <1>4 DEF TokenBalances

---------------------------------------------------------------------------
\* The theorems

\* The command begins with the first chain and nothing printed.
LEMMA BalanceInit == Init => BalanceInv
<1> SUFFICES ASSUME Init PROVE BalanceInv
  OBVIOUS
<1>1. LoopsOK
  BY Places DEF Init, LoopsOK
<1>2. ChainsOK
  BY Places DEF Init, ChainsOK
<1> QED
  BY <1>1, <1>2 DEF Init, BalanceInv, PositionsOK, PricedByOwnPool

\* The inductive invariant of the balance command.
THEOREM BalanceInvariant == Spec => []BalanceInv
<1>1. BalanceInv /\ [Next]_vars => BalanceInv'
  <2> SUFFICES ASSUME BalanceInv, [Next]_vars PROVE BalanceInv'
    OBVIOUS
  <2>1. CASE UNCHANGED vars
    BY <2>1 DEF BalanceInv, LoopsOK, ChainsOK, PositionsOK, PricedByOwnPool, Passed, Due,
                Reported, Accounted, Native, TokenLine, LookupFailed, chain, backend, vars
  <2> QED
    BY <2>1, WalletBalanceStep, LookupStep, PoolPriceStep, EndOfAddressesStep,
       EndOfBackendsStep, TokenBalancesStep DEF Next
<1> QED
  BY BalanceInit, <1>1, PTL DEF Spec

\* Whichever calls fail, a command that gets through has said of every chain what
\* it holds or that it could not be asked (cli.py cmd_balance).
THEOREM ChainsReported == Spec => []EveryChainReported
<1>1. BalanceInv => EveryChainReported
  <2> SUFFICES ASSUME BalanceInv, pc = "done", NEW ch \in Chain PROVE Reported(ch)
    BY DEF EveryChainReported
  <2>1. PICK i \in 1 .. Len(Chains) : Chains[i] = ch
    BY Places
  <2> QED
    BY <2>1 DEF BalanceInv, ChainsOK
<1> QED
  BY <1>1, BalanceInvariant, PTL

\* And no position of an address it covers is passed over in silence (cli.py
\* _report_liquidity).
THEOREM NoPositionLost == Spec => []PositionsAccounted
<1>1. BalanceInv => PositionsAccounted
  <2> SUFFICES ASSUME BalanceInv, pc = "done", NEW s \in Due PROVE Accounted(s)
    BY DEF PositionsAccounted
  <2>1. s[2] \in Chain
    BY Slots DEF Due
  <2>2. PICK i \in 1 .. Len(Chains) : Chains[i] = s[2]
    BY <2>1, Places
  <2> QED
    BY <2>2 DEF BalanceInv, ChainsOK
<1> QED
  BY <1>1, BalanceInvariant, PTL

\* Positions are valued at the price of their own pool and no protocol side is
\* dropped (cli.py _report_liquidity, thorchain.py LiquidityPosition.format).
THEOREM OwnPoolPrice == Spec => []PricedByOwnPool
<1>1. BalanceInv => PricedByOwnPool
  BY DEF BalanceInv
<1> QED
  BY <1>1, BalanceInvariant, PTL
===========================================================================
