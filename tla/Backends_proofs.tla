-------------------------- MODULE Backends_proofs --------------------------
(***************************************************************************)
(* The choice of a backend, for any number of networks, any pools and any  *)
(* command lines.                                                          *)
(*                                                                         *)
(* The argument: but for the backends whose pools have moved, the list of  *)
(* results holds exactly the backends asked so far that can serve the      *)
(* terms of the selection, with the quotes they still give.  Those terms   *)
(* and the terms of the swap differ at most in a quantity that no network  *)
(* looks at without an interval, so the second quote is the one that the   *)
(* backend was chosen for, unless its own pools moved.                     *)
(***************************************************************************)
EXTENDS Backends, TLAPS

USE BackendsAssumption

L == BackendsFor(args)
T == GatherTerms(args)

\* A swap is being prepared with the chosen backend.
Preparing == pc \in {"inbound", "requote"}

\* Where the command is.
Position ==
    /\ pc = "start" => i = 1 /\ results = <<>>
    /\ pc = "gather" => i \in 1 .. Len(L) /\ args \in Args
    /\ pc = "select" => i = Len(L) + 1 /\ args \in Args
    /\ Preparing => chosen \in Backend /\ args.cmd = "swap" /\ args \in Args
    /\ pc \in {"gather", "select"} /\ args.cmd = "swap" => args.backend = "auto"
    /\ pc \in {"start", "gather", "select"} => chosen = None
    /\ pc = "start" => session = {}
    /\ pc = "costs" => args \in Args /\ chosen \in Backend /\ session \subseteq Backend

\* The results are the backends that serve, moved ones aside.
Gathered ==
    pc \in {"gather", "select"} =>
        /\ \A k \in DOMAIN results : results[k].backend \notin moved =>
              /\ Serves(pool[results[k].backend], T)
              /\ results[k].quote = QuoteOf(pool[results[k].backend], T)
        /\ \A j \in 1 .. i - 1 : L[j] \notin moved /\ Serves(pool[L[j]], T) =>
              \E k \in DOMAIN results : results[k].backend = L[j]

\* The chosen backend is the best one, as long as its own pools stand still.
ChosenBest ==
    Preparing /\ args.backend = "auto" /\ chosen \notin moved =>
        /\ Serves(pool[chosen], T)
        /\ \A k \in DOMAIN results : results[k].quote.out <= QuoteOf(pool[chosen], T).out
        /\ \A b \in Backend \ moved : Serves(pool[b], T) =>
              QuoteOf(pool[b], T).out <= QuoteOf(pool[chosen], T).out

\* A backend that the user named is not chosen for a quote.
Explicit == Preparing /\ args.backend # "auto" => chosen = args.backend /\ results = <<>>

Inv == /\ TypeOK /\ Position /\ Gathered /\ ChosenBest /\ Explicit
       /\ BestOfAll /\ OfferKept /\ RefusedForCause /\ SessionsClosed

---------------------------------------------------------------------------
\* Facts about the operators

\* A swap's terms ask for what the terms of the selection ask for.
LEMMA SameOffer ==
  ASSUME NEW a \in Args, a.cmd = "swap", NEW n
  PROVE  /\ Serves(n, SwapTerms(a)) = Serves(n, GatherTerms(a))
         /\ QuoteOf(n, SwapTerms(a)) = QuoteOf(n, GatherTerms(a))
<1>1. /\ SwapTerms(a).interval = GatherTerms(a).interval
      /\ SwapTerms(a).tolerance = GatherTerms(a).tolerance
  BY DEF SwapTerms, GatherTerms, NoTerms
<1>2. Refuses(n, SwapTerms(a)) = Refuses(n, GatherTerms(a))
  BY <1>1 DEF Refuses
<1>3. QuoteOf(n, SwapTerms(a)) = QuoteOf(n, GatherTerms(a))
  BY <1>1 DEF QuoteOf, Streams
<1> QED BY <1>2, <1>3 DEF Serves

LEMMA TermsTyped ==
  ASSUME NEW a \in Args
  PROVE  GatherTerms(a) \in TermsType /\ SwapTerms(a) \in TermsType
<1>1. a \in ArgsType
  OBVIOUS
<1> QED BY <1>1 DEF GatherTerms, SwapTerms, TermsType, NoTerms, ArgsType, Opt

LEMMA QuoteTyped ==
  ASSUME NEW n \in Pool, NEW t
  PROVE  QuoteOf(n, t) \in QuoteType
  BY DEF PoolType, QuoteOf, QuoteType

\* The list of backends of a command line.
LEMMA ListTyped ==
  ASSUME NEW a \in Args
  PROVE  /\ BackendsFor(a) \in Seq(Backend)
         /\ Len(BackendsFor(a)) \in 1 .. Len(Order)
         /\ a.backend = "auto" => \A b \in Backend :
                \E j \in 1 .. Len(BackendsFor(a)) : BackendsFor(a)[j] = b
         /\ a.backend # "auto" => BackendsFor(a)[1] = a.backend /\ Len(BackendsFor(a)) = 1
<1>1. a \in ArgsType
  OBVIOUS
<1>2. CASE a.backend = "auto"
  BY <1>2 DEF BackendsFor
<1>3. CASE a.backend # "auto"
  BY <1>1, <1>3 DEF BackendsFor, ArgsType
<1> QED BY <1>2, <1>3

---------------------------------------------------------------------------
\* The steps

LEMMA StartStep == Inv /\ Start => Inv'
<1> SUFFICES ASSUME Inv, Start PROVE Inv'
  OBVIOUS
<1>1. PICK a \in Args :
        /\ args' = a
        /\ IF a.cmd = "swap" /\ a.backend # "auto"
           THEN pc' = "inbound" /\ chosen' = a.backend
           ELSE pc' = "gather" /\ UNCHANGED chosen
  BY DEF Start
<1>2. /\ UNCHANGED <<pool, moves, moved, i, results, quote, sent, session>>
      /\ pc = "start" /\ i = 1 /\ results = <<>> /\ session = {} /\ chosen = None
  BY DEF Start, Inv, Position
<1>3. a \in ArgsType /\ Len(BackendsFor(a)) >= 1
  BY ListTyped
<1>4. TypeOK'
  BY <1>1, <1>2, <1>3 DEF Inv, TypeOK, ArgsType
<1>5. Position'
  <2>1. L' = BackendsFor(a) /\ Len(BackendsFor(a)) \in Nat
    BY <1>1, ListTyped DEF L, BackendsFor
  <2>2. CASE a.cmd = "swap" /\ a.backend # "auto"
    <3>1. pc' = "inbound" /\ chosen' \in Backend /\ args' = a
      BY <1>1, <1>3, <2>2 DEF ArgsType
    <3> QED BY <2>2, <3>1 DEF Position, Preparing
  <2>3. CASE ~(a.cmd = "swap" /\ a.backend # "auto")
    <3>1. pc' = "gather" /\ chosen' = None /\ args' = a /\ i' = 1
      BY <1>1, <1>2, <2>3
    <3>2. i' \in 1 .. Len(L')
      BY <1>3, <2>1, <3>1
    <3>3. args'.cmd = "swap" => args'.backend = "auto"
      BY <2>3, <3>1
    <3> QED BY <3>1, <3>2, <3>3 DEF Position, Preparing
  <2> QED BY <2>2, <2>3
<1>6. Gathered' /\ ChosenBest' /\ Explicit'
  BY <1>1, <1>2 DEF Gathered, ChosenBest, Explicit, Preparing
<1>7. BestOfAll' /\ OfferKept' /\ RefusedForCause' /\ SessionsClosed'
  BY <1>1, <1>2 DEF BestOfAll, OfferKept, RefusedForCause, SessionsClosed, Quoted, Ended
<1> QED BY <1>4, <1>5, <1>6, <1>7 DEF Inv

LEMMA GatherStep == Inv /\ GatherOne => Inv'
<1> SUFFICES ASSUME Inv, GatherOne PROVE Inv'
  OBVIOUS
<1> DEFINE b == L[i]
           n == pool[b]
           r == [backend |-> b, quote |-> QuoteOf(n, T)]
<1>1. /\ pc = "gather" /\ sent' = [sent EXCEPT !.select = T]
      /\ UNCHANGED <<pool, moves, moved, args, chosen, quote>>
      /\ args \in Args /\ i \in 1 .. Len(L) /\ chosen = None
  BY DEF GatherOne, Inv, Position, T
<1>2. /\ L \in Seq(Backend) /\ Len(L) \in 1 .. Len(Order) /\ b \in Backend /\ n \in Pool
      /\ L' = L /\ T' = T /\ Len(L) \in Nat /\ Len(Order) \in Nat /\ i \in Nat
  <2>1. L \in Seq(Backend) /\ Len(L) \in 1 .. Len(Order)
    BY <1>1, ListTyped DEF L
  <2>2. L' = L /\ T' = T
    BY <1>1 DEF L, T
  <2>3. Len(L) \in Nat /\ Len(Order) \in Nat /\ i \in Nat
    <3>1. Len(Order) \in Nat
      BY BackendsAssumption
    <3>2. Len(L) \in Nat
      BY <2>1, <3>1
    <3> QED BY <1>1, <3>1, <3>2
  <2>4. b \in Backend
    BY <1>1, <2>1
  <2>5. n \in Pool
    BY <2>4 DEF Inv, TypeOK
  <2> QED BY <2>1, <2>2, <2>3, <2>4, <2>5
<1>3. sent' \in [select : TermsType, swap : TermsType]
  BY <1>1, TermsTyped DEF T, Inv, TypeOK
<1>4. CASE n.st = "garbled"
  <2>1. pc' = "crashed" /\ session' = OpenAfterCrash(session \cup {b}) /\ UNCHANGED <<i, results>>
    BY <1>4 DEF GatherOne, Finish, L
  <2>2. session' \subseteq Backend /\ (args.cmd # "swap" => session' = {})
    BY <1>1, <1>2, <2>1 DEF OpenAfterCrash, Inv, TypeOK, ArgsType
  <2>3. TypeOK'
    BY <1>1, <1>3, <2>1, <2>2 DEF Inv, TypeOK, Ended
  <2>4. Position' /\ Gathered' /\ ChosenBest' /\ Explicit'
    BY <1>1, <2>1 DEF Inv, Position, Gathered, ChosenBest, Explicit, Preparing
  <2>5. BestOfAll' /\ OfferKept' /\ SessionsClosed'
    BY <1>1, <2>1, <2>2 DEF BestOfAll, OfferKept, SessionsClosed, Quoted, Ended
  <2>6. RefusedForCause'
    <3>1. b \in Asked
      <4>1. args.backend # "auto" => L[1] = args.backend /\ Len(L) = 1
        BY <1>1, ListTyped DEF L
      <4>2. ASSUME args.backend # "auto"  PROVE i = 1
        <5>1. Len(L) = 1
          BY <4>1, <4>2
        <5>2. i \in 1 .. Len(L) /\ i \in Nat
          BY <1>1, <1>2
        <5> HIDE DEF L
        <5> QED BY <5>1, <5>2
      <4> QED BY <1>2, <4>1, <4>2 DEF Asked
    <3>2. Asked' = Asked /\ pool'[b].st = "garbled" /\ chosen' = None
      BY <1>1, <1>4 DEF Asked
    <3> QED BY <2>1, <3>1, <3>2 DEF RefusedForCause
  <2> QED BY <2>3, <2>4, <2>5, <2>6 DEF Inv
<1>5. CASE n.st # "garbled"
  <2>1. /\ i' = i + 1 /\ session' = session \cup {b}
        /\ results' = IF Serves(n, T) THEN Append(results, r) ELSE results
        /\ pc' = IF i < Len(L) THEN "gather" ELSE "select"
    BY <1>5 DEF GatherOne, L, T
  <2>2. r \in ResultType
    BY <1>2, QuoteTyped DEF ResultType
  <2>3. r.backend = b /\ r.quote = QuoteOf(n, T)
    OBVIOUS
  <2> HIDE DEF r
  <2>4. /\ results' \in Seq(ResultType)
        /\ \A k \in DOMAIN results : k \in DOMAIN results' /\ results'[k] = results[k]
        /\ \A k \in DOMAIN results' : k \in DOMAIN results \/ results'[k] = r
        /\ Serves(n, T) => \E k \in DOMAIN results' : results'[k] = r
        /\ ~Serves(n, T) => results' = results
    <3>1. results \in Seq(ResultType)
      BY DEF Inv, TypeOK
    <3>2. CASE ~Serves(n, T)
      BY <2>1, <3>1, <3>2
    <3>3. CASE Serves(n, T)
      <4>1. results' = Append(results, r)
        BY <2>1, <3>3
      <4>2. /\ Len(results) + 1 \in DOMAIN results' /\ results'[Len(results) + 1] = r
            /\ \A k \in DOMAIN results : k \in DOMAIN results' /\ results'[k] = results[k]
            /\ \A k \in DOMAIN results' : k \in DOMAIN results \/ k = Len(results) + 1
            /\ results' \in Seq(ResultType)
        BY <2>2, <3>1, <4>1
      <4> QED BY <3>3, <4>2
    <3> QED BY <3>2, <3>3
  <2>5. \A k \in DOMAIN results' : k \in DOMAIN results \/ Serves(n, T)
    BY <2>4
  <2>6. i' \in 1 .. Len(Order) + 1 /\ pc' \in {"gather", "select"}
    <3>1. i <= Len(L) /\ Len(L) <= Len(Order)
      BY <1>1, <1>2
    <3> QED BY <1>2, <2>1, <3>1
  <2>7. TypeOK'
    BY <1>1, <1>2, <1>3, <2>1, <2>4, <2>6 DEF Inv, TypeOK
  <2>8. Position'
    <3>1. pc' = "gather" => i' \in 1 .. Len(L')
      <4>1. L' = L /\ i \in Nat /\ Len(L) \in Nat
        BY <1>2
      <4>2. i' = i + 1 /\ (pc' = "gather" => i < Len(L))
        BY <2>1
      <4> QED BY <4>1, <4>2
    <3>2. pc' = "select" => i' = Len(L') + 1
      <4>1. L' = L /\ i \in 1 .. Len(L) /\ Len(L) \in Nat
        BY <1>1, <1>2
      <4>2. i' = i + 1 /\ pc' = IF i < Len(L) THEN "gather" ELSE "select"
        BY <2>1
      <4> QED BY <4>1, <4>2
    <3>3. args' \in Args /\ chosen' = None
      BY <1>1
    <3>4. args'.cmd = "swap" => args'.backend = "auto"
      BY <1>1 DEF Position, Inv
    <3> QED BY <2>6, <3>1, <3>2, <3>3, <3>4 DEF Position, Preparing
  <2>9. Gathered'
    <3> SUFFICES /\ \A k \in DOMAIN results' : results'[k].backend \notin moved =>
                      /\ Serves(pool[results'[k].backend], T)
                      /\ results'[k].quote = QuoteOf(pool[results'[k].backend], T)
                 /\ \A j \in 1 .. i : L[j] \notin moved /\ Serves(pool[L[j]], T) =>
                      \E k \in DOMAIN results' : results'[k].backend = L[j]
      <4>1. i' - 1 = i
        BY <1>2, <2>1
      <4> QED BY <1>1, <1>2, <4>1 DEF Gathered
    <3>1. ASSUME NEW k \in DOMAIN results', results'[k].backend \notin moved
          PROVE  /\ Serves(pool[results'[k].backend], T)
                 /\ results'[k].quote = QuoteOf(pool[results'[k].backend], T)
      <4>1. CASE k \in DOMAIN results
        BY <1>1, <2>4, <3>1, <4>1 DEF Inv, Gathered
      <4>2. CASE k \notin DOMAIN results
        BY <2>3, <2>4, <2>5, <3>1, <4>2
      <4> QED BY <4>1, <4>2
    <3>2. ASSUME NEW j \in 1 .. i, L[j] \notin moved, Serves(pool[L[j]], T)
          PROVE  \E k \in DOMAIN results' : results'[k].backend = L[j]
      <4>1. CASE j = i
        BY <2>3, <2>4, <3>2, <4>1
      <4>2. CASE j # i
        <5>1. j \in 1 .. i - 1
          BY <1>1, <4>2
        <5> QED BY <1>1, <2>4, <3>2, <5>1 DEF Inv, Gathered
      <4> QED BY <4>1, <4>2
    <3> QED BY <3>1, <3>2
  <2>10. ChosenBest' /\ Explicit'
    BY <2>6 DEF ChosenBest, Explicit, Preparing
  <2>11. BestOfAll' /\ OfferKept' /\ RefusedForCause' /\ SessionsClosed'
    BY <2>6 DEF BestOfAll, OfferKept, RefusedForCause, SessionsClosed, Quoted, Ended
  <2> QED BY <2>7, <2>8, <2>9, <2>10, <2>11 DEF Inv
<1> QED BY <1>4, <1>5

LEMMA SelectStep == Inv /\ Select => Inv'
<1> SUFFICES ASSUME Inv, Select PROVE Inv'
  OBVIOUS
<1>1. /\ pc = "select" /\ UNCHANGED <<pool, moves, moved, args, i, results, sent>>
      /\ args \in Args /\ args \in ArgsType /\ i = Len(L) + 1 /\ chosen = None
  BY DEF Select, Inv, Position
<1>2. /\ L' = L /\ T' = T /\ Len(L) \in Nat
      /\ args.backend = "auto" => \A b \in Backend : \E j \in 1 .. Len(L) : L[j] = b
      /\ args.backend # "auto" => L[1] = args.backend /\ Len(L) = 1
  <2>1. L' = L /\ T' = T
    BY <1>1 DEF L, T
  <2>2. Len(L) \in Nat
    <3>1. Len(Order) \in Nat /\ Len(L) \in 1 .. Len(Order)
      BY <1>1, ListTyped, BackendsAssumption DEF L
    <3> QED BY <3>1
  <2>3. /\ args.backend = "auto" => \A b \in Backend : \E j \in 1 .. Len(L) : L[j] = b
        /\ args.backend # "auto" => L[1] = args.backend /\ Len(L) = 1
    BY <1>1, ListTyped DEF L
  <2> QED BY <2>1, <2>2, <2>3
<1>3. \A m : Serves(m, Terms) = Serves(m, T) /\ QuoteOf(m, Terms) = QuoteOf(m, T)
  BY <1>1, SameOffer DEF T, Terms
<1>4. CASE results = <<>> /\ Finish("aborted", {}) /\ UNCHANGED <<chosen, quote>>
  <2>1. pc' = "aborted" /\ session' = {} /\ chosen' = None
    BY <1>1, <1>4 DEF Finish
  <2>2. TypeOK'
    BY <1>1, <1>4, <2>1 DEF Inv, TypeOK, Ended
  <2>3. Position' /\ Gathered' /\ ChosenBest' /\ Explicit'
    BY <1>1, <1>4, <2>1 DEF Inv, Position, Gathered, ChosenBest, Explicit, Preparing
  <2>4. RefusedForCause'
    <3>1. \A j \in 1 .. Len(L) : L[j] \notin moved => ~Serves(pool[L[j]], T)
      <4>1. i - 1 = Len(L) /\ DOMAIN results = {}
        BY <1>1, <1>2, <1>4
      <4>2. \A j \in 1 .. i - 1 : L[j] \notin moved /\ Serves(pool[L[j]], T) =>
                \E k \in DOMAIN results : results[k].backend = L[j]
        BY <1>1 DEF Inv, Gathered
      <4> QED BY <4>1, <4>2
    <3>2. ASSUME NEW b \in Asked \ moved
          PROVE  ~Serves(pool[b], T)
      <4>1. CASE args.backend = "auto"
        <5>1. PICK j \in 1 .. Len(L) : L[j] = b
          BY <1>2, <3>2, <4>1 DEF Asked
        <5> QED BY <3>1, <3>2, <5>1
      <4>2. CASE args.backend # "auto"
        <5>1. 1 \in 1 .. Len(L) /\ b = L[1]
          BY <1>2, <3>2, <4>2 DEF Asked
        <5> QED BY <3>1, <3>2, <5>1
      <4> QED BY <4>1, <4>2
    <3>3. Asked' = Asked /\ Terms' = Terms /\ pool' = pool /\ moved' = moved
      BY <1>1 DEF Asked, Terms
    <3>4. \A b \in Asked \ moved : ~Serves(pool[b], Terms)
      BY <1>3, <3>2
    <3> QED BY <2>1, <3>3, <3>4 DEF RefusedForCause
  <2>5. BestOfAll' /\ OfferKept' /\ SessionsClosed'
    BY <2>1 DEF BestOfAll, OfferKept, SessionsClosed, Quoted, Ended
  <2> QED BY <2>2, <2>3, <2>4, <2>5 DEF Inv
<1>5. ASSUME NEW k \in DOMAIN results, best_quote(k), chosen' = results[k].backend,
             IF args.cmd = "quote"
             THEN pc' = "costs" /\ quote' = results[k].quote /\ UNCHANGED session
             ELSE Finish("inbound", KeptOpen(results[k].backend)) /\ UNCHANGED quote
      PROVE  Inv'
  <2>1. /\ results[k].backend \in Backend /\ results[k].quote \in QuoteType
        /\ \A j \in DOMAIN results : results[j].quote.out \in Nat
    <3>1. \A j \in DOMAIN results : results[j] \in ResultType
      BY DEF Inv, TypeOK
    <3>2. \A j \in DOMAIN results : results[j].quote \in QuoteType
      BY <3>1 DEF ResultType
    <3> QED BY <3>1, <3>2 DEF ResultType, QuoteType
  <2>2. ASSUME args.backend = "auto", NEW b \in Backend \ moved, Serves(pool[b], T)
        PROVE  QuoteOf(pool[b], T).out <= results[k].quote.out
    <3>1. PICK j \in 1 .. Len(L) : L[j] = b
      BY <1>2, <2>2
    <3>2. j \in 1 .. i - 1
      BY <1>1, <1>2
    <3>3. PICK h \in DOMAIN results : results[h].backend = b
      BY <1>1, <2>2, <3>1, <3>2 DEF Inv, Gathered
    <3>4. results[h].quote = QuoteOf(pool[b], T)
      BY <1>1, <2>2, <3>3 DEF Inv, Gathered
    <3> QED BY <1>5, <3>4 DEF best_quote
  <2>3. results[k].backend \notin moved =>
            /\ Serves(pool[results[k].backend], T)
            /\ results[k].quote = QuoteOf(pool[results[k].backend], T)
    BY <1>1 DEF Inv, Gathered
  <2>4. \A j \in DOMAIN results : results[j].quote.out <= results[k].quote.out
    BY <1>5 DEF best_quote
  <2>5. CASE args.cmd = "quote"
    <3>1. pc' = "costs" /\ quote' = results[k].quote /\ session' = session
      BY <1>5, <2>5
    <3>2. TypeOK'
      BY <1>1, <1>5, <2>1, <3>1 DEF Inv, TypeOK
    <3>3. Position' /\ Gathered' /\ ChosenBest' /\ Explicit'
      BY <1>1, <1>5, <2>1, <2>5, <3>1, <3>2
      DEF Position, Gathered, ChosenBest, Explicit, Preparing, TypeOK
    <3>4. BestOfAll'
      BY <1>1, <2>2, <2>5, <3>1 DEF BestOfAll, Terms, T
    <3>5. OfferKept'
      BY <1>1, <2>4, <3>1 DEF OfferKept
    <3>6. RefusedForCause' /\ SessionsClosed'
      BY <3>1 DEF RefusedForCause, SessionsClosed, Ended
    <3> QED BY <3>2, <3>3, <3>4, <3>5, <3>6 DEF Inv
  <2>6. CASE args.cmd # "quote"
    <3>1. /\ pc' = "inbound" /\ quote' = quote /\ session' = session \cap {results[k].backend}
          /\ args.cmd = "swap"
      BY <1>1, <1>5, <2>6 DEF Finish, KeptOpen, ArgsType
    <3>2. TypeOK'
      BY <1>1, <1>5, <2>1, <3>1 DEF Inv, TypeOK
    <3>3. Position' /\ Gathered'
      BY <1>1, <1>5, <2>1, <3>1 DEF Inv, Position, Gathered, Preparing
    <3>4. ChosenBest'
      BY <1>1, <1>2, <1>5, <2>2, <2>3, <2>4 DEF ChosenBest
    <3>5. Explicit'
      BY <1>1, <3>1 DEF Explicit, Inv, Position
    <3>6. BestOfAll' /\ OfferKept' /\ RefusedForCause' /\ SessionsClosed'
      BY <1>5, <3>1 DEF BestOfAll, OfferKept, RefusedForCause, SessionsClosed, Quoted, Ended
    <3> QED BY <3>2, <3>3, <3>4, <3>5, <3>6 DEF Inv
  <2> QED BY <2>5, <2>6
<1> QED BY <1>4, <1>5 DEF Select

\* What a swap that is being prepared is refused for.
LEMMA InboundStep == Inv /\ Inbound => Inv'
<1> SUFFICES ASSUME Inv, Inbound PROVE Inv'
  OBVIOUS
<1> DEFINE n == pool[chosen]
<1>1. /\ pc = "inbound" /\ Preparing
      /\ UNCHANGED <<pool, moves, moved, args, i, results, chosen, quote, sent>>
      /\ args \in Args /\ args.cmd = "swap" /\ chosen \in Backend /\ n \in Pool
      /\ session \subseteq {chosen}
  BY DEF Inbound, Inv, Position, TypeOK, SessionsClosed, Preparing
<1>2. CASE n.st = "up" /\ ~Paused(n)
  <2>1. pc' = "requote" /\ session' = session \cup {chosen}
    BY <1>2 DEF Inbound, Finish
  <2>2. TypeOK'
    BY <1>1, <2>1 DEF Inv, TypeOK
  <2>3. Position' /\ Gathered'
    BY <1>1, <2>1 DEF Position, Gathered, Preparing
  <2>4. ChosenBest' /\ Explicit'
    BY <1>1 DEF Inv, ChosenBest, Explicit, T
  <2>5. BestOfAll' /\ OfferKept' /\ RefusedForCause' /\ SessionsClosed'
    BY <1>1, <2>1 DEF BestOfAll, OfferKept, RefusedForCause, SessionsClosed, Quoted, Ended
  <2> QED BY <2>2, <2>3, <2>4, <2>5 DEF Inv
<1>3. CASE ~(n.st = "up" /\ ~Paused(n))
  <2>1. pc' \in {"aborted", "crashed"} /\ session' = session \ {chosen}
    BY <1>3 DEF Inbound, Finish
  <2>2. TypeOK'
    BY <1>1, <2>1 DEF Inv, TypeOK, Ended
  <2>3. Position' /\ Gathered' /\ ChosenBest' /\ Explicit'
    BY <1>1, <2>1 DEF Position, Gathered, ChosenBest, Explicit, Preparing
  <2>4. RefusedForCause'
    <3>1. n.st # "up" => ~Serves(n, Terms) /\ ~Serves(n, T)
      BY DEF Serves
    <3>2. chosen \notin moved => ~n.tradable \/ (args.backend = chosen /\ ~Serves(n, Terms))
      BY <1>1, <1>3, <3>1 DEF Inv, ChosenBest, Explicit, Paused
    <3> QED BY <1>1, <2>1, <3>2 DEF RefusedForCause, Terms
  <2>5. BestOfAll' /\ OfferKept' /\ SessionsClosed'
    BY <1>1, <2>1 DEF BestOfAll, OfferKept, SessionsClosed, Quoted, Ended
  <2> QED BY <2>2, <2>3, <2>4, <2>5 DEF Inv
<1> QED BY <1>2, <1>3

LEMMA RequoteStep == Inv /\ Requote => Inv'
<1> SUFFICES ASSUME Inv, Requote PROVE Inv'
  OBVIOUS
<1> DEFINE n == pool[chosen]
           t == SwapTerms(args)
<1>1. /\ pc = "requote" /\ Preparing /\ sent' = [sent EXCEPT !.swap = t]
      /\ UNCHANGED <<pool, moves, moved, args, i, results, chosen>>
      /\ args \in Args /\ args.cmd = "swap" /\ chosen \in Backend /\ n \in Pool
      /\ session \subseteq {chosen}
  BY DEF Requote, Inv, Position, TypeOK, SessionsClosed, Preparing
<1>2. \A m : Serves(m, t) = Serves(m, T) /\ QuoteOf(m, t) = QuoteOf(m, T)
  BY <1>1, SameOffer DEF T
<1>3. sent' \in [select : TermsType, swap : TermsType]
  BY <1>1, TermsTyped DEF Inv, TypeOK
<1>4. CASE Serves(n, t)
  <2>1. pc' = "costs" /\ quote' = QuoteOf(n, t) /\ session' = session
    BY <1>4 DEF Requote
  <2>2. TypeOK'
    BY <1>1, <1>3, <2>1, QuoteTyped DEF Inv, TypeOK
  <2>3. Position' /\ Gathered' /\ ChosenBest' /\ Explicit'
    BY <1>1, <2>1, <2>2 DEF Position, Gathered, ChosenBest, Explicit, Preparing, TypeOK
  <2>4. BestOfAll'
    <3>1. ASSUME args.backend = "auto", chosen \notin moved,
                 NEW b \in Backend \ moved, Serves(pool[b], t)
          PROVE  QuoteOf(pool[b], t).out <= QuoteOf(n, t).out
      <4>1. Serves(pool[b], T) /\ QuoteOf(pool[b], t) = QuoteOf(pool[b], T)
            /\ QuoteOf(n, t) = QuoteOf(n, T)
        BY <1>2, <3>1
      <4>2. QuoteOf(pool[b], T).out <= QuoteOf(pool[chosen], T).out
        BY <1>1, <3>1, <4>1 DEF Inv, ChosenBest
      <4> QED BY <4>1, <4>2
    <3> QED BY <1>1, <2>1, <3>1 DEF BestOfAll, Terms, Fresh
  <2>5. OfferKept'
    <3>1. ASSUME args.backend = "auto", chosen \notin moved, NEW k \in DOMAIN results
          PROVE  results[k].quote.out <= QuoteOf(n, t).out
      <4>1. results[k].quote.out <= QuoteOf(n, T).out
        BY <1>1, <3>1 DEF Inv, ChosenBest
      <4> QED BY <1>2, <4>1
    <3>2. args.backend # "auto" => results = <<>>
      BY <1>1 DEF Inv, Explicit
    <3> QED BY <1>1, <2>1, <3>1, <3>2 DEF OfferKept, Fresh
  <2>6. RefusedForCause' /\ SessionsClosed'
    BY <2>1 DEF RefusedForCause, SessionsClosed, Ended
  <2> QED BY <2>2, <2>3, <2>4, <2>5, <2>6 DEF Inv
<1>5. CASE ~Serves(n, t)
  <2>1. /\ pc' \in {"aborted", "crashed"} /\ session' = session \ {chosen} /\ quote' = quote
    BY <1>5 DEF Requote, Finish
  <2>2. TypeOK'
    BY <1>1, <1>3, <2>1 DEF Inv, TypeOK, Ended
  <2>3. Position' /\ Gathered' /\ ChosenBest' /\ Explicit'
    BY <1>1, <2>1 DEF Position, Gathered, ChosenBest, Explicit, Preparing
  <2>4. RefusedForCause'
    <3>1. chosen \notin moved => args.backend = chosen
      BY <1>1, <1>2, <1>5 DEF Inv, ChosenBest, Explicit
    <3> QED BY <1>1, <1>5, <2>1, <3>1 DEF RefusedForCause, Terms
  <2>5. BestOfAll' /\ OfferKept' /\ SessionsClosed'
    BY <1>1, <2>1 DEF BestOfAll, OfferKept, SessionsClosed, Quoted, Ended
  <2> QED BY <2>2, <2>3, <2>4, <2>5 DEF Inv
<1> QED BY <1>4, <1>5

LEMMA CostsStep == Inv /\ Costs => Inv'
<1> SUFFICES ASSUME Inv, Costs PROVE Inv'
  OBVIOUS
<1>1. /\ pc = "costs" /\ pc' \in {"feedCrash", "done", "doneCompared"} /\ session' = {}
      /\ UNCHANGED <<pool, moves, moved, args, i, results, chosen, quote, sent>>
  BY DEF Costs, Finish
<1>2. TypeOK'
  BY <1>1 DEF Inv, TypeOK, Ended
<1>3. Position' /\ Gathered' /\ ChosenBest' /\ Explicit'
  BY <1>1 DEF Position, Gathered, ChosenBest, Explicit, Preparing
<1>4. BestOfAll' /\ OfferKept' /\ RefusedForCause' /\ SessionsClosed'
  BY <1>1 DEF Inv, BestOfAll, OfferKept, RefusedForCause, SessionsClosed, Quoted, Ended, Fresh,
              Terms
<1> QED BY <1>2, <1>3, <1>4 DEF Inv

LEMMA MoveStep == ASSUME Inv, NEW b \in Backend, PoolMove(b) PROVE Inv'
<1>1. /\ moves' = moves + 1 /\ moves < MaxMoves /\ pool' \in [Backend -> Pool]
      /\ moved' = moved \cup {b} /\ \A c \in Backend \ moved' : pool'[c] = pool[c]
      /\ UNCHANGED <<args, pc, i, results, chosen, quote, sent, session>>
      /\ L' = L /\ T' = T /\ Terms' = Terms /\ Asked' = Asked /\ Preparing' = Preparing
      /\ Quoted' = Quoted
  BY DEF PoolMove, Inv, TypeOK, L, T, Terms, Asked, Preparing, Quoted
<1>2. TypeOK'
  <2>1. moves' \in 0 .. MaxMoves
    BY <1>1 DEF Inv, TypeOK
  <2> QED BY <1>1, <2>1 DEF Inv, TypeOK
<1>3. Position' /\ Explicit' /\ SessionsClosed' /\ OfferKept'
  BY <1>1 DEF Inv, Position, Explicit, SessionsClosed, OfferKept, Fresh
<1>4. Gathered'
  <2> SUFFICES ASSUME pc \in {"gather", "select"}
               PROVE  /\ \A k \in DOMAIN results : results[k].backend \notin moved' =>
                            /\ Serves(pool'[results[k].backend], T)
                            /\ results[k].quote = QuoteOf(pool'[results[k].backend], T)
                      /\ \A j \in 1 .. i - 1 : L[j] \notin moved' /\ Serves(pool'[L[j]], T) =>
                            \E k \in DOMAIN results : results[k].backend = L[j]
    BY <1>1 DEF Gathered
  <2>1. \A k \in DOMAIN results : results[k].backend \in Backend
    <3>1. \A k \in DOMAIN results : results[k] \in ResultType
      BY DEF Inv, TypeOK
    <3> QED BY <3>1 DEF ResultType
  <2>2. \A j \in 1 .. i - 1 : L[j] \in Backend
    <3>1. L \in Seq(Backend) /\ Len(L) \in Nat /\ i - 1 <= Len(L) /\ i \in Nat
      <4>1. args \in Args /\ i \in 1 .. Len(L) + 1
        BY DEF Inv, Position, TypeOK
      <4>2. L \in Seq(Backend) /\ Len(L) \in Nat
        BY <4>1, ListTyped DEF L
      <4> QED BY <4>1, <4>2
    <3> QED BY <3>1
  <2> QED BY <1>1, <2>1, <2>2 DEF Inv, Gathered
<1>5. ChosenBest'
  <2> SUFFICES ASSUME Preparing, args.backend = "auto", chosen \notin moved'
               PROVE  /\ Serves(pool'[chosen], T)
                      /\ \A k \in DOMAIN results :
                            results[k].quote.out <= QuoteOf(pool'[chosen], T).out
                      /\ \A c \in Backend \ moved' : Serves(pool'[c], T) =>
                            QuoteOf(pool'[c], T).out <= QuoteOf(pool'[chosen], T).out
    BY <1>1 DEF ChosenBest
  <2>1. chosen \in Backend /\ chosen \notin moved
    BY <1>1 DEF Inv, Position
  <2> QED BY <1>1, <2>1 DEF Inv, ChosenBest
<1>6. BestOfAll'
  BY <1>1 DEF Inv, BestOfAll, Fresh
<1>7. RefusedForCause'
  <2>1. Asked \subseteq Backend
    BY DEF Inv, TypeOK, Asked, NoArgs, ArgsType
  <2>2. \A c \in Asked \ moved' : c \in Asked \ moved /\ pool'[c] = pool[c]
    BY <1>1, <2>1
  <2>3. \A c \in Asked : c \in moved' \/ pool'[c] = pool[c]
    BY <1>1, <2>1
  <2>4. chosen \in Backend \ moved' => chosen \in Backend \ moved /\ pool'[chosen] = pool[chosen]
    BY <1>1
  <2>5. pc = "aborted" /\ chosen = None => \A c \in Asked \ moved' : ~Serves(pool'[c], Terms)
    BY <2>2 DEF Inv, RefusedForCause
  <2>6. pc = "crashed" /\ chosen = None =>
            \E c \in Asked : c \in moved' \/ pool'[c].st = "garbled"
    BY <1>1, <2>3 DEF Inv, RefusedForCause
  <2>7. pc \in {"aborted", "crashed"} /\ chosen \in Backend \ moved' =>
            \/ ~pool'[chosen].tradable
            \/ args.backend = chosen /\ ~Serves(pool'[chosen], Terms)
    BY <2>4 DEF Inv, RefusedForCause
  <2> QED BY <1>1, <2>5, <2>6, <2>7 DEF RefusedForCause
<1> QED BY <1>2, <1>3, <1>4, <1>5, <1>6, <1>7 DEF Inv

LEMMA Invariant == Spec => []Inv
<1>1. Init => Inv
  <2> SUFFICES ASSUME Init PROVE Inv
    OBVIOUS
  <2>1. TypeOK
    BY DEF Init, TypeOK, NoQuote, QuoteType, NoTerms, TermsType, Opt, Ended
  <2> QED BY <2>1 DEF Init, Inv, Position, Gathered, ChosenBest, Explicit, Preparing,
                 BestOfAll, OfferKept, RefusedForCause, SessionsClosed, Quoted, Ended
<1>2. Inv /\ [Next]_vars => Inv'
  <2> SUFFICES ASSUME Inv, [Next]_vars PROVE Inv'
    OBVIOUS
  <2>1. CASE UNCHANGED vars
    <3> USE <2>1 DEF vars, Inv
    <3>1. TypeOK'
      BY DEF TypeOK
    <3>2. Position' /\ Explicit'
      BY DEF Position, Explicit, Preparing, L
    <3>3. Gathered' /\ ChosenBest'
      BY DEF Gathered, ChosenBest, Preparing, L, T
    <3>4. BestOfAll' /\ OfferKept' /\ SessionsClosed'
      BY DEF BestOfAll, OfferKept, SessionsClosed, Quoted, Fresh, Terms
    <3>5. RefusedForCause'
      BY DEF RefusedForCause, Terms, Asked
    <3> QED BY <3>1, <3>2, <3>3, <3>4, <3>5
  <2> QED BY <2>1, StartStep, GatherStep, SelectStep, InboundStep, RequoteStep, CostsStep,
             MoveStep
          DEF Next, Step
<1> QED BY <1>1, <1>2, PTL DEF Spec

\* Every variable keeps its type: no index of the list of backends is out of
\* range, and only listed backends are asked or chosen.
THEOREM TypeCorrect == Spec => []TypeOK
<1>1. Inv => TypeOK
  BY DEF Inv
<1> QED BY <1>1, Invariant, PTL

\* The quote that is shown, and that a swap is built from, is the best on its own
\* terms of all backends whose pools have not moved, however many there are
\* (gather_quotes, best_quote and prepare_swap together).
THEOREM BestIsChosen == Spec => []BestOfAll
<1>1. Inv => BestOfAll
  BY DEF Inv
<1> QED BY <1>1, Invariant, PTL

\* Whatever the other pools did meanwhile, the second quote of prepare_swap is no
\* worse than any quote that gather_quotes got.
THEOREM OfferIsKept == Spec => []OfferKept
<1>1. Inv => OfferKept
  BY DEF Inv
<1> QED BY <1>1, Invariant, PTL

\* A command is refused, or ends in a traceback, only for want of a backend that
\* serves, a garbled answer, a chain that is not tradable on the backend that was
\* chosen, or a failure of the one that the user named (gather_quotes drops the
\* failing ones and goes on; prepare_swap turns away what cannot be traded).
THEOREM RefusalsHaveACause == Spec => []RefusedForCause
<1>1. Inv => RefusedForCause
  BY DEF Inv
<1> QED BY <1>1, Invariant, PTL

\* Clients are closed when _select_backend and cmd_quote say they are.
THEOREM ClientsClosed == Spec => []SessionsClosed
<1>1. Inv => SessionsClosed
  BY DEF Inv
<1> QED BY <1>1, Invariant, PTL
===========================================================================
