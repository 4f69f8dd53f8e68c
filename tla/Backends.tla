------------------------------ MODULE Backends ------------------------------
(***************************************************************************)
(* How quote and swap pick a network, and what a swap is then made from:   *)
(* _backends_for, gather_quotes, best_quote and _select_backend, the       *)
(* checks and the second quote of prepare_swap, the comparison with a      *)
(* public price, and the HTTP sessions of the clients.  The backends are   *)
(* asked one after the other while their pools move.                       *)
(***************************************************************************)
EXTENDS Integers, Sequences

CONSTANTS
    Backend,    \* names of the networks
    Order,      \* default_backends(): the networks, in order
    Args,       \* command lines
    Amount,     \* the amount to swap
    Pool,       \* what a network may be like
    DEFAULT_TOLERANCE_BPS,
    None,       \* an option that is not given
    MaxMoves    \* bound on how often the pools move

Opt == Nat \cup {None}
ArgsType == [cmd : {"quote", "swap"}, backend : Backend \cup {"auto"}, tolerance_bps : Opt,
             stream_interval : Opt, stream_quantity : Opt, price_check : BOOLEAN]
PoolType == [st : {"up", "down", "garbled"}, tradable : BOOLEAN, halted : BOOLEAN,
             memo : BOOLEAN, slip : Nat, min : Nat, plain : Nat, streamed : Nat]

ASSUME BackendsAssumption ==
    /\ Order \in Seq(Backend) /\ Len(Order) > 1
    /\ \A i, j \in 1 .. Len(Order) : Order[i] = Order[j] => i = j
    /\ \A b \in Backend : \E i \in 1 .. Len(Order) : Order[i] = b
    /\ "auto" \notin Backend
    /\ Args \subseteq ArgsType /\ Pool \subseteq PoolType
    /\ \A a \in Args : a.cmd = "swap" => a.tolerance_bps # None   \* it has a default
    /\ Amount \in Nat /\ DEFAULT_TOLERANCE_BPS \in Nat /\ None \notin Nat \cup Backend
    /\ MaxMoves \in Nat

VARIABLES
    pool,       \* what each network is like now
    moves,      \* how often pools have moved since the command began
    moved,      \* the backends whose pools did (history)
    args,       \* the command line
    pc,         \* "start", "gather", "select", "inbound", "requote", "costs", or how it ended
    i,          \* position in the list of backends
    results,    \* list of [backend, quote]
    chosen,     \* the backend that was picked
    quote,      \* the quote that is shown, and for a swap is built from
    sent,       \* terms asked for: while choosing, and for the swap
    session     \* clients with an open HTTP session

vars == <<pool, moves, moved, args, pc, i, results, chosen, quote, sent, session>>

---------------------------------------------------------------------------
\* Quotes

NoQuote == [out |-> 0, memo |-> FALSE, min |-> 0]
QuoteType == [out : Nat, memo : BOOLEAN, min : Nat]
ResultType == [backend : Backend, quote : QuoteType]
TermsType == [interval : Opt, quantity : Opt, tolerance : Opt]
NoTerms == [interval |-> None, quantity |-> None, tolerance |-> None]

\* Mutant: streaming does not drop the tolerance.
GatherTerms_Tolerance(a) ==
    [interval |-> a.stream_interval,
     quantity |-> IF a.stream_interval # None THEN a.stream_quantity ELSE None,
     tolerance |-> IF a.cmd = "swap" /\ a.tolerance_bps # None THEN a.tolerance_bps
                   ELSE DEFAULT_TOLERANCE_BPS]

\* The terms gather_quotes asks for: streaming drops the tolerance; without it
\* the quantity is dropped, and the client's default tolerance is used when the
\* command has none.  cmd_quote passes no tolerance.
GatherTerms(a) ==
    IF a.stream_interval # None
    THEN [interval |-> a.stream_interval, quantity |-> a.stream_quantity, tolerance |-> None]
    ELSE [NoTerms EXCEPT !.tolerance =
            IF a.cmd = "swap" /\ a.tolerance_bps # None THEN a.tolerance_bps
            ELSE DEFAULT_TOLERANCE_BPS]

\* Mutant: the streaming options are not handed on to prepare_swap.
SwapTerms_NoStream(a) == [NoTerms EXCEPT !.tolerance = a.tolerance_bps]

\* The terms prepare_swap asks for.
SwapTerms(a) ==
    [interval |-> a.stream_interval, quantity |-> a.stream_quantity,
     tolerance |-> IF a.stream_interval # None THEN None ELSE a.tolerance_bps]

\* A network splits a trade over blocks when it is given an interval.
Streams(t) == t.interval # None

\* It refuses (an "error" in the answer) a trade of a pool that is halted, or that
\* it cannot make within the price limit.  What inbound_addresses says of the source
\* chain, tradable, is another matter, which a quote does not tell.
Refuses(n, t) == n.halted \/ (t.tolerance # None /\ n.slip > t.tolerance)

\* parse_quote of what it answers otherwise.
QuoteOf(n, t) == [out |-> IF Streams(t) THEN n.streamed ELSE n.plain,
                  memo |-> n.memo, min |-> n.min]

\* A quote that gather_quotes keeps and prepare_swap accepts.
Usable(q) == q.memo /\ Amount >= q.min

\* The network gives a quote on these terms that can be used.
Serves(n, t) == n.st = "up" /\ ~Refuses(n, t) /\ Usable(QuoteOf(n, t))

---------------------------------------------------------------------------
\* Steps

Finish(how, open) == pc' = how /\ session' = open

\* _backends_for: one of them, or all.
BackendsFor(a) == IF a.backend = "auto" THEN Order ELSE <<a.backend>>

\* The handler begins.  A swap with an explicit backend takes it unquoted.
Start ==
    /\ pc = "start"
    /\ \E a \in Args :
        /\ args' = a
        /\ IF a.cmd = "swap" /\ a.backend # "auto"
           THEN pc' = "inbound" /\ chosen' = a.backend
           ELSE pc' = "gather" /\ UNCHANGED chosen
    /\ UNCHANGED <<pool, moves, moved, i, results, quote, sent, session>>

\* What a traceback out of gather_quotes leaves: cmd_quote closes its clients
\* in a finally clause, _select_backend does not.
OpenAfterCrash(open) == IF args.cmd = "quote" THEN {} ELSE open

\* One round of the loop in gather_quotes.  Errors of the network and refusals
\* drop the backend; an answer that lacks a field is a traceback.
GatherOne ==
    LET b == BackendsFor(args)[i]
        n == pool[b]
        t == GatherTerms(args)
    IN  /\ pc = "gather"
        /\ sent' = [sent EXCEPT !.select = t]
        /\ IF n.st = "garbled"
           THEN /\ Finish("crashed", OpenAfterCrash(session \cup {b}))
                /\ UNCHANGED <<i, results>>
           ELSE /\ i' = i + 1
                /\ session' = session \cup {b}
                /\ results' = IF Serves(n, t)
                              THEN Append(results, [backend |-> b, quote |-> QuoteOf(n, t)])
                              ELSE results
                /\ pc' = IF i < Len(BackendsFor(args)) THEN "gather" ELSE "select"
        /\ UNCHANGED <<pool, moves, moved, args, chosen, quote>>

\* Mutant: the cheapest output wins.
best_quote_Min(k) == \A j \in DOMAIN results : results[j].quote.out >= results[k].quote.out

\* max() by expected_amount_out; of equals the first.
best_quote(k) ==
    \A j \in DOMAIN results :
        /\ results[j].quote.out <= results[k].quote.out
        /\ j < k => results[j].quote.out < results[k].quote.out

\* Mutant: the clients that were not chosen stay open.
KeptOpen_All(b) == session

\* Every client but the chosen one is closed.
KeptOpen(b) == session \cap {b}

\* The rest of _select_backend, or of cmd_quote up to the costs.
Select ==
    /\ pc = "select"
    /\ \/ /\ results = <<>>
          /\ Finish("aborted", {})
          /\ UNCHANGED <<chosen, quote>>
       \/ \E k \in DOMAIN results :
            /\ best_quote(k)
            /\ chosen' = results[k].backend
            /\ IF args.cmd = "quote"
               THEN pc' = "costs" /\ quote' = results[k].quote /\ UNCHANGED session
               ELSE Finish("inbound", KeptOpen(results[k].backend)) /\ UNCHANGED quote
    /\ UNCHANGED <<pool, moves, moved, args, i, results, sent>>

\* The source chain is not in the answer, or halted or paused in it.
Paused(n) == ~n.tradable

\* prepare_swap asks for the inbound addresses first.  The client is closed by the
\* with statement when it fails; network errors and garbled answers are tracebacks.
Inbound ==
    LET n == pool[chosen]
    IN  /\ pc = "inbound"
        /\ IF n.st = "up" /\ ~Paused(n)
           THEN Finish("requote", session \cup {chosen})
           ELSE Finish(IF n.st = "up" THEN "aborted" ELSE "crashed", session \ {chosen})
        /\ UNCHANGED <<pool, moves, moved, args, i, results, chosen, quote, sent>>

\* prepare_swap's quote.
Requote ==
    LET n == pool[chosen]
        t == SwapTerms(args)
    IN  /\ pc = "requote"
        /\ sent' = [sent EXCEPT !.swap = t]
        /\ IF Serves(n, t)
           THEN pc' = "costs" /\ quote' = QuoteOf(n, t) /\ UNCHANGED session
           ELSE /\ Finish(IF n.st = "up" THEN "aborted" ELSE "crashed", session \ {chosen})
                /\ UNCHANGED quote
        /\ UNCHANGED <<pool, moves, moved, args, i, results, chosen>>

\* What the price feed may answer for a price: a number, 0, JSON null, nothing
\* for this coin; or the request fails.
FeedAnswer == {"price", "zero", "null", "missing", "error"}

\* parse_prices converts every value with float, which null does not survive.
ParseRaises(in, out) == "null" \in {in, out}

\* The comparison is left out when the request fails, a coin is missing or the
\* destination costs nothing.
NoComparison(in, out) == {in, out} \cap {"missing", "error"} # {} \/ out = "zero"

\* _print_swap_costs with _market_comparison; then, for a swap, what SpendFlow
\* models, and the with statement or the finally clause closes the clients.
Costs ==
    /\ pc = "costs"
    /\ \E in, out \in FeedAnswer :
        /\ ~args.price_check => in = "price" /\ out = "price"   \* not asked
        /\ (in = "error") = (out = "error")                     \* one request for both
        /\ Finish(IF ParseRaises(in, out) THEN "feedCrash"
                  ELSE IF NoComparison(in, out) \/ ~args.price_check THEN "done"
                  ELSE "doneCompared",
                  {})
    /\ UNCHANGED <<pool, moves, moved, args, i, results, chosen, quote, sent>>

\* A network's pools and its state change at any time.
PoolMove(b) ==
    /\ moves < MaxMoves
    /\ moves' = moves + 1 /\ moved' = moved \cup {b}
    /\ \E n \in Pool : pool' = [pool EXCEPT ![b] = n]
    /\ UNCHANGED <<args, pc, i, results, chosen, quote, sent, session>>

---------------------------------------------------------------------------
NoArgs == [cmd |-> "quote", backend |-> "auto", tolerance_bps |-> None,
           stream_interval |-> None, stream_quantity |-> None, price_check |-> FALSE]

Init ==
    /\ pool \in [Backend -> Pool]
    /\ moves = 0 /\ moved = {} /\ args = NoArgs /\ pc = "start" /\ i = 1
    /\ results = <<>> /\ chosen = None /\ quote = NoQuote
    /\ sent = [select |-> NoTerms, swap |-> NoTerms]
    /\ session = {}

Step == Start \/ GatherOne \/ Select \/ Inbound \/ Requote \/ Costs

Next == Step \/ \E b \in Backend : PoolMove(b)

Spec == Init /\ [][Next]_vars

---------------------------------------------------------------------------
\* Properties

Ended == {"aborted", "crashed", "feedCrash", "done", "doneCompared"}

\* The command has got as far as a quote to show.
Quoted == pc \in {"costs", "feedCrash", "done", "doneCompared"}

\* Types of the variables.
TypeOK ==
    /\ pool \in [Backend -> Pool] /\ moves \in 0 .. MaxMoves /\ moved \subseteq Backend
    /\ args \in Args \cup {NoArgs}
    /\ pc \in {"start", "gather", "select", "inbound", "requote", "costs"} \cup Ended
    /\ i \in 1 .. Len(Order) + 1
    /\ results \in Seq(ResultType)
    /\ chosen \in Backend \cup {None} /\ quote \in QuoteType
    /\ sent \in [select : TermsType, swap : TermsType]
    /\ session \subseteq Backend

\* The terms that count in the end, and the backends that the command may use.
Terms == IF args.cmd = "swap" THEN SwapTerms(args) ELSE GatherTerms(args)
Asked == IF args.backend = "auto" THEN Backend ELSE {args.backend}

\* The quote was not outdated by a move of the pool it is from: cmd_quote shows what
\* was gathered, a swap is quoted again.
Fresh == args.cmd = "swap" => chosen \notin moved

\* The quote that is shown is the best of all backends whose pools have not moved,
\* on the swap's terms: dropped backends, the second quote and the options of
\* streaming and tolerance do not make it another one.
BestOfAll ==
    Quoted /\ Fresh /\ args.backend = "auto" =>
        \A b \in Backend \ moved : Serves(pool[b], Terms) => QuoteOf(pool[b], Terms).out <= quote.out

\* The second quote keeps the offer that the backend was chosen for: it is no worse
\* than any quote of the selection, those of pools that have moved since included,
\* although its terms are built elsewhere (swap.py prepare_swap).
OfferKept ==
    Quoted /\ Fresh => \A k \in DOMAIN results : results[k].quote.out <= quote.out

\* A command fails only for a cause.  With no backend chosen: no backend asked gives
\* a usable quote, or one garbled its answer.  With one chosen for its quote: the
\* chain is not tradable there, whatever the quote said; only a backend that the
\* user named may fail to serve as well.  (Pools that moved are excused.)
RefusedForCause ==
    /\ pc = "aborted" /\ chosen = None =>
            \A b \in Asked \ moved : ~Serves(pool[b], Terms)
    /\ pc = "crashed" /\ chosen = None =>
            \E b \in Asked : b \in moved \/ pool[b].st = "garbled"
    /\ pc \in {"aborted", "crashed"} /\ chosen \in Backend \ moved =>
            \/ ~pool[chosen].tradable
            \/ args.backend = chosen /\ ~Serves(pool[chosen], Terms)

\* Only the chosen client is open while a swap is prepared, and none when the
\* command ends, except by a traceback while a swap is choosing.
SessionsClosed ==
    /\ pc \in {"inbound", "requote"} => session \subseteq {chosen}
    /\ pc \in Ended =>
        session = {} \/ (pc = "crashed" /\ args.cmd = "swap" /\ chosen = None)

---------------------------------------------------------------------------
\* What a comment says, and the code does not do

\* "--backend auto selects on the same streamed price" (docs/streaming.md): both
\* rounds ask for the same terms.
SameTerms ==
    Quoted /\ args.cmd = "swap" /\ args.backend = "auto" => sent.select = sent.swap

\* "Quote every backend; drop ones that can't serve this swap (no pool, halted, ...)"
\* (gather_quotes): a swap is not turned away while a backend could serve it.
HaltedDropped ==
    pc = "aborted" /\ moves = 0 =>
        \A b \in Asked : ~(pool[b].tradable /\ Serves(pool[b], Terms))

\* "Never raises: a feed failure drops it" (_market_comparison).
FeedNeverFatal == pc # "feedCrash"
===========================================================================
