------------------------------- MODULE Status -------------------------------
(***************************************************************************)
(* The status command: a transaction is looked for on every backend in     *)
(* turn (cmd_status), by the hash as the networks index it                 *)
(* (normalize_txid).  Meanwhile it may be observed, and backends fail.     *)
(* A backend whose body is null, or is not shaped as expected, ends the    *)
(* command with a traceback: only HTTP_ERRORS are caught.                  *)
(***************************************************************************)
EXTENDS Integers, Sequences

CONSTANTS
    Backend,    \* swap networks
    Order,      \* default_backends: the networks, in order
    Hash,       \* transaction hashes
    Args,       \* command lines: [backend, txid], a txid being [prefix, hash]
    MaxMoves,   \* bound on the changes of the networks
    None

ArgsType == [backend : Backend \cup {"auto"},
             txid : [prefix : {"", "0x", "0X"}, hash : Hash]]

ASSUME StatusAssumption ==
    /\ Order \in Seq(Backend) /\ Len(Order) > 1
    /\ "auto" \notin Backend /\ Args \subseteq ArgsType /\ MaxMoves \in Nat
    /\ None \notin [backend : Backend, started : BOOLEAN]

VARIABLES
    observed,   \* hashes that each backend has observed
    up,         \* backends that answer
    garbled,    \* backends whose body is JSON, but not the expected dict
    moves,      \* changes of the networks so far
    args,       \* the command line
    pc,         \* "start", "ask", or how it ended: see Ended
    i,          \* the backend that is asked next
    status,     \* the last answer: [backend, started], or None ({})
    steady,     \* backends that were up all along (history)
    before      \* what was observed when the command began (history)

vars == <<observed, up, garbled, moves, args, pc, i, status, steady, before>>

\* The form the networks index by, without the prefix.
Indexed(h) == [prefix |-> "", hash |-> h]

\* removeprefix("0x").removeprefix("0X")
normalize_txid(t) == [prefix |-> "", hash |-> t.hash]

\* tx_status: an unknown hash has a body too, with nothing observed.
tx_status(be, t) ==
    [backend |-> be,
     started |-> \E h \in observed[be] : normalize_txid(t) = Indexed(h)]

BackendsFor(x) == IF x.backend = "auto" THEN Order ELSE <<x.backend>>

Start ==
    /\ pc = "start"
    /\ \E x \in Args : args' = x
    /\ pc' = "ask" /\ before' = observed /\ steady' = up
    /\ UNCHANGED <<observed, up, garbled, moves, i, status>>

\* observed or len(backends) == 1
Conclusive(s, n) == s.started \/ n = 1

\* Mutant: a backend that fails ends the loop.
AfterError_Stop(n) == i' = i /\ pc' = "fell"

\* continue, and out of the loop after the last.
AfterError(n) == i' = i + 1 /\ pc' = IF i < n THEN "ask" ELSE "fell"

\* One round of the loop.  status.get on what is no dict raises outside the try.
Ask ==
    LET list == BackendsFor(args)
        be == list[i]
        s == tx_status(be, args.txid)
        n == Len(list)
    IN  /\ pc = "ask"
        /\ \/ /\ be \in up \ garbled
              /\ status' = s
              /\ IF Conclusive(s, n)
                 THEN pc' = (IF n > 1 THEN "observed" ELSE "only") /\ UNCHANGED i
                 ELSE i' = i + 1 /\ pc' = IF i < n THEN "ask" ELSE "fell"
           \/ /\ be \notin up
              /\ AfterError(n)
              /\ UNCHANGED status
           \/ /\ be \in up \cap garbled
              /\ pc' = "crashed"
              /\ UNCHANGED <<i, status>>
        /\ UNCHANGED <<observed, up, garbled, moves, args, steady, before>>

\* A network observes a transaction, or stops or starts to answer.
Move(be) ==
    /\ moves < MaxMoves
    /\ moves' = moves + 1
    /\ \/ \E h \in Hash : observed' = [observed EXCEPT ![be] = @ \cup {h}] /\ UNCHANGED up
       \/ \E u \in {up \ {be}, up \cup {be}} : up' = u /\ UNCHANGED observed
    /\ steady' = steady \cap up'
    /\ UNCHANGED <<garbled, args, pc, i, status, before>>

Init ==
    /\ observed \in [Backend -> SUBSET Hash] /\ up \in SUBSET Backend
    /\ garbled \in SUBSET Backend /\ moves = 0 /\ args = None /\ pc = "start" /\ i = 1
    /\ status = None /\ steady = up /\ before = observed

Next == Start \/ Ask \/ \E be \in Backend : Move(be)

Spec == Init /\ [][Next]_vars

---------------------------------------------------------------------------
\* Properties

Ended == {"observed", "only", "fell", "crashed"}

\* The transaction was observed by this backend before the command.
Known(be) == args.txid.hash \in before[be]

\* What a backend in question observed before the command, and was there to tell,
\* is what is printed: with or without 0x, and whichever other backends fail or
\* answer first that they know nothing.  Only a garbled body of a backend that is
\* asked before it can keep it from the user (cmd_status).
ObservedReported ==
    pc \in Ended /\ (\E k \in DOMAIN BackendsFor(args) :
                        /\ BackendsFor(args)[k] \in steady /\ Known(BackendsFor(args)[k])
                        /\ \A j \in 1 .. k : BackendsFor(args)[j] \notin garbled) =>
        pc # "crashed" /\ status # None /\ status.started

---------------------------------------------------------------------------
\* The inductive invariant behind the properties

\* The networks, and what is remembered of them: observations stay, and who was up
\* all along is up.
NetworksOK ==
    /\ observed \in [Backend -> SUBSET Hash] /\ before \in [Backend -> SUBSET Hash]
    /\ steady \subseteq up /\ \A be \in Backend : before[be] \subseteq observed[be]

\* Of the first k backends asked, none that was there to tell knew the transaction.
NoneKnew(k) ==
    \A j \in 1 .. k : BackendsFor(args)[j] \in steady => ~Known(BackendsFor(args)[j])

\* How far the loop is, and what its outcome rests on.
LoopOK ==
    /\ pc \in {"start", "ask"} \cup Ended
    /\ pc = "start" => i = 1
    /\ pc # "start" => args \in Args
    /\ pc = "ask" => i \in 1 .. Len(BackendsFor(args)) /\ NoneKnew(i - 1)
    /\ pc = "fell" => NoneKnew(Len(BackendsFor(args)))
    /\ pc = "only" => /\ Len(BackendsFor(args)) = 1
                      /\ status \in [backend : Backend, started : BOOLEAN]
                      /\ Known(BackendsFor(args)[1]) => status.started
    /\ pc = "observed" => status \in [backend : Backend, started : BOOLEAN] /\ status.started
    /\ pc = "crashed" => /\ i \in 1 .. Len(BackendsFor(args)) /\ NoneKnew(i - 1)
                         /\ BackendsFor(args)[i] \in garbled

StatusInv == NetworksOK /\ LoopOK

---------------------------------------------------------------------------
\* What a comment says, and the code does not do

\* "Not observed on any backend yet (genuinely pending, or unknown hash)"
\* (cmd_status, before its last print).
FellMeansUnobserved == pc = "fell" => \A be \in Backend : ~Known(be)
===========================================================================
