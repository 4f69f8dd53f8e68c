----------------------------- MODULE MCBackends -----------------------------
(***************************************************************************)
(* Two networks, as the wallet has, and the command lines that differ for  *)
(* them: with and without streaming, a tolerance or an explicit backend.   *)
(***************************************************************************)
EXTENDS Backends

CONSTANTS thorchain, maya

MCOrder == <<thorchain, maya>>

Line(cmd, b, tol, int, qty, check) ==
    [cmd |-> cmd, backend |-> b, tolerance_bps |-> tol, stream_interval |-> int,
     stream_quantity |-> qty, price_check |-> check]

Swap(b, tol, int, qty) == Line("swap", b, tol, int, qty, FALSE)

MCArgs ==
    {Line("quote", "auto", None, None, None, TRUE), Line("quote", maya, None, 1, None, TRUE),
     Line("swap", "auto", 1, None, None, TRUE),
     Swap("auto", 2, None, None), Swap("auto", 1, 1, None), Swap("auto", 1, 1, 2),
     Swap(thorchain, 1, None, None)}

\* A quantity of sub-swaps without an interval.
QuantityOnly == {Swap("auto", 1, None, 2)}

Broken(st) == [st |-> st, tradable |-> TRUE, halted |-> FALSE, memo |-> FALSE, slip |-> 0, min |-> 0,
               plain |-> 0, streamed |-> 0]

\* Pools: slip at or above the tolerances, amounts below and above the minimum,
\* prices that order the networks differently with and without streaming, and a
\* good quote of a network whose source chain is paused.
MCPool ==
    {Broken("down"), Broken("garbled"), [Broken("up") EXCEPT !.halted = TRUE],
     [Broken("up") EXCEPT !.plain = 5, !.streamed = 5],
     [Broken("up") EXCEPT !.tradable = FALSE, !.memo = TRUE, !.slip = 1, !.min = 3,
                          !.plain = 2, !.streamed = 3]}
    \cup {[Broken("up") EXCEPT !.memo = TRUE, !.slip = s, !.min = m, !.plain = p,
                               !.streamed = q] :
            s \in {1, 2}, m \in {3, 4}, p \in {1, 2}, q \in {1, 2, 3}}
===========================================================================
