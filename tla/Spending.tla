------------------------------ MODULE Spending ------------------------------
(***************************************************************************)
(* What the wallet promises of every command that spends, with no word     *)
(* about how: a list of transactions is fixed when the user consents;      *)
(* from the moment the invocation commits itself they land on the chain in *)
(* the order of the list, each at most once and none before its            *)
(* predecessors; "done" is said when and only when the whole list has      *)
(* landed; and once an invocation has stopped, for whatever reason,        *)
(* nothing of it lands any more, but for the one transaction that was      *)
(* under way when it gave up.                                              *)
(***************************************************************************)
EXTENDS Naturals, Sequences

CONSTANT Proc       \* invocations of the program

VARIABLES
    phase,          \* "open", "consented", "committed", "unsure", "done" or "stopped"
    order,          \* the transactions it is authorised to post, in order
    landed          \* what is on the chain: pairs <<position, transaction>>

avars == <<phase, order, landed>>

Init ==
    /\ phase = [p \in Proc |-> "open"]
    /\ order = [p \in Proc |-> <<>>]
    /\ landed = [p \in Proc |-> {}]

\* The user consents to a non-empty list of transactions.
Consent(p) ==
    /\ phase[p] = "open"
    /\ phase' = [phase EXCEPT ![p] = "consented"]
    /\ order'[p] # <<>>
    /\ order' = [order EXCEPT ![p] = order'[p]]
    /\ UNCHANGED landed

\* The invocation signs what was consented to, and only that.
Commit(p) ==
    /\ phase[p] = "consented"
    /\ phase' = [phase EXCEPT ![p] = "committed"]
    /\ UNCHANGED <<order, landed>>

Prefix(p, n) == {<<j, order[p][j]>> : j \in 1 .. n}

\* The next transaction lands; the answer may be lost, and then that is all.
Land(p) ==
    /\ phase[p] = "committed"
    /\ \E i \in DOMAIN order[p] :
        /\ landed[p] = Prefix(p, i - 1)
        /\ landed' = [landed EXCEPT ![p] = Prefix(p, i)]
        /\ \/ /\ phase' = [phase EXCEPT ![p] = IF i = Len(order[p]) THEN "done" ELSE @]
              /\ UNCHANGED order
           \/ /\ phase' = [phase EXCEPT ![p] = "stopped"]
              /\ order' = [order EXCEPT ![p] = <<>>]

\* An invocation may stop at any time before it is done.
Stop(p) ==
    /\ phase[p] \in {"open", "consented", "committed"}
    /\ phase' = [phase EXCEPT ![p] = "stopped"]
    /\ order' = [order EXCEPT ![p] = <<>>]
    /\ UNCHANGED landed

\* It gives up on a transaction that it has posted.
GiveUp(p) ==
    /\ phase[p] = "committed"
    /\ phase' = [phase EXCEPT ![p] = "unsure"]
    /\ UNCHANGED <<order, landed>>

\* That transaction lands after all.
LandLate(p) ==
    /\ phase[p] = "unsure"
    /\ phase' = [phase EXCEPT ![p] = "stopped"]
    /\ order' = [order EXCEPT ![p] = <<>>]
    /\ \E i \in DOMAIN order[p] :
        /\ landed[p] = Prefix(p, i - 1)
        /\ landed' = [landed EXCEPT ![p] = Prefix(p, i)]

Next == \E p \in Proc : \/ Consent(p) \/ Commit(p) \/ Land(p)
                        \/ Stop(p) \/ GiveUp(p) \/ LandLate(p)

Spec == Init /\ [][Next]_avars
===========================================================================
