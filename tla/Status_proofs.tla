---------------------------- MODULE Status_proofs ----------------------------
(***************************************************************************)
(* Theorems about the status command, for any number of backends, any      *)
(* command line and any course of the networks meanwhile.                  *)
(***************************************************************************)
EXTENDS Status, TLAPS

\* There is always a backend to ask.
LEMMA Asked ==
    ASSUME NEW x \in Args
    PROVE  /\ Len(BackendsFor(x)) \in Nat \ {0}
           /\ \A k \in 1 .. Len(BackendsFor(x)) : BackendsFor(x)[k] \in Backend
           /\ DOMAIN BackendsFor(x) = 1 .. Len(BackendsFor(x))
           /\ x.txid.hash \in Hash
<1>1. /\ x.backend \in Backend \cup {"auto"} /\ x.txid.hash \in Hash
      /\ Order \in Seq(Backend) /\ Len(Order) > 1
  BY StatusAssumption DEF ArgsType
<1>2. CASE x.backend = "auto"
  BY <1>1, <1>2 DEF BackendsFor
<1>3. CASE x.backend # "auto"
  <2>1. BackendsFor(x) = <<x.backend>> /\ x.backend \in Backend
    BY <1>1, <1>3 DEF BackendsFor
  <2> QED
    BY <1>1, <2>1
<1> QED
  BY <1>2, <1>3

\* tx_status finds a hash, with or without its prefix, exactly if the backend has
\* observed it.
LEMMA FoundIfObserved ==
    ASSUME NEW x \in Args, NEW be \in Backend
    PROVE  /\ tx_status(be, x.txid) \in [backend : Backend, started : BOOLEAN]
           /\ tx_status(be, x.txid).backend = be
           /\ tx_status(be, x.txid).started <=> x.txid.hash \in observed[be]
<1>2. normalize_txid(x.txid) = Indexed(x.txid.hash)
  BY DEF normalize_txid, Indexed
<1>3. \A h : Indexed(h).hash = h
  BY DEF Indexed
<1>4. (\E h \in observed[be] : normalize_txid(x.txid) = Indexed(h))
            <=> x.txid.hash \in observed[be]
  BY <1>2, <1>3
<1> QED
  BY <1>4 DEF tx_status

\* The loop begins with what is known then.
LEMMA StartStep == StatusInv /\ Start => StatusInv'
<1> SUFFICES ASSUME StatusInv, Start PROVE StatusInv'
  OBVIOUS
<1>1. /\ NetworksOK /\ pc = "start" /\ i = 1 /\ args' \in Args /\ pc' = "ask"
      /\ before' = observed /\ steady' = up
      /\ UNCHANGED <<observed, up, garbled, moves, i, status>>
  BY DEF StatusInv, LoopOK, Start
<1>2. NetworksOK'
  BY <1>1 DEF NetworksOK
<1>3. Len(BackendsFor(args')) \in Nat \ {0}
  BY <1>1, Asked
<1>4. Len(BackendsFor(args))' = Len(BackendsFor(args'))
  BY DEF BackendsFor
<1>5. LoopOK'
  BY <1>1, <1>3, <1>4 DEF LoopOK, NoneKnew, Ended
<1> QED
  BY <1>1, <1>2, <1>5 DEF StatusInv

\* One answer, or one failure.
LEMMA AskStep == StatusInv /\ Ask => StatusInv'
<1> SUFFICES ASSUME StatusInv, Ask PROVE StatusInv'
  OBVIOUS
<1> DEFINE list == BackendsFor(args)
           be == list[i]
           s == tx_status(be, args.txid)
           n == Len(list)
<1>1. /\ NetworksOK /\ pc = "ask" /\ args \in Args /\ i \in 1 .. n /\ NoneKnew(i - 1)
      /\ UNCHANGED <<observed, up, garbled, moves, args, steady, before>>
  BY DEF StatusInv, LoopOK, Ask
<1>2. n \in Nat \ {0} /\ \A k \in 1 .. n : list[k] \in Backend
  BY <1>1, Asked
<1>3. be \in Backend
  BY <1>1, <1>2
<1>4. /\ s \in [backend : Backend, started : BOOLEAN] /\ s.backend = be
      /\ s.started <=> args.txid.hash \in observed[be]
  <2> HIDE DEF be
  <2> QED
    BY <1>1, <1>3, FoundIfObserved
<1>5. NetworksOK'
  BY <1>1 DEF NetworksOK
<1>6. /\ list' = list
      /\ \A k : NoneKnew(k)' <=> NoneKnew(k)
      /\ \A x : Known(x)' <=> Known(x)
  BY <1>1 DEF NoneKnew, Known, BackendsFor
<1>7. Known(be) => args.txid.hash \in observed[be]
  BY <1>1, <1>3 DEF Known, NetworksOK
<1>8. ASSUME be \in steady => ~Known(be)
      PROVE  NoneKnew(i)
  <2> SUFFICES ASSUME NEW j \in 1 .. i, list[j] \in steady PROVE ~Known(list[j])
    BY DEF NoneKnew
  <2>1. CASE j = i
    BY <1>8, <2>1
  <2>2. CASE j # i
    <3>1. j \in 1 .. i - 1
      BY <1>1, <1>2, <2>2
    <3> QED
      BY <1>1, <3>1 DEF NoneKnew
  <2> QED
    BY <2>1, <2>2
<1> DEFINE On == i' = i + 1 /\ pc' = IF i < n THEN "ask" ELSE "fell"
<1>9. \/ /\ be \in up /\ status' = s
         /\ Conclusive(s, n) /\ pc' = (IF n > 1 THEN "observed" ELSE "only") /\ i' = i
      \/ /\ be \in up /\ status' = s /\ ~Conclusive(s, n) /\ On
      \/ be \notin up /\ On
      \/ be \in garbled /\ pc' = "crashed" /\ i' = i
  BY DEF Ask, AfterError
<1>10. CASE (be \in up => ~s.started) /\ On
  <2>1. be \in steady => ~Known(be)
    BY <1>1, <1>4, <1>7, <1>10 DEF NetworksOK
  <2>2. NoneKnew(i)
    BY <1>8, <2>1
  <2>3. CASE i < n
    <3>1. pc' = "ask" /\ i' = i + 1 /\ i' \in 1 .. n /\ i' - 1 = i
      BY <1>1, <1>2, <1>10, <2>3
    <3>2. NoneKnew(i - 1)'
      BY <1>1, <2>2, <3>1 DEF NoneKnew, Known, BackendsFor
    <3>3. i' \in 1 .. Len(BackendsFor(args))'
      BY <1>1, <3>1 DEF BackendsFor
    <3>4. LoopOK'
      BY <1>1, <3>1, <3>2, <3>3 DEF LoopOK, Ended
    <3> QED
      BY <1>5, <3>1, <3>4 DEF StatusInv
  <2>4. CASE ~(i < n)
    <3>1. pc' = "fell" /\ i = n
      BY <1>1, <1>2, <1>10, <2>4
    <3>2. NoneKnew(n)
      BY <2>2, <3>1
    <3>3. NoneKnew(Len(BackendsFor(args)))'
      BY <1>1, <3>2 DEF NoneKnew, Known, BackendsFor
    <3>4. LoopOK'
      BY <1>1, <3>1, <3>3 DEF LoopOK, Ended
    <3> QED
      BY <1>5, <3>1, <3>4 DEF StatusInv
  <2> QED
    BY <2>3, <2>4
<1>11. CASE /\ be \in up /\ status' = s /\ Conclusive(s, n) /\ i' = i
            /\ pc' = (IF n > 1 THEN "observed" ELSE "only")
  <2>1. CASE n > 1
    <3>1. pc' = "observed" /\ s.started
      BY <1>2, <1>11, <2>1 DEF Conclusive
    <3> HIDE DEF s
    <3>2. LoopOK'
      BY <1>1, <1>4, <1>11, <3>1 DEF LoopOK, Ended
    <3> QED
      BY <1>5, <3>2 DEF StatusInv
  <2>2. CASE ~(n > 1)
    <3>1. n = 1 /\ pc' = "only" /\ i = 1
      <4> HIDE DEF n
      <4> QED
        BY <1>1, <1>2, <1>11, <2>2
    <3>2. Known(list[1]) => s.started
      BY <1>4, <1>7, <3>1
    <3> HIDE DEF s
    <3>3. (Known(BackendsFor(args)[1]) => status.started)'
      BY <1>1, <1>11, <3>2 DEF Known, BackendsFor
    <3>4. Len(BackendsFor(args))' = 1
      BY <1>1, <3>1 DEF BackendsFor
    <3>5. LoopOK'
      BY <1>1, <1>4, <1>11, <3>1, <3>3, <3>4 DEF LoopOK, Ended
    <3> QED
      BY <1>5, <3>1, <3>5 DEF StatusInv
  <2> QED
    BY <2>1, <2>2
<1>12. CASE be \in garbled /\ pc' = "crashed" /\ i' = i
  <2>1. /\ (i \in 1 .. Len(BackendsFor(args)))' /\ NoneKnew(i - 1)'
        /\ (BackendsFor(args)[i] \in garbled)'
    BY <1>1, <1>12 DEF NoneKnew, Known, BackendsFor
  <2>2. LoopOK'
    BY <1>1, <1>12, <2>1 DEF LoopOK, Ended
  <2> QED
    BY <1>5, <2>2 DEF StatusInv
<1> QED
  <2> HIDE DEF be, s, n, list, On
  <2> QED
    BY <1>9, <1>10, <1>11, <1>12 DEF Conclusive

\* The networks move: observations are only added.
LEMMA MoveStep ==
    ASSUME StatusInv, NEW be \in Backend, Move(be)
    PROVE  StatusInv'
<1>1. /\ NetworksOK /\ LoopOK
      /\ UNCHANGED <<garbled, args, pc, i, status, before>> /\ steady' = steady \cap up'
  BY DEF StatusInv, Move
<1>2. /\ observed' \in [Backend -> SUBSET Hash]
      /\ \A x \in Backend : observed[x] \subseteq observed'[x]
  <2>1. CASE observed' = observed
    BY <1>1, <2>1 DEF NetworksOK
  <2>2. CASE \E h \in Hash : observed' = [observed EXCEPT ![be] = @ \cup {h}]
    BY <1>1, <2>2 DEF NetworksOK
  <2> QED
    BY <2>1, <2>2 DEF Move
<1>3. NetworksOK'
  BY <1>1, <1>2 DEF NetworksOK
<1>4. \A k : NoneKnew(k) => NoneKnew(k)'
  BY <1>1 DEF NoneKnew, Known, BackendsFor
<1>5. LoopOK'
  <2>1. \A x : Known(x)' <=> Known(x)
    BY <1>1 DEF Known
  <2>2. BackendsFor(args)' = BackendsFor(args)
    BY <1>1 DEF BackendsFor
  <2>3. pc \in {"ask", "crashed"} => NoneKnew(i - 1)'
    BY <1>1, <1>4 DEF LoopOK
  <2>4. pc = "fell" => NoneKnew(Len(BackendsFor(args)))'
    BY <1>1, <1>4 DEF LoopOK, NoneKnew, Known, BackendsFor
  <2> QED
    BY <1>1, <2>1, <2>2, <2>3, <2>4 DEF LoopOK, Known, NoneKnew
<1> QED
  BY <1>3, <1>5 DEF StatusInv

\* The inductive invariant of the status command.
THEOREM StatusInvariant == Spec => []StatusInv
<1>1. Init => StatusInv
  BY DEF Init, StatusInv, NetworksOK, LoopOK, Ended
<1>2. StatusInv /\ [Next]_vars => StatusInv'
  <2> SUFFICES ASSUME StatusInv, [Next]_vars PROVE StatusInv'
    OBVIOUS
  <2>1. CASE UNCHANGED vars
    BY <2>1 DEF StatusInv, NetworksOK, LoopOK, NoneKnew, Known, BackendsFor, vars
  <2> QED
    BY <2>1, StartStep, AskStep, MoveStep DEF Next
<1> QED
  BY <1>1, <1>2, PTL DEF Spec

\* What a backend that answers throughout had observed before the command is
\* what is printed, whichever others fail or know nothing, unless a backend asked before it
\* sends what is no status (cli.py cmd_status).
THEOREM ObservationReported == Spec => []ObservedReported
<1>1. StatusInv => ObservedReported
  <2> SUFFICES ASSUME StatusInv, pc \in Ended, NEW k \in DOMAIN BackendsFor(args),
                      BackendsFor(args)[k] \in steady, Known(BackendsFor(args)[k]),
                      \A j \in 1 .. k : BackendsFor(args)[j] \notin garbled
               PROVE  pc # "crashed" /\ status # None /\ status.started
    BY DEF ObservedReported
  <2>1. args \in Args /\ k \in 1 .. Len(BackendsFor(args))
    BY Asked DEF StatusInv, LoopOK, Ended
  <2>2. pc # "fell"
    BY <2>1 DEF StatusInv, LoopOK, NoneKnew
  <2>6. pc # "crashed"
    <3> SUFFICES ASSUME pc = "crashed" PROVE FALSE
      OBVIOUS
    <3>1. /\ i \in 1 .. Len(BackendsFor(args)) /\ NoneKnew(i - 1)
          /\ BackendsFor(args)[i] \in garbled /\ Len(BackendsFor(args)) \in Nat
      BY <2>1, Asked DEF StatusInv, LoopOK
    <3>2. ~(i \in 1 .. k)
      BY <3>1
    <3>3. k \in 1 .. i - 1
      BY <2>1, <3>1, <3>2
    <3> QED
      BY <3>1, <3>3 DEF NoneKnew
  <2>3. status \in [backend : Backend, started : BOOLEAN] /\ status # None
    BY <2>2, <2>6, StatusAssumption DEF StatusInv, LoopOK, Ended
  <2>4. CASE pc = "observed"
    BY <2>3, <2>4 DEF StatusInv, LoopOK
  <2>5. CASE pc = "only"
    <3>1. k = 1
      BY <2>1, <2>5 DEF StatusInv, LoopOK
    <3> QED
      BY <2>3, <2>5, <3>1 DEF StatusInv, LoopOK
  <2> QED
    BY <2>2, <2>4, <2>5, <2>6 DEF Ended
<1> QED
  BY <1>1, StatusInvariant, PTL
===========================================================================
