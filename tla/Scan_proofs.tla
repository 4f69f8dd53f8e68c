---------------------------- MODULE Scan_proofs ----------------------------
(***************************************************************************)
(* The properties of Scan for every gap limit, window, pool, number of     *)
(* branches and set of coins.                                              *)
(*                                                                         *)
(* The argument: a coin that has been on the chain ever since the scan     *)
(* began is there when its address is asked, so an answer without history  *)
(* means "not in use throughout".  Up to the frontier of the scan every    *)
(* address in use throughout is in the list, and the last gap addresses    *)
(* before it are not in use throughout; a branch is left only with a full  *)
(* gap behind it.  What is undone later only takes addresses away from     *)
(* those in use throughout, and each of these claims survives that.        *)
(***************************************************************************)
EXTENDS Scan, TLAPS

\* A window is counted once all its answers are in.
Complete ==
    /\ pc = "count" => DOMAIN infos = 0 .. Window - 1
    /\ pc = "probe" => pos = 0

Typed == TypeOK /\ Complete

USE ScanAssumption

\* What an answer is.
LEMMA InfoTyped == ASSUME NEW a PROVE address_info(a) \in InfoType
  BY DEF address_info, InfoType, Confirmed, At

\* The steps of the program and of the chain keep the types.
LEMMA TypedStep == Typed /\ [Next]_vars => Typed'
<1> SUFFICES ASSUME Typed, [Next]_vars PROVE Typed'
  OBVIOUS
<1> USE DEF Typed
<1>1. CASE StartWindow
  BY <1>1 DEF TypeOK, Complete, StartWindow, MoreBranches, env, history
<1>2. ASSUME NEW o \in 0 .. Window - 1, Probe(o) PROVE Typed'
  <2>1. /\ DOMAIN infos' = DOMAIN infos \cup {o}
        /\ \A w \in DOMAIN infos' : infos'[w] \in InfoType
    BY <1>2, InfoTyped DEF Probe, TypeOK
  <2>2. DOMAIN infos' \subseteq 0 .. Window - 1
    BY <1>2, <2>1 DEF TypeOK
  <2>3. TypeOK'
    BY <1>2, <2>1, <2>2 DEF TypeOK, Probe, env, history
  <2>4. Complete'
    BY <1>2, <2>1, <2>2 DEF TypeOK, Complete, Probe, Waiting
  <2> QED BY <2>3, <2>4
<1>3. CASE ProbeFails
  BY <1>3 DEF TypeOK, Complete, ProbeFails, env, history, loop
<1>4. CASE Count
  <2>1. UNCHANGED <<coin, held, steady, mined, branch, infos, cursor, utxos>>
    BY <1>4 DEF Count, env, history
  <2>2. /\ gap' \in Nat /\ index' \in Nat /\ pos' \in 0 .. Window - 1
        /\ pc' \in {"window", "count"}
    <3>1. gap' \in {0, gap + 1}
      BY <1>4 DEF Count
    <3>2. \/ pos + 1 < Window /\ pos' = pos + 1 /\ pc' = pc /\ index' = index
          \/ pc' = "window" /\ index' = index + Window /\ pos' = pos
      BY <1>4 DEF Count, NextIndex
    <3>3. gap \in Nat /\ index \in Nat /\ pos \in 0 .. Window - 1 /\ pc = "count"
      BY <1>4 DEF Count, TypeOK
    <3> QED BY <3>1, <3>2, <3>3
  <2>3. found' \in Seq(RecordType)
    <3> DEFINE r == [path |-> <<branch, index + pos>>, info |-> infos[pos]]
    <3>1. r \in RecordType
      <4>1. infos[pos] \in InfoType
        BY <1>4 DEF TypeOK, Complete, Count
      <4>2. <<branch, index + pos>> \in Path
        BY DEF TypeOK, Path
      <4> QED BY <4>1, <4>2 DEF RecordType
    <3>2. found' = Append(found, r) \/ found' = found
      BY <1>4 DEF Count
    <3> HIDE DEF r
    <3> QED BY <3>1, <3>2 DEF TypeOK
  <2>4. Complete'
    BY <1>4, <2>1, <2>2 DEF Complete, Count
  <2> QED BY <2>1, <2>2, <2>3, <2>4 DEF TypeOK
<1>5. CASE FetchUtxos
  <2>1. /\ UNCHANGED <<coin, held, steady, mined, branch, index, gap, infos, pos, found>>
        /\ pc' \in {"fetch", "done", "failed"}
        /\ cursor' \in Nat \ {0}
    BY <1>5 DEF FetchUtxos, env, history, loop, TypeOK
  <2>2. utxos' \subseteq [coin : Coin, path : Path]
    <3>1. cursor <= Len(found) => found[cursor].path \in Path
      <4>1. cursor <= Len(found) => found[cursor] \in RecordType
        BY DEF TypeOK
      <4> QED BY <4>1 DEF RecordType
    <3>2. cursor <= Len(found) => \A c \in fetch_utxos(found[cursor].path) :
            [coin |-> c, path |-> PathFor(cursor)] \in [coin : Coin, path : Path]
      BY <3>1 DEF fetch_utxos, At, PathFor
    <3> QED BY <1>5, <3>2 DEF FetchUtxos, TypeOK
  <2> QED BY <2>1, <2>2 DEF TypeOK, Complete
<1>6. ASSUME NEW c \in Coin, Chain(c) PROVE Typed'
  <2>1. PICK st \in After[coin[c].st] : coin' = [coin EXCEPT ![c].st = st]
    BY <1>6 DEF Chain
  <2>2. coin[c] \in CoinType /\ st \in {"none", "mempool", "confirmed", "spending", "spent"}
    BY <2>1 DEF TypeOK, After, CoinType
  <2>3. coin' \in [Coin -> CoinType]
    BY <2>1, <2>2 DEF TypeOK, CoinType
  <2>4. held' \subseteq Coin /\ steady' \subseteq Coin /\ mined' \subseteq Coin
    BY <1>6 DEF Chain, TypeOK
  <2>5. UNCHANGED <<pc, branch, index, gap, infos, pos, found, cursor, utxos>>
    BY <1>6 DEF Chain, loop
  <2> QED BY <2>3, <2>4, <2>5 DEF TypeOK, Complete
<1>7. CASE UNCHANGED vars
  BY <1>7 DEF TypeOK, Complete, vars, history
<1> QED BY <1>1, <1>2, <1>3, <1>4, <1>5, <1>6, <1>7 DEF Next, Step

LEMMA TypedAlways == Spec => []Typed
<1>1. Init => Typed
  BY DEF Init, Typed, TypeOK, Complete, Path, InfoType
<1> QED BY <1>1, TypedStep, PTL DEF Spec

\* Every variable keeps its type; in particular the windows of answers are complete
\* when they are counted, so no index is out of range.
THEOREM TypeCorrect == Spec => []TypeOK
<1>1. Typed => TypeOK
  BY DEF Typed
<1> QED BY <1>1, TypedAlways, PTL

---------------------------------------------------------------------------
\* What the scan knows

Scanning == pc \in {"window", "probe", "count"}

\* The addresses of the branch that have been counted lie below this index.
Frontier == index + (IF pc = "count" THEN pos ELSE 0)

\* What the history says of the coins as they are now.
HistoryKept ==
    /\ \A c \in held : coin[c].st # "none"
    /\ \A c \in steady : c \in held /\ coin[c].st = "confirmed"

\* An answer knows the uses that last, and none where none can be.
AnswersTrue ==
    pc \in {"probe", "count"} => \A o \in DOMAIN infos :
        /\ UsedThroughout(branch, index + o) => infos[o].has_history
        /\ infos[o].has_history => index + o < MaxUsed

\* The last gap addresses are not in use throughout, and the gap counts every
\* address from MaxUsed on.
GapTrue ==
    Scanning =>
        /\ gap <= Frontier /\ Frontier <= MaxUsed + gap
        /\ \A i \in Frontier - gap .. Frontier - 1 : ~UsedThroughout(branch, i)

Covered(b, n) == \A i \in 0 .. n - 1 : UsedThroughout(b, i) => Seen(b, i)

\* A branch that has been left.
Settled(b) ==
    \E n \in GapLimit .. MaxUsed + GapLimit + Window - 1 :
        /\ Covered(b, n)
        /\ \A i \in n - GapLimit .. n - 1 : ~UsedThroughout(b, i)

Coverage ==
    /\ Scanning => Covered(branch, Frontier)
    /\ \A b \in 0 .. Branches - 1 :
        Scanned \/ (Scanning /\ b < branch) => Settled(b)

Reach ==
    /\ WorkBounded
    /\ pc \in {"probe", "count"} => index < MaxUsed + GapLimit

ScanInv == Typed /\ HistoryKept /\ AnswersTrue /\ GapTrue /\ Coverage /\ Reach

\* The chain moves no coin to another address, and gives none a longer history.
LEMMA ChainKeeps ==
  ASSUME TypeOK, NEW c \in Coin, Chain(c)
  PROVE  /\ \A d \in Coin : coin'[d].addr = coin[d].addr
         /\ held' \subseteq held /\ steady' \subseteq steady /\ mined \subseteq mined'
<1>1. PICK st : coin' = [coin EXCEPT ![c].st = st]
  BY DEF Chain
<1>2. \A d \in Coin : coin'[d].addr = coin[d].addr
  BY <1>1 DEF TypeOK, CoinType
<1> QED BY <1>2 DEF Chain

\* Records are only appended, so what has been seen stays seen.
LEMMA SeenKept ==
  ASSUME TypeOK, found' = found \/ \E r : found' = Append(found, r)
  PROVE  \A b, i : Seen(b, i) => Seen(b, i)'
<1>1. found \in Seq(RecordType)
  BY DEF TypeOK
<1>2. \A k \in DOMAIN found : k \in DOMAIN found' /\ found'[k] = found[k]
  BY <1>1
<1> QED BY <1>2 DEF Seen

\* Nothing of the scan's knowledge is lost when the list grows.
LEMMA SettledKept ==
  ASSUME TypeOK, found' = found \/ \E r : found' = Append(found, r), held' = held, coin' = coin,
         NEW b, Settled(b)
  PROVE  Settled(b)'
<1>1. \A c, i : Seen(c, i) => Seen(c, i)'
  BY SeenKept
<1>2. \A c, i : UsedThroughout(c, i)' = UsedThroughout(c, i)
  BY DEF UsedThroughout
<1> QED BY <1>1, <1>2 DEF Settled, Covered

\* A probe answers for an address as the chain is then.
LEMMA ProbeTrue ==
  ASSUME TypeOK, HistoryKept, NEW i \in Nat
  PROVE  /\ UsedThroughout(branch, i) => address_info(<<branch, i>>).has_history
         /\ address_info(<<branch, i>>).has_history => i < MaxUsed
<1>1. ASSUME UsedThroughout(branch, i) PROVE At(<<branch, i>>) # {}
  BY <1>1 DEF UsedThroughout, At, HistoryKept, TypeOK
<1>2. ASSUME NEW c \in At(<<branch, i>>) PROVE i < MaxUsed
  <2>1. coin[c].addr = <<branch, i>> /\ coin[c].addr \in Addr
    BY <1>2 DEF At, TypeOK, CoinType
  <2> QED BY <2>1 DEF Addr
<1> QED BY <1>1, <1>2 DEF address_info

LEMMA ScanStep == ScanInv /\ [Next]_vars => ScanInv'
<1> SUFFICES ASSUME ScanInv, [Next]_vars PROVE ScanInv'
  OBVIOUS
<1>0. Typed'
  BY TypedStep DEF ScanInv
<1> USE DEF ScanInv
<1>1. CASE StartWindow
  <2>1. UNCHANGED <<coin, held, steady, mined, found>> /\ pc = "window"
    BY <1>1 DEF StartWindow, env, history
  <2>2. /\ HistoryKept'
        /\ \A b, i : UsedThroughout(b, i)' = UsedThroughout(b, i)
        /\ \A b, n : Covered(b, n)' = Covered(b, n)
        /\ \A b : Settled(b)' = Settled(b)
    BY <2>1 DEF HistoryKept, UsedThroughout, Covered, Settled, Seen
  <2>3. CASE Goes /\ index < MaxIndex
    <3>1. /\ pc' = "probe" /\ infos' = <<>> /\ pos' = 0
          /\ UNCHANGED <<branch, index, gap>>
      BY <1>1, <2>3 DEF StartWindow
    <3>2. Frontier' = Frontier /\ Scanning /\ Scanning' /\ ~Scanned /\ ~Scanned'
      BY <2>1, <3>1 DEF Frontier, Scanning, Scanned
    <3>3. AnswersTrue'
      BY <3>1 DEF AnswersTrue
    <3>4. GapTrue'
      BY <2>2, <3>1, <3>2 DEF GapTrue
    <3>5. Coverage'
      BY <2>2, <3>1, <3>2 DEF Coverage
    <3>6. Reach'
      BY <2>1, <2>3, <3>1, <3>2 DEF Reach, WorkBounded, Goes, GapTrue, Frontier, Typed, TypeOK
    <3> QED BY <1>0, <2>2, <3>3, <3>4, <3>5, <3>6
  <2>4. CASE ~Goes
    <3>1. Settled(branch)
      <4>1. Frontier = index /\ Scanning
        BY <2>1 DEF Frontier, Scanning, Typed, TypeOK
      <4>2. index \in GapLimit .. MaxUsed + GapLimit + Window - 1
        BY <2>4, <4>1 DEF Goes, GapTrue, Reach, WorkBounded, Typed, TypeOK
      <4>3. \A i \in index - GapLimit .. index - 1 : ~UsedThroughout(branch, i)
        BY <2>4, <4>1, <4>2 DEF Goes, GapTrue, Typed, TypeOK
      <4>4. Covered(branch, index)
        BY <4>1 DEF Coverage
      <4> QED BY <4>2, <4>3, <4>4 DEF Settled
    <3>2. CASE MoreBranches
      <4>1. branch' = branch + 1 /\ index' = 0 /\ gap' = 0 /\ UNCHANGED <<pc, infos, pos>>
        BY <1>1, <2>4, <3>2 DEF StartWindow, MoreBranches
      <4>2. Frontier' = 0 /\ Scanning /\ Scanning' /\ ~Scanned'
        BY <2>1, <4>1 DEF Frontier, Scanning, Scanned
      <4>3. AnswersTrue' /\ Reach'
        BY <2>1, <4>1 DEF AnswersTrue, Reach, WorkBounded
      <4>4. GapTrue'
        BY <4>1, <4>2 DEF GapTrue
      <4>5. Coverage'
        <5>1. Covered(branch, Frontier)'
          BY <4>2 DEF Covered
        <5>2. \A b \in 0 .. Branches - 1 : b < branch' => b < branch \/ b = branch
          BY <4>1 DEF Typed, TypeOK
        <5>3. \A b \in 0 .. Branches - 1 : b < branch' => Settled(b)'
          BY <2>2, <3>1, <4>2, <5>2 DEF Coverage
        <5> QED BY <4>2, <5>1, <5>3 DEF Coverage
      <4> QED BY <1>0, <2>2, <4>3, <4>4, <4>5
    <3>3. CASE ~MoreBranches
      <4>1. pc' = "fetch" /\ UNCHANGED <<branch, index, gap, infos, pos>>
        BY <1>1, <2>4, <3>3 DEF StartWindow, MoreBranches
      <4>2. AnswersTrue' /\ GapTrue' /\ Reach'
        BY <4>1 DEF AnswersTrue, GapTrue, Reach, WorkBounded, Scanning
      <4>3. \A b \in 0 .. Branches - 1 : b < branch \/ b = branch
        BY <3>3 DEF MoreBranches, Typed, TypeOK
      <4>4. Coverage'
        BY <2>1, <2>2, <3>1, <4>1, <4>3 DEF Coverage, Scanning
      <4> QED BY <1>0, <2>2, <4>2, <4>4
    <3> QED BY <3>2, <3>3
  <2> QED BY <1>1, <2>3, <2>4 DEF StartWindow
<1>2. ASSUME NEW o \in 0 .. Window - 1, Probe(o) PROVE ScanInv'
  <2>1. /\ UNCHANGED <<coin, held, steady, mined, branch, index, gap, pos, found>> /\ pc = "probe"
        /\ pc' \in {"probe", "count"}
    BY <1>2 DEF Probe, env, history
  <2>2. /\ HistoryKept'
        /\ \A b, i : UsedThroughout(b, i)' = UsedThroughout(b, i)
        /\ \A b, n : Covered(b, n)' = Covered(b, n)
        /\ \A b : Settled(b)' = Settled(b)
    BY <2>1 DEF HistoryKept, UsedThroughout, Covered, Settled, Seen
  <2>3. Frontier' = Frontier /\ Scanning /\ Scanning' /\ ~Scanned /\ ~Scanned'
    BY <2>1 DEF Frontier, Scanning, Scanned, Typed, TypeOK, Complete
  <2>4. AnswersTrue'
    <3>1. /\ UsedThroughout(branch, index + o) =>
                address_info(<<branch, index + o>>).has_history
          /\ address_info(<<branch, index + o>>).has_history => index + o < MaxUsed
      BY ProbeTrue DEF Typed, TypeOK
    <3>2. /\ DOMAIN infos' = DOMAIN infos \cup {o}
          /\ infos'[o] = address_info(<<branch, index + o>>)
          /\ \A w \in DOMAIN infos : w # o => infos'[w] = infos[w]
      BY <1>2 DEF Probe
    <3> QED BY <2>1, <2>2, <3>1, <3>2 DEF AnswersTrue
  <2>5. GapTrue' /\ Coverage' /\ Reach'
    BY <2>1, <2>2, <2>3 DEF GapTrue, Coverage, Reach, WorkBounded
  <2> QED BY <1>0, <2>2, <2>4, <2>5
<1>3. CASE ProbeFails
  BY <1>0, <1>3 DEF ProbeFails, env, history, loop, HistoryKept, AnswersTrue, GapTrue, Coverage,
                    Reach, WorkBounded, Scanning, Scanned
<1>4. CASE Count
  <2>1. UNCHANGED <<coin, held, steady, mined, branch, infos>> /\ pc = "count"
    BY <1>4 DEF Count, env, history
  <2>2. pos \in DOMAIN infos
    BY <2>1 DEF Typed, TypeOK, Complete
  <2>3. /\ HistoryKept'
        /\ \A b, i : UsedThroughout(b, i)' = UsedThroughout(b, i)
    BY <2>1 DEF HistoryKept, UsedThroughout
  <2>4. found' = found \/ \E r : found' = Append(found, r)
    BY <1>4 DEF Count
  <2>5. \A b, i : Seen(b, i) => Seen(b, i)'
    BY <2>4, SeenKept DEF Typed
  <2>6. \A b : Settled(b) => Settled(b)'
    BY <2>1, <2>4, SettledKept DEF Typed
  <2>7. /\ Frontier = index + pos /\ Frontier' = index + pos + 1
        /\ pc' \in {"count", "window"}
        /\ index' \in {index, index + Window}
        /\ pc' = "count" => index' = index
    BY <1>4, <2>1 DEF Frontier, Count, NextIndex, Typed, TypeOK
  <2>8. Scanning /\ Scanning' /\ ~Scanned /\ ~Scanned'
    BY <2>1, <2>7 DEF Scanning, Scanned
  <2>9. AnswersTrue'
    BY <2>1, <2>3, <2>7 DEF AnswersTrue
  <2>10. Reach'
    BY <2>1, <2>7 DEF Reach, WorkBounded, Typed, TypeOK
  <2>11. CASE Used(infos[pos])
    <3>1. /\ gap' = 0
          /\ found' = Append(found, [path |-> <<branch, index + pos>>, info |-> infos[pos]])
      BY <1>4, <2>11 DEF Count
    <3>2. index + pos < MaxUsed
      BY <2>1, <2>2, <2>11 DEF AnswersTrue, Used
    <3>3. GapTrue'
      BY <2>7, <3>1, <3>2 DEF GapTrue, Typed, TypeOK
    <3>4. \A i : i = index + pos => Seen(branch, i)'
      <4> DEFINE r == [path |-> <<branch, index + pos>>, info |-> infos[pos]]
      <4>1. r.path = <<branch, index + pos>>
        OBVIOUS
      <4> HIDE DEF r
      <4>2. Len(found) + 1 \in DOMAIN Append(found, r) /\ Append(found, r)[Len(found) + 1] = r
        BY DEF Typed, TypeOK
      <4>3. found' = Append(found, r)
        BY <3>1 DEF r
      <4> QED BY <2>1, <4>1, <4>2, <4>3 DEF Seen
    <3>5. Covered(branch, Frontier)'
      BY <2>1, <2>3, <2>5, <2>7, <2>8, <3>4 DEF Coverage, Covered, Typed, TypeOK
    <3>6. Coverage'
      BY <2>1, <2>6, <2>8, <3>5 DEF Coverage
    <3> QED BY <1>0, <2>3, <2>9, <2>10, <3>3, <3>6
  <2>12. CASE ~Used(infos[pos])
    <3>1. gap' = gap + 1
      BY <1>4, <2>12 DEF Count
    <3>2. ~UsedThroughout(branch, index + pos)
      BY <2>1, <2>2, <2>12 DEF AnswersTrue, Used
    <3>3. GapTrue'
      BY <2>1, <2>3, <2>7, <2>8, <3>1, <3>2 DEF GapTrue, Typed, TypeOK
    <3>4. Covered(branch, Frontier)'
      BY <2>1, <2>3, <2>5, <2>7, <2>8, <3>2 DEF Coverage, Covered, Typed, TypeOK
    <3>5. Coverage'
      BY <2>1, <2>6, <2>8, <3>4 DEF Coverage
    <3> QED BY <1>0, <2>3, <2>9, <2>10, <3>3, <3>5
  <2> QED BY <2>11, <2>12
<1>5. CASE FetchUtxos
  <2>1. /\ UNCHANGED <<coin, held, steady, mined, branch, index, gap, infos, pos, found>>
        /\ pc = "fetch" /\ pc' \in {"fetch", "done", "failed"}
    BY <1>5 DEF FetchUtxos, env, history, loop
  <2>2. \A b : Settled(b)' = Settled(b)
    BY <2>1 DEF UsedThroughout, Covered, Settled, Seen
  <2> QED BY <1>0, <2>1, <2>2 DEF HistoryKept, AnswersTrue, GapTrue, Coverage,
                    Reach, WorkBounded, Scanning, Scanned
<1>6. ASSUME NEW c \in Coin, Chain(c) PROVE ScanInv'
  <2>1. UNCHANGED <<pc, branch, index, gap, infos, pos, found>>
    BY <1>6 DEF Chain, loop
  <2>2. HistoryKept'
    <3>1. PICK st \in After[coin[c].st] :
              /\ coin' = [coin EXCEPT ![c].st = st]
              /\ held' = IF st = "none" THEN held \ {c} ELSE held
      BY <1>6 DEF Chain
    <3>2. steady' = steady \ {c}
      BY <1>6 DEF Chain
    <3>3. \A d \in Coin : coin'[d].st = IF d = c THEN st ELSE coin[d].st
      BY <3>1 DEF Typed, TypeOK, CoinType
    <3> QED BY <3>1, <3>2, <3>3 DEF HistoryKept, Typed, TypeOK
  <2>3. \A b, i : UsedThroughout(b, i)' => UsedThroughout(b, i)
    BY <1>6, ChainKeeps DEF UsedThroughout, Typed, TypeOK
  <2>4. /\ \A b, n : Covered(b, n) => Covered(b, n)'
        /\ \A b : Settled(b) => Settled(b)'
    BY <2>1, <2>3 DEF Covered, Settled, Seen
  <2> QED BY <1>0, <2>1, <2>2, <2>3, <2>4 DEF AnswersTrue, GapTrue, Coverage,
                    Reach, WorkBounded, Scanning, Scanned, Frontier
<1>7. CASE UNCHANGED vars
  <2>1. /\ \A b, i : UsedThroughout(b, i)' = UsedThroughout(b, i)
        /\ \A b, n : Covered(b, n)' = Covered(b, n)
        /\ \A b : Settled(b)' = Settled(b)
    BY <1>7 DEF UsedThroughout, Covered, Settled, Seen, vars, history
  <2> QED BY <1>0, <1>7, <2>1 DEF vars, history, HistoryKept, AnswersTrue, GapTrue, Coverage,
                    Reach, WorkBounded, Scanning, Scanned, Frontier
<1> QED BY <1>1, <1>2, <1>3, <1>4, <1>5, <1>6, <1>7 DEF Next, Step

LEMMA ScanInvariant == Spec => []ScanInv
<1>1. Init => ScanInv
  <2> SUFFICES ASSUME Init PROVE ScanInv
    OBVIOUS
  <2>1. Typed
    BY DEF Init, Typed, TypeOK, Complete, Path, InfoType, RecordType
  <2>2. Frontier = 0 /\ ~Scanned /\ branch = 0
    BY DEF Init, Frontier, Scanned
  <2> QED BY <2>1, <2>2 DEF ScanInv, Init, HistoryKept, AnswersTrue, GapTrue, Coverage,
                    Covered, Reach, WorkBounded
<1> QED BY <1>1, ScanStep, PTL DEF Spec

\* Whatever arrives or is undone meanwhile and however the probes of a window
\* interleave, no address in use all the time is missed unless a full gap precedes it;
\* for every gap limit, window and pool (scan_account).
THEOREM NothingMissed == Spec => []UsedAddressesFound
<1>1. ScanInv => UsedAddressesFound
  <2> SUFFICES ASSUME ScanInv, Scanned, NEW b \in 0 .. Branches - 1,
                      NEW i \in 0 .. MaxUsed - 1, UsedThroughout(b, i), WithinGap(b, i)
               PROVE  Seen(b, i)
    BY DEF UsedAddressesFound
  <2>1. PICK n \in GapLimit .. MaxUsed + GapLimit + Window - 1 :
          /\ Covered(b, n)
          /\ \A k \in n - GapLimit .. n - 1 : ~UsedThroughout(b, k)
    BY DEF ScanInv, Coverage, Settled
  <2>2. CASE i < n
    BY <2>1, <2>2 DEF Covered
  <2>3. CASE i >= n
    <3>1. n - GapLimit \in 0 .. i - GapLimit
      BY <2>3
    <3>2. PICK k \in n - GapLimit .. (n - GapLimit) + GapLimit - 1 : UsedThroughout(b, k)
      BY <3>1 DEF WithinGap
    <3> QED BY <2>1, <3>2
  <2> QED BY <2>2, <2>3
<1> QED BY <1>1, ScanInvariant, PTL

\* The scan of a branch stops a window after the gap that follows the last used
\* address, at the latest (scan_account's while loop).
THEOREM WorkIsBounded == Spec => []WorkBounded
<1>1. ScanInv => WorkBounded
  BY DEF ScanInv, Reach
<1> QED BY <1>1, ScanInvariant, PTL

---------------------------------------------------------------------------
\* The list of records

\* Everything in the list lies behind the frontier.
Behind(a) == \/ a[1] < branch
             \/ a[1] = branch /\ a[2] < Frontier

ListInv == FoundOnce /\ \A k \in DOMAIN found : Behind(found[k].path)

\* Paths in the list are pairs of numbers.
LEMMA PathTyped ==
  ASSUME TypeOK, NEW k \in DOMAIN found
  PROVE  found[k].path \in Path /\ found[k].path[1] \in Int /\ found[k].path[2] \in Int
<1>1. found[k] \in RecordType
  BY DEF TypeOK
<1>2. found[k].path \in Path
  BY <1>1 DEF RecordType
<1> QED BY <1>2 DEF Path

LEMMA ListStep == ScanInv /\ ListInv /\ [Next]_vars => ListInv'
<1> SUFFICES ASSUME ScanInv, ListInv, [Next]_vars PROVE ListInv'
  OBVIOUS
<1> USE DEF ScanInv
<1>1. CASE StartWindow
  <2>1. UNCHANGED found /\ pc = "window"
    BY <1>1 DEF StartWindow
  <2>2. \/ branch' = branch + 1
        \/ branch' = branch /\ index' = index /\ pc' \in {"probe", "fetch"}
    BY <1>1 DEF StartWindow
  <2>3. branch' > branch \/ (branch' = branch /\ Frontier' = Frontier)
    BY <2>1, <2>2 DEF Frontier, Typed, TypeOK
  <2>4. \A k \in DOMAIN found : Behind(found[k].path)'
    <3> SUFFICES ASSUME NEW k \in DOMAIN found PROVE Behind(found[k].path)'
      OBVIOUS
    <3>1. found[k].path[1] \in Int /\ found[k].path[2] \in Int
      BY PathTyped DEF Typed
    <3>2. Behind(found[k].path) /\ branch \in Int /\ (branch' = branch + 1 \/ branch' = branch)
      BY <2>2 DEF ListInv, Typed, TypeOK
    <3>3. CASE branch' = branch + 1
      BY <2>1, <3>1, <3>2, <3>3 DEF Behind, ListInv, Typed, TypeOK
    <3>4. CASE branch' = branch
      BY <2>1, <2>2, <2>3, <3>4 DEF Behind, ListInv, Typed, TypeOK
    <3> QED BY <2>2, <3>3, <3>4
  <2> QED BY <2>1, <2>4 DEF ListInv, FoundOnce
<1>2. CASE Count
  <2>1. pc = "count" /\ branch' = branch
    BY <1>2 DEF Count
  <2>2. Frontier = index + pos /\ Frontier' = index + pos + 1
    <3>1. \/ pos' = pos + 1 /\ pc' = "count" /\ index' = index
          \/ pc' = "window" /\ index' = index + Window /\ pos + 1 = Window
      BY <1>2 DEF Count, NextIndex, Typed, TypeOK
    <3>2. index \in Int /\ pos \in Int
      BY DEF Typed, TypeOK
    <3> QED BY <2>1, <3>1, <3>2 DEF Frontier
  <2>3. \A k \in DOMAIN found : Behind(found[k].path) /\ found[k].path \in Path
    BY PathTyped DEF ListInv, Typed
  <2>4. \A a \in Path : Behind(a) =>
            /\ a[1] < branch \/ (a[1] = branch /\ a[2] < Frontier')
            /\ a # <<branch, index + pos>>
    BY <2>2 DEF Behind, Path, Typed, TypeOK
  <2>5. CASE found' = found
    BY <2>1, <2>3, <2>4, <2>5 DEF ListInv, FoundOnce, Behind
  <2>6. ASSUME NEW r, r.path = <<branch, index + pos>>, found' = Append(found, r)
        PROVE  ListInv'
    <3>1. /\ DOMAIN found' = DOMAIN found \cup {Len(found) + 1}
          /\ Len(found) + 1 \notin DOMAIN found
          /\ found'[Len(found) + 1] = r
          /\ \A k \in DOMAIN found : found'[k] = found[k]
      <4>1. found \in Seq(RecordType)
        BY DEF Typed, TypeOK
      <4> QED BY <2>6, <4>1
    <3>2. FoundOnce'
      <4>1. \A k \in DOMAIN found : found[k].path # r.path
        BY <2>3, <2>4, <2>6
      <4> SUFFICES ASSUME NEW k \in DOMAIN found', NEW l \in DOMAIN found',
                          found'[k].path = found'[l].path
                   PROVE  k = l
        BY DEF FoundOnce
      <4> QED BY <3>1, <4>1 DEF ListInv, FoundOnce
    <3>3. \A k \in DOMAIN found : found[k].path[1] < branch
              \/ (found[k].path[1] = branch /\ found[k].path[2] < Frontier')
      BY <2>3, <2>4
    <3>4. r.path[1] = branch /\ r.path[2] < Frontier'
      BY <2>2, <2>6 DEF Typed, TypeOK
    <3>5. \A k \in DOMAIN found' : Behind(found[k].path)'
      BY <2>1, <3>1, <3>3, <3>4 DEF Behind
    <3> QED BY <3>2, <3>5 DEF ListInv
  <2>7. found' = found \/ \E r : r.path = <<branch, index + pos>> /\ found' = Append(found, r)
    <3> DEFINE r == [path |-> <<branch, index + pos>>, info |-> infos[pos]]
    <3>1. r.path = <<branch, index + pos>>
      OBVIOUS
    <3>2. found' = found \/ found' = Append(found, r)
      BY <1>2 DEF Count
    <3> HIDE DEF r
    <3> QED BY <3>1, <3>2
  <2> QED BY <2>5, <2>6, <2>7
<1>3. CASE \/ \E o \in 0 .. Window - 1 : Probe(o)
           \/ ProbeFails \/ FetchUtxos \/ (\E c \in Coin : Chain(c)) \/ UNCHANGED vars
  <2>1. UNCHANGED <<branch, index, pos, found>> /\ (pc = "count" => pc' = "count")
        /\ (pc' = "count" => pc = "count" \/ pc = "probe")
    BY <1>3 DEF Probe, ProbeFails, FetchUtxos, Chain, vars, env, history, loop
  <2>2. Frontier' = Frontier
    BY <2>1 DEF Frontier, Typed, TypeOK, Complete
  <2> QED BY <2>1, <2>2 DEF ListInv, FoundOnce, Behind
<1> QED BY <1>1, <1>2, <1>3 DEF Next, Step

\* No address is found twice, so no coin is listed twice in one transaction and no
\* balance is counted twice (scan_account).
THEOREM EachAddressOnce == Spec => []FoundOnce
<1>1. Init => ListInv
  BY DEF Init, ListInv, FoundOnce
<1>2. ListInv => FoundOnce
  BY DEF ListInv
<1> QED BY <1>1, <1>2, ListStep, ScanInvariant, PTL DEF Spec

---------------------------------------------------------------------------
\* The coins

\* A coin that is confirmed and unspent is known to have been so.
MinedTrue == \A c \in Coin : coin[c].st = "confirmed" => c \in mined

\* What is listed is the address' own, and was confirmed and unspent during the scan,
\* whatever evictions and reorganisations happen (fetch_utxos).
THEOREM ListedSignable == Spec => []ListedCoinsSignable
<1>1. Init => ListedCoinsSignable /\ MinedTrue
  BY DEF Init, ListedCoinsSignable, MinedTrue
<1>3. Typed /\ MinedTrue /\ [Next]_vars => MinedTrue'
  <2> SUFFICES ASSUME Typed, MinedTrue, [Next]_vars PROVE MinedTrue'
    OBVIOUS
  <2>1. ASSUME NEW c \in Coin, Chain(c) PROVE MinedTrue'
    <3>1. PICK st \in After[coin[c].st] :
              /\ coin' = [coin EXCEPT ![c].st = st]
              /\ mined' = IF st = "confirmed" THEN mined \cup {c} ELSE mined
      BY <2>1 DEF Chain
    <3>2. \A d \in Coin : coin'[d].st = IF d = c THEN st ELSE coin[d].st
      BY <3>1 DEF Typed, TypeOK, CoinType
    <3> QED BY <3>1, <3>2 DEF MinedTrue
  <2>2. CASE UNCHANGED <<coin, mined>>
    BY <2>2 DEF MinedTrue
  <2> QED BY <2>1, <2>2
          DEF Next, Step, StartWindow, Probe, ProbeFails, Count, FetchUtxos, vars, env, history
<1>2. Typed /\ MinedTrue /\ ListedCoinsSignable /\ [Next]_vars => ListedCoinsSignable'
  <2> SUFFICES ASSUME Typed, MinedTrue, ListedCoinsSignable, [Next]_vars
               PROVE  ListedCoinsSignable'
    OBVIOUS
  <2>1. CASE FetchUtxos
    <3>1. coin' = coin /\ mined' = mined
      BY <2>1 DEF FetchUtxos, env, history
    <3>2. ASSUME NEW c \in fetch_utxos(found[cursor].path)
          PROVE  c \in mined /\ coin[c].addr = PathFor(cursor)
      BY <3>2 DEF fetch_utxos, At, PathFor, MinedTrue
    <3>3. \/ utxos' = utxos
          \/ utxos' = utxos \cup {[coin |-> c, path |-> PathFor(cursor)] :
                                    c \in fetch_utxos(found[cursor].path)}
      BY <2>1 DEF FetchUtxos
    <3> QED BY <3>1, <3>2, <3>3 DEF ListedCoinsSignable
  <2>2. ASSUME NEW c \in Coin, Chain(c) PROVE ListedCoinsSignable'
    <3>1. utxos' = utxos
      BY <2>2 DEF Chain
    <3>2. (\A d \in Coin : coin'[d].addr = coin[d].addr) /\ mined \subseteq mined'
      BY <2>2, ChainKeeps DEF Typed
    <3>3. \A u \in utxos : u.coin \in Coin
      BY DEF Typed, TypeOK
    <3> QED BY <3>1, <3>2, <3>3 DEF ListedCoinsSignable
  <2>3. CASE UNCHANGED <<coin, mined, utxos>>
    BY <2>3 DEF ListedCoinsSignable
  <2> QED BY <2>1, <2>2, <2>3
          DEF Next, Step, StartWindow, Probe, ProbeFails, Count, vars, env, history
<1> QED BY <1>1, <1>2, <1>3, TypedAlways, PTL DEF Spec

\* Answers and records know the stable coins of their address, and those of the
\* records that have been looked at again are listed.
CoinInv ==
    /\ Scanning => cursor = 1
    /\ pc = "done" => cursor > Len(found)
    /\ pc \in {"probe", "count"} => \A o \in DOMAIN infos, c \in steady :
          coin[c].addr = <<branch, index + o>> => c \in infos[o].confirmed
    /\ \A k \in DOMAIN found, c \in steady :
          coin[c].addr = found[k].path =>
              /\ c \in found[k].info.confirmed
              /\ k < cursor /\ pc # "failed" =>
                    [coin |-> c, path |-> found[k].path] \in utxos

LEMMA CoinStep == ScanInv /\ CoinInv /\ [Next]_vars => CoinInv'
<1> SUFFICES ASSUME ScanInv, CoinInv, [Next]_vars PROVE CoinInv'
  OBVIOUS
<1> USE DEF ScanInv
<1>1. CASE StartWindow
  <2>1. /\ UNCHANGED <<coin, held, steady, mined, found, cursor, utxos>> /\ pc = "window"
        /\ \/ pc' = "probe" /\ infos' = <<>>
           \/ pc' \in {"window", "fetch"}
    BY <1>1 DEF StartWindow, env, history
  <2> QED BY <2>1 DEF CoinInv, Scanning
<1>2. ASSUME NEW o \in 0 .. Window - 1, Probe(o) PROVE CoinInv'
  <2>1. /\ UNCHANGED <<coin, held, steady, mined, branch, index, found, cursor, utxos>> /\ pc = "probe"
        /\ pc' \in {"probe", "count"}
    BY <1>2 DEF Probe, env, history
  <2>3. /\ DOMAIN infos' = DOMAIN infos \cup {o}
        /\ infos'[o] = address_info(<<branch, index + o>>)
        /\ \A w \in DOMAIN infos : w # o => infos'[w] = infos[w]
    BY <1>2 DEF Probe
  <2>4. ASSUME NEW c \in steady, coin[c].addr = <<branch, index + o>>
        PROVE  c \in address_info(<<branch, index + o>>).confirmed
    BY <2>4 DEF HistoryKept, address_info, Confirmed, At, Typed, TypeOK
  <2> QED BY <2>1, <2>3, <2>4 DEF CoinInv, Scanning
<1>3. CASE ProbeFails
  <2>1. UNCHANGED <<coin, held, steady, mined, found, cursor, utxos>> /\ pc = "probe" /\ pc' = "failed"
    BY <1>3 DEF ProbeFails, env, history
  <2> QED BY <2>1 DEF CoinInv, Scanning
<1>4. CASE Count
  <2>1. /\ UNCHANGED <<coin, held, steady, mined, branch, infos, cursor, utxos>> /\ pc = "count"
        /\ pc' \in {"count", "window"}
        /\ pc' = "count" => index' = index
    BY <1>4 DEF Count, env, history
  <2>3. cursor = 1 /\ pos \in DOMAIN infos
    BY <2>1 DEF CoinInv, Scanning, Typed, TypeOK, Complete
  <2>4. ASSUME NEW r, found' = Append(found, r), r.path = <<branch, index + pos>>,
               r.info = infos[pos]
        PROVE  CoinInv'
    <3>1. /\ DOMAIN found' = DOMAIN found \cup {Len(found) + 1}
          /\ found'[Len(found) + 1] = r
          /\ Len(found) + 1 >= cursor
          /\ \A k \in DOMAIN found : found'[k] = found[k]
      <4>1. found \in Seq(RecordType)
        BY DEF Typed, TypeOK
      <4> QED BY <2>3, <2>4, <4>1
    <3>2. ASSUME NEW c \in steady, coin[c].addr = r.path
          PROVE  c \in r.info.confirmed
      BY <2>1, <2>3, <2>4, <3>2 DEF CoinInv
    <3>3. \A k \in DOMAIN found' : ~(k < cursor)
      BY <2>3, <3>1 DEF Typed, TypeOK
    <3> QED BY <2>1, <2>3, <3>1, <3>2, <3>3 DEF CoinInv, Scanning
  <2>5. CASE found' = found
    BY <2>1, <2>5 DEF CoinInv, Scanning
  <2>6. found' = found \/ \E r : /\ found' = Append(found, r)
                                 /\ r.path = <<branch, index + pos>> /\ r.info = infos[pos]
    <3> DEFINE r == [path |-> <<branch, index + pos>>, info |-> infos[pos]]
    <3>1. r.path = <<branch, index + pos>> /\ r.info = infos[pos]
      OBVIOUS
    <3>2. found' = found \/ found' = Append(found, r)
      BY <1>4 DEF Count
    <3> HIDE DEF r
    <3> QED BY <3>1, <3>2
  <2> QED BY <2>4, <2>5, <2>6
<1>5. CASE FetchUtxos
  <2>1. /\ UNCHANGED <<coin, held, steady, mined, found>> /\ pc = "fetch"
        /\ pc' \in {"fetch", "done", "failed"}
    BY <1>5 DEF FetchUtxos, env, history
  <2>3. CASE cursor > Len(found)
    <3>1. pc' = "done" /\ UNCHANGED <<cursor, utxos>>
      BY <1>5, <2>3 DEF FetchUtxos
    <3> QED BY <2>1, <2>3, <3>1 DEF CoinInv, Scanning
  <2>4. CASE cursor <= Len(found)
    <3>1. /\ cursor' = cursor + 1 /\ cursor \in DOMAIN found /\ pc' # "done"
          /\ utxos \subseteq utxos'
      BY <1>5, <2>1, <2>4 DEF FetchUtxos, Typed, TypeOK
    <3>2. ASSUME NEW c \in steady, coin[c].addr = found[cursor].path, pc' # "failed"
          PROVE  [coin |-> c, path |-> found[cursor].path] \in utxos'
      <4>1. found[cursor].info.confirmed # {}
        BY <3>1, <3>2 DEF CoinInv
      <4>2. c \in fetch_utxos(found[cursor].path)
        BY <3>2 DEF fetch_utxos, At, HistoryKept, Typed, TypeOK
      <4>3. utxos' = utxos \cup {[coin |-> d, path |-> PathFor(cursor)] :
                                    d \in fetch_utxos(found[cursor].path)}
        BY <1>5, <2>4, <3>2, <4>1 DEF FetchUtxos, Typed, TypeOK
      <4> QED BY <4>2, <4>3 DEF PathFor
    <3>3. \A k \in DOMAIN found : k < cursor' => k < cursor \/ k = cursor
      BY <3>1 DEF Typed, TypeOK
    <3> QED BY <2>1, <3>1, <3>2, <3>3 DEF CoinInv, Scanning
  <2> QED BY <2>3, <2>4 DEF Typed, TypeOK
<1>6. ASSUME NEW d \in Coin, Chain(d) PROVE CoinInv'
  <2>1. UNCHANGED <<pc, branch, index, infos, found, cursor, utxos>>
    BY <1>6 DEF Chain, loop
  <2>2. \A c \in steady' : c \in steady /\ coin'[c].addr = coin[c].addr
    BY <1>6, ChainKeeps DEF Typed, TypeOK
  <2> QED BY <2>1, <2>2 DEF CoinInv, Scanning
<1>7. CASE UNCHANGED vars
  BY <1>7 DEF vars, history, CoinInv, Scanning
<1> QED BY <1>1, <1>2, <1>3, <1>4, <1>5, <1>6, <1>7 DEF Next, Step

\* Coins that stay confirmed through the scan and its second look can be spent, if
\* their address is not behind a full gap (scan_account, then fetch_utxos).
THEOREM StableListed == Spec => []StableCoinsListed
<1>1. Init => CoinInv
  BY DEF Init, CoinInv, Scanning
<1>2. ScanInv /\ UsedAddressesFound /\ CoinInv => StableCoinsListed
  <2> SUFFICES ASSUME ScanInv, UsedAddressesFound, CoinInv, pc = "done", NEW c \in steady,
                      WithinGap(coin[c].addr[1], coin[c].addr[2])
               PROVE  [coin |-> c, path |-> coin[c].addr] \in utxos
    BY DEF StableCoinsListed
  <2> DEFINE a == coin[c].addr
  <2>1. a \in Addr
    BY DEF ScanInv, Typed, TypeOK, CoinType
  <2>2. a[1] \in 0 .. Branches - 1 /\ a[2] \in 0 .. MaxUsed - 1 /\ a = <<a[1], a[2]>>
    BY <2>1 DEF Addr
  <2>3. UsedThroughout(a[1], a[2])
    BY <2>2 DEF UsedThroughout, ScanInv, HistoryKept
  <2>4. WithinGap(a[1], a[2])
    OBVIOUS
  <2> HIDE DEF a
  <2>5. PICK k \in DOMAIN found : found[k].path = a
    <3>1. Seen(a[1], a[2])
      BY <2>2, <2>3, <2>4 DEF UsedAddressesFound, Scanned
    <3> QED BY <2>2, <3>1 DEF Seen
  <2>6. k < cursor
    BY <2>5 DEF CoinInv, ScanInv, Typed, TypeOK
  <2> QED BY <2>5, <2>6 DEF CoinInv, a
<1> QED BY <1>1, <1>2, CoinStep, ScanInvariant, NothingMissed, PTL DEF Spec
===========================================================================
