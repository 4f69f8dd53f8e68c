-------------------------------- MODULE Scan --------------------------------
(***************************************************************************)
(* How the wallet finds its Bitcoin: scan_account (chains/scan.py) with    *)
(* its thread pool, the probe address_info and the second look fetch_utxos *)
(* (chains/btc.py), and the list of coins that cli.py makes of them.  The  *)
(* chain moves on while the addresses are asked one after the other.       *)
(*                                                                         *)
(* An address is <<branch, index>>, its derivation path.  An amount is the *)
(* set of coins it is made of, so that "confirmed > 0" is "not empty".     *)
(***************************************************************************)
EXTENDS Integers, Sequences, FiniteSets

CONSTANTS
    Coin,       \* transaction outputs that pay the wallet, now or later
    Branches,   \* number of branches: receive and change (2)
    GapLimit,   \* DEFAULT_GAP_LIMIT (20)
    Window,     \* DEFAULT_WINDOW (10)
    Workers,    \* DEFAULT_WORKERS (5)
    MaxUsed,    \* bound: addresses from this index on are never used
    MaxIndex    \* bound on the index of the scan

VARIABLES
    coin,       \* the chain: where each coin is, and how far it has come
    held,       \* coins on the chain ever since the scan began (history)
    steady,     \* coins confirmed and unspent ever since (history)
    mined,      \* coins that were so at some moment since (history)
    pc,         \* "window", "probe", "count", "fetch", "done" or "failed"
    branch,     \* the loop's branch
    index,      \* first index of the window
    gap,        \* unused addresses in a row
    infos,      \* answers of the window: offset -> AddressInfo
    pos,        \* offset of the answer that is counted next
    found,      \* list of [path, info]
    cursor,     \* record of found whose coins are fetched next
    utxos       \* coins that may be spent: [coin, path]

history == <<held, steady, mined>>
env == <<coin, history>>
loop == <<branch, index, gap, infos, pos>>
vars == <<coin, history, pc, branch, index, gap, infos, pos, found, cursor, utxos>>

ASSUME ScanAssumption ==
    /\ Branches \in Nat \ {0} /\ GapLimit \in Nat \ {0}
    /\ Window \in Nat \ {0} /\ Workers \in Nat \ {0}
    /\ MaxUsed \in Nat /\ MaxIndex \in Nat
    /\ MaxIndex >= MaxUsed + GapLimit

---------------------------------------------------------------------------
\* The chain, as an Esplora server shows it

Addr == (0 .. Branches - 1) \X (0 .. MaxUsed - 1)

\* A coin is not there yet, waits in the mempool, is confirmed, is spent by a
\* transaction in the mempool, or by a confirmed one.
CoinType == [addr : Addr, st : {"none", "mempool", "confirmed", "spending", "spent"}]

At(a) == {c \in Coin : coin[c].addr = a /\ coin[c].st # "none"}
Confirmed(a) == {c \in At(a) : coin[c].st \in {"confirmed", "spending"}}

\* parse_address_info: history and confirmed balance of an address.
address_info(a) == [has_history |-> At(a) # {}, confirmed |-> Confirmed(a)]

\* Mutant: every output is taken, confirmed or not.
fetch_utxos_AnyStatus(a) == {c \in At(a) : coin[c].st \in {"mempool", "confirmed"}}

\* The unspent outputs that are explicitly marked confirmed.
fetch_utxos(a) == {c \in At(a) : coin[c].st = "confirmed"}

\* Where a coin can be next.  Besides the way from the mempool to the spent coins,
\* its transaction may be evicted or replaced while it waits, a transaction that
\* spends it likewise, and a reorganisation takes either out of its block.
After == [none |-> {"mempool"}, mempool |-> {"confirmed", "none"},
          confirmed |-> {"spending", "mempool"},
          spending |-> {"spent", "confirmed", "mempool"}, spent |-> {"spending"}]

\* Something happens to a coin.  The address of an output never changes.
Chain(c) ==
    /\ \E st \in After[coin[c].st] :
        /\ coin' = [coin EXCEPT ![c].st = st]
        /\ held' = IF st = "none" THEN held \ {c} ELSE held
        /\ mined' = IF st = "confirmed" THEN mined \cup {c} ELSE mined
    /\ steady' = steady \ {c}
    /\ UNCHANGED <<pc, loop, found, cursor, utxos>>

---------------------------------------------------------------------------
\* scan_account

\* Mutant: the gap is compared for equality.
Goes_NotEqual == gap # GapLimit

\* The condition of the while loop.
Goes == gap < GapLimit

\* There is another branch to scan.
MoreBranches == branch + 1 < Branches

\* while gap < gap_limit: derive the addresses of a window, hand them to the
\* pool; or take the next branch; or return.
StartWindow ==
    /\ pc = "window"
    /\ \/ /\ Goes /\ index < MaxIndex
          /\ pc' = "probe" /\ infos' = <<>> /\ pos' = 0
          /\ UNCHANGED <<branch, index, gap>>
       \/ /\ ~Goes /\ MoreBranches
          /\ branch' = branch + 1 /\ index' = 0 /\ gap' = 0
          /\ UNCHANGED <<pc, infos, pos>>
       \/ /\ ~Goes /\ ~MoreBranches
          /\ pc' = "fetch"
          /\ UNCHANGED <<branch, index, gap, infos, pos>>
    /\ UNCHANGED <<env, found, cursor, utxos>>

\* Probes not answered yet.  The pool starts them in order and runs at most
\* Workers of them at a time, so it is one of the first Workers of these.
Waiting == (0 .. Window - 1) \ DOMAIN infos
Running == {o \in Waiting : Cardinality({w \in Waiting : w < o}) < Workers}

\* A worker gets the answer for its address.
Probe(o) ==
    /\ pc = "probe" /\ o \in Running
    /\ infos' = [w \in DOMAIN infos \cup {o} |->
                    IF w = o THEN address_info(<<branch, index + o>>) ELSE infos[w]]
    /\ pc' = IF Waiting = {o} THEN "count" ELSE "probe"
    /\ UNCHANGED <<env, branch, index, gap, pos, found, cursor, utxos>>

\* An HTTP error of any probe comes out of list(pool.map(...)).
ProbeFails ==
    /\ pc = "probe"
    /\ pc' = "failed"
    /\ UNCHANGED <<env, loop, found, cursor, utxos>>

\* Mutant: an address without coins counts as unused.
Used_HasCoins(info) == info.confirmed # {}

Used(info) == info.has_history

\* Mutant: the next window begins with the last address of this one.
NextIndex_Overlap == IF Window = 1 THEN index + 1 ELSE index + Window - 1

NextIndex == index + Window

\* One round of the for loop over the answers.
Count ==
    /\ pc = "count"
    /\ IF Used(infos[pos])
       THEN /\ gap' = 0
            /\ found' = Append(found, [path |-> <<branch, index + pos>>, info |-> infos[pos]])
       ELSE gap' = gap + 1 /\ UNCHANGED found
    /\ IF pos + 1 < Window
       THEN pos' = pos + 1 /\ UNCHANGED <<pc, index>>
       ELSE pc' = "window" /\ index' = NextIndex /\ UNCHANGED pos
    /\ UNCHANGED <<env, branch, infos, cursor, utxos>>

---------------------------------------------------------------------------
\* The coins of the records

\* dataclasses.replace(u, path=path)
PathFor(k) == found[k].path

\* One round of the comprehension in _send_btc, _swap_from_btc and
\* _liquidity_btc: records with a confirmed balance are looked at again.
FetchUtxos ==
    /\ pc = "fetch"
    /\ IF cursor > Len(found)
       THEN pc' = "done" /\ UNCHANGED <<cursor, utxos>>
       ELSE /\ cursor' = cursor + 1
            /\ \/ /\ found[cursor].info.confirmed # {}
                  /\ \/ /\ utxos' = utxos \cup {[coin |-> c, path |-> PathFor(cursor)] :
                                            c \in fetch_utxos(found[cursor].path)}
                        /\ UNCHANGED pc
                     \/ pc' = "failed" /\ UNCHANGED utxos
               \/ /\ found[cursor].info.confirmed = {}
                  /\ UNCHANGED <<pc, utxos>>
    /\ UNCHANGED <<env, loop, found>>

---------------------------------------------------------------------------
Init ==
    /\ coin \in [Coin -> CoinType]
    /\ held = {c \in Coin : coin[c].st # "none"}
    /\ steady = {c \in Coin : coin[c].st = "confirmed"} /\ mined = steady
    /\ pc = "window" /\ branch = 0 /\ index = 0 /\ gap = 0
    /\ infos = <<>> /\ pos = 0 /\ found = <<>>
    /\ cursor = 1 /\ utxos = {}

Step == StartWindow \/ (\E o \in 0 .. Window - 1 : Probe(o)) \/ ProbeFails \/ Count
        \/ FetchUtxos

Next == Step \/ \E c \in Coin : Chain(c)

Spec == Init /\ [][Next]_vars

\* Every probe is answered or fails after its timeout (net.py).
FairSpec == Spec /\ WF_vars(Step)

---------------------------------------------------------------------------
\* Properties

InfoType == [has_history : BOOLEAN, confirmed : SUBSET Coin]
Path == (0 .. Branches - 1) \X Nat
RecordType == [path : Path, info : InfoType]

\* Types of the variables.
TypeOK ==
    /\ coin \in [Coin -> CoinType]
    /\ held \subseteq Coin /\ steady \subseteq Coin /\ mined \subseteq Coin
    /\ pc \in {"window", "probe", "count", "fetch", "done", "failed"}
    /\ branch \in 0 .. Branches - 1 /\ index \in Nat /\ gap \in Nat
    /\ DOMAIN infos \subseteq 0 .. Window - 1
    /\ \A o \in DOMAIN infos : infos[o] \in InfoType
    /\ pos \in 0 .. Window - 1
    /\ found \in Seq(RecordType)
    /\ cursor \in Nat \ {0}
    /\ utxos \subseteq [coin : Coin, path : Path]

\* The address has been in use ever since the scan began.
UsedThroughout(b, i) == \E c \in held : coin[c].addr = <<b, i>>

\* No GapLimit addresses in a row before <<b, i>> were without such a use.
WithinGap(b, i) ==
    \A j \in 0 .. i - GapLimit : \E k \in j .. j + GapLimit - 1 : UsedThroughout(b, k)

Seen(b, i) == \E k \in DOMAIN found : found[k].path = <<b, i>>

\* The scan is over, and it did not fail.
Scanned == pc \in {"fetch", "done"}

\* Whatever arrives or is undone meanwhile and however the probes interleave, every
\* address that is in use from the beginning of the scan on is found, unless a full
\* gap precedes it.
UsedAddressesFound ==
    Scanned => \A b \in 0 .. Branches - 1, i \in 0 .. MaxUsed - 1 :
                    UsedThroughout(b, i) /\ WithinGap(b, i) => Seen(b, i)

\* No address is reported twice: its balance would be counted twice and its coins
\* be spent twice in one transaction.
FoundOnce ==
    \A k, l \in DOMAIN found : found[k].path = found[l].path => k = l

\* Coins that are confirmed from the beginning of the scan to its end are there to
\* be spent.
StableCoinsListed ==
    pc = "done" => \A c \in steady :
        LET a == coin[c].addr
        IN  WithinGap(a[1], a[2]) => [coin |-> c, path |-> a] \in utxos

\* What is listed was confirmed and unspent at some moment of the scan, however it
\* came and went, and is to be signed with the key of its own address.
ListedCoinsSignable ==
    \A u \in utxos : u.coin \in mined /\ coin[u.coin].addr = u.path

\* The scan of a branch ends a window after the gap that follows the last address
\* in use, at the latest.
WorkBounded == index < MaxUsed + GapLimit + Window

\* The scan comes to an end.
Terminates == <>(pc \in {"done", "failed"})

---------------------------------------------------------------------------
\* What a comment says, and the code does not do

\* "Stops after gap_limit consecutive unused addresses" (scan.py scan_account).
StopsAfterGap ==
    \A k \in DOMAIN found :
        LET b == found[k].path[1]  i == found[k].path[2]
        IN  ~ \E j \in 0 .. i - GapLimit : \A l \in j .. j + GapLimit - 1 : ~Seen(b, l)
===========================================================================
