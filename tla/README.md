# A TLA+ model of cryptoswap-wallet

The wallet is a command line program. It keeps seeds in an encrypted keystore
and moves money: it sends coins, swaps them through THORChain or Maya, and adds
or withdraws liquidity there, from BTC, ETH (and ERC-20 tokens) and TRON (and
TRC-20 tokens). What it signs cannot be undone. This directory models the parts
in which money or keys could be lost, checks them with TLC on small instances,
and proves the most important properties with TLAPS for all instances.

## Inventory

| Part | State | Operations | What makes it hard |
|---|---|---|---|
| Spending commands (`cli.py`, `swap.py`, `liquidity.py`) | locals of one invocation: request, account data, quote, `Prepared` | `cmd_swap`, `cmd_send`, `cmd_add_liquidity`, `cmd_withdraw_liquidity`, `_confirm_and_execute`, `execute_swap` | a dozen network calls and a prompt between the first read and the last post; quotes expire; two invocations share an account without a lock; a post may be accepted and its answer lost |
| Verify gates (`verify.py`, `eth.py`) | none | ten gates | the last barrier: they compare what was built with what was intended, partly from the same inputs |
| Chain adapters (`chains/btc.py`, `eth.py`, `tron.py`) | HTTP clients | build, gate, sign, broadcast | unit conversions; approve + deposit; nonces; different error types |
| Coin selection (`chains/coins.py`) | none | `select_coins`, `sweep_amount`, size estimate | dust, fee and change limits |
| Address scan (`chains/scan.py`) | none | `scan_account` | windows against gap limit, probes in threads, a chain that moves meanwhile |
| Keystore (`keystore.py`, `cli.py`) | one file | `init`, `add-hd`, `add-raw`, loads by every other command | crashes while writing, load–modify–save without a lock, migration of version 1 files |
| Network client (`thorchain.py`, `net.py`) | HTTP sessions | quote, inbound addresses, mimir, status | answers change between calls |
| Backend selection (`backends.py`, `cli.py`) | none | `_select_backend`, `gather_quotes`, `best_quote` | some backends fail; a second quote follows the choice, on terms built elsewhere |
| Amounts (`cli.py`, `coins.py`, `eth.py`) | none | `_amount`, `_base_units`, `eth_sweep_amount`, `token_sweep_amount` | rounding between three units; fees that move after they were read |
| Destinations (`cli.py`, `addresses.py`) | none | `_load_mnemonic`, `address`, `_resolve_destination`, `validate_destination_address` | an address is derived now and spent from later, from a keystore that has changed |
| Reports (`cli.py`, BSC adapter, price feed) | none | `balance`, `status`, `quote` | many calls, each of which may fail and must not hide the others |

The parts interact by calls within an invocation. An invocation meets the rest
of the world in three places: the account on the source chain (nonce, coins,
router allowance), the swap network (status, quote), and the keystore file. No
two invocations are synchronised with each other.

The correctness properties that follow, and the lines at which each could go
wrong, are the list of hazards in `PROJECT.json`.

## Modules

* `Gates` – the ten gates, as predicates over decoded transactions.
* `SpendFlow` – one process per invocation of a spending command. Extends `Gates`.
* `MCSpendFlow` – the command lines that are run together.
* `Spending` – the abstract specification of a spending command, which
  `SpendFlow` instantiates and implements.
* `SpendFlow_proofs` – theorems about `SpendFlow`, the refinement of `Spending`
  among them.
* `Keystore` – the keystore file and its users; `MCKeystore` has the races of two
  invocations.
* `Destination`, `MCDestination` – which key a command selects and which addresses
  it derives. Extends `Keystore`: it is that module composed with the commands
  that read it, and its run checks both.
* `Keystore_proofs` – theorems about `Keystore` and `Destination`.
* `Scan`, `MCScan`, `Scan_proofs` – finding the wallet's Bitcoin.
* `Coins`, `MCCoins`, `Coins_proofs` – coin selection and sweeping.
* `Amounts`, `MCAmounts`, `Amounts_proofs` – amounts from `--amount` to the block.
* `Backends`, `MCBackends`, `Backends_proofs` – choosing a network.
* `Balance`, `MCBalance`, `Balance_proofs` and `Status`, `MCStatus`,
  `Status_proofs` – the two reports with control of their own.

### SpendFlow and Gates

Every call that waits for the network or the user ends a step, so an action is
the code between two such calls:

| Action | Code |
|---|---|
| `CmdStart` | `main`, the handler up to the first network call; usage errors |
| `ReadAccount` | `scan_account` + `fetch_utxos` + `fetch_fee_rate`, or `get_nonce` + `fetch_fees`; sweep amounts |
| `SelectBackend` | `_select_backend` |
| `ReadClock` | `now=int(time.time())`, evaluated before the calls below |
| `InboundAddresses`, `Mimir` | the first half of `prepare_swap` / `prepare_liquidity` |
| `QuoteSwap` | `quote_swap`, minimum amount and memo checks |
| `BuildAndVerify` | the adapters' `build_and_verify*`, builder and gate together |
| `Confirm`, `Prompt`, `ExecuteSwap` | `_confirm_and_execute`: problems, `--confirm`, `--yes`, the prompt, the second look at the clock, signing |
| `Broadcast` | one round of the adapters' `broadcast` loop |
| `Kill` | ^C, or a read that raises: `main` catches nothing |
| `Tick`, `NetworkChange`, `Accept`, `LateAccept` | the clock, the swap networks, the source chains (external) |

`ctx` holds what the invocation has learnt, `prepared` its `Prepared`. A memo is
the set of addresses that occur in it and whether it is longer than 80 bytes. A
transaction is what its call data or outputs decode to. Amounts are small
numbers with `Unit` and `WeiPerUnit` in the place of 100 and 10^10, so that
flooring and exact conversion both happen. The coins, fee and change of a BTC
transaction are arbitrary here; `Coins` says which.

A post ends in one of four ways. The node accepts the transaction, and the
answer arrives or is lost. It answers with an error. There is no answer and the
transaction may still be under way: the invocation, or one killed while posting,
joins `inflight`, and `LateAccept` may take the transaction at any later time. Or
an ETH node answers with a `result` of null, which `_rpc` does not tell from a
txid. `Reply` says which of the last three a configuration allows; the runs
allow all but null, which the code does not handle (see below).

The nodes accept an ETH transaction whose nonce is the next one and a BTC
transaction whose inputs are unspent. Replacing a pending transaction by one
with a higher fee is not modelled: the wallet never does it on purpose.

### Spending

`Spending` says what a user may rely on without knowing the program: a list of
transactions is fixed when the user consents; from the commitment on they land
in the order of the list, each once, none before its predecessors; "done" is
said exactly when the whole list has landed; once an invocation has stopped
nothing of it lands, except that one which gave up on a posted transaction
(`unsure`) may see that one land, and no other. The refinement mapping at the end of `SpendFlow` reads
`phase` off the program counter, `order` off `Prepared` between consent and the
end, and `landed` off the chain. `KeepsPromise` is `Spending`'s specification
under this mapping. What it excludes are bugs of several steps: going on after a
failed post, posting before the second look at the clock, posting again after a
lost answer.

### Keystore and Destination

A process is an invocation of `init`, `add-hd`/`add-raw` or a command that
reads. `_atomic_write` is four steps (`MakeTemp`, `Write`, `Fsync`, `Replace`).
`Fail` is any exception or ^C, `Kill` a SIGKILL, `PowerLoss` takes the path back
to what the directory on the disk says (`Flush` brings it up to date at an
arbitrary later time: the code syncs the file, not the directory) and truncates
data that was never synced. `overlapped`, `powerLost` and `original` are history
variables that only properties read.

`Destination` adds what a command does once it has read the keystore. An address
is the triple of secret, BIP-39 passphrase and path, so deriving without the
passphrase, or from another key, is another address. A typed destination is a
form (bech32, upper-case bech32, base58, hexadecimal, junk), since the patterns
of `addresses.py` tell little more apart.

### Scan and Coins

`Scan` is `scan_account` with its pool of workers: `StartWindow`, one `Probe` per
answer, in any order the pool allows, `Count` per answer in list order, then
`FetchUtxos` per record. `Chain` moves coins between any two steps: from nothing
to mempool, confirmed, spending and spent, and back, when a transaction is
evicted or replaced or a block is reorganised away (`After`). An amount is the
set of coins it consists of. Three history variables remember, since the scan
began, which coins were on the chain all the time (`held`), which were confirmed
and unspent all the time (`steady`) and which were so at some time (`mined`); the
properties promise something about the first two and demand the third of what is
listed.

One round of `select_coins`' loop is `Take`, its end `RunOut`; `Sweep` is
`sweep_amount` with the memo length each caller passes. The sizes are the
program's own numbers; fee rates are tenths of a satoshi. The transaction that is
built need not have the estimated size: the payee's output depends on the type of
its address (`PayeeVB`), which the estimate takes for P2WPKH, and a memo of 76
bytes or more takes a longer push. `FeeNearItsRate` says how much of the rate is
paid for the built size, nine tenths at least; `Coins_fee.cfg` shows that it is
not all of it.

### Amounts

A typed amount is an integer number of 10^-`Frac` base units; `Scaled` rounds to
the `Prec` digits of a Decimal, `_base_units` half-even to an integer. The
command then reads fees and balance, converts, passes the gate's cap and posts,
while `BaseFeeMoves` and `PaymentArrives` act. A token transaction is paid for in
the chain's own coin (`coin`), of which the program only warns: an ETH node
rejects it when the coin does not cover the worst case, a TRON node may also take
it and let it run out of energy, and then the fee is gone and the tokens stay
("reverted"). Other invocations that spend from
the same account are `SpendFlow`'s subject, not this module's.

### Backends, Balance, Status

One action per call to a network. A backend is up, down, or answers with a body
that lacks a field (`garbled`); pools move between the calls. `Backends` keeps
the terms that each round of quotes asks for, the open sessions, and which pools
have moved (`moved`). A backend may quote a swap from a chain that it does not
trade: the flag `tradable` belongs to the answer of `inbound_addresses`, which
`prepare_swap` asks for before its own quote (`Inbound`). `Balance` is
the three nested loops of the command; its history variables record which
addresses were covered and which step crashed. An empty pool has the price
0.0, at which `LiquidityPosition.format` counts the protocol's side as nothing,
and depths that are no numbers are a traceback. `Status` keeps what each network has observed, which
of them were up all along, and which answer with a body that is no object
(`garbled`), which is a traceback.

What a network computes (its prices, refusals and pools) is external: arbitrary
within the sets of the MC modules.

## Runs

| Run | Shows |
|---|---|
| `one_invocation` | every command line, chain, flag and kind of quote: nothing reaches a chain unless it was confirmed and passed its gate (`Authorised`); payments go to the intended address in the intended amount (`OnlyIntendedPayments`); deposits name the destination (`DepositNamesDestination`); fees stay below the cap (`FeeCapped`); nothing is signed after its quote expired (`FreshWhenSigned`); the final message tells what happened (`OutcomeHonest`); every invocation ends (`Terminates`); `SpendFlow` implements `Spending` (`KeepsPromise`) |
| `two_eth_invocations` | two token swaps or sends on one account, in any interleaving, with lost answers, kills and posts that arrive late: a deposit only follows its own approve and no nonce is skipped (`NoNonceGap`); the router's allowance is what the last transaction leaves (`ResidualAllowanceExact`) |
| `keystore` | three invocations that create, add, read and derive addresses, on a missing keystore or one of version 1 or 2 with a raw key before the HD key, with kills and power losses: the file is never truncated (`Intact`), labels stay unique (`LabelsUnique`), keys stay (`OriginalKeysKept`, `SoloAdditionsKept`), and funds at an address the wallet showed or derived stay spendable with the same `--key` (`FundsStaySpendable`) |
| `scan` | two coins anywhere on two branches that come, go and come back, two workers: `UsedAddressesFound`, `FoundOnce`, `StableCoinsListed`, `ListedCoinsSignable`, and the scan ends (`WorkBounded`, `Terminates`) |
| `amounts` | typed amounts at every rounding limit and sweeps of every asset: `CloseToTyped`, `SweepComplete`, `SweepAffordable`, `FeeWithinCap` |
| `backends` | two networks that move once: the quote shown is the best of the pools that have not moved (`BestOfAll`) and no worse than what the choice was made on (`OfferKept`), a command is refused only for a cause (`RefusedForCause`), clients are closed (`SessionsClosed`) |
| `balance` | two chains, two networks, two addresses, every failure: `EveryChainReported`, `PositionsAccounted`, `PricedByOwnPool` |
| `status` | two networks that change three times: `ObservedReported` |
| `coin_selection` | three coins around every limit: `Balanced`, `OverpayBounded`, `FewestCoins`, `FeeNearItsRate` |

Three more runs are expected to end in a violation. Each checks one sentence of
the repository that the code does not keep; `findings` in `PROJECT.json` quotes it.

| Run | Sentence | What happens |
|---|---|---|
| `broadcast_failed` | BroadcastError: "rejected by the network/node" | also printed when the transaction was accepted and the answer was lost; a user who repeats the command pays twice |
| `zero_payment` | an amount of zero "can never reach a tx" | tokens with 6 decimals floor to 0 |
| `concurrent_add` | "the new seed is stored ENCRYPTED in the keystore" | the later of two overlapping saves drops the other's key |

### Further disagreements

Smaller ones have no run in `PROJECT.json`, only a configuration that leads TLC
to a counterexample (`tlc -config <configuration> <MC module>`).

| Configuration, property | Sentence | What happens |
|---|---|---|
| `SpendFlow_vault.cfg`, `VaultCrossChecked` | `swap.py:218` "A swap cross-checks the vault against an independent quote" | the vault of the quote is used without a comparison |
| `SpendFlow_usdt.cfg`, `ResidualAllowanceExact` | `cli.py:887` "an exact-amount allowance to the router remains" | with USDT the second approve reverts and the older allowance remains |
| `SpendFlow_null.cfg`, `OutcomeHonest` | `cli.py:765` prints "BROADCAST txid:" | a JSON-RPC result of null is printed as the txid None, and the deposit follows an approve that nobody took |
| `SpendFlow_tron.cfg`, `NoTracebackAfterSigning` | `swap.py:55` "a clean message instead of leaking a traceback" | transport errors of tronpy are not caught |
| `Keystore_init.cfg`, `OverwriteNeedsForce` | `cli.py:166` "already exists; use --force to overwrite" | the check precedes the passphrase prompt |
| `Coins_fee.cfg`, `FeeNeverUnderestimated` | `coins.py:97` "so the fee is never underestimated" | from 76 bytes on the push takes one byte more than estimated |
| `Scan_gap.cfg`, `StopsAfterGap` | `scan.py:39` "Stops after `gap_limit` consecutive unused addresses" | the gap is compared between windows, so a scan may go on; it finds more, never less |
| `Backends_terms.cfg`, `SameTerms` | `docs/streaming.md:33` "selects on the same streamed price" | `--stream-quantity` alone is dropped from the first round of quotes |
| `Backends_halted.cfg`, `HaltedDropped` | `backends.py:58` "drop ones that can't serve this swap (no pool, halted, ...)" | a backend that quotes but does not trade the source chain is chosen, and the swap aborts although the other could serve |
| `Backends_feed.cfg`, `FeedNeverFatal` | `cli.py:459` "Never raises: a feed failure drops it" | a price of null is a TypeError |
| `Balance_token.cfg`, `TokenFailureContained` | `cli.py:298` "does not sink the rest of the `balance` output" | a JSON-RPC result of null is a TypeError |
| `Status_down.cfg`, `FellMeansUnobserved` | `cli.py:1266` "Not observed on any backend yet" | also reached when the backend that observed it is down |
| `Destination_typed.cfg`, `ValidNeverRejected` | `addresses.py:7` "a valid address is never rejected" | upper-case bech32 is |

### Bounds

* One invocation is enough for the properties of a single invocation: the
  others can only change the account between its steps, which `Fee`, `Balance`
  and the nondeterministic answers of the nodes already do; the proofs confirm
  it for any number. `MaxTime = 2` with quotes that live 0 or 2 seconds lets a
  quote arrive expired, expire at the prompt, and survive. `Fee = {1, 3}` with
  `MaxFee = 4` makes two single fees pass and their sum fail. `Unit = 2` with
  amounts 3 and 4 has a remainder and none.
* Two invocations with up to two transactions each produce every order of two
  approves and two deposits; two amounts tell their allowances apart.
* Three invocations on the keystore: two that overlap and one before or after
  them. Three destination chains and two forms stand for a chain with keys, one
  with its own path, and one without keys. `SYMMETRY` is used where only
  invariants are checked.
* In `Scan` a gap of two and a window of two let a gap end with a window or
  inside it, and addresses up to the third take a scan into its second and third
  window. `MaxIndex` is beyond what a scan reaches, so it never ends one.
* The amounts have two digits below a base unit and Decimals of three digits (in
  place of 28), so that the precision is exceeded by none, one and two digits.
  The statement is about amounts whose integer part in base units fits the
  precision; beyond that (10^20 coins) it would not hold.
* The payees of `coin_selection` are the smallest and the largest output, and the
  memos lie at both sides of the 76 bytes.
* The prices of `backends` order the two networks differently with and without
  streaming, the slips are at and above the tolerances, and the minimum is at
  and above the amount. One move separates the choice from the second quote.
* Three changes let a network fail, observe a transaction and come back while
  `status` runs.
* The values of the coins are chosen so that a selection pays exactly the
  minimal fee, misses it by one, and leaves change at, below and above dust.

`CHECK_DEADLOCK FALSE` is set everywhere because invocations end.

### Fairness

`Terminates` assumes weak fairness of each invocation's own steps and nothing of
the clock, the networks or other invocations. HTTP calls have a timeout of 20
seconds (`net.py`) and fail or return, and the user answers the prompt or
interrupts it. In `Scan` it assumes weak fairness of the scan's own steps, for the
same reason; the chain may move for ever or not at all. That
a scan ends although payments may reset its gap rests on the finite number of
addresses in use (`MaxUsed`).

## Proofs

Every invariant of a passing run, and the refinement, is also a theorem: it
holds for every value of the constants that satisfies the module's named
assumption, not only for the instance TLC explores (`ResidualAllowanceExact` for
tokens that let any allowance be changed; it, `OutcomeHonest`, `NoNonceGap` and
`KeepsPromise` for nodes that never answer a post with null). The inductive invariants were checked
with TLC before they were proved.

| Module | Inductive invariant | Theorems (property) |
|---|---|---|
| `SpendFlow_proofs` | `FlowInv`, `NonceInv`, `PostInv` | `TypeCorrect`, `OnlyAuthorised`, `NeverSignedStale`, `HonestOutcome`, `PaymentsIntended`, `DestinationNamed`, `FeesCapped`, `NonceGapFree`, `AllowanceExact`, `PromiseKept` |
| `Keystore_proofs` | `KeyInv`, `SoloInv`, `ReadInv`, `ResolvedInv` | `TypeCorrect`, `NeverTruncated`, `UniqueForever`, `OriginalKeysSafe`, `SoloAdditionsSafe`, `FundsSpendable` |
| `Scan_proofs` | `ScanInv`, `ListInv`, `CoinInv` | `TypeCorrect`, `NothingMissed`, `WorkIsBounded`, `EachAddressOnce`, `ListedSignable`, `StableListed` |
| `Coins_proofs` | `CoinsInv` | `TypeCorrect`, `NothingUnaccounted`, `OverpaymentBounded`, `LargestFirstIsBest`, `RateNearlyPaid` |
| `Amounts_proofs` | `AmountInv` | `TypeCorrect`, `TypedAmountKept`, `SweepsAffordable`, `SweepsComplete`, `FeesCapped` |
| `Backends_proofs` | `Inv` | `TypeCorrect`, `BestIsChosen`, `OfferIsKept`, `RefusalsHaveACause`, `ClientsClosed` |
| `Balance_proofs` | `BalanceInv` | `ChainsReported`, `NoPositionLost`, `OwnPoolPrice` |
| `Status_proofs` | `StatusInv` | `ObservationReported` |

### SpendFlow

`SpendFlow_proofs` proves `Spec => []FlowInv` and from it the type invariant and
the six safety properties of `one_invocation`, for any number of invocations,
any set of command lines, quotes, fees and amounts that satisfies
`ConstantsAssumption`. The properties are about transactions on the chain, but a
transaction is only as good as what its invocation knew when it was built. So
`FlowInv` says what is known at every step (`ProcessInv`: from the gate on, the
transactions and the plan are those of the context, and safe means that the gate
held for them; from the prompt on, `--confirm` and a passed gate; when signing,
consent and an unexpired plan) and that an entry of the chain belongs to an
invocation that signed it and has not forgotten anything since (`EntryInv`).

`NonceInv` (nonces read are never ahead of the account; nonces on the chain are
unique and below it) gives `NoNonceGap`, and `ResidualAllowanceExact` for tokens
that let any allowance be changed (`~ZeroFirst`); for the others
`SpendFlow_usdt.cfg` gives a counterexample.

`PromiseKept` is `Spec => KeepsPromise`. Each step of `SpendFlow` is mapped to a
step of `Spending` or to none; the only lemma beyond `FlowInv` is that a
transaction about to be posted, or under way after its sender gave up, is not on
the chain yet (`PostInv`), which holds because the entries of an invocation lie
below its cursor and only one of its transactions is ever under way.

### Keystore and Destination

`Keystore_proofs` proves `Spec => []KeyInv`, and with it `Intact`,
`LabelsUnique`, `OriginalKeysKept` and `SoloAdditionsKept`, for any number of
invocations and any files. Beyond the files themselves `KeyInv` has to describe
what each invocation holds in memory and in its temporary file: complete before
it is renamed, beginning with the original keys, without duplicate labels. That
the last survives concurrent additions is because a save replaces the whole
list: a race loses a key and never duplicates a label. `SoloInv` carries
the keys of undisturbed additions through all later saves.

For `Destination`, what a command has read begins with the original keys as they
derive (`ReadInv`), so the key it selected by position and label is selected
again, and derives the same (`ResolvedInv`). An added HD key never moves before
the first one, which is what a command without `--key` depends on.

### Scan and Backends

`Scan_proofs` proves all safety properties of `Scan` for every gap limit, window
and number of workers. The invariant counts: everything below the position of
the loop has been answered; `gap` is the number of unused answers since the last
used one; a coin in `held` is on the chain whenever its address is asked. So a
gap that ends the loop contains no address that was in use throughout. Evictions
and reorganisations only take coins out of `held` and `steady`, and every claim
of the invariant survives that.

`Backends_proofs` proves the properties of `Backends` for any number of
networks: as far as pools have not moved, `results` holds exactly the usable
quotes of the networks asked so far, on terms that are the swap's when they decide
anything, and the second quote of a pool that has not moved repeats the first.

### Coins

`Coins_proofs` proves the five properties of `Coins` for any finite set of coins
and any amounts, rates and memos. Four of them follow from `total` being the sum
of the coins taken and from the arithmetic of the fee, which is monotone in the
size; `RateNearlyPaid` because output and push are at most 12 and 1 bytes longer than
estimated and no transaction with one input and one output is below 110. `FewestCoins` needs an argument: while the loop runs (`Greedy`), the coins
taken are the largest, and no set of as many coins or fewer can pay. A set S of
n + 1 coins is worth at most the n + 1 largest (`LargestMost`), and fees depend
on the number of coins only; so if S can pay, the loop stops at n + 1 coins at
the latest.

Sums over sets are folds, that is functions defined by recursion. Induction with
a predicate as a parameter is not available to the provers, so the facts about
sums are proved from a smallest counterexample: `SmallestSet` says that a
collection of finite sets that is not empty has a member of least cardinality
(from the library's `NatLessThanWellFounded` and `WFMin`), and `FoldExists` and
`FoldUnique` that the fold's defining equations have one solution; `SumStep`
(adding a coin adds its value) is all the rest uses.

### Amounts

`SweepAffordable`, `SweepComplete` and `FeeWithinCap` hold for all balances, fees
and units, from `AmountInv`: what a sweep computed is what it read, and what it
read is still there, because payments only add and the reserve is of
`max_fee_per_gas`, which later base fees do not change. The gas coin of a token
is not part of what a sweep computes, so all that is proved of it is that nothing
else turns a token sweep away.

`TypedAmountKept` proves `CloseToTyped` for every precision and number of digits
below a base unit. Each rounding is off by at most half of what it rounds to
(`RoundOff`), and the precision costs at most `Frac` digits (`DigitsLost`). If it
costs fewer, the first error is at most a twentieth of a base unit; if it costs
all of them, the first rounding gives whole base units and the second changes
nothing (`RoundedTwice`). `TypedAssumption` is
the condition: the integer part in base units fits the precision, 10^20 coins
for the 28 digits of a Decimal. `Pow10` is a recursive function; its laws are
proved from a smallest counterexample too.

### Balance and Status

`Balance_proofs` proves the properties of `Balance` for any number of chains,
networks and addresses. `BalanceInv` says where the three loops are (`LoopsOK`),
that each chain before the current one is reported (`ChainsOK`), and that each
position that the loops have passed is accounted for (`PositionsOK`, where
`Passed` is the lexicographic order of the loops). `BalanceAssumption` lets the
lists of chains and networks cover their sets, and a chain occur once, as
`_wallet_adapters` and `default_backends` build them. The other iterations'
failures cannot undo a line because lines are only ever added.

`Status_proofs` needs that a network which was up throughout answered with what
it had observed: none of the networks before the current one that was up
throughout knew the transaction (`NoneKnew`), since otherwise the loop had ended
there; observations are never withdrawn (`NetworksOK`).

### Only model-checked

Liveness (`Terminates` of `SpendFlow` and `Scan`): the prover does not reason
about fairness. The violations: a counterexample needs no proof.

## Not modelled

* Cryptography, key derivation, serialisation and signing: libraries, assumed to
  do what they are called for.
* The layout of JSON answers, and everything that is only printed: the fee
  breakdown, the figures of the price comparison, the columns of `list`.
* The characters of an address or a script: `decode_op_return` and the patterns'
  lengths.
* `get_transaction_info`, which nothing in the package calls.
* The argument parser beyond which options exist and their defaults.
* Float rounding of fee rates.

## Plan

1. Theorems behind `Terminates` that need no fairness: a measure that every step
   of an invocation, and of a scan, decreases.
2. Type invariants of `Balance` and `Status` as theorems.
