# TLA+ specification of the GAMMA swap API

A specification of the server in `src/src/`: what its account store promises, how the
store is filled in each of the two modes, how pools become tradeable, what a quote says, and how
a swap request becomes a transaction with a blockhash, a compute-unit limit and a priority fee;
and of the client in the same crate that makes swaps and records them from their logs.
The modules are checked with TLC on small instances; the theorems in the `*Proofs`
modules are checked by TLAPS and hold for every value of the constants.

Paths below are relative to the repository (`src/src/accounts.rs` is written
`accounts.rs` where no confusion is possible).

## 1. The system

One process. `main.rs` starts background tasks on a tokio runtime and then serves HTTP.

| Part | Source | State | Operations |
|---|---|---|---|
| Account store | `accounts.rs` | `MemStore.accounts_map`: key -> data | `add_or_update_account`, `get_account`, `get_accounts` |
| gRPC account updater | `accounts/grpc/stream.rs`, `accounts/grpc.rs` | key list, watch channel, the current subscription task, one stream per task | add a key; notice a change; spawn, confirm, replace, abort a subscription; deliver an update |
| RPC account updater | `accounts/rpc/stream.rs`, `accounts/rpc.rs` | key set, the batch under way | add a key; list, fetch in chunks of 100, write back, wait for the interval |
| Pool reporter | `grpc_amm_pools_task`, `rpc_amm_pools_task` | a stream, or an interval | report new and changed pools through a channel of 1000 |
| Accounts service | `accounts/service.rs`, `utils.rs` | `processed_pools`, the channel's receiver | bootstrap; take a pool, fetch its accounts, store it and them |
| Blockhash polling | `blockhash_polling.rs` | `RwLock<RecentBlockhash>` | first hash with three attempts; poll and replace |
| Fee polling | `priofee.rs` | the last estimate | first estimate; poll and replace |
| Swap handlers | `handlers/swap.rs`, `gfx_swap/swap.rs` | per request: guard, instructions, limit | build, simulate, price, answer |
| Quote handler | `handlers/quote.rs`, `gfx_swap/quote.rs` | per request: what it has read so far | check, read five accounts one by one, compute, answer |
| Log parser | `tx_utils/` | a stack of programs (`Execution`) | read a log line: push, pop, decode, stop; show a transaction's own instructions |
| Recording client | `bin/swap_test_csv.rs` | the turn's quote and transaction, a buffered CSV writer | ask, sign, send, fetch, parse, write a row |
| Demo clients | `bin/swap.rs`, `bin/quote.rs` | none | one turn of the same calls |

How they interact:

    pool reporter --mpsc(1000)--> accounts service --add_or_update_account--> updater
         |                             |                                        |
     gRPC / RPC node              RPC node (lists, accounts)            keys: watch channel (gRPC)
                                                                        or a shared set (RPC)
                                                                                |
    quote and swap handlers <----------- get_account ------------------------ MemStore
         |  \-- RwLock: read guard for the whole of /swap <-- blockhash task: write guard
         |----- estimate (copied under a short lock)      <-- fee task
         |
    recording client: quote -> swap -> send -> fetch -> log parser -> row in a CSV file

What is hard in it:

* *Two writers of one account.* The updater and the service both write the store, with
  data they read at different moments; slots are never compared. In gRPC mode two
  subscriptions overlap in every handover.
* *Handover.* The key list grows while the updater sleeps, spawns or waits up to 60 s for
  a candidate; aborts land later than they are called.
* *Failure.* A `?` inside a task ends that task for good and nobody watches: sometimes
  intended (startup), sometimes not.
* *Lagging nodes.* RPC requests are answered by nodes that do not agree yet.
* *Back-pressure.* The pool channel is bounded, and the reporter blocks on it in the same
  loop that reads the stream.
* *A guard held across network requests*, on a lock that serves its waiters in order.
* *Arithmetic.* Prices are micro-lamports per unit, fees are lamports per transaction, the
  limit is optional and the runtime rounds up. A quote mixes u128 results, u64 amounts with
  transfer fees on both sides, and slippage in floats.
* *Logs.* A transaction's log does not say which program a line of data is from, other programs
  write to it, and the runtime drops lines when it gets long.

What makes each part correct:

* store: some version of each account the chain had, never missing again once stored;
* updaters: keys are not forgotten, subscriptions do not leak, values come back to the chain;
* service: a stored pool is complete, nothing of a known pool is fetched again but mints it shares,
  every pool arrives;
* swap: the transaction does what was asked for, leaves nothing behind, fits its limit, and
  is charged no more than was aimed at;
* server: the hash in an answer is as new as can be expected, every request is answered;
* quote: a pool that can be read can be quoted, exact-out amounts arrive after fees, the
  threshold protects as much as it says, and no sensible trade panics;
* log parser and client: the event found is the program's own first one, a row joins a quote and
  the event of its own swap, and rows that were written are kept.

## 2. Modules

| Module | Models | EXTENDS / INSTANCE |
|---|---|---|
| `AccountCache` | abstract: what the store promises | |
| `GrpcAccounts` | store and updater in gRPC mode | refines `AccountCache` |
| `RpcAccounts` | store and updater in RPC mode | refines `AccountCache` |
| `AccountsService` | pool reporter (either mode), channel, service | |
| `PriorityFee` | arithmetic of prices and limits | |
| `SolanaRuntime` | external: token accounts and the execution of a transaction | |
| `SwapTransaction` | the instructions and the price of a request | `PriorityFee`, `SolanaRuntime` |
| `SwapServer` | startup, polling tasks, lock, handlers | `SwapTransaction` |
| `QuoteMath` | transfer fees in u64, slippage in f64 | |
| `Quote` | the quote handler next to the service that fills the store | `AccountsService`, `QuoteMath` |
| `EventFinder` | abstract: what the log parser promises | |
| `LogParser` | a transaction's log, line by line, and the parser's stack | refines `EventFinder` |
| `InstructionParser` | which instructions of a fetched transaction are shown | |
| `SwapClient` | the recording client, turn by turn | `LogParser`, `InstructionParser` |
| `MC...` | definitions the .cfg files give to constants | |
| `...Proofs` | theorems about the module of that name | that module, `TLAPS`; `SwapServerProofs` also `SwapTransactionProofs` |

An operator named `X_Slip`, put before `X`, is `X` with a plausible slip in it. Nothing uses
it: replacing `X` by it must make TLC report a property, and `PROJECT.json` ("mutants") says
which one.

### AccountCache

Two variables: `chain[k]`, the version of an account on the chain, and `store[k]`, the
version held or `Missing`. `Put` stores any version up to the chain's. Nothing is promised
on order (a value may go back) or on two accounts being of the same slot: the code promises
neither, and a quote, which reads five accounts one after the other, must live with it.

### GrpcAccounts

The data of an account is a version number. A stream is a cursor per account; a fresh
subscription has no snapshot and only delivers what changes later, as in the code (there is no
`from_slot` and no initial fetch in `grpc_accounts_updater_task_inner`).

* `AddKey`/`AddKnownKey`/`AddStore` are `GrpcAccounts::add_or_update_account`: the key joins
  the set, the list is sent, and then - other tasks run in between - the data is stored. The
  version was read earlier (`v <= chain[k]`). One call is under way at a time, as the
  only caller is the service, which awaits each call.
* `StartFirst`, `NoticeChange`, `SpawnNew`, `StartConfirmed`, `StartTimeout` are the stations
  of the main task: first list, `changed()`, after the second's delay
  `borrow_and_update`, the confirmed start, the 60 s timeout. `unseen` is the version
  flag of the watch channel, `hasStarted` the permit of `Notify`. A change that arrives during
  the delay is marked seen together with the value; one that arrives later wakes `changed()`.
* `Subscribe`, `ConnectFail`, `Deliver`, `Ping`, `Disconnect`, `AbortLands` are the subscription
  task. A `?` in it (`ConnectFail`) ends it for good. An aborted task goes on until it yields.

`writer[k]` is a history variable: which task's open stream wrote `k` last.

### RpcAccounts

`StartListing`/`FinishListing` is the iteration over the concurrent key set: keys present from
start to end are listed, keys added meanwhile may or may not be. Each chunk is one request,
answered at a moment of its own. As no request carries `min_context_slot` (`accounts/rpc.rs:51`), the
node that answers may lag: `floor[k]` is the version the node furthest behind has (`NodesCatchUp`
raises it), and an answer is any version from `floor[k]` to `chain[k]`, null for a node that has not
seen the account or has seen it closed (`Answers`). `null` answers are
skipped (`IsNull`), a failed request (`FetchFail`) drops what the others returned and ends
the task. The answers are written one by one, and the service can write in between. What a cycle
holds is dropped with it (`DropCycle`). `before` (the floor when the cycle listed its keys)
and `late` (what the service stored since) are history variables for the properties.

### AccountsService

Which accounts are in the store, not what they hold. `mode` chooses the reporter at start.
`settled` is the set of pools every RPC node knows; a pool outside it and its observation
account are null for some requests and there for others, because no request carries
`min_context_slot`. The stations of `process_amm_pool` are `StartPool` (unless processed),
`KeysAnswered` or `KeysFail` (the pool is dropped), `StorePool`, `StoreKey` for each account,
`EndPool`. The config account comes with the bootstrap's fetch: it is stored, or it was null and
nothing asks for it again (`ConfigSettled` says whether every node has it). The bootstrap
lists, fetches and handles all pools the same way before the channel is
looked at; a failed request there ends the process. A mint that two pools share is fetched and stored
again with the second of them. `missed` is a history variable: the
pools whose last report came to nothing in gRPC mode, where nobody asks again.

### PriorityFee, SolanaRuntime, SwapTransaction

`PriorityFee` has `calculate_cu_price`, the fee or price behind each setting and the limit
after a simulation, with the code's constants as parameters. It also has what the runtime does
with them: the fee `ceil(price * limit / 10^6)`, as the comment at
`gfx_swap/swap.rs:370` states it, and the default limit of 200 000 per instruction
(budget instructions not counted) when none is set.

`SolanaRuntime` runs instructions on a ledger: the user's lamports, three token accounts
(input, output, a destination of the user's choice) and lamports transferred but not yet
synced. A swap draws and gives what the market says and is refused outside its bound. Costs
are 1 unit per simple instruction, `CreateCost` for an account really created (1 for one that is there
already), and for the swap what the market says: any of `SwapUnits`, chosen anew for the simulation and
for the execution, as the swap's work depends on the state of the pool. `simulated` in `SwapServer` is a
history variable: the swap's units in the simulation a limit was computed from.

`SwapTransaction` is `swap_instructions_inner` without its awaits: setup, swap, cleanup and
budget of a request. `pair` says on which side native SOL is.

### SwapServer

* startup: first hash with retries, first estimate if a fee service is configured, bootstrap,
  then serving; each `?` in `main` ends the process.
* lock: `queue` is the order in which tokio's RwLock serves its waiters, `readers` who
  holds a read guard. `PollWrites` is one step because there is no await between the
  grant and the drop of the write guard.
* `/swap` asks for the guard first (`swap.rs:68`) and keeps it until it has its answer, across
  the simulation; `/swap-instructions` does not take it. `Build`, `SameMints`, `NodeFails`,
  `Simulated`, `Price` are the handler; `Simulated` looks at the units only, as the code does.
* `known[c]` is a history variable: the newest hash fetched when the request came.

### QuoteMath and Quote

`Quote` extends `AccountsService`: every step of the service interleaves with the stations of a
request, `Ask`, `EpochInfo`, `ReadPool`, `ReadAccount` (config, two mints, observation, in this
order) and `Compute`. The handler writes nothing, so one request at a time stands for
many. Only `Compute` looks at amounts, so the trade, the fees of the mints and the vaults are
chosen there, and the curve of the `gamma` crate is any result that keeps what a curve must keep: the
fee is part of the input, and no swap pays more than the vault holds. A vault may be empty: the three
divisions of the price impact then panic (`DividesByZero`). What does not decode, and vaults that hold
less than the fees owed, end in an error (`ReadPool`, `Compute`). `partial` is a history variable: whether the
service was still storing the pool's accounts when the pool was read.

`QuoteMath` has the transfer fees of Token-2022 (`calculate_fee`, its inverse for less than
100 %, and the code's own branches around them) and `amount_with_slippage`: conversions to `f64`,
each operation rounded to nearest, ties to even, and the saturating `as u64`. A float is a number of
units of `1/Scale`; `Ulps` is the set of units in the last place (powers of two), `Precise` the number up to
which every integer is a float. With `Precise = 2^53` and `Scale = 2^67` this is `f64`: no `bps / 10000` but 0 is
so small that its unit in the last place is below `1/Scale`. The widths of both kinds of number are
constants.

### EventFinder, LogParser, InstructionParser, SwapClient

`LogParser` runs the transaction and the parser together. Each action is one thing a transaction
does (a call, a return, text, data) and the parser's turn over the line this had the runtime log.
The parser never looks ahead or back, so this is the same as reading the finished log. A
line is known by what the parser's tests can tell apart. `Read` is one turn of the loop: with the own
program on top of `stack`, data is decoded and text is ignored, and anything else goes to
`ReadSystem`, which pushes the own program for its `invoke` line, `"cpi"` for any other line with
"invoke", and pops for a line that ends in "success". Popping an empty stack is the assertion in
`Execution::pop`; an event that does not decode is the `exit(1)`.

`garbled` is a history variable: whether a line was dropped (`LineDropped`, the runtime's limit on the
bytes of a log), or was text of another program that reads like a line of the runtime. `odd` is another:
whether the program itself, upgraded since the parser was built, has logged data that does not decode or
is shorter than a discriminator (`LogData`). `EventFinder`
is the abstract promise: of a log that is not garbled, the first swap event of the program,
and none missed. `Finder == INSTANCE EventFinder WITH ...` maps the top of the real call stack to
`ours`.

`InstructionParser` numbers the keys of a fetched transaction (`AccountKeys`), finds the program
and selects its instructions; `Encoded` is, external, what a node answers for given calls.
`SwapClient` is the loop of `swap_test_csv`: `AskQuote`, `AskSwap`, `Send`, `Fetch`, `OpenLog`,
`Parse`, `Record`, `Sleep`, with the `continue` of each failure (`Continue`) and the ways the process ends
(`ended`). A quote, a transaction and a log are named by the turn they are of, which is what the property
on rows tells apart. `rows` is what was serialized, `flushed` how much of it is in the file. The writer is
flushed at the end of `main` and when it is dropped, also by a panic, but not by `exit()` nor by `Kill`, which may
end the process at any moment; a flush may fail (`Flush`, history variable `failed`).

## 3. Runs

All passing runs together fire every action. Bounds are in the .cfg files; versions, tasks,
blocks and (in the swap runs) ledgers are bounded, nothing else.

| Run | Question | Instance |
|---|---|---|
| `grpc_accounts` | `StoreFollowsWriter`: the store shows what the open stream that wrote last delivered. `ImplementsCache`. `StreamedAccountConverges`: a stream that stays open brings the store back to the chain | 2 accounts, 3 versions, 2 subscriptions |
| `grpc_keys` | `NoLostNotification`, `NoLeakedSubscription`, `ServedKeysSurvive`, `AddedKeyServed` | 3 accounts, 3 subscriptions, data left out |
| `grpc_reconnect` | finding 1 | 1 account |
| `rpc_accounts` | `CycleRefreshes`, `NeverSetBackFurther`, `ImplementsCache`, `ListedAccountsConverge` | 2 accounts, 2 versions, chunks of 1 |
| `rpc_polling` | finding 2 | 1 account |
| `service` | `StoredPoolsComplete`, `ProcessedPoolsStored`, `RewritesSharedOnly`, `PoolsGetStored` | 2 pools that share a mint, a channel of 1, either mode |
| `null_account` | finding 3 | as `service` |
| `swap_transaction` | `RunsIfFunded`, `SolComesBack`, `LimitCoversTransaction`, `FeesWithinTarget` | every kind of request, 16 ledgers, prices that move by -1 to 2, swaps of 2 or 5 units |
| `swap_server` | `HashOfArrival`, `RequestsAnswered`, `HashGetsWritten` | 2 clients, 2 blocks |
| `auto_fee_cap` | finding 4 | requests with an automatic fee |
| `quote` | `MissingExplained`, `ExactOutDelivers`, `SlippageHonoured`, `PanicsOutOfScale` | one pool, a config that may be null, 1344 trades, 24 results of the curve |
| `swap_client` | `StackFollowsCalls`, `AbortsExplained`, `ImplementsFinder`, `ShowsOwnInstructions`, `RowsAreOwnSwaps`, `RowsSurvive` | 2 turns, 2 programs, calls 3 deep, a stack of 4 |

Why these bounds are enough to meet the interesting cases:

* Three versions make "older than the one that is older than the newest" possible: a late
  write of the service, an overlapping stream and a newer update can disagree pairwise. Two
  tasks are one handover; in `grpc_keys`, three keys and three tasks give a handover during which
  the next key arrives, and one that was given up between two that were not.
* Two versions and "not there yet" make three states of an account on a node of `rpc_accounts`, so an answer can
  be older than both the store and the chain. Chunks of one make two requests of one cycle answer at
  different moments, and by different nodes.
* A channel of one is full as soon as the service is slow, so every send of the second pool
  waits; a shared mint makes `StorePool` of one pool meet accounts stored for the other.
* The fee constants keep the order relations of the real ones (minimum fee < cap, default limit
  < runtime's maximum, estimates below and above the cap) with numbers small enough for
  every request to be executed on every ledger. `U32Max = 15` is reachable by a simulation plus
  the safety margin, so the overflow branch is taken. With swaps of 2 or 5 units and 6 safety units some
  transactions stay within the limit of a simulation in which the swap was cheaper, and some do not. `MicroPerLamport = 100` is
  larger than any limit, as 10^6 is larger than most, so that rounding matters but does not
  swallow a lamport.
* Two clients and the polling task make a reader before, behind and after the writer.
* The quote's integers have nine bits and its floats eight, as `u64` has more bits than `f64` has: amounts
  on both sides of the precision and of the width meet every kind of fee (none, capped, uncapped,
  nearly all, all), vaults that are large, small or empty, and slippage from none to more than everything. As in `f64`, a basis point is
  some units of precision (`16 * One <= Precise`), `Scale` is fine enough for `bps / One`, and `Ulps`
  goes beyond the largest product. The smallest amounts are well within the precision, where the
  threshold must be exact up to one. One pool is enough,
  as a request reads the accounts of one; pools that share a mint are in `service`. The run has
  the overflow checks of the dev profile.
* A log parser that goes wrong does so within a few calls: three programs deep, with another program
  above and below the own one, two events per program to tell first from second, and a stack
  that may be one deeper than the calls, because of text. Two turns are enough for anything
  of one turn to end up in the next. Transactions have one or two instructions with up to
  two inner ones each, in three layouts of the keys.

`CHECK_DEADLOCK FALSE` is set where the system may stop: a process that exited or returned (the
server's startup, the client), a gRPC system no key is added to. The RPC updater runs are checked for deadlock.

### Fairness

* Tasks that are ready run (tokio), timers and intervals fire: weak fairness on the steps of each
  task, never on the whole of Next.
* A gRPC stream that is open delivers what it has. Connections may fail or break at any time;
  `SF(Subscribe)` says that a task that keeps trying is not answered by failures only, which
  matters because a single failure ends it anyway.
* Requests of the RPC and swap models are answered or fail: WF on the disjunction of both
  outcomes (the client's timeout). `WF(NodesCatchUp)`: a node that lags follows the chain in the end;
  without it no polling could be promised to show the present. `SF(PollAnswers)` and `SF(KeysAnswered)` in
  `AccountsService` say that not every attempt of an endless series fails; without it no
  pool could be promised to arrive.
* Nothing forces the chain to change, the service to add keys or clients to ask.
* The RwLock is served in order: that is not fairness but the lock's documented behaviour, and part
  of `GrantRead`. The variant `GrantRead_Barging` shows that `HashGetsWritten` depends on it.

### Findings

1. **A subscription that fails to reconnect ends** (`accounts/grpc/stream.rs:218`, `:232`). The
   comment at `:236` says "disconnected. retry the main loop and connect again", but the
   connection is made with `?`. No update reaches its accounts until another key is added.
2. **One failed request ends RPC polling** (`accounts/rpc/stream.rs:80`), while the task
   next to it goes on after a failure. `README.md:8` offers "rpc-polling mode".
3. **The branch marked "this should be unreachable"** (`accounts/service.rs:117`) is reached when
   the node that answers has not seen the pool yet. The pool is then stored and marked
   processed without its observation account, for good.
4. **The cap on automatic fees does not hold without a dynamic limit** (`gfx_swap/swap.rs:31`,
   `:338`). The price is computed for 200 000 units; no limit is set, and the runtime allows
   200 000 per instruction. With the real numbers: 5 000 000 lamports become 9 999 950 with
   two instructions, and proportionally more with a wrapped swap of six.

Noticed, and not runs of their own:

* The comment at `gfx_swap/swap.rs:36` asks for a minimum price; prices derived from a fee
  (`:398`) go below it, down to 0 for `AutoMultiplier(0)`.
* The comment at `gfx_swap/swap.rs:91` lists `Auto` and `AutoMultiplier` as ignored, while lines 368-411
  handle them; `README.md:19` says that without a fee service automatic fees are not
  supported, while the code uses the cap (`auto_priofee(None) = MaxAutoFee`).
* An exact-out swap wraps the quoted input and not the threshold, so it fails as soon as
  the price moves at all against a user whose native account is empty (`Funded` in `SwapServer`
  states it exactly).
* In gRPC mode the first data of an account is stored after its key was announced and may overwrite what a
  subscription delivered meanwhile (`accounts/grpc/stream.rs:289`): the store is behind until the account
  changes again.
* A refresh of RPC mode can move an account back: the node that answers may lag behind the one that answered
  before (`accounts/rpc.rs:51`), and versions are not compared. `CycleRefreshes` and `NeverSetBackFurther`
  bound it by the node furthest behind when the cycle began.
* Blockhashes are not compared either (`blockhash_polling.rs:57`): the newest hash in `HashOfArrival` is the one
  fetched last.
* A mint that two pools share is fetched and stored again with the second pool
  (`accounts/service.rs:103`), over what may be newer (`RewritesSharedOnly`).
* A config account that was null at the bootstrap is never asked for again
  (`accounts/service.rs:37`): no quote is answered until the server is restarted
  (`MissingExplained` counts it among the nulls).
* `gfx_swap/quote.rs:189` subtracts the fee from the vault: with overflow checks this panics where
  the fee exceeds the vault, without them it wraps, for a price impact of no meaning. Lines 191, 194 and 196
  divide by what the vaults hold: a quote for a pool that is empty on a side, or that the swap would empty,
  panics (`PanicsOutOfScale` says when).
* `gfx_swap/quote.rs:254`: an amount that overflows with a transfer fee of 100 % becomes 0, and the
  quote goes on with it (the hypothesis `Fits` of `ExactOutDelivers`). Below 100 % the handler panics
  (`TooBig`).
* Above 2^53 a threshold without slippage may be stricter than the quote itself
  (`SlippageHonoured` leaves this case out).
* The assertion in `Execution::pop` (`tx_utils/events_instructions_parse.rs:107`) can fail because
  of another program's text that ends in "success"; a garbled log can also make the parser take
  another program's event, or end the process with rows unwritten.
* On an intact log the parser gives up on one thing: an event of its own program that does not decode, which takes a
  program upgraded since (`AbortsExplained`). It then calls `exit(1)`, and the rows in the writer's
  buffer are lost, while a panic would have flushed them (`RowsSurvive`).
* A transaction the recording client gave up on may still land: it then has no row.

## 4. Theorems

Everything in the `*Proofs` modules is proved from the named ASSUMEs of the module it extends, and
from nothing else. Every invariant and action property a passing run checks is a theorem; liveness is not
(section 5). The assumptions that are more than types:

* `RuntimeAssumption` (`SolanaRuntime`): units and rents are numbers. Nothing relates the safety units, the
  units of a swap, and the units of an account created.
* `ServerAssumption`: the ledgers are such that nothing is transferred but not synced before the
  transaction (`Ledger`).
* `QuoteMathAssumption`, `QuoteAssumption`: `Ulps` is closed under halving, larger units are multiples
  of smaller ones, `1/Scale` is fine enough for a basis point, a basis point is at least 16 units of
  precision, floats have less bits than `u64`, and the range of the floats holds the products of the trades
  asked for. All are true of `f64` and `u64` (2^53, 10 000, 2^64 - 1).

**GrpcAccountsProofs.** `Spec => []Inv`, where `Inv` adds to the type invariant: handles (which of
`current`, the candidate and the aborted tasks a task can be), filters that only grow from one
task to the next, streams whose cursor is where the filter is, and stored and
in-flight data that is not from the future. From it: `NoSubscriptionLeaks`, `NoNotificationLost`,
`StoreIsWritersView`, `HandoverKeepsKeys` (an action property; it needs that filters grow) and
`GrpcImplementsCache`. `StoreFollowsWriter` is not inductive alone: a delivery must be known to
come from a stream whose cursor covers the key.

**RpcAccountsProofs.** `Inv` says what an answer in hand can be (at least `before`, the floor when the
cycle listed its keys, and at most the chain now; null only for an account that was closed, or that some
node had not seen by then), which accounts are still to be written, and that what has been written is at
least as new as `before` unless the service came late. It uses that floors only rise and never pass the
chain, and nothing else about the nodes. From it: `CyclesRefresh`, `RefreshSetsBackWithinLag` (a stored version
goes back by a write of the service, or to no less than `before`), `RpcImplementsCache`.

**AccountsServiceProofs.** `Inv` ties `step`, `cur` and `left` together, and says for every stored
pool which of its accounts are stored, null or still to come. From it: `PoolsComplete`,
`ProcessedMeansStored`, `OnlySharedRewritten` (an account that is stored and about to be stored again is one
of another processed pool), and the channel's bound in `TypeCorrect`.

**PriorityFeeProofs.** For all fees and limits: the price of `calculate_cu_price` is never charged
more than the fee it was computed for, whenever the limit is what it was computed for
(`CuPriceFee`); hence `AutoFeeCapped` with an explicit limit - finding 4 is the case the
hypothesis leaves out; and `AutoFeeBounds`. The arithmetic rests on bounds
of `\div` proved first, as the SMT solver does not find them.

**SwapTransactionProofs.** What becomes of the transaction of any request, on any ledger, whatever the
market does. `Execute` folds over the instructions, so this is an induction over them: the set
of prefixes for which a run of the whole is a run of the prefix followed by one of the rest contains the
empty one and with each the next (`SetInduction`, from the well-foundedness of the naturals). With it
a transaction is cut into budget, setup, swap, cleanup and tip, and each part has a lemma on what it needs,
does and consumes. `TransactionRunsIfFunded`: it runs exactly if the user has what it takes and the
market is within the bound (`Funded`). `TransactionSettles`: what it leaves (`Settled`).
`SimulationCovers`: whatever ledger, price and units of the swap the transaction was simulated with, and
whatever it meets when it is sent, it takes at most its overhead more than the simulation, and what the swap itself grew
by. The overhead (`Overhead`) is two instructions, for limit and price or tip, and the creation of
the accounts it needs.
`SentFeeWithinTarget`: for every branch of the pricing code the fee charged is within the fee aimed at, per
instruction where no limit is set.

**SwapServerProofs.** Two invariants, for any number of clients and blocks, any requests, ledgers and
estimates. `LockInvariant` is about the order of the queue: no one is in it twice, the polling task is
in it while it waits, and a waiting client is to see what the polling task is
about to write exactly if it stands behind it. A client at the head of the queue has nobody
before it, so it sees what is there; while it holds the guard nothing is written
(`AnswersCarryKnownHash`). `TransactionInvariant` adds how what a handler holds at each
of its stations came from its request: the instructions built from it, the units a
simulation of them came to, the price of that limit and an estimate. With `SwapTransactionProofs` it
yields `AnswersRunIfFunded`, `AnswersSettle`, `LimitsCover` and `FeesAreWithinTarget`, and `TypeCorrect`.
`LimitsCover` is what the safety units are worth: a transaction whose simulation ran through exceeds the limit
only where its swap takes more than `SafetyUnits - Overhead` units beyond the simulated ones.

**QuoteProofs.** For any pools, widths, precision, fees and amounts.
`MissesAreExplained`: `AccountsServiceProofs!Inv` carries over, as the handler leaves the service alone;
to it come that the config was asked for before the server listens, and that from the reading of the pool
on its accounts are stored, were null, or were yet to come when it was read - which stays true
because nothing is ever removed from the store. `QuotesDeliver` rests on `PreFeeExact`: both
computations of a transfer fee round up and both are capped, and yet what is computed before the fee
leaves exactly the amount asked for. The proof characterises the rounded quotient by its two bounds
(`CeilDivUnique`) and treats capped and uncapped fees apart. `PanicsAreOutOfScale` goes
through the panics of a request one by one, the divisions of the price impact included: a divisor is zero
only for a vault that is empty or that the swap empties. `ThresholdsHonourSlippage` rests on two facts about rounding:
the result is off by at most one part in `Precise` (`FloatError`), and what fits is not
changed (`FloatExact`). Both come from the unit in the last place being the least that fits, which exists as
sets of naturals have least elements. The threshold is no stricter than the quote because one basis point
is at least eight parts in `Precise` of the amount even when rounded, and the three roundings that follow take
at most two each (`Grow`, `Shrink`); it is exact up to one where the three together are less than
one basis point of a unit (`SlippedNear`), that is where `4 * amount * (One + bps) <= Precise`.
The weaker condition `amount * One <= Precise` is not enough: with `f64`, of an amount of 785 585 406 223
and 8287 basis points the threshold is 1 436 600 032 360, one less than the exact one rounded up.
`QuoteTypeCorrect`: the amounts answered are u64.

**SwapClientProofs.** For any programs, any depth of calls, any number of turns. The invariant of the
parser (`ParserInv`) is that, as long as the log is intact, its stack and the real calls have
the same length and agree at every position on which entry is the own program; an intact log
has had no event yet while it is being read, what is found is what was emitted, and the parser has given up exactly if
the program has logged data that does not decode (`odd`, from which `IntactLogsAreRead` follows). `EventFinder` is
refined step by step from it (`ParserImplementsFinder`). The client's part (`ClientInv`) says of
which turn each thing in hand is, from which `RowsOfOneTurn` and `RowsReachTheFile` follow.
`OwnInstructionsShown` needs no invariant: the first place of a program among the keys of a transaction is the
place of an instruction's program exactly if they are the same, whatever the layout of the keys.

## 5. Model-checked only

* All liveness properties (`StreamedAccountConverges`, `AddedKeyServed`, `ListedAccountsConverge`,
  `PoolsGetStored`, `RequestsAnswered`, `HashGetsWritten`): they rest on fairness, whose ENABLED the
  prover does not handle.
* That the runs of section 3 which expect a violation find one: a counterexample is a behaviour, which
  TLC shows.

## 6. Not modelled

* The curve of the `gamma` crate, which is not in the repository: any result it may return. The price
  impact of a quote, but for what may panic in it. The slot a quote reports next to data that
  may be older.
* The ten layouts instructions are printed with (`events_instructions_parse.rs:317-506`), and that of events:
  whether the data is long enough and decodes, and what happens if it does not, is modelled (`InstructionData`,
  `PanicsOn`, `LogData`).
* `bin/quote.rs`: one request whose answer is printed.
* `SolanaRpcStore` (`accounts/rpc.rs`): never constructed.
* Pool data too short to decode: neither source of pools brings any.
* The account list of the swap instruction, referral accounts, HTTP, JSON, logging, the command line; the transaction's base fee (a constant the properties do not look at).
* A transaction refused for its compute limit: `RunsIfFunded` and `SolComesBack` execute it without one, and
  `LimitCoversTransaction` says when it would be.
* How far a node may lag in `RpcAccounts` and `AccountsService`: any lag, as long as it ends (fairness).
* Assumed of the outside world: the default limit per instruction and the fee formula of
  the cluster, the order in which tokio's RwLock serves waiters, requests that end (client timeouts),
  updates of one account delivered in order on one stream.

## 7. Plan

Done: `AccountCache`, `GrpcAccounts`, `RpcAccounts`, `AccountsService`, `PriorityFee`,
`SwapTransaction`, `SwapServer`, `QuoteMath`, `Quote`, `EventFinder`, `LogParser`,
`InstructionParser`, `SwapClient`, in this order, each with its runs, and the proofs of section 4.

Next: the safety part of the liveness properties, stated without ENABLED (while someone waits, some
step that fairness promises has its guard true), so that what is left to TLC is fairness alone.
