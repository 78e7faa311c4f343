# Your-Ex in TLA+

A specification of the trading bot in `src/`: what its concurrent parts do, step
by step, what they promise, which promises TLC confirms on small instances, which
ones TLAPS proves for instances of every size, and where the code breaks its own.

* [The system](#the-system): components, state, operations, interactions
* [Modules](#modules): what each models and how it corresponds to the code
* [Runs](#runs): what is checked, the bounds, and what it shows
* [Fairness](#fairness)
* [Proofs](#proofs)
* [Disagreements found](#disagreements-found)
* [Not modelled](#not-modelled) and the [plan](#plan)

To check it: `tlc -config <run>.cfg <MC module>.tla` for a run, `tlapm
<module>Proofs.tla` for the proofs of a module.
`PROJECT.json` lists the runs, maps every definition to its source lines, and
gives for each property a plausible bug that the property catches (the operators
commented `Mutant:` in the modules; no specification uses them).

## The system

The bot watches Solana and Base for new tokens, filters and scores them, buys,
and then manages the open positions until it sells. Data flows one way, through
Go channels; control (start, stop, configuration) comes from `main`.

    Solana monitors --+                         +--> Solana trader --> RPC, Jupiter
    (geyser, pumpfun, |   Bot.HandleTokenEvent  |
     raydium, orca)   +--> eventChan -----------+
    Base monitors   --+   eventProcessingLoop   +--> Base trader ----> RPC, relay
                                                         |
    Dispatcher: the same fan-in as a library:            v
    filter, deduplicate, queue, call handlers        Portfolio
                                                         |
    StrategyManager: entry (criteria, limits, size) <----+ position snapshots
                     exit (take profit, stop loss, trailing stop)

| component (source) | state | operations | hard behaviour | what makes it correct |
|---|---|---|---|---|
| trailing stop (`strategy/trailing.go`) | one stop per position, the configuration | Initialize, Update, Remove, Reset, UpdateConfig | configuration replaced while positions are open; Initialize checks before it locks | a stop only rises, triggers exactly when reached, never at a new high |
| stop loss (`strategy/stop_loss.go`) | trailing states behind pointers, the triggered marks | Evaluate, Reset, Cleanup, UpdateConfig | the state is read and written without the lock; check and mark are two critical sections | one sell signal per goroutine; the stop never drops |
| take profit (`strategy/take_profit.go`) | tiers executed, highest price per position | Evaluate, MarkTierExecuted, Reset, Cleanup | marked by another party than the one that signals | each tier sold once, at its target, in order |
| strategy manager (`strategy/manager.go`) | active positions, histories | EvaluateExit, EvaluateAll, Add/Update/RemovePosition | the lock is taken twice around three strategies with locks of their own; read lock held across a call that takes the write lock | calls return; a removed position is forgotten |
| entry decision (`strategy/entry_criteria.go`, `position_sizing.go`, `manager.go`) | criteria, limits, configuration | EvaluateEntry, AssessRisk, sizes, changes of lists and configuration | no lock at all; contexts copy the portfolio; the sizer keeps limits the manager has replaced | exposure stays within the limit but for what racing callers add; sizes validate; better tokens fare no worse |
| dispatcher (`monitor/dispatcher.go`) | registries, channel, recent keys, statistics | Start, Stop, Register/Unregister, HandleTokenEvent | stop during delivery, restart, a full channel, two-step deduplication | no event lost unaccounted; no monitor left running |
| bot (`app/bot.go`, `cmd/your_ex/main.go`) | channels, monitors, trade counters | Start, Stop, HandleTokenEvent, OnError, the processing loop | shutdown with a timeout while monitors still deliver | trades accounted, queued events processed, nobody blocked for ever |
| Solana monitors (`monitor/solana/`) | connection, subscriptions, look-ups under way, two channels | Start, Stop, the connection loop, message callbacks | look-ups send on channels Stop closes; a dial overtakes Stop; the connection is lost anywhere | always reconnects and resubscribes; Stop ends the loop; events accounted |
| Base monitors (`monitor/base/`) | connection, pending transactions, block tracker | Start, Stop, the connection loop, heads, active checks, cleanups | read loop, checks and chain move at the same time; tracked headers are hollow; unsigned subtraction | the tracker agrees with the chain after a check; pending transactions are forgotten; the loop settles |
| Base trader (`trader/uniswap.go`, `gas.go`, `evm.go`, `mev.go`) | prices, nonce, pending transactions, statistics | GetQuote, UpdatePrices, Build, speedup, cancel, ProtectTransaction | replacement under moved prices; a retry of what may have arrived | nonces distinct, tips covered, a relay gets a transaction once |
| Solana trader (`trader/fees.go`, `jupiter.go`, `executor.go`) | fee history, statistics | CalculatePriorityFee, ExecuteSwap, BuildSwapTransaction, EstimateSwapCost, ResetStats | statistics reset while executions are under way | outcomes counted, once each |
| portfolio (`wallet/portfolio.go`) | positions, the saved file | open, close, update, Save, Load, statistics | overlapping Saves on one temporary file, a crash, a lock taken twice | the saved file is whole and current; a return is recorded once |
| RPC pool and retries (`pkg/rpc/pool.go`, `pkg/util/retry.go`) | endpoints with status, counters and average | GetEndpoint, Do, health checks, Close; RetryWithContext | late checks and requests overlap; counters read twice | status follows the node; counters stay in range; calls return |
| wallet (`wallet/keychain.go`, `manager.go`) | encrypted keys in a file | Add, ChangePassword, Save, Load | a crash in Save, keys sealed under two passwords | no key is lost |
| token analyzer (`analyzer/`) | none kept | scoring | chain queries are I/O | scores stay in range |
| signal handler (`app/signals.go`) | shutdown functions | Start, runShutdown | `main` does not use it | |

`PROJECT.json` has the status of each, and 40 hazards at the line where they bite.

## Modules

### StopRatchet, TrailingStop, StopProofs

`StopRatchet` is the abstract promise of a stop: *armed* positions, the *level*
of each, which ones have *fired*, and the last price *seen*. Levels only rise
while armed; a price fires the stop exactly when it is at or below the level.

`TrailingStop` is `trailing.go`. `states[p]` is `ts.states[p]` (fields named as in
Go) or `NoState`; `config` is `ts.config`, which may be nil. Each method is one
action because `ts.mu` is held throughout, with one exception: `Initialize` reads
`config.Enabled` before it locks, so that `BeginInitialize` (the checks) and
`Initialize` (the locked rest, with whatever configuration is in force by then)
are two actions, and `entering` is the call in between. A nil configuration in
mid-call is a panic (`InitializeNil`, `UpdateNil`). `Update` is translated as
`Observe`: a new high raises `highestPrice`, may activate, then moves the stop;
only then the price is compared with the stop. Prices are integers and stops are
integers times 100, so that a percentage of a price is exact, as in
`decimal.Decimal`. Prices of zero or less, and the code's other refusals, are
guards: a refused call changes nothing.

The refinement (`KeepsPromise`) maps `armed` to the tracked positions, `level` to
`currentStopPrice`, `fired` to `triggered`.

### StopLoss

`stop_loss.go` under concurrent callers. `sl.mu` protects the maps, not the
`TrailingStopState` the map points to; so the states live in a `heap` and an
evaluation keeps its pointer while others go on. An evaluation is the sequence
`Evaluate` (enabled and `isTriggered`), `EntryStop`, `CheckEntry`, `GetState`, `ReadHigh`,
`SetHigh`, `Activate`, `Pending`, `ReadStop`, `SetStop`, `Compare`, `Mark`, one for each read
or write that another goroutine can see. The configuration is dereferenced at five of them, and
once more for the text of a sale: nil by then, it is the panic of `EvaluateNil` and
`SignalSell`. Writes of a price are atomic in the model; in Go a `decimal.Decimal` is two words and a torn value would be worse.
`Cleanup` stands for `Reset` too, which does the same to the maps. The variables
`signals` and `retired` record history for the properties, and so does `raced` in
each call: that another evaluation of the same position overlapped it. The code
does lower a stop then, and the two properties about stops say so (`Raced(o)`). A
state keeps the initial stop it was made with, so that activating it under a newer
configuration with a closer stop gives protection away (`Outdated(p)`). The theorems
about this module are in `StopProofs`.

### TakeProfit, TakeProfitProofs

`take_profit.go`. `tp.mu` is held for one map access at a time and `tp.config` is read
without it, so `Evaluate` is a sequence: `Evaluate` (the nil check), `CheckEnabled`,
`UpdateHighestPrice`, `RangeTiers` (which copies the tiers of the configuration in
force *then*), and one `CheckTier` per tier; `NilConfig` is the panic of a
configuration replaced by nil in between. `MarkTierExecuted`, `Cleanup`
(also `ResetExecutedTiers`) and `UpdateConfig` come at any moment. `GetNextTier` is
the query of that name, which nothing calls: the specification uses it to say
which tier `Evaluate` ought to sell. Prices are integers and a gain is compared
with a percentage by cross-multiplication. Each call carries `raced`, a history
flag for a reset that overlapped it.

### StrategyManager, ManagerProofs

`manager.go` with each strategy reduced to the set of positions it holds data
about. `thread[t].at` is where a call is. A critical section under `m.mu.Lock` is
one step, taken when no thread is in `readers`; a thread waiting for the lock
keeps new readers out and lets waiting readers in when it unlocks, as
`sync.RWMutex` does. `EvaluateExit` is `updatePositionSnapshot`, `TakeProfit`,
`StopLoss`, `recordEvaluation`; the trailing stop is not consulted there at all.
It is updated by `UpdatePosition`, which drops the outcome of the update, so a
triggered trailing stop never becomes a signal of this manager.
`EvaluateAll` is `ReadLock`, `ListPositions`, then `EvaluateExit` of each position
with the read lock still held.

### EntryCriteria, PositionSizing, EntryDecision

The first two are the pure part. `EntryCriteria` has the eight checks of
`entry_criteria.go` in their order, the validation, and the changes of the two
lists; names are compared by their lower case (`Fold`). `PositionSizing` has each
`apply…` of `position_sizing.go`, the order `CalculatePositionSize` composes them
in, and the other four sizes. Decimals are integers and a quotient is rounded
down, where the code rounds at sixteen digits.

`EntryDecision` is `EvaluateEntry` over the two. No lock is held, so it is a step
for every read of something another goroutine may replace: `EvaluateEntry` (the
context), `CheckCriteria` once for each of the eight checks, so that a token may pass some
of one criteria and the rest of another, `CheckNil` and `checkPositionLimits` (which reads `m.config` again, and
dereferences it), `Size` (the sizer's own limits, which `NewPositionSizer` has
written its defaults into). A context is a copy of the portfolio, so a decision is
taken of the positions there were. The sizer's `UpdatePositionLimits`, which nothing calls,
is left out: the limits are those the sizer was built with. What is opened (`Open`) and closed is up to the
caller, external to the repository. The theorems are in `ManagerProofs`.

### Dispatcher, DispatcherProofs

`dispatcher.go` with any number of callers of `HandleTokenEvent`, owners who call
`Start` and `Stop`, and one `eventLoop` per `Start`. Deduplication is three steps
(`Screen`, `addRecentEvent`, `Send`) because it takes the lock twice and sends
without it. `errorChan` has no variable: errors are only logged, and all that
matters is that a send on it after `Stop` panics (`OnError`).

### Bot, BotProofs

`bot.go` with the one `Start` and one `Stop` that `main` gives it. Each monitor has
a place in `at`: its `Start` goroutine spawned, running, handing over an event or
an error, draining its own buffer after its `Stop` has returned, ended.
`HandleTokenEvent` is the Go `select` over the channel, shutdown and default;
`SendError` the blocking send. `eventProcessingLoop` is `TakeEvent` (which includes
`processEvent` up to the trader's call), `TradeEnds`, `TakeError` and `LoopExits`,
and any that is ready may be chosen. The trader is external: a trade ends in a
success or a failure. `CloseChannels` may come at once (all monitors stopped, or
the ten seconds over): the model has no clock.

### LogsMonitor, NetworkProofs

The Pump.fun, Raydium and Orca monitors, which share their code but for two things,
so that `venue` says which one this is: the Raydium monitor subscribes to
several programs and skips a write without a connection, and only the Pump.fun
monitor can panic in parsing. `loop` is `monitorLoop`: `LoopChecks` (context and
`isRunning`), `LoopHolds` (`m.wsConn` read without the lock), `connect`,
`subscribeToLogs` once per program, `readMessages`, `LoopDisconnects`. Whatever is
done with `wsMu` held is one step, dialling included, for which Stop has to wait.
`Stop` is five steps, `Start` two. `open` is the set of connections that really are
open; the server may end one at any moment (`Lose`), which the loop finds out at
its next write or at the end of `ReadLoop`. A creation that is read starts a
look-up; those are anonymous and `fetches` counts them by where they are. The
answers of the RPC pool and the node are nondeterministic. `dials.late` is history: the
dials made after Stop had hung up. Nobody closes such a connection, so `OpenIsUsed`
does not say that Stop leaves none open, but that this one is all it leaves. The geyser monitor is
not modelled: its only connection is a simulation that cannot fail.

### BlockTracker, BaseMonitors

`BaseMonitors` has three sources and shows one of them at a time. The factory
monitor (`uniswap.go`) and the mempool monitor (`mempool.go`) share the connection
loop: `LoopChecks`, `connect`, `subscribe`, `readMessages`, `ReadEnds`, `disconnect`,
`LoopTicks`, against a Stop in three steps and a server that drops connections. A
read loop that ends reports no error, so the loop goes round with the dead
connection, and only the subscription that fails on it makes it hang up. A message
is handled by the read loop itself, so that asking the node about it holds up
reading (`fetching metadata`, `asking`). The mempool monitor keeps transactions with
their age; `Tick` and `cleanupOldPendingTxs` are its one-minute cleanup.

`BlockTracker` is `events.go`: `HeadArrives`, `Mark` and `Store` for `processNewBlock`,
and `CheckBegins`, `Fetch`, `Compare`, `Unmark`, `Replace`, `cleanupOldBlocks` for
`detectReorgs`, which runs in another goroutine; each access to a map under its own
lock is a step. The node's chain is the environment's: `Mine` extends it or replaces
its last blocks. What is stored of a head is its number alone, so that its hash is
nobody's; `whole` says whether a tracked header came from the node. Unsigned
subtraction wraps (`Minus`). `quiet` and `raced` are history: that nothing disturbed a
check, and which numbers a head has marked between the two writes of a check. The
theorems about both modules are in `RecordProofs`, those about `RpcPool` in
`NetworkProofs`.

### RpcPool, Retry

`RpcPool` is `pool.go`. `Do` is `Answer`, `SumLatency`, `UpdateLatency`, `CountError`,
`RequestFails`: the counters are atomic and can move between any two of them, while
the average and the status are under the endpoint's lock (`locked`). A check is
`CheckAnswer`, `checkEndpointHealth`, `ResetErrors`, in a goroutine nobody waits for;
`runHealthChecks` starts one for every endpoint whether or not the last has ended.
`Close` waits for the ticker only. A request may fail whether its node is up or not
(`Answer`), as the caller's context can end first; a check finds out whether the node is
up (`CheckAnswer`). Weights are left out: any healthy endpoint may be
chosen. The model takes the selection and its count as one step, as the lock does.

`Retry` is `RetryWithContext`: attempts, the errors worth another, a wait the context
can cut short. Its users say which errors those are and whether they give a context.

### GasPrices, BaseTrader, MevProtection, SolanaTrader, Traders, TradersProofs

`GasPrices` is the tracker and the estimator of `gas.go`, in tenths of a gwei. The
estimator, the builder and the protection each have limits of their own (`MaxPriorityFee`,
`BuilderMaxPriorityFee`, `MevMaxPriorityFee`, ...), as their configurations do.
`BaseTrader` is the way of one trade through `uniswap.go` and `evm.go`: `GetQuote` with
its retries, `GetNextNonce`, `Build` from the prices of one of the code's three
sources, `Replace` (speedup and cancel), `ProtectFees`, `RemovePendingTransaction`. A
transaction is its nonce and its fees. `MevProtection` is `mev.go`: the choice of the
relay and the attempts, of which the first reads the body of the request to its end
(`Send`) and any other has none left (`SendNothing`). `relay` counts what the relay got.

`SolanaTrader` is `fees.go`, `jupiter.go` and `executor.go`: an estimate from the API or
the fallback, then `ExecuteSwap` as quote and transaction, counted in
statistics that `ResetStats` may reset at any moment (`carried` is history: the
executions under way when it did), or `BuildSwapTransaction` or `EstimateSwapCost`, which
make the same requests and are counted as nothing. How much a fee is makes no
difference to any of this and is left out.

`Traders` composes them: a behaviour shows the trader of one chain, because they share
nothing but `Retry`, whose contexts may be cancelled in either (`Cancel`). Nothing in
the repository calls these traders yet; a caller uses them in the order their tests do.

### Portfolio, RecordProofs

`portfolio.go`: positions reduced to status and recorded return, behind the same
model of `sync.RWMutex` as in `StrategyManager`. `CalculateStatistics` takes the read
lock (`RLock`) and then, in `CalculateTotalPnL`, takes it again. `Save` is its steps
on the file system under the read lock, so that several may be under way:
`Marshal`, `OpenTmp` (create or truncate `path + ".tmp"`), `Write`, `Rename`; an
open file goes along when it is renamed (`fd`, `Moved`). Each of them may fail, the
process may crash at any moment, and `LoadPortfolio` starts from the file.
A file being written holds `Torn`. That data reaches the disk before the rename
is taken for granted, as the code does not sync.

## Runs

| run | bounds | what it shows |
|---|---|---|
| `TrailingStop_any` | 1 position, 8 prices on and next to each level, 5 configurations including nil, disabled and one that `ValidateConfig` refuses; 155k states | `LockedIn`, `NewHighNeverTriggers` and the refinement `KeepsPromise`, however configurations replace one another |
| `StopLoss_all` | 2 goroutines, 3 prices, 3 configurations and nil; 2.9M states up to `Live` | at most one signal per goroutine (`SellsBounded`); stops (`StopNeverLowered`) and the price a position is sold at (`EffectiveStopOnlyRises`) only rise unless evaluations of the position overlap, or its state was made under a lower stop |
| `TakeProfit_all` | 2 evaluations of 1 position, 3 prices, 5 configurations: in order with a tier off, out of order, with a duplicate number, disabled, nil; 569k states | the tier sold is the next one (`SignalsTheNextTier`), and an evaluation without a sale has left no tier open behind it (`NoTierIsMissed`) |
| `Manager_all` | 3 threads, 1 position, histories of 4; 104k states | removed positions are forgotten (`RemovedIsForgotten`), trailing stops belong to active positions (`TrailingFollowsPositions`), every call returns unless an `EvaluateAll` deadlocks (`CallsReturn`) |
| `Entry_all` | 2 callers, 7 tokens of which 1 is evaluated, 2 criteria and nil, 2 configurations of which one without limits, 1 name to list, 2 positions; 403k states | the exposure stays within what racing callers and rounding up to the minimum can add (`ExposureBounded`), sizes agree with their validation (`SizesValidate`), a better token fares no worse (`BetterIsNeverWorse`) |
| `Dispatcher_all` | 2 callers, 2 owners, 1 monitor, 2 events, channel of 1, 3 events received, 2 starts; 1.5M states | events accounted (`EventsAccounted`), deduplication bounded (`PassesBounded`), no orphan monitor (`NoOrphanMonitor`), the channel is drained (`Drains`) |
| `Bot_all` | 2 monitors, 3 events (tradable, without a mint, without a trader), channels of 1, 2 events, 1 error; 222k states | events and trades accounted (`EventsAndTradesAccounted`), what can kill the process (`DiesOnlyOfAMint`), accepted events processed and error senders released (`NothingIsStuck`) |
| `LogsMonitor_all` | all three venues, 2 programs, channels of 1, 1 connection lost, 1 dial failed, 3 look-ups; 1.2M states | an open connection is in use, and after Stop it is the one late dial (`OpenIsUsed`), events accounted (`EventsAccounted`), the loop reconnects and Stop ends it (`LoopSettles`) |
| `Base_all` | all three sources; 3 transactions, 2 connections lost, 1 dial failed; a chain of 5 blocks and 3 mined, which may replace 2, depth 2; 91k states | pending transactions are forgotten (`PendingIsForgotten`), an undisturbed check leaves the node's headers and no false mark but one written in the middle of it (`CheckSettles`), stale headers do not stay (`StaleIsReplaced`), loops settle (`LoopSettles`) |
| `Trader_all` | 2 callers, 2 attempts, 1 update of the prices far above every cap, 1 replacement, 2 providers, one trade above and one below the threshold; on Solana 3 executions counted between two resets; 540k states | nonces stay apart (`NoncesDistinct`), tips are covered where the limits are in order (`TipsCovered`), a relay gets a transaction once (`RelayedOnce`), outcomes are counted once (`OutcomesCounted`), and every call returns (`CallsReturn`) |
| `Pool_all` | 1 endpoint, 2 requests, 2 overlapping checks, 2 selections, 2 outages; 357k states | counters and average stay in range (`CountersAgree`), the status follows the node (`HealthFollowsNode`) |
| `Portfolio_all` | 2 goroutines, 1 position, 2 returns; 342k states | the saved file is whole (`TornOnlyIfShared`) and current (`PublishedIsCurrent`), a return is recorded once (`ReturnRecordedOnce`), calls return unless `CalculateStatistics` and a writer wait for each other (`CallsReturn`) |

Why the bounds are enough. Positions share nothing but the configuration and the
lock: one is enough for everything about a single position, and the lock is
contended by threads, of which there are three (a reader that holds the lock, a
writer that waits, and a third who must wait for the writer). Endpoints of the pool
share nothing but the ticker. The prices include,
for each configuration, one exactly at the initial stop, one below it, the entry,
the activation price, a higher high and the trailing stop of that high, so that
every comparison goes both ways and is met with equality. Channels of one place
are full and empty within one event. Two starts are what it takes to restart, two
goroutines to race, two attempts to retry, two connections lost to lose the one that
replaced a lost one. A reorganisation of two blocks replaces the head and its parent,
which the tracker marks together. The limits of `Entry_all` are such that the first
trade fits, a second fits whole only when it does not know of the first, and the minimum size
lifts what is left. Two transactions of one sender, the second paying more, are a frontrun.
The limits of `Trader_all` are different for each component, and the prices move above and
below all of them. `StopLoss_all` has a `VIEW`: `Live` identifies states that differ
only in which heap cell was taken for a state, in a cell nothing points to, or in a
local variable that is not read any more, which make no difference to any action or
property. Its configurations activate at different prices, so that 11 is above one
activation price and below the other, where nothing is sold yet (`Pending`).

Every bound is a constant: `MaxReceived`, `MaxStarts`, `MaxHandlers` (Dispatcher),
`MaxEvents`, `MaxErrors` (Bot), `MaxLosses`, `MaxFailures`, `MaxFetches` (LogsMonitor),
`MaxHistory` (StrategyManager), `Objects`
(StopLoss; enough for every position and goroutine, which `EnoughObjects` assumes),
`PortfolioBound` (EntryDecision), `MaxMined`, `MaxReorg` (BlockTracker), `MaxLosses`,
`MaxFailures`, `MaxEvents`, `MaxFrontruns` (BaseMonitors), `Checks`, `MaxSelected`,
`MaxOutages` (RpcPool), `MaxUpdates`, `MaxReplacements`, `MaxExecutions` (the traders;
`MaxAttempts`, `MaxHistory` and `FeeHistorySize` there are the code's own, made small).
`CHECK_DEADLOCK FALSE` is in every cfg because every system here may rightly stop:
a panicked process, a bot that has been stopped, a position with nothing to do.
Every module has a type invariant, named `TypeOK` or after its component (`StopTypeOK`,
`PoolTypeOK`, ...), as have the specifications; it is proved, and it is not among the runs'
properties, which TLC spends on what can go wrong.

## Fairness

Safety is checked and proved without fairness. The liveness properties assume:

* *Weak* fairness of whatever a goroutine does next once it can: the Go scheduler
  is preemptive and starves nobody. In `Bot` also of `CloseChannels` (the
  ten-second timer fires) and of `TradeEnds` (the traders bound every request by a
  timeout). In `Traders` of the steps of a call under way, for the same reason.
* *Strong* fairness of a thread that waits for the manager's lock, which is free
  again and again without staying free: `sync.Mutex`, on which `RWMutex` builds,
  hands over to a waiter after a millisecond (starvation mode). Also of requests
  and checks in `RpcPool`, which wait for the endpoint's lock.
* *Strong* fairness of the loop's receives and of blocked senders in `Bot`:
  `select` picks uniformly among what is ready, and blocked senders are served in
  order of arrival.
* In `LogsMonitor` and `BaseMonitors`, dials fail `MaxFailures` times at most: that the
  loop reconnects is claimed for a network that lets it connect in the end. In
  `BlockTracker` a fetch may fail as often as the node likes, but one that is tried
  again and again succeeds in the end (*strong* fairness for each place in the window).
* In `RpcPool` weak fairness of `runHealthChecks`: the ticker ticks.
* *No* fairness of what is nobody's duty: a signal, an event, an error, a call of
  Start or Stop, the return of a monitor's `Stop`, which may take for ever, a node
  that comes or goes, a head, a new request. `EntryDecision` and `StopLoss` have no
  liveness: their calls never wait.

## Proofs

Every safety property of the runs is a theorem, with the inductive invariant it needs. The
proofs hold for every set of positions, prices, configurations, monitors, endpoints, callers
and threads, from the assumptions named in the modules, which TLC evaluates with every run.
They give the constants their types (`PricesAreNumbers`, `ConfigsAreTyped`,
`InputsAreTyped`, `SwapSizes`, `TrackerSizes` and their like), keep what stands for nothing
apart (`NoneIsNothing`, `NoStateIsNoState`), and say what the code's own constants do: limits
and capacities are not zero (`ChannelsAreBuffered`, `TriesAtLeastOnce`, `SizingDefaults`, where
the minimum size is also at most what a trade may risk), fees are numbers
(`FeesAreNumbers`), in any order. Sets that are counted are finite (`CallersAreFinite`, `EnoughObjects`,
`InputsAreTyped`, `TriesAtLeastOnce`), and there is an endpoint (`PoolSizes`) and a caller.

`StopProofs`, about `TrailingStop`:

* `TypeCorrect`, `StopNeverBelowFloor`, `GainStaysLockedIn`,
  `TriggersExactlyAtTheStop`: the four invariants. The inductive invariant `IInv`
  is their conjunction, stated per position (`GoodStop`): that a stop is locked in
  relies on the high being above the activation price, and that it triggers
  exactly on the stop being at its final value, so none is inductive alone.
  `ObserveIsGood` carries the arithmetic of `Update`, `NextIInv` has one step per
  action.
* `TrailingStopKeepsPromise`: `Spec => KeepsPromise`. `RatchetInit` and `RatchetNext`
  show that each step arms, observes, disarms, or changes nothing visible.
* `HighsAreNeverSold`: a price above all earlier ones never triggers. It needs two
  more facts. `BelowHigh`: a stop that began below the entry stays at or below the
  high. And `NoNegativeTrail`, an assumption on the configurations: a *disabled*
  one is accepted unvalidated, and `Update` goes on to use its percentages.

`StopProofs`, about `StopLoss`. The inductive invariant `StopIInv` says that a cell that is
pointed to belongs to one position (`StatesAreOwned`; `FreeCell` shows that there always
is one left), that two evaluations of a position know of each other (`OverlapsAreSeen`),
that what an evaluation compared still holds when it writes unless it was raced
(`ChecksHold`), and that no stop is below the initial one of its state
(`StopsAboveInitial`).

* `StopTypeCorrect`, `SellsAreBounded` (`SellsBounded`): a triggered position has, for each of
  its sells, a goroutine that evaluates it no more (`SellsLeaveEvaluations`).
* `StopsAreNeverLowered` (`StopNeverLowered`), by the owner of the cell each step writes.
* `EffectiveStopRises` (`EffectiveStopOnlyRises`). The proof showed that the property needs
  the exception `Outdated`: without it a state made under one configuration is activated
  under another with a closer stop, and the price of sale falls.

`ManagerProofs`, about `StrategyManager`:

* `ManagerTypeCorrect`, `StopsBelongToPositions` (`TrailingFollowsPositions`).
* `RemovedPositionsAreForgotten` (`RemovedIsForgotten`): the inductive invariant
  adds that a position removed quietly is not in the hands of any thread, nor on
  the list of an `EvaluateAll`; the latter because an `EvaluateAll` with a list
  holds the read lock, and `RemovePosition` needs there to be no reader.

`ManagerProofs`, about `EntryDecision` and the pure modules it is built from:

* Sums over finite sets (`SumTakes`, `SumAdds`, `SumIsMonotone`, `SumIsBounded`, ...), about which
  the library has no theorem at hand. `SumFunctionOnSet` takes the elements in an order of
  its own; that any may come first is shown by induction over the subsets of a finite set,
  as the absence of a least subset for which it fails (`LeastSubset`).
* `SizesAlwaysValidate` (`SizesValidate`): what each limit leaves of an amount
  (`WithinIsWithin`, `LimitsLeave`, `SizeIsLimited`), for any portfolio and any limits the
  sizer can have.
* `BetterStaysNoWorse` (`BetterIsNeverWorse`): a token passes exactly when all eight checks do
  (`EvaluatePasses`), each of which is monotone, as the level of risk is.
* `EntryTypeCorrect`, `ExposureIsBounded` (`ExposureBounded`): the bound on what is decided is
  not inductive. A caller that has copied the portfolio may still decide as much as the
  copy leaves room for (`Headroom`), and what is open with these shares of all callers is
  bounded (`SharesAreLimited`): a copy taken at the limit leaves nothing, one taken
  below it no more than the limit and what rounding up adds, and the others have one
  trade each. The proof showed that a trade must be counted as rounded up
  (`LargestTrade`): for a limit per trade below the minimum size the bound was false.

`TakeProfitProofs`:

* `TakeProfitTypeCorrect`, `EvaluateMissesNoTier` (`NoTierIsMissed`),
  `HighestIsAnUpperBound` (`HighestCoversEvaluations`).
* `EvaluateAgreesWithGetNextTier` (`SignalsTheNextTier`): the inductive invariant adds
  that a loop has passed no tier which is still open (`PassedTiersAreClosed`); tiers
  are only ever closed while nobody resets the position (`OpenIsLost`), so the
  first open one of an ascending list is the one with the lowest number
  (`FirstOpenIsNext`).

`RecordProofs`, about `Portfolio`:

* `PortfolioTypeCorrect`; `ReturnIsKept` (`ReturnRecordedOnce`).
* `WriteFileIsAtomicAlone` (`TornOnlyIfShared`) and `SavesPublishThePresent`
  (`PublishedIsCurrent`): the inductive invariant adds that the positions do not
  change between their encoding and the rename (`Current`: a writer needs there
  to be no reader), and that a temporary file nobody else has opened belongs to
  one Save, which has written it before it renames it (`Alone`).

`RecordProofs`, about `BlockTracker` and `BaseMonitors`:

* `BaseTypeCorrect`; `PendingAreForgotten` (`PendingIsForgotten`): a pending transaction is no
  older than its lifetime and the time since the last cleanup (`PendingIsYoung`).
* `ChecksSettle` (`CheckSettles`): as long as a check is quiet it sees the chain it began with
  (`QuietIsUndisturbed`) and has left what it has compared with the node's header
  (`ComparedIsSettled`); a mark and the node's header exclude each other
  (`MarkedIsNotWhole`). The last is what the proof found not to hold beyond the bounds
  of the run: a head that writes its mark between the two writes of a check leaves it on
  the header of another block, and no check takes it off (`raced`).

`NetworkProofs`, about `LogsMonitor`:

* `MonitorTypeCorrect`, `StopLeavesOneDialOpen` (`OpenIsUsed`), `ReadsAreSubscribed`
  (`ReadsSubscribed`), from one inductive invariant: what the loop knows of the
  connection at each of its steps (`LoopInv`; e.g. there is no open one whenever it
  goes back to its check), that connections are dialled only for those lost or
  hung up (`DialsBounded`), and that a loop past its check when Stop hangs up has not
  dialled late yet and will not get past the check again (`LateInv`).
* `DetectedAreAccounted` (`EventsAccounted`), with the fact that nothing is drained
  before Start.

`NetworkProofs`, about `RpcPool`:

* `PoolTypeCorrect`, `CountersStayInRange` (`CountersAgree`): an endpoint's lock has one holder
  (`LockIsHeld`), so that the errors a check has read are still counted when it takes them
  off (`ErrorsAreCounted`), and the requests a sum of latencies was taken for are counted
  when it is divided by them, though the count is read a second time
  (`AveragesAreLatencies`).

`DispatcherProofs`:

* `DispatcherTypeCorrect`: types alone are not inductive, because a call hands its event to
  the queue. `Inv` adds that a call under way has an event (`CallsHaveEvents`) and that the
  loops spawned are the first so many (`LoopsInOrder`).
* `NoMonitorLeftRunning` (`NoOrphanMonitor`): what is true of a dispatcher that is not
  running is stronger than the property. An owner that is closing the channels has
  stopped every monitor already, so that there is one who is *stopping or starting* while any
  runs (`OrphanInv`).
* `DuplicatesAreBounded` (`PassesBounded`): a key passes as often as there are callers at most,
  because those that have passed and those that have seen it absent are together no more
  (`PassesInv`); a caller screens an event as absent only while nobody has passed with it.
  It needs the callers to be finite (`CallersAreFinite`).
* `NoEventIsLost` (`EventsAccounted`): the sum is inductive once the number of callers and of
  loops that hold an event is known to change by one with each of their steps
  (cardinalities of `InFlight` and `Dispatching`).

`BotProofs`:

* `BotTypeCorrect`, `NothingUnaccounted` (`EventsAndTradesAccounted`), `OnlyAMintKills`
  (`DiesOnlyOfAMint`), from one inductive invariant: a monitor that hands an event over
  has one (`HandsAnEvent`), the loop has a current event exactly while it trades, as
  long as the process lives (`TradesOnCurrent`: without it an event taken could replace
  one whose trade has not ended), and there is no loop before the end of Start
  (`LoopIsSpawned`).

`TradersProofs`:

* `NoncesAreDistinct` (`NoncesDistinct`) and `EveryTipIsCovered` (`TipsCovered`): both need what
  is *tracked* to be good, as replacements are built from it, and every nonce given out
  to be below the next one (`TradeInv`). That a suggested tip is allowed by the cap
  suggested with it is an invariant of the tracker (`PricesInv`): the cap is the base fee
  and two tips, limited, and the builder limits a tip lower. That is not so for any
  limits: the property is about those in the order of the defaults (`LimitsInOrder`), which
  are configured apart and which nothing compares. They are a premise of the property and
  no assumption on the constants. The smallest fees are not zero there, as a zero
  would be read as a fee that is not given. `BuildMevProtectedTx` needs no limit at all:
  its cap is the tip and 50 gwei, whatever the tip.
* `RelayGetsItOnce` (`RelayedOnce`): a body is sent by one attempt at most, whatever the
  number of attempts (`RelayInv`: nothing is received before, and a request succeeds only
  when it was).
* `OutcomesAreCounted` (`OutcomesCounted`): the numbers of callers that protect or execute
  change by one with each step that begins or ends one (`CallersCount`), and a reset
  carries those under way.

Only model-checked: the liveness properties (`CallsReturn` of three systems, `Drains`,
`NothingIsStuck`, `LoopSettles` of two, `StaleIsReplaced`, `HealthFollowsNode`), which rest on
fairness and `ENABLED`, out of TLAPS' reach.

## Disagreements found

Where the code does something else than its names and comments say, the models follow
the code, and a property that would fail makes the exception by name. `PROJECT.json` quotes
the lines.

In the strategies:

* `Manager.EvaluateAll` deadlocks with itself as soon as there is an active position: it
  holds the read lock and calls what takes the write lock (the exception in `CallsReturn`).
  `CalculateStatistics` can, when a writer comes between its two read locks.
* Concurrent evaluations of a stop loss can lower a stop (`Raced` in `StopNeverLowered`);
  the comment says "never lower it". Activating the trailing stop of a state made under a
  configuration with a lower stop lowers the price of sale (`Outdated` in
  `EffectiveStopOnlyRises`).
* `TrailingStop.UpdateConfig` accepts an initial stop above the entry, which
  `ValidateConfig` refuses (`Inverted` in `MCTrailingStop`).
* The evaluation history grows by one with every evaluation beyond 100
  (two results in, one out: `recordEvaluation`); the comment says "Keep only last 100 evaluations".
* The manager's `UpdateConfig` reaches neither the criteria nor the limits the filter and the
  sizer were built with (`sizer` in `ExposureBounded`); `UpdateCriteria(nil)` is accepted and
  panics at the next use; `applyMaxPerToken` looks at the first open position of a
  token only; `EstimateExitValue` cancels the value of the position out.

In the monitors:

* After Stop and Start the dispatcher says it is running with its channels closed
  and the next event that passes the filter panics.
* `Bot.Stop` returns while a trade is under way, and `main` exits.
* `Stop` of a Solana monitor closes channels on which look-ups still send, and wakes
  those blocked on `errorChan`, which nothing ever reads: the process dies. And a loop
  that is past its check dials once more after Stop has hung up (`LoopSettles` has
  to make that exception, for Solana and for Base; `OpenIsUsed` bounds it, for Solana). The Pump.fun monitor also checks the
  wrong index in parsing a transaction (`FetchPanics`).
* The headers the block tracker stores are hollow, so that every head looks like a
  reorganisation of the one before until a check has put the node's header in its place.
  And a head handled between a check's two writes leaves its mark on another block's
  header for good (`raced` in `CheckSettles`).

In the traders, the wallet and the pool:

* A replacement is raised from fees of zero, and a cancellation goes to the original
  recipient; a retried protection has no body left; protection cannot be switched
  off; Jupiter's swap request is sent without body and context; only the total of a fee
  estimate is multiplied and capped.
* Fee limits hold in some places only: `CalculateMaxFeePerGas` caps at 100 gwei where its test
  asks for 110 (`evm_test.go:312`); `BuildMevProtectedTx` never caps, and nothing reads the
  `MaxFeePerGas` of its configuration; `BuildSwapTransaction` sends a priority fee as it
  is given, which `ExecuteSwap` caps; `EstimateSwapCost` adds micro-lamports to lamports.
* `WriteFileAtomic` is not atomic when two Saves overlap: `TornOnlyIfShared` and
  `PublishedIsCurrent` have to make the exception. `createBaseWallet` generates its key on
  P-256 and not on secp256k1. `ChangePassword` encrypts the keychain file anew but leaves
  every key in it sealed under the old password, so that a `Manager` with the new one
  loads the file and opens nothing.
* `GetEndpoint` returns an endpoint "as last resort" with an error, for which every caller
  gives up.

## Not modelled

* The logger, the metrics and the configuration: output nothing reads back, and a file
  loaded once. The signal handler: `main` does not use it. The token analyzer: it keeps
  nothing, and `EntryDecision` takes any score. The geyser monitor and the swap
  simulator: the one is a simulation that cannot fail, the other is called by nobody.
* Of the traders: signing and its statistics, the encoding of calls, the L1 fee, estimates
  of gas, and the sizes of fees on Solana (multiplier, history, levels, limits), on which
  nothing else depends; what is wrong with them is under the disagreements. Of the Base
  monitors: the parsing of logs and transactions, and token metadata.
* Chain queries, HTTP and RPC are I/O and appear as nondeterministic outcomes. Status
  queries and moving averages that nothing reads change nothing else.
* The keychain and the wallet manager: they have no lock and one caller, and `main`
  creates keys but never saves or loads them. See the plan.

## Plan

1. *Keychain*: which password opens which key, and which address belongs to which
   key, across export, import, ChangePassword, Save and a crash in the middle of it,
   which overwrites the only file in place.
2. An abstract queue that accounts for what it accepts, which `Dispatcher`, `Bot` and
   `LogsMonitor` implement.
