# Verification of binance-bitget-bot

The program trades the price difference of one coin between Binance and Bitget
(spot and USDT futures). It shows local order books, computes opportunities, and, when
the user asks, opens or closes a position of two legs: one order at each of two
markets, the second placed when the first has filled. It is a Python desktop program:
a Qt user interface, one thread pool for trading calls, one for market data, and one
thread per WebSocket connection.

This directory holds TLA+ models of the parts where an interleaving, a crash or a
late answer decides whether money is lost, TLC runs that check them on small
instances, and proofs that TLAPS checks for every instance.

    cd tla
    tlc -config OrderService_threads.cfg MCOrderService.tla
    tlapm OrderServiceProofs.tla          (and each other ...Proofs module)

## 1. Inventory

### 1.1 Components

| Component | Code (under `src/`) | State it keeps | Operations |
|---|---|---|---|
| Idempotent order service | `app/execution/order_recovery_service.py`, `preflight_validator.py`, `client_order_id_factory.py` | six dictionaries and sets over client order ids (`_requests`, `_submitted_requests`, `_orders`, `_uncertain`, `_attempted`, `_contexts`) and a journal file | `submit`, `confirm_and_submit`, `refresh`, `recover_pending`, `record`, `register_context`, `complete_context`, `set_confirmation_required`, load at start |
| Opening coordinator | `app/execution/execution_coordinator.py`, `dual_leg_executor.py` | per plan: requests, orders and reconciler of both legs (`_contexts`), last result (`_results`) | `start`, `restore`, `resume`, `reconcile`, and `_advance` behind them all |
| Closing executor | `app/execution/position_close_executor.py`, `app/domain/arbitrage/arbitrage_position.py` | per close operation: legs, orders, the position, retries | `start`, `restore`, `resume`, `retry`, `reconcile` |
| Execution worker | `app/workers/execution_worker.py` | a pool of one thread, `_recovering_ids`, a monitor thread | submit of each of the above, `recover_pending`, private orders, shutdown |
| Order reconciler | `app/execution/fill_tracker.py` | last order per key, fills seen, fees, snapshot boundary | `apply` of an order or a fill |
| Local order book and its synchronization | `app/domain/market/order_book.py`, `app/workers/market_data_worker.py` | levels, sequence, validity; buffer of updates per instrument; active and tracked instruments | depth message, snapshot load, replay, subscribe, select, track |
| WebSocket transport | `app/exchanges/base/websockets_client.py` and the clients built on it | connection, stored subscriptions, pending acknowledgements | connect loop, send, subscribe, unsubscribe, stop |
| Binance futures private stream | `app/exchanges/binance/websocket/futures_private_ws.py` | listen key, generation | start, keep-alive, rebuild, stop |
| Account store | `app/accounts/account_service.py` | balances and positions with a cursor per scope | apply snapshot, apply update |
| Trading rules and opportunities | `app/domain/instruments/instrument.py`, `app/strategy/*` | none (arithmetic over `Decimal`) | normalize, compute |
| REST clients and mappers | `app/exchanges/**` | credentials, HTTP session | create and query orders, snapshots; stateless mapping of JSON |
| Position state and presenters | `app/application/services/position_service.py`, `app/ui/presenters/*` | positions in memory, what the user has armed | user commands, results of the worker |
| Runtime, views, configuration, logging, credentials | `app/bootstrap.py`, `app/container.py`, `app/ui/views/*`, `app/infrastructure/*` | wiring, widgets, files | start, stop, display |

### 1.2 How they interact

    user -> presenter -> ExecutionWorker --(pool, one thread)--> OpenExecutionCoordinator
                                                              \-> closing executor
                      both -> IdempotentOrderService -> journal file
                                                    \-> TradingClient (REST) -> exchange
    exchange -> private streams (threads) -> ExecutionWorker.on_private_order -> the pool
    exchange -> public streams (threads) -> LiveDataWorker -> books -> opportunities -> UI

A trading call runs from the pool's thread down to the REST call and back. Private
stream events do not interrupt it: they queue for the same thread. The order service
holds its lock for the bookkeeping before and after a REST call and *not* during it.
The journal is written by replacing the file, in the same critical sections. After a
restart the memory of the order service is rebuilt from the journal, the coordinator
starts empty, and a monitor asks for the restored plans when the private streams are
ready.

### 1.3 What is hard, and what makes each part correct

- **Order service.** A create request whose answer does not come may or may not be an
  order. The process may end between the claim of an id, the request, the answer and
  each journal write. Correct when no id ever has two orders, when the journal names every
  order that may still trade, and when an order is taken for finished only if it is.
- **Opening coordinator.** `_advance` runs from four entry points on the same plan, at
  any time and in any order. Correct when the second leg follows a filled first leg
  only, when a plan is "completed" only if both legs filled alike, when a deferred leg
  waits for the user, and when a final result leaves nothing trading.
- **Execution worker.** One thread for everything: correct when every task ends and
  when recovery neither blocks nor skips a plan.
- **Closing executor.** Like opening, on an existing position, with retries: correct
  when no retry closes more than is left.
- **Order reconciler.** Snapshots and fills arrive late, twice and out of order.
  Correct when every fill counts once.
- **Order book.** Updates, snapshots, reconnections and deselection race. Correct when
  a book that says it is valid equals the exchange's at its sequence.
- **Transport and private streams.** Correct when every stored subscription is sent on
  every connection, when stop ends the thread, and when a lost listen key is replaced.
- **Order entry.** Correct when an unfinished plan stays in the user's reach and the second click
  opens what the first one prepared.
- **Trading rules and opportunities.** Correct when the quantity is the largest both exchanges can
  execute, and the second leg as close to the first as they allow.
- **Account store.** Correct when an older message never replaces a newer one.

`PROJECT.json` lists the hazards of this kind at their lines, with the properties that cover them.

## 2. Modules

| Module | Models |
|---|---|
| `Exchange` | the order side of an exchange, as the callers observe it (external to the repository) |
| `SubmitOnce` | abstract specification: what the order service promises |
| `OrderService` | `IdempotentOrderService`, its journal and its restart, on top of `Exchange` |
| `OrderServiceProofs` | the theorems about `OrderService` |
| `OpenCoordinator` | `OpenExecutionCoordinator` as `ExecutionWorker` runs it, on top of `OrderService` |
| `OpenCoordinatorProofs` | the theorems about `OpenCoordinator`, on top of `ExecutionWorkerProofs` |
| `ExecutionWorker` | the one-thread pool of `ExecutionWorker`, its recovery and its monitor, on top of `OrderService`; extended by the two executors |
| `ExecutionWorkerProofs` | the lemmas about the service and the worker that the proofs of both executors use, on top of `OrderServiceProofs` |
| `CloseExecutor` | `PositionCloseExecutor` as `ExecutionWorker` runs it and `PositionPresenter` drives it, on top of `ExecutionWorker` |
| `CloseExecutorProofs` | the theorems about `CloseExecutor`, on top of `ExecutionWorkerProofs` |
| `OrderBook` | `OrderBook` and the replay of buffered updates, as operators |
| `BookSync` | `LiveDataWorker`'s handling of one book on three threads, on top of `OrderBook` |
| `BookSyncProofs` | the theorems about `BookSync` |
| `AccountStore` | `AccountStateStore` of one scope, fed by `LiveDataWorker` |
| `FillTracker` | `OrderReconciler` for one order: quantities, fees, times |
| `Instruments` | the instrument mappers' selection, `InstrumentRegistry`, and how private messages find their instrument |
| `Opportunity` | `calculate_opportunity`, the trading rules and the requests of both legs, as operators and four steps |
| `LiveDataProofs` | the theorems about `Instruments`, `Opportunity`, `FillTracker` and `AccountStore` |
| `WebSocketClient` | `ThreadedWebSocketClient` and the callers on other threads |
| `FuturesStream` | `BinanceFuturesPrivateStream`: listen key, generations, keepalive, rebuild, stop |
| `StreamProofs` | the theorems about `WebSocketClient` and `FuturesStream` |
| `RecoveryMonitor` | `ExecutionWorker` with several plans: queue, monitor, shutdown, signals to the user interface |
| `OrderEntry` | `OrderEntryPresenter`, on top of `RecoveryMonitor` |
| `OrderEntryProofs` | the theorems about `OrderEntry` and the `RecoveryMonitor` below it |
| `MC...` | the same modules, for TLC |

### 2.1 Exchange

`creates[k]` is the history of the create requests sent for a client order id, each
`flying`, `accepted`, `refused` or `lost`; `market[k]` is the order the exchange holds.
A request that has left goes on after the process has died. An exchange accepts at
most what was sent; nothing in the model keeps it from accepting two requests with
the same id, because the code relies on itself and not on the exchange for that.
Statuses are those the code tells apart: not yet terminal (`new`), `filled`, and
`canceled` for the three other terminal ones.

### 2.2 OrderService

State is named as in the code, without the leading underscore. `call[t]` is the stage
a thread has reached inside the service: a critical section under the lock is one
step, a REST call is two (the request leaves; the answer is taken), so anything may
happen in between. `journal` is what the file holds; `Persisted` is a write that
succeeds, `WriteFails` one that raises `OSError`: memory then stays ahead of the file, as in
the code. `Restart` is both the crash and `_load_journal`.

An operation of the code is an operator of the same name (`submit` is `Submit`, split
into one disjunct per branch; `_send_prepared` is `CreateSend` and the five `Create...`
outcomes; `_recover` is `QuerySend` and the three `Query...` outcomes).
`CreateUnreadable` is the path on which the mapper raises `OrderDataError`, which is
no `ExchangeRestError` and leaves the service with nothing recorded.

Callers are restricted by `MayName` and `MayRegister`: an id is new, or one this process or a
recovery context knows, and only an order that was seen is refreshed. That is what
`ClientOrderIdFactory` and the coordinators guarantee except for the case of section 5,
finding 1, which the composed model shows.

Abstracted: the other fields of a request (a request is its key and its quantity), the
instrument's status and minimum notional (part of `Preparable`), the encoding of the
journal, sleeping and logging.

### 2.3 SubmitOnce

Three variables (the last attempt to place each id, the ids whose order is over, the
ids a durable book tracks) and the rule that an id is placed only when every earlier
attempt was refused and the book tracks it, and leaves the book only at rest.
`OrderService` implements it under the mapping `ledger` = last element of `creates`,
`closed` = ids with a terminal order at the exchange, `tracked` = ids in the journal.

### 2.4 ExecutionWorker

EXTENDS `OrderService` with what both executors share: `task` is what the only thread of the pool is
executing, `recovery` the progress of `recover_pending` and the monitor (`query`, `restore`, `leave`; `stuck`
after an exception of the restored plan). A task alternates calls of the service (the actions of
`OrderService`, with the thread `Pool`) with steps of its own; `At(stage)` is a step of the task,
`After(stage)` takes the answer of a call, and `Finish`, `Raise` and `RaiseNotReady` are the three ways a
task ends. Starting an operation asks for `RecoveryComplete` (`_require_recovery_complete`).

`Reconciled` abstracts the reconciler: fills and timestamps are left out, and a
snapshot may be taken for out of order whenever a clock that runs ahead makes it so.

### 2.5 OpenCoordinator

EXTENDS `ExecutionWorker` and adds one plan: `plan` is the `_OpenContext`, `result` the entry of
`_results`. The operators follow `_advance` from top to bottom: `AdvanceDeferred`, `AdvanceNotReady`,
`AdvanceKnown`, `AdvanceSubmit`, then `Sent`, `RecordLeg`, `Recorded`, `Follow`, `Registered`, and
`Store` with `Complete`. `Start`, `Resume`, `PrivateEvent` and `Restore` are its four entry points.

`LateEvents` says whether private events still arrive after a final result,
`StreamsFail` whether `before_submit` may refuse, `Garbled` (of `OrderService`) whether a successful
answer may be unreadable. They are constants because each opens a behaviour the code
does not survive (section 5): the runs that pass say under which of them each property
holds.


### 2.6 CloseExecutor

EXTENDS `ExecutionWorker` with one position of two legs, opened with equal quantities, and a bounded
number of attempts to close it: the first `start` and the retries, each with fresh client order
ids (`KeyOf`). `plan` is the `_CloseContext`, `base` the `original_position` an attempt started from (it is in
the context and in the journal, so it survives a restart), `result` the last `PositionCloseResult` with the
quantities that remain. A result is `posted` to the user interface through a queued signal
and `shown` when it has arrived (`Deliver`); the presenter decides by what it shows
whether the user's click is `SubmitClose`, `ResumeClose` or `RetryClose`, and the executor by what it holds.

`ExchangeTrades` binds the exchange to the quantity asked for: an order fills by it, or, with `ShortFills`, by less,
as a market buy by quote amount does. What all attempts have closed of a leg (`Filled`), and what their orders
might still close (`Exposure`), are sums over the attempts: `Total`, a recursive function. The presenter's checks at the click and the executor's when the task runs are
one action: tasks queued before the click's task are ordered before the click, which loses no state of
the executor, because the executor repeats every check it relies on when the task runs. `LateEvents` also covers the events of an attempt that was
retried. Left out: profit, fees, prices and their age, the selection in the table.

### 2.7 OrderBook and BookSync

The exchange numbers its changes; a change sets the quantity of one price, and a quantity stands for
the change that set it, so `Truth(n)` is the book after n changes and a wrong level is visible as
such. An update reports a range of changes; `Update` gives it the fields each venue uses (Binance
spot has no previous sequence, Bitget's first sequence is the previous one). `valid` is `_is_valid`, whose negation is
always `_requires_snapshot`. One side of the book stands for both, as the code treats them alike.

`BookSync` has one step per critical section of the lock. `message` is what the WebSocket thread has
found wanted and not applied yet, `load` the call of `_load_snapshot` the pool executes, `sync[c]` what is left of
`_sync_subscriptions` in `track_positions` on the thread of the user interface ("gui") and in `_select_symbol` on the pool ("pool"),
`wanted` which of the two wants the instrument, and `request[c]` the rest of `_request_snapshot` in each of these threads: the flag is set in one critical section, the
load submitted or the subscription renewed after it. The exchange is external: changes it makes and reports
at times of its own, connections that are lost with what was on its way, a REST answer with the book
of that moment.


`contended` is a history variable: two threads changed the subscription at the same time. The code decides under
the lock what to subscribe and does it after it, so then the last one wins; `SettledIsSubscribed` excepts it.

### 2.8 AccountStore

One scope per behaviour (Binance spot, Binance futures, Bitget's unified account), in one-way or hedge mode. A
value is the number of the change that made it, `ticks` the millisecond of each change, so that a sequence may be
shared by two changes as in the program. `Decision` is `_decision`; a message is a snapshot of components or an update
of items, with the rows the account mappers make of it (`StreamMessages`, `PositionRows`, `LatestOf`). The messages that are applied under one
lock name different components, so `ApplyMessages` is stated by item (`Replaced`) and by component (`Advanced`). `lost` and `torn` are history variables:
what no message will deliver, and what changed between the two requests of a Binance futures snapshot.

### 2.9 FillTracker

One order. `trades` is what the exchange did; a message is a view of the order after some of the fills
(`OrderViews`, with the fees and fills each venue's mapper gives it), a fill, or Bitget's acknowledgement with its own time; any
message may come late, twice, in any order or not at all. `ApplyOrder` and `ApplyFill` are the reconciler's two
branches, `ValidOrder` the checks of `Order.__post_init__` that the merged order could fail. Quantities and fees of a set
of fills are sums (`Total`), a recursive function over the number of fills.

### 2.10 Instruments and Opportunity

`Instruments` loads the four product lists one by one, replaces the registry, and resolves order and position
events as `handle_private_message` does. `Opportunity` is arithmetic over whole numbers (an average price is the
fraction notional / quantity): the walk over the depth, the quantity an amount buys, the common step, both kinds of
validation, and the follow-up quantity. Its initial states are all books of the instance, and its
properties compare it with definitions by all ways to take a quantity from the levels.

### 2.11 WebSocketClient

The loop thread goes through `phase`; `call[c]` is what a caller has done of a `subscribe` or `unsubscribe`: it stores
under the lock, reads the connection, and schedules the send, and the loop activates a connection under the same
lock. `outbox` are the sends scheduled on the loop, `server` what the exchange holds for the connection. `Clients` chooses a market
stream or Bitget's private client, which waits for acknowledgements. `failures` and `contended` are history variables.

### 2.12 FuturesStream

Three threads: the pool of one thread that starts and stops the stream (`pool`), the keepalive thread (`loop`), and
the threads of the sockets, by generation (`sockets`). `step` is where `_replace_stream` is, whoever runs it. Every
REST call, join and start may fail (`Fault`), with either effect at the exchange. A stop that raises is "raised",
one that returns is "stopped".

### 2.13 RecoveryMonitor and OrderEntry

Here a plan is only what its coordinator may answer (`Outcomes`, `Deferrable`): the legs are in `OpenCoordinator`. `tasks` is the
queue of the pool, `running` its task, `monitor` the place of `_monitor_recovery`, `answer` the future it waits for, `ending`
the place of `shutdown` (`CancelFutures` runs the callbacks of what is queued), `signals` the results on
their way to the thread of the user interface. `OrderEntry` adds the presenter: the opportunity that is selected, the two buttons,
`armed`, and the two places for an unfinished plan. `prepared`, `displaced`, `overtaken` and `together` are history
variables that name the exceptions of the properties. Only opening plans are shown; closing ones take the same way through queue and monitor.

### 2.14 Composition

The order service is composed with the worker and each executor by EXTENDS, and the order entry with the worker. The parts of
`MCLiveData` and of `MCRuntime` share no state, so a behaviour of the instance is about one `part` and the others rest: each property
is checked for its part in the same run. How the parts hang together is stated at their borders: `FuturesStream` sees of its WebSocket
client only that it has ended; `BookSync` sees a set of subscriptions where `WebSocketClient` shows that the exchange holds what is
stored; `Reconciled` of `ExecutionWorker` is what `FillTracker` does to status and quantity.

## 3. Runs

| Run | Asks | Bounds |
|---|---|---|
| `OrderService_threads` | type correctness, journal completeness, truth of terminal orders, one write for confirmation and claim, refinement of `SubmitOnce` | 1 id, 2 threads, quantities below and on the step, 1 restart, 1 failing write |
| `OpenCoordinator_restart` | at most one live create, second leg after filled first, a deferred leg waits, every task ends (liveness) | 2 legs, failing streams, unreadable answers, a restart at any instant |
| `OpenCoordinator_fills` | completed means hedged; a final result leaves nothing trading | fills 0..2, minimum 2, legs of different quantity, readable answers, streams up, a restart, a failing write |
| `OpenCoordinator_late` | finding 1 of section 5 | the smallest instance that shows it |
| `CloseExecutor_restart` | a final result says what remains | 2 attempts, fills 0..2 of 2, a restart at any instant |
| `CloseExecutor_short` | no leg is closed beyond the position; closed means flat | 2 attempts, orders filled short, late events |
| `CloseExecutor_streams` | at most one live create; a deferred leg waits | 1 attempt, quantity off the step, failing streams, unreadable answers, late events, a restart, a failing write |
| `CloseExecutor_deferred` | finding 2 of section 5 | the smallest instance that shows it |
| `LiveData_parts` | book: types and the buffer's capacity, a valid book is the exchange's, the pending flag is up exactly while one snapshot is loaded, a settled instrument is subscribed if and only if it is wanted. Account: cursors within the clock, no change lost or undone but in the named ways. Reconciler: nothing counted twice and no true message raises, the last word counts. Registry: an event finds its own instrument. Opportunity: the best quantity and prices and refusals by the tick only, the hedge as close as the rules allow | book: 3 venues, 4 changes, buffer of 2, 1 lost connection, failing REST, 3 toggles on two threads; account: 2 assets, 2 changes, 2 refreshes, 1 lost connection; order: 3 fills with fees 0..2, quantity 3; 6 products; 3 prices with sizes 0..2, 3 rule sets, 3 amounts |
| `LiveData_shadow` | finding 4 of section 5 | the registry alone |
| `Runtime_threads` | socket: the exchange holds what is stored and has acknowledged it, gives up only after all attempts, stop ends. Stream: one socket, a clean stop, a lost key is replaced, shutdown ends the thread. Worker: recovery ends and leaves no plan behind, shutdown returns and leaves nothing. Order entry: an unfinished plan stays in reach of the buttons and they of no other, the second click opens what the first prepared, no second start | socket: 2 keys, 2 callers, 2 requests, 4 connections, 2 attempts; stream: 4 faults; worker: 2 plans, 2 events, 1 exception; entry: 2 opportunities, 2 clicks |
| `Runtime_dead` | finding 3 of section 5 | the stream alone, 3 faults |


Why the bounds are enough. Ids are independent in the service except in three places:
the batch of `recover_pending`, the conflict between contexts, and the legs of one context.
The runs of the executors have two or four ids, so recovery queries batches; the theorems
cover any number. One restart lets every action follow a journal an earlier process
wrote, and one failing write is the least that lets memory and file differ; the theorems
cover any number of both. One step of `Fills` separates "nothing", "partly" and
"filled" because status and quantity are separate fields; the runs about quantities have
two. Two attempts are the least in which a retry meets the orders and events of an
earlier attempt. Create requests of an id are bounded by the restarts.

Of the book, two prices tell a wrong level from a missing update, four changes leave room for a snapshot,
a gap and a replay, a buffer of two overflows, and three toggles track, drop and track the instrument again. Of an account, two
changes are the least that can be reordered or share a millisecond, two assets the least of which a message names one.
Three fills are the least with one before, one at and one after a snapshot's time. Steps and ticks of 1, 2 and 3 have common
steps that differ from both. Of the socket, four connections are one more than two attempts need, so that a connection
is stable in between. Four faults are enough for a rebuild to fail in each of its calls. Two plans are the least that
can displace each other. The worker alone is checked without a presenter and with plans that have no names; with the
presenter the journal holds one plan at most, and with one there is one click and no exception (`EntryOpenNext`).

The other runs do not check deadlock: when the operation is over, the socket has been stopped or
the exchange has made its last change, and the bounds are used up, nothing is left to do. The run of `OrderService` checks it.

Every property of a passing run has a mutant, an operator beside the definition it changes, that
breaks it: a dropped guard, a missing journal entry, a forgotten id.

## 4. Proofs

Eight modules hold theorems and lemmas, beside the modules they are about. A theorem holds for every value of the
constants that the `ASSUME` of the module allows: any number of ids, threads, plans, keys, restarts, failed writes,
losses, clicks. Every proof has the same shape: an inductive invariant, one lemma for
each of its parts (or each action), with one step for each action that can disturb it, and the
theorem from `PTL`. An invariant
was first checked by TLC on the instances of section 3.

| Module | Theorem | States |
|---|---|---|
| `OrderServiceProofs` | `Invariance` | `Spec => []IInv` |
| | `TypeCorrect`, `NoSecondLiveCreate`, `LiveOrdersAreJournalled`, `TerminalOrdersAreTrue` | `TypeOK`, `AtMostOneLiveCreate`, `LiveOrderJournalled`, `TerminalIsTrue` |
| | `ConfirmationIsClaimed` | the action property `ConfirmationJournalledWithClaim` |
| | `Refinement` | `Spec => Desk!Spec` (`ImplementsSubmitOnce`) |
| `OpenCoordinatorProofs` | `OpenInvariance` | `OpenSpec => []OpenInv` |
| | `CoordinatorIsACaller` | `OpenSpec => Spec`: the program with its coordinator is a behaviour of the service |
| | `PlanPlacesOnce`, `SecondAfterFirst`, `CompletedMeansHedged` | `AtMostOneLiveCreate`, `SecondFollowsFilledFirst`, `CompletedIsHedged` |
| | `FinalResultsRest` | `FinalMeansAtRest` |
| | `DeferredWaits` | the action property `DeferredWaitsForUser` |
| `CloseExecutorProofs` | `CloseInvariance` | `CloseSpec => []CloseInv` |
| | `ExecutorIsACaller` | `CloseSpec => Spec`: the program with its closing executor is a behaviour of the service |
| | `ClosePlacesOnce`, `NothingIsOverclosed`, `FinalResultsAreTrue`, `ClosedMeansFlat` | `AtMostOneLiveCreate`, `NeverOverclosed`, `RemainingIsTrue`, `ClosedIsFlat` |
| | `CloseWaitsForUser` | the action property `ConfirmedByUser`, while no write fails |
| | `ConfirmedWhileWritten` | the same step by step, until the first write that fails |
| `BookSyncProofs` | `SyncInvariance` | `SyncSpec => []SyncInv` |
| | `QuotedBookIsTrue`, `FlagIsOneLoad`, `SubscribedAsWanted`, `BufferKeepsCapacity` | `BookIsTrue`, `PendingIsOneLoad`, `SettledIsSubscribed`, `SyncTypeOK` |
| `LiveDataProofs` | `EventsFindTheirInstrument`, `HedgeIsLargest` | `ResolvedToItsOwn`, `HedgeIsClose` |
| | `FillInvariance` | `FillSpec => []FillInv` |
| | `NothingIsInvented`, `TheLastWordCounts` | `NothingInvented`, `LastWordCounts` |
| | `AccountInvariance`, `AccountTypes` | `AccountSpec => []AccountInv`, `AccountTypeOK` |
| | `NothingElseLost` | `NothingElseIsLost` |
| | `NothingGoesBackward` | the action property `NothingGoesBack` |
| `StreamProofs` | `SocketInvariance` | `SocketSpec => []SocketInv` |
| | `SubscriptionsAreRestored`, `AttemptsAreUsed` | `ServerFollowsStore`, `GivesUpLate` |
| | `StreamInvariance` | `StreamSpec => []StreamInv` |
| | `NeverTwoStreams`, `StopLeavesNothing` | `OneStream`, `StoppedIsClean` |
| `OrderEntryProofs` | `EntryInvariance` | `EntrySpec => []EntryInv` |
| | `RecoveryIsComplete`, `PlansStartAlone`, `UserReachesPlans` | `RecoveryLeavesNoPlan`, `StartsAlone`, `UnfinishedIsReachable` |
| | `ClickSendsWhatWasPrepared` | the action property `OpensWhatWasPrepared` |
| | `ShutdownIsFinal` | `[](Returned => []Over)`: what shutdown left stays so |

### 4.1 What is assumed

Of the constants, the named assumptions, which TLC evaluates on every run:

| Assumption | Says | Because |
|---|---|---|
| `ServiceAssumption` | bounds are natural numbers, 0 is a fill, quantities, steps and minima are positive | `TradingRules` refuses others (`_positive_decimal`) |
| `PlanAssumption`, `WorkerAssumption` | a plan has two legs with ids of their own; the pool has one thread | `_OpenContext`, `ThreadPoolExecutor(max_workers=1)` |
| `CloseAssumption` | a position is of a positive quantity, there is an attempt, and every id is that of one leg of one attempt | `ClientOrderIdFactory` never issues an id twice, and each attempt takes fresh ones |
| `PartAssumption` | what `prepare_order` makes of a part of a position is a quantity | as the next |
| `FillAssumption` | an order has a positive quantity, and the fees of its fills are numbers of one sign | `Order.__post_init__`; the reconciler compares fees by their magnitude (`abs` in `_apply_order`), so a charge on one fill and a rebate on another of the same order are not modelled |
| `AccountAssumption` | no asset is called "long" or "short"; the scopes are the three there are | sides of a position and assets are kept apart (`_balances`, `_positions`) |
| `QuantityAssumption` | what `prepare_order` makes of a fill or a quantity is a quantity | it is a set the instance chooses, closed under the code's rounding |
| `BookAssumption`, `SyncAssumption`, `SocketAssumption`, `StreamAssumption`, `EntryAssumption` | the bounds are natural numbers; the buffer holds something; each change of a book touches a price | the model's own bounds |
| `MonitorAssumption` | "none" is no plan | it stands for `None` |
| `ProductAssumption` | an exchange lists one product that is not a delivery contract for each market and symbol | what the registry relies on; `_items` of the registry has one entry for each; the mappers skip delivery contracts |
| `OpportunityAssumption` | ticks, steps, minima, prices and amounts are positive | `TradingRules.__post_init__`, `OrderBookLevel` and the order panel refuse others |

Three constants of the executors choose a behaviour of the outside (section 2.5), and the theorems about
`OpenCoordinator` and `CloseExecutor` name the choice as a hypothesis instead of hiding it:

- `LateEvents = FALSE` in all those about `OpenCoordinator`. With `LateEvents` the statement of `PlanPlacesOnce` is false:
  `OpenCoordinator_late` is the counterexample (finding 1), and `CoordinatorIsACaller` fails at that
  step, where the coordinator registers a context whose orders the service has forgotten. Unreadable answers, failing
  streams, any number of restarts and failing writes are covered.
- `StreamsFail = FALSE` and `Garbled = FALSE` in `FinalResultsRest` too: with either, a plan can be reported failed while
  its order may trade (section 5, finding 2 and the first of the unlisted behaviours). Restarts and failing writes are covered.
- `Calm`, which is the same two, in the theorems about `CloseExecutor` except the last two. Without it `NeverOverclosed`
  is false: `CloseExecutor_deferred` is the counterexample (finding 2). Late events, also those of earlier attempts, orders filled
  short, restarts and failing writes are covered, in any number.
- `MaxFaults = 0` in `CloseWaitsForUser`, and nothing else: streams fail, answers are unreadable and the process restarts as it likes.
  With writes that fail the property is only model-checked. `CloseExecutor_streams` allows one. With two, TLC finds no violation
  either, on one attempt with everything else allowed and on two attempts without restarts and late events: a failed
  registration raises and ends the task, so that no claim follows it. `ConfirmedWhileWritten` needs no
  hypothesis and says how far the proof reaches when writes fail: up to the first that does.

### 4.2 The order service

None of the safety properties is inductive. `AtMostOneLiveCreate` needs to know that an id in the
`create` stage was never sent, or was refused, which holds because it is in `attempted` and no other thread
holds it (`CallInv`), because an id that may be named again is in `attempted` or settled (`AttemptInv`), and,
across a restart, because an id that is not settled and still in a context is in the journal
and so in `attempted` again (`PendingInv`). `PendingInv` is stated twice, of the memory and of the file: a
failing write makes them differ, and each must hold by itself, the file because a
restart starts from it, the memory because the next write copies it. `MarketInv` ties the
order at the exchange to an accepted request, which makes the answer of a query proof
that the id is not settled. `TerminalIsTrue` holds with its counterpart for an answer on its way
(`CallInv`, stage `asked`): a terminal order does not change, so an old terminal answer is still true.

There is one lemma per action, with one step per conjunct the action can disturb;
actions that change neither `creates`, `market` nor the dictionaries are handled together
(the `Quiet...` lemmas). The refinement maps each step to one of `Place`, `Settle`, `Close`, `Rewrite` or a
stutter, and uses the invariant for the guard of `Place` and of `Rewrite`.

`ConfirmationIsClaimed` is about one write of the journal and still needs the past. While no write has failed, the journal
holds what the memory held; the only operation that clears a flag and keeps the context is `confirm_and_submit`, which names an
id. The claim is *new* in the journal only if nobody has claimed the id before, which `ClaimedInv` says: an id that is pending in the
file has been attempted or has an order in memory, so `submit` would have refused it. `Effect` collects what every call of the
service does to the flags, the claims and the orders, and is proved once per call.

### 4.3 The opening coordinator

`OpenCoordinator` EXTENDS the service, so the service's lemmas are used in place, and those that the closing executor needs as well
(`SettledInv`, `Past...`, `PreparedTwice`, what a call of the service answers) are in `ExecutionWorkerProofs`: `OpenStepIsAllowed` shows that each
step of the coordinator is a step the service's `Next` allows its callers, which gives `IInv` and
`CoordinatorIsACaller`. That uses `NamedInv` (a plan that is not over keeps its context, with both its legs, in memory), `StartInv` (nothing
happened before the user started the plan) and `TaskInv` (the task and the service agree on who works on which leg).

`SecondFollowsFilledFirst` and `CompletedIsHedged` are about the exchange, while the coordinator decides on its copies, which may
be stale. `PastInv` closes the gap: every order that the plan, the service or an answer on its way holds is one that the exchange has
had (`Past`), and a past order that is terminal is what the exchange holds for good (`PastFacts`, `PastGrows`). `FollowInv` carries
"filled", and with it the quantity of the second leg, from the check in `_follow_up` through the calls in between.

`FinalResultsRest` adds seven facts. An id that was attempted, is not uncertain and has no order was refused (`SettledInv`), so
that "no order" in the service means none at the exchange; a submission that failed has left nothing
behind (`FailInv`). A final result that rests on the quantities ("completed", "quantity_mismatch") needs that both legs
were asked for what they would be asked for again: `FirstInv` says that all places that name the first leg (the plan, both
dictionaries, both contexts, the journal) ask for one quantity, which rounding leaves alone (`PreparedTwice`), and `SecondInv` that the
second leg is asked for the fill of the first. `FlagInv` excludes the deferred path.

`DeferredWaits` compares the result, the flag in the context, the flag in the file and who began the task. `DeferredInv` says that a deferred
plan keeps its flag until the task that the user confirmed has claimed an order, so that any other task stops at `MustConfirm`; `ClaimedInv`
carries the flag into the file. A confirmed task must not end between the claim and its outcome with the old result: it would if the
service answered `oserror`, which needs a failed write (`HealthyInv`), or `KeyError`, which `submit` raises for an uncertain id that is not
pending. `UncertainInv` excludes that: an uncertain id is pending, and a pending one was attempted or has an order, also while it is being asked for.

### 4.4 The closing executor

The sum of what several attempts close, each with fresh ids that the service cannot relate to each other, must stay within the
position. Nothing in the code adds them up: an attempt starts from what the final result of the one before says remains, and that
result is computed from the executor's copies of the orders. So each property leans on the others, and `CloseInv` carries
all of them together:

- A final result may be believed. `OrdersPast` and `AnswerPast` say that every order the plan, the service or an answer holds is one
  the exchange has had; `SettledInv` and `FailInv` (as for the opening coordinator, section 4.3) that a leg without an order has none
  at the exchange; `OverInv` that a plan that is over is at rest, and that a leg still due was tried.
  `RestingLegs` says when a leg is at rest, `StoredRests` that a final result finds both legs of its attempt at rest, and `LegsRest` that what
  it computes is then what the exchanges have left. It stays so, because a terminal order does not change, and no leg of a plan that is over is sent again.
- An attempt asks for no more than it started from. `AskedInv` says that every place that names an id (both dictionaries and the
  journal) asks for the rounded quantity of its leg and attempt, so that a resume, a restore or a late event cannot ask for another;
  `FillInv` that the exchange fills no more. Rounding never adds.
- An attempt starts from what all others left. `WholeInv` says it of every attempt that the program may still go on with, which is
  the one of the plan and those of the contexts in the memory and in the file, and that no order of another attempt may trade. It is what `retry` and `start` must establish, and what restarts and late events must not break: a context of an earlier attempt that
  the file still holds after a failing write (`NamedInv` says what a context can be) is one that still began with all that the others left.
- `SendsWithin` combines the three: what is sent stays within the position. `PlacedInv` and `FollowInv` say when the second leg is sent at all.

`ResultInv` and `ShownInv` relate the stored result to the one that is on its way to the presenter and the one that it shows: the
position that is shown decides what the user's click is, and it may be closed anew only before the first attempt or after a result
that can be retried.

The sums are over any number of attempts. `Total` is a recursive function over the numbers below an attempt; `TotalShift` (one summand
changed), `TotalChange` and `TotalBelow` (no summand is larger) are proved by the least attempt that would be a counterexample, as the replay of the book in section 4.5.

`ConfirmedWhileWritten` needs less: `FileInv` says that until a write fails the file has the memory's contexts, so that
the executor's check of the flag (`MustConfirm`) sees what the journal has. Whoever claims an id has passed that check, or was confirmed.

### 4.5 The book

`BookIsTrue` is proved through `FeedInv`: the messages, the buffer, the loaded snapshot and the book are all built from the
changes of the exchange, and a valid book equals `Truth` of its sequence. `ApplyKeepsTruth` is the heart of it: `Apply`, with each venue's
rule of continuity, makes of the exchange's book of one change the book of a later one, or one that requires a snapshot. The replay of the buffer
is a recursive function over the sequences; `ReplayedExists` (there is a function with its equation) and `ReplayIsTrue` (its values are
`TrueBook`s) argue by the least sequence that would be a counterexample (`LeastExists`), in place of an induction theorem.
`PendingIsOneLoad` counts loads and threads that are about to start one (`MarkedCount`); `SettledIsSubscribed` needs
`SubscriptionInv`, which says what a thread in the middle of `_sync_subscriptions` knows, and `ThreadInv`, which says that a thread does
one thing at a time.

### 4.6 Registry and hedge

`LiveDataProofs` has no state to speak of. `RegistryInv` is: only tradable products are held, so `ProductAssumption` makes the
resolution unique. `HedgeIsClose` is arithmetic: the follow-up quantity is the fill rounded to the least common step of
the two rules (`CommonStepIsLeast`, `CommonAreMultiples`), and no larger quantity both rules allow is left (`RoundedIsLargest`).

### 4.7 The fills of an order

`NothingInvented` and `LastWordCounts` are proved for any number of fills with any quantities, fees and times, through
`Sound`, which accounts for the order and the snapshot boundary that the reconciler holds:

- its quantity is that of the last snapshot and of the fills known that are later; the snapshot told no more than
  was filled by its time, and no less than the fills known up to that time (`QuantityHolds`);
- on Binance its fee is that of the fills that are known, which the quantity covers; on Bitget it is at most that of the fills the
  snapshot covers and the ones that came besides, or, before a snapshot had a fee, of the fills (`FeeHolds`);
- it is over only with the outcome and all the fills of the exchange (`StatusHolds`), and of what it holds only an acknowledgement can be
  later than the exchange (`TimeHolds`).

The boundary is what makes this inductive: without its time, a fill that comes after the snapshot that covers it would count
twice. `ViewsAreTruthful` says what all messages have in common (`TellsOf`), and there is a lemma for each way to take one over:
as the first (`SoundFirst`), merged (`SoundMerged`), and as a fill (`SoundFilled`). `FinalViewSettles`, `LastWordStays` and
`FillAddsNothing` then say that a final message settles the order and nothing undoes it. A fill adds to the exchange's sums
and changes none of the earlier ones (`TotalAppended`), so what is held of an open order is still sound (`SoundGoesOn`). The sums are
over sets of any size: `SumsExist` and `SumsAdd` argue by the least number that would be a counterexample.

### 4.8 The account store

`NothingElseIsLost` and `NothingGoesBack` are proved for any assets and any number of changes, refreshes and lost connections. The
store decides by cursors, one for each component, and never looks at the times of the items it holds, so the invariant has to say what a
cursor stands for:

- A message is *fresh*: a later change of an item it names, wherever that may be met with (at the exchange, in the store, in another message),
  has a time after the message's sequence, or is excused (`Fresh`). So one that is applied cannot take a later value away. A snapshot of
  Binance futures is of two requests; `RefreshInv` says that what changed in between is `torn`.
- What a cursor has passed is in the store; what it has not is announced (`CursorInv`): a message on its way has the
  change, and none before it will move the cursor beyond it (`Announced`).
- The stream's messages come in order, and one that is behind one of its cursors is behind all (`InboxInv`). Without that, an
  update of two components that is refused for one of them would be lost for the other.

`ApplyIs` gives the effect of the messages applied under one lock, component by component. `ChangeIs` and `StreamIs` say what a change of the account
is, and that every item that changed, but for the side `Unnamed` has, is in a message of the stream; for a position in one-way mode that needs
that no side outside the change is held. `MessageStays` carries what is known of a message over a change. The sequence of a
snapshot of Binance is the greatest of a set (`MaxIsGreatest`, by `LeastExists`).

### 4.9 The WebSocket client

`ServerFollowsStore` says nothing of a key that a call still has underway, so the invariant says what those calls will make of
it: `CallsAgree` (a call of a key that is not contended carries what is stored) and `LastSendDecides` (of the sends scheduled on this connection
the last decides, or else what the exchange holds). `CountInv` ties `reconnects` to the history of failures for `GivesUpLate`.

### 4.10 The listen-key stream

Neither property of `FuturesStream` is inductive. That a rebuild never opens a second socket follows from `RebuildInv`: once the previous
socket is stopped none is held until `Open`, because the keepalive thread and the pool never rebuild at the same time,
which in turn follows from `StopInv`: the pool closes socket and key only after the keepalive thread has ended.
Generations are a sequence that grows without bound; the lemmas `Marked`, `GivenUp` and `Begun` say what each
kind of change does to it.

### 4.11 The order entry and the worker

`EntryInv` follows a plan wherever it is. `RecoveryInv` says that a plan of the journal that was not restored is in one of the monitor's
lists or is the one it waits for, which makes `RecoveryLeavesNoPlan` hold when both lists are empty; `QueryFirst` and `OneRestore` say that the
query is the first task of all and that the monitor waits for one task at a time. `ShownInv` says that the last signal of a
plan is its result, or, once its signals are taken, that the presenter's two places hold what it is: at
rest that is `UnfinishedIsReachable`. `PreparedInv` is what the second button would send; `ClickSendsWhatWasPrepared` uses it before the
click. `OneStarts` bounds what is queued. The queue and the signals are sequences of any length (`JobAdded`, `JobTaken`, `SignalAdded`,
`SignalTaken`).

### 4.12 Only model-checked

- Liveness (`TaskEnds`, `StopEnds`, `LostKeyIsReplaced`, `ShutdownEndsThread`, `ShutdownReturns`, `RecoveryIsAnswered`), which with ENABLED is beyond the prover.
- `ConfirmedByUser` with a write that fails (section 4.1).
- `OpportunityIsBest`: greedy walks over levels of any number, with folds whose value needs induction over data. The library's
  induction theorems cannot be used here, and the least counterexample that
  replaces them for the replay of the book and the sums of the fills has not been tried on them.
- `LiveTypeOK` is the conjunction of `SyncTypeOK` and `AccountTypeOK`, which are proved of their own specifications.
- No module with a theorem reaches a RECURSIVE operator; the replay of the book and the folds of the trading rules are recursive
  functions or stay outside the proofs.

## 5. Findings

1. `OpenCoordinator_late`: a private event that arrives after completion makes `_advance` register the
   plan's context again before `_store` completes it. A restart between these two writes
   restores a plan whose filled orders nobody remembers, and creates the first leg
   again.
2. `CloseExecutor_deferred`: `before_submit` is asked before `_advance` looks whether the leg was already sent.
   A leg of unknown outcome is then reported deferred, the user's confirmation ends in
   `DuplicateOrderSubmissionError` and a retryable failure, and the retry sends a fresh id for the
   full quantity while the first order may be live. The opening coordinator asks in the
   same order, and ends its plan as `first_failed` while the order may trade.
3. `Runtime_dead`: the socket of the Binance futures private stream has given up, and closing and creating the listen
   key both fail. The old socket is dropped, the old key is valid, so the keepalive succeeds from then on and
   nothing rebuilds the stream.
4. `LiveData_shadow`: a Bitget spot instrument is hidden by the perpetual of the same symbol, so order events of
   a spot leg never reach the reconciler. The leg is still settled by queries.


These behaviours are inside the models and not listed as findings, because no document of the repository promises otherwise:

- An unreadable answer to a successful create request ends an opening plan as failed with the
  order live (`FinalMeansAtRest` is checked with `Garbled = FALSE`). The journal still
  names that order, as `LiveOrderJournalled` shows of the service, so it is found at the next start.
- A create request that was refused is sent again under its id when the process
  restarts between the journal write that forgets the request and the one that completes
  the context. At most one of the two can succeed (`AtMostOneLiveCreate`).
- A closing attempt of one leg whose order is filled short leaves `_advance` with a
  `PositionDataError` (`AdvanceSingle`); no result is stored, and the context blocks further
  operations until the program starts again.

- A closing plan whose first leg is canceled after a partial fill has legs of different quantity; `start` refuses
  the retry, and its stored result refuses every later one (`position_close_executor.py:123`).
- A remainder sets the position to `partially_closed`, for which the presenter resumes the finished attempt and
  never retries (`position_presenter.py:125`).
- A futures snapshot whose id ends an update makes the next update a gap: the duplicate is dropped without leaving
  the after-snapshot rule. The book asks for another snapshot, so it stays true (`order_book.py:145`).
- A claim that was journalled but never sent is queried for ever, "order does not exist" being an error like any
  other; the pending request blocks new operations (`execution_worker.py:244`).
- When two threads change the subscription of a book at once, the last one wins (`contended`): a dropped Bitget
  instrument may stay subscribed, and a later tracking then waits for a snapshot nobody sends.
- An account misses what changed between the snapshot and the connection of the stream, while it was down, in the
  millisecond of the change before, between the two requests of a Binance futures snapshot, and the
  side a one-way reversal closed (`NothingElseIsLost` has one exception for each); a refresh repairs all but a torn one.
- An acknowledgement of Bitget stamped later than the order's end makes every later message out of order (`AcknowledgedLate`).
  On Binance an event that a query overtakes leaves its fee unknown.
- One request of `_initialize` that fails leaves the private streams unstarted for good (`market_data_worker.py:273`), and one
  Bitget perpetual that is not quoted in USDT makes its product list unreadable (`Unparsable`).
- A stop of the stream that raises leaves its socket "ending"; one that gives up waiting for the keepalive thread leaves
  what that thread's rebuild opens (`pool = "raised"`, which `StoppedIsClean` does not cover), until
  `shutdown` stops the stream again. An end of the socket between the end of the keepalive wait and the clear of
  `_wake` is not rebuilt while the key can be renewed.
- The order entry has one place for an unknown and one for a deferred plan, and a result of either kind clears the other (`displaced`). A
  deferred plan that fails between the two clicks leaves the entry armed, so that the second click opens the opportunity
  that is selected, which nobody prepared (`OpensWhatWasPrepared` excepts it). The monitor may show its result
  after the pool has shown a later one (`overtaken`), and two starts confirmed in a row both pass the check for
  unfinished plans (`together`).
- A journal write that fails after the answer to a confirmed create request ends the task, with the flag cleared and the result still
  "first_deferred". The private event that fills the first leg then places the second one (`DeferredWaitsForUser` excepts failed writes).
- An exception of one restored plan ends the monitor: the plans behind it stay unrestored and their ids in
  `_recovering_ids` until the program starts again; the caller is told (`RecoveryIsAnswered`).

## 6. Fairness

Weak fairness of threads, and of nothing else. A thread of a pool or of a client is scheduled; every REST call, join and connection
attempt has a timeout, so an answer that does not come is a step of its own (`CreateUnclear`, `QueryFailed`, `Fault`) and never a wait.

| Formula | Fair |
|---|---|
| `FairOpenSpec` | `PoolStep`, the steps of the pool's thread once a task is running |
| `SocketFairness` | the steps a caller owes once its call has begun, and the loop thread; connecting, acknowledgements, heartbeats and the user are not fair |
| `StreamFairness` | the rebuild, the keepalive thread (its interval ends), the end of a socket that was told to stop, the pool; the exchange and the user are not fair, and at most `MaxFaults` calls fail |
| `EntryFairness` | the pool, the monitor, and shutdown once it was called; the user and the streams are not fair: `RecoveryIsAnswered` asks for streams that stay up |

`RuntimeFairness` is the last three, each for the part of the instance that is not at rest.

## 7. Not modelled

- Formatting, wording, layout and logging; configuration and credentials (`app/infrastructure`); signing and HTTP of the REST clients; field names
  and decimals of the mappers. They keep no state, and unit tests reach them.
- Profit, fees and ROI of an opportunity or a position, the matching of symbols, tickers and funding rates: arithmetic of one
  expression each.
- Depth limits, update times and the age of prices (`max_update_age`), back-off times: no property is about durations.
- Of the user interface, the table of positions and the views; of the runtime, wiring and Qt's event loop.
- Several positions closed at once: `CloseExecutor` has one, and `RecoveryMonitor` treats plans of both kinds alike.
- `get_fills` and `parse_fills`, which the application never calls.

## 8. Plan

Done, in this order: the order service with its abstract specification and proofs; the opening coordinator and the worker; the closing
executor; the book; then the reconciler, the account store, the registry and the opportunities; the WebSocket client and the listen-key
stream with its proofs; the worker with several plans and shutdown; the order entry; the theorems about the closing executor,
the reconciler and the account store.

Left:

1. `Reconciled` of `ExecutionWorker` shown to contain what `FillTracker` computes, by a refinement between the two.
2. `BookSync` on top of `WebSocketClient` in place of its set of subscriptions.
3. Abstract specifications: of the executors, a ledger of two legs that moves only from untouched to first filled to hedged or
   given up, refined by `OpenCoordinator` under the constants for which `FinalMeansAtRest` holds; of the book, an exchange's book
   read at some past sequence, refined by `BookSync`.
4. A proof of `OpportunityIsBest`, with its walks as recursive functions and the argument by the least counterexample of
   `BookSyncProofs`.
