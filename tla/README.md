# Verification project for the Polymarket BTC live trader

TLA+ models of the trading system under `src/polymarket-collector/live`, of the
collector beside it (`src/polymarket-collector/app.py`) and of `src/demo_v2`,
checked with TLC on small instances and, for the safety of the pause, the
reconciliation coordinator, the entry, the feeds and the ledgers, proved with
TLAPS for every value of the constants.

Contents: 1 the system, 2 the modules, 3 the runs, 4 fairness, 5 the proofs,
6 disagreements met, 7 what a reader of the code should know, 8 not modelled,
9 plan.

## 1. The system and its parts

The trader is one Python process (`trader_app.py`) around one SQLite database.
An asyncio event loop runs the WebSocket clients, the reconciliation worker,
the strategy runtime, the operator's IPC commands and the heartbeat; the
recovery tick runs in a worker thread (`asyncio.to_thread`).  Every durable
change is a `BEGIN IMMEDIATE ... COMMIT` transaction, so the interleaving unit
is the transaction (or a read) and, on the event loop, the code between two
awaits.  The market resolver and the collector are processes of their own.

| Component | State it keeps | Operations | Interacts with | Hard part | What makes it correct |
|---|---|---|---|---|---|
| Entry pause and recovery (`pause_recovery.py`, `recovery_policy.py`, pause methods of `strategy_repository.py`) | pause rows: entries, state, owner, cause, policy, generation, stability and verification stamps | acquire, promote, reclassify (2), escalate, wait, reset, de-escalate, release (CAS), operator resume, canary consumption | everything that stops trading writes it; the runtime reads it before an entry | two writers (thread and loop), reads before compare-and-swap, restarts | the machine never ends a human's pause, releases only what it evaluated, verified and saw stable; ends every pause it may end |
| Reconciliation coordinator (`reconciliation_coordinator.py`) | pending batch, runner task, stop flag | request, take, run, publish guard, stop | reconnects, commands and the periodic loop call it; it runs the worker | coalescing, cancellation, generations that change during a run | one run at a time; a waiter is answered by a run that began after its request; every waiter is answered |
| Reconciliation worker (`reconciliation.py`, `reconciliation_stability.py`, `unknown_exit_recovery.py`) | runs, gaps, back-off, evidence counters | read orders, trades, positions; settle entry and exit intents; repair and settle positions; publish | adapter, durable repository, pause | partial and lagging reads, repair from evidence | READY only on a complete clean comparison; no shares invented, buried or resurrected |
| Entry life cycle (`strategy_repository.py`, `strategy_runtime.py`, `strategy.py`) | event entries, intents, fills, positions | reserve, submit, publish, zero fill, recover, skip | adapter, run, pause | awaits between decision and submission, unknown outcomes, crashes | one order at a time, no event bought twice, exposure holds the slot |
| Exit life cycle (`strategy_runtime.py`, `strategy_repository.py`, `exit_supervision.py`) | positions, exit intents, links, stop latch, waiting exits | take-profit, latch, cancel, finalize, supersede, wait for sellable shares, market exit, emergency close, exit fills | adapter, run, frames | three coroutines on one position, forgotten cancellations | one sell at a time, nothing booked twice, a latched stop sells out |
| Settlement (`reconciliation.py`, `strategy_repository.py`, commands) | position, quarantine, daily loss, repair evidence | resolve, quarantine, repair, rebuild, redeem, zero-fill repair | market rows, balance, positions feed, exits | four views that agree only in the end | a closed row leaves no share, sold shares stay sold, losers settle |
| Order books and market WebSocket (`order_book.py`, `market_websocket.py`) | book per token, generation, readiness, ingress queue, subscription | snapshot, delta, best price, reconnect, resync, rotate, saturate, gate | runtime reads; recovery reads health | stale generations, overflow, reordering | a ready book is the exchange's; every book comes back |
| Readiness rows and frames (`market_websocket.py`, `strategy_runtime.py`) | queued states, batch, row; critical and pending frames, latch copies | queue, write, retry; schedule, coalesce, evict, latch, supervise | stream, entries, exits | overtaking writes, queue caps | the last value wins; a stop edge is served first |
| User WebSocket (`market_websocket.py`) | event queue, worker, coverage | receive, store, ask a run, hold on loss | coordinator, pause | lost and duplicated messages | nothing is forgotten unless entries are held |
| Trade window (`trade_window.py`) | watermark, slice | plan, read pages, persist, commit | run | truncation, late ingestion, crash | no trade is skipped |
| Market rows (`market_discovery.py`, `market_resolution.py`, `repository.py`) | `live_markets` | discover, upsert, resolve | stream, resolver, settlement | three writers, a bounded batch | every closed market ends resolved by REST |
| Collector demo trading (`app.py`) | events, rules, deals, active market | event loop, book loop, rule API | public endpoints | candidates that move on while deals are open | a deal does not stay open for good |
| `demo_v2` | generations, decision queue, entry memory, engine flags | publish, consume, decide, demand, probe, reset | public stream, database | generations across three tasks | no second entry on one arrival; decisions come back |
| Adapters (`adapters/`) | remote venue | place, cancel, read, heartbeat | runtime, reconciliation | unknown outcomes | external |
| Configuration, auth, geography, provenance; alerts; legacy order manager, risk manager, trading engine, paper and dry run; dashboards, reporting, archive, backup, exports, forensics; `polymarket-btc-local`; scripts, tools, deployment | files, read models | validate, collect, project, export | read the database | none concurrent with trading decisions | - |

## 2. The modules

| Modules | Model |
|---|---|
| `RecoveryPolicy`, `PauseRecord`, `PauseRecovery` | the policy table, the transactions on the pause rows, the concurrent system around them |
| `EntryCustody` | what the pause promises: who may take and give back the entries |
| `ReconciliationCoordinator`, `LaterRun` | requests, the task that drains them; the promise: answered by a run that began after the request |
| `EntryLifecycle`, `EntrySlot` | the entry from reservation to position; the promise: one order, none beside shares, no event twice |
| `ExitLifecycle`, `ExitCustody` | the exit of a position; the promise: one sell at a time while no order is lost from sight, never two stops or closes, proceeds of sold shares only, a latched stop stays latched |
| `OrderBook`, `MarketStream` | what a message does to a book; connection, ingress queue, resync, subscriptions, gate |
| `ReadinessRow`, `FrameQueue` | the writer of the readiness rows; the frames handed to the strategy and the latching of stops |
| `UserStream`, `TradeWindow` | the private feed and its hold; the watermark of the trades a run reads |
| `MarketResolution`, `Settlement`, `TakeProfit` | the writers of market rows; the end of a position; the fills of a take-profit booked around the feed |
| `DemoDeals`, `DemoEngine` | the collector's demo deals; the decision stream and engine of `demo_v2` |
| `MCPauseRecovery`, `MCReconciliationCoordinator`, `MCEntryLifecycle`, `MCExitLifecycle`, `MCFeeds`, `MCFrameQueue`, `MCLedgers` | the instances TLC checks |
| `PauseRecoveryProofs`, `CoordinatorProofs`, `EntryProofs`, `MCEntryProofs`, `ExitProofs`, `FeedsProofs`, `BookProofs`, `LedgersProofs` | the proofs |

Interfaces.  A model that needs another component takes what that component
may do as a free choice or an action of its environment: the pause for the
entry, an entry for the pause, the frames for the exit (`FrameLatches`), an exit
for the settlement (`Submit`, `Answered`), the end of the order for the take-profit
(`OrderEnds`), a run for the private feed.  Two of
the models are composed with another where the state is shared: the entry's gate
and the pause in canary mode (`MCEntryLifecycle`, `focus = "canary"`), and the
books with the stream (`MarketStream` extends `OrderBook`).  `MCFeeds`
and `MCLedgers` put models that share no variable into one run: a behaviour
chooses one of them (`focus`) and the others rest, so that their states add and
do not multiply.

### PauseRecovery

`pause` is the durable row set; `recon` and `heartbeat` the evidence rows;
`signals` the blocker codes that the outside world currently raises; `tick` and
`loop` are the program counters and locals of the recovery thread and of the
event-loop handler now between two transactions.  One action is one transaction
or one read:

* `TickStart` ... `TickDegrade` follow `PauseRecoveryCoordinator.tick` and
  `attempt_auto_resume`: escalate, read the pause, evaluate on one snapshot of
  the state rows, look up sockets, books and intents, acquire, read the record
  again, then reset, wait, or (de-escalate and) release.
* `ReconClean`, `ReconUnclean`, `PublishPause`, `PublishFlags`,
  `PublishReclassify`, `PublishPromote` follow `set_reconciliation_state` and
  its callers: a gap set, a contradiction, a rate limit, a temporary error or a
  failure acquires first and publishes afterwards.
* `ScopedRepair`, `RuntimePause`, `OperatorPause`, `Heartbeat...`, `Resume...`,
  `Boot` and `Crash` are the other writers, and in the one-shot mode
  (`CanarySpec`) `CanaryGate`, the entry's gate, and `CanaryReserve`, the transaction
  that reads the gate's rows again (`CanaryAvailable`) and then writes; `Raise`, `Clear`, `StabilityElapses`, `PauseAges`, `EvidenceAges`
  the world and the clocks.

Time stamps are only ever compared with the moment of the acquisition, so the
generation current at a moment stands for that moment (`PauseRecord`'s header);
a stamp equal to the acquisition's own is one taken after it.  The 60 s and
300 s windows are the three values of `age`, the stability window the three
values of `eligible`.  The generation is unbounded in the code and in the model;
`MaxFaults` bounds the disturbances (failed runs, pauses, crashes, raised
signals) of a behaviour and with them the generation.

### ReconciliationCoordinator

`pending` is `_pending`, `runner` is `_runner`, `task` the coroutines of
`_drain` (there may be more than one alive only if the code were wrong),
`cooling` the worker's retry deadline, `gen`/`link` the market WebSocket's
connection and `call` the caller's side of each request.  An action is the code
between two suspensions: `Request` and `RefuseRequest` are `request()` up to its
await; `FirstStep`, `Finish`, `Raise` and `Wake` take a task from one await to
the next through `Proceed` (the drain loop: take the batch, wait for the
back-off, begin the run) and `FollowUp` (a result for an older connection
re-queues its waiters); `Cancelled` and `Stop` are the shutdown, including a task
cancelled before its first step.  A request whose caller is cancelled is
withdrawn (`Without`).

### EntryLifecycle

`event`, `intent`, `position` are the rows of three tables, `worker` the frame
worker inside `_submit_entry`, `run` the reconciliation run inside
`_run_once_serialized` with what it has read; `venue`, `owned` and `feed` are the
orders, shares and the positions view of the exchange.  Worker and run are
coroutines of one event loop; a crash loses both and keeps the rows.

* `Reserve` is the transaction of `reserve_event_entry` in continuous mode,
  `Skip` its simultaneous case and `lock_event_skip`.  `Abort`, `Refuse`,
  `Submit`, `NotSubmitted`, `Post` and the outcomes `NotFilled`, `Accepted`,
  `Unknown` are `_submit_entry` and `create_order`; `Publish` opens the position
  from the response or the token's balance.
* `ReadOpenOrders`, `ReadTrades`, `ReadPositions` are the run's three reads at
  three moments, the last with the storing of fills; `ListUnresolved`,
  `Resolve`, `Undecided` the loop over unresolved intents with its await of
  `get_order`; `RemotePosition` the loop over the account's positions.
* Books, prices, schedule, pause and kill switch only decide whether a step is
  taken; they are free choices, and so is every frame.
* The venue is external: an order may be open for a while, filled in part or
  whole, or die, and each of its views shows it later.  `PromptVenue` says that
  a view shows a fill as a whole and before the grace of 15 seconds ends for the
  run that would act on it; section 7 tells what happens without it.

### ExitLifecycle

One position of `Lot` shares.  Whoever sells holds the exit lock: `seller` is
that coroutine, with the copy of the row it works on (`seller.copy`), because
what the code decides on a copy and what the row has become meanwhile is where
exits go wrong.  `Load...` is the start of a stop, a take-profit, the resumption
of a waiting exit or the operator's close; `Supersede`, `RefuseUnknown`,
`Cancel`, `CancelAnswered`, `Settle`, `Settled`/`Unsettled` the treatment
of a standing sell; `Sell`, `Insufficient`, `Post`, `Failed`, `Accepted`,
`LostReply`, `Cleared` the new one; `RefreshHot` and `FrameLatches` the
in-memory snapshot and the latch, which need no lock; `ReadOrders` ...
`RemotePositions` the run, with the evidence chain of an exit without an id
(`Evidence`, `ZeroEffect`).  `FaultSets` names what may go wrong together in one
behaviour: a restart, a lost reply, an unreadable answer, a delayed order, late
views.  `MakersBooked` is `ingest_maker_exit_fills`: it books what the account's
trades show of every standing take-profit, one after the other.  The attempts'
prices and liquidity evidence are not modelled.

`Orderly` names what the promise of one sell at a time rests on: no crash and no
lost cancellation, no rest the rows call dust or nothing (`Cut`: `apply_exit_fill`
then clears both links), and no take-profit put after a cancelled one (`Replaced`:
`finalize_cancel`, when a run repeats it, clears the link of the later one).
Section 7 tells what happens in each case.

### OrderBook and MarketStream

A side of a book stands for both; `TopOf` is its best price.  `Apply` is
`OrderBookSet.apply` with its branches (snapshot, delta before snapshot, malformed,
stale, out of order, advertised top not reached, alignment pending); its verdict on
a message's time is `fresh`, `stale` or `unusable` (dated in the future, or with a
missing or unreadable time: dropped whole, with no resync).
`MarketStream` queues messages of the exchange in the bounded ingress queue
(`Enqueue`, with the saturation that empties it but keeps resolutions), processes
them, and follows the connection: `Dial`, `Connect`, `Cut`, the pipeline that ends
on a resync event, the subscription loop with its five seconds to wait for new
books (`LoopWakes` ... `LoopFinishes`), and the gate a reconnect reconciliation
holds (`ReconciliationEnds`, `ReconciliationRaises`).  `nth` and `truth` of a
message say which state of the exchange's book it describes: no code reads them,
`ReadyBookIsTheExchanges` does.  `StreamWorlds` names what may happen in one
behaviour.

### ReadinessRow, FrameQueue, UserStream, TradeWindow

* `ReadinessRow`: values are numbered in the order they are queued; `TakeBatch`,
  `CommitBatch` and a failed batch are `_state_writer_loop`; a restart loses the
  queue; an aborted entry writes the row beside the writer.
* `FrameQueue`: `schedule_frame` finds edges against two maps of remembered
  prices, merges frames of one condition, evicts at the cap; `_frame_worker`
  takes critical frames first; the exit supervisor looks at the current book on
  its own.  `dipped` is an observer's note of the tokens of the held token's market
  that had a stop edge, from the held token's own on.
* `UserStream`: frames of one or two events, the bounded queue that also carries
  state rows, the worker that stores and asks for a run, the hold on loss.  Of a
  run only what matters is kept: what the account had emitted when it was asked
  for (`covered`).
* `TradeWindow`: time in units of `min_slice_seconds`; a trade has the moment it
  matched and the moment the exchange lists it, at most `Lateness` apart.
  `Plan`, the pages, the commit after persistence, the halving of a truncated
  slice, the exhaustion error and the process's end between any two of them.

### MarketResolution, Settlement, DemoDeals, DemoEngine

* `MarketResolution`: discovery reads and, after awaits, replaces the row of the
  current or next market; the stream writes two kinds of rows; the resolver lists
  the newest and the oldest markets that need an answer and asks one by one.
* `Settlement`: `worker.pc` takes one run through the resolved markets, the
  awaited balance, the exit intents and the positions feed; the row, the wallet,
  the feed and the exit agree only in the end.  `Repair`, `Rebuild`,
  `Quarantine` and `LiftQuarantine` are the authoritative repair; `OperatorBegins`
  /`OperatorEnds` is RESOLVE_REDEEMED_POSITION with the shares it has read (a
  redemption may burn a part of them), `OperatorZeroFill` is
  RESOLVE_UNKNOWN_CLOSED_FAK, which books the loss of a named winner of the other
  side.
* `TakeProfit`: the shares leave the wallet in any parts (`Fill`); the fills are
  stored (`StoreFills`) and the feed moves (`FeedMoves`) at their own times, and one
  run after another takes `pass` from the open orders through the trades, the
  positions, `ingest_maker_exit_fills` (`BookMaker`), the unresolved intents
  (`Intents`) to the positions loop (`Positions`).  `Booked` is `apply_exit_fill` with
  its rebuilt baseline; `ahead` notes that a feed was written below what was booked
  of a sale under way.
* `DemoDeals`: `now` counts the events that are over; `scan` is the event loop
  with its candidates, `book` the awaited books of the event that was active when
  it asked, `creating` a rule between the read of the active event and its
  insert.  A price is what it is to a rule.
* `DemoEngine`: generations of the stream, the consumer that waits on a queue
  object (`consumer` is the generation of that queue), the entry memory per
  token, the demand loop, the probe, the reset and edits of the rule.  The entry gate
  (`stable`) opens after two healthy seconds (`Stabilises`) and is cleared by any
  failed sample of a valid generation (`Lapses`); `gaps` counts what armed the rule
  again.

## 3. Runs

All bounds are constants of the configurations.

| Run | Question | Bounds and why they are enough |
|---|---|---|
| `PauseRecovery` | Can any interleaving release what was not evaluated, verified or supported by newer clean evidence?  Does custody move only as `EntryCustody` says?  Does a quiet system recover, does a persistent financial blocker pause? | one disturbance of every kind at any moment, one representative per class of cause (every rule looks at the class only), heartbeat on, an older release's record included; the theorems of section 5 lift the bound on disturbances from the safety part |
| `Coordinator` | Do coalescing, back-off, reconnects, raising runs and shutdown lose no request?  Is each answered by a later run? | a caller of each kind (market, periodic, evidence, forced); two tasks, since only the last and a new one meet; two connections, an old and a current one.  Behaviours with `steady` have no raising run and no shutdown: only there every request is settled |
| `Entry` | Do lost responses, repairs, sales and crashes let one order buy at a time, no event be bought twice, and every fill become a position?  Does the one-shot entry buy through a pause, or write over one, that was acquired after its gate? | four kinds of behaviour: two events, one attempt each (events meet in the slot only); two attempts of one event; two tokens with lagging views; the canary with the pause.  Two shares give a partial and a full fill, a position and dust |
| `ExitLifecycle` | One sell at a time while nothing cut the rows from an order, proceeds only of what was sold, truthful finals, a stop that sells out? | three shares of which one cannot be sold alone, so that a take-profit is filled in part, to dust, or wholly; two sells (a standing one and a next one), one kind of fault per behaviour; `ExitRefines`, `ExitTypes` and `FinalsAreTrue` of section 5 lift all three bounds |
| `Feeds` | Is a ready book the exchange's, is nothing forgotten between the exchange and the strategy? | two tokens, two prices, an ingress queue of two, one cut and one superfluous message, each kind of trouble alone and the pairs that meet in the code (a malformed delta before its snapshot; a reconciliation that gates and raises; a resolution and a cut); three private events for a queue of one; four readiness values, three failures; three tokens in two conditions for one critical frame; three trades, two per run, one unit of lateness, a stored watermark |
| `Ledgers` | Do positions, markets, demo deals and demo decisions come to the right end? | three shares with dust below two, so that a part of a position can be sold and leave a sellable or an unsellable rest, and a take-profit is filled at once, in two parts or in three; three markets for a batch of two; two events and one deal; one token of the demo market (the memory of a rule is per token, tokens share only its count), four frames, two entries, one disturbance: enough to enter again on an unchanged price after a lapse of the gate |
| `PauseRecoveryScopedDecision`, `CoordinatorRaisedRun`, `EntryResurrected`, `ExitLostCancel`, `StreamHalfTransaction`, `StopEdgeReplaced` | section 6 | the smallest instance that shows the disagreement |

Deadlock is not checked except in `PauseRecovery`: elsewhere attempts, messages,
connections, sells, events or a shutdown end a behaviour.

What the properties say, and where they are stated:

* `PauseRecovery`: `MachineReleasesWhatItEvaluated`, `RepairVerifiedForThisPause`,
  `MachineReleaseHasCleanEvidence` (the release rests on the evaluation, the
  verification and a clean run of the pause it ends), `RefinesCustody`,
  `RecoversUnlessManual`, `PersistentBlockerPauses`.
* `Coordinator`: `OpenedByOwnRun`, `AnsweredByLaterRun` (refines `LaterRun`),
  `AskedRunPublishesCurrent`, `SteadyRequestsSettled`.
* `Entry`: `SlotIsKept`, `NoPhantoms`, `SlotIsRefined` (refines `EntrySlot`),
  `FillsBecomePositions`, `KnownOrdersAreSettled`, `CanaryEntersOpen`.
* `ExitLifecycle`: `RefinesExitCustody`, `FinalIsTrue`, `SellIsSettled`,
  `StopSellsOut`.
* `Feeds`: `ReadyBookIsTheExchanges`, `ResolutionSurvives`, `EveryBookComesBack`,
  `RowFollowsStream`, `StopEdgeIsServed`, `NothingIsForgotten`,
  `NothingBehindTheWatermark`.
* `Ledgers`: `ClosedIsGone`, `ExitIsNotBuried`, `SoldSharesStaySold`,
  `LosersSettle`, `EveryMarketIsResolved`, `DealsEnd`, `OneEntryPerArrival`,
  `DecisionsComeBack`.

Conditions some of them carry, each because the code does not promise more:
`ReadyBookIsTheExchanges` is not asked where the exchange omits a change of its book,
which no message reveals, nor where it sends a message whose time is in the future or
cannot be read, which the code drops without a resync, nor where one behaviour has both
stale and malformed messages (section 7 says what happens there), and
`EveryBookComesBack` not where the exchange omits changes or sends stale messages.
`SellIsSettled` excludes crashes and late or unreadable views and what is not `Orderly`,
`StopSellsOut` every fault. `StopEdgeIsServed` is about a dip of the held token as long
as no other token of its market dips after it; `StopEdgeReplaced` is the rest.
`ClosedIsGone` excepts a take-profit of which more was gone from the feed than was
booked, when something was booked (`ahead`, section 7). `OneEntryPerArrival` counts what
arms the rule again beside the arrivals: a new generation, an edit, a reset, a lapse of
the gate. `LosersSettle` ends in a final row, a quarantine, or one of two states the
code leaves to an operator: a partly sold loser with a sellable rest, and an exit whose
reply was lost. `DealsEnd` is checked where the exchange names the winner of an event
while the event is still a candidate (`Punctual`).

## 4. Fairness

* `PauseRecovery`: weak for the recovery thread (rescheduled every half second,
  every step ends) and for the rest of a handler already begun; strong for the
  periodic reconciliation and heartbeat, whose tasks are repeatedly ready and
  which the event loop serves in order; weak for the clocks.  None for operators,
  faults or signals.
* `ReconciliationCoordinator`: weak for a task's step, the end of a run and of a
  sleep (the loop serves what is ready, `run_once` bounds its calls), for the
  market WebSocket, which asks right after it connected, and for the periodic
  loop, which asks again after each interval.  None for other callers,
  connections or faults.
* `EntryLifecycle`: weak for the worker's next step and for the venue (an order
  ends, and is shown); again and again a run completes (`RunsComplete`: the
  periodic loop begins it again, and its calls may fail but not for ever), strong
  for `get_order`'s answer.  None for frames, sales or crashes.
* `ExitLifecycle`: weak for whoever holds the lock (its calls have time limits),
  the run, the snapshot's refresh, the venue's decision and display, in
  behaviours without faults (`Undisturbed`), the only ones liveness speaks of.
* `MarketStream`: weak for every task of the event loop and for the exchange's
  answers to a subscription, in behaviours without stale or omitted messages.
* `MarketResolution`, `Settlement`, `DemoDeals`, `DemoEngine`: weak for the loops
  and tasks that run on a timer and for the exchange's closing of its markets;
  strong for one thing each of `Settlement` (a trade that is asked for in every
  run is shown in the end) and `DemoDeals` (a public endpoint that is asked again
  and again answers).  None for failures, edits, resets and operators.

In the MC modules that join several models the same conditions are asked of the
behaviours that follow the model (`Settling`, `Retrying`, `InStream`,
`InSettles`, ...).

## 5. Proofs

The theorems hold for every value of the constants that the named assumptions
admit; TLC evaluates those assumptions on the runs.  Which definition of a run a
theorem states is listed in `PROJECT.json`.

| Module | Theorems | Hypotheses besides the assumptions of the model |
|---|---|---|
| `PauseRecoveryProofs` | `TypeCorrect`, `CanaryTypeCorrect` | none |
| | machine releases are evaluated, verified, stable and backed by clean evidence; human pauses end by humans; refinement of `EntryCustody` | continuous trading (`Spec`) |
| `PauseRecoveryProofs` | human pauses stay in human hands | one-shot mode (`CanarySpec`) |
| `PauseRecoveryProofs`, `MCEntryProofs` | the one-shot entry finds entries open | one-shot mode (`CanarySpec`) |
| `CoordinatorProofs` | one run, each request held once, own run opens, answered by a later run (refinement of `LaterRun`), publishes the current connection | none |
| `EntryProofs`, `MCEntryProofs` | types, no phantom shares | none |
| | zero fills are true, exposure holds the slot, refinement of `EntrySlot` | `PromptVenue` |
| `ExitProofs` | types, sells that are over are over, bookings are covered, take-profits stay linked, one exit at a time, refinement of `ExitCustody` | none |
| | finals are true | no set of `FaultSets` has both `"lost_reply"` and `"late_trades"` |
| `FeedsProofs` | types, readiness row, queued resolutions | none |
| | stop edges | `~LatchFails`: the latch transaction does not raise |
| | private events | `HoldsAreFresh`: no older pause hides a new hold |
| | trade window | `Start = "row"`: a watermark is stored |
| `BookProofs` | a ready book is the exchange's | `"stale" \notin world`: no message is too old when it is processed; the property itself excludes omitted changes and unusable times |
| `LedgersProofs` | types, closed is gone, exits are not buried, sold shares stay sold, one entry per arrival | none |

### Pause

`TypeCorrect` needs, besides the types, that a handler that is about to pause for
an unclean run has an unclean outcome.  `CanaryTypeCorrect` is the same for the
one-shot mode, whose `CanarySpec` adds the entry that writes the pause.

For continuous trading (`Spec`, the production mode) the module proves that the
machine releases only what it evaluated, verified and saw stable, on a clean
reconciliation of after the acquisition where one is needed, that human pauses end
by humans, and the refinement of `EntryCustody`. The argument: the recovery
thread's locals may be stale, and `TickView` says how stale. Every step of anyone
else either keeps generation, cause, policy and owner (`Kept`) or takes a new
generation and clears the stability stamp (`Renewed`); only the recovery thread
sets the stamp, through a compare on the generation. So once the pause moved on, a
stale evaluation finds no stamp and cannot reach the release. `Shielded` says why
a human's pause is out of reach even when it was not overtaken: it is
`MANUAL_ONLY` for a cause no evidence clears or, after a scoped reclassification,
a repair that nobody verifies because `promote_repairable_pause` looks at the
owner. Neither the properties nor `Shielded` alone are inductive, their
conjunction with the types (`ReleaseInv`) is.

That a release has clean evidence (`MachineReleaseIsCleared`) needs `EvidenceInv`
on top: clean runs are stamped in their order, also while one is being published
(`Stamped`); a verified generation, and a `MANUAL_ONLY` cause whose policy is
gone, were acquired before the last published clean run (`Backed`); and what the
thread read, evaluated or claims of the present generation says the same
(`TickEvidence`). Every transaction either takes a new generation, which no stamp
or local names yet (`Anew`), or leaves the acquisition alone and verifies
or de-escalates only on such a run (`Still`).

In the one-shot mode the reservation reads again, in its own transaction, what its
gate has read; `OneShotTheorem` says that the canary is consumed only where entries
are open, which the gate alone cannot promise: the thread may acquire a pause in
between.  For custody (`CanaryCustodyTheorem`), `CanaryInv` says that between the gate
and the write (`ReserveUnheld`) no other handler runs, and the thread's transactions
leave a pause in the hands it is in or take a free one for the machine.

The proofs assume `PauseRecoveryAssumption` (the constants are drawn from the
tables of the code; an operator pauses for the two causes the commands use) and
`UnknownCausesAssumption`.

### Coordinator

For any callers and tasks, the worker never runs twice at a time (`SingleRun`), no
request is lost or held twice (`EachRequestHeldOnce`), only its own run opens a
connection's stream, a run a connection asked for publishes READY for that
connection only, and the coordinator implements `LaterRun`.  The inductive
invariant `CoordinatorInv` adds to the types and the two invariants: a task that
has ended or has not begun holds nothing (`IdleTasksHoldNothing`), the market
WebSocket waits only while its connection lives (`MarketWaitsConnected`), and a
run that will answer it began in that connection (`MarketRunIsCurrent`).  The
refinement maps `waiting` to the callers with an open request, `serving` to the
waiters of the batch that is being run and `answered` to those a run has answered;
each action then is a step of `LaterRun` or a stutter.  `AskedRunPublishes` needs
one more invariant, `GenerationsInOrder`: a batch was asked for before its run
began, and no run began in a future connection; a batch that is current when its
run ends thus pins the generation the run began in.

### Entry

`EntryInv` holds for any venue: rows and coroutines name attempts that were made
(`Sided`), an attempt follows its predecessor (`InOrder`), what the rows, the run
and the venue's trades show of an order is at most what it bought (`Counted`), and
before a sale the account has all that was bought and no view shows more
(`Backed`).  It yields the types and
`NoPhantomShares`.

The slot needs more, and needs `PromptVenue`: `PromptInv` says what the worker
knows of its order at each await, that at most one order of all attempts is
unresolved (`OneUsed`, `OneOccupied`), that a run which asks for an order after its
grace has read its trades (`GraceIsEnough`), and that shares held and orders that
may fill show in the rows (`Exposed`).  `SlotIsImplemented` maps the rows
and the venue to `EntrySlot` and goes through the actions one by one.  The
hypothesis is no convenience: in the `lagging` instance, where views lag, TLC finds
behaviours in which a matched order is taken for a zero fill (section 7), and the
properties are not asked of it.

`MCEntryProofs` carries the theorems over to the instances the run checks: a step
of `EachNext` is a step of one of them and a stutter of the others, and the
definitions an instance makes are the instantiated ones (the `...IsSame` lemmas).

### Exit

The theorems hold for every number of shares, dust limit and number of sells, and
for every set of faults: what `FaultSets` keeps apart in the run may meet here.
`InvariantHolds` is the inductive invariant `IInv`; neither types nor
`RefinesExitCustody` are inductive without it.  Its parts:

* `Types`, stronger than `TypeOK`: also the copy the seller works on and what the
  run has read and listed.
* `IntentsOK`: what an intent says of its order: one that was never posted has
  nothing at the venue, what it calls filled the run has seen in trades, and what
  trades show the venue has sold.
* `Sums`: no more is booked than the intents call filled, and what the venue sold
  and what rests there fit into the shares bought.  With `IntentsOK` it is why
  `apply_exit_fill`, which takes the smaller of the fill and the row's rest, books
  nothing the venue did not sell, also where a positions view lowered the rest
  first.
* `SellerOK`: how stale the seller's copy of the row and of the standing intents
  may be at each await between `Load...` and the end.
* `ZeroOK`: the two observations of `resolve_unknown_open_exit_zero_effect` are
  about one exit without an answer, whose order had arrived before the first of
  them, and are made by runs that follow each other.
* `OneSell`: an exit that may be filled is pending, so no other is reserved, and
  as long as nothing crashed has latched the stop, so no take-profit is put.
* `LinksOK`: a take-profit that may be filled is the one the row links to, unless
  the row is `Cut`, a cancellation's answer was lost, or a take-profit was
  cancelled before it.
* `Finals`: what the rows call cancelled, failed or without effect is over.

`NextKeeps` goes through the actions: the seller's by the lemmas named
`...Keeps`, the run's likewise, with one lemma for what the seller alone
(`StillKeeps`), a row alone or the run alone may change.  `GoesOn` says what no
step undoes: bookings, the latch, a cut row, the purpose of a sell.  The
refinement (`StepRefines`) maps `VenueStep` to `Trade`, `Post` to `Offer` and every
other step to `Book` or a stutter; that `Post` finds the venue empty while the exit
is `Orderly` (`PostFindsNone`) is where `OneSell` and `LinksOK` meet.
`OrderlyIsOneSell` is the same as an invariant.  The other half of `Offer` needs no
such condition: two exits that are not take-profits never stand together, whatever
crashes or is lost (`OneSell`; `OneExitOnly` as an invariant).

Sums over the sells are recursive functions (`UpTo`), not folds, so that the
module can reason about them: that a recursive function on 0..`MaxSells` is
defined, and facts about its values, are shown by the least number at which they
fail.  `FinalsAreTrue` has its hypothesis because it is false otherwise: a lost
reply together with trades that are shown late lets two observations see no order
and no trade of an exit that was filled.

### Feeds

Every part of `MCFeeds` is a projection of it, so that each theorem is one about
the steps of its own module.

* `RowInv`: the value queued last is the last of the queue, of the batch or the
  row's.
* `FrameInv`: as long as only the held token has dipped in its market, its edge is a
  frame that waits and would stop the position; a frame that replaces it has an edge of
  the held token too, and the queue keeps such frames when it is full because
  `EnforceCap` drops others first.  The two conjuncts about lost latches are asked only where the
  latch does not fail.
* `UserInv`: an event is stored, queued, in the worker's hands, behind a run asked
  for later, or entries are held from the moment it was lost.  `acquire_pause`
  drops a hold of no higher rank while one is held (`strategy_repository.py:1534`,
  called from `market_websocket.py:3312`), so a pause that was there before may be
  released for its own reasons while the loss is unread; `HoldsAreFresh` excludes
  the worlds in which both happen.
* `WindowInv`: where the watermark stands, how far a plan reaches below it
  (`Bounded`), and that everything an overlap behind it is persisted, also while a
  run that read a slice has not persisted it.  Without a stored watermark it is
  false (section 7).
* `StreamInv`: the types of the venue, of books and of the queue, with what a
  queued message can be (`Sound`); the queue is empty without a connection; one
  resolution at most waits, and waits while it is received and not stored
  (`SaturatedEffect`: the saturation keeps exactly the resolutions).
* `BookInv`, for the ready books.  It claims a history of the exchange's book: which
  change made which state (`History`).  `Chain` says that the frames in the queue
  tell this history in order and without a gap up to what was sent (a snapshot may
  begin it anew), `View` that a loaded book is one moment of it, and that the next
  delta in the queue is the change that follows.  A change extends the history
  (`TradeHistory`), a message taken from the queue moves the book along it
  (`ProcessView`), a saturation leaves nothing to continue from.  Around it,
  `ControlInv` relates connection, subscriptions and gate, `QuietInv` says that no
  queued frame speaks of an asset that is not subscribed, and `BlankInv` that the
  book of such an asset is cleared.

### Ledgers

* `SettleInv` relates row, wallet, exit intent, feed and the locals of a run: what
  a run read of balance and feed was true when it read it, and only a booked exit
  lowers both row and wallet.
* `ProfitInv`: what is booked of a take-profit is stored and what is stored has left
  the wallet; a row with proceeds has what was not booked, unless a feed was ahead,
  and before the first booking the feed may have left it anything (`BookingKeeps` is
  where the rebuilt baseline is needed).
* `EngineInv` is an account of arrivals along the decision queue (`Followed`): the
  entries of a token are backed by what the engine has taken from the queue, with
  one arrival, or one re-arming, to spare where an unchanged price would be entered
  again (`Backed`),
  and what waits in the queue adds up to at most the arrivals there were.
* `MarketTypes` and `DealInv` are types with the bounds of a batch and of the deals.

### What stays with TLC

Everything under fairness (`RecoversUnlessManual`, `PersistentBlockerPauses`,
`SteadyRequestsSettled`, `FillsBecomePositions`, `KnownOrdersAreSettled`,
`SellIsSettled`, `StopSellsOut`, `EveryBookComesBack`, `LosersSettle`,
`EveryMarketIsResolved`, `DealsEnd`, `DecisionsComeBack`), which the prover does not
do.  Every safety and action property of the passing runs is stated by a theorem;
`ReadyBookIsTheExchanges` only for fresh messages: its behaviours with stale ones stay
with TLC, because a stale delta leaves the book behind its history until the resync it
asks for.

## 6. Disagreements met, each with a run

* `PauseRecoveryScopedDecision`: the exit repair's reclassification turns any
  pause, a daily-loss stop included, into one the machine releases, although
  `pause_recovery.py:106` keeps such decisions from the machine for ever.
* `CoordinatorRaisedRun`: a run that raises leaves the requests made meanwhile
  pending with no task, and ends the periodic loop.
* `EntryResurrected`: the response of an entry that arrives after its position
  was recovered and sold opens that position again.
* `ExitLostCancel`: a cancellation whose answer is lost is forgotten by the rows,
  and another sell goes out beside the order that still rests.
* `StreamHalfTransaction`: a book whose alignment is pending becomes ready by the
  first half of a later transaction, with a top its own message contradicts.
* `StopEdgeReplaced`: the coalescing key does not name the token, so a stop edge of
  the other token of a market replaces the waiting frame of the held token's, and no
  stop is latched.

## 7. What a reader of the code should know

Behaviours the models show or that were met while writing them, and that no
property forbids.

Pause and coordinator:
* The one-shot entry's pause takes no new generation (`strategy_repository.py:2395`),
  and its owner is the machine's: a release under way that has read an older pause of
  the machine of the same generation, which an operator ended meanwhile, ends it.
  `canary_consumed` still stops the next entry.
* An operator resume reads the generation it compares with after its evaluation
  (`pause_recovery.py:781`), so it may release a pause acquired meanwhile;
  `SYSTEM_CONTEXT.md:160` speaks of a compare-and-swap that rejects stale
  releases.
* A failure whose cause ranks no higher than the pause's leaves the generation
  alone (`acquire_pause`), so a release under way does not notice it.  A pause a
  human holds that is reclassified as scoped keeps its owner and is never verified.
* A reconciliation that was not asked for by a connection carries no generation
  and may publish READY for a connection it began before.  New evidence resets the
  back-off of its own batch only.
* `stop()` that cancels a task before its first step never enters the coroutine:
  its `finally` does not run and its waiters are not answered by it.

Entry:
* Without `PromptVenue`, an order reported as matched is closed as a zero fill
  when its trade is not shown within the grace; the event may then be entered
  again on its other side, and its one position row stands for two tokens.
* An intent that never learned its order's id stays unresolved, and keeps the
  slot, until an operator repairs it.

Exit:
* `_market_exit_fak` decides on a copy of the row (lines 4127 to 4131 and 4232 to
  4236), so a position closed meanwhile can be set to EXITING again.
* After a crash between the answer to a cancellation and its settlement, the fills
  of the cancelled order may never be read.
* An exit a run finds REJECTED or FAILED leaves the active link in place: a
  latched stop is not tried again (compare the comment at
  `strategy_runtime.py:2655`).
* EXIT_RECONCILIATION_REQUIRED without a latch is not cleared by anyone.
* A fill can be counted twice.  A run reads the account's trades before its
  positions (`reconciliation.py:1083` to 1086); a take-profit's second fill that
  falls between the two lowers the row through `reconcile_remote_position`, and
  the next run, which sees the trade, subtracts it again.  `apply_exit_fill` takes
  the lowered row for what it is only before the first proceeds are booked
  (`strategy_repository.py:4428`, and the comment there).  The row is then CLOSED
  or dust, without links, while shares are owned and the take-profit still rests,
  until a later positions view opens it again.  `Cut` covers it in `ExitLifecycle`;
  `TakeProfit` has the interleaving, marks it `ahead`, and its `ClosedIsGone` excepts
  it and nothing else.
* A take-profit that is filled to dust keeps resting while `apply_exit_fill` cuts
  both links; a frame that still holds the row from before can set it EXITING, and
  a seller on its way sells the rest beside it.
* `finalize_cancel` sets the take-profit link to NULL whatever it points to
  (`strategy_repository.py:4351`).  A run that listed a take-profit before the
  operator's close cancelled it repeats that (`reconciliation.py:1577`) after
  another take-profit was put, and so hides the second one; the next exit is
  posted beside it.
* After a crash `_ensure_take_profit_locked` (`strategy_runtime.py:2809`) does not
  look at the active exit, so a take-profit may be put beside an exit whose
  answer was lost with the process.
* A lost reply and late trades together let `resolve_unknown_open_exit_zero_effect`
  call an exit that was filled a zero fill.

Feeds:
* The rest of a batch after a saturating frame is lost, resolutions among it; out
  of order deltas, and those whose time is in the future, missing or unreadable
  (`order_book.py:508` to 560), are dropped without a resync, and a ready book stays
  ready without them; a pending
  alignment has no deadline; a snapshot of a newly added asset that arrives before
  `subscribed_asset_ids` is updated is ignored and comes back after five seconds.
* Private feed: an unparsable frame is dropped silently; an authentication
  substring raises and loses the rest of its frame; a second loss while entries
  are held for the first is dropped by `acquire_pause`; the worker task dies when
  the hold itself raises; a late row may set CONNECTED while the socket is down;
  `asyncio.to_thread(process_message)` has no running loop, so `on_trade_hint`
  is never called from there.
* Frames: the coalescing key (`strategy_runtime.py:1019`) names condition, edge
  and readiness, not the token.  A stop edge of the sibling token, or of a frame
  whose own update of the held token is no longer low, replaces the waiting frame
  on which the held token's stop would latch (line 1062).  The comments say that
  only the newest frame of one edge is actionable (line 1044) and that a stop edge
  is never dropped (`_enforce_critical_queue_cap`); the dip is then latched only if
  the exit supervisor still sees it.  `StopEdgeReplaced` is the run.
* Readiness: the stream compares with its own last value, so a row an aborted
  entry set to NOT_READY stays until the stream's next change, and blocks a
  release meanwhile (`pause_recovery.py:253`).
* Books: a delta that is both stale and malformed is hidden as stale, so its
  MALFORMED_DELTA (`order_book.py:795`) starts no resync, and the next fresh
  best_bid_ask makes the book ready without that change.
* Trade window: with rows but no stored watermark, `bootstrap_watermark`
  (`trade_window.py:208`) derives one from the newest persisted trade in every run
  until one commits; a truncated run that persists its trades and dies before
  `commit_trade_watermark` leaves the older ones behind it, although the docstring
  calls everything up to the newest ours.  An empty database has the same after a
  truncated first run.  `TradeWindow` with another `Start` than "row" shows it.
* Trade window: when the smallest slice still holds more trades than a run may
  read, the backlog does not drain (`next_watermark_state`'s docstring says it
  does); the run fails instead.

Ledgers:
* A RESOLVED or REDEEMED winner whose `exit_value` is 0 can be re-opened by a
  stale positions feed.  A partly sold loser with a sellable rest stays a gap.
  REDEEM_PENDING never becomes REDEEMED in live mode.
* A DUST loser swept to zero counts as a losing deal whatever its PnL, while the
  correction of a winner to a loser books no daily loss.
  RESOLVE_UNKNOWN_CLOSED_FAK compares with an empty winner when none is named, and
  then marks a loser.
* `quarantine_incident` overwrites whatever state the row has become.  An exit
  whose reply was lost can stay unresolved (compare the comment at
  `reconciliation.py:712`).
* A resolver batch of two can starve a market between the newest and the oldest
  when some market never gets a winner.  A slow discovery, or a stream
  resolution without a winner, can undo a REST resolution until the next batch.
* Demo deals: exits take every open deal with the present sample, whatever event
  it belongs to; a failed answer for the current event makes the next one active;
  a book in flight may enter an event that is over; a rule can be updated although
  the README calls it immutable.
* `demo_v2`: one failed sample of the entry gate (`health.py:58`; a discovery that is
  late, a book that waits) arms every rule again, and two seconds later an unchanged
  ask is entered again, within the rule's frequency; an arrival while the rule is
  disabled is not remembered (`engine.py:117`); a rejected book frame does not invalidate the stream although
  the docstring of `streams.py` says so.

## 8. Not modelled

* Paper mode, legacy order manager, risk manager, trading engine: superseded by
  the strategy runtime, sequential, no shared state.
* Venue adapters: the venue is external; its outcomes are choices of the models.
* Pure decimal arithmetic (walk of a book under a budget, fees): no state, and unit
  tests reach it well.
* Configuration, authentication, identity, provenance, geography: checks at
  start-up or of one request.
* Alerts, dashboards, reporting, archive, backup, exports, forensics, scripts,
  deployment, `polymarket-btc-local`: projections and recorders that take no
  trading decision.
* Simplifications of `ExitLifecycle`: its run reports a gap for an unidentified exit
  also within the submission grace, where `reconciliation.py:1285` passes over it; the
  branch of `strategy_runtime.py:3939` in which `get_order` answers with nothing is
  left out of `Settle`; the awaits of the open orders and of the trades are one step.
* `TakeProfit` has one resting order and no other sell; what the strategy does to it
  meanwhile is `ExitLifecycle`.
* Of the modelled components: metrics, audits, alerts, health projections, gap
  listings, the maintenance command's direct `run_once` (serialised by the
  worker's lock), heartbeats of the sockets, duplicate and hash checks of market
  messages, order attempts (append-only), attempt plans and prices of the exit,
  RESOLVE_UNKNOWN_REDEEMED_ENTRY.

## 9. Plan

Later models: the composition of `ExitLifecycle` with `Settlement` (the settled exit
as an action of the first), and of `FrameQueue` with `MarketStream`.  Later proofs: a
ready book with stale messages, for which the history has to say how far the book
may be behind.
