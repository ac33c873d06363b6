# Verification of the Bybit intraday trading bot backend

TLA+ modules for the parts of the bot that decide whether an order is sent, by
whom, how often, and who looks after the position afterwards. TLC checks small
instances; TLAPS proves the main invariants for every value of the constants.

Paths below are relative to the repository's root; in `PROJECT.json` they start
with `src/`.

## 1. The system

The bot has two processes and three outside services.

    Python backend (one leader of several Cloud Run instances)
      hourly watchlist -> 15M classifier -> 5M entry confirmation
        -> entry risk -> execution command outbox -> position sizing
                              |            |
                 HTTP hand-off|            |mirror (support)
                              v            v
    Node execution service   memory Map    PostgreSQL execution_commands
      coordinator, three slot loops: claim -> size -> submit -> resolve
                                     -> protect -> manage -> close
                              |
                              v
                            Bybit (orders, positions, stops)

Beside this path the Python backend still holds its older one, which runs when
the cut-over to Node is off (`python_execution_cutover.py`): a setup worker
queues candidates, `execution_handoff.run_once` submits the oldest behind a
durable claim, and the bot loop of `server.py` manages what is open. The
operator's routes, the kill switch, the ledger of fills and Historical Replay
live in the same processes.

### Inventory

| Component | State | Operations | Interacts with | What makes it correct |
|---|---|---|---|---|
| Node slot workers, coordinator (`node_execution/src/index.js`) | one command clone per slot, readiness, recovery flag | slot loop, claim, process, coordinator gate, shutdown | repository, executor, trade manager | one slot per candidate, every open position has an active command, slots come back |
| Hybrid repository (`hybridRepository.js`, `repository.js`) | `direct` Map, rows of `execution_commands`, `databaseReady` | accept, claim, transition, read, degrade | HTTP, PostgreSQL | states follow the table in memory too; memory and row never give two owners |
| Command executor (`executor.js`) | local command, exchange evidence | recover, prepare, intent, createOrder, resolve, protect | Bybit, repository | at most one order per candidate; FAILED means nothing is open |
| Live sizer, first trade gate | none of their own | check limits, orphan positions | Bybit positions and orders | limit on open positions; no trading beside orphans |
| Trade manager (`tradeManager.js`) | management state in Map and row | TP1, break-even, TP2, trail, save, finish | Bybit, repository | targets taken once, stop never loosened, closes noticed |
| Command storage (`execution_command_storage.py`) | row state, slot, owner | publish, transition | outbox, Node | the transition table |
| Leadership (`runtime_instance_guard.py`, `cloud_run_server.py`, `runtime_lifecycle.py`) | advisory lock session, monitor thread, stop event, `enabled` | acquire, promote, launch, gate, shutdown | orchestrator, PostgreSQL, HTTP | one working instance, workers launched once, a standby takes over |
| Orchestrator (`runtime_orchestrator.py`) | schedule, failure back-off | start, stop, loop, `run_due_once` | every stage | stages in order, cycles only under the lock |
| Entry stages (`hourly_watchlist.py`, `fifteen_minute_strategy_classifier.py`, `five_minute_entry_confirmation.py`, `authoritative_entry_risk.py`, `position_sizing_margin.py`) | a snapshot each, persisted at each build | due test, build, persist, reload | the previous stage, state store, market data | nothing stale is handed on; a failed build keeps the last good result |
| Outbox (`execution_command_outbox.py`) | `_DELIVERED`, last fingerprint, retry counts | direct post, mirror | Node, PostgreSQL | an approved candidate is delivered, in the end and not too late |
| Setup worker, hand-off, idempotency (`setup_worker.py`, `setup_queue_transaction.py`, `execution_handoff*.py`, `execution_idempotency*.py`, `durable_runtime.py`, `startup_reconciliation.py`) | queue in memory, one durable active claim, a permanent ledger row per candidate, durable journal and pending entry | evaluate, reserve, claim, submit, resolve, replay accounting, archive, bootstrap | Bybit, state store, `server.py` | one request per candidate for ever, no live order forgotten, each fill in the journal once |
| Bot loop, staged exits, operator routes, kill switch (`server.py`, `guarded_server.py`, `position_synced_server.py`, `engines/`, `issue1_risk_exit_policy.py`, `kill_switch_verification.py`, `python_execution_cutover.py`) | BOT_STATE, R plan of each position, verified stages, pending entry, `_PENDING_PARTIAL` | tick, management pass, manual order, start, stop, kill | Bybit, state store | stages taken once, the runner survives, an effective kill is not undone |
| Execution ledger, backfill (`live_execution_ledger.py`, `historical_execution_backfill.py`) | rows of fills, a summary per trading day | sync of two days, backfill of a range | Bybit, PostgreSQL | rows say what the fills did, in the end also after an overlap |
| Replay (`replay_*.py`) | candle cache, sessions, steps, trades, marks | collect, start, step, finalise, recover, reset, report | PostgreSQL, Bybit klines | candles once and in order; a result that does not depend on how it was computed |

`PROJECT.json` lists every component with its sources and status.

### What is hard here

* **Interleaving.** Three slot loops share one repository and yield at each
  `await`; main, monitor, worker and HTTP threads share leadership.
* **Two channels.** A candidate can reach Node over HTTP and as a row.
* **Lost answers.** An order request, a close, a stop move or a hand-off may
  have been carried out although the call failed.
* **Crashes.** Memory is lost at any point; some commands and states live only
  in memory while PostgreSQL is degraded.
* **Degradation.** One failed query switches PostgreSQL support off for as long
  as the slot loops run.
* **Two owners of one account.** The tick, the routes, the kill switch and the
  hand-off act on the same positions from snapshots they took at different
  times; a reduction that was not verified in time still executes.
* **Writes that belong together.** Claim, ledger row, journal and pending entry
  are separate writes; so are the three transactions of a replay step.
* **Time.** Stages compare candles of three lengths; leadership is checked at
  the start of a cycle and not during it; shutdown waits a bounded time.

The `hazards` of `PROJECT.json` name the lines.

## 2. Modules

| Module | Models | Role |
|---|---|---|
| `NodeExecution` | coordinator, slot loops, hybrid repository, executor, sizer's guards | component, composes repository, executor and exchange |
| `CommandLifecycle` | the transition table both languages share | abstract specification, implemented by `NodeExecution` |
| `NodeExecutionProofs` | | theorems |
| `MCNodeExecution` | | values of the constants, symmetry |
| `TradeManagement` | one managed trade in `tradeManager.js` | component |
| `TradeManagementProofs` | | theorems |
| `RuntimeLeadership` | advisory lock, promotion, worker loop, API gate, shutdown | component |
| `RuntimeLeadershipProofs`, `MCRuntimeLeadership` | | theorems, symmetry |
| `EntryPipeline` | `run_due_once` with its six stages, the hand-off and the mirror | component |
| `EntryPipelineProofs` | | theorems |
| `ExecutionHandoff` | setup worker, `run_once`, claim, permanent ledger, start-up | component, composes processes, store and exchange |
| `ExecutionHandoffProofs`, `MCExecutionHandoff` | | theorems, deployments and symmetry |
| `PositionManagement` | bot tick, management pass, manual order, start and stop, kill switch | component |
| `PositionManagementProofs`, `MCPositionManagement` | | theorems, deployments |
| `ReplayExecution` | the loop over the candles of a step: exits, entries, fees, marks | pure operators |
| `ReplayPerformance` | metrics, drawdown, sampling of the curve | pure operators over `ReplayExecution` |
| `Replay` | collector, session, step pipeline, recovery, reset | component, composes the two above |
| `ReplayProofs`, `MCReplay` | | theorems, three tapes and symmetry |
| `ExecutionLedger` | worker and backfill of the ledger | component |
| `ExecutionLedgerProofs`, `MCExecutionLedger` | | theorems, deployments |

Four modules take the constant `Deployments`: records saying which threads run
and which faults happen. A deployment is chosen in the initial state and never
changes, so that one run covers configurations that would be too large together.

### NodeExecution

JavaScript runs the code between two awaits atomically, so a step of a slot is
the code from one await to the next; `pc[s]` names the await. `mem` and
`memSlot` are the Map, `db` and `dbSlot` the table, `cand` and `view` the
slot's clone of its command, which may disagree with both. `order`, `open`,
`req` and `late` are the exchange: an entry order by its `orderLinkId`, the open
exposure, the request a slot waits for and requests whose caller has given up.
A candidate may be posted,
mirrored or both; the Map and the table then hold it twice. `sized` and `memSized`
say whose payload carries the plan that Node computed: the Map keeps it, a row
keeps the one Python delivered (`executor.js:38-44`), and `EnsureProtection`
compares the payload with the position's `stops`; `Repriced` are the candidates
for which the two differ. `misread` and `forgotten` are history variables: a
gateway error answered the order request, and the process died with the command
in its Map. `Coordinate` is a pass of the coordinator (ping, adoption, orphan check) up to
the start of the loops; `Crash` loses the Map, the clones and the loops.
`WriteTransition` is `transition()` with its three cases: the row, the shadow
that replaces the row when the query fails, and memory. An order is IOC, so
`PARTIALLY_FILLED` is the result of an order that ended. Management is reduced
to `ManageCycle`, `PositionMissing`, `FinishClosed` and `ReconcileClosing`;
`TradeManagement` has the detail.

### TradeManagement

Prices count half R from the initial stop, in the direction of the trade, so one
model serves both sides. `cycle()` is the chain of actions from `BeginCycle` to
`SaveState`; the local state is written to the Map and the table only at its
end. `closeFraction` is `FindPriorClose`, `SubmitClose`, `CloseVerified` and
`CloseUnverified`; `flying` holds close orders whose answer was given up. The
history variable `anew` records that a process began the trade anew because it
could not read the row.

### RuntimeLeadership

An instance is one container lifetime with four threads. `lock` is what
PostgreSQL believes, `session` what the process believes; they differ while a
session was dropped and nobody has asked. In the instances of `Slow` a cycle or a
leadership query may outlast the five seconds `stop` waits for it; `givenUp` is
history: the loop was asking for leadership when `stop` gave up on it.

### EntryPipeline

Time counts 5M candles. `pc` is the stage of `run_due_once`, `ts` the timestamp
the stages share; the classifier alone reads the clock again, through the hourly
watchlist. Each stage keeps status, candle and output; `Persist` saves it, which
may fail, and `Restart` reloads what was saved, if the store is healthy then.
Statuses are merged to what the next stage tells apart. Verdicts of strategies,
risk rules and sizing are the environment's choice (`Watchlists`,
`Classifications`, `RiskVerdicts`, `SizingVerdicts`), except the age limit,
which risk tests itself. A post is a step of its own; its failure says nothing
about whether Node has the candidate. The hand-off URL and token are taken as
configured. The busy locks and the orchestrator's back-off cannot be reached: one
thread runs the stages and each catches its own exceptions.

### ExecutionHandoff

`proc[p]` is the memory of a process: the local variables of `run_once` (`cand`,
`claim`, `resp`, `started`, and `ret`, where to go on after a claim transition),
the queue, the candidates evaluated (`seen`), `pend` and the journal in memory.
`active`, `ledger`, `journal` and `pendingDb` are durable; every put of one of
them is a step, so a process may die or be overtaken between any two. The
installers are resolved: `Reserve` and `OwnLedger` are the wrappers of
`execution_idempotency`, `ReloadClaim` and `SameOwner` those of the race fix,
`Bootstrap` the review fix, `FillDecision` and `ReplayAccounting` the hot-fix,
`execution_readiness` the gate of `durable_runtime`. `CreateOrder` sends the request;
its answer may be lost, or be a gateway's, whose HTTP status reads as a rejection
although the order lives (`server.py:384-389`; `misread` records it), and `OrderMoves` decides later what became of the order.
`Raise` is what an exception leads to from each place. The claim of a crashed
process is found by `Boot`, which asks for a review, or by `LoadClaim`.

### PositionManagement

`thread[t]` is one of the tick, the management route, the manual order and the
kill switch, each with its snapshot of positions (`view`). `ClosePartial`,
`VerifyPartial`, `PollReduced` and `RecordStage` are a staged exit of
`issue1_risk_exit_policy`; an order that is not verified stays in `orders` and
executes when the exchange likes. `pendPartial` is the single
`_PENDING_PARTIAL` and is lost by a restart. Sizes are integers, so that the 40
and 50 percent of the stages round down. `journal` is what the bot's list of the
last 1000 entries shows, `unread` what a failed call left in the table only, and
`JournalForgets` drops a stage that a thousand younger entries pushed out;
`forgotten` records whose. `killed` records that the switch
answered flat while no entry was under way.

### Replay, ReplayExecution, ReplayPerformance

A transaction is a step. `Sync`, `FetchPage` and `SyncFails` are the collector;
`CreateSession` freezes the candles. `AdvanceSession`, `EnrichStrategy`,
`EnrichExecution` and `Finalize` are the pipeline of one request, under the
advisory lock; `FailMarked` leaves the recovery marker, `FailUnmarked` (a crash)
does not. `ResetSession` takes no advisory lock, as in the code. `ExecuteCandles`
is the loop of `replay_simulated_execution` in integers of the money quantum,
where `_quantize` rounds as integer division does. A stop or target that is not
positive raises and fails the transaction (`Raises`). `Deterministic` compares the
stored account with one uninterrupted run of the same loop over the snapshot, so
it finds every double, lost or reordered booking; that the loop itself is right
is the business of `PerformanceAgrees`, which recomputes balance, drawdown and
curve by other definitions.

### ExecutionLedger

A fill is named by its place in execution order. `PositionAfter` is what Bybit
would answer; `Reconciled` walks back from the anchor as `reconcile_executions`
does, and `TrueRow`, used by the properties only, walks forward. `misled` is a
history variable: the two snapshots agreed although fills came in between or the
day had ended. A cutoff is in the past when its pages are fetched, so the pages
of a window are one step. Fills of one symbol in one millisecond without a
sequence number, which the code orders by order id, are left out.

## 3. Runs

| Run | Checks | Shows |
|---|---|---|
| `node_degraded` | `SlotExclusive`, `SubmitOnce`, `FailureIsDefinite`, `ExposureOwned`, `StatusFollowsTable`, `KeptLifecycle` | a posted candidate and a mirrored one that Node prices anew, with database faults, gateway errors and a crash at once: ownership and states stay right where memory replaces a row, and every command that was kept is submitted once, fails only when flat and owns its position |
| `node_restart` | `FailedMeansFlat`, `ManagedExposure`, `LifecycleSpec`, `FillIsManaged`, `ClosedTradeFreesSlot` | two mirrored candidates on two slots with a crash anywhere: no lost exposure, refinement of `CommandLifecycle` for all of it, fills come under management, closed trades free their slot |
| `trade_management` | `RunnerKept`, `BreakEvenHeld`, `TrailHeld`, `CloseIsNoticed` | whatever fails and repeats, the targets take at most 70 percent, a saved state never claims a stop the exchange does not have, a remembered trail is never loosened, a close is noticed |
| `leadership` | `LaunchedOnce`, `CycleUnderLock`, `QuietAfterRelease`, `Takeover`, `FollowerDisabled` | two instances, one with cycles that outlast the stop timeout, with dropped sessions, failing starts, crashes and shutdown |
| `entry_pipeline` | `TypeOK`, `UnsentIsDue`, `MirrorFollowsOffer`, `HandoffIsFresh`, `ApprovedIsDelivered` | the pipeline over an hour boundary with a failed call and a restart |
| `handoff` | `TypeOK`, `SubmittedOnce`, `LiveOrderHeld`, `NoEntryOverLive`, `FilledJournaled`, `JournaledOnce` | one process at a time with crashes, faults, a stop and two candidates; two processes at once with crashes or with a candidate each: one request per candidate, no order that may still execute is forgotten or joined by another (but for gateway answers), every fill is journaled, and not twice |
| `positions` | `TypeOK`, `RunnerKept`, `KillHolds` | the bot loop with faults and crashes, the same with a journal that forgets, the route, the kill switch against a loop that enters and against the manual order: verified exits leave the runner, nothing undoes an effective kill |
| `replay` | `TypeOK`, `CandlesInOrder`, `Deterministic`, `PerformanceAgrees` | two processes, two requests, a reset, a revision of the candles: each candle once, a result as of one uninterrupted run, a report that agrees with the account |
| `ledger` | `RowsTrue`, `LedgerConverges` | two days, two fills at any time, a worker with a failing call, and a worker beside a backfill: rows a worker stores are true unless its snapshot was misled, and rows and summary become true in the end |

`Kept` commands are those that came over one channel (`Sole`) and were not in the
Map of a process that died. `TypeOK` of `NodeExecution`, `RuntimeLeadership` and
`TradeManagement` is proved instead of run.

### Runs that end in a violation

Each shows where the code does not do what a line of the repository says; the
lines are quoted under `findings`.

| Run | Property | What TLC finds |
|---|---|---|
| `node_channels` | `OneSlotPerCandidate` | a candidate that was posted and mirrored is worked by two slots: its row is still `AVAILABLE` while a slot works the copy in the Map |
| `node_gateway` | `FailedMeansFlat` | an HTTP error without `retCode` is read as a rejection although the order arrived |
| `positions_twice` | `ClosedOnce` | a TP1 that executes after its pass gave up on it is not recorded as TP1, and a later pass closes 40 percent again |

### Divergences found while modelling

These were found with the modules by a property and a configuration that are not
kept as runs; each can be repeated as described.

* The second copy of a candidate on both channels (`node_channels`) does more than
  occupy two slots: its row stays `AVAILABLE` and is claimed after the direct
  trade finished, when the order evidence makes it `ORDER_PENDING` without a
  position and its slot is not given back. The exchange still accepts one order,
  as both copies have the same `orderLinkId`.
* With `DbFaults` more positions than `MaxActive` can be open: after a database error
  (`hybridRepository.js:159`) the slot's own row is invisible, the slot takes a
  directly posted command, and an order of the row that is still on its way is in
  neither of its two live checks. `Cardinality(open) <= 1` fails with one slot,
  `MaxActive` 1, a mirrored and a direct candidate (no crash is needed).
  `docs/direct-node-top50.md:12` says "Maximum three active trades."
  `PositionsAreBounded` says when there are no more positions than slots.
* A mirrored row whose stop or target Node's live plan changed keeps the plan
  Python delivered. A cycle after the first one, or after a restart, calls
  `ensureProtection` with it, `bybitClient.js:197` finds other prices on the
  exchange and throws, and so does every later cycle: the command stays
  `ORDER_PENDING`. `FillIsManaged` without `\ Repriced` fails in `node_restart`.
* A position that closes before its protection was verified leaves its command
  in `ORDER_PENDING` for ever: `ensureProtection` (`bybitClient.js:172`) throws
  in every cycle, and the slot is not available again (`README.md:105-106`, "FINAL
  RECONCILIATION", "SLOT AVAILABLE").
* A cycle that outlasts the stop timeout (`runtime_orchestrator.py:537`), or a
  promotion under way during shutdown (`cloud_run_server.py:132`), works beside
  the next leader's: `loop[i] = "work"` in two instances of `RuntimeLeadership`.
  When `stop` gives up on a loop that is asking for leadership, such a promotion
  can even make the answer yes: without `~givenUp`, `QuietAfterRelease` fails.
  `runtime_instance_guard.py:4-5` says "only the process holding this PostgreSQL
  session advisory lock is allowed to run scanners or automatic execution".
* A process that cannot read the row of a trade begins its management anew and
  moves the stop back to break-even; a later process reads the old row, whose
  trail the stop no longer has, and raises the stop only above that trail.
  `TrailHeld` without `~anew` fails in `trade_management`. A trail that moved the
  stop and was not saved before a crash may be loosened to the saved one too;
  nothing remembers it, so `TrailHeld` does not speak of it.
* The outbox runs between risk and sizing (`runtime_orchestrator.py:256-263`), so
  it mirrors the sizing queue of the previous cycle
  (`execution_command_outbox.py:621`): `[][rows' \ rows \subseteq risk.approved]_vars`
  of `EntryPipeline` fails with ticks 22 to 24 and no fault. `README.md:74` says
  "Risk and Sizing are the trade-eligibility authorities."
* An acknowledged order that is still unresolved comes back from verification
  with a local block code, `_mandatory_fill_decision`
  (`execution_handoff.py:176`) takes it for rejected, and its claim is completed
  as no fill while the order may still execute. The module says "Unknown or
  unresolved submission outcomes remain claimed and fail closed"
  (`execution_handoff.py:5`). What keeps the next entry out is the pending
  entry; `LiveOrderHeld` and `NoEntryOverLive` show that it does.
* `bybit_request` answers an HTTP error without a JSON body with the status as
  `retCode` (`server.py:384-389`). Only -2 counts as unknown
  (`execution_handoff_safety_hotfix.py:16`), so a 502 behind which the order was
  accepted is `create_rejected` (`engines/order_fill.py:171`), registers no
  pending entry (`engines/order_fill.py:335`), and its claim is resolved as no
  fill: a live order is held by nothing. `LiveOrderHeld` and `NoEntryOverLive`
  fail without `misread`. It is the Python twin of `node_gateway`.
* `_event_done` (`issue1_risk_exit_policy.py:157`) reads the last 1000 journal
  entries of all kinds (`engines/journal.py:9`, `durable_runtime.py:279-281`). A
  position held while its TP1 entry drops out takes TP1 again, with every
  reduction recorded: `RunnerKept` without `forgotten` fails in `positions`.
* A replay step whose process dies leaves no recovery marker, and a request with
  another key goes on over the unfinished step. `_mark_recovery_required`
  (`replay_engine.py:165`) says "Block later requests until the same idempotency
  key finishes enrichment." `Deterministic` is stated without such lapses.
* The backfill reads the positions once, after the fills
  (`historical_execution_backfill.py:84`), so a fill in between shifts every row
  of its symbol; `live_execution_ledger.py:450` says of the same race "Read
  executions between two equal position snapshots to avoid race
  classification". `RowsTrue` is stated for workers; older days stay wrong, the
  current and the previous one are repaired (`LedgerConverges`). The summary of
  an earlier day lists open symbols when a worker wrote it and none when the
  backfill did.

### Bounds

* `NodeExecution`: two slots and two candidates with a symbol each, delivered
  once. Two slots are enough for every race between claims. One crash reaches each
  combination of lost memory with what was in the table, on the exchange or under
  way. A second HTTP delivery and two candidates that are each on both channels,
  with faults and a crash, exceed the time of a run; the theorems cover them, and
  `node_channels` shows the case in which ownership fails.
* `TradeManagement`: sizes 1 (the minimum), 3 (rounds down at both targets) and
  10; marks at the initial stop, at TP1, at TP2 and beyond; two crashes,
  as a row that is behind needs one process that begins the trade anew and one
  that reads the row; calls may fail at any time.
* `RuntimeLeadership`: two instances with faults, one of them slow. Nothing bounds
  the number of failures.
* `EntryPipeline`: one symbol and a queue of one entry (two confirmations are
  enough to evict), an age limit of one candle, ticks 22 to 24, so that the
  first cycle lies before and the last one after an hour and a 15M boundary, one
  restart and one failed call. At `MaxTick` the last candle lasts for ever and
  cycles continue, so delivery may take any number of cycles. The clock moves
  between cycles and before the classifier's own read only, as the other stages
  use `ts`.

* `ExecutionHandoff`: two candidates, a queue of one, so that a second candidate
  evicts the first; a candidate may be evaluated again after every restart, and
  crashes and faults are not counted. Two processes suffice for an overtaken
  write; the theorem covers more. Overlap is split over three deployments
  (`MCExecutionHandoff`), because overlap with faults and both candidates
  exceeds the time of a run.
* `PositionManagement`: one symbol, entries of 10, so that 40 and 50 percent
  round; three orders and two positions: a stage, its late twin and a position
  opened after the first was closed.
* `Replay`: three candles; a long trade enters on the first, exits or not on the
  second, and a short one follows it. Tapes gap through the long stop, ruin the
  account, and reach the target; the short reaches its target in the first tape,
  is closed by the end of the session in the third, and gaps through its stop
  where a revision joins two tapes. A page of two rows makes a partial
  cache; one reset and one revision.
* `ExecutionLedger`: fills of 1, -1 and -2, two of which make every action, a
  round trip included; two days; two attempts per snapshot, one failing call.

The theorems remove these bounds for the properties they name.

### Fairness

* Slot loops, coordinator, monitor, worker loop and stages are threads or loops
  that poll for ever: weak fairness.
* A read that is repeated in every cycle (order truth, position), a lock attempt
  and a hand-off post are assumed to succeed in the end when they can succeed
  again and again: strong fairness. The code retries each without limit. This is
  no promise that `ensureProtection` succeeds: with other stops on the exchange
  than in the payload `EnsureProtection` is disabled and every cycle ends in
  `CycleError`.
* The ledger worker synchronises both days again and again for ever, while a day
  may change between: strong fairness of the start of each synchronisation, weak
  fairness of its steps. Failing calls are bounded there, as a sync that always
  fails repairs nothing.
* Runs of `ExecutionHandoff`, `PositionManagement` and `Replay` check safety and
  assume no fairness.
* Bybit answers requests and ends market orders; PostgreSQL reaps sessions of
  dead clients; the clock advances: weak fairness. Nothing is assumed of prices,
  stops, crashes or faults.

## 4. Theorems

All proofs are checked by TLAPS from the named assumptions on the constants,
which only give them their types; `PositionsAreBounded` needs a finite `Slot`
besides. No theorem assumes a deployment: where the code does not do what a
property would say, the property names the commands or positions it is about by
what happened to them, in history variables, and the divergences above say what
the code does with the others.

**NodeExecutionProofs.**

| Theorem | Speaks of |
|---|---|
| `TypeCorrect`, `SlotCarriesOne` | everything |
| `CommandOwnedBySlot`, `TransitionsLegal` | commands that came over one channel (`Sole`) |
| `EntrySubmittedOnce` | those that no dead process had in its Map either (`Kept`) |
| `FailedIsFlat`, `ExposureIsManaged`, `ImplementsLifecycle` (`CommandLifecycle`) | kept commands whose `createOrder` no gateway error answered |
| `PositionsAreBounded` | the same, while the process can read its rows or its Map has no active command |

`CommandOwnedBySlot` says that delivery over both channels is the only cause of
what `node_channels` finds. Database faults, restarts, abandoned requests and
gateway errors of other commands are all included.

The invariant `Inv` has five parts beside the types. `Views`: what a slot
believes at each await. `Owner`: the stored command of a candidate that came once
agrees with the slot's clone and names the slot; two slots cannot both be named by
one stored command, and this is what makes the rest inductive. `Channels`: what
the Map and the table may hold of a candidate, shadows of rows only while
PostgreSQL is off. `Slots`: the active commands in sight, and the active rows,
name different slots, and a slot that looks for work has none in sight, although
its answer is stale when it reserves. `Fresh`: a kept command that can still reach
`createOrder` has not been there. Lemmas for a local step, a transition, a pick
and a yield carry every action.

`Flow` adds the exchange: what an order, an abandoned request and a position can
still do against the status that the repository answers (`Settled`), and what a
slot may conclude at an await from what it read before (`Informed`: whoever is
about to fail a command knows its order dead or never created, with no request
under way). It speaks of `Clean` commands, kept and not misread; no step makes a
command clean again. `FailedIsFlat`, `ExposureIsManaged` and `ImplementsLifecycle`
follow from `Inv` and `Flow`; the refinement has one lemma per kind of step, each
a step of `CommandLifecycle` for one command or a stutter. `PositionsAreBounded`
maps positions to the slots of their commands, one to one.

**TradeManagementProofs.** `TypeCorrect`, `RunnerIsKept`, `BreakEvenIsHeld` for
every size, step and number of failures and restarts. The invariant relates a
state in memory, in the table, or held by a cycle between two calls to what was
closed, to the close orders given up that may still fill, and to the stop.
`TrailIsHeld` has an invariant of its own (`Trails`): until a process begins the
trade anew, the stop is behind no trail that memory, the row or a cycle holds, and
the row's trail is never ahead of the one in memory.

**RuntimeLeadershipProofs.** `TypeCorrect`, `WorkersLaunchedOnce`,
`CyclesUnderLock`, `ShutdownIsQuiet`. The invariant says that a good session and
the lock are the same thing (`Held`), that whoever is about to launch finds
nothing launched (`LaunchPending`), and what a promotion can find during
shutdown (`Leaving`): a promotion that has yet to acquire or to confirm leaves the
stop event set, so that a loop that outlasts the join ends before its next cycle.

**EntryPipelineProofs.** `UnsentStaysDue` and `MirrorNeverFirst` rest on
`HandoffInv`: what the outbox remembers of a fingerprint without retries was
delivered (`Remembered`), a running build has posted what it no longer lists
(`Delivering`), and what sizing holds, in memory or saved, was offered before
(`Offered`). `HandoffsAreFresh` adds `Fresh`: no stage is ahead of the cycle's
clock, an entry stage at the cycle's candle has been judged by risk, and risk's
approvals, also the saved ones, are within the age limit at the end of the
candle its fingerprint names. Snapshots reloaded after a failed save are the
case that needs the saved copies in the invariant.
`TypeCorrect` needs the saved copies for the same reason (`SavedTypes`), and that
the rows of a finite set of symbols have an order at all (`RankedType`: as many
numbers are at most the i-th as i says, and such a count is one to one).

**ExecutionHandoffProofs.** `OrderSubmittedOnce` and `FilledIsJournaled` hold for
every deployment: any number of overlapping processes, with crashes and faults.
`SubmittedOnce` is not inductive: a process about to post must be known to be the
only one. `HandoffInv` adds `Reserved` (a candidate that a process carries
between the reservation and the post has a ledger row, is carried by no other
process, and has had no request; one without a row has had none either) and
`ClaimsCandidate` (the claim posted is for the candidate reserved). What makes it
inductive is that no step gives a ledger row back: `LedgerKept` is one lemma per
kind of write. The owner tests of the claim (`OwnsSubmission`) are not needed
for it; they protect the claim, not the request. `FilledIsJournaled` follows
every write of a claim with a fill, also one that a second process or a
reconciliation overtakes: a claim noted as filled, wherever it is held, has its
entry (`BookedInv`).

`LiveOrderIsHeld` and `NoSecondEntry` speak of one process at a time, as their
properties do, and not of an order behind a gateway's answer. `AloneInv` says at each step of `run_once`, of the recovery and
of the start which of the active claim, the ledger row, the pending entry in
memory and the one in the store names the order, when the others do not yet or
no longer do; the case that needs it is the local block code after an
acknowledgement (divergences above), where only the pending entry is left.
`JournaledExactlyOnce` adds `OnceInv`: without store faults the journal in memory
is the stored one but for the entry being written, a claim about to be journaled
is in neither, and no later claim gets its number.

`TypeCorrect` needs one fact beyond the types: a claim without a state names no
candidate (`ClaimOk`), else writing back an empty claim would put a row without a
ledger state into the ledger. That a queue stays a queue when rows leave it
(`WithoutType`) rests on `NthExists`: a finite set of numbers has an n-th.

**PositionManagementProofs.** `TypeCorrect`, `KillIsHeld` and `RunnerIsKept`, for any number of
symbols, positions and orders and every deployment. `KillHolds` is not inductive:
flat now says nothing of who may still trade. `Quiet` adds that the bot is
disabled, no entry order is live, and no thread is between the last test of
`execution_is_current` and the end of its order; then a tick overtaken anywhere
ends at that test, and a reduce-only order that is still live finds nothing.

`RunnerIsKept`: `RunnerKept` speaks of reductions that were recorded, but an
order executes before it is recorded, and a row of the snapshot may be late in
either direction. `RunnerInv` sets the order of the stage under way aside
(`InFlight`): a position whose other reductions are recorded (`Accounted`) had,
before that order, no less than the plan, what TP1 leaves, or the runner, by what
the journal holds (`Floor`), and no less than the snapshot shows (`Rows`).
`Staged` says that the order asks for a share of what the snapshot showed, once
per stage, and is not recorded yet; recording it lowers the floor by no less than
it took (`Tp1Leaves`, `Tp2Leaves`, with the rounding of sizes below 3). A stage
that is lost by a crash, a lost answer or a failed write leaves a reduction that is
never recorded, and one that dropped out of the journal makes its position
`forgotten`; either way the position is no longer accounted for. `StageStaysOpen`
is where the journal matters: what a pass decided to take is still open when it is
recorded.

**ReplayProofs.** `CandlesDelivered` from `CandlesInv` (the cursor stays in the
range and the events are the candles up to it); the lemma `CandlesAppended` says
that a batch continues the sequence. `PipelinesExclusive` from `LockHeld`.

`BatchingIsInvisible` states `Deterministic` for every tape, batch size and
number of processes. It needs what the execution of a range of candles gives
without induction over the range: `ExecuteCandles` folds a recursive function,
which exists and is unique (`RunExists`, `RunUnique`, by the least number at
which it would fail), so that two ranges in a row compose (`StepsCompose`).
`StepsAccounted` then says what the account is while a step is under way: until
a step wrote its outcome, the result up to its first candle, from then on the
result up to its last, and at most one step is unfinished. `TypeCorrect` needs
the account to keep its columns and never to go below zero: an entry whose fee the
balance cannot pay is skipped, and the loss of a close stops at the balance
(`OpenedIsAccount`, `LossIsLimited`, `CandlesKeepAccount`).

`ReportAgrees` states `PerformanceAgrees`. The library's sum takes the trades out
in an order of its own choice; `SumTakesOut` shows by the least set at which it
would fail that any other order gives the same, hence that a closed trade adds
its result (`PnlOfOneMore`) and that wins and losses make the net
(`PnlOfParts`). `Booked` is the inductive part: balance and trades agree, and no
closed trade was entered at the open one's candle, as otherwise closing it might
replace a row instead of adding one. That holds until an entry breaks the primary
key, when `failed` rolls the transaction back (`InOrder`). `DrawdownDrawn` follows
the incremental drawdown mark by mark.

**ExecutionLedgerProofs.** `RowsAreTrue` states `RowsTrue`. The code adds up
quantities backwards from a snapshot, the property forwards from the first fill,
so the proof is about sums over sets of fills: the fold takes the fills in an
order of its own, and `TotalAdds` and `TotalSplits` show that the order does not
matter, by a least set at which it would. `WalkToday` and `WalkYesterday` are the
two walks of a worker, from the snapshot over the fills of its day and from the
day's opening over those of the day before; both need the fills to be in the
order of their days (`InOrder`). `LedgerInv` says of a thread between its reads
what it has read of how many fills, and at the upsert that its walk gives the
position after each fill of the window (`IsAnchored`), which later fills do not
change (`AnchorHolds`). `ReadPositionsAfterKeeps` is where the second snapshot
matters: equal snapshots with no fill between them leave nothing behind the
anchor. `RowIsTrue` compares the five cases of the classification with the
forward account; Bybit's closedSize agrees with what is inferred
(`ClosedSizesTrue`), so taking the larger of the two changes nothing.

Only model-checked: the liveness properties (the leads-to properties of the runs
and `LedgerConverges`), which need fairness.

## 5. Not modelled

* Numbers: indicator values, strategy scores, quantities, margins and prices
  beyond what `TradeManagement` compares. They are choices of the environment.
* A second Node process and its leadership lock; the composition of
  `EntryPipeline` with `RuntimeLeadership` (a leader that comes back continues
  with its own snapshots); two candidates of one symbol.
* Payload contents, so neither Node's refusal of a redelivery with other facts
  nor an immutable row with another sizing.
* An unsaved TP1: when a cycle dies between the TP1 close and the stop move and
  the mark pulls back, the code does not move the stop. `BreakEvenHeld` speaks
  of saved states only.
* Of the hand-off: quantities, the daily-loss and wallet fallbacks of
  `execution_truth_recovery`, and the single rows the start-up reconciliation
  compares; its verdict is an outcome. While the cut-over is on, `run_once` is
  blocked at its order (`BlockedLocally`).
* Of the bot: the percentage policy of `engines/position_management.py` that the
  R policy replaces when it is installed, the read-only dashboard routes, daily
  loss amounts. An exception of a tick ends the bot loop while `enabled` stays
  true (`server.py:2652`); `Raise` and `loop` model it and no property is stated,
  as no line promises that the loop survives.
* Of replay: visualisation, the accuracy report, the import guard of
  `replay_safety`, the backfill of a missing snapshot.
* Of the ledger: prices and fees, `analytics_runtime`, list routes.
* Strategies and indicators (floating-point functions of candles), HTTP wrappers
  and authentication, the frontend and deployment scripts.

## 6. Plan

1. Done: Node execution and lifecycle, trade management, leadership, entry
   pipeline, hand-off, staged exits and kill switch, replay, ledger.
2. Done: every safety property of a passing run is a theorem.
3. `EntryPipeline` composed with `RuntimeLeadership`: a leader that comes back
   with its own snapshots; two candidates of one symbol in `NodeExecution`.

## 7. Running

    tlc -workers 2 -config node_restart.cfg MCNodeExecution
    tlapm NodeExecutionProofs.tla
