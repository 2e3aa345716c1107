# short-telegram-bot-lite in TLA+

The bot watches Bybit USDT perpetuals for pumps that may be worth a short, follows each one as an
*event*, and sends signals and WATCH notices to Telegram. This directory holds the TLA+ modules that
model its stateful core and its admission rules, the TLC configurations that check them, and TLAPS
proofs of what matters most. Paths below are relative to `src/`.

## 1. The system

One process, one asyncio event loop, one SQLite database. `scripts/run_live.py` runs `startup`,
`run_forever` and `shutdown` of `ShortSignalBot` (`app/main.py`). Two coroutines change state:

* the **scan** (`run_forever` → `run_cycle`): check the storage, drain the outbox, load the rows of
  active events once, fetch the market, prepare the rotation, process every symbol in turn, update
  outcomes, record coverage;
* the **fast monitor** (`_run_fast_monitor`, a task made at the end of `startup`): every few seconds
  re-evaluate the candidates in the in-memory pool `_active_climax_pool`.

Every repository call is synchronous and one transaction: it commits, or raises and leaves nothing.
So code between two `await`s is atomic for the other coroutine, but not for a crash, which can come
between any two transactions. All interleaving hazards sit at awaits: network fetches and sends.

| component | state | operations | hard part | module |
|---|---|---|---|---|
| Telegram outbox (`storage/repository.py` 368–660, `main.py` 235–293) | `telegram_delivery_outbox` rows, `telegram_sent` of the source rows, `_watch_sent_in_cycle` | store with the source row, claim with a lease, mark sent, mark retry, drain, send new | leases, retries, crash between send and mark, two coroutines, late answers | `DeliveryOutbox`, `AtLeastOnce` |
| event lifecycle of a symbol (`events/`, `main.py` 1308–1472) | one `event_states` row per symbol | build, reset on a new high, advance, expire, mark signalled, save | whole rows read early and written back late | `EventSignals` |
| climax signals (`main.py` 645–1115) | `signals`, `_active_climax_pool` | evaluate, dedupe, recheck, save, deliver | same code run by both coroutines, awaits between check and save | `EventSignals` |
| shadow root events and attempts (`storage/repository.py` 1023–1660) | `climax_root_events`, `climax_entry_attempts`, `climax_entry_attempt_events` | create, observe, transition, expire, replace, reconcile | terminal states, cap per root, restart | `ShadowAttempts` |
| run cycle and market rotation (`main.py` 303–392, `storage/repository.py` 81–240) | rotations, cycles, symbol results, coverage ledger | prepare, record, reuse, abort, complete | errors at every stage, restart, changing universe | `ScanCycle` |
| fast monitor scheduling (`main.py` 394–542) | pool, cursor | choose a bounded slice, poll, sweep | fairness over a list that changes during a poll | `FastMonitor` |
| outcomes and observation ledger (`outcomes/`, `storage/repository.py` 662–880) | `signal_outcomes`, `strategy_observations` | append, list due, evaluate, write | limits, backoff, partial answers, a second process | `Outcomes` |
| request scheduling and derivatives cache (`infra/`, `market/`) | semaphore, limiter, `TTLCache` | schedule, pause, retry, combine | concurrency of two coroutines, failures that are cached | `MarketRequests` |
| admission rules (`signals/`) and the volume climax lifecycle | none; the lifecycle is kept in the event's row | filters, score, guard, vetoes, selection, advance | many thresholds that must agree | `BaselineRules`, `ClimaxRules`, `Evaluations` |
| error throttling | alerts sent per error | throttle, send | an alert may raise itself | `Report` of `ScanCycle` |
| features, indicators, short zone, formatter, migrations, health, scripts, research | none of their own | | stateless, offline or I/O | section 5 |

`PROJECT.json` lists all of them under `components` with what is modelled, and under `hazards`
everything here that is hard to test, at its line, with the properties that look for it.

Correctness, component by component:

* **outbox** – a stored message is pursued until sent or dead; attempts are bounded; SENT means
  Telegram took it; one row is in one pair of hands at a time (while the lease covers the batch);
  a final status stays; one cycle stays within its WATCH budget.
* **event lifecycle and signals** – one signal per tracked event, one climax signal of each kind per
  event id, one WATCH of each type; `signal_id` and status belong to the tracking the row is of; a
  row does not go back to an earlier tracking, lose its signal or revive.
* **shadow attempts** – terminal states do not reopen, each is closed once, a root stays within its
  cap, the history tells the state.
* **cycle and rotation** – at most one open rotation, closed for the reason its status says, complete
  only when covered; the past is not rewritten; the telemetry of a cycle names the rotation it ends in.
* **fast monitor** – while candidates only come, each gets its turn within a round; one candidate per
  symbol; an event out of time stays out.
* **outcomes** – a settled outcome stays while the bot is alone, a pass of the script costs it once at
  most, and each observation that can be settled is settled for good.
* **requests** – bounded concurrency across retries, spaced first calls, and no fetch that hangs.
* **rules** – more risk never turns a refusal into a signal, and the squeeze guard only takes away,
  where the grades that are sent nest; a signal is tradable; the fallback waits for a quiet window.

## 2. Modules

### `AtLeastOnce`
What the outbox promises: a message is stored, tried at most `MaxTries` times, accepted only after a
try, confirmed only after it was accepted, and (in `Spec`) pursued until confirmed or used up.

### `DeliveryOutbox`
The table and both coroutines, one step per transaction with the code up to the next await.

| action | code |
|---|---|
| `Boot`, `BootDegraded` | `startup`, with healthy and failing storage |
| `StartCycle`, `SkipCycle` | the head of `run_cycle` |
| `DrainSignals` (an operator of the two above), `DrainWatch`, `DrainNoWatch` | the halves of `_drain_delivery_outbox` |
| `Save`, `ClaimNew` | `save_signal` / `save_watch_candidate`, `_send_new_delivery` |
| `TelegramAccepts` | Telegram takes the message (external) |
| `SendSucceeds`, `SendFails` | the two outcomes in `_deliver_outbox_item`, with `mark_delivery_sent` / `mark_delivery_retry` |
| `DbFails`, `Crash`, `Tick` | a raised transaction, a process stop, time |

`lease_until` and `next_attempt_at` are kept as time left, cut at 0. A send may fail after Telegram
took the message. `Crash` keeps the table and what Telegram has, nothing else. `DbFails` drops the
batch in memory as it is, because nothing between the transaction and the handlers of `run_cycle`
or of the monitor catches it.

### `EventSignals`
One symbol, with the scan and the fast monitor as two workers that hold *copies* of the row. `db` is
the row, `copy[w]` the `EventState` in a coroutine's hands, `pc[w]` the await it is at. What the
market decides (a pump qualifies, a new high, a kill price, the verdict of an evaluation) is a free
choice. `track` numbers the events built; `event` is the `event_id`, which `build_event` makes of
the high, so that with `ReuseIds` a later tracking may get an earlier id.

| action | code |
|---|---|
| `LoadActive` | `run_cycle` 313–333: the rows of the whole cycle |
| `ScanNothing`, `DetectPump`, `ResetOnHigh`, `ProcessKnown` | the branches of `_process_symbol` |
| `NotActionable`, `Duplicate`, `EmitVolume`, `Recheck`, `RecheckFails`, `EmitLow`, `SaveConflicts`, `SignalDone` | `_evaluate_and_send_climax`, run by either worker |
| `EvaluateZone`, `WatchDone` | the baseline strategy after the zone's liquidity |
| `SelectCandidate`, `PollNothing`, `DropReplaced`, `LoadCandidate`, `CandidateExpires` | `_run_fast_monitor` |
| `Fails`, `Crash`, `BecomeLate` | a raised transaction, a stop, `expires_at` passing |

`Introduce` and `Continue` are the rest of `_process_symbol` once no climax was found, part of the
step that found none.

### `ShadowAttempts`
The shadow lifecycle of one symbol: roots with their revision, attempts, and the history of each
attempt. The scan and the fast monitor are workers again; here a step is one transaction, because a
stop between two of them is the hazard. `Turn` says that nobody else is between two transactions.

| action | code |
|---|---|
| `Track`, `Replace` | `_prepare_shadow_root_event`, `_track_climax_candidate`, with `close_open_shadow_attempts_for_root` |
| `Select`, `CandidateLeaves` | the pool |
| `EvaluateVolume`, `UpsertVolume`, `MarkActionable` | the volume climax branch of `_evaluate_and_send_climax` |
| `EvaluateLow`, `EvaluateOther`, `Decide` | the other branch, before and after the observations are written |
| `Skip` | an evaluation that never comes to the tables |
| `WriteFails`, `Fails` | a failed write the repository passes over, one that raises |
| `Restart`, `BecomeDue` | a stop, `startup` and `reconcile_shadow_lifecycle`; `confirmation_expires_at` passing |

`Upsert` is `Create`, `Observe` or `LeaveAlone`, the three ends of `upsert_shadow_entry_attempt`.
An entry of the history is its own idempotency key: type, operation, number and new state; `Note`
drops an entry whose key is there. `LatestOpen` leaves open which kind is the latest, because one
kind is stamped with the time of a candle and the other with the time of day.

### `ScanCycle`
`run_cycle` over several symbols, from the storage check to the coverage record, and what becomes of
an exception at each stage. A rotation is the cycles in which one process saw one universe, until
every eligible symbol has a result; `rotations`, `cycles` and `ledger` are the tables, `ended` the
`symbol_results` of the cycle. What a symbol's processing does to its event is `EventSignals`.

| action | code |
|---|---|
| `Start`, `BeginCycle`, `StorageUnhealthy` | `startup`, `run_forever`, `_ensure_storage_healthy` |
| `FetchUniverse` | the drain, `load_active`, `fetch_market_snapshots` |
| `PrepareRotation`, `PrepareFails` | `prepare_market_scan_rotation`, and the symbols to schedule (`Schedule`) |
| `ScanSymbol`, `SymbolRaises` | the loop over symbols and its `except` |
| `OutcomesUpdated`, `Record`, `RecordFails` | `update_due_outcomes`, `record_market_scan_cycle` with the coverage rows |
| `CycleRaises`, `HandleCycleError`, `Crash` | the outer `except` with `_handle_error`, a stop |

`Ensured` is the lookup that both transactions make for themselves: reuse the newest open row if it
is of this process and universe, else close it and open one. `Report` says that an alert may raise, and then goes where the
exception would have gone.

### `FastMonitor`
The pool of several symbols, the monitor that polls it and the scan that feeds it while the monitor
waits. What one candidate's poll does to its event is `EventSignals`.

| action | code |
|---|---|
| `DetectEvent`, `TrackAgain`, `RenewHigh` | `_process_symbol` with `_track_climax_candidate` (`Track`) |
| `ScanEnds`, `ScanRaises` | the row saved after the evaluation, or an exception before it |
| `Boot`, `Poll`, `FramesArrive` | the task, `_select_fast_monitor_keys` and the cursor, the fetch of candles |
| `KeyGone`, `KeySkipped`, `KeyReplaced`, `Evaluate`, `EvaluationEnds`, `EvaluationRaises` | the loop over the keys of one poll |
| `Sweep`, `Tick`, `Crash` | candidates out of time, time, a stop |

The ghost `missed` counts for each key the polls whose slice left it out (`PassedOver`), since its
latest place in one; it begins again when a candidate leaves the pool (`Missed`).

### `Outcomes`
The passes of `OutcomeTracker.update_due_outcomes` over signals and over strategy observations, run
by the bot every cycle and by `scripts/evaluate_outcomes.py` in a process of its own.

| action | code |
|---|---|
| `RecordObservation`, `SaveSignal` | the inserts |
| `BeginPass`, `SignalEvaluated` | `list_signals_missing_outcomes` and the loop over signals |
| `NextBatch`, `ObservationEvaluated`, `PersistenceFails` | `list_strategy_observations_due_outcomes`, the batches, `update_strategy_observation_outcome` |
| `PassRaises` | what neither loop catches, and a stop of the process |
| `Tick` | time, which every pass reckons from its own beginning |

`NextRow` drops the row dealt with; after the last one of the last batch, or when no row is due, the
pass is over (`Leave`). Whether an observation has a usable price is chosen when it is recorded
(`priceless`). The ghost `undone` counts the writes that took a settled outcome away.

### `MarketRequests`
The derivatives of a symbol, fetched by both coroutines through one `RequestScheduler`.

| action | code |
|---|---|
| `Fetch`, `FetchEnds` | `fetch_optional_derivatives`: the cache, the gather of two requests, the status that is cached |
| `Enter` | the semaphore of `RequestScheduler.schedule` |
| `TakeLock`, `FirstCall` | the lock and the pause of `AsyncRateLimiter.acquire` |
| `CallReturns`, `CallRaises`, `Retry` | `_run_with_retry` |
| `Tick` | time |

### `BaselineRules`, `ClimaxRules`, `Evaluations`
The admission rules as operators of the features `f` and the configuration `c`, in integers:
`Baseline` is `SignalEngine.analyze` with filters, score, penalties, order book level, squeeze guard
and grades; `Volume`, `Low` and `Selected` are `evaluate_climax_bundle`. `Evaluations` moves one
feature a minute (`Evaluate`; `ConfirmHigh` is `reset_after_confirmed_high`) and keeps the volume
climax lifecycle of the event's row (`Advance` is `advance_volume_climax_lifecycle`). What only adds
to the score and is looked at by no other rule (EMA distance, close position, range of the candle and
of the event, place in the zone) is one number, `f.rest`. The three returns are features: they make
the event's quality (`EventQuality`), and filters, guard and vetoes look at two of them as well.

### `Selection`
`Kept(s, I)`, the entries of a list at the positions `I` in their order: the list comprehensions of
the pool and of the outcomes' line. `FastMonitor` and `Outcomes` use it where `SelectSeq` would do
for TLC, because it can be proved about.

### Instances and proofs
`MC<module>` instantiates a module for TLC; the constants are in the `.cfg` files, the values that a
`.cfg` cannot write (universes, configurations, markets) in the MC module. `<module>Proofs` holds
the theorems of a module.

## 3. Runs

| run | checks | bounds |
|---|---|---|
| `outbox_leased` | `LeaseCoversBatch`, `OutcomeIsFinal` | 3 rows, 2 attempts, lease longer than a batch, WATCH sending off as shipped |
| `outbox_live` | `TypeOK`, `AttemptBudget`, `ConfirmedWasAccepted`, `WatchWithinBudget`, `EveryMessageSettles`, `ImplementsRetries` | 2 rows, 2 attempts, sends that outlast their lease, so that a row is claimed again during its send; a crash; under `FairSpec` |
| `signals_scan` | `OneSignalPerTracking`, `WatchOncePerTracking`, `RowMovesOn` | scan alone, no fault, 2 trackings, 3 signals |
| `signals_both` | `ClimaxOncePerEvent`, `SignalIdIsOwn`, `StatusIsBacked`, `TypeOK` | both coroutines, 1 fault, reused ids |
| `signals_race` | `OneSignalPerTracking` | expected violation, see section 6 |
| `attempts` | `AttemptHasRoot`, `CapPerRoot`, `HistoryTellsState`, `ClosedIsFinal`, `TerminalStays`, `TypeOK` | both coroutines, 2 roots, 2 revisions, 2 evaluations, cap 1, root tracking on and off, a stop and a failed transaction |
| `cycle` | `ClosedStatusTellsWhy`, `CompletedMeansCovered`, `PreparedRotationIsOpen`, `LedgerBacksResults`, `HistoryStands`, `TypeOK` | 3 symbols, 3 universes, 3 cycles of 2 processes |
| `monitor` | `OneCandidatePerSymbol`, `ExpiredStaysOut`, `TurnComesRound` | 3 symbols, one with 2 events in turn, polls of 2 candidates, any number of stops; the two symbols that are alike are symmetric |
| `outcomes` | `UndoneOncePerScript`, `SettledStaysAlone`, `EveryObservationSettles` | 2 observations, each with a price or without, the first one's candles perhaps never there; 1 signal, batches of 1, a pass of the script beside the bot's; under `FairSpec` |
| `requests` | `ConcurrencyBound`, `FirstCallsSpaced`, `EveryFetchEnds` | 2 clients with 2 requests each, 2 slots, 3 attempts; under `FairSpec` |
| `rules` | `SignalIsTradable`, `GuardOnlyTakes`, `RiskNeverAdmits`, `ReadyIsQuiet` | 4 markets and whatever is within 2 features of one, 6 configurations, of which 2 send the grade C, 5 minutes |
| `rules_new_high` | `LowWithoutNewHigh` | expected violation, see section 6 |

Every property of a passing run has a mutant in `PROJECT.json`: a plausible mistake in one of the
mapped definitions that makes TLC find the property violated.

**Bounds.** Two attempts are the smallest number with a first, a last and a bound to overrun. Three
rows make a batch of two with another row behind it. One crash is enough to lose a send in flight
and have the next process meet it; the second one repeats the same situation. For a symbol, two
trackings give an old and a new event, and two signals are what every uniqueness property needs to
break; the third in `signals_scan` leaves room for a signal after the one under suspicion. For
attempts, two roots are a replaced one and the one that replaces it; two revisions of two kinds are
four possible attempts against the cap. For cycles, the three universes differ by a symbol that the
exchange drops and by one that the filter excludes; a shortlist of one of two eligible symbols makes
a rotation take two cycles, and the third is of the next process or universe. For the monitor, a
poll of two out of three candidates is the smallest slice that puts a candidate behind one that
raises, goes round the end of the list and has the cursor move by less than the list; one symbol
with two events is what replaces a candidate. For outcomes, one place per batch and one batch per
pass make the rows compete; the first row may never be settled, and the second, which is, has a price
or none: with one it goes through its retries, its delays and whatever the script undoes. Three
attempts are the code's own number; two slots for four requests make two of them wait. The four
markets of the rules are one that each strategy admits and one that has calmed down enough for the
fallback; two features away from one of them reaches every pair of conditions.

`LeaseCoversBatch` and `OutcomeIsFinal` hold only if the lease outlasts the batch: it is longer than
`SendLimit` times the rows of a batch (`DrainLimit`, or the one row just stored). That is the
hypothesis `LeaseOutlastsBatch` of their proofs, and it is tight: with a lease of just that length
TLC finds both violated. In the code the lease is 120 s for 5 sends and nothing enforces how long a
send may take; `outbox_live` shows what remains true when it takes longer.

`RowMovesOn`, `OneSignalPerTracking` and `WatchOncePerTracking` hold for the scan alone
and without faults. With the fast monitor on they do not: that is `signals_race`.

`TerminalStays` is stated for behaviours without a failure or a stop so far, and `AttemptHasRoot` for
those in which no write failed; both exclude what section 6 tells of. That a replaced root has no
open attempts is no property of this code: they are closed only if its candidate is still in the
pool, and else by nobody but a later start, once their TTL has passed.

`SettledStaysAlone` is stated until the script runs: a pass of `evaluate_outcomes.py` that read a row
before the bot settled it writes over it, and so does the bot's the other way round.
`UndoneOncePerScript` says that this happens once per pass of the script at most, and
`EveryObservationSettles` that it is made good.

`TurnComesRound` counts while no candidate leaves the pool. Nothing in the code bounds the wait of a
candidate beyond that, see section 6.

`GuardOnlyTakes` says two things. That no mode adds a signal holds for any thresholds where the grades
that are sent nest (`GradesNest`); `send_grade_c_to_telegram` with `min_public_signal_grade` A is the
one choice where they do not: A and C are sent and B is not, see section 6. That what a mode
takes is still watched needs room for it, which `WatchesTheRest` spells out by mode: WATCHes are on
and begin low enough for a score that the penalty has lowered, a grade that is no longer sent is
watched, and pullbacks begin at 1 % at least. The thresholds of `config.yaml` leave that room in
every mode (the shipped one is `warn_only`, which needs none); `AppConfig` does not ask for it, and
its own default `enable_watch_candidates: false` with `watch_only` drops what the guard takes.

`RiskNeverAdmits` compares two markets that differ in one feature, where the grades nest. The score of
the baseline rewards two things that its squeeze guard counts as a risk: a rising open interest,
which is no risk for it here, and a return of the hour, which is one only where the quality of the
event stays what it is, because another return makes as much or because the scale has ended.

The assumptions on constants are those of `AppConfig`, of SQLite's types and of `SymbolFeatures`
(`FeaturesAssumption`: a number is a number, and what may be missing is one or missing), in
`Outcomes` that one bot runs beside the script, and two that nothing in the code enforces:
`MinScoreAssumption` (with `climax_min_signal_score` under 70 a thin book or a missing open interest
*raises* a branch from grade C to B) and `LiveRetAssumption` (with
`volume_climax_min_ret_5m_pct` at 0 the fallback could be ready for a market that the live branch
admits too). The shipped configuration meets both.

**Fairness.** In every module the process is restarted or goes on, and the clock ticks: weak
fairness of the corresponding actions. A coroutine that waits for its turn on the loop is resumed:
asyncio's ready queue is first in, first out.

* `DeliveryOutbox`: a resumption is enabled only while the other coroutine is not between two
  transactions, so it is strongly fair. Strong fairness of `DrainWatch` says that storage does not
  fail at every single WATCH claim. Nothing is assumed about `TelegramAccepts`: Telegram may never
  answer.
* `Outcomes`: time and passes go on (`WF`). A pass that begins again and again comes to its
  observations (`SF` of `NextBatch`), and passes that have a row in hand again and again write one at
  last (`SF` of `ObservationEvaluated` of any row: the database and the process do not fail every
  time). A row that is not in `Stuck` has its candles at last: evaluated again and again it is settled
  (`SF` for each one). Nothing is assumed about the script or about the signals.
* `MarketRequests`: each request proceeds when it can and every call ends, within
  `request_timeout_sec` (`main.py:171`), in one way or the other. Nothing says that a call ever
  succeeds.

## 4. Proofs

Each proof module finds a strengthening `IInv` that is inductive, proves `Init => IInv` and
`IInv /\ [Next]_vars => IInv'` with one lemma or case per action, and draws the theorems from it. TLC
checks the same properties on the instances of section 3.

**`DeliveryOutboxProofs`.** For any number of rows, attempts, deadlines and crashes, from
`OutboxAssumption` only (the constants are naturals, with at least one attempt and positive lease
and send times):

* `TypeCorrect`, `AttemptsBounded`, `ConfirmedSound`: the invariants of `outbox_live`;
* `OutboxImplementsAtLeastOnce`: every step of the outbox is a step of `AtLeastOnce` or a stutter.

`IInv` adds to them `RowsOK`, which ties status, attempts and lease of each row (a row in flight has
been claimed, a waiting one has an attempt left, a dead one has none), `HeldRowsAreClaimed` (what a
coroutine believes taken was taken) and `FreshWatch`, which says that the WATCH the scan is sending
for the first time is not yet confirmed: without it `update_watch_telegram_status` could take a
confirmation back and the refinement would fail.

* `WatchesBudgeted`: `WatchWithinBudget`, from `BudgetKept`. What is confirmed says too little: while
  the scan drains WATCHes, those confirmed and those still in its batch are within the budget
  together (a claim asks for no more than is left of it), a drain of signals holds signals only, and
  a new WATCH is sent only while the budget is not used up;
* `LeasesCoverBatches` and `OutcomesFinal`, under `LeaseOutlastsBatch`, from `Leased`: the lease of a
  row in a batch lasts for its own send after all those before it, the lease shrinking with the clock
  as the batch shrinks with the sends. So a row in one coroutine's hands is not claimable by the
  other, and an answer that comes is for a row still in flight.

**`EventSignalsProofs`.** For any number of trackings, signals and faults, with or without the fast
monitor, the shadow lifecycle and reused ids, from `SignalsAssumption` only: `ClimaxUnique`,
`SignalIdsOwn`, `StatusesBacked` and `SignalsTypeCorrect`, the properties of `signals_both`.
A row may be any copy a coroutine once read, so an invariant of the row alone is not inductive.
`Good(c, signals)` says of one `EventState` all that must hold wherever it is; `Tables` says it of
the row, `Hands` of both copies, and of the signal a coroutine is sending that it is of the
tracking of its copy. Lemmas show that each thing the code does to a state (`advance`, a reset, a
mark, a signal) keeps it good and that a new signal changes nothing about the earlier ones; then
one lemma per way a step ends (`Waits`, `Stops`, `Keeps`, `Watch`, `Emit`), and one case per action.

`OneSignalAlone`, `OneWatchAlone` and `RowMovesOnAlone` are about the scan alone (`ScanAlone`: the
monitor off and no fault), as the documents describe the bot; `signals_race` shows that the monitor
breaks the first. Their invariant `Alone` says why. `TablesOnce` has the two properties, and that no
row of the tables is of a tracking to come. While the scan works on a state, that state knows of every
signal and WATCH that its tracking has in the tables (`Latest`) and may be saved over the row
(`Follows`); while it works on none, the row itself knows. So every check the scan made on its copy
still holds of the tables when it saves.

**`ShadowAttemptsProofs`.** For any number of roots, revisions, evaluations, stops and failed
transactions and any cap: `AttemptsTypeCorrect`, `RootsAreCapped`, `HistoryTells`, `RootsAreThere`,
and the action properties `ClosedStays` and `TerminalIsFinal`. `IInv` has these parts:

* `Capped`: what exists of each root is a finite set within the cap; a creation is the only step that
  adds to it, and checks first;
* `AllTold`: the last entry of every history tells the attempt's state, a closing is told once and
  last, and before the closing only upserts have written;
* `Numbered`: the number of the next evaluation, and of the one about to write, is in no history yet.
  Without it an upsert's entry could find its idempotency key used, be dropped, and leave the history
  behind the state;
* `Alone`: one coroutine at a time is between two transactions that no await separates;
* `Rooted`: what the coroutines and the pool hold has its row, as long as no write has failed;
* `OnItsWay`: while nothing fails, an open attempt in a terminal state is held by the coroutine that
  is about to close it. This is what makes `TerminalStays` true, and what a stop breaks.

**`ScanCycleProofs`.** For any symbols, universes, shortlists and any number of cycles and processes:
`ScanTypeCorrect`, `ClosedTellsWhy`, `CompletedCovers`, `PreparedIsOpen`, `LedgerBacks` and
`RotationsStand`. `Chain` says that rows are numbered without a gap, that only the newest may be open
and that every other one tells what followed it; `Covered` and `Backed` are the properties of the
rows of the table, `PreparedInCycle` ties the rotation in memory to the place in the cycle. The
lemmas `EnsuredReused`, `EnsuredOpened` and `RecordedGood` say what one lookup and one record do to a
table; `Stands` is proved of each step for `RotationsStand`.

**`MarketRequestsProofs`.** For any finite set of clients, slots, delays, jitters and attempts:
`SlotsBounded` and `CallsSpaced`. `PauseCovers` says that what is left of a pause is at least what is
missing of the minimum delay, `OnePauses` that the lock has one owner, so that nobody resets the gap
while another one counts on it.

**`FastMonitorProofs`.** For any finite set of symbols and any events, any slice of a poll, time to live
and number of stops: `OneCandidate`, `ExpiredOut` and `TurnComes`. The lemmas before them say of a
filter by positions what the library does not say of `SelectSeq`: every rank has a position
(`PositionRank`), and a kept list has the entries of the old one, each once (`KeptEntries`). Of the
invariant, `Single` is the property
itself and is kept because whatever is appended has first displaced its symbol. `ExpiredStaysOut`
rests on the ages: of an event that was swept the row, and the scan that is at it, say that its time
is over (`AgesTell`), and the scan's age is the row's while it is at the row's event (`ScanAtRow`), so
that only a new high can bring the event back. For `TurnComes` the invariant is `Turn`: while no
candidate leaves, the slices follow one another round the pool without a gap, so that a candidate has
missed no more than the entries between its place and the cursor (`Gone`), and the pool has at most
one entry per symbol. A new candidate comes to the end of the list and has missed nothing
(`TrackTurn`), a filter that takes nobody leaves the list as it is (`KeptStays`), one that takes
somebody begins the count again (`ShrinkTurn`), and a poll moves the cursor over exactly those it
serves (`Slice`, `PollTurn`); `Turn` also says that the cursor is within the pool while anything is
counted.

**`OutcomesProofs`.** For any number of observations and signals, any batches, delays, lengths of a
pass and passes of the script: `UndoneAtMostOnce`, and `SettledForGood` for the bot's passes until the
script's first. `Ledger` says that the line holds each unsettled row at most once, `Passes` that the
rows a worker has in hand are different ones. `Held` has the argument in three parts. `OneHolds`: of
two workers that have read a row, the one that settles it drops it, and nobody reads a settled row,
so that at most one still has it in hand. `AloneFresh`: before the script has run, nobody has a
settled row in hand. `Counted`: what was undone of a row, what may still be undone on account of a
hand that has it (`Credit`) and on account of the one reading that a pass of the script has before it
(`Unread`, because `tried` keeps a row from being read again in the same pass) are together no more
than the passes of the script. One lemma each says what reading, dropping and writing a row do to
`Held` (`ReadHeld`, `DropHeld`, `WriteHeld`). The lemmas on filters are those of `FastMonitorProofs`.

**`EvaluationsProofs`.** For any thresholds, modes, features and levels, with no bound on the distance
from the bases:

* `AdmittedTradable`;
* `ReadyAfterQuiet`, from the invariant `MemoryFits`: the high in the event's row is never ahead of the
  closed candles, and while it is up with them the window has counted only quiet minutes.
  `LiveRetAssumption` is needed for its last conjunct only;
* `GuardTakes`. `SameRules` says that filters, score, limits and public grades do not depend on the
  mode; a mode only lowers the score (`WarnedScore`), and where the grades nest a lower score has no
  public grade that the higher one had not (`GradeRises`), so `GuardAddsNothing`. Under
  `WatchesTheRest` what is taken is watched: by `AdmittedSqueeze` a market that passes the filters and
  the limits is at most 29 points from a squeeze, so never EXTREME and never more than 10 points
  down, and it has the 12 points of MEDIUM only with a reason that `_derive_blockers` lists;
* `RiskRefused`. `NoBetter` says of two markets that in nothing a strategy looks at the second is
  better, the quality of the event included; one feature that moves for the worse makes it so
  (`RiskierNoBetter`). Then merit falls, and where the grades nest no grade that is sent is reached
  by it; penalties, flags and the squeeze score rise; a book within the limits was within them
  before. `BaselineHeeds`, `VolumeHeeds` and `LowHeedsRisk` draw the conclusion for the three
  strategies; the climax branches need `MinScoreAssumption`.

**Model-checked only.** Liveness (`EveryMessageSettles`, `ImplementsRetries`, `EveryObservationSettles`,
`EveryFetchEnds`) needs fairness and ENABLED, which the provers at hand do not do. Every other property
of a passing run is proved for all constants. The condition `LeaseOutlastsBatch` and the restriction
`ScanAlone` are hypotheses of their theorems; `GradesNest` and `WatchesTheRest` are part of the
properties themselves.

## 5. What the models leave out

* Prices, candles, indicators: free choices of the stateful modules and inputs of the rules. Their
  computation (`features/`, `market/` frames) is floating-point arithmetic on dataframes without state.
* Several symbols at once in `EventSignals`, `ShadowAttempts` and `Evaluations`: each symbol's rows
  are its own, only the pool (`FastMonitor`), the WATCH budget (`DeliveryOutbox`) and the order of
  processing (`ScanCycle`) are shared.
* The short zone, a geometric score; the root detector's shadow telemetry, append-only rows that no
  decision reads; the throttler's table of times, a free choice in `Report`.
* Message texts, log lines, health counters, runtime metadata; database migrations; loading of the
  configuration.
* Shutdown's cancellation at an await, which the models see as a crash; a second bot on the same
  database.
* The read-only scripts and the offline research code.

## 6. Where documents and code part

| run | document | code |
|---|---|---|
| `signals_race` | "future duplicate signals for the same tracked event are suppressed" (`docs/current_bot_signal_pipeline.md:239`) | the scan decides on rows loaded at `main.py:314`; a signal of the fast monitor in between is not seen |
| `rules_new_high` | "`LOW_VOLUME_EXTENSION_FAILURE` additionally requires … no new high" (`docs/strategy_audit.md:77`) | the veto compares the post-event high with a maximum that includes it (`signals/climax.py:254`, `417`) and cannot fire |

Met while modelling, without a run of their own. Of events and signals:

* shadow rows "do not modify live admission" (`docs/project-brief.md:118`), but the shadow lifecycle
  saves its whole copy of the row (`main.py:744`), and a stale one erases a `signal_id`;
* "IDLE/EXPIRED -> PUMP_DETECTED" (`docs/strategy_audit.md:102`), but the fast monitor loads a row
  without a look at its status (`main.py:468`) and signals an EXPIRED one;
* after its event expired, the same high can be tracked again under the old `event_id`, with no
  `signal_id`, and get a second baseline signal (`events/pump_detector.py:70`);
* `advance` takes a SIGNAL_SENT row that had no pullback yet to PULLBACK_OBSERVED
  (`events/pullback_tracker.py:54`), where `docs/strategy_audit.md:102` lets only expiry follow.

Of shadow attempts:

* "without reopening terminals" (`storage/repository.py:1089`): a stop between the transaction that
  makes an attempt actionable and the one that closes it leaves it open, and the next start overwrites
  the state with EXPIRED (`storage/repository.py:1517`); hence the condition in `TerminalStays`;
* an attempt that `upsert_shadow_entry_attempt` closes itself has no `attempt_closed` event.

Of the fast monitor, "Bounded, fair" (`main.py:395`):

* the cursor is an index into a list that changes, and is not moved when an entry before it leaves
  (`main.py:538`). With five symbols and polls of one, a pool whose length goes 3, 4, 5, 3, 4, 5, … as
  candidates come and two of them leave again has the cursor at 1, 2, 3, 4 % 3 = 1, …: the first
  entry is passed over, poll after poll, until its time to live is over. So `TurnComesRound` counts
  only while none leaves;
* an exception in the evaluation of one candidate ends the poll for those behind it in the slice and
  skips the sweep (`main.py:512`); if it is raised in every poll, a candidate that keeps its place
  behind it is not evaluated.

Of the rules:

* `squeeze_guard_mode: block_extreme` never takes a signal away under the shipped thresholds: a market
  that passes the filters and the limits of the book has at most 29 points, and EXTREME begins at 34;
  it only suppresses WATCHes;
* `previous_leg_volume` is in no snapshot, so the volume branch takes the ratio 0 for 3.0
  (`signals/climax.py:497`), and a distance to the high of exactly 0 for 999 (`signals/climax.py:356`);
* a rising open interest earns the baseline a bonus while the squeeze guard counts it as a risk, and so
  does a rising return of the hour, up to 5 points of the event's quality (`signals/scoring.py:25`):
  a market may be refused with a C and admitted with a B after its `ret_1h` has risen;
* with `send_grade_c_to_telegram` and `min_public_signal_grade: A` the grades A and C are sent and B is
  not (`signals/engine.py:222`), so that the mode `score_penalty`, or any other loss of points, turns
  a B that is not sent into a C that is;
* the lifecycle's first evaluation takes a closed high that the scan has not confirmed yet for the one
  it begins with, and the window for the event's (`main.py:692`), so that FALLBACK_READY may come a
  minute after a new high;
* a vetoed low-volume branch with the higher score hides a vetoed volume branch, and the lifecycle is
  not advanced in that minute;
* `climax_grade_a_score` is validated and otherwise unused, as are `climax_min_public_grade`,
  `low_volume_require_equal_volume_windows` and `low_volume_block_new_high_before_delivery`.

Of outcomes and requests:

* "at most 25 due rows per refresh" (`docs/strategy_audit.md`, section 7) is up to four batches of 25
  (`outcomes/tracker.py`);
* the limit on signals that miss outcomes comes before the filter (`storage/repository.py:672`): within
  the lookback, settled signals take the places of later ones;
* the fetch of derivatives that ends last overwrites the cache, a failure over a success as well;
* retries go past the rate limiter; only first calls are spaced.

## 7. Plan

1. `DeliveryOutbox` with `AtLeastOnce` and proofs – done.
2. `EventSignals` with proofs – done.
3. `ShadowAttempts` with proofs – done.
4. `ScanCycle` with proofs – done.
5. `FastMonitor`, `Outcomes` with proofs – done; `Outcomes` checked with liveness.
6. `MarketRequests` with proofs – done.
7. `BaselineRules`, `ClimaxRules`, `Evaluations` with proofs – done.

Left: a composition of `EventSignals` with `AtLeastOnce` (a signal is delivered, whichever coroutine
made it); `EventSignals` with `Evaluations` in place of its free verdicts; that the outcomes' line is
in the order of due dates, as an invariant with a proof; the short zone.

## 8. Running

    tlc -workers 2 -config OutboxLeased.cfg MCDeliveryOutbox
    tlc -workers 2 -config OutboxLive.cfg   MCDeliveryOutbox
    tlc -workers 2 -config SignalsScan.cfg  MCEventSignals      (SignalsBoth, SignalsRace)
    tlc -workers 2 -config Attempts.cfg     MCShadowAttempts
    tlc -workers 2 -config ScanCycle.cfg    MCScanCycle
    tlc -workers 2 -config Monitor.cfg      MCFastMonitor
    tlc -workers 2 -config Outcomes.cfg     MCOutcomes
    tlc -workers 2 -config Requests.cfg     MCMarketRequests
    tlc -workers 2 -config Rules.cfg        MCEvaluations       (RulesNewHigh)
    tlapm DeliveryOutboxProofs.tla
    tlapm EventSignalsProofs.tla
    tlapm ShadowAttemptsProofs.tla
    tlapm ScanCycleProofs.tla
    tlapm MarketRequestsProofs.tla
    tlapm EvaluationsProofs.tla
    tlapm FastMonitorProofs.tla
    tlapm OutcomesProofs.tla
