# Coin Quant R11 in TLA+

Specifications of the `coin_quant` package (`src/src/coin_quant`): three
services that talk through JSON files (feeder, ARES, trader), the memory layer
they log to, and the shared library underneath; and of the two supervisors in
the older packages that decide over trading on their own, the risk mode
(`src/guard/risk`, `src/shared/state`) and the auto-healer
(`src/shared/auto_heal_*.py`). Paths below are relative to the repository's
parent, as in `PROJECT.json`; `.../` stands for `src/src/coin_quant/`.

Contents: 1 the system · 2 inventory · 3 modules and the code they model ·
4 runs, bounds, fairness · 5 theorems · 6 disagreements between documents and
code · 7 what is not modelled · 8 plan.

## 1. The system

```
 exchange --websocket--> FEEDER --feeder_snapshot.json--> ARES --ares_signals.json--> TRADER --orders--> exchange
                           |        (health/feeder.json)    |       health/ares.json     |
                           +---------------- events.jsonl, hash_chain.json --------------+
```

* Each service is one process with one main loop. It refuses to start beside
  another instance by means of a pid file, and stops on a signal whose handler
  runs between any two of its steps.
* A service learns of another one only by reading that one's files. Nothing is
  locked; every file is rewritten as a whole or appended to, and every reader
  takes a file that is missing or unreadable for "no data".
* A gate compares the age of a *health file* with a threshold; the data file
  beside it is then used whatever its own timestamp says.
* Two supervisors look at the same kind of files from outside. The risk mode
  turns losses and failures into SAFE mode in `state_bus.json`, which the user
  interface, the telegram listener and the healer each rewrite as a whole. The
  auto-healer restarts or quarantines services by the age of their health files,
  and writes STOP.TXT when a breaker trips. Both are run by hand or from tools
  of the older packages; the three services do not call them.

What is hard in it: two processes in one file; a state that was checked and is
stale when used; a crash between two steps of a write; a timeout that hides
what the exchange did; errors that are caught far from where they were raised.

## 2. Inventory

| Component (source) | State | Operations | Interacts with | Hard part, and what makes it correct |
|---|---|---|---|---|
| Singleton guard (`.../shared/singleton.py`) | `<service>.pid`, `_locked` | `acquire`, `release`, `is_running` | every service's `start()` | check-then-write, release by an instance that never acquired, dead and reused pids, reads and probes that fail; one instance runs, a dead one's file does not block the next for ever |
| Feeder (`.../feeder/service.py`) | `running`, `ws_connected`, `retry_count`, the health task; `feeder_snapshot.json` | connect, retry, read a message, save, log, health update, `stop` | exchange, ARES, event chain | reconnect, task clean-up, a signal handler that raises; no leaked task, bounded but not premature retries, a stop after which nothing new begins |
| ARES (`.../ares/service.py`) | `last_signal_time`; `ares_signals.json`, `health/ares.json` | gate, generate, save, health update, `stop` | feeder's files, trader | signals and status are separate files; a GREEN status must stand for recent signals |
| Trader (`.../trader/service.py`) | cached balance, quarantined symbols | gate, load, check, scale, send, log, `stop` | ARES' files, exchange, event chain | several orders per cached balance, a market that moves under the signals, timeouts, restarts; a logged order was executed, a quarantined symbol is left alone |
| Health manager, health gate (`.../shared/health.py`) | `health/<name>.json` | write, read, age | all services | two status vocabularies |
| Health contracts (`.../shared/health_contracts.py`) | `health.json`, one for all | four `update_*`, `ReadinessGate` | all components | read-modify-write of one file; an ok must go back to an ok feeder |
| Atomic file I/O (`.../shared/io.py`) | target and temporary file | write with retries, read, append | everything | unlink and rename on Windows; each write takes effect at one moment |
| Event chain (`.../memory/event_chain.py`) | `events.jsonl` | `append_event`, `get_events` | three services | appends in place, partial writes; damage stays local |
| Hash chain (`.../memory/hash_chain.py`) | `hash_chain.json` | `add_block`, `verify_chain`, `get_proof` | memory client | read-modify-write; the file always verifies |
| Memory client, snapshot store (`.../memory/client.py`, `snapshot_store.py`, `types.py`) | snapshot files, `deltas.jsonl` | create, get, latest, deltas, debug bundle | event and hash chain | ids with a resolution of one second, snapshot and delta in two writes, a directory that is read file by file while it changes; a promised snapshot stays, a delta names a snapshot, the latest does not go back |
| Memory validator (`.../shared/memory_validator.py`) | report, quarantine file | validate, quarantine, release, replay | memory files | lost updates of the quarantine file, reads that fail and answer "empty"; a symbol leaves it only when released |
| Risk mode (`src/shared/state/risk_mode_store.py`, `src/guard/risk/`, `src/guard/ops/telegram_command_listener.py`) | the risk section of `state_bus.json`, `state_bus.tmp`, a cached profile per process | fill, failure, resume, recovery, mode command, midnight reset | `StateBus`, user interface, telegram | whole-file read-modify-write by several processes over one temporary file, every question a read of its own that may fail; SAFE mode is not lost, losses that reach a threshold end in it |
| Auto-heal (`src/shared/auto_heal_fsm.py`, `auto_heal_service.py`) | state, failed attempts and quarantine per service, the breaker; STOP.TXT | assess, decide, restart, quarantine, break, stop, start | the services' health files | a decision made from an assessment that is over, memory lost with the process, a restart that stops the healer; a dead service is handled for ever or the healer ends itself over it, a tripped breaker blocks in the end |
| Failure drills (`.../shared/failure_drills.py`) | patched singletons, report | drills | most of the above | must restore what it patched |
| Service launcher (`.../shared/service_launcher.py`) | `running_processes` | start, stop, is running | dashboard (`src/app_old.py`), the services | a new launcher, with an empty table, for every click: a running service is started again and meets the pid file |
| Configuration (`.../shared/config.py`, `config_ssot.py`) | values read at start | get, validate | all | sequential; precedence of sources |
| Monitoring, observability (`.../shared/monitoring.py`, `observability.py`) | metric files | collect, report | files, HTTP | read-only for the services |
| Data access, symbols, paths, logging, guard UI | none | read, render | files | pure input and output |
| Launch scripts (`src/launch.py`, `src/validate.py`) | none | call one `main()` | services | none |
| Rest of `src/shared` and `src/guard` | many files | circuit breaker, queues, locks, order router, probes, panels | one another | not reached from `launch.py`, `validate.py` or the tests |

`PROJECT.json` has the same list with a status per component, and the hazards
with the line at which each bites and the properties that would catch it.

## 3. Modules

| Module | Models | State in the module ↔ in the code |
|---|---|---|
| `SingletonGuard` | `SingletonGuard` as `start()` of the services uses it | `pidFile` the file, `seen` the local of `acquire()`, `pc` where each pid is in `start()` |
| `FeederService` | the feeder from `start()` to its end | `loop` the place in `_websocket_loop`; `running`, `wsConnected`, `retryCount` by name; `healthTasks`, `healthDue` the asyncio tasks; `snapshot` whether the file has the last ticker |
| `ServiceFiles` | the files between the services, with ages for timestamps, and the gate `Healthy` | one content and one age per file |
| `AresService` | ARES' main loop | `aresPc`, `running`, `lastSignal`; `pending` the signals being saved; `judgement` and `stampAge` the status being published |
| `TraderService` | the trader's main loop and the exchange | `cache`, `cacheAge`, `quarantined`, `order`, `todo`, `gateAge`; external: `funds`, `market`, `accepted` |
| `ServicePipeline` | ARES and trader over the same files | composes the two, `Tick` joint |
| `AtomicFile` | what a file write promises (abstract) | content, and per writer idle / pending / done / raised |
| `AtomicWriter` | `_atomic_write_with_retry`, both platforms | target, temporary file, attempt, place per writer |
| `HashChain` | `add_block`, `verify_chain` | `file`, per caller what it `loaded` |
| `EventChain` | `append_event`, `get_events` | the file as lines of pieces, per writer the buffer |
| `HealthContracts` | the four `update_*` (feeder and memory alike) and the gates | `file`, per component the `record` it made and what it `loaded` |
| `MemoryStore` | `create_snapshot`, `get_latest_snapshot`, and the quarantine file of the memory validator | `directory`, `deltas`, `leftover` the files; per process the call (`job`), the files it has listed (`unread`) and what it read (`held`); `quarantine` the file |
| `RiskMode` | store, manager, profiles and telegram commands of the risk mode, `StateBus.save_state` as another writer | `file`, `temp` the two files; per process the event, the `calls` of the store it still makes, the access it is at (`at`), the numbers an update starts from (`seen`) and the section it merges into (`base`), where the file it opened is by now (`handle`), and the cached `profile` |
| `AutoHeal` | the heal cycle and the service around it | `state`, `failures`, `left` (quarantine) per service; `todo` the decisions of this cycle; `life` of the process (runs, stops at the end of its cycle, gone, killed by its own command); environment: `age`, `sound`, `trouble` |
| `MCTraderService`, `MCServicePipeline`, `MCRiskMode` | values for TLC | deposits, payouts, settings, symmetry |
| `SingletonGuardProofs`, `FeederServiceProofs`, `AtomicWriterProofs`, `HealthContractsProofs`, `MemoryStoreProofs` | theorems about the module of that name | |
| `ServicePipelineProofs` | theorems about ARES, the trader, and the two side by side | |
| `MemoryLogProofs` | theorems about `HashChain` and `EventChain` | |
| `SupervisorProofs` | theorems about `RiskMode` and `AutoHeal` | |

Conventions.

* **Steps.** An action is what one process does between two points at which
  another process, the clock, a signal or a crash can be seen: a file read, a
  file replace, a request, an answer. Everything a handler changes in between is
  one action.
* **Time** is kept as ages: a tick makes every age grow, up to `Old`, and a
  write sets one to 0. A comparison `age <= threshold` is then exact, and the
  state space finite; `Old` is above every threshold (or sum of thresholds) that
  is compared. Where two ages are compared (`a <= b + threshold`), an `a` that
  has stopped growing is not above a `b` that has, and a `b` below `Old` is exact.
* **History variables** are read by properties and by no action's guard (but for
  the bound `MaxMissed` on `missed`):
  `raced`, `stolen`, `misled` (guard); `failures`, `opened`, `taken`, `saves`
  (feeder); `unsaved`, `lag`, `aresLag`, `aresUnsaved`, `gateLag`, `gateUnsaved`
  (pipeline); `spent` (trader); `taker`, `fate` (writer); `overlapped`,
  `damaged` (hash chain, contracts); `acked`, `torn` (event chain); `okAge`
  (contracts); `stamped`, `created`, `owed`, `basis` (store); `streak`, `alone`,
  `missed` (risk mode). `failures` of `AutoHeal` and `torn` of `MemoryStore`, in
  contrast, are state of the code and of the file.
* **Failing reads.** Where the code turns an unreadable file, a failed probe or a
  file caught in a gap into an answer ("no pid", "not running", `{}`, the default
  section), the model does so too, at every such read; a property that cannot
  hold then names the case (`misled`, `basis`, `missed`, a read that was skipped).
* **Platform** (`os.name == 'nt'`) is a variable `windows` chosen at the start
  and never changed, so that one run covers both; in `RiskMode` it comes with the
  return policy (`Settings`), and in `AresService` it is the constant `OnWindows`,
  since there the POSIX behaviours are those without the gap.
* **Mutants.** An operator `X_Something` with a comment "Mutated" is `X` with a
  plausible bug; it is used by nothing, and `PROJECT.json` names the property
  that fails when it takes the place of `X`.
* Data is abstracted to what decides: prices and amounts to naturals, a quote to
  a price and whether it moved up, down or not, a signal to symbol, side and
  price, a hash to what it commits to (injective), an event to its number, JSON
  text and newline to pieces of a line.

Notes per module.

* **SingletonGuard.** `ReadPid`, `Probe`, `UnlinkPid`, `WritePid` are the
  accesses of `acquire()`; `ValidateConfig` and `MainLoopEnds` what follows in
  `start()`; `Release` the `finally` clause, reached also by an instance that was
  refused. A pid file that cannot be read is none, and on Windows a `tasklist`
  that fails or answers nothing finds no process: the start then goes on over a
  live owner, which `misled` remembers. Probing a dead pid on POSIX raises (see
  6). Pids are given to unrelated programs and back.
* **FeederService.** One thread, no clock: the properties are about what happens
  in which order. Message handling is three actions because the signal handler
  may run between its writes. A clean close of the stream leaves `ws_connected`
  set and counts as no error. `stop()` clears its two flags and then raises,
  because `set_component_status` does not exist. What becomes of the error depends
  on where the handler ran: it leaves `asyncio.run()` (`StopEndsLoop`), is lost in
  a logging handler or a callback, even of a connection that is then opened
  (`StopSwallowed`), is caught by the clause around a message (`StopInMessage`) or
  a health update (`StopInHealthUpdate`), or is counted as a failed connection
  (`StopCountsAsError`), also between the handshake and the `try` that would
  cancel the health task (`StopWhileOpening`) and in the `finally` that cancels it
  (`StopInFinally`). `UpdateHealth` writes nothing, for the same reason.
* **AresService.** `AresCheck` is the gate and `AresGenerate` reads the snapshot;
  signals are then saved (`UnlinkSignals`, `SaveSignals`), the status is judged
  (`JudgeHealth`), stamped with the time after another read of the feeder's file
  (`StampHealth`), and written (`UnlinkHealth`, `WriteHealth`): the clock, a stop
  and a crash come between any two. Any write may fail, and on Windows has its gap.
  `AresStop` writes RED in between. The feeder appears as two actions of the
  environment: `FeederSaves`, and `FeederHealthWritten` for whoever writes the
  health file.
* **TraderService.** The real mode; the simulated one differs only in that
  `_execute_order` always succeeds. Orders are market orders: size times the
  *signal's* price decides whether and how much is sent, the price of the moment
  (`PriceMoves`) what it costs. Others pay from the same account (`AccountPays`).
  A request and its answer are separate: a timeout leaves open whether the
  exchange executed the order. In its own run ARES' files change at any time
  (`AresWrites`). `spent` remembers whether the account paid for anything, an order
  of this trader included, since the cached balance was read.
* **AtomicWriter** and **AtomicFile.** The refinement maps the place in the
  retry loop to idle / pending / done / raised. Only on Windows may the abstract
  content vanish; `taker` is the writer that unlinked last and `fate` what became
  of its call.
* **HashChain, HealthContracts.** The read and the write of each call are
  separate actions, a read may fail and answer "empty", and in HashChain a
  Windows write has its gap and its crash.
* **EventChain.** The system may take a line in two pieces; what stays in the
  buffer is tried again when the `with` block closes the file.
* **MemoryStore.** The snapshot and its delta are two writes, each of which may
  fail or be cut short, and on Windows a snapshot of the same id is unlinked
  first; an id is the type and the second of the timestamp, so the clock has
  several readings per second. `get_latest_snapshot` lists the directory and then
  reads file by file, skipping what is gone or unreadable; temporary files match
  its pattern too. The quarantine file is read in one step and rewritten in
  others; a read that fails is an empty file. The client adds nothing to the
  stores it forwards to.
* **RiskMode.** One event (a fill, a failure, a command, a reset) is a list of
  calls of the store. A call is a chain of accesses, each a step of its own that
  the other process can come between: the question for the mode (`asks`), the
  recovery's own (`judges`, `resumes`), `switch_mode`'s, which answers True where
  it finds the mode already there (`switches`), the numbers (`counts`), the read
  that is merged into (`updates`), then open, write and rename. A read that fails
  answers `{}`, which counts as the default section in AGGRESSIVE mode; `missed`
  remembers which kinds of access have failed. The temporary file has one name for
  all: opening it truncates what another put there, and on POSIX a rename carries
  it off under the writer's feet, so that its text lands in the state file
  (`handle`). A text over a longer one leaves a torn file. A fill's two thresholds
  are judged on the numbers the calls return (`Followup`), whether or not the file
  took them. Hours (midnight, recovery time) are free choices.
* **AutoHeal.** Assessment, decision and each execution are steps, and the files
  change in between. The assessment reads more than the services' health files:
  what is no JSON object in any file it reads, `ssot/env.json` and
  `candidates.ndjson` included, aborts it (`sound` is FALSE), and the last one
  stays. A file without an age makes the *decision* raise, and with it those of
  all services. The feeder's restart calls the orchestrator's `--stop`, which
  takes no name and begins with the healer that is waiting for it (`StopsItself`).
  SIGTERM only clears `running`: the cycle goes on to its end (`Stop`, `Cleanup`).
  The FSM is memory: `Cleanup`, `Crash` and `Start` lose it. A second healer may
  run beside this one (`AnotherHealer`). Of the three breakers only the web
  socket's can trip, because the path registry has no key for the files of the
  others.

## 4. Runs

| Run | Module | Bounds | What it shows |
|---|---|---|---|
| `guard_main` | SingletonGuard | 3 pids, both platforms | mutual exclusion is lost through an `acquire()` race, an overlooked live owner or an unlink of another's file and through nothing else; the pid file names the runner; a stale file never blocks a service for ever |
| `guard_exclusion` (violation) | SingletonGuard | 3 pids | among starts that do not overlap and that find every file and process: a refused instance's `release()` unlinks the owner's file, and the next start runs beside the owner |
| `feeder_main` | FeederService | the code's own value: 5 retries | one health task per connection, five errors in a row before giving up; a stopped feeder opens at most the connection under way and takes no message, and ends unless a silent connection holds it; an outage ends in a connection or in giving up |
| `trader_main` | MCTraderService | 1 symbol, 2 orders of 20 units, prices 20 to 22, 410 in cash, others may take out 400 of it | a logged order was executed and sent; quarantine holds until a restart; an order the account does not cover is sent only after the account paid for something, or the market rose beyond the margin |
| `pipeline_main` | MCServicePipeline | 1 symbol, 1 price, thresholds 0 and 1, `Old` = 2, Windows, no order sent | GREEN stands for recent signals, up to the delay of its stamp; loaded signals are at most the sum of the thresholds and that delay older than the check |
| `writer` | AtomicWriter | 2 writers, 2 values, 2 attempts, both platforms | refinement of `AtomicFile`; a file is missing only where the write that took it away still tries, died, or told its caller |
| `chain` | HashChain | 2 callers, 4 blocks, both platforms | the file verifies at every moment; serial calls lose nothing |
| `events` | EventChain | 2 writers, 4 events | untorn lines are never lost; a torn line hides at most two events |
| `contracts` | HealthContracts | feeder, ARES, trader; 5 updates; thresholds 0 and 1, `Old` = 2 | an ok of the trader goes back to an ok of the feeder; serial updates keep other records |
| `memory_store` | MemoryStore | 2 processes, 2 types, 2 symbols, 3 calls, a clock of 2 seconds with 2 readings each, both platforms | a delta names a snapshot; the latest snapshot is less than a second behind what could be read; quarantine is left by release, overlap, a failed read or the unlink before a write only |
| `risk` | MCRiskMode | 2 processes (symmetric), 3 events, MANUAL return on POSIX and AUTO on Windows, 2 losses to the trigger, equity at the cutoff, one access that fails | SAFE mode is lost only on purpose, to a failed read or to overlapping writers; without overlap the streak is exact while the numbers can be read, and a fill that reached a threshold ends in SAFE mode and its profile |
| `heal` | AutoHeal | 2 services, one the feeder; 2 attempts, quarantine of 1 tick | a dead service is handled again and again unless the healer kills itself over the feeder, and after two failed restarts is never restarted by name again by this process; a breaker that stays tripped writes STOP.TXT |

Why the bounds are enough.

* *guard*: losing exclusion by a foreign unlink takes three instances (owner,
  refused, next), whether or not the last has a pid of its own; every other case
  takes two.
* *feeder*: nothing is bounded below the program's own constants; the histories
  stop at two, where the properties allow one.
* *trader*: two orders, because the second is the first that can meet a cache the
  first has spent. A lot is 20 units. At a signal's price of 20 the check passes and
  the order is scaled to 19 units, which 410 covers at 21 and no longer at 22; at
  the other prices the check refuses, so that a symbol is quarantined. One symbol: its two sides draw on two assets, and a second symbol adds
  one more order on the same cash. The bound stops new requests and nothing else.
* *pipeline*: orders change no file a property reads, so `MaxOrders` = 0 leaves
  the loop up to the request, and the price plays no part. Thresholds 0 and 1
  differ, so that swapping them is noticed; `Old` is their sum plus one.
* *writer*: two racing writers show every collision on the one target; two
  attempts are one retry, the third repeats the second.
* *chain, events, contracts*: two overlapping calls and two further ones (an
  earlier acknowledged item, and a reader of the damage). In `contracts` five
  updates let each component publish and two of them overlap again. `chain` and
  `events` end when their calls are used up, which is why deadlock is not
  checked there, nor in `memory_store` and `risk`.
* *memory_store*: three calls are two that overlap and one that depends on what
  they left; four clock readings in two seconds put two snapshots into one second
  and into two.
* *risk*: two overlapping events and one before them that made the mode SAFE, or
  two fills that make the streak and a third event that might forget it. Two
  losses are the first streak, one below and one at the trigger. Equity is where
  both drawdown and cutoff are reached; `MaxMissed` = 1 lets one access fail, of
  any kind: each kind alone shows what it costs. The two settings
  let every action happen; platform and policy are read in different actions, so
  the other two pairs add no step of a new kind.
* *heal*: two services, because one broken file stops the healing of the other;
  two attempts, because the first is not yet the last. Nothing else is bounded.

Symmetry is used in `risk`, which has no liveness property and where no action
tells one process from another.

Fairness.

* `SingletonGuard!FairSpec`: a process inside `start()` keeps taking steps.
  That somebody restarts the service is no property of the code and is an
  antecedent of `StaleFileRecovered`.
* `FeederService!FairSpec`: the process is scheduled (`OwnSteps`, which holds
  the end of a sleep); an attempt to connect is answered or times out
  (`Attempt`: `open_timeout` of `websockets.connect`). Nothing is assumed of the
  stream, which may live and be silent for ever (`StopEnds` has that case), nor
  about signals, crashes or starts.
* `AutoHeal!HealSpec`: the loop goes on, a stopped one to its end (its body catches
  every exception, and it sleeps for a fixed time); the clock does, as long as a quarantine lasts; and a
  disk that is asked for STOP.TXT again and again takes it once (strong fairness,
  because each failing attempt ends the request). Nothing is assumed about the
  services, their files, the web socket or the process itself, which may be
  stopped; the properties ask for conditions that hold from some moment on.
* All other runs check safety, under no fairness.

## 5. Theorems

All hold for every value of the constants that satisfies the named ASSUMEs.

| Theorem | Statement | Inductive invariant, and why the property alone is not inductive |
|---|---|---|
| `SingletonGuardProofs!TypeCorrect` | types | itself |
| `...!FileNamesOwner`, `Exclusive` | pid file and exclusion hold unless a race, an overlooked owner or a foreign unlink disturbed them | `GuardInv`: adds `WindowInv`, that a starter in `acquire()` is alone there and has already read the owner it is about to find alive |
| `FeederServiceProofs!OneTaskPerConnection` | one health task per open connection | `FeederInv`: adds `ConnectsAlone`, that no attempt to connect is made while an old task is left |
| `...!OutageBeforeGivingUp` | `max_retries` errors in a row before giving up | `RetryCountsErrors`: the count is the series, and the series is incomplete while the loop runs |
| `...!StoppedFeederWindsDown` | after a signal one connection at most, no message, one save | `LeftToDo` of `FeederInv`: a connection can be opened once the attempt of the signal's moment goes on, a save follows only from the message of that moment |
| `...!FeederTypesHold` | types | `FeederInv` |
| `ServicePipelineProofs!GreenIsRecent`, `AresTypesHold` | GREEN stands for recent signals, up to the delay of its stamp; types | `AresInv`: adds `MemoryBehindFile`, that the file is as young as the signal time the instance remembers; `JudgementBehindFile`, that a status being published is as good as a published one; and `ClocksAtRest` |
| `...!SignalsRecent` | loaded signals are recent, up to the delay of the status that let them through | `AresInv`, the gate's promise while the trader is past its check, and that signals being saved meanwhile are young enough |
| `...!TraderTypeCorrect`, `LoggedAreExecuted` | types, and that no account goes below zero; a logged order was sent and executed | `TraderInv`: while an answer is awaited one order more was sent than executed, and while the log is due one more was executed than logged |
| `...!QuarantineHeld` | quarantine holds until a restart, no order for its symbol is sent | the order being made is for a symbol that is not quarantined |
| `...!UncoveredIsCaused` | an uncovered order needs a payment since the balance was read, or a price over a nineteenth above the signal's | the cached balance is within the funds unless `spent`, and the order takes at most 95 % of the cache at the signal's price (`AdjustedFacts`, `QuotientFacts`) |
| `...!PipelineRunsAres`, `GreenIsRecentBeside` | the pipeline implements `AresSpec`, and so keeps what ARES promises | each step of the pipeline is a step of ARES or leaves its variables alone |
| `...!LoggedAreExecutedBeside`, `QuarantineHeldBeside`, `UncoveredIsCausedBeside` | the trader's properties beside the real ARES | `AresInv` and `TraderInv`. The pipeline does *not* implement `TraderSpec`, whose `AresWrites` changes signals and status in one step; a step of ARES may do anything to the files, as long as they keep their types, and `TraderInv` stays |
| `AtomicWriterProofs!NoSilentLoss`, `WriterIsAtomic`, `WriterTypesHold` | a missing file's last taker still tries, died or told its caller; refinement of `AtomicFile`; types | `WriterInv`: the temporary file about to be moved is whole, and each platform stays in its branch |
| `MemoryLogProofs!ChainAlwaysVerifies`, `SerialCallsSafe` | the file verifies; serial calls lose nothing | `ChainInv`: the same for every chain a call has loaded, the right `last_hash`, and that a lone call holds all acknowledged blocks |
| `...!UntornLogSafe` | untorn logs are readable | `EventsInv`: until a line is torn the last one is empty and no buffer holds part of a line |
| `...!DamageIsBounded` | a torn line hides two acknowledged events at most | `DamageInv`: see below |
| `HealthContractsProofs!OkBacked`, `SerialUpdatesSafe` | an ok goes back to the feeder; serial updates keep records | `ContractsInv`: the same for records that calls hold, and that an undisturbed call has the file as it is |
| `MemoryStoreProofs!DeltasAreNames`, `PromisedIsKept` | deltas name snapshots, on Windows unless one of the same id that was never promised took the file away; a promised snapshot is in its file or shares its second with another | `StoreInv`: no two calls make the same snapshot; one that is not written yet is in no file and promised to nobody; one that waits for its delta was in its file and is kept like a promised one |
| `...!StoreTypesHold` | types, files named after their content | `StoreInv`, `EditsInv`, `OwedInv` and the bounds: a process has a call just as long as it is busy, and what a call holds of the quarantine file are symbols |
| `...!LatestIsRecent` | the answer is from the second of the newest promised snapshot whose file was listed and could be read, or later | `ScansInv`: what a scan owes is in a file it has not read yet or is outdone by something it holds, also when the file is replaced meanwhile; the greatest stamp exists (`NatMax`, from the well-foundedness of the naturals) |
| `...!QuarantineLeft` | quarantine is left by release, overlap, a failed read or the unlink of a write | `EditsInv` and `BasisInv`: a call that is about to write holds what the file has or had before it was unlinked, unless its read failed or the file changed since |
| `SupervisorProofs!RiskTypesHold` | types; no call outside an event, no open temporary file that is not there | itself |
| `...!StreakIsExact`, `SafeHasItsProfile`, `HandledLossesEndInSafe` | in a history without overlaps the streak is exact while the numbers can be read, SAFE has its profile while `switch_mode` can, and a handled fill below the drawdown leaves SAFE whatever reads failed | `RiskInv`: see below |
| `...!SafeModeIsKept` | SAFE is left on purpose, by an update that could not read the section, by overlap or by `StateBus` only, in every history | `RiskTypesHold` and `CallsFit`: a call that sets AGGRESSIVE belongs to an event that may, so that a rename of what was put there over what was read keeps SAFE |
| `...!HealTypesHold`, `GivenUpStays` | types; a service that used up its attempts is not restarted | `HealInv`: one decision per service in a cycle, and a restart that was decided is still allowed when it is made, although the files changed since |

Each proof is Init ⇒ Inv, Inv ∧ [Next] ⇒ Inv′ with one step per action (or per
part of the invariant), and the property from Inv. The pipeline theorem uses
that every step of the pipeline is a step of ARES or leaves ARES' variables
alone, so that `AresInv` carries over.

Two of the invariants deserve a word.

* **`RiskInv`.** The properties speak of an undisturbed history (`alone`), the
  code has no notion of it: what has to be shown is that nothing moves between
  the accesses of a call. `OneAtATime` says that one process at most is in
  an event; `CallInOrder` follows the call through its accesses (what it read
  first is the file unless a read of that kind has failed, what it read second is
  the file or nothing after a failed read, what it opened is the
  temporary file, what it is about to rename is what it put there), so that a
  rename replaces the section by what the call makes of it (`RenameAlone`).
  `StreakExact` then needs no more. SAFE after a fill needs `FillInOrder`: as long
  as the file is not SAFE, a streak or a drawdown that is at its threshold has a
  trigger, or the call that will ask for one, still ahead of it in the list of the
  event, and a failed question for the mode can only make a trigger write once
  more.
* **`DamageInv`.** That two events per torn line is the bound is no induction
  over the file: what can be damaged is *named* and counted. An acknowledged
  event is alone on a finished line, and then it is read; or its line was taken
  in two pieces (`SplitEvents`); or it came whole after something else on its
  line (`Followers`). Each torn line adds one split event. A follower needs an
  unfinished line to follow, which only a torn line leaves, and finishes it:
  `FollowersCounted` keeps the credit of the unfinished line in the count.

Assumptions are the named ASSUMEs only: thresholds, counts and clocks are
naturals, `Old` is above what is compared, deposits are naturals.

Only model-checked: the liveness properties (`StaleFileRecovered`, `StopEnds`,
`ReconnectsOrGivesUp`, `FailedServiceHandled`, `BreakerBlocksOrders`): temporal
reasoning under fairness is out of the prover's reach. The theorems of the
pipeline about the trader have no run of their own: `pipeline_main` sends no
order, and `trader_main` has its own, coarser ARES.

## 6. Where documents and code disagree

Shown by a run (`findings` in `PROJECT.json`):

* `guard_exclusion` – "Prevents multiple instances" (`.../shared/singleton.py:5`):
  an instance that was refused removes the owner's pid file, and the next start
  finds none. (Overlapping starts, failed reads and failed probes break exclusion
  too; the property leaves them out.)

Stated in the modules, without a run of their own (each can be named in a
configuration, and TLC then finds the counterexample):

* `TraderService!OrdersCovered` – orders are blocked when the balance is
  insufficient (`src/README.md:120`): several orders are checked against one cached
  balance, at the price of the signals. `UncoveredHasCause` is what holds instead.
* `ServicePipeline!LoadedSignalsRecentAlways` (`src/README.md:112`): when the
  signals cannot be saved ARES counts them all the same, and turns the status
  GREEN over an old file; and the status may be stamped well after it was judged.
* `TraderService!PartialBalanceScalesDown` (`src/RUNBOOK.md:181`): the balance is
  compared with the full size before it is scaled, and the first failure
  quarantines.
* `AtomicWriter!NeverMissing` (`.../shared/io.py:4`): not on Windows.
* `EventChain!AnswerTells` (`.../memory/event_chain.py:36`): after a failed flush
  the closing of the file may still write the event.
* `HashChain!AcknowledgedBlocksStay` (`src/README.md:104`): a concurrent call
  takes an acknowledged block away, and `verify_chain` accepts the rest.

Seen in the code, and modelled as it is:

* "Feeder writes health within freshness threshold" (`src/CHANGELOG.md:200`): the
  method it calls does not exist.
* "no default signals under stale data" (`src/CHANGELOG.md:201`): ARES looks at
  the age of the feeder's health file and never at that of the snapshot.
* `.../shared/singleton.py:132`: on POSIX the `except` clause names `subprocess`,
  which is a local bound in the Windows branch only, so that probing a dead pid
  raises `UnboundLocalError` and `acquire()` a `SingletonError`.
* Since no code of the package writes `health/feeder.json`, ARES' gate opens only
  for a file that something else wrote.
* `ReadinessGate` (`.../shared/health_contracts.py:401`) looks at the status of a
  record and never at its age.
* `src/shared/auto_heal_fsm.py:307` formats an age that may be None: one service
  without an age in its health file and no service is healed in that cycle
  (`Readable` is an antecedent of `FailedServiceHandled`). The failed attempts
  outlive the five minutes of quarantine, so that it never ends in a restart
  (`GivenUpForGood`).
* Restarting the feeder (`src/shared/auto_heal_fsm.py:384`) runs the orchestrator's
  `--stop` without a name (`src/shared/service_orchestrator.py:146`), which stops
  all services and, through `.runtime/auto_heal.pid`, the healer that waits for it;
  nobody is left to start them again.
* STOP.TXT says "All new orders are blocked" (`src/shared/auto_heal_fsm.py:538`)
  and is written in the repository's root; `src/shared/preflight_guard.py:47`
  looks for it in `shared_data`. `BreakerBlocksOrders` is about the file.
* `auto_heal_service.py --stop` makes a service object of its own and stops that;
  the running one goes on.
* The risk profile is cached in each process (`src/guard/risk/risk_profiles.py:153`):
  a process that did not switch the mode itself keeps the old profile until it is
  started again. So does one whose `switch_mode` could not read the file.
* The memory validator reads `event_chain.ndjson` and `snapshot_store.json`
  (`.../shared/memory_validator.py`); the stores write `events.jsonl` and
  `snapshots/`, so that its report always says corrupted.
* The feeder subscribes to its first symbol only (`.../feeder/service.py:154`);
  `src/README.md:101` says "Multi-symbol data ingestion".

## 7. Not modelled

* Configuration, data access, symbols, paths, logging, monitoring, the user
  interface: sequential readers and renderers without state the services act on.
* `get_proof`, `get_events` filters, report formats, the validator's integrity
  report and replay (they read files nothing writes): read only.
* The service launcher: the dashboard makes a new one for every click, with an
  empty table of processes, so that all it does to the system is to start a
  process at any moment, which is `Start` of `SingletonGuard`. Its interpreter
  path (`venv/Scripts`) exists on Windows only.
* The failure drills: a test driver over the other components.
* `src/shared/order_router.py` and `src/shared/state_store.py`: both import
  `read_json_safe`, which `io_canonical.py` does not define, so neither can be
  imported and there is no behaviour to model.
* `src/shared/circuit_breaker.py`: it calls methods `StateBus` does not have, and
  nothing imports it. The command and action queues: nothing creates a command or
  starts the dispatcher, whose `is_stopped` raises `NameError`.
* The rest of `src/shared` and `src/guard`: about two hundred health writers,
  probes and panels of an earlier generation that no entry point and no test of
  the package starts, most of the repository's lines.
* `HealthGate` (`.../shared/health.py:233`): no service calls it, and it waits for
  a status word the services do not write.
* In the feeder: the library's queue of messages and the ticker's own event time
  (`.../feeder/service.py:233` drops it), so that how old a saved price is at the
  exchange is not a question the model can ask. In `get_events`: a decoding error
  anywhere answers `[]` for the whole log (`.../memory/event_chain.py:94`).
* Arithmetic of prices beyond naturals and rounding of quantities at the exchange; clock jumps;
  log texts, alerts and statistics.

## 8. Plan

Order of work: the services' core first, because signals and orders are what
the program is for, then the files they rest on, then the parts around them.

1. *Done*: `SingletonGuard`, `ServiceFiles`, `AresService`, `TraderService`,
   `ServicePipeline`, `AtomicFile`/`AtomicWriter`, `HashChain`, `EventChain`,
   `HealthContracts`, `FeederService`, `MemoryStore`, `RiskMode`, `AutoHeal`, and
   the theorems of section 5.
2. *Feeder in the pipeline*: compose `FeederService` with `AresService` over the
   snapshot file; property: the age of the prices behind a signal. Abstract
   specification: "signals stand for prices at most so old".
3. *ReadinessGate*'s wait loop in `HealthContracts`, with time.
4. *Proofs*: the remaining safety properties once steps 2, 3 and 5 add some; the
   feeder as an implementation of the environment ARES assumes
   (`FeederSaves`), so that the theorems of ARES hold beside the real feeder.
5. *Auto-heal and guard*: restarts of `AutoHeal` as `Start` of `SingletonGuard`,
   whose refused instance removes the pid file.

Runs are kept few: a module that is extended gets its questions into the run it
has, and a platform or a failure switch is a variable rather than a second
configuration.
