# A TLA+ model of nw-edit v2

nw-edit changes the configuration of network devices.  An operator imports a
list of devices, writes a few commands, and starts a *job*: the backend applies
the commands to one device first (the *canary*) and, if that succeeded, to the
others with bounded parallelism, while the operator may pause, resume or cancel.
What the program must not get wrong is easy to say: do not go on after a bad
canary, do not touch a device after a cancel, do not say "completed" when it is
not so, and do not lose track of a run.  It is hard to test, because everything
happens on threads: the request threads of FastAPI, one background thread per
run, a pool of threads inside each run, a pool inside each device import, and a
browser page that polls and listens at the same time.

This directory models that part of the program in TLA+, checks it with TLC on
small instances and proves with TLAPS, for every value of the constants, all
of the safety properties and the three refinements the passing runs check.
Source paths below are relative to the repository; `app/` stands for
`backend_v2/app/`.

## 1. Inventory of the system

| part | source | state it keeps | operations | modelled by |
|---|---|---|---|---|
| Execution engine | `app/application/execution_engine.py`, `execution_control.py` | local to `run_job`: pending devices, futures in flight, summary; two flags shared with the handlers | `run_job`, `_run_with_retry`, pause / resume / cancel flags | `ExecutionEngine`, `RunContract` |
| Job lifecycle | `app/domain/state_machine.py`, `models.py`, `app/application/job_service.py` | the status of each job record | `create_job`, `apply_event` | `JobStateMachine`, `RunService` |
| Run service | `app/api/main.py` (job endpoints), `run_execution.py`, `run_coordinator.py`, the job, run and control stores | four in-memory dictionaries, each with a lock per call; a thread per run | create, run, run/async, pause, resume, cancel, raw event, reset | `RunService`; with the engine inside, `RunSystem` |
| Device sessions | `app/infrastructure/netmiko_executor.py`, `netmiko_device_worker.py` | local to a call: the SSH connection, a deadline, the result | apply with verification, status commands, connection check | `DeviceSession` |
| Device import, run preparation | `app/application/device_import_service.py`, `command_template.py`, `app/api/run_preparation.py`, `in_memory_device_store.py`, `device_connection_validators.py` | the inventory of devices | import with a validation pool, with or without a progress stream, `prepare_run`, clear | `DeviceInventory` |
| Preset store | `app/infrastructure/file_preset_store.py` | one JSON file, one lock | create, update, list | `PresetStore`, `PresetBook` |
| Event stream, monitor page | `in_memory_event_store.py`, the websocket of `main.py`, `frontend_v2/public/app.js` | events per job, a cursor per socket; the page's `monitorState` | publish, send, handle message, poll, fetch result, open a job's detail page | `MonitorPage` |
| Simulated worker | `simulated_device_worker.py` | none | always succeeds | not modelled: a special case of the worker in `ExecutionEngine` |
| API schemas and mappers | `schemas.py`, `mappers.py` | none | field bounds, copies | not modelled |
| Frontend server | `app/frontend_server.py` | none | serves files | not modelled: I/O only |
| Forms and rendering | the other files of `frontend_v2/public` and the rest of `app.js` | form contents | texts and layout | not modelled |
| Mock SSH server | `tests/mock_ssh_server` | none that matters | plays a device | not modelled: `DeviceSession` lets a device answer anything |

### How the parts interact

* An HTTP handler runs on a thread of its own.  It makes several calls to the
  stores; each call takes that store's lock, nothing locks the handler as a
  whole.  Job records are objects shared by everybody who fetched them.
* `run/async` prepares the run (reading the inventory), takes the *start*
  transition, resets the control flags, and asks `RunCoordinator` for a thread
  that executes `execute_prepared_run`; `run` executes it on the request thread.
* `run_job` reads the two flags; the handlers write them *before* they try the
  transition of the job.  After `run_job` the summary is stored and then the
  job is closed by an event the state machine may refuse.
* Pool threads of `run_job` call `NetmikoDeviceWorker`, which looks the profile
  up in the inventory again and opens an SSH session.
* Everybody publishes events.  The websocket handler re-reads the event list
  from a cursor every 200 ms and closes after `job_complete`.  The page handles
  messages, polls `/jobs/active` every 4 s and fetches job and result.

### What is hard about it

* **Unlocked handlers**: check-then-act over two store calls (create, reset),
  read-decide-write in `apply_event`, flags that are cleared after the status
  that allows to set them became visible.
* **Cancellation**: it has to reach a loop in a pause spin, attempts between
  retries, and a pool that is being drained, and two of the exits of `run_job`
  are inside the `with` block of the pool.
* **Order**: completion order of futures is arbitrary; `job_complete` is
  published before the summary is stored and the job closed; answers to the
  page overtake each other.
* **Partial failure**: any command of an SSH session may fail after the
  configuration changed; a validator may raise with others still in the pool;
  the process may die while the preset file is written.
* **Boundaries**: an empty list, a canary that is the only device, a pool of
  one, a retry limit of zero.

`PROJECT.json` lists each hazard at its line with the properties that cover it,
and says of the ones not covered why.

### What makes each part correct

* Engine: canary first; at most `concurrency_limit` at once; with
  `stop_on_error` no more bad devices than may be in flight; a cancel is felt at
  the next attempt on every device; the verdict is true, is given once, and
  nothing is left running; a cancelled or unpaused run ends.
* Service: one active job and one engine per job, and where requests served at
  once break that, no more of either than there are such requests; nothing
  unstarted executed, reset spares active jobs, and a job's status does not get
  stuck.  Section 5 says which of these the code does not keep.
* Service and engine together: after a job is shown as cancelled no attempt on a
  device is cleared, while it is shown as paused no further round of devices, a
  completed or failed job has its result and the result is true, and a run comes
  to an end the client sees.
* Sessions: no connection is left open, a success is whole, a touched device is
  reported, every call returns.
* Import and preparation: all or nothing, a truthful progress stream, a prepared
  run the engine accepts, every import answers.
* Presets: a whole file, unique labels, and calls that take effect one at a
  time: nothing acknowledged or written is lost, no refusal without a reason.
* Page: events once and in order, `job_complete` is seen, a final status is
  never wrong, an ended job does not stay active on the screen.

## 2. The modules

```
RunContract     <-- implemented by -- ExecutionEngine
RunService      <-- implemented by -- RunSystem = RunService + ExecutionEngine
PresetBook      <-- implemented by -- PresetStore
JobStateMachine <-- used by -- RunService, MonitorPage
DeviceSession, DeviceInventory, MonitorPage stand alone

ExecutionEngine <-- ExecutionEngineProofs <-- ExecutionContractProofs --+
RunService      <-- RunServiceProofs ---------------------------------- RunSystemProofs
RunSystem       <-------------------------------------------------------+
DeviceSession   <-- DeviceSessionProofs      DeviceInventory <-- DeviceInventoryProofs
PresetStore     <-- PresetStoreProofs        MonitorPage     <-- MonitorPageProofs
```

Each `MC*` module gives the constants of its component their values for TLC.
Definitions whose name extends that of the definition below them and whose
comment begins with "Mutant" are mistakes such code might have made; they are
used by nothing.  Replacing a definition by its mutant shows that a property
notices.

### ExecutionEngine

One call of `run_job`.  The orchestrator's program counter `pc` goes through
*begin*, *canary*, *gate* (the head of the scheduling loop with the pause spin),
*submit* (the inner loop), *await*, *collect* (one done future at a time, in any
order), *finish*, and *shutdown* where the `with` block waits for the pool.  A
*slot* is one call of `_run_with_retry`: slot 0 the canary, slot *i* the device
at position *i*.  Pool threads take the steps `StartAttempt` (the look at the
cancel flag at the top of an attempt), `CallWorker` (the call, whatever has
become of the flag since) and `FinishAttempt` (what the worker returned, and the
decision to retry).  `late` counts, for each slot, the calls begun with a cancel
already requested; nothing in the model reads it but `CancelLag`.  `Control` is any handler that sets or
clears a flag, at any moment and as often as it likes.  A step ends wherever another
thread can make a difference.  The worker may succeed, fail or raise.
Left out: delays and backoff (a step may take any time anyway), log lines,
messages and outputs.

`imported_device_keys` may repeat a key, and then the code executes the device
twice and one result overwrites the other.  The instance has such a list.  The
properties about slots hold for it as well; those that need a device to have
one result are stated for `DistinctKeys`, and say so: with a repeated key a
later success hides a failure from stop on error and from the verdict.  It can
hide it after the failure has dropped what was pending, so a run may be
*completed* with a device it never executed; `VerdictTruthful` says of such a
list only that the canary succeeded.

### RunContract

The promise to the operator, without threads, pools and flags: a device is
touched at most once per run, canary first, at most *limit* at once, with stop on
error nothing new once *limit* devices went bad, one true verdict, nothing
touched after it.  `ExecutionEngine!Contract` instantiates it with a refinement
mapping: a device's fate is read off its slot, and the verdict is the one
announced by `job_complete`.  It is stated for target lists without repeated
keys.

### JobStateMachine and RunService

`JobStateMachine` is the transition table.  `RunService` has a process per
request thread and one per run thread; a step is one store call with the
thread-local work up to the next.  `apply_event` is three steps: `LookupEvent`
(fetch and table lookup) or `RefuseEvent`, `CommitEvent` (status written), and
`SaveRecord`.  A run request goes on with `RunControl` and `ClearFlags`
(`reset_run_control`) and `Spawn`.  The engine is the environment: it returns a
verdict, sees its cancel flag, or raises; `RunSystem` puts the real one in its
place.  Records are shared objects: a status survives a cleared
store and a late save brings the record back, as in the code.

Three merges keep the model small: a control request fetches the control and
sets its flags in one step (the control object is the same for a job until a
reset), `request_cancel` sets one flag and clears the other in one step, and
requests that are refused and reads are left out because they change nothing.
A control that is created again after a reset has fresh flags.

### RunSystem

`RunService` and `ExecutionEngine` in one state space, for one job.  The engine
is an instance of its module whose flags are the control of that job:
`EngineStep` is the thread inside `run_job`, `PoolStep` its pool, and
`EngineHandsOver` and `EngineThrows` are the two ways back into
`execute_prepared_run`.  All other steps are those of the service, with the
engine's variables unchanged.  Every property of this module relates a status
the client reads to what the devices go through: neither component can state
it.  `ImplementsService` shows that the composed system is a behaviour of
`RunService`, so that what the service's runs show is true of the service with
the real engine; the mapping says a process whose engine has announced a
cancelled run is waiting for its pool.

`RunEnds` and `RunCloses` say how a run ends.  The one behaviour both except is
a run that is held by the pause flag for ever.  `RunEnds` is about the run: its
engine is done and its summary stored, unless `run_job` raised.  `RunCloses` is
about the job: it gets a terminal status and nobody works on it, unless a pause
meets the closing event of the run (`PauseMeetsEnd`, finding 3).  A job may then
stay paused, or running after a resume, with nobody behind it.

It has one request thread.  With two, the findings 2 and 4 below break these
properties for the reasons given there.  The raw event endpoint and reset are
left to `RunService`: they change a status behind the engine's back, or take its
control away, by design.

### DeviceSession

One call of `execute_device_commands`, `run_status_commands` or
`validate_device_connection`, and the repetition of a failed call.  The device
may refuse the connection and may answer each command well, with an error text,
or by an exception; the configuration is old, partly changed or new.  The
deadline may pass and the cancel event may be set at any moment; both are looked
at where the code looks at them, and the looks before the configuration is sent
(`ApplyAllowed`, `LastLook`) are steps apart from sending it (`Apply`): it may be
sent after the deadline or a cancel, and the result must then still show it.
The look before a connection or a verification command and the command itself
are one step, as no property depends on what comes in between.  Verification output is represented by the
configuration it was read from, so "the diff is that of before and after" is a
statement about the device.  Texts, trimming and diff layout are left out.

### DeviceInventory

Imports and run preparations at the same time.  A CSV is a list of rows (a
device, a bad row, or a syntax error that ends the reading); the validation
pool, the loop over `as_completed`, the replacement of the inventory and the end
of the progress stream are steps of their own.  An import without a stream
puts its one answer only.  `prepare_run` checks the keys
against one snapshot of the inventory and then looks every device up again.

### PresetBook and PresetStore

`PresetBook` is what a client may rely on: a map from ids to presets, and calls
that take effect at one moment between request and answer.  A refusal (409, 404)
needs a reason in the book at such a moment; a call that ends in a 500 or with
the process has had its effect or not.

`PresetStore` is `FilePresetStore` step by step: lock, read, check, open the
temporary file, write it, replace, answer.  A list is the read alone.
`WriteFails` is an exception of a file operation.  `Crash` may happen between
any two steps and keeps the files only; the constructor then runs again.  A file
is missing, whole or torn.  Writes reach the disk in order: power failures
without a sync are not considered.  The book is what the file holds, and a call
takes effect when the file is replaced (or read, for a list).

### MonitorPage

The server side of one job in the order of `execute_prepared_run`, the events it
publishes (the engine's own *running* and `job_complete`, and those of the
handlers, which come whenever a handler gets to it), the websocket handler with
its cursor, a connection that may break, and the callbacks of `app.js` that
change the shown status.  A control request sets its flag (`AskControl`), then
takes its transition or is refused one and leaves the flag (`ApplyControl`), then
publishes; the engine reads the flag only, so a run may be announced as cancelled
while its job is still running or paused.  Every request is
split into the moment the server reads its stores and the moment the page
handles the answer, so answers overtake each other and everything else; a fetch
also has a moment when it is sent, because a second one is not begun then.
Answers of polls are counted, not named: which poll an answer belongs to makes
no difference.  Opening a job from the history is an action of the user at any
time.  Device events move the cursor and do not change the shown status; they
are left out, as is a reset by another client.

## 3. The runs

| run | instance | what it shows |
|---|---|---|
| `ExecutionEngine` | 4 devices, lists of 1, 2 and 4, two with a repeated key, canary first or last, limit 1 and 2, retry 0 and 1, both stop modes, and both rejected calls | `TypeOK`, `CanaryFirst`, `ConcurrencyBound`, `BlastRadius`, `VerdictTruthful`, `NothingLeftRunning`, `StreamMatchesSummary`, `CancelLag`; no step breaks `VerdictIsFinal`; `ImplementsContract`; `CancelEndsRun` and `UnpausedRunEnds` under fairness |
| `RunSystem` | 1 job, 1 client; lists of 1, 2 and 3 devices, limit 1 and 2, retry 0 and 1, both stop modes, workers that succeed, fail or raise | `StatusTruthful`, `CancelStopsDevices`, `PauseHolds`, `ImplementsService`; `RunEnds` and `RunCloses` under fairness |
| `ServiceConcurrent` | 1 job, 2 requests at a time, all endpoints, engines that end in every way | `TypeOK`, `EngineOnlyAfterStart`, `EnginesBounded` |
| `DeviceSession` | apply calls with 0 to 2 verification commands, canary or not, cancellable or not, 2 attempts; a status session of 2 commands; a connection check | `TypeOK`, `Released`, `SuccessMeansDone`, `ChangeIsReported`, `CallReturns` |
| `DeviceInventory` | 3 imports (one that repeats a key, one with another device and no stream, one with a bad row and a syntax error), 2 run requests, 2 pool threads | `TypeOK`, `AllOrNothing`, `StreamTruthful`, `PlanFitsEngine`, `ImportEnds` |
| `PresetStore` | 2 clients, 2 ids, 2 labels, 2 bodies, any number of failing writes and crashes | `FileWhole`, `LabelsUnique`, `ImplementsBook` |
| `MonitorPage` | 1 answer of a poll in flight, 2 control requests, any number of visits to the detail page | `StreamInOrder`, `ShownTruthful` |
| `MonitorSettling` | 1 answer of a poll in flight, 1 control request | `CompleteSeen`, `MonitorSettles` |
| `EngineDropped` | 3 devices, limit 1 and 2 | counterexample to `SummaryCoversTouched` |
| `ServiceTwoRuns` | 1 job, 2 requests at a time | counterexample to `OneEnginePerJob` |
| `ServicePausedForever` | 1 job, 1 request at a time | counterexample to `RunningMeansRun` |
| `ServiceLostCancel` | 1 job, 2 requests at a time | counterexample to `CancelReachesEngine` |

`CHECK_DEADLOCK FALSE` is given where the system stops for good in the model: a
session whose call has returned, imports that have all been answered, and the
one job of `RunSystem` when it has ended.

### Why the bounds are enough

* *Engine*: with a limit of 2 and three other devices the pool is full with one
  device waiting, a result can arrive while another is in flight, and a third
  can be submitted after it: every relation between a slot in flight, a slot
  collected and a slot pending occurs.  One retry distinguishes the first
  attempt from a later one.  Flags may change any number of times.
* *Service*: the races on a job are between two handlers, or between a handler
  and the run thread, so two request threads show them; the bound of
  `EnginesBounded` is reached (`ServiceTwoRuns` is the way there) and a third
  engine would exceed it.  Handlers of different jobs meet in create and reset
  only; what is stated of those is proved for any number of jobs (section 4).
* *System*: a pool of two with two other devices, or of one with a second device
  waiting, gives every phase of the engine in which a pause or cancel can
  arrive; one request thread serves any number of control requests, refused
  ones included, before, during and after the run.
* *Session*: the code treats all verification commands alike, so the first, a
  later one and none are the cases; two attempts show what a second finds on a
  device the first has touched.
* *Inventory*: three checks for two pool threads leave one queued; two imports
  suffice for each to overtake the other; a third adds the failing rows.
* *Presets*: one writer and one that comes in between; two labels and two ids
  allow both ways a label can collide.
* *Page*: two control requests are the least that resume a paused run or cancel
  it, and with one the flag of each kind can be set ahead of its status, or
  refused.  One poll at a time can be overtaken by, and overtake, the messages,
  the fetch of the result and the answers of the detail page; two polls that
  overtake each other are not in the instance.  What `ShownTruthful` says does not
  concern polls, which answer with active statuses only.

### Fairness

* The orchestrator and the pool threads of a run, request threads and run
  threads, threads of the import pool: weak fairness, which is what a
  preemptive scheduler gives to a thread that can go on.  A worker or validator
  call ends because Netmiko is given timeouts.
* The runs of `RunService` check safety only.  `RunEnds` and `RunCloses` are
  stated where the engine is real: they need no assumption about the engine's end
  but that worker calls end.  They except a run held by the pause flag for ever,
  and a `run_job` that raises: then the job stays running with nobody behind it,
  as `execute_prepared_run` catches nothing.
* Nobody is ever obliged to pause, resume, cancel or send a request.
* On the page: the run thread and the handlers go on, the engine unless the pause
  flag holds it; the interval timer fires for ever, requests are answered, and
  answers and messages are handled; a connection need not break, and if it
  breaks it does not come back.

## 4. What is proved

For **every** value of the constants: any sets of devices, jobs, threads and
clients, any target lists, limits, retries and worker outcomes.  The proofs use
the assumptions the modules name, which TLC evaluates on every run and which
say no more than the types of the arguments (`RunArgsAssumption`,
`OutcomesAssumption`, `CallsAssumption`, `AttemptsAssumption`, `CsvAssumption`,
`RequestAssumption`, `PayloadAssumption`, `RequestsAssumption`,
`EndsAssumption`), that a pool has a thread and a bound is a number
(`WorkersAssumption`, `BoundsAssumption`), that finitely many threads serve
requests (`ThreadsAssumption`), and that names of different things
differ (`ProcessesDisjoint`, `BootAssumption`).  `OneJob` says that `RunSystem`
follows one job.

Some theorems have a hypothesis of their own, in their `ASSUME`:

* `NoReset`: no reset is served.  It cannot be dropped from
  `AtMostOneJobPerRequest`: a stale transition puts a job back that a reset
  removed, and others may have been created meanwhile.
* `OneClient`: one request is served at a time (any number of jobs, and their run
  threads go on by themselves).  It is part of `OneSteers`.
* `OneSteers`: `OneClient`, and the client uses neither the raw event endpoint
  nor reset, which by design change a status or remove a control behind the
  engine's back.  This is how the frontend steers a job; what two clients at once
  do to it is what `ServiceTwoRuns` and `ServiceLostCancel` show.
* `EngineEnds = EngineEnd`: when `RunSystem` is compared with `RunService`, the
  service must leave open all four ends of `run_job`; the real engine has them.

### The engine

| theorem | statement |
|---|---|
| `TypeCorrect` | `Spec => []TypeOK` |
| `CanaryGate` | `Spec => []CanaryFirst` |
| `NobodyLeftBehind` | `Spec => []NothingLeftRunning` |
| `CancelIsSoonFelt` | `Spec => []CancelLag` |
| `VerdictGivenOnce` | `Spec => VerdictIsFinal` |
| `AtMostConcurrency` | `Spec => []ConcurrencyBound` |
| `VerdictIsTrue` | `Spec => []VerdictTruthful` |
| `StreamIsTrue` | `Spec => []StreamMatchesSummary` |
| `BlastIsBounded` | `Spec => []BlastRadius` |
| `EngineKeepsContract` | `Spec => ImplementsContract` |

The properties are not inductive: that nothing runs when `run_job` is over says
nothing of the states before.  The invariant `IInv` of `ExecutionEngineProofs`
adds what the code relies on without saying it.  `SlotInv`: a slot has an outcome
exactly when it is done, has an attempt left until then, and is cancelled only
after a cancel.  `PoolInv`: what is pending is idle, every slot of the pool that
is worked on is in `inFlight`, and the batch being looked at is done and in
flight.  `PhaseInv`: what `pc` implies, for instance that the fan-out is reached
only after the canary's success, and that nothing is in flight at *finish*.
`VerdictInv`: a verdict is given only where `run_job` is about to leave, and one
given with the pool still to be drained comes from a cancel.  There is one lemma
per action, and the theorems follow by temporal reasoning.  `AtMostConcurrency`
needs cardinalities: `PoolBound` is shown inductive on top of `IInv` with the
library's theorems on finite sets.

`ExecutionContractProofs` adds `OInv`, which ties results, events and verdicts to
slots: a recorded result is that of a collected slot of its key (`ResultInv`,
`RecordInv`); unless something went wrong or a cancel came, every device is
pending, in flight or recorded as a success (`CoverInv`), which is why
*completed* is true; what is shown as running is in flight (`ShownInv`); and in
flight and bad slots together do not exceed the limit (`BlastInv`), since nothing
is submitted once a bad result is recorded.  For the refinement every action is
shown to be one of `RunContract` or a stutter: `StartAttempt` touches a device
the first time only, `FinishAttempt` settles it unless it is retried, and an
announced verdict is one the contract allows at that moment.  The mapping reads
a device's fate off its slot, so it is stated for lists without repeated keys.

### Service and system

| theorem | hypothesis | statement |
|---|---|---|
| `TypeCorrect` | | `Spec => []TypeOK` |
| `StartedFirst` | | `Spec => []EngineOnlyAfterStart` |
| `AtMostOneJobPerRequest` | `NoReset` | `Spec => []ActiveJobsBounded` |
| `AtMostOneEnginePerRequest` | | `Spec => []EnginesBounded` |
| `StatusIsTrue` | `OneSteers` | `SystemSpec => []StatusTruthful` |
| `CancelIsObeyed` | `OneSteers` | `SystemSpec => CancelStopsDevices` |
| `PauseIsObeyed` | `OneSteers` | `SystemSpec => PauseHolds` |
| `SystemIsService` | `OneSteers`, `EngineEnds = EngineEnd` | `SystemSpec => ImplementsService` |

`RunServiceProofs` has to say what survives when nothing locks a handler.  A job
leaves *queued* once and for ever, whoever writes last, so a process that has
seen it leave may rely on that (`JobOK`); a job being created is in nobody
else's hands (`BirthInv`).  That is enough for `StartedFirst` with any number of
threads.  The two bounds are counting arguments.  `Claimed` is the set of jobs that
are active, or that a request is about to make active: its check is passed and it
has not saved, or its transition is decided and not written.  `RunsOn(j)` are the
processes that have been granted the start of job *j* and have not finished with
its engine; a run thread takes its request's place in it.  Neither set is ever
larger than `Thread`, because a request enters only when it finds no job active,
or the job still queued, and then everybody who is in is such a request itself.

`RunSystemProofs` puts the invariants of both components side by side and adds
`Link`.  `FlagInv`: whoever is about to write *cancelled* or *paused* has set the
flag before.  `StartInv`: whoever is about to call `run_job` finds it not yet
begun, so clearing the flags takes nothing back that the engine has read.
`ClosingInv`: whoever closes a job has stored the result, and the result is the
verdict of the run that has returned.  `JobLink` is what then holds of the record
itself.  `CancelIsObeyed` combines it with the engine's lemma that an attempt is
cleared only with the flag clear.  The engine's lemmas are used through an
instance whose flags are the job's control (`Run`); every step of the system is
a step of `run_job`, of its control, or happens before its first look at the
flags (`RunStep`).

`SystemIsService` maps a process inside a `run_job` that has announced
"cancelled" to one that waits for its pool (`seen`).  A step of a handler changes
what is seen as it changes the process (`SeenMove`), so it is the same step of
the service.  A step of the engine is a stutter, or the moment `EngineCancelled`:
the flag is set then because the verdict is true.  Handing over a verdict is
`EngineReturns` or `EngineDrained`.

### Sessions, inventory, presets, page

| theorem | statement |
|---|---|
| `SessionTypes`, `SessionReleased`, `SuccessIsWhole`, `NoSilentChange` | `DeviceSession`: `[]TypeOK`, `[]Released`, `[]SuccessMeansDone`, `[]ChangeIsReported` |
| `PoolAndTypes`, `InventoryIsOneImport`, `AnswersAreTrue`, `PlansFit` | `DeviceInventory`: `[]TypeOK`, `[]AllOrNothing`, `[]StreamTruthful`, `[]PlanFitsEngine` |
| `NeverTorn`, `NoSharedLabel` | `PresetStore`: `[]FileWhole`, `[]LabelsUnique` |
| `StoreIsBook` | `PresetStore`: `Spec => ImplementsBook` |
| `StreamIsInOrder`, `FinalStatusIsTrue` | `MonitorPage`: `[]StreamInOrder`, `[]ShownTruthful` |

* *Sessions.*  The properties speak of calls that have returned, so `SInv` adds
  `Progress`: what the session has done by each stage, e.g. that nothing was sent
  before *apply*, that in *close* the result holds the diff of the configurations
  read before and after, and that the connection is not open in the early stages.
* *Inventory.*  Imports touch nothing of each other but the inventory, so the
  invariant is about one import: what it has counted, and that no check is open
  once it has left the pool.  The inventory is then the list of an import for
  which nothing can change any more.  A plan and the devices still to be rendered
  are together the targets of the request.
* *Presets.*  Whoever reads, checks or writes holds the lock and knows what the
  file holds; a temporary file about to replace it is whole and is what the
  holder means to write; an id being created is in no file and no other request.
  For the refinement, a call is open in the book until the file is replaced.
* *Page.*  The page believes whatever comes last, so `IInv` says that every
  statement under way, in the events, on the wire, in an answer or already shown,
  is true if it says the job has ended (`Told`).  A job announced as cancelled may
  still be running: `OrderInv` and `EventInv` say that the closing event is then
  the cancel the engine announced, and that it finds the job open or cancelled.
  `job_complete` is published once, and the cursor of the socket is what was handled plus what is on the wire.

### Only model-checked

Liveness is out of the prover's reach and is checked by TLC: `CancelEndsRun`,
`UnpausedRunEnds`, `RunEnds`, `RunCloses`, `CallReturns`, `ImportEnds`, `CompleteSeen`,
`MonitorSettles`.  The four properties that do not hold (section 5) are TLC's as
well.  Every other property of a run has a theorem.  `AtMostOneJobPerRequest` is
the one theorem of the tables whose property no run checks: the runs of the
service have one job each.

## 5. Where code and documents disagree

Each of the four runs that end in a counterexample shows one.

1. **A cancelled run forgets devices** (`EngineDropped`).  `run_job` returns from
   inside the `with` block; the pool is waited for, but the results in flight
   are not read.  A device whose configuration was applied is not in the
   "execution summary for all devices".
2. **Two engines on one job** (`ServiceTwoRuns`).  `apply_event` reads and writes
   the status without a lock, and the synchronous `run` is not known to
   `RunCoordinator`: two run requests at once both start.
3. **Paused for ever** (`ServicePausedForever`).  A pause that is accepted while
   the last devices finish makes the closing event fail; the `ValueError` is
   swallowed, and the job stays paused, with nobody working on it, and blocks
   every new job; a resume turns it into a job that is running for ever.
4. **A lost cancel** (`ServiceLostCancel`).  A cancel served between the start
   transition and the clearing of the flags marks the job cancelled and is then
   wiped out: the engine runs to the end.

Two more promises are broken by requests served at once.  They have no run of
their own; the steps are in `RunService`.

* *Two active jobs.*  `create_job` looks for an active job and saves the new one
  afterwards (`CreateCheck`, `CreateSave`): two creates at once both find none.
  `docs/V0_1_0-REGRESSION-REPORT.md` lists the single-job lock as kept (API-05).
  What is left of it is `AtMostOneJobPerRequest`: no more active jobs than
  requests served at once.
* *A reset discards an active job.*  The check of `reset_app_state` and its
  clears are separate calls (`ResetCheck`, `ResetJobs`): a job created in between
  is removed while it is active, although the README of the repository says that
  a reset is then refused with 409.

Other behaviour met on the way, for which no document promises otherwise and no
run exists: a worker may be called, or a configuration sent, after a cancel that
came behind the last look at the flag; a reset may race with a run thread that
has not fetched its control yet; the pause flag is not
looked at in the inner submit loop; after a cancel `job_complete` is published
while devices are still being worked on; a job whose preflight failed stays
queued and can be freed by the raw event endpoint only; an import of an empty
list with a good header empties the inventory; a device whose profile disappears during
`prepare_run` is rendered from the global variables and not verified;
`validate_device_connection` leaves the connection when the prompt cannot be
read; the page does not ask again for a result that was not there yet, and the
detail page may show *pending* over a final status, or over *running* with
nothing to repair it when the connection is gone; a job cancelled after the
engine's last look at its flag is cancelled with a result that says completed; a disconnect that raises after a
complete application makes the engine apply it again;
a repeated key is executed twice and one result is lost, and a run that stopped
on the lost one is completed without the devices it dropped; a websocket whose job
was cleared by a reset stays open.

## 6. Plan

The order followed, most important first: engine and contract, service,
sessions, inventory, presets, page, the composition of engine and service, the
book of presets; then the proofs, from the engine and the stores outwards to the
composed system.  What is left, in the order it is worth doing:

1. *RunService with several clients and a reset*: how many jobs can be active
   when stale transitions put removed jobs back.
2. *RunSystem with the raw event endpoint*: what `StatusTruthful` still says when
   a client may close a job by hand.
3. *Page*: the websocket and the page under a reset by another client.
4. *Run preparation and engine*: instantiate `PlanFitsEngine` as the assumption
   of `RunSystem` on the payload, so that the two meet in one module.
