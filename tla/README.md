# A TLA+ model of the Flow AI harness

This directory specifies the concurrent and persistent core of the harness in
TLA+: how a side-effecting call waits for a host's approval, how a plan goes
from proposal to outcome, how a request runs its agents and their delegations,
how tasks are grouped, paused, retried and cancelled, and how an evaluation runs
and reports. TLC checks the modules on small instances and
TLAPS proves the main safety properties for every value of the constants.
`PROJECT.json` maps each definition to the source lines it stands for, and
lists the runs, mutants, theorems, hazards and findings.

    tlc -config MCApprovalGate.cfg MCApprovalGate     # a run
    tlapm ApprovalGateProofs.tla                      # a proof

## 1. The system

A request enters the runtime (`flowai-runtime`), which assembles agents
(`agent-fw-agent`) over providers, tools and a plan toolkit. Tool calls pass
through layers; the approval layer suspends a call until the host answers.
Plans are stored in a key-value store per tenant, approved through the same
gate, and executed by `agent-fw-plan`. Events flow through sinks to the host and
to Studio. Evaluations (`agent-fw-eval`) run the agents on test cases, and data
jobs (`agent-fw-ingest`) prepare what agents query.

| Part | State | Operations | What makes it hard |
|---|---|---|---|
| Pre-dispatch approval | pending awaiters, settled ids, KV audit record | register, announce, resolve, expire, sweep | host answers race cancellation, closed sinks, repeated answers and restarts |
| Plan lifecycle and execution | one record per plan id | propose, approve, start, dispatch, complete, fail | load and put without compare-and-swap around an await of minutes |
| Plan persistence helpers | the same record, observer | load-apply-put, recovery | failing writes, expiry, recovery of a failed completion |
| Nursery | task handles, token, error channel | spawn, report, join | errors, panics and cancellation in any order |
| Pause tokens | flag and two notifiers per token | pause, resume, wait, compose | wake-ups between check and registration |
| Sequenced bus | counter, history, broadcast channel | emit, evict, subscribe, replay | many emitters, lag, expiry, reconnects, iteration during inserts |
| Evaluation run | run and result records, events | the run loop, pause, cancel | cancellation at every await, best-effort writes to two stores |
| Data jobs, event histories | job records and indexes | register, update phase, delete, append | read-modify-write by several workers |
| Event sinks | bounded channel, open flag | emit, close, tee, broadcast | dropped events, close during emit |
| Requests, agents, delegation | request and interpreter channels, memory | invoke, interpret, tool call, delegate, remember | detached tasks, cancellation inside a tool, overflowing channels, what ends the stream |
| Schedules and retries | attempts, remaining delay | step, sleep, freeze, retry, repeat | pause and cancellation inside a sleep, off-by-one in composed schedules |
| Timeouts, races, scopes | deadlines, finalisers | timeout, race, bracket | late results, cancellation against completion |
| Studio stream client | status, attempt, abort handle | connect, reconnect, disconnect | callbacks after a disconnect, overlapping connects |
| Everything else | | | transformations, schemas, SQL, user interface, bindings |

The components of `PROJECT.json` list all parts with the reason where one is not
modelled.

## 2. Modules and their correspondence with the code

**ApprovalGate** models `InMemoryPendingApprovalStore` and
`KvPendingApprovalStore`, the gate code of `ApprovalHandler::handle` and
`GatedPlanExecutor::execute`, and `Runtime::respond_to_approval`. A gate has a
fresh id, so gates and ids are the same set. Each await of the code ends a step:
`Register` (in memory) and `RecordPending` (KV) are separate, so are
`ResolveWins`, `Send` and `RecordResolved`. `GuardedEmits` is the number of emits
that must be accepted before the gate waits (one for tools, two for plans).
`CancelBranch` may win although a decision is there: the `select!` is not biased.
A KV write of the audit record may fail silently, as `write_stored` logs and goes
on. `Crash` loses the tasks and the map and keeps the KV records; `SweepRead` and
`SweepWrite` are `sweep_orphans_on_startup`. Its candidates are the ids announced
before the restart, which is what the host's ledger holds; gates of the new
process may open and be answered while the sweep runs.

**ApprovalContract** is what the rest of the system may rely on: a gate opens,
is settled once, passes only on an approve, and otherwise refuses; a restart
abandons open gates. `ApprovalGate` implements it with the mapping `Phase`.

**PlanLifecycle** has the plan state machine of `plan.rs` as operators.
**PlanExecution** extends the contract and composes it with `executePlan`,
`GatedPlanExecutor` and `PlanExecutor` on one plan id. A call holds in `snap` the
plan it loaded, and `card` what its gate showed to the host. `Requires[e]` is the
set of proposals for which the policy in force asks the host: all of them under
"always", none under "never", any set for a dynamic rule. `Serialised` says that
the host runs one plan operation at a time; without it calls overlap freely.

**PlanPersist** models `PlanStore` and the `*_in_kv` helpers, with the recovery
of a failed completion and the observer.

**Nursery** models `with_nursery`: the body spawns tasks, which end, fail, panic
or (the set `Waiters`) wait for the cancellation; the join awaits the handles in
spawn order.

**PauseToken** models the two notifiers of a token with the flag's store and the
notification as separate steps, `wait_if_paused` of a composed token and
`until_paused`. **Schedule** has the constructors and combinators of
`schedule.rs`, and a `RetryPolicy` as a schedule. A schedule is the function of
its `step`: the delays it may give at an attempt after a time elapsed, none for
Done and several under a jitter. The exponential, the Fibonacci delays from the
third on and the jitter go through `as_millis` and lose what is below a
millisecond: a duration counts units of which `Milli` make a millisecond, and
`AsMillis` truncates. Beside it stands what the constructor promises,
the attempts granted and the time limits, which only properties read.
**ScheduledRetry** extends both. `Uses` lists loops with their schedules, and
`use` is the one of this behaviour. `pausable_sleep`
races the timer, the cancellation and the pause; after a pause it subtracts the
time it was awake and is frozen until the resume. Around it run three loops:
`retry_on_schedule` with its `_when` variant, `repeat_on_schedule`, and the
pausable retries of `retry.rs`, which look at the cancellation in the sleep
only. A behaviour has either the waiters of PauseToken or one loop: users of a
token read its flag and never write it, so they cannot disturb one another.

**SequencedBus** models `emit` with its lock as three steps, the history with
its TTL, and a client that subscribes, replays after its last id, lags, and
reconnects. No client is in the repository. This one subscribes before it
replays; the documentation of `history_since` has the opposite order (section 6). `history_since` iterates over a sharded map, so `ReplayBegin` and
`ReplayEnd` bracket it: what was there all the time is returned, what came or
went meanwhile may be. **EvalRun** models `EvalOrchestrator::run` with one step
per await (the error of a closed semaphore in the sample loop is left out:
nothing closes it); an emit is atomic there because it does not suspend and the bus keeps
its order (the previous module).

**AgentRequest** is one request of the runtime from `query` to the end of its
stream. Invocation 0 is the entry agent; a tool call that delegates is an
invocation under its own number. An invocation has two sides. `pc` is `invoke` of
the orchestrator: it loads the memory, opens the interpreter, forwards parts,
and appends the turn. `ipc` is the detached interpreter task: provider turns,
tool calls, and the race of the wait for a tool with the cancellation. `tpc` is
the tool call itself. Rig's tool server (vendored under `third_party`) spawns a
task for each call, which announces it, passes the approval gate and the guard,
runs the handler and sends the answer; the `invoke` of a delegation lives inside
that task. A cancellation ends only the wait for the answer. The call goes on,
its delegation is stopped by the same token at its own awaits, and a call the
server takes up later is refused by the guard. A delegation that starts when the
driver and every `invoke` are gone finds no orchestrator (`OrchestratorAlive`, the
weak reference of `LateBoundInvoker`). The channels are bounded: `Emit` and
`InnerPut` lose what a full or closed one does not take, as `try_send` in
`ChannelEventSink` does. The driver task turns a failure into an Error part and
closes the sink, which only refuses further parts; the stream ends for the reader
once every sender is gone (`SendersGone`), and each interpreter task and each
tool call holds one. An entry agent that is not registered, or whose conversation
does not parse, fails before its first await (`EntryRefused`).

**StreamCapture** has the fold by which an evaluation reads a stream, and
**RequestCapture** composes it with AgentRequest.

Each property has a mutant: a definition named as a variant in the module, which
changes the code's behaviour in the way of a plausible mistake and which TLC
finds to violate the property.

### Common abstractions

- A KV get or put is atomic and a failed put has no effect. A store that
  reports an error for a write it performed is outside the model.
- Payloads, feedback, scores and messages are left out or are small sets.
- One tenant: keys of different tenants never meet in these protocols.
- `failed`, `late`, `slept`, `lost`, `seen`, `log`, `failures`, `dispatched`,
  `fate`, `refused` and the gate's `verdict` are history: they record what
  happened for a property and enable nothing.
- A tool that waits for an approval is in ApprovalGate; in AgentRequest it is a
  tool that takes arbitrarily long.

## 3. Runs

| Run | Instance | What it shows |
|---|---|---|
| `approval` | 1 gate with 2 guarded emits, 2 host calls, 2 restarts, failing writes | an announced id is answerable, at most one answer wins, a gate passes only on an approve that won, no entry leaks, the audit record is truthful and final, the sweep leaves no orphan, the contract is implemented, cancelled and settled gates return |
| `plan_serialised` | 3 calls one at a time under two policies, 2 proposals, KV errors, 1 restart | nothing is dispatched or left beyond Draft without consent to that very proposal, one dispatch per proposal, the status only moves forward, the outcome is on record, Executing ends unless a fault ended the call |
| `persist_serialised` | 2 callers, 6 calls, errors and expiry | forward-only status, an observer that sees one walk, recovery that gives up only after two faults |
| `nursery` | 3 tasks, two of them waiting | no task outlives the nursery, no failure is swallowed, it returns |
| `schedule` | 2 tokens, 2 controllers, 4 toggles; 8 pairs of a loop and a schedule | no lost wake-up, waiters return, the checkpoint saw every token unpaused since it last waited; a sleep lasts its delay however often it is frozen and ends on a cancellation, the attempts are the ones the schedule grants, at most one operation begins after a cancellation |
| `bus` | 2 emitters, 5 events, channel of 2, 3 connections | order of the channel, no unexplained gap, a connected client catches up |
| `eval` | 2 cases of 2 samples, 3 toggles | a result is stored before it is announced unless its write failed, a Completed run that was not cancelled has every sample, at most one sample ends after the cancellation, one terminal event comes last, the run returns |
| `agent_request` | 2 tool calls, which may delegate in a chain or side by side; channels of 1 | a failure reaches the reader unless the channel was full, memory keeps turns that went well, no agent and no tool call is alive after the stream, a cancellation stops the driver and every agent though a tool hangs |
| `plan_absorbing` | 2 overlapping calls under "always" | **violated**: see 6 |
| `nursery_panic` | 3 tasks | **violated**: see 6 |
| `eval_truncated` | 2 cases of 2 samples | **violated**: see 6 |
| `request_capture` | 2 tool calls, channels that do not overflow | **violated**: see 6 |

**Bounds.** Gates share no state except through the map, keyed by id, so one
gate with two callers has every race there is on an id; two gates with liveness
take TLC too long, and the proofs cover any number. Three plan calls are two under
"always" and one under "never". Two restarts let a restart hit a sweep, and three
toggles pause a run, resume it and pause it again. Two controllers with four
toggles overlap a pause with a resume whose notification is still due. The
schedules have every constructor and combinator (`take` is an `intersect`),
jitter, delays of zero and delays that are no whole number of milliseconds
(`Milli = 2`). A clock stops at the largest value it is
compared with, the elapsed time at `MaxTime`, which no `up_to` exceeds: what the
code reads of it is the same from there on. Five events with a channel of two
make a receiver lag, and three connections break a replay. Three tasks put a
panic before, between and behind waiting ones. Two tool calls are a delegation
inside a delegation, two in a row, or one that goes on beside its cancelled
owner, and channels of one part overflow in every place. The counters that bound runs (`MaxCrashes`, `MaxToggles`,
`MaxCalls`, `MaxEvents`, `MaxConnects`, `MaxRestarts`) limit only the
environment. The runs do not check deadlock, since calls return, hosts stop and
nothing is left to do; the liveness properties say what must not get stuck.

**Fairness.** Weak fairness is given to what the runtime polls: the steps of a
gate, of a call, of a task that can end, of `run`, a started emit, a connected
reader of the bus, and time. In AgentRequest it is given to the driver, to `invoke`,
to the start and the end of an interpreter task, to a provider that has to open
its stream, to seeing the cancellation, to taking an answer that is there, and to
a tool server that takes up a call; not to the provider's turns, to an approval
gate, to a tool, or to the reader of the stream. A polled `select!` sees a lasting cancellation: weak
fairness of `CancelSeen` and `SleepCancelled` says no more. None is given to
hosts, controllers, cancellations, failures or restarts: no property relies on
somebody deciding. It assumes that a KV call, a dispatched action, a sample and
`make_stream` end. The code does not enforce this everywhere: the KV trait has no
deadline, `timeout_per_sample_secs` is optional, and `make_stream` is not raced
with the cancellation. A call that hangs is outside the liveness results.

## 4. Proofs

All theorems hold for every value of the constants that satisfies the named
assumptions of the modules. Every invariant, action property and refinement
that a passing run checks is proved.

- **ApprovalGateProofs**: `TypeOK`, `GateReleasesEntry`, `AnnouncedIsAnswerable`,
  `OneWinner`, `PassedWithConsent`, `AuditTruthful`, `SweepLeavesNoOrphan`,
  `TerminalAuditStable`, and that the protocol implements ApprovalContract. The
  inductive invariant `ProtocolInv` says for each position of a gate and of a
  call what the map, the oneshot, the verdict and the audit record can be
  (`GateInv`, `CallInv`) and that winners are unique. The properties are not
  inductive: that a gate passed on a winning approve needs what a message in
  the oneshot means, which needs where the call that sent it is.
- **PlanExecutionProofs**: consent for dispatches and for the record with any
  number of overlapping calls, errors and restarts (`ConsentInv`: the copy a
  call holds is justified at every position), and, assuming `Serialised`, at most
  one dispatch per proposal and a forward-only record (`SerialInv`: past its last
  load a call's copy is the record). It rests on the contract only; that the
  gate keeps the contract is the theorem `RefinesContract`.
  `OutcomeOnRecord` follows in the same way: the outcome a
  call returned stays on record until another proposal is stored.
- **PlanPersistProofs**: `ObserverFollowsRecord`, `StatusMonotone` and
  `RecoveryNeedsTwoFaults` for any number of serialised callers. `PInv` types the
  helper a caller is in; `SerialInv` says that at most one is running, that its
  copy is the record once it has loaded unless the record expired, and that
  the observer's last report ends where its transition starts.
- **NurseryProofs**: `Containment` and `NothingSwallowed` for any number of
  tasks and any set of waiters. `JoinInv`: every handle the join has passed
  belongs to an ended task. `LedgerInv`: the error channel holds exactly the
  tasks that reported, and a panic has been seen once its handle is joined.
- **ScheduledRetryProofs**, in three parts.
  *Tokens*: `NoLostWakeup` and `CheckpointHonoured` for any number of tokens and
  controllers, and `WakeupsKept`, which includes a frozen `pausable_sleep`.
  `WakeupInv` relates a registered future to the flag and to the notifications
  still due; `SweepInv` says that the tokens before the position of a sweep that
  has not waited were unpaused since the checkpoint last waited.
  *Schedules*: `IsSchedule` says that delays are naturals, that `step` is Done
  from the granted attempt on, and that it is Done at an earlier one only when the
  time of one of its limits has elapsed. Every constructor makes one, every combinator makes one of those it
  is given (`CombinatorsOK`), and so does every `RetryPolicy`. The laws L1 to
  L6, L9, L10, L12 and L13 of `schedule.rs` are theorems about the operators; L11
  is how `FromRetryPolicy` is defined. L7 and L8, on the jitter, hold of whole
  milliseconds only; `BoundLaws` has what the code does (section 6).
  *Loops*: `CancelStopsAttempts` under any schedule whatever; `SleepsEnough` and
  `AttemptsGranted` under `SchedulesOK`, that the schedules are ones in that
  sense, which by the second part holds of whatever the constructors and
  combinators build. `RetryShape` has the types and the bounds of the clocks,
  `SleepInv` that the time slept and the time remaining cover the delay, and
  `GrantInv` that the attempts made are within those granted.
- **SequencedBusProofs**: `SequenceOrder` and `NoGap` for any number of
  emitters, events and connections and any capacity. `BusInv`: an emitter inside
  the lock is alone, the number it holds is the next one of the channel, and the
  channel has no holes. `ClientInv`: between any two numbers
  the client has, and from its newest to its position in the channel, what it
  does not have is lost. A live client at the end of the channel with no emit
  under way is therefore complete but for what was lost (`ReadToTheEnd`).
- **EvalRunProofs**: `CompletedIsComplete`, `CancelStopsSamples`,
  `AnnouncedIsStored` and `TerminalEventLast` for any number of cases and
  samples. `RunInv` says what the loop has done at each position; `StreamInv`
  says that a terminal event is in the stream exactly when `run` has returned,
  and there at the end.
- **AgentRequestProofs**: `RememberedSucceeded`, `QuietAfterEnd` and
  `FailureReported` for any number of tool calls and any capacity, that nothing
  of the request, its tool calls included, changes once its stream has ended
  (`StreamEndIsFinal`), and `TypeOK` with the capacities of the channels.
  `ReqInv` is the conjunction of the channels' shape, `TreeInv` (an `invoke` is
  alive only inside the driver or inside a tool call that delegates, and a task
  that awaits an answer owns the call), `MemoryInv` (an interpretation that failed has its
  Error part in the channel before `invoke` can reach the end of it, or the part
  was refused) and `ReportInv` (the driver's Error part is in the channel, was
  read, or was refused). `QuietAfterEnd` needs `TreeInv`: no sender belongs to an
  `invoke` itself, so that the end of the stream excludes a live one only through
  the driver or the tool call around it. `OnlyCancelOrphans`: a tool call runs
  with nobody to take its answer only after a cancellation of the request. An
  error of the provider is no other way to it, since a turn that awaits a tool
  reads nothing from the provider, and the release of a token by an `invoke` that
  ended is none either, since its task has left the turn by then.

The liveness properties are only model-checked: TLAPS reasons neither about
fairness nor about ENABLED. What they need of every state is proved, for all of
them, as an invariant or an action property:

| Liveness, by TLC | What is proved of it, for every value of the constants |
|---|---|
| `GateReturns` | `WakeupNeverLost`: a settled gate that still waits has its decision in the oneshot, or a call about to send it |
| `ExecutingFinishes` | `ExecutingHasOwner`: a record Executing belongs to a call that has its outcome to store, or that a restart or a KV error ended |
| `NurseryReturns` | `OnlyPanicsStrand`: the join waits for ever only where all failures are panics behind the handle it awaits, the case of `nursery_panic` |
| `TokenWaitersReturn`, `SleepEnds` | `NoFrozenSleepLost`: who awaits a notification is registered for it, and the flag still says wait or the notification is due |
| `CatchesUp` | `NothingOutOfReach`: what a connected client lacks and has not lost is in an emit, ahead of it in the channel, or in the history it replays |
| `RunReturns` | `StepsMakeProgress` and `RunIsBounded`: `StepsLeft` is a natural, at most cases * (2 * samples + 5) + 6, that each step of `run` decreases and nobody else changes |
| `CancelStopsAgents` | `NoCircularWait`: a request in which nothing can move is over, or waits for the provider of a task that is not cancelled, or for a tool or an approval gate |

`NoCircularWait` is an argument about the youngest invocation that is alive: its
task awaits no delegation, because that would be younger (`WaitInv`). The other rows
follow from the invariants above, strengthened by what the module names beside
the theorem (`CancelInv`, `WaitInv`).

The fold of StreamCapture is recursive, and no theorem is about it. Data is not
proved by induction either: that `Exponential` and `Fibonacci` are capped holds
for every attempt because `CapAt` is applied last, not by what the sequences
compute.

## 5. Hazards

`PROJECT.json` lists the places where an ordering, a fault or a limit can hurt
and the properties that cover them; the ones without a property have a note.
Smaller ones, met while modelling and not in that list, are in the second half
of section 6.

## 6. Where the code and its documentation differ

Shown by a run:

- **`plan_absorbing`.** `plan.rs` calls Executed and Failed absorbing, and the
  gate promises that double approval is excluded by a state check before
  registering. Two overlapping `executePlan` calls both pass the check while the
  plan is Draft; the gate approved last stores the Draft it loaded before its
  await as Approved over a record that is already Executed. The plan is then
  dispatched again. Consent still holds: both gates were approved.
- **`nursery_panic`.** The join comment says there is no deadlock risk. A panic
  does not cancel the siblings; it is noticed when the join reaches its handle,
  which never happens behind a task that waits for the cancellation.
- **`eval_truncated`.** `run` promises an error when cancelled. A cancellation
  seen between the samples of the last test case leaves the loop, and the run is
  stored, announced and returned as Completed with samples missing.

- **`request_capture`.** A test of `stream_capture.rs` has a duplicate of a
  live tool call captured once, by its id. The key is the id together with the
  stack of agents. A delegating call is announced by `TracedHandler` before
  `sub_agent_call` and by the hook, through `invoke`, after it: two keys, and an
  evaluation counts the call twice.

Observed while modelling, without a run:

- Approval: a decision may be acknowledged to the host and recorded as Resolved
  while the gate returns "cancelled" (`layer.rs:290`), and the sweep lists ids
  whose write failed (`approval_store.rs:156`).
- Plans: `PlanStore::with_prefix` is honoured by `persist` and `load`, not by the
  transitions, which use `PLAN_PREFIX` (`persist.rs:202`). The transition helpers
  are not atomic: with overlapping callers (`Serialised = FALSE`)
  `StatusMonotone` fails after a lost update.
- Requests: a delegation that fails emits no `sub_agent_result`, so a capture
  keeps its frame on the stack; its Error part is in the stream although the
  coordinator may recover. A failure of the entry agent yields two Error parts,
  and the driver's own is dropped when the channel of 1024 is full: the stream
  then ends like that of a success (`query.rs:134` speaks of errors that flow).
  After a cancellation the stream stays open until every tool call has returned,
  since each holds a sender: a tool that hangs keeps a reader waiting although
  all agents have stopped, where `query.rs:135` has "a clean stream termination"
  always and `invoker.rs:28` the end of the driver task drop the last sinks. A tool admitted
  before the cancellation runs to its end, and its events are refused once the
  driver has closed the sink.
  A reader that drops the stream does not cancel the request. Two requests on one
  thread may lose a turn of the memory (`memory.rs:65`).
- Retries: the first attempt runs even if the call is cancelled already, and the
  loops of `retry.rs` do not look at the cancellation after the sleep, or at all
  when the delay is zero. `Schedule::delayed` adds its delay to the first step, which
  the loops take after the first attempt. L7 and L8 (`schedule.rs:14`) bound a
  jittered delay by half of the delay and keep it positive; the code computes in
  whole milliseconds, so that 3 ms may become 1 ms, and a positive delay below a
  millisecond becomes zero.
- Pause: the composed checkpoint may return although at no single instant all
  tokens were unpaused; each was at some instant since it last waited
  (`CheckpointHonoured`).
- Bus: `history_since` may return an event and miss an earlier one that was
  emitted during its iteration. It is exclusive, so no argument returns event 0
  (`event_bus.rs:158`). Its documentation has clients call it "before subscribing"
  (`event_bus.rs:149`), which would lose what is emitted in between; the client of
  SequencedBus subscribes first, and `NoGap` and `CatchesUp` are about that order.
- Evaluation: L3 speaks of samples; results are persisted per test case. The
  workspace is never told of a cancelled run, and a run that crashed stays
  Running (`orchestrator.rs:259`).
- Combinators: `race_with_cancel` promises that the cancellation has precedence,
  but its `select!` is not biased (`parallel.rs:91`). A nursery may report the
  error of a cancelled sibling before the one that caused it (`nursery.rs:91`).
- Studio: `lastEventId` is read and never assigned (`sse-connection.ts:48`).

## 7. Not modelled

- **Data jobs and event histories** (`job_store.rs`): gets, changes and puts of a
  record, an index and a history without a lock. PlanPersist has the same shape
  on one record, and shows what holds when calls do not overlap and that it
  fails when they do.
- **Studio stream client** (`sse-connection.ts`): one closure with a timer and an
  abort handle. It does not replay the history, unlike the client of
  SequencedBus.
- **Memory across requests**: AgentRequest has one request, in which get and put
  of a turn are two steps; what two requests on a thread do to one another is in
  section 6.
- **Dropping a future from outside** (of `with_nursery` by its caller). Within a
  request nothing drops an `invoke`: it runs in the driver's task or in that of a
  tool call, and both are detached.
- **Scoring, aggregation, parameter sweeps**: sequential floating-point code
  with property tests. Non-integer factors and overflow of the exponential
  schedule are left out for the same reason.
- **Ingest, catalog, search, resolve, domain types, tool layer**: sequential
  transformations and I/O.
- **Stores and drivers** (memory, SQLite, Postgres, provider clients): I/O; the
  modules use them as atomic gets and puts that may fail.
- **Timeouts, races, the synchronous scopes**: one poll around tokio's own
  combinators, or one owner.
- **Studio application, Python package, command lines, law kits**: user
  interface, bindings and tests.
