# TLA+ verification of dropcheck-agent

dropcheck-agent is a Wi-Fi field test tool in two parts. A controller, written
in Go, runs on a PC; an agent, written in Kotlin, runs on an Android handset
as device owner. The controller reaches the agent over `adb reverse` and one
bidirectional gRPC stream per agent, sends it commands (connect, scan, ping,
traceroute, ...) and evaluates the results, either one by one or as a harness
plan: rounds of targets and checks on several agents at once.

This directory holds TLA+ models of the parts where order, concurrency, failure
and arithmetic decide whether the program is right, the TLC configurations that
check them, and TLAPS proofs of the most important results. Every definition
that models code is listed with its source lines in `PROJECT.json` ("map").
Paths below are relative to `src/`; `control/`, `harness/`, `session/`, `tui/`,
`watch/` and `app/` stand for `controller/internal/...`, Kotlin files are in
`agent/src/main/java/io/dropcheck/agent/`.

## 1. Inventory

| Component | State | Operations | Hard behaviours |
|---|---|---|---|
| Control server (`control/server.go`, `command.go`, `session.go`) | registry of connections by agent ID, waiters by command ID, a send queue and a sender goroutine per stream | Session (hello, heartbeat, result, error frames, cleanup), Run, RunPinned, Cancel, WaitAgents | a reconnect supersedes a stream whose cleanup runs later; answers after supersession; timeouts against late answers; full send queue |
| Session start (`session/session.go`) | port, adb reverse, server | Start with retries, Close | partial start, cleanup once, lost wake-ups of WaitAgents |
| Agent service (`AgentService.kt`) | current session, worker thread, Wi-Fi event logger flag, foreground and start IDs | onStartCommand, onDestroy, session end | a finished session tears down state its successor set up |
| Agent session (`GrpcSessionClient.kt`, `AgentCommandLock.kt`) | stream, active tasks by command ID, worker, interrupt flag, lock shared with the shell | run, startCommand, cancelCommand, heartbeat, shutdown | duplicate IDs, cancel against completion, shutdown against late frames |
| Command executor, Wi-Fi connector (`CommandExecutor.kt`, `WifiConnector*.kt`) | saved profiles, auto-join settings, polling | execute, connect, disconnect, forget, cycle | the framework moves on its own between two calls, interrupts, cleanup of a partial cycle |
| Agent shell and main screen (`ShellActionOwner.kt`, `AgentBlockHistory.kt`, `TerminalLog.kt`, `MainActivity.kt`, `AgentLinkProfile.kt`) | running action, transcript with value files, tail of the log | run, attach, detach, follow, catch up, check link and lab | activity recreation under a running action; lines logged while nobody listens; a roam between two reads |
| Probes (`NetworkCheckExecutor.kt`, `NativeProbeProcess.kt`) | child process | ping, traceroute, MTU, HTTP, DNS | timeout and cancel of a child |
| Repository, event logger, widgets, renderers | mirrors of Android state; presentation | - | callback order (repository), debounce (clock widget) |
| Harness engine (`harness/execute.go`) | report, problems, outcome, agent goroutines | Execute, runAgentRound, runTarget, checkAttempted, cleanup, evict | agents in parallel, cleanup under cancellation, failing sinks, retention in endless loops |
| Harness controls (`harness/controls.go`) | paused, skipped and canceled scopes, active contexts, wake channel | Pause, Resume, Skip, Cancel | a request at any moment of any check; lost wake-ups; scope precision |
| Check policy (`harness/runtime.go`, `execute.go`) | counters, deadlines | normalizePolicy, checkAttempted | overflow, budgets, deadlines that fall on samples |
| JSONL sink (`harness/jsonl.go`) | queue, admission and room tokens, writer goroutine | Emit, Close | callers that give up, failed writes, Close against Emit |
| Plan compiler and selection (`harness/compile.go`, `select.go`, `estimate.go`, ...) | none | build, compile, bind, select, cost | prefixes and clashes of selectors, closure under prerequisites, arithmetic limits |
| Matchers and metrics (`harness/wifi`, `ip`, `mlo`, `scan`, `metrics.go`, ...) | none | expect, evaluate | absent and unknown fields, spellings, several readers of one string |
| Watch configuration (`watch/`) | none | parse, expand, validate, plan | defaults against target settings, variables that name one another |
| Watch state, TUI, workflow (`watchstate/`, `tui/`) | dashboard state, workflow phase, event channels | event reducers, keys, start, review, rerun | bounded channels, control requests from the goroutine that drains them |
| Command language and operations (`command/`, `linuxcli/`, `shell/`, `pipeline/`) | none | split, parse, suggest, build, validate | abbreviations, limits checked in two places, deadlines of two programs |
| Beacon elements and Wi-Fi report (`render/render_wifi_mlo.go`, decoders) | none | decode, report | truncated elements, unobserved values |
| adb, other rendering, process start | none of their own | I/O and formatting | - |

How they interact: the harness calls the runner, the runner calls
`Server.RunPinned` with a fresh random command ID, the server queues a frame on
the agent's stream, the agent's session client runs it on its worker and sends
one result or error frame. Operator requests reach the harness through `Controls`
from the UI goroutine; events leave it through sinks, one at a time, each with a
delivery timeout, and a failed delivery stops the run. On the handset, adb starts
`AgentService` with an intent; a new session supersedes the old one; the
handset's own shell shares `AgentCommandLock` with the session's worker.

What makes each modelled component correct:

* control server: a command's answer reaches the call that sent it, over the
  stream it was sent on; no call waits for an agent that is gone; a superseded
  stream disturbs nothing of its successor;
* session start: what an attempt set up is taken down again, exactly one way out
  leaves it up, and the agents that were waited for are the selected ones;
* agent service: at most one live session, the current one; cleanup of an old
  session spares the new one; the service goes away after its last session;
* agent session: a cancel reaches its command; nothing survives the session but
  what is about to be interrupted; a command is answered at most once;
* Wi-Fi commands: a connect that is pinned to an access point is not served by
  another; a cycle leaves no step without cleanup;
* agent screen: no result and no stretch of the log disappears silently; a link
  check that passes has seen one network throughout;
* harness: only the selected scope is interrupted; prerequisites gate what is
  sent; what was connected is disconnected and forgotten, whatever happens; the
  verdict never hides a problem; the run ends;
* policy: the loops keep to the budget that was checked; a pass is earned;
* JSONL sink: what is acknowledged is on disk, what is accepted is answered;
* workflow and dashboard: what is reviewed is the run that was made, what is
  shown is what was emitted, and no control blocks the loop that drains events;
* pure parts: two readers of one thing agree, absent evidence gives no verdict,
  a limit that is checked early is not stricter than the one checked late, and
  no number changes on its way.

## 2. Modules

| Module | Models | Used by |
|---|---|---|
| `ControlServer` | streams, registry, waiters, queues, Run, RunPinned, Cancel | `MCControlServer`, `MCController`, `ControlServerProofs` |
| `CallContract` | abstract: what `Run` promises its caller | refined by `ControlServer` (`KeepsContract`) |
| `SessionStart` | Start with retries, Close, WaitAgents and the ready channel | `MCController`, `ControllerProofs` |
| `AgentService` | the Android service | `MCDevice`, `AgentProofs`, run `service_widget_stop` |
| `AgentSession` | one controller session of the agent | `MCDevice`, `DeviceProofs`, run `session_reuse` |
| `WifiCommands` | connect, cycle, forget, disconnect, reconnect on a device that moves | `MCDevice`, `WifiCommandsProofs` |
| `AgentShell`, `AgentLogView`, `AgentLinkCheck` | shell actions and transcript; the log and its view; the link and lab profiles | `MCDevice`, `AgentProofs` |
| `HarnessPlan` | a plan laid out as one agent's agenda of a round | `MCHarnessRun` |
| `HarnessRun` | engine and controls | `MCHarnessRun`, `HarnessRunProofs` |
| `CheckPolicy` | normalizePolicy and checkAttempted in ticks | `MCController`, `ControllerProofs` |
| `JsonlWriter` | the JSONL sink | `MCControllerLive`, `JsonlWriterProofs`, run `jsonl_lost_wakeup` |
| `Workflow` | the interactive workflow: screens, run, event channel, controls, retention | `MCController`, `MCControllerLive`, `ControllerProofs`, run `workflow_review` |
| `WatchState`, `WatchSummaries` | the dashboard as a fold of events; what is derived from its histories | `MCController`, `MCInputs`; `WatchState` also `ControllerProofs` |
| `Commands`, `PlanCompiler`, `WatchConfig` | operations and deadlines; plans, compilation, cost, selection; configurations and the plans made of them | `MCPlans`, `MCInputs`; the first two also `ControllerProofs` |
| `CommandGrammar`, `ShellLine` | the command language; how a line is split and piped | `MCInputs` |
| `BeaconElements`, `WifiReport` | decoders of information elements; the report made of them | `MCInputs` |
| `Matchers`, `IpStatus`, `WifiNames`, `WifiEvidence`, `ProbeEvidence`, `YamlMetrics` | what an expectation makes of a report | `MCHarness`; all but the last also `HarnessRunProofs` |
| `MCControlServer` | IDs and bound of the server under fairness | `control` |
| `MCHarnessRun` | plans and requests | extended by `MCHarness`, `MCHarnessLive` |
| `MCPlans` | plans and configurations on bounded inputs | extended by `MCHarness` |
| `MCHarness` | two runs of the harness, and beside them the plans and the evidence on bounded inputs | `harness`, `interfaces` |
| `MCHarnessLive` | two runs of the harness under fairness | `harness_live` |
| `MCDevice` | the parts of the agent, each on its small instance | `device`, `session_reuse`, `DeviceProofs` |
| `MCController`, `MCInputs` | the parts of the controller; inputs of its pure parts | `controller`, `command_deadline`, `ControllerInstanceProofs` |
| `MCControllerLive` | sink and workflow under fairness | `controller_live` |
| `ControlServerProofs`, `HarnessRunProofs`, `JsonlWriterProofs`, `WifiCommandsProofs` | theorems about the module they are named after; in `HarnessRunProofs` also about the evidence modules | - |
| `AgentProofs`, `ControllerProofs` | theorems about the service and screens of the agent, and about policy, start, workflow, dashboard, commands and plans of the controller | - |
| `DeviceProofs`, `ControllerInstanceProofs` | theorems about the agent's session; how the checked properties of `MCDevice` and `MCController` follow | - |

Three conventions run through the modules.

* Definitions whose comment starts with "Fault:" are variants of the definition
  after them with a plausible bug. Nothing uses them; substituted for the
  original they make TLC report the property that `PROJECT.json` ("mutants")
  names, which shows that the property depends on that line of code.
* Components that share no state are checked in one instance. A variable
  (`part`, `topic`) says which of them a behaviour is about and never changes;
  the variables of the others rest. So nothing is claimed about their
  interleaving, and no state is the product of two of them.
* A pure part is given one input of a bounded family in the initial state and
  *judged* in the one step of the behaviour; what must hold of it is an action
  property of that step (`ReadersAgree`, `EvidenceHonest`, `PlanSound`,
  `CommandsAgree`, `ReportHonest`). The definitions these properties name
  (`FamiliesSplit`, `SelectionCloses`, ...) are in the component's module and
  compare two parts of the code with each other, or an algorithm with its
  definition; they do not restate one function.

### ControlServer

State: per stream its life (receive loop, sender goroutine, cleanup stages), its
send queue and the frames on the wire; the registry `conns`; `waiters`; per call
its stage in `run`, its response channel and what it returned. Steps are cut
where the code takes or releases `Server.mu` or blocks on a channel, so a stream
may be superseded between the registration of a waiter and the queueing of its
frame, and a cleanup may run at any later moment. Transport failure (`Break`) is
external and may strike any stream at any time. Timestamps, log events and the
status display are left out. `WaitAgents` is in `SessionStart`.

`CallContract` says what a caller may rely on: a call ends at most once, with an
answer that came over the stream it was bound to, a refusal, a transport error,
or its context's error. `KeepsContract` maps the detailed calls to it.

### SessionStart

One goroutine runs `Start`: listen, then per device reverse and start, then
`WaitAgents`, undone in reverse order by the deferred cleanup; a port collision
leads to another attempt. Agents register, announce themselves on `Server.ready`
(a send that is dropped when the channel is full) and disconnect at any moment.
`leaked` remembers rules whose removal adb reported as failed, which the code can
only log.

### AgentService

State: the intents Android has not delivered, the one on the main thread, the
current session, the stage of each session on the worker, and the flags the two
threads share. Session key and token are abstracted to the start ID of the
session's intent. `afterGrpcSessionFinished` is cut after the lock, because what
follows (`stopWifiEvents`, `stopForeground`, `stopSelf`) runs without it.

### AgentSession

Three threads: the one that runs `GrpcSessionClient.run`, the gRPC callback
thread, and the command worker. A task is one RUN_COMMAND frame; `active`,
`queue`, `cancelled` and the worker's interrupt flag are those of the code's
`ConcurrentHashMap`, executor, `FutureTask` and `Thread`. The model keeps the
order inside `startCommand` (registration before submission, the duplicate's
error frame) and of the shutdown (tasks cancelled, pool shut, stream closed). A
blocking operation under way is interruptible at any of its blocking points,
including the wait for `AgentCommandLock`. A command ID may be used again, also
after its cancel, and a cancel frame may come early, late and repeatedly: the
protocol does not rule it out, although this repository's runner draws a fresh
random ID for each command. Heartbeats are left out.

### WifiCommands

A command is a sequence of framework calls that may fail, and of polls; the
environment (`Associates`, `Drops`, ...) moves the link, the addresses and the
saved profiles between any two of them, within what Android does for a device
owner, and an interrupt may come before any call. A connect is cut at each call
that changes the device (`AddNetwork`, `EnableNetwork`, `Join`). `listed` says
whether the Android build shows its configured networks; where it hides them, the
conflicting profiles are taken as none and a forget of a network that is not
connected finds it "already absent" (`WifiConnector.kt:283-284`). `pin` is the access point a
connect is bound to, `dirty` what a cycle owes.

### AgentShell, AgentLogView, AgentLinkCheck

The shell's action runs on a thread of its own and its result is handed to the
screen that is attached; screens are destroyed and made again at any moment. A
log line reaches the screen directly, through the main looper, or by the
catch-up from the file; the file is bounded and so is the screen. A link check
reads the network several times while the device may roam.

### HarnessPlan and HarnessRun

`AgendaOf` turns a plan into the sequence of items an agent goes through:
capability preflight, rotations before the round, then per target: entry,
rotation, connect, wait, checks, cleanup, and at the end the rotations after the
round. `HarnessRun` takes the agenda as a constant; `AgendaAssumption` says what
is used of the layout, and TLC evaluates it for the agendas `AgendaOf` makes. Its
state is that of `execution` (round, report), of `Controls`, and per agent the
place in the agenda (`work`) and the check it is in (`check`): phases `wait` and
`woken` (about to ask `Controls.wait`), `paused`, `ready` (let pass by it), `op`,
`delay`, `end`. `dispatched` is a history variable: the operations begun in this
round.

A context is modelled by its cause: the step's own (skip or cancel) if it came
first, else the run's (operator, caller, failed delivery); `late` is the policy
timeout. The event of a step is part of the step, and its delivery may fail
where `Deliveries` is BOOLEAN. Between the return of `Controls.wait` (`Admit`) and
the operation (`Dispatch`) requests may come: the operation then begins in a
context that has ended, in which the runner sends nothing, but a connect counts
as attempted all the same and its cleanup is owed. So `SendsUnstopped` speaks of
operations that begin in a live context. Attempts
are modelled here, repeats and windows in `CheckPolicy`. The result of an
operation is any member of `Raw`, matchers included; what matchers make of a
report is the subject of the evidence modules.

### CheckPolicy

One check, time in ticks that pass in operations (0 to `MaxOp`) and sleeps.
`NormalizePolicy` keeps the width of the duration type: `Plus` wraps at
`MaxDuration`. A result that arrives at the tick of a deadline is late. The time
a check spends paused counts against its policy timeout in the code; pauses are
left to `HarnessRun`, so the statement about the default timeout is about checks
that are not paused.

### JsonlWriter

One call per member of `Emitters` and one of `Close`; admission token, room
token, queue and writer goroutine. Admission and enqueue are two steps, since
the writer runs without the token. Write and Sync are one step with the
acknowledgement.

### Workflow, WatchState, WatchSummaries

`Workflow` has the Bubble Tea goroutine (one message or key at a time), the run
goroutine, the goroutine that reads the event channel, and controls whose event
is sent from the UI goroutine itself. `WatchState` folds the events of a run,
which each agent emits in the engine's order (one agent in the run `controller`,
any number in the proofs), and compares what is shown with what was said: the
cells and aggregates of the check table, the current target, the counts of the
targets. `WatchSummaries` derives the failed and passing checks, hotspots, causes
and the histogram from the histories, and finds rows by a query; a text is a
sequence of words there, and a row is found by each of its own.

### Plans, commands and evidence

`Commands` has the typed builders, the validation before dispatch and the two
programs' deadlines; `PlanCompiler` extends it to checks and compiled plans with
binding, cost and selection, and has the shell's resolver of agent names, which
reads a name as characters since it compares them without case, blanks and
separators; `WatchConfig` extends that to YAML configurations.
`CommandGrammar` reads words, `ShellLine` characters. The evidence modules
translate every expectation of the `harness/*` packages over reports whose fields
may be missing or unknown.

## 3. Runs

Bounds are in the `.cfg` files; plans, requests and inputs in the MC modules.

| Run | Checks | What it shows | Bounds and why they are enough |
|---|---|---|---|
| `control` | KeepsContract, CallsReturn, StreamsRetire | two calls on one stream, or one call and two streams: `CallContract` refined, own answers included; under fairness a call returns when its transport or its context ends; superseded, closed and broken streams end, their sender goroutines too | a queue of one and an agent that may stop reading put the queue at its limit; two streams, so that one is superseded while the other lives; `LiveNext` keeps the second call and the second stream apart, whose interplay is the subject of `controller` |
| `service_widget_stop` | KeepsActiveSession (violated) | finding 1 | three start intents |
| `harness` | InterruptsSelected, BlockedOnlyWhilePaused, OutcomesCover, DispatchGated, CleanupExact; ReadersAgree, EvidenceHonest, PlanSound | two agents, any two requests on one agent, or pause and resume of the run; and one agent with every kind of step, an unsupported band and a read-only target: scope precision, no lost wake-up, what is sent and what is cleaned up; beside it plans, configurations and evidence | the second agent shows what must not be touched; one agent for the kinds of steps, since steps of different agents share only the report; two requests cover pause/resume, pause/cancel, skip/cancel; three agents for binding, of which one serial is a prefix of another; numbers around the width of the cost; reports of one or two networks, links and routes with every field absent, unknown or in two spellings |
| `harness_live` | VerdictRemembers, StopsWhenAsked, TeamRunEnds | retries, failing sinks, eviction, verdict; a stopped loop ends; a run of given rounds ends although a check may be paused for good | four rounds: eviction starts in the third, so two evictions happen; two agents at the round barrier |
| `jsonl_lost_wakeup` | EmitDelivers (violated) | finding 2 | three overlapping calls |
| `device` | Reachable, NoWorkLeft, NoSilentGap, ResultReachesScreen, LinkPassEarned, PinHolds, CycleCleansUp, CleanupSparesNewer, LastSessionStopsService | the agent | three start intents: old, new, and one more in any stage; three commands that share one ID, which is canceled at any time and again; three access points that differ in band and security; a log file of five lines for a screen of four; three screens |
| `controller_live` | DrainsInOrder, SuccessIsDurable, SinkReturns, NeverWedged | the sink's durability and order; Close returns, and so does Emit where calls do not overlap or nobody gives up; a control comes back to the UI loop | queue of one, three calls: one written, one queued, one waiting; event channel of one slot |
| `controller` | RegistryLive, WaitersOwned, NeverStranded, AnswersFromBoundStream; PassIsEarned, PolicyFits, StableWindowWatched; RulesReleased, NoMissedAgent; RetainedComplete; DashboardAgrees; CommandsAgree, ReportHonest | the controller | one agent, two streams, two calls that share a command ID give every order of supersession, cleanup and late answer; windows up to 3 ticks against intervals of 1 and 2 give every alignment; a duration type of 7 bits lets every overflow check be crossed in both directions; two devices and three ports; two plans and two runs of which one is retained; three rounds of two checks of one name; at the end of each round ReportHonest judges streaks, summaries and histories against the report |
| `workflow_review` | ReviewRetained (violated) | finding 3 | two agents, two controls |
| `session_reuse` | OneOwner (violated) | finding 4 | as `device` |
| `interfaces` | InterfacesAgree (violated) | finding 5 | as `harness` |
| `command_deadline` | DeadlineOutlastsAgent (violated) | finding 6 | as `controller` |

Deadlock checking is off where the system stops legitimately (a finished run, a
destroyed service, all calls returned, a judged input); there the liveness
properties show that it does not stop early.

### Fairness

Weak fairness on the steps of goroutines and threads, which the Go and Java
schedulers give; on the end of an operation, because `ExecuteOperation` gives
each a timeout; on a policy's timeout, because `normalizePolicy` makes it
positive; on the writer's I/O in `JsonlWriter`; on the main thread and the worker
of `AgentService`, whose interrupted session ends because the gRPC wait and every
command are interruptible; on the UI loop's sends, the reader and the run
goroutine of `Workflow`. Strong fairness only on `RecvFail` of a broken stream
(the receive call returns the error even if a frame was ready each time it was
looked at) and, in `AgentSession`'s own specification, on the acquisition of
`AgentCommandLock`. Nothing is assumed of the operator, of the caller's context,
of Android's intents or of the transport, except where a property is about what
follows the end of the transport.

## 4. Proofs

Everything below is proved for every value of the constants, from the named
assumptions on them and nothing else; TLC evaluates each assumption on the runs'
values. A safety property is proved as an invariant that follows from an
inductive one, which has been found by strengthening: the clauses that were added
are the explanation of why the code is right.

| Module | Assumes | Proves |
|---|---|---|
| `ControlServerProofs` | `CallAssumption`, `SendCapAssumption`, `NoneAssumption` | RegistryLive, WaitersOwned, NeverStranded, AnswersFromBoundStream, AnswersOwnCommand, the refinement of `CallContract` (KeepsContract), WaitersKept, SupersededMute |
| `HarnessRunProofs` | `HarnessAssumption`, `AgendaAssumption` | InterruptsSelected, BlockedOnlyWhilePaused, DispatchGated, CleanupExact, OutcomesCover, VerdictRemembers |
| `JsonlWriterProofs` | `JsonlAssumption` | DrainsInOrder, SuccessIsDurable |
| `WifiCommandsProofs` | `WifiAssumption` (a hypothesis) | PinHolds, CycleCleansUp |
| `ControllerProofs`: `CheckPolicy` | `PolicyAssumption`, `InputsAssumption` | PassIsEarned, StableWindowWatched, PolicyFits |
| -: `SessionStart` | `StartAssumption` (a hypothesis, as the next two) | RulesReleased, NoMissedAgent, and two action properties stated in the theorems `StartsComplete` and `RetriesCollisions` |
| -: `Workflow` | `FlowAssumption` | RetainedComplete |
| -: `WatchState` | `BoardAssumption` | RoundAgrees, RoundSettled, CurrentIsAt, CellsCount (DashboardAgrees) |
| -: `Commands`, `PlanCompiler` | `WidthAssumption`, `IsRequest`, `IsPlan` (hypotheses) | WaitsOutlastAgent, NumbersSurvive of every built operation; BoundToTarget of every plan; ResolversAgree, NamesTheirAgent |
| `ControllerInstanceProofs` | `NamesAssumption` | RegistryLive, WaitersOwned, NeverStranded, AnswersFromBoundStream, RulesReleased, NoMissedAgent, RetainedComplete, DashboardAgrees of `MCController` |
| `HarnessRunProofs`: `ProbeEvidence`, `WifiEvidence`, `IpStatus` | the types of an answer, a report, a route (hypotheses) | FreshIsFresh, SupportDecides, BetweenSound, IpStatus!ReadersAgree |
| `AgentProofs`: `AgentService` | `MaxStarts \in Nat` (a hypothesis) | LiveSessionIsCurrent, CleanupSparesNewer |
| -: `AgentLinkCheck` | - | LinkPassEarned |
| -: `AgentShell` | `ShellAssumption` (a hypothesis) | ResultReachesScreen |
| -: `AgentLogView` | `LogAssumption` (a hypothesis) | NoSilentGap, ShownInOrder |
| `DeviceProofs` | `SessionAssumption` | Reachable, NoWorkLeft, FramesInOrder of `AgentSession`; all safety properties of `MCDevice` |

**ControlServer.** None of the invariants is inductive alone: that no call is
stranded rests on who may remove a waiter, which rests on the stages of a stream's
cleanup, which rests on the registry. `IInv` is their conjunction with
`StreamsConsistent` (what each stage of a stream says about its sender, queue and
registration) and `CallsConsistent` (what each stage of a call says about its
waiter and response channel). `Invariance` has one step per action and below it
one per conjunct that the action touches. The refinement needs one more invariant,
`RunFramesBound` (the run frame of a call is only ever in the queue of the stream
the call is bound to), and then goes action by action: each maps to a step of
`CallContract` or leaves its variables alone. `OwnAnswers` adds the assumption
that command IDs are not reused, which `runner.go` meets with random IDs.

**HarnessRun.** Six layers, each inductive relative to those before it: `TInv`
(types; no attempt beyond the last), `ControlInv` (an agent stands where its check
says; a check that goes on has no skip or cancel against it; a check blocks only
under a pause that covers it, which is the absence of lost wake-ups),
`PrerequisiteInv` (the gate of a target says what the steps before the agent's
place came to), `CleanupInv` (cleanup is owed exactly from the connect that was
sent until the target is left, and goes in order), `CoverInv` (outcomes nest) and
`VerdictInv` (an evicted problem is remembered by flag and outcome). The layout of
the agenda enters by `AgendaAssumption`, which follows from how `AgendaOf` builds
it; that is an induction over the plan, so TLC evaluates it for the plans of the
runs instead.

**CheckPolicy.** `IInv` counts one verdict for each repeat behind the current one
and keeps a report that is still a pass only if all of those are; `PolicyInv`
gives ranges to counters and deadlines; `LoopInv` says what an open window has
seen so far; `BudgetInv` bounds retained attempts by the attempts the samples
behind and ahead may take; `TimeInv` bounds the time spent by the share of the
computed timeout that repeats, samples and sleeps have used. The arithmetic of
`NormalizePolicy` is proved exact: no sum it accepts has wrapped.

**JsonlWriter.** `Pipeline` (each accepted request is in exactly one of queue,
writer and file), `File` (the file is a prefix of the order of acceptance),
`Admission` (who may close, and what Close has seen), `Told` (what each caller was
told, with the request's place).

**AgentSession.** `OnePlace` (a task is in one of queue, worker and nowhere),
`Registered` (a live task that is not cancelled is in `active` under its own ID,
or `Overtaken`: a cancelled command of its ID had begun and is over, so that its
`finally` may have removed the entry) and `Shut` (what is true from each stage of
the shutdown on). `Reachable` is `Registered` read at the session: it holds for
commands and cancels of any IDs, and its one exception is what `OneOwner`
(finding 4) fails by. `NoWorkLeft` is `Shut` at its end.
`FramesInOrder` needs that only the worker or the callback thread sends for a
task, never both.

**SessionStart.** `DownServesNobody` joins types and the fact that rules and
devices of an attempt only exist while the attempt or the session stands; over it
`RulesReleased` and `NoMissedAgent` are inductive. A start is complete although
`WaitAgents` only counts: the registered agents are a subset of the selected
devices of equal cardinality.

**AgentService.** `InOrder` (start IDs grow from the worker's queue through the
main thread to the inbox), `OneWorker`, and `LiveSessionIsCurrent`; that cleanup
spares newer starts then follows from the comparison of the last start ID.

**WifiCommands.** `PinInv`: from the scan on, the link, the saved profiles and the
pin of a connect agree (`LinkSaved`, `PinnedOnly`, and `NotYetClean` until
conflicting profiles are gone). `CycleInv`: a step is open (`StepOpen`) exactly
when cleanup is owed, and `Tally` counts the good ones.

**AgentLinkCheck, AgentShell, AgentLogView.** A link check passes only with all its
stages passed, and each stage that passes names the network of the first one. A
shell action's owner is busy with one action: it runs, or its result waits, or a
screen has it. A screen tells of a line if it shows it, if a later line was
appended by the main thread, or if all that stands below some mark is newer
(`Told`); this is kept for every line that left the looper, by the cut at the top
of the screen and by the catch-up from a file that has been cut itself.

**Workflow.** `OneToken`: per run either the reader waits at the channel or its one
message is on the way to the UI loop, never both, so the events of a run come in
its order. `OwnScreens`: what is on a screen, and in the review that is being made,
belongs to the run the screen is about, whichever message of an older run comes
late. `MaxRetained` must be positive: with zero the newest run itself is dropped.

**WatchState.** An agent's place says which checks of which targets are done, in
the middle of a target, and settled (done, and no finding owed). The report has
exactly one outcome for each check that is done in this round and none for the
others (`ReportedOnce`), and each settled one is shown (`ShowsReport`). When all
agents are at the end, everything is settled. That gives RoundAgrees. The rest of
DashboardAgrees needs `Whereabouts`: the status of a target follows from the place
of its agent (`Engaged`: the one the agent is in, and no other, is running), and
what a target shows of its steps was shown in this round (`TargetShown`). So at the
end of a round nothing is running or waiting (RoundSettled), before it the current
target is an agent's (CurrentIsAt), and a cell that is not pending counts an agent
(CellsCount), whatever the histories hold and however short they are.
`BoardAssumption` asks for a plan with distinct checks, which compilation enforces
by their identity (`harness/compile.go:157`), for targets that differ in their
position, and for a finite, non-empty set of agents.

**Commands and PlanCompiler.** These modules are operators without a state, so
their theorems range over inputs and not over behaviours. A request is anything
whose numbers are each given or left out (`IsRequest`), of any size, and `Built` is
what the 23 builders make of it: the theorem that a deadline outlasts the agent
exactly but for the operations of `MayOverrun` (`WaitsOutlast`) and that numbers
survive (`NumbersKept`) are about all of these, where the run tries a few numbers
at the edges. What the agent may take is the sum of the bounded waits of its
handler (`AgentTime`); that a sum is a bound and not a duration is why finding 6
says "may". `IsPlan` asks only for the fields
that the Go types have; `StaysOnTarget` then follows the one path on which a selector
is written. The run `harness` checks the same (in PlanSound) on concrete plans,
and `controller` the first two (in CommandsAgree).

`AgentsKeepTheirNames` is about the shell's resolver for any text and any finite set
of agents; how names are compared stays unexpanded, so it holds of any comparison
that finds equal texts equal.

**Evidence.** Four operators of the evidence modules are proved for every report.
`FreshAsAsked`: of the ways through `ExecuteOperation` only the one on which both
parts answered leaves no finding that denies the pass. `RouteReadersAgree`: a token
is a prefix, an address or a word of any kind, and a route is any non-empty list of
them. Both ways round: the typed reader's default route is one of the same family
for the YAML reader, and a default route of the YAML reader is one of the typed
reader, unless it is spelled "default" or has other bits set beside a prefix of
length 0; whatever route the gateway reader takes is a default route with that
gateway for both, with the same interface where "dev" names it or nothing follows
it. Finding 5 is about the routes on which something does.
`CapabilityDecided` and `RangeSound` go through the cases of `Support` and of the two
constraints of `Between`. The run `harness` checks the same in ReadersAgree and
EvidenceHonest on its inputs.

**Instances.** `MCDevice` and `MCController` put several parts side by side. That a
behaviour of the instance in which `part` names a component is a behaviour of that
component as it was proved is shown by one lemma each on Init, on a step and on the
property; the property of the instance then follows from the general theorem.

In `HarnessRun` (`OwnCause`, `Request`) and `WatchState` (`Worst`,
`CheckStatusTargetCell`, `RoundAgrees`) guards of a CASE overlapped, which the proofs
showed; they are IF chains now, in the order of the source's comparisons.

Every invariant that a run checks, and every action property on a behaviour, is
proved. Only model-checked, because the provers here cannot do it:

* liveness (fairness and ENABLED): CallsReturn, StreamsRetire, StopsWhenAsked,
  TeamRunEnds, SinkReturns, NeverWedged, LastSessionStopsService;
* what is computed by folds, filters and sorts of sequences, which the prover takes
  as opaque (`SelectSeq`, `FoldLeft`, `SortSeq`, `@@`) and which would need induction
  over data: StreakExact, SummariesAccount and HistoryAgrees of the dashboard (in
  ReportHonest); the metrics of YAML plans; selection and its closure, the cost and
  configurations (in PlanSound); parsing, suggestions, quoting and pipelines (in
  CommandsAgree); decoders and the Wi-Fi report (in ReportHonest). Of the properties
  ReadersAgree, EvidenceHonest, PlanSound and CommandsAgree, which judge bounded
  inputs, the parts in the table above are proved for all inputs and the others are
  not.

## 5. Findings

1. Removing the last clock widget stops the service under a controller session
   (`AgentService.kt:76`), which the class comment says it keeps.
2. A JSONL `Emit` may wait before an empty queue because the wake-up went to a
   call that gave up (`harness/jsonl.go:111`); the engine's lock around `Emit`
   keeps it out of reach there, which is one of the two cases of `SinkReturns`.
3. A control that is applied while the run ends sends its event to the channel
   that the run has closed (`harness/controls.go:146`, `tui/workflow.go:244-255`):
   the program panics instead of retaining the review.
4. "Only one task may own a command ID at a time"
   (`GrpcSessionClient.kt:149-150`), but the `finally` of a cancelled command
   removes whatever is registered under its ID (232): a command that used the ID
   after the cancel is out of reach, and a third one of the ID is admitted beside
   it. The runner of this repository draws a fresh ID for each command.
5. "Interface is the route interface name when Android reported one"
   (`harness/ip/ip.go:42`), but of a route without "dev" the last field is taken
   (841-847), which is the MTU in Android's `0.0.0.0/0 -> 192.0.2.1 wlan0 mtu 0`;
   `gateway.go:153-160` reads `wlan0` there.
6. The deadline of a command is "intentionally larger than the command's agent
   timeout" to give the agent time to report (`command/parser.go:165-167`), but the
   agent bounds several waits by that timeout: connect and read of HTTP and wget,
   lookups and the source address before a native probe. An HTTP check may take
   twice its timeout (by default 20 s against a deadline of 13 s).
   `Commands!MayOverrun` says which operations exceed the deadline, exactly.

Behaviours of the models worth knowing that contradict no explicit statement of
the repository, or contradict one only in one reading of it. Agent:

* The cleanup of an older session compares its key under `sessionLock` but stops
  the Wi-Fi event logger after the lock is released, and so may turn off the
  logger of a session that started in between (`AgentService.kt:207`).
* Where the Android build hides its configured networks, a forget of a network
  that is saved but not connected answers "already absent"
  (`WifiConnector.kt:283-284`).
* The sequence number of a heartbeat is never read (`GrpcSessionClient.kt:291`).

Harness:

* The rotation of an SSID per round runs in the scope of the first target that
  uses it. Skipping or canceling that target takes every other target of the SSID
  out of the round (`harness/execute.go:276`).
* A failed repeat leaves no trace in the outcome if a later repeat is skipped or
  canceled (`harness/execute.go:413`).
* A skip accepted between two rounds is cleared before it has any effect
  (`controls.go:216`).
* A request made while the sinks are being closed is delivered to a closed sink,
  which fails a run that had passed (`execute.go:147`).
* A pass that returns just before an operator's skip is recorded as a failure, not
  as a skip (`execute.go:415`).

Evidence:

* `TraceObservations` is "the shared presence/count rule for typed and YAML
  expectations" (`trace_observation.go:5`). With an observation error it withholds
  the arrival of a traceroute from YAML expectations; the typed `trace.Reached`
  (`trace.go:50-61`) does not ask for it and judges the arrival. ProbeReadersAgree (in
  EvidenceHonest) states that this is the one difference, and that it occurs
  exactly with an observation error. The comment's "presence/count" can be read to
  leave the arrival out.
* A route that begins with the word "default" is a default route for YAML
  expectations and for the gateway check (`metrics.go`, `gateway.go`) but not for
  `ip.DefaultRoute` (`ip.go:207`). The agent in this repository prints prefixes.

Watch configuration:

* `type: " ping "` and a blank `host` let an active observation go to the built-in
  public destination, although `README.md:338-339` says that missing destinations
  are rejected (`GoesWhereTold` is judged of `Tidy` configurations for this
  reason); a blank `url` expects the 200 of another page from `generate_204`.
* A duration may be negative as a text ("-5s") where the integer form refuses it.
* Defaults with a passphrase or a requirement make every `observe: true` target
  refused; a default passphrase with a target's `passphrase_env` is refused as
  "both".

Command language:

* A line or stage that ends in an escaped blank is cut by the trim after the
  split and then refused for its lone backslash.
* `match ... | except ...` after nothing matched gives one empty line, and
  `count` counts the blank lines inside a text.
* `--` ends the host options and with them the check for `--all` and `--target`.
* Suggestions leave out "detail"; what `ParseTokens` reports for a line with two
  bad values depends on the order of a Go map.

Decoders and report:

* A truncated entry of a reduced neighbor report is read again at another length
  (`render_wifi_mlo.go:377-422`); a Multi-Link element of two bytes is not marked
  as truncated.
* A link that the report's filter hides counts as missing from the scan; access
  points whose MLD address is all zeros count as one device; readiness is
  "supported" where two capability reports conflict.

## 6. Plan

Done in the order planned: what carries commands (control server, agent session,
service), what uses it (harness, policy, sink, session start, Wi-Fi commands),
presentation state (workflow, dashboard, agent screen), and the pure parts; then
the proofs of the stateful components from the harness outwards.

Left: heartbeats and their indicator in `AgentSession`; `NativeProbe` and
`ShellActionOwner`'s cancel of a child process; agent connection states in
`WatchState`; an end-to-end composition of `ControlServer` and `AgentSession`.
Proofs: the other evidence of `WifiEvidence` and `YamlMetrics` whose statement needs
no induction.

## 7. Not modelled

| Part | Why |
|---|---|
| operation runner | one `RunPinned` call with a fresh command ID; its behaviour is that of `ControlServer`'s calls |
| agent network checks | probes are I/O on Android networks; their time limits are part of `Commands` |
| agent network repository and Wi-Fi events | mirrors of Android callbacks; the collection of fields is I/O |
| agent widgets, renderers, decoders, loggers | the widgets' intents reach `AgentService`; the rest is formatting, and the controller has the same decoders |
| application commands and event pipe | flags and output are I/O; the pipe's bounded channel is like that of `Workflow` |
| adb access and diagnosis | calls of the adb binary and advice text |
| protocol definition | messages; their use is modelled where frames are sent and received |
| of the harness engine | events, findings, redaction and snapshots are abstracted to the fact of their delivery; the gateway check counts as one operation |
| of the agent session | heartbeats and their timeout indicator |
| of the Wi-Fi commands | monitor, scans, the MAC randomisation setting |
| of the agent screen | layout, completion, input handling |
| of the dashboard and the workflow | agent connection states, the log buffer, drawing and scrolling |
| of rendering | every table but the Wi-Fi report |
| of the shell | help, line editing, process start |
