------------------------------ MODULE Workflow ------------------------------
(***************************************************************************)
(* The interactive workflow of `dropcheck tui` (tui/workflow.go): the      *)
(* Bubble Tea goroutine that owns the model and handles one message or key *)
(* at a time, the run goroutine that executes the selected plan and feeds  *)
(* the bounded event channel through workflowSink, the command goroutine   *)
(* that reads that channel, and the operator's controls, whose event is    *)
(* sent on the UI goroutine itself, outside the controls' lock.            *)
(*                                                                         *)
(* A plan is the number of the load that compiled it, an event only its    *)
(* kind and agent. What an agent does between two operation boundaries is  *)
(* HarnessRun's subject; here it emits events and honours pause and stop.  *)
(***************************************************************************)
EXTENDS Naturals, Sequences, FiniteSets

CONSTANTS
    Agents,        \* the agents of the selected plan
    Capacity,      \* slots of the event channel (128)
    MaxRetained,   \* whole-run reports kept for review (maxRetainedRuns, 8)
    MaxPlans,      \* bound: plans loaded
    MaxRuns,       \* bound: runs started
    MaxSteps,      \* bound: step events of one agent in one run
    MaxControls    \* bound: control requests

VARIABLES
    phase, loading, compiled, source, selected, rerunReview, \* the model
    active,        \* the number of the run the model follows, 0 for nil
    shown,         \* events the live dashboard has applied
    pauseAcks, globalControl,
    runs, review,  \* retained runs, oldest first, and the one on screen
    ui,            \* what the UI goroutine is doing
    reader,        \* the run a waitWorkflow command is blocked on, or 0
    message,       \* the messages handed to the UI goroutine
    run,           \* the run goroutine and its channels
    paused,        \* scopes paused: "run" or an agent
    eventMu,       \* the emission that holds the execution's event lock
    waiting,       \* emissions waiting for it
    loads, started, controls  \* counters for the bounds

model == <<phase, loading, compiled, source, selected, rerunReview, active,
           shown, pauseAcks, globalControl, runs, review>>
feed == <<reader, message>>
work == <<run, paused, eventMu, waiting>>
bounds == <<loads, started, controls>>
vars == <<model, ui, feed, work, bounds>>

None == [who |-> "none", event |-> "none"]

\* harness.Execute is "running", is "ending" with its last event, has
\* "returned", or the goroutine has published the result and is "done".
Idle == [state |-> "none", id |-> 0, plan |-> 0, stopped |-> FALSE,
         events |-> <<>>, sent |-> 0, parked |-> {}, ended |-> {},
         steps |-> [a \in Agents |-> 0]]

Init ==
    /\ phase = "load" /\ loading = FALSE
    /\ compiled = 0 /\ source = 0 /\ selected = 0 /\ rerunReview = FALSE
    /\ active = 0 /\ shown = 0 /\ pauseAcks = {} /\ globalControl = "running"
    /\ runs = <<>> /\ review = 0
    /\ ui = "loop" /\ reader = 0 /\ message = <<>>
    /\ run = Idle /\ paused = {} /\ eventMu = None /\ waiting = {}
    /\ loads = 0 /\ started = 0 /\ controls = 0

Bound == run.state \in {"running", "ending"}
Working(a) == run.state = "running" /\ a \notin run.ended
Closed == run.state = "done"
PausedFor(a) == paused \cap {"run", a} # {}
-----------------------------------------------------------------------------
(* The screens before a run.                                               *)

\* Enter on a path; the loader runs as a command, keys are ignored meanwhile.
LoadEnter ==
    /\ ui = "loop" /\ phase = "load" /\ ~loading /\ loads < MaxPlans
    /\ loading' = TRUE /\ loads' = loads + 1
    /\ UNCHANGED <<phase, compiled, source, selected, rerunReview, active,
                   shown, pauseAcks, globalControl, runs, review, ui, feed,
                   work, started, controls>>

SetCompiled(plan) ==
    /\ compiled' = plan /\ source' = plan /\ selected' = 0
    /\ rerunReview' = FALSE /\ phase' = "select"
    /\ UNCHANGED <<active, shown, pauseAcks, globalControl, runs, review>>

\* The loader's message: a compiled plan, or an error shown on the screen.
Loaded ==
    /\ ui = "loop" /\ loading
    /\ loading' = FALSE
    /\ \/ SetCompiled(loads)
       \/ UNCHANGED <<phase, compiled, source, selected, rerunReview, active,
                      shown, pauseAcks, globalControl, runs, review>>
    /\ UNCHANGED <<ui, feed, work, bounds>>

LoadEsc ==
    /\ ui = "loop" /\ phase = "load" /\ ~loading /\ runs # <<>>
    /\ phase' = "review"
    /\ UNCHANGED <<loading, compiled, source, selected, rerunReview, active,
                   shown, pauseAcks, globalControl, runs, review, ui, feed,
                   work, bounds>>

\* Preflight selects from the compiled plan; one that fails only leaves a
\* message and is a stutter.
SelectEnter ==
    /\ ui = "loop" /\ phase = "select"
    /\ selected' = compiled /\ phase' = "preview"
    /\ UNCHANGED <<loading, compiled, source, rerunReview, active, shown,
                   pauseAcks, globalControl, runs, review, ui, feed, work,
                   bounds>>

PreviewEsc ==
    /\ ui = "loop" /\ phase = "preview"
    /\ phase' = IF rerunReview THEN "review" ELSE "select"
    /\ rerunReview' = FALSE
    /\ UNCHANGED <<loading, compiled, source, selected, active, shown,
                   pauseAcks, globalControl, runs, review, ui, feed, work,
                   bounds>>

\* start: preflight again, fresh channels and controls, the run goroutine and
\* the first reader.
PreviewEnter ==
    /\ ui = "loop" /\ phase = "preview" /\ started < MaxRuns
    /\ started' = started + 1 /\ active' = started + 1
    /\ selected' = compiled /\ rerunReview' = FALSE
    /\ phase' = "running" /\ shown' = 0 /\ pauseAcks' = {}
    /\ globalControl' = "running"
    /\ run' = [Idle EXCEPT !.state = "running", !.id = started + 1,
                           !.plan = compiled]
    /\ paused' = {} /\ eventMu' = None /\ waiting' = {}
    /\ reader' = started + 1
    /\ UNCHANGED <<loading, compiled, source, runs, review, ui, message,
                   loads, controls>>
-----------------------------------------------------------------------------
(* The run goroutine and its agents.                                       *)

Emission(who, event) == [who |-> who, event |-> event]
Emitting(who) == \E e \in waiting \cup {eventMu} : e.who = who
Want(who, event) ==
    /\ ~Emitting(who)
    /\ waiting' = waiting \cup {Emission(who, event)}
    /\ UNCHANGED <<model, ui, feed, paused, eventMu, bounds>>

AgentStep(a) ==
    /\ Working(a) /\ ~run.stopped /\ a \notin run.parked
    /\ ~PausedFor(a) /\ run.steps[a] < MaxSteps
    /\ run' = [run EXCEPT !.steps[a] = @ + 1]
    /\ Want(a, "step")

\* Controls.wait at an operation boundary: one acknowledgement per park.
AgentPark(a) ==
    /\ Working(a) /\ ~run.stopped /\ a \notin run.parked
    /\ PausedFor(a)
    /\ run' = [run EXCEPT !.parked = @ \cup {a}]
    /\ Want(a, "paused")

AgentResume(a) ==
    /\ Working(a) /\ ~run.stopped /\ a \in run.parked /\ ~PausedFor(a)
    /\ run' = [run EXCEPT !.parked = @ \ {a}]
    /\ Want(a, "running")

\* The agent's rounds are over, or the stopped context lets it out.
AgentEnd(a) ==
    /\ Working(a) /\ ~Emitting(a)
    /\ run.stopped \/ a \notin run.parked
    /\ run' = [run EXCEPT !.ended = @ \cup {a}, !.parked = @ \ {a}]
    /\ UNCHANGED <<model, ui, feed, paused, eventMu, waiting, bounds>>

\* The last event of the run, and the return that unbinds the controls.
RunFinished ==
    /\ run.state = "running" /\ run.ended = Agents
    /\ run' = [run EXCEPT !.state = "ending"]
    /\ Want("main", "finished")

ExecuteReturns ==
    /\ run.state = "ending" /\ ~Emitting("main")
    /\ run' = [run EXCEPT !.state = "returned", !.parked = {}, !.ended = {},
                          !.steps = Idle.steps]
    /\ UNCHANGED <<model, ui, feed, paused, eventMu, waiting, bounds>>

\* run.result <- ..., close(run.events), cancel, close(run.done).
Publish ==
    /\ run.state = "returned"
    /\ run' = [run EXCEPT !.state = "done"]
    /\ UNCHANGED <<model, ui, feed, paused, eventMu, waiting, bounds>>
-----------------------------------------------------------------------------
(* execution.emit: one emission at a time, to workflowSink.                *)

Lock ==
    /\ eventMu = None
    /\ \E e \in waiting : eventMu' = e /\ waiting' = waiting \ {e}
    /\ UNCHANGED <<model, ui, feed, run, paused, bounds>>

\* The emitter goes on; a control request returns to the UI loop.
Unlock ==
    /\ eventMu' = None
    /\ ui' = IF eventMu.who = "ui" THEN "loop" ELSE ui
    /\ UNCHANGED <<model, feed, paused, waiting, bounds>>

Deliver ==
    /\ eventMu # None /\ ~Closed /\ Len(run.events) < Capacity
    /\ run' = [run EXCEPT !.events = Append(@, eventMu), !.sent = @ + 1]
    /\ Unlock

\* Fault: a delivery without deadline that only the exit of the UI abandons.
DeliveryWaits ==
    /\ eventMu # None /\ ui = "exiting"
    /\ run' = [run EXCEPT !.stopped = TRUE]
    /\ Unlock

\* The delivery deadline of a full channel, or the UI's feed context: the
\* failure is a problem of the report and stops the run.
DeliveryFails ==
    /\ eventMu # None
    /\ ui = "exiting" \/ (~Closed /\ Len(run.events) = Capacity)
    /\ run' = [run EXCEPT !.stopped = TRUE]
    /\ Unlock

\* A send on the closed channel panics.
SendOnClosed ==
    /\ eventMu # None /\ Closed
    /\ ui' = "crashed" /\ eventMu' = None
    /\ UNCHANGED <<model, feed, run, paused, waiting, bounds>>
-----------------------------------------------------------------------------
(* waitWorkflow, a command goroutine: the events, then the result.         *)

\* Fault: the result is selected as soon as it is there, events or not.
ReadResultFirst ==
    /\ reader # 0 /\ reader = run.id
    /\ \/ /\ run.events # <<>>
          /\ message' = Append(message, [run |-> reader, event |-> Head(run.events)])
          /\ run' = [run EXCEPT !.events = Tail(@)]
       \/ /\ Closed
          /\ message' = Append(message, [run |-> reader, event |-> None])
          /\ UNCHANGED run
    /\ reader' = 0
    /\ UNCHANGED <<model, ui, paused, eventMu, waiting, bounds>>

Read ==
    /\ reader # 0 /\ reader = run.id
    /\ \/ /\ run.events # <<>>
          /\ message' = Append(message, [run |-> reader, event |-> Head(run.events)])
          /\ run' = [run EXCEPT !.events = Tail(@)]
       \/ /\ Closed /\ run.events = <<>>
          /\ message' = Append(message, [run |-> reader, event |-> None])
          /\ UNCHANGED run
    /\ reader' = 0
    /\ UNCHANGED <<model, ui, paused, eventMu, waiting, bounds>>

\* The operator-facing pause state after one event.
AcksAfter(e) ==
    CASE e.event = "pause" -> {}
      [] e.event = "paused" -> pauseAcks \cup {e.who}
      [] e.event = "running" -> pauseAcks \ {e.who}
      [] OTHER -> pauseAcks

\* Fault: the first acknowledgement is taken for all of them.
GlobalAfterFirst(e) ==
    CASE e.event = "pause" -> "pausing"
      [] e.event = "paused" /\ "run" \in paused -> "paused"
      [] OTHER -> globalControl

GlobalAfter(e) ==
    CASE e.event = "pause" -> "pausing"
      [] e.event = "resume" -> "resume requested"
      [] e.event = "skip" -> "skip requested"
      [] e.event \in {"paused", "running"} ->
           IF "run" \in paused /\ AcksAfter(e) = Agents THEN "paused"
           ELSE IF "run" \notin paused /\ AcksAfter(e) = {} THEN "running"
           ELSE globalControl
      [] OTHER -> globalControl

\* Update of a workflowEvent: a message of another run is dropped.
ApplyEvent ==
    LET msg == Head(message) IN
    /\ ui = "loop" /\ message # <<>> /\ msg.event # None
    /\ message' = Tail(message)
    /\ IF msg.run # active
       THEN UNCHANGED <<shown, pauseAcks, globalControl, reader>>
       ELSE /\ shown' = shown + 1
            /\ pauseAcks' = AcksAfter(msg.event)
            /\ globalControl' = GlobalAfter(msg.event)
            /\ reader' = active
    /\ UNCHANGED <<phase, loading, compiled, source, selected, rerunReview,
                   active, runs, review, ui, work, bounds>>

\* The report, the plan and the dashboard of a finished run, the oldest
\* evicted; .sent and .planned are history, for the properties. The channels
\* and controls of the run are garbage from here on.
Retained(entry) ==
    LET all == Append(runs, entry)
    IN IF Len(all) > MaxRetained THEN Tail(all) ELSE all

ApplyFinished ==
    LET msg == Head(message) IN
    /\ ui = "loop" /\ message # <<>> /\ msg.event = None
    /\ message' = Tail(message)
    /\ IF msg.run # active
       THEN UNCHANGED <<runs, review, phase, active, run, paused>>
       ELSE /\ runs' = Retained([plan |-> selected, shown |-> shown,
                                 planned |-> run.plan, sent |-> run.sent])
            /\ review' = Len(runs') /\ phase' = "review" /\ active' = 0
            /\ run' = Idle /\ paused' = {}
    /\ UNCHANGED <<loading, compiled, source, selected, rerunReview, shown,
                   pauseAcks, globalControl, ui, reader, eventMu, waiting,
                   bounds>>
-----------------------------------------------------------------------------
(* Keys while a run is active, and in review.                              *)

\* control: the request changes the controls under their lock, then sends its
\* event with the lock released; a run that returned refuses it.
Control(event, scope) ==
    /\ ui = "loop" /\ active # 0 /\ Bound /\ controls < MaxControls
    /\ event \in {"pause", "resume"} =>
          /\ scope # "run" => "run" \notin paused
          /\ event = "resume" <=> scope \in paused
    /\ paused' = CASE event = "pause" -> paused \cup {scope}
                   [] event = "resume" -> paused \ {scope}
                   [] OTHER -> paused
    /\ waiting' = waiting \cup {Emission("ui", IF scope = "run" THEN event ELSE "scoped")}
    /\ ui' = "control" /\ controls' = controls + 1
    /\ UNCHANGED <<model, feed, run, eventMu, loads, started>>

\* q or Ctrl-C: stop and wait for the review while a run is active.
StopKey ==
    /\ ui = "loop" /\ active # 0
    /\ run' = [run EXCEPT !.stopped = TRUE] /\ phase' = "stopping"
    /\ UNCHANGED <<loading, compiled, source, selected, rerunReview, active,
                   shown, pauseAcks, globalControl, runs, review, ui, feed,
                   paused, eventMu, waiting, bounds>>

ReviewEdit ==
    /\ ui = "loop" /\ phase = "review" /\ SetCompiled(source)
    /\ UNCHANGED <<loading, ui, feed, work, bounds>>

ReviewOpen ==
    /\ ui = "loop" /\ phase = "review" /\ phase' = "load" /\ loading' = FALSE
    /\ UNCHANGED <<compiled, source, selected, rerunReview, active, shown,
                   pauseAcks, globalControl, runs, review, ui, feed, work,
                   bounds>>

ReviewMove ==
    /\ ui = "loop" /\ phase = "review" /\ review' \in 1..Len(runs)
    /\ UNCHANGED <<phase, loading, compiled, source, selected, rerunReview,
                   active, shown, pauseAcks, globalControl, runs, ui, feed,
                   work, bounds>>

\* prepareRerun from the plan the reviewed run was compiled with.
ReviewRerun ==
    /\ ui = "loop" /\ phase = "review"
    /\ compiled' = runs[review].plan /\ selected' = runs[review].plan
    /\ rerunReview' = TRUE /\ phase' = "preview"
    /\ UNCHANGED <<loading, source, active, shown, pauseAcks, globalControl,
                   runs, review, ui, feed, work, bounds>>

\* The program ends: the operator quits with no run active, or its context
\* is cancelled. The deferred stop cancels the feed and the run.
Exit ==
    /\ ui = "loop"
    /\ ui' = "exiting" /\ run' = [run EXCEPT !.stopped = TRUE]
    /\ UNCHANGED <<model, feed, paused, eventMu, waiting, bounds>>

\* workflowLifetime.stop has waited for the run goroutine.
Return ==
    /\ ui = "exiting" /\ run.state \in {"none", "done"}
    /\ ui' = "returned"
    /\ UNCHANGED <<model, feed, work, bounds>>

Screens ==
    \/ LoadEnter \/ Loaded \/ LoadEsc \/ SelectEnter \/ PreviewEsc
    \/ PreviewEnter \/ ReviewEdit \/ ReviewOpen \/ ReviewMove \/ ReviewRerun
Running ==
    \/ \E a \in Agents : AgentStep(a) \/ AgentPark(a) \/ AgentResume(a) \/ AgentEnd(a)
    \/ RunFinished \/ ExecuteReturns \/ Publish
Feeding ==
    \/ Lock \/ Deliver \/ DeliveryFails \/ SendOnClosed \/ Read
    \/ ApplyEvent \/ ApplyFinished
Keys ==
    \/ \E event \in {"pause", "resume", "skip"}, scope \in {"run"} \cup Agents :
          Control(event, scope)
    \/ StopKey
Next == Screens \/ Running \/ Feeding \/ Keys \/ Exit \/ Return

\* Goroutines, the delivery deadline and the message loop make progress; the
\* operator, who presses keys, and the loader need not. A run that was stopped
\* ends its agents (HarnessRun shows that it does).
Fairness ==
    /\ WF_vars(Feeding) /\ WF_vars(RunFinished \/ ExecuteReturns \/ Publish)
    /\ WF_vars(Return)
    /\ \A a \in Agents : WF_vars(run.stopped /\ AgentEnd(a))
Spec == Init /\ [][Next]_vars /\ Fairness
-----------------------------------------------------------------------------
\* Every run kept for review shows the plan it executed and a dashboard that
\* applied every event the run delivered, the last ones included: the reader
\* drains the closed channel before it takes the result, and no load or rerun
\* replaces the selection of a run that is still active.
RetainedComplete ==
    \A i \in 1..Len(runs) :
        runs[i].shown = runs[i].sent /\ runs[i].plan = runs[i].planned

\* Once every event is applied, a screen that says "paused" is right: the run
\* is paused and every agent waits at an operation boundary, however pauses,
\* resumes and late acknowledgements interleaved.
PausedIsTrue ==
    /\ active # 0 /\ Bound /\ ~run.stopped /\ globalControl = "paused"
    /\ ui = "loop" /\ message = <<>> /\ run.events = <<>>
    /\ waiting = {} /\ eventMu = None
    => "run" \in paused /\ run.parked = Agents

\* A control request comes back to the UI loop although the loop is itself the
\* consumer of the channel the request sends to, and RunWorkflow returns after
\* the program ended: no producer waits for a consumer that is gone.
NeverWedged ==
    /\ (ui = "control") ~> (ui # "control")
    /\ (ui = "exiting") ~> (ui = "returned")

\* README, Controller TUI: finite completion and a requested stop retain the
\* review. A control sent while the run returns must not end the program.
ReviewRetained == ui # "crashed"
=============================================================================
