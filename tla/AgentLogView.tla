---------------------------- MODULE AgentLogView ----------------------------
(***************************************************************************)
(* The terminal log of the Android agent and the screen that follows it.   *)
(* TerminalLog appends to a bounded file and calls its listeners under one *)
(* lock; MainActivity shows a tail of the file, follows it while it is     *)
(* started, and catches up from the file when it is started again.         *)
(*                                                                         *)
(* A log line is its number (lines carry a timestamp, so two of them are   *)
(* never equal); 0 stands for "[older stopped log lines omitted]".  A      *)
(* line logged by another thread reaches the screen through the main       *)
(* looper; runOnUiThread runs at once for a line that the main thread logs.*)
(***************************************************************************)
EXTENDS Naturals, Sequences, SequencesExt

CONSTANTS
    MaxLines,    \* lines logged in a behaviour
    MaxStarts,   \* onStart calls in a behaviour
    FileLines,   \* MAX_BYTES of terminal.log, in lines
    KeepLines,   \* KEEP_BYTES of terminal.log, in lines
    TailLines,   \* STARTUP_TAIL_LINES
    DisplayLines \* MAX_DISPLAY_LINES

VARIABLES
    logged,      \* number of lines logged so far
    direct,      \* lines the main thread logged while it followed the log
    file,        \* terminal.log
    listening,   \* generation of the registered listener, 0 for none
    looper,      \* lines posted to the main looper: <<generation, line>>
    phase,       \* lifecycle of the activity
    generation,  \* logGeneration
    lastLogLine, \* lastLogLine, 0 for null
    view         \* lines on the screen

vars == <<logged, direct, file, listening, looper, phase, generation,
          lastLogLine, view>>

Omitted == 0
Null == 0
TakeLast(s, k) == SubSeq(s, IF Len(s) > k THEN Len(s) - k + 1 ELSE 1, Len(s))

Init ==
    /\ logged = 0
    /\ direct = {}
    /\ file = <<>>
    /\ listening = Null
    /\ looper = <<>>
    /\ phase = "none"
    /\ generation = 0
    /\ lastLogLine = Null
    /\ view = <<>>

-----------------------------------------------------------------------------
(* TerminalLog *)

TailOf(f) == TakeLast(f, TailLines)

CompactIfNeeded(f) == IF Len(f) >= FileLines THEN TakeLast(f, KeepLines) ELSE f

Appended(f, line) == Append(CompactIfNeeded(f), line)

-----------------------------------------------------------------------------
(* The log part of MainActivity *)

TrimDisplay(lines) == TakeLast(lines, DisplayLines)

\* appendLogLine, for each line of a sequence.
AppendLogLines(lines) ==
    /\ view' = TrimDisplay(view \o lines)
    /\ lastLogLine' = IF lines = <<>> THEN lastLogLine ELSE lines[Len(lines)]

\* Fault: catching up does not say that older lines are missing.
CatchUpKeepsMarker(last, snapshot) ==
    LET marker == SelectLastInSeq(snapshot, LAMBDA l : l = last)
    IN  IF last = Null \/ snapshot = <<>> THEN <<>>
        ELSE SubSeq(snapshot, marker + 1, Len(snapshot))

\* terminalCatchUp(last, snapshot).
TerminalCatchUp(last, snapshot) ==
    LET marker == SelectLastInSeq(snapshot, LAMBDA l : l = last)
    IN  IF last = Null \/ snapshot = <<>> THEN <<>>
        ELSE (IF marker = 0 THEN <<Omitted>> ELSE <<>>)
             \o SubSeq(snapshot, marker + 1, Len(snapshot))

\* Another thread logs a line: the listener posts it to the main looper.
LogInBackground ==
    /\ logged < MaxLines
    /\ logged' = logged + 1
    /\ file' = Appended(file, logged + 1)
    /\ looper' = IF listening = Null THEN looper
                 ELSE Append(looper, <<listening, logged + 1>>)
    /\ UNCHANGED <<direct, listening, phase, generation, lastLogLine, view>>

\* The main thread logs a line: the listener appends it at once.
LogOnMain ==
    /\ logged < MaxLines
    /\ logged' = logged + 1
    /\ file' = Appended(file, logged + 1)
    /\ IF listening # Null
       THEN /\ AppendLogLines(<<logged + 1>>)
            /\ direct' = direct \cup {logged + 1}
       ELSE UNCHANGED <<lastLogLine, view, direct>>
    /\ UNCHANGED <<listening, looper, phase, generation>>

\* The main looper runs a posted line; one of an older generation is dropped.
RunPosted ==
    /\ looper # <<>>
    /\ looper' = SubSeq(looper, 2, Len(looper))
    /\ IF looper[1][1] = generation THEN AppendLogLines(<<looper[1][2]>>)
       ELSE UNCHANGED <<lastLogLine, view>>
    /\ UNCHANGED <<logged, direct, file, listening, phase, generation>>

\* onCreate compacts the file, logs a line and shows the tail it then reads.
OnCreate ==
    /\ phase = "none"
    /\ logged < MaxLines
    /\ logged' = logged + 1
    /\ file' = Appended(CompactIfNeeded(file), logged + 1)
    /\ view' = TrimDisplay(TailOf(file'))
    /\ lastLogLine' = logged + 1
    /\ phase' = "created"
    /\ UNCHANGED <<direct, listening, looper, generation>>

\* onStart subscribes with a tail in one step of TerminalLog and catches up.
OnStart ==
    /\ phase \in {"created", "stopped"}
    /\ generation < 2 * MaxStarts
    /\ generation' = generation + 1
    /\ listening' = generation + 1
    /\ AppendLogLines(TerminalCatchUp(lastLogLine, TailOf(file)))
    /\ phase' = "started"
    /\ UNCHANGED <<logged, direct, file, looper>>

\* Fault: onStop leaves the generation as it is, so posted lines still run.
OnStopSameGeneration ==
    /\ phase = "started"
    /\ listening' = Null
    /\ phase' = "stopped"
    /\ UNCHANGED <<logged, direct, file, looper, generation, lastLogLine, view>>

OnStop ==
    /\ phase = "started"
    /\ generation' = generation + 1
    /\ listening' = Null
    /\ phase' = "stopped"
    /\ UNCHANGED <<logged, direct, file, looper, lastLogLine, view>>

\* A stopped activity is destroyed; another instance starts from the file.
OnDestroy ==
    /\ phase = "stopped"
    /\ phase' = "none"
    /\ UNCHANGED <<logged, direct, file, listening, looper, generation,
                   lastLogLine, view>>

Next == \/ LogInBackground \/ LogOnMain \/ RunPosted
        \/ OnCreate \/ OnStart \/ OnStop \/ OnDestroy

Spec == Init /\ [][Next]_vars

-----------------------------------------------------------------------------
Shown == {view[i] : i \in 1..Len(view)}
Idle == phase = "started" /\ \A i \in 1..Len(looper) : looper[i][1] # generation

\* A started screen with nothing posted to it (MainActivity.onStart,
\* terminalCatchUp, append) shows every line of terminal.log that is newer
\* than the oldest line it shows, unless it says that lines were omitted or a
\* line the main thread appended directly overtook the missing one.
NoSilentGap ==
    Idle => \A l \in 1..logged :
              \/ l \in Shown
              \/ \A k \in Shown \ {Omitted} : l < k
              \/ Omitted \in Shown
              \/ \E k \in direct : k >= l

\* Lines of other threads are on the screen in the order of the file and once
\* each: posting, dropping by generation and catching up neither repeat nor
\* reorder them, whatever the main thread logs meanwhile (MainActivity.onStart,
\* onStop).
ShownInOrder ==
    \A i, j \in 1..Len(view) :
        (i < j /\ {view[i], view[j]} \cap (direct \cup {Omitted}) = {})
        => view[i] < view[j]
=============================================================================
