----------------------------- MODULE AgentShell -----------------------------
(***************************************************************************)
(* The shell of the agent's screen: ShellActionOwner runs one action at a  *)
(* time on a thread of its own and hands its result to the screen that is  *)
(* attached, MainActivity keeps a bounded transcript of results            *)
(* (AgentBlockHistory), and the values of a result too large for it are    *)
(* kept in a file (AgentSafeValueFile).  The owner and the transcript      *)
(* survive a configuration change and end with the activity otherwise.     *)
(*                                                                         *)
(* A block is its size and the file it refers to, 0 for none.              *)
(***************************************************************************)
EXTENDS Naturals, Sequences, SequencesExt, FiniteSetsExt

CONSTANTS
    MaxBlocks,   \* maxBlocks of AgentBlockHistory
    MaxChars,    \* maxChars of AgentBlockHistory
    Sizes,       \* sizes of results; one above MaxChars does not fit
    MaxActions,  \* actions started in a behaviour
    MaxScreens   \* onCreate calls in a behaviour

VARIABLES
    screen,      \* number of the attached activity, 0 while there is none
    screens,     \* onCreate calls so far
    retained,    \* a configuration change handed the owner over
    thread,      \* the action of the owner: "none", "runs", "interrupted"
    result,      \* result waiting for delivery: its size, 0 for none
    listener,    \* the activity whose listener is attached, 0 for none
    posted,      \* deliver() calls in the main looper
    started,     \* actions this owner accepted
    delivered,   \* results this owner handed over
    blocks,      \* the transcript
    disk,        \* safe-value files in the cache directory
    writes       \* files written so far: the name of the newest one

owner == <<thread, result, listener, posted, started, delivered>>
history == <<blocks, disk, writes>>
vars == <<screen, screens, retained, owner, history>>

NoFile == 0
None == 0

Init ==
    /\ screen = None /\ screens = 0 /\ retained = FALSE
    /\ thread = "none" /\ result = None /\ listener = None /\ posted = 0
    /\ started = 0 /\ delivered = 0
    /\ blocks = <<>> /\ disk = {} /\ writes = 0

-----------------------------------------------------------------------------
(* AgentBlockHistory and AgentSafeValueFile *)

Block(size, file) == [size |-> size, file |-> file]
Fits(size) == size <= MaxChars
Chars(seq) == FoldSeq(LAMBDA b, n : b.size + n, 0, seq)
Files(seq) == {seq[i].file : i \in 1..Len(seq)} \ {NoFile}

\* append: the oldest blocks go until both budgets hold.
Evicted(seq) ==
    LET within == {i \in 1..Len(seq) + 1 :
                     LET rest == SubSeq(seq, i, Len(seq))
                     IN  Len(rest) <= MaxBlocks /\ Chars(rest) <= MaxChars}
    IN  SubSeq(seq, Min(within), Len(seq))

\* Fault: evicting a block leaves its file behind.
AppendsLeaky(seq, dir, block) ==
    /\ blocks' = Evicted(Append(seq, block))
    /\ disk' = dir

\* Every file of a block that is evicted is deleted.
Appends(seq, dir, block) ==
    LET kept == Evicted(Append(seq, block))
    IN  /\ blocks' = kept
        /\ disk' = dir \ (Files(Append(seq, block)) \ Files(kept))

\* evictValueFileBlocks.
WithoutFiles(seq) == SelectSeq(seq, LAMBDA b : b.file = NoFile)

\* appendShellBlock: a result that does not fit is written to a file, whose
\* block replaces every earlier one with a file; a file over its quota, or a
\* failing disk, leaves a failure block instead.
AppendShellBlock(size) ==
    \/ /\ Fits(size)
       /\ Appends(blocks, disk, Block(size, NoFile))
       /\ UNCHANGED writes
    \/ /\ ~ Fits(size)
       /\ Appends(WithoutFiles(blocks), (disk \cup {writes + 1}) \ Files(blocks),
                  Block(1, writes + 1))
       /\ writes' = writes + 1
    \/ /\ ~ Fits(size)
       /\ Appends(blocks, disk, Block(1, NoFile))
       /\ UNCHANGED writes

-----------------------------------------------------------------------------
(* ShellActionOwner *)

Busy == thread # "none" \/ result # None

\* submitShellInput: the command line is echoed, then the action starts.
Start ==
    /\ screen # None /\ ~ Busy /\ started < MaxActions
    /\ thread' = "runs"
    /\ started' = started + 1
    /\ Appends(blocks, disk, Block(1, NoFile))
    /\ UNCHANGED <<screen, screens, retained, result, listener, posted,
                   delivered, writes>>

\* submitShellInput of help, version or a default passphrase: the command line
\* and its answer are appended, no action starts.
LocalCommand ==
    /\ screen # None /\ ~ Busy
    /\ \E size \in Sizes :
         /\ Fits(size)
         /\ LET echoed == Evicted(Append(blocks, Block(1, NoFile)))
            IN  Appends(echoed, disk \ (Files(blocks) \ Files(echoed)),
                        Block(size, NoFile))
    /\ UNCHANGED <<screen, screens, retained, owner, writes>>

\* The cancel button interrupts the thread; the action then ends.
Cancel ==
    /\ screen # None /\ thread = "runs"
    /\ thread' = "interrupted"
    /\ UNCHANGED <<screen, screens, retained, result, listener, posted,
                   started, delivered, history>>

\* The thread stores its result and posts a delivery.
Complete ==
    /\ thread # "none"
    /\ \E size \in Sizes : result' = size
    /\ thread' = "none"
    /\ posted' = posted + 1
    /\ UNCHANGED <<screen, screens, retained, listener, started, delivered,
                   history>>

\* The main looper runs deliver(): without a result or a listener it returns.
Deliver ==
    /\ posted > 0
    /\ posted' = posted - 1
    /\ \/ /\ result # None /\ listener # None
          /\ result' = None
          /\ delivered' = delivered + 1
          /\ AppendShellBlock(result)
       \/ /\ result = None \/ listener = None
          /\ UNCHANGED <<result, delivered, history>>
    /\ UNCHANGED <<screen, screens, retained, thread, listener, started>>

\* Fault: attaching does not ask for a delivery.
AttachSilently(act) == listener' = act /\ posted' = posted

\* attach: the listener is set, then a delivery is posted.
Attach(act) == listener' = act /\ posted' = posted + 1

-----------------------------------------------------------------------------
(* The activity *)

\* onCreate after a configuration change adopts the owner and the transcript.
OnCreateRetained ==
    /\ screen = None /\ retained /\ screens < MaxScreens
    /\ screen' = screens + 1 /\ screens' = screens + 1
    /\ retained' = FALSE
    /\ Attach(screens + 1)
    /\ UNCHANGED <<thread, result, started, delivered, history>>

\* onCreate of a new activity: files left behind are removed, and the owner
\* and the transcript are new.
OnCreateFresh ==
    /\ screen = None /\ ~ retained /\ screens < MaxScreens
    /\ screen' = screens + 1 /\ screens' = screens + 1
    /\ disk' = {} /\ blocks' = <<>>
    /\ thread' = "none" /\ result' = None /\ started' = 0 /\ delivered' = 0
    /\ listener' = screens + 1 /\ posted' = 1
    /\ UNCHANGED <<retained, writes>>

\* onDestroy for a configuration change only detaches.
OnDestroyChanging ==
    /\ screen # None
    /\ screen' = None /\ retained' = TRUE
    /\ listener' = None
    /\ UNCHANGED <<screens, thread, result, posted, started, delivered, history>>

\* onDestroy of a finishing activity also interrupts the action.
OnDestroyFinishing ==
    /\ screen # None
    /\ screen' = None /\ retained' = FALSE
    /\ listener' = None
    /\ thread' = IF thread = "none" THEN "none" ELSE "interrupted"
    /\ UNCHANGED <<screens, result, posted, started, delivered, history>>

Next == \/ Start \/ LocalCommand \/ Cancel \/ Complete \/ Deliver
        \/ OnCreateRetained \/ OnCreateFresh
        \/ OnDestroyChanging \/ OnDestroyFinishing

Spec == Init /\ [][Next]_vars

-----------------------------------------------------------------------------
\* No result is lost and the shell never stays busy: every action the owner
\* accepted is running, waits for delivery or was delivered once, across any
\* number of recreated screens, and a result that waits while a screen is
\* attached has a delivery on its way (ShellActionOwner.deliver and attach).
ResultReachesScreen ==
    /\ started = delivered + (IF thread = "none" THEN 0 ELSE 1)
                           + (IF result = None THEN 0 ELSE 1)
    /\ (result # None /\ listener # None) => posted > 0
    /\ screen # None => listener = screen

\* The transcript and the cache directory agree: a block that offers the full
\* values of a result has its file, and no file outlives its block while a
\* screen exists; there is at most one ("One current oversize result",
\* AgentSafeValueFile).
FilesOwned ==
    /\ Files(blocks) \subseteq disk
    /\ screen # None => disk = Files(blocks)
    /\ \A f, g \in disk : f = g
=============================================================================
