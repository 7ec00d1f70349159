------------------------------ MODULE Commands ------------------------------
(***************************************************************************)
(* Commands of the operating system and further applications (callback.cpp:  *)
(* Execute, CommandThread, NewApplication, ThreadSHELL).  The user interface *)
(* thread hands each to a thread of its own: a command by a second semp on   *)
(* execute_lock, an application by globals and a sleep of half a second.     *)
(***************************************************************************)
EXTENDS Semaphore, Sequences

CONSTANTS
  UI,         \* the user interface thread; the others are positive integers
  Slow,       \* whether a thread may take longer to start than that sleep
  MaxFrames   \* bound: frames handled, and so threads started

CommandsAssumption ==
  /\ MaxFrames \in Nat /\ Slow \in BOOLEAN
  /\ UI \notin 1..MaxFrames /\ Threads = {UI} \cup 1..MaxFrames

\* How many queued commands a frame removes: all, none, some, perhaps more than there are.
Deletes == {-1, 0, 1, 2}

VARIABLES
  ui,         \* the user interface thread: where it is in a handler
  n,          \* the number of the frame it handles
  command,    \* the string on the stack of Execute, 0 when there is none
  run_target, \* the global that NewApplication sets
  thread,     \* where each thread is
  runs,       \* what each thread runs: the frame whose string it read, 0 a dead one
  ShellList,  \* queued commands
  woken,      \* history: whether a semp returned without a signal
  late        \* history: threads that NewApplication did not wait for

vars == <<sem, ui, n, command, run_target, thread, runs, ShellList, woken, late>>

Init ==
  /\ SemInit
  /\ ui = "loop" /\ n = 0 /\ command = 0 /\ run_target = 0
  /\ thread = [t \in 1..MaxFrames |-> "none"] /\ runs = [t \in 1..MaxFrames |-> -1]
  /\ ShellList = <<>> /\ woken = FALSE /\ late = {}

-----------------------------------------------------------------------------
(* The user interface thread *)

Frame == ui = "loop" /\ n < MaxFrames /\ n' = n + 1

Starts(as) == thread' = [thread EXCEPT ![n] = as]

\* Execute: the lock is taken so that taking it again waits for the thread.
Execute ==
  /\ Frame /\ semp(UI)
  /\ command' = n + 1 /\ ui' = "create"
  /\ UNCHANGED <<run_target, thread, runs, ShellList, woken, late>>

CreateThread ==
  /\ ui = "create" /\ Runs(UI)
  /\ Starts("copy") /\ ui' = "handshake"
  /\ UNCHANGED <<sem, n, command, run_target, runs, ShellList, woken, late>>

\* Mutant: Execute does not wait.
NoHandshake ==
  /\ ui = "handshake" /\ ui' = "release"
  /\ UNCHANGED <<sem, n, command, run_target, thread, runs, ShellList, woken, late>>

Handshake ==
  /\ ui = "handshake" /\ semp(UI) /\ ui' = "release"
  /\ UNCHANGED <<n, command, run_target, thread, runs, ShellList, woken, late>>

\* The string is gone when Execute returns.
Release ==
  /\ ui = "release" /\ semv(UI)
  /\ ui' = "loop" /\ command' = 0
  /\ UNCHANGED <<n, run_target, thread, runs, ShellList, woken, late>>

\* NewApplication.
NewApplication ==
  /\ Frame /\ Runs(UI)
  /\ run_target' = n + 1
  /\ thread' = [thread EXCEPT ![n + 1] = "target"]
  /\ ui' = "sleep"
  /\ UNCHANGED <<sem, command, runs, ShellList, woken, late>>

\* Mutant: it does not sleep.
NoSleep ==
  /\ ui = "sleep" /\ ui' = "loop"
  /\ UNCHANGED <<sem, n, command, run_target, thread, runs, ShellList, woken, late>>

\* Half a second is over; most often the thread has read its target by then.
SleepEnds ==
  /\ ui = "sleep" /\ ui' = "loop"
  /\ thread[n] = "target" => Slow
  /\ late' = IF thread[n] = "target" THEN late \cup {n} ELSE late
  /\ UNCHANGED <<sem, n, command, run_target, thread, runs, ShellList, woken>>

\* Mutant: the command of the next frame.
QueueNext ==
  /\ Frame /\ Runs(UI)
  /\ ShellList' = Append(ShellList, n + 2)
  /\ UNCHANGED <<sem, ui, command, run_target, thread, runs, woken, late>>

\* Execute with add_to_queue, under shell_lock, which nobody else takes.
Queue ==
  /\ Frame /\ Runs(UI)
  /\ ShellList' = Append(ShellList, n + 1)
  /\ UNCHANGED <<sem, ui, command, run_target, thread, runs, woken, late>>

\* MSG_OS_COMMAND_QUEUE_CLEAR and MSG_OS_COMMAND_CLOSE.
Remaining(k) == IF k < 0 THEN <<>> ELSE SubSeq(ShellList, k + 1, Len(ShellList))

\* They take execute_lock, and wait if it is not free.
Clear(k) ==
  /\ Frame /\ semp(UI) /\ ui' = "unlock"
  /\ ShellList' = Remaining(k)
  /\ UNCHANGED <<command, run_target, thread, runs, woken, late>>

Unlock ==
  /\ ui = "unlock" /\ semv(UI) /\ ui' = "loop"
  /\ UNCHANGED <<n, command, run_target, thread, runs, ShellList, woken, late>>

-----------------------------------------------------------------------------
(* The threads *)

\* CommandThread copies the string it was given a pointer to...
Copy(t) ==
  /\ thread[t] = "copy" /\ thread' = [thread EXCEPT ![t] = "copied"]
  /\ runs' = [runs EXCEPT ![t] = command]
  /\ UNCHANGED <<sem, ui, n, command, run_target, ShellList, woken, late>>

\* Mutant: the thread that it was started for is let go first.
CopiedSilently(t) ==
  /\ thread[t] = "copied" /\ thread' = [thread EXCEPT ![t] = "system"]
  /\ UNCHANGED <<sem, ui, n, command, run_target, runs, ShellList, woken, late>>

\* ...and lets Execute go on; what system does is its own.
Copied(t) ==
  /\ thread[t] = "copied" /\ semv(t) /\ thread' = [thread EXCEPT ![t] = "system"]
  /\ UNCHANGED <<ui, n, command, run_target, runs, ShellList, woken, late>>

\* ThreadSHELL reads run_target.
ThreadSHELL(t) ==
  /\ thread[t] = "target" /\ thread' = [thread EXCEPT ![t] = "system"]
  /\ runs' = [runs EXCEPT ![t] = run_target]
  /\ UNCHANGED <<sem, ui, n, command, run_target, ShellList, woken, late>>

Signalled(t) == Signal(t) /\ UNCHANGED <<ui, n, command, run_target, thread, runs, ShellList, woken, late>>

Woken(t) ==
  /\ Wakeup(t) /\ woken' = TRUE
  /\ UNCHANGED <<ui, n, command, run_target, thread, runs, ShellList, late>>

-----------------------------------------------------------------------------
Handler ==
  Execute \/ CreateThread \/ Handshake \/ Release \/ NewApplication \/ SleepEnds \/ Queue
    \/ Unlock \/ \E k \in Deletes : Clear(k)

Thread(t) == Copy(t) \/ Copied(t) \/ ThreadSHELL(t)

\* Every frame was handled.
Finished == n = MaxFrames /\ ui = "loop" /\ UNCHANGED vars

Next ==
  \/ Handler \/ Finished
  \/ \E t \in 1..MaxFrames : Thread(t)
  \/ \E t \in Threads : Signalled(t) \/ Woken(t)

Spec == Init /\ [][Next]_vars

\* Every thread runs, and pthread_cond_signal wakes one.
LiveSpec ==
  /\ Spec /\ WF_vars(Handler)
  /\ \A t \in 1..MaxFrames : WF_vars(Thread(t))
  /\ \A t \in Threads : WF_vars(Signalled(t))

-----------------------------------------------------------------------------
(* Properties *)

TypeOK ==
  /\ SemTypeOK
  /\ ui \in {"loop", "create", "handshake", "release", "sleep", "unlock"}
  /\ n \in 0..MaxFrames /\ command \in 0..MaxFrames /\ run_target \in 0..MaxFrames
  /\ thread \in [1..MaxFrames -> {"none", "copy", "copied", "target", "system"}]
  /\ runs \in [1..MaxFrames -> -1..MaxFrames]
  /\ ShellList \in Seq(1..MaxFrames)

\* Every command that runs is the one its frame asked for, and the string it is copied
\* from is there; only a semp that returns without a signal lets Execute return before
\* (CommandThread, Execute).
EachRunsItsOwn ==
  \A t \in 1..MaxFrames : runs[t] \notin {-1, t} => woken \/ t \in late

\* Between frames the lock is free again: the handshake leaves it as it was, however
\* the two semp and the two semv followed each other.
LockIsFree ==
  ui = "loop" /\ ~woken /\ Runs(UI) => v = 1 /\ waiting = {}

\* The user interface thread comes back from every handler: the thread it waits for,
\* or some wakeup, lets it go on.
HandlerReturns == ui # "loop" ~> ui = "loop"
=============================================================================
