----------------------------- MODULE Semaphore -----------------------------
(***************************************************************************)
(* The semaphores of semhh.h on POSIX: a counter, a mutex and a condition.   *)
(* What happens under the mutex is one step; the signal of semv is sent      *)
(* after the mutex was released, and is a step of its own.                   *)
(***************************************************************************)
EXTENDS Integers, FiniteSets

CONSTANTS
  Threads,  \* the threads that share the semaphore
  Spurious  \* whether pthread_cond_wait may return without a signal

ASSUME SemaphoreAssumption == Spurious \in BOOLEAN

VARIABLES
  v,         \* the counter; below zero, how many threads are to be signalled
  waiting,   \* threads in pthread_cond_wait
  signalling \* threads in semv that have yet to signal

sem == <<v, waiting, signalling>>

SemTypeOK ==
  /\ v \in Int
  /\ waiting \subseteq Threads /\ signalling \subseteq Threads

\* seminit(sem, 1).
SemInit == v = 1 /\ waiting = {} /\ signalling = {}

\* Mutant: a thread does not wait.
RunsAnyway(t) == t \notin signalling

\* Whether a thread can go on behind its last semp or semv.
Runs(t) == t \notin waiting \cup signalling

\* Mutant: the counter is looked at before it is taken down.
SempLate(t) ==
  /\ Runs(t)
  /\ v' = v - 1
  /\ waiting' = IF v < 0 THEN waiting \cup {t} ELSE waiting
  /\ UNCHANGED signalling

semp(t) ==
  /\ Runs(t)
  /\ v' = v - 1
  /\ waiting' = IF v - 1 < 0 THEN waiting \cup {t} ELSE waiting
  /\ UNCHANGED signalling

\* Mutant: the thread that came first is not counted.
SemvShort(t) ==
  /\ Runs(t)
  /\ v' = v + 1
  /\ signalling' = IF v < -1 THEN signalling \cup {t} ELSE signalling
  /\ UNCHANGED waiting

semv(t) ==
  /\ Runs(t)
  /\ v' = v + 1
  /\ signalling' = IF v < 0 THEN signalling \cup {t} ELSE signalling
  /\ UNCHANGED waiting

\* pthread_cond_signal wakes one of those that wait, whichever.
Signal(t) ==
  /\ t \in signalling
  /\ signalling' = signalling \ {t}
  /\ IF waiting = {} THEN UNCHANGED waiting ELSE \E w \in waiting : waiting' = waiting \ {w}
  /\ UNCHANGED v

\* semp has an if around its wait where a while would look at the counter again.
Wakeup(t) ==
  /\ Spurious /\ t \in waiting
  /\ waiting' = waiting \ {t}
  /\ UNCHANGED <<v, signalling>>
=============================================================================
