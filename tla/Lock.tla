-------------------------------- MODULE Lock --------------------------------
(***************************************************************************)
(* A semaphore used as a lock, as sem, shell_lock and execute_lock of the    *)
(* client are: semp, a critical section, semv.                              *)
(***************************************************************************)
EXTENDS Semaphore

VARIABLE past  \* threads that called semp and have not called semv

vars == <<sem, past>>

\* Those of them that semp has let through.
Inside == past \ waiting

Init == SemInit /\ past = {}

Enter(t) == t \notin past /\ semp(t) /\ past' = past \cup {t}
Leave(t) == t \in past /\ semv(t) /\ past' = past \ {t}
Signalled(t) == Signal(t) /\ UNCHANGED past
Woken(t) == Wakeup(t) /\ UNCHANGED past

Next == \E t \in Threads : Enter(t) \/ Leave(t) \/ Signalled(t) \/ Woken(t)

Spec == Init /\ [][Next]_vars

\* A thread in the critical section leaves it, and one in semv signals.
LiveSpec == Spec /\ \A t \in Threads : WF_vars(Leave(t)) /\ WF_vars(Signalled(t))

-----------------------------------------------------------------------------
TypeOK == SemTypeOK /\ past \subseteq Threads /\ waiting \subseteq past

\* No thread waits for a signal that nobody is going to send: the counter says how
\* many threads wait for somebody to leave (semp, semv).
WaitersAreCounted ==
  ~Spurious /\ v <= 0 => Cardinality(waiting) = Cardinality(signalling) - v

\* The semaphore is a lock, whatever the threads do, as long as pthread_cond_wait
\* returns only when it was signalled.
TheMutex == INSTANCE Mutex WITH inside <- Inside
IsMutex == TheMutex!Spec

\* If threads wait and none is inside one gets in, also when others were woken
\* without a signal; which of them it is semhh.h leaves to the condition variable.
NoSignalIsLost == (waiting # {} /\ Inside = {}) ~> (Inside # {})
=============================================================================
