------------------------ MODULE ClientSessionProofs ------------------------
(***************************************************************************)
(* For every value of the constants of ClientSession: its types, a signal    *)
(* for every queued frame, and that messages of the user interface and       *)
(* frames of the server each go through a LossyFifo, so that they arrive at  *)
(* most once and in order; that nothing is missing since the connection was   *)
(* last restored, that giving up is shown, and that a refusal is final.       *)
(***************************************************************************)
EXTENDS ClientSession, FiniteSetTheorems, TLAPS

USE DEF Invalid, Open

\* TypeOK is not inductive alone: the last attempt may not be announced twice,
\* and a frame is at hand while its body is read.
Typing ==
  /\ TypeOK
  /\ wpc \in {"body", "enqueue"} => Len(got) = 1
  /\ wpc \in {"check", "dial", "reply", "retry"} => tries < Retries

\* Every step of the worker thread keeps the types.
LEMMA WorkerTyping == Typing /\ Worker => Typing'
<1> SUFFICES ASSUME Typing, Worker PROVE Typing'
  OBVIOUS
<1>0. proc' = proc
  BY DEF Worker
<1> USE <1>0, ConstantsAssumption
    DEF uiVars, queueVars, workerVars, sockVars, netVars, histVars,
        Typing, TypeOK, WorkerPc, Event
<1>1. CASE Poll BY <1>1 DEF Poll
<1>2. CASE HeaderArrives BY <1>2 DEF HeaderArrives
<1>3. CASE HeaderFails BY <1>3 DEF HeaderFails
<1>4. CASE BodyArrives BY <1>4 DEF BodyArrives
<1>5. CASE BodyFails BY <1>5 DEF BodyFails
<1>6. CASE Enqueue BY <1>6 DEF Enqueue
<1>7. CASE Emit BY <1>7 DEF Emit
<1>8. CASE AcquireSem BY <1>8 DEF AcquireSem
<1>9. CASE TakeMessage BY <1>9 DEF TakeMessage
<1>10. CASE ReleaseSem BY <1>10 DEF ReleaseSem
<1>11. CASE WriteAccepted BY <1>11 DEF WriteAccepted
<1>12. CASE WriteLost BY <1>12 DEF WriteLost
<1>13. CASE Failed BY <1>13 DEF Failed
<1>14. CASE CloseOld
  <2>1. dirty' \in BOOLEAN
    BY <1>14, Zenon DEF CloseOld
  <2>2. mark' \in Nat
    BY <1>14 DEF CloseOld
  <2> QED BY <1>14, <2>1, <2>2 DEF CloseOld
<1>15. CASE NoSession BY <1>15 DEF NoSession
<1>16. CASE Dial BY <1>16 DEF Dial
<1>17. CASE DialFails BY <1>17 DEF DialFails
<1>18. CASE Accepted BY <1>18 DEF Accepted
<1>19. CASE Refused
  <2>1. SessionID' \in BOOLEAN
    BY <1>19, Zenon DEF Refused
  <2> QED BY <1>19, <2>1 DEF Refused
<1>20. CASE Retry BY <1>20 DEF Retry
<1>21. CASE Restored BY <1>21 DEF Restored
<1>22. CASE GiveUp BY <1>22 DEF GiveUp
<1>23. CASE EnqueueQuit BY <1>23 DEF EnqueueQuit
<1>24. CASE EmitQuit BY <1>24 DEF EmitQuit
<1> QED BY <1>1, <1>2, <1>3, <1>4, <1>5, <1>6, <1>7, <1>8, <1>9, <1>10, <1>11, <1>12, <1>13, <1>14, <1>15, <1>16, <1>17, <1>18, <1>19, <1>20, <1>21, <1>22, <1>23, <1>24 DEF Worker

-----------------------------------------------------------------------------
(* Counting the posted signals.                                             *)

\* The length of a concatenation.
LEMMA LenConcat ==
  ASSUME NEW S, NEW s \in Seq(S), NEW t \in Seq(S)
  PROVE  s \o t \in Seq(S) /\ Len(s \o t) = Len(s) + Len(t)
  OBVIOUS

\* The positions of posted signals are finitely many.
LEMMA SignalsFinite ==
  ASSUME NEW s \in Seq(Event)
  PROVE  IsFiniteSet(Signals(s)) /\ Cardinality(Signals(s)) \in Nat
<1>1. Signals(s) \subseteq 1..Len(s) /\ IsFiniteSet(1..Len(s))
  BY FS_Interval DEF Signals
<1> QED BY <1>1, FS_Subset, FS_CardinalityType

\* An event that is posted adds one position if it is a signal (CustomEvent).
LEMMA SignalsAppend ==
  ASSUME NEW s \in Seq(Event), NEW e \in Event
  PROVE  Cardinality(Signals(Append(s, e))) =
           Cardinality(Signals(s)) + (IF e = "callback" THEN 1 ELSE 0)
<1>1. CASE e = "callback"
  <2>1. Signals(Append(s, e)) = Signals(s) \cup {Len(s) + 1}
    BY <1>1 DEF Signals
  <2>2. Len(s) + 1 \notin Signals(s)
    BY DEF Signals
  <2> QED BY <1>1, <2>1, <2>2, SignalsFinite, FS_AddElement
<1>2. CASE e # "callback"
  <2>1. Signals(Append(s, e)) = Signals(s)
    BY <1>2 DEF Signals
  <2> QED BY <1>2, <2>1, SignalsFinite
<1> QED BY <1>1, <1>2

\* An event that is taken removes one position if it is a signal.
LEMMA SignalsTail ==
  ASSUME NEW s \in Seq(Event), s # <<>>
  PROVE  Cardinality(Signals(Tail(s))) =
           Cardinality(Signals(s)) - (IF Head(s) = "callback" THEN 1 ELSE 0)
<1> DEFINE Rest  == Signals(s) \ {1}
           f     == [k \in Signals(Tail(s)) |-> k + 1]
<1>1. Tail(s) \in Seq(Event) /\ Len(Tail(s)) = Len(s) - 1 /\ Len(s) \in Nat \ {0}
  OBVIOUS
<1>2. f \in Bijection(Signals(Tail(s)), Rest)
  <2>1. \A k \in Signals(Tail(s)) : k \in Nat /\ f[k] = k + 1 /\ k + 1 \in Rest
    BY <1>1 DEF Signals
  <2>2. \A k \in Rest : k - 1 \in Signals(Tail(s)) /\ f[k - 1] = k
    BY <1>1 DEF Signals
  <2>3. f \in [Signals(Tail(s)) -> Rest]
    BY <2>1
  <2>4. f \in Injection(Signals(Tail(s)), Rest)
    BY <2>1, <2>3 DEF Injection, IsInjective
  <2>5. f \in Surjection(Signals(Tail(s)), Rest)
    BY <2>2, <2>3 DEF Surjection
  <2> QED BY <2>4, <2>5 DEF Bijection
<1>3. Cardinality(Signals(Tail(s))) = Cardinality(Rest)
  <2>1. ExistsBijection(Signals(Tail(s)), Rest)
    BY <1>2, Zenon DEF ExistsBijection
  <2>2. IsFiniteSet(Signals(Tail(s)))
    BY <1>1, SignalsFinite
  <2> HIDE DEF Rest
  <2> QED BY <2>1, <2>2, FS_Bijection
<1>4. Cardinality(Rest) = Cardinality(Signals(s)) - (IF Head(s) = "callback" THEN 1 ELSE 0)
  <2>1. 1 \in Signals(s) <=> Head(s) = "callback"
    BY <1>1 DEF Signals
  <2>2. /\ IsFiniteSet(Signals(s))
        /\ Cardinality(Rest) = IF 1 \in Signals(s) THEN Cardinality(Signals(s)) - 1
                              ELSE Cardinality(Signals(s))
    BY SignalsFinite, FS_RemoveElement
  <2>3. Cardinality(Signals(s)) \in Nat
    BY SignalsFinite
  <2> HIDE DEF Rest
  <2> QED BY <2>1, <2>2, <2>3
<1> QED BY <1>3, <1>4

-----------------------------------------------------------------------------
(* Typing and SignalPerFrame, together: that a signal finds a frame makes    *)
(* what the user interface dequeues a frame.                                *)

\* What posting an event does to the two sides of SignalPerFrame.
LEMMA SignalPerFrameKept ==
  ASSUME NEW e \in Event, Typing, SignalPerFrame
  PROVE  /\ Cardinality(Signals(events)) \in Nat
         /\ Cardinality(Signals(Append(events, e))) =
              Cardinality(Signals(events)) + (IF e = "callback" THEN 1 ELSE 0)
<1>1. events \in Seq(Event)
  BY DEF Typing, TypeOK
<1> QED BY <1>1, SignalsFinite, SignalsAppend

\* The worker posts one signal for each frame it queues (doWork).
LEMMA WorkerSignals == Typing /\ SignalPerFrame /\ Worker => SignalPerFrame'
<1> SUFFICES ASSUME Typing, SignalPerFrame, Worker PROVE SignalPerFrame'
  OBVIOUS
<1>a. Cardinality(Signals(events)) \in Nat
  BY SignalPerFrameKept DEF Event
<1>b. \A e \in Event : Cardinality(Signals(Append(events, e))) =
         Cardinality(Signals(events)) + (IF e = "callback" THEN 1 ELSE 0)
  BY SignalPerFrameKept
<1>c. queue \in Seq(Frame \cup {Lost}) /\ got \in Seq(Frame)
  BY DEF Typing, TypeOK
<1> USE <1>a, <1>b, <1>c DEF queueVars, SignalPerFrame, Event
<1>1. CASE Poll BY <1>1 DEF Poll
<1>2. CASE HeaderArrives BY <1>2 DEF HeaderArrives
<1>3. CASE HeaderFails BY <1>3 DEF HeaderFails
<1>4. CASE BodyArrives BY <1>4 DEF BodyArrives
<1>5. CASE BodyFails BY <1>5 DEF BodyFails
<1>6. CASE Enqueue
  <2>1. Len(got) = 1
    BY <1>6 DEF Enqueue, Typing
  <2>2. got \in Seq(Frame \cup {Lost}) /\ queue' = queue \o got
    BY <1>6 DEF Enqueue
  <2>3. Len(queue') = Len(queue) + Len(got)
    BY <2>2, LenConcat
  <2> QED BY <1>6, <2>1, <2>3 DEF Enqueue
<1>7. CASE Emit BY <1>7 DEF Emit
<1>8. CASE AcquireSem BY <1>8 DEF AcquireSem
<1>9. CASE TakeMessage BY <1>9 DEF TakeMessage
<1>10. CASE ReleaseSem BY <1>10 DEF ReleaseSem
<1>11. CASE WriteAccepted BY <1>11 DEF WriteAccepted
<1>12. CASE WriteLost BY <1>12 DEF WriteLost
<1>13. CASE Failed BY <1>13 DEF Failed
<1>14. CASE CloseOld BY <1>14 DEF CloseOld
<1>15. CASE NoSession BY <1>15 DEF NoSession
<1>16. CASE Dial BY <1>16 DEF Dial
<1>17. CASE DialFails BY <1>17 DEF DialFails
<1>18. CASE Accepted BY <1>18 DEF Accepted
<1>19. CASE Refused BY <1>19 DEF Refused
<1>20. CASE Retry BY <1>20 DEF Retry
<1>21. CASE Restored BY <1>21 DEF Restored
<1>22. CASE GiveUp BY <1>22 DEF GiveUp
<1>23. CASE EnqueueQuit BY <1>23 DEF EnqueueQuit
<1>24. CASE EmitQuit BY <1>24 DEF EmitQuit
<1> QED BY <1>1, <1>2, <1>3, <1>4, <1>5, <1>6, <1>7, <1>8, <1>9, <1>10, <1>11, <1>12, <1>13, <1>14, <1>15, <1>16, <1>17, <1>18, <1>19, <1>20, <1>21, <1>22, <1>23, <1>24 DEF Worker

\* A signal at the head of the events announces a frame.
LEMMA DequeueFinds ==
  Typing /\ SignalPerFrame /\ Dequeue =>
    /\ queue # <<>>
    /\ Head(queue) \in Frame \cup {Lost}
    /\ queue' \in Seq(Frame \cup {Lost})
    /\ events' \in Seq(Event)
    /\ Len(queue') = Len(queue) - 1
    /\ Cardinality(Signals(events')) = Cardinality(Signals(events)) - 1
<1> SUFFICES ASSUME Typing, SignalPerFrame, Dequeue
             PROVE  /\ queue # <<>>
                    /\ Head(queue) \in Frame \cup {Lost}
                    /\ queue' \in Seq(Frame \cup {Lost})
                    /\ events' \in Seq(Event)
                    /\ Len(queue') = Len(queue) - 1
                    /\ Cardinality(Signals(events')) = Cardinality(Signals(events)) - 1
  OBVIOUS
<1>1. events \in Seq(Event) /\ queue \in Seq(Frame \cup {Lost})
  BY DEF Typing, TypeOK
<1>2. /\ events # <<>> /\ Head(events) = "callback"
      /\ events' = Tail(events) /\ queue' = Tail(queue)
  BY DEF Dequeue
<1>3. Cardinality(Signals(events')) = Cardinality(Signals(events)) - 1
  BY <1>1, <1>2, SignalsTail
<1>4a. events' \in Seq(Event)
  BY <1>1, <1>2
<1>4. Cardinality(Signals(events)) \in Nat /\ Cardinality(Signals(events')) \in Nat
  BY <1>1, <1>4a, SignalsFinite
<1>5. Len(queue) # 0
  BY <1>3, <1>4 DEF SignalPerFrame
<1> QED BY <1>1, <1>2, <1>3, <1>5

\* Every step of the user interface keeps the types: a signal finds its frame.
LEMMA UITyping == Typing /\ SignalPerFrame /\ UI => Typing'
<1> SUFFICES ASSUME Typing, SignalPerFrame, UI PROVE Typing'
  OBVIOUS
<1> USE ConstantsAssumption
    DEF uiVars, queueVars, workerVars, sockVars, netVars, histVars,
        Typing, TypeOK, UiPc, MayAnswer
<1>1. CASE AddMessage BY <1>1 DEF AddMessage
<1>2. CASE DispatchFrame
  <2>1. /\ Head(queue) \in Frame
        /\ queue' \in Seq(Frame \cup {Lost}) /\ events' \in Seq(Event)
    BY <1>2, DequeueFinds DEF DispatchFrame
  <2>2. handled' \in Seq(Nat)
    BY <1>2, <2>1 DEF DispatchFrame, Frame
  <2>3. MainForm' \in BOOLEAN
    BY <1>2, Zenon DEF DispatchFrame
  <2> QED BY <1>2, <2>1, <2>2, <2>3, SMTT(40) DEF DispatchFrame
<1>3. CASE DispatchLost
  <2>1. queue' \in Seq(Frame \cup {Lost}) /\ events' \in Seq(Event)
    BY <1>3, DequeueFinds DEF DispatchLost
  <2> QED BY <1>3, <2>1 DEF DispatchLost
<1>4. CASE ShowNotice BY <1>4 DEF ShowNotice, Event
<1>5. CASE Disconnect
  <2>1. dirty' \in BOOLEAN
    BY <1>5, Zenon DEF Disconnect
  <2>2. CASE CLIENT_SOCKET = Invalid
    BY <1>5, <2>1, <2>2 DEF Disconnect
  <2>3. CASE CLIENT_SOCKET # Invalid
    <3>1. /\ CLIENT_SOCKET' = Invalid /\ link' = "none"
          /\ wire' = <<>> /\ inbox' = <<>> /\ upc' = "exit"
      BY <1>5, <2>3 DEF Disconnect
    <3>2. UNCHANGED <<proc, why, dialogs, MainForm, notice, nextMsg, queueVars,
                      MessageStack, workerVars, SessionID, srv, nextFrame,
                      failures, delivered, mark>>
      BY <1>5 DEF Disconnect
    <3> QED BY <2>1, <3>1, <3>2
  <2> QED BY <2>2, <2>3
<1>6. CASE Exit BY <1>6 DEF Exit
<1>7. CASE StayOpen
  <2>1. MainForm' \in BOOLEAN
    BY <1>7, Zenon DEF StayOpen
  <2>2. notice' \in {"hide", "retry", "error"}
    BY <1>7 DEF StayOpen
  <2>3. /\ upc' = "loop"
        /\ UNCHANGED <<proc, why, dialogs, nextMsg, queueVars, MessageStack,
                       workerVars, sockVars, netVars, histVars>>
    BY <1>7 DEF StayOpen
  <2> QED BY <2>1, <2>2, <2>3
<1>8. CASE UserSends BY <1>8 DEF UserSends
<1>9. CASE CloseDialog BY <1>9 DEF CloseDialog
<1>10. CASE AppReturns BY <1>10 DEF AppReturns
<1>11. CASE CloseLink BY <1>11 DEF CloseLink
<1> QED BY <1>1, <1>2, <1>3, <1>4, <1>5, <1>6, <1>7, <1>8, <1>9, <1>10, <1>11
        DEF UI, UILoop, User

\* The user interface takes one frame for each signal (Worker::callback).
LEMMA UISignals == Typing /\ SignalPerFrame /\ UI => SignalPerFrame'
<1> SUFFICES ASSUME Typing, SignalPerFrame, UI PROVE SignalPerFrame'
  OBVIOUS
<1>a. queue \in Seq(Frame \cup {Lost}) /\ events \in Seq(Event)
  BY DEF Typing, TypeOK
<1>b. Cardinality(Signals(events)) \in Nat
  BY <1>a, SignalsFinite
<1> USE <1>a, <1>b DEF SignalPerFrame, queueVars, workerVars
<1>1. CASE AddMessage BY <1>1 DEF AddMessage
<1>2. CASE DispatchFrame
  <2>1. Dequeue /\ wpc' = wpc
    BY <1>2 DEF DispatchFrame
  <2> QED BY <2>1, DequeueFinds
<1>3. CASE DispatchLost
  BY <1>3, DequeueFinds DEF DispatchLost
<1>4. CASE ShowNotice
  <2>1. Cardinality(Signals(events')) = Cardinality(Signals(events))
    BY <1>4, SignalsTail DEF ShowNotice
  <2> QED BY <1>4, <2>1 DEF ShowNotice
<1>5. CASE Disconnect BY <1>5 DEF Disconnect
<1>6. CASE Exit BY <1>6 DEF Exit
<1>7. CASE StayOpen BY <1>7 DEF StayOpen
<1>8. CASE UserSends BY <1>8 DEF UserSends
<1>9. CASE CloseDialog BY <1>9 DEF CloseDialog
<1>10. CASE AppReturns BY <1>10 DEF AppReturns
<1>11. CASE CloseLink BY <1>11 DEF CloseLink
<1> QED BY <1>1, <1>2, <1>3, <1>4, <1>5, <1>6, <1>7, <1>8, <1>9, <1>10, <1>11
        DEF UI, UILoop, User

\* Every step of the server and the network keeps the types.
LEMMA EnvironmentTyping == Typing /\ Environment => Typing'
<1> SUFFICES ASSUME Typing, Environment PROVE Typing'
  OBVIOUS
<1> USE ConstantsAssumption
    DEF uiVars, queueVars, workerVars, sockVars, netVars, Typing, TypeOK,
        Environment
<1>1. CASE ServerReads BY <1>1 DEF ServerReads
<1>2. CASE ServerSends BY <1>2 DEF ServerSends, Frame
<1>3. CASE LinkBreaks
  <2>1. PICK n \in 0..Len(inbox) : inbox' = SubSeq(inbox, 1, n)
    BY <1>3 DEF LinkBreaks
  <2>2. inbox' \in Seq(Frame)
    BY <2>1
  <2>3. dirty' \in BOOLEAN
    BY <1>3, Zenon DEF LinkBreaks
  <2>4. link' \in AllLossKinds
    BY <1>3 DEF LinkBreaks
  <2> QED BY <1>3, <2>2, <2>3, <2>4 DEF LinkBreaks
<1>4. CASE SessionEnds
  <2>1. dirty' \in BOOLEAN
    BY <1>4, Zenon DEF SessionEnds
  <2>2. link' \in {"up", "none", "closed"} \cup AllLossKinds
    BY <1>4 DEF SessionEnds, AllLossKinds
  <2>3. wire' \in Seq(Nat)
    <3>1. CASE link = "up"
      BY <1>4, <3>1 DEF SessionEnds
    <3>2. CASE link # "up"
      BY <1>4, <3>2 DEF SessionEnds
    <3> QED BY <3>1, <3>2
  <2>4. /\ srv' = "gone" /\ failures' = failures + 1
        /\ UNCHANGED <<inbox, nextFrame, delivered>>
    BY <1>4 DEF SessionEnds
  <2> QED BY <2>1, <2>2, <2>3, <2>4
<1>5. CASE SilenceTimesOut
  BY <1>5 DEF SilenceTimesOut, AllLossKinds
<1> QED BY <1>1, <1>2, <1>3, <1>4, <1>5

\* The inductive invariant of the two threads and the queue between them.
THEOREM Signalling == Spec => [](Typing /\ SignalPerFrame)
<1>1. Init => Typing /\ SignalPerFrame
  <2> SUFFICES ASSUME Init PROVE Typing /\ SignalPerFrame
    OBVIOUS
  <2>1. Typing
    <3>1. MainForm \in BOOLEAN /\ dirty \in BOOLEAN /\ SessionID \in BOOLEAN
      BY Zenon DEF Init
    <3> QED BY <3>1, ConstantsAssumption DEF Init, Typing, TypeOK, UiPc, WorkerPc
  <2>2. Signals(events) = {}
    BY DEF Init, Signals
  <2>3. SignalPerFrame
    BY <2>2, FS_EmptySet DEF Init, SignalPerFrame
  <2> QED BY <2>1, <2>3
<1>2. Typing /\ SignalPerFrame /\ [Next]_vars => Typing' /\ SignalPerFrame'
  <2> SUFFICES ASSUME Typing, SignalPerFrame, [Next]_vars
               PROVE  Typing' /\ SignalPerFrame'
    OBVIOUS
  <2>1. CASE Worker
    BY <2>1, WorkerTyping, WorkerSignals
  <2>2. CASE UI
    BY <2>2, UITyping, UISignals
  <2>3. CASE Environment
    <3>1. UNCHANGED <<queue, events, wpc>>
      BY <2>3 DEF Environment, queueVars, workerVars
    <3> QED BY <2>3, <3>1, EnvironmentTyping DEF SignalPerFrame
  <2>4. CASE UNCHANGED vars
    BY <2>4 DEF vars, uiVars, queueVars, workerVars, sockVars, netVars, histVars,
                Typing, TypeOK, SignalPerFrame
  <2> QED BY <2>1, <2>2, <2>3, <2>4 DEF Next
<1> QED BY <1>1, <1>2, PTL DEF Spec

\* Every variable keeps its type, for any number of messages, frames, failures
\* and attempts.
THEOREM TypesHold == Spec => []TypeOK
<1>1. Typing => TypeOK
  BY DEF Typing
<1> QED BY <1>1, Signalling, PTL

\* Worker::callback never dequeues from an empty queue, and no frame is left
\* without a signal.
THEOREM EverySignalFindsItsFrame == Spec => []SignalPerFrame
<1> QED BY Signalling, PTL

-----------------------------------------------------------------------------
(* The way of a message: MessageStack, the worker's hand, the wire, the      *)
(* server.  Everything further along the way is older.                      *)

Increasing(s)  == \A i, j \in 1..Len(s) : i < j => s[i] < s[j]
Before(s, t)   == \A i \in 1..Len(s), j \in 1..Len(t) : s[i] < t[j]
AllBelow(s, n) == \A i \in 1..Len(s) : s[i] < n

Pipeline ==
  /\ Len(hand) <= 1
  /\ Increasing(MessageStack) /\ Increasing(wire)
  /\ Before(wire, hand) /\ Before(wire, MessageStack) /\ Before(hand, MessageStack)
  /\ AllBelow(MessageStack, nextMsg) /\ AllBelow(hand, nextMsg) /\ AllBelow(wire, nextMsg)

PipelineTypes ==
  /\ nextMsg \in Nat
  /\ MessageStack \in Seq(Nat) /\ hand \in Seq(Nat) /\ wire \in Seq(Nat)
  /\ delivered \in Seq(Nat)

pipelineVars == <<nextMsg, MessageStack, hand, wire, delivered>>

\* What is on the wire is given up: a connection is closed or fails.
DropWire == wire' = <<>> /\ UNCHANGED <<nextMsg, MessageStack, hand, delivered>>

\* All that a step can do to the messages under way.
LEMMA PipelineSteps ==
  [Next]_vars => \/ UNCHANGED pipelineVars
                 \/ DropWire
                 \/ TakeMessage \/ WriteAccepted \/ WriteLost
                 \/ AddMessage \/ (ServerReads /\ Environment)
<1> SUFFICES ASSUME [Next]_vars,
                    ~ UNCHANGED pipelineVars, ~ DropWire
             PROVE  TakeMessage \/ WriteAccepted \/ WriteLost \/ AddMessage
                      \/ (ServerReads /\ Environment)
  OBVIOUS
<1> USE DEF pipelineVars, DropWire, uiVars, workerVars, netVars
<1>1. CASE Worker
  <2>1. ~Poll /\ ~HeaderArrives /\ ~HeaderFails /\ ~BodyArrives /\ ~BodyFails
    BY DEF Poll, HeaderArrives, HeaderFails, BodyArrives, BodyFails
  <2>2. ~Enqueue /\ ~Emit /\ ~AcquireSem /\ ~ReleaseSem
    BY DEF Enqueue, Emit, AcquireSem, ReleaseSem
  <2>3. ~Failed /\ ~CloseOld /\ ~NoSession /\ ~Dial /\ ~DialFails
    BY DEF Failed, CloseOld, NoSession, Dial, DialFails
  <2>4. ~Accepted /\ ~Refused /\ ~Retry /\ ~Restored
    BY DEF Accepted, Refused, Retry, Restored
  <2>5. ~GiveUp /\ ~EnqueueQuit /\ ~EmitQuit
    BY DEF GiveUp, EnqueueQuit, EmitQuit
  <2> QED BY <1>1, <2>1, <2>2, <2>3, <2>4, <2>5, Zenon DEF Worker
<1>2. CASE UI
  <2>1. ~DispatchFrame /\ ~DispatchLost /\ ~ShowNotice /\ ~Exit /\ ~StayOpen
    BY DEF DispatchFrame, DispatchLost, ShowNotice, Exit, StayOpen
  <2>2. ~Disconnect
    BY DEF Disconnect
  <2>3. ~UserSends /\ ~CloseDialog /\ ~AppReturns /\ ~CloseLink
    BY DEF UserSends, CloseDialog, AppReturns, CloseLink
  <2> QED BY <1>2, <2>1, <2>2, <2>3, Zenon DEF UI, UILoop, User
<1>3. CASE Environment
  <2>1. ~ServerSends /\ ~LinkBreaks
    BY <1>3 DEF ServerSends, LinkBreaks, Environment
  <2>2. ~SessionEnds
    BY <1>3 DEF SessionEnds, Environment
  <2>3. ~SilenceTimesOut
    BY <1>3 DEF SilenceTimesOut, Environment
  <2> QED BY <1>3, <2>1, <2>2, <2>3 DEF Environment
<1>4. CASE UNCHANGED vars
  BY <1>4 DEF vars
<1> QED BY <1>1, <1>2, <1>3, <1>4 DEF Next

\* A newer number goes behind all others.
LEMMA NewestBehind ==
  ASSUME NEW s \in Seq(Nat), NEW t \in Seq(Nat), NEW n \in Nat,
         Increasing(t), AllBelow(t, n), Before(s, t), AllBelow(s, n)
  PROVE  /\ Before(s, Append(t, n))
         /\ Increasing(Append(t, n))
         /\ AllBelow(Append(t, n), n + 1)
<1> DEFINE u == Append(t, n)
<1>1. /\ Len(u) = Len(t) + 1 /\ Len(t) \in Nat /\ Len(s) \in Nat
      /\ \A j \in 1..Len(t) : u[j] = t[j] /\ t[j] \in Nat
      /\ u[Len(t) + 1] = n
  OBVIOUS
<1> HIDE DEF u
<1>2. \A j \in 1..Len(u) : j \in 1..Len(t) \/ j = Len(t) + 1
  BY <1>1
<1>3. Before(s, u)
  <2> SUFFICES ASSUME NEW i \in 1..Len(s), NEW j \in 1..Len(u)
               PROVE  s[i] < u[j]
    BY DEF Before
  <2>1. CASE j \in 1..Len(t)
    BY <1>1, <2>1 DEF Before
  <2>2. CASE j = Len(t) + 1
    BY <1>1, <2>2 DEF AllBelow
  <2> QED BY <1>2, <2>1, <2>2
<1>4. Increasing(u)
  BY SMTT(30), <1>1, <1>2 DEF Increasing, AllBelow
<1>5. AllBelow(u, n + 1)
  <2> SUFFICES ASSUME NEW j \in 1..Len(u) PROVE u[j] < n + 1
    BY DEF AllBelow
  <2>1. CASE j \in 1..Len(t)
    <3>1. t[j] < n /\ t[j] \in Nat /\ u[j] = t[j]
      BY <1>1, <2>1 DEF AllBelow
    <3> QED BY <3>1
  <2>2. CASE j = Len(t) + 1
    BY <1>1, <2>2
  <2> QED BY <1>2, <2>1, <2>2
<1> QED BY <1>3, <1>4, <1>5 DEF u

\* Every step keeps the messages under way in order.
LEMMA PipelineKept == PipelineTypes /\ Pipeline /\ [Next]_vars => Pipeline'
<1> SUFFICES ASSUME PipelineTypes, Pipeline, [Next]_vars PROVE Pipeline'
  OBVIOUS
<1> USE DEF PipelineTypes, Pipeline, Increasing, Before, AllBelow
<1>1. CASE UNCHANGED pipelineVars
  BY <1>1 DEF pipelineVars
<1>2. CASE DropWire
  BY <1>2 DEF DropWire
<1>3. CASE TakeMessage
  <2>1. /\ MessageStack # <<>> /\ hand' = <<Head(MessageStack)>>
        /\ MessageStack' = Tail(MessageStack)
        /\ UNCHANGED <<nextMsg, wire, delivered>>
    BY <1>3 DEF TakeMessage, uiVars, netVars
  <2> QED BY <2>1
<1>4. CASE WriteAccepted
  <2>1. /\ wire' = wire \o hand /\ hand' = <<>>
        /\ UNCHANGED <<nextMsg, MessageStack, delivered>>
    BY <1>4 DEF WriteAccepted, uiVars
  <2> QED BY SMTT(30), <2>1
<1>5. CASE WriteLost
  <2>1. hand' = <<>> /\ UNCHANGED <<nextMsg, MessageStack, wire, delivered>>
    BY <1>5 DEF WriteLost, uiVars
  <2> QED BY <2>1
<1>6. CASE AddMessage
  <2>1. /\ MessageStack' = Append(MessageStack, nextMsg) /\ nextMsg' = nextMsg + 1
        /\ UNCHANGED <<hand, wire, delivered>>
    BY <1>6 DEF AddMessage, workerVars, netVars
  <2>2. AllBelow(hand, nextMsg') /\ AllBelow(wire, nextMsg')
    BY SMTT(30), <2>1
  <2> QED BY <2>1, <2>2, NewestBehind
<1>7. CASE ServerReads /\ Environment
  <2>1. wire # <<>> /\ wire' = Tail(wire) /\ UNCHANGED <<nextMsg, MessageStack, hand>>
    BY <1>7 DEF ServerReads, Environment, uiVars, workerVars
  <2> QED BY <2>1
<1> QED BY <1>1, <1>2, <1>3, <1>4, <1>5, <1>6, <1>7, PipelineSteps

-----------------------------------------------------------------------------
(* ClientSession implements LossyFifo for the messages of the user interface. *)

Pending == Range(MessageStack) \cup Range(hand) \cup Range(wire)

\* What a sequence holds when an element is appended,
LEMMA RangeAppend ==
  ASSUME NEW S, NEW s \in Seq(S), NEW e \in S
  PROVE  Range(Append(s, e)) = Range(s) \cup {e}
<1>1. /\ DOMAIN Append(s, e) = 1..(Len(s) + 1) /\ DOMAIN s = 1..Len(s)
      /\ \A i \in 1..Len(s) : Append(s, e)[i] = s[i]
      /\ Append(s, e)[Len(s) + 1] = e /\ Len(s) \in Nat
  OBVIOUS
<1>2. 1..(Len(s) + 1) = (1..Len(s)) \cup {Len(s) + 1}
  BY <1>1
<1> QED BY <1>1, <1>2 DEF Range

\* when its head is taken,
LEMMA RangeTail ==
  ASSUME NEW S, NEW s \in Seq(S), s # <<>>
  PROVE  Range(s) = Range(Tail(s)) \cup {Head(s)}
<1>1. /\ DOMAIN Tail(s) = 1..(Len(s) - 1) /\ DOMAIN s = 1..Len(s)
      /\ \A i \in 1..(Len(s) - 1) : Tail(s)[i] = s[i + 1]
      /\ Head(s) = s[1] /\ Len(s) \in Nat \ {0}
  OBVIOUS
<1>2. \A i \in 1..Len(s) : i = 1 \/ (i - 1 \in 1..(Len(s) - 1) /\ (i - 1) + 1 = i)
  BY <1>1
<1>3. \A i \in 1..(Len(s) - 1) : i + 1 \in 1..Len(s)
  BY <1>1
<1>4. Range(s) \subseteq Range(Tail(s)) \cup {Head(s)}
  <2> SUFFICES ASSUME NEW i \in 1..Len(s)
               PROVE  s[i] \in Range(Tail(s)) \cup {Head(s)}
    BY <1>1 DEF Range
  <2>1. CASE i = 1
    BY <1>1, <2>1
  <2>2. CASE i # 1
    <3>1. i - 1 \in DOMAIN Tail(s) /\ s[i] = Tail(s)[i - 1]
      BY <1>1, <1>2, <2>2
    <3> QED BY <3>1 DEF Range
  <2> QED BY <2>1, <2>2
<1>5. Range(Tail(s)) \cup {Head(s)} \subseteq Range(s)
  BY <1>1, <1>3 DEF Range
<1> QED BY <1>4, <1>5

\* and what a concatenation holds at most.
LEMMA RangeConcat ==
  ASSUME NEW S, NEW s \in Seq(S), NEW t \in Seq(S)
  PROVE  Range(s \o t) \subseteq Range(s) \cup Range(t)
<1>1. /\ DOMAIN (s \o t) = 1..(Len(s) + Len(t))
      /\ DOMAIN s = 1..Len(s) /\ DOMAIN t = 1..Len(t)
      /\ \A i \in 1..(Len(s) + Len(t)) :
           (s \o t)[i] = IF i <= Len(s) THEN s[i] ELSE t[i - Len(s)]
      /\ Len(s) \in Nat /\ Len(t) \in Nat
  OBVIOUS
<1>2. \A i \in 1..(Len(s) + Len(t)) : i \in 1..Len(s) \/ i - Len(s) \in 1..Len(t)
  BY <1>1
<1> QED BY <1>1, <1>2 DEF Range

\* Messages are numbers.
LEMMA PendingIsNat == PipelineTypes => Pending \in SUBSET Nat
  BY DEF PipelineTypes, Pending, Range

\* The oldest message under way is the one the server reads next.
LEMMA HeadOfWire ==
  ASSUME PipelineTypes, Pipeline, wire # <<>>
  PROVE  /\ \A n \in Pending : Head(wire) <= n
         /\ Pending \ {Head(wire)} =
              Range(MessageStack) \cup Range(hand) \cup Range(Tail(wire))
<1> USE DEF PipelineTypes, Pipeline, Increasing, Before
<1>1. Head(wire) = wire[1] /\ 1 \in 1..Len(wire) /\ wire[1] \in Nat
  OBVIOUS
<1>2. \A n \in Range(MessageStack) : n \in Nat /\ Head(wire) < n
  <2> SUFFICES ASSUME NEW i \in 1..Len(MessageStack)
               PROVE  MessageStack[i] \in Nat /\ wire[1] < MessageStack[i]
    BY SMTT(30), <1>1 DEF Range
  <2> QED BY <1>1
<1>3. \A n \in Range(hand) : n \in Nat /\ Head(wire) < n
  BY <1>1 DEF Range
<1>4. \A n \in Range(Tail(wire)) : n \in Nat /\ Head(wire) < n
  <2> SUFFICES ASSUME NEW i \in 1..(Len(wire) - 1)
               PROVE  wire[i + 1] \in Nat /\ wire[1] < wire[i + 1]
    <3>1. /\ DOMAIN Tail(wire) = 1..(Len(wire) - 1)
          /\ \A i \in 1..(Len(wire) - 1) : Tail(wire)[i] = wire[i + 1]
      OBVIOUS
    <3> QED BY <1>1, <3>1 DEF Range
  <2>1. i + 1 \in 1..Len(wire) /\ 1 < i + 1
    BY <1>1
  <2> QED BY <1>1, <2>1
<1>5. Range(wire) = Range(Tail(wire)) \cup {Head(wire)}
  BY RangeTail
<1> HIDE DEF PipelineTypes, Pipeline, Increasing, Before
<1>6. \A n \in Nat : Head(wire) < n => Head(wire) <= n /\ n # Head(wire)
  BY <1>1
<1>7. Head(wire) <= Head(wire)
  BY <1>1
<1> QED BY <1>2, <1>3, <1>4, <1>5, <1>6, <1>7 DEF Pending

\* Every step of the session is one of the fifo or leaves it alone.
LEMMA UpStep ==
  PipelineTypes /\ Pipeline /\ [Next]_vars => [Up!Next]_(Up!vars)
<1> SUFFICES ASSUME PipelineTypes, Pipeline, [Next]_vars
             PROVE  [Up!Next]_(Up!vars)
  OBVIOUS
<1> USE DEF PipelineTypes
<1>0. ASSUME Pending' \in SUBSET Pending, UNCHANGED <<nextMsg, delivered>>
      PROVE  Up!Next
  BY <1>0 DEF Up!Next, Up!Lose, Pending
<1>1. CASE UNCHANGED pipelineVars
  BY <1>1 DEF pipelineVars, Up!vars
<1>2. CASE DropWire
  <2>1. Range(wire') = {}
    BY <1>2 DEF DropWire, Range
  <2> QED BY <1>0, <1>2, <2>1 DEF DropWire, Pending
<1>3. CASE TakeMessage
  <2>1. /\ MessageStack # <<>> /\ hand' = <<Head(MessageStack)>>
        /\ MessageStack' = Tail(MessageStack)
        /\ UNCHANGED <<nextMsg, wire, delivered>>
    BY <1>3 DEF TakeMessage, uiVars, netVars
  <2>2. Range(hand') = {Head(MessageStack)}
    BY <2>1 DEF Range
  <2>3. Range(MessageStack) = Range(MessageStack') \cup {Head(MessageStack)}
    BY <2>1, RangeTail
  <2> QED BY <1>0, <2>1, <2>2, <2>3 DEF Pending
<1>4. CASE WriteAccepted
  <2>1. /\ wire' = wire \o hand /\ hand' = <<>>
        /\ UNCHANGED <<nextMsg, MessageStack, delivered>>
    BY <1>4 DEF WriteAccepted, uiVars
  <2>2. Range(wire') \subseteq Range(wire) \cup Range(hand)
    BY <2>1, RangeConcat
  <2>3. Range(hand') = {}
    BY <2>1 DEF Range
  <2> QED BY <1>0, <2>1, <2>2, <2>3 DEF Pending
<1>5. CASE WriteLost
  <2>1. hand' = <<>> /\ UNCHANGED <<nextMsg, MessageStack, wire, delivered>>
    BY <1>5 DEF WriteLost, uiVars
  <2>2. Range(hand') = {}
    BY <2>1 DEF Range
  <2> QED BY <1>0, <2>1, <2>2 DEF Pending
<1>6. CASE AddMessage
  <2>1. /\ MessageStack' = Append(MessageStack, nextMsg) /\ nextMsg' = nextMsg + 1
        /\ UNCHANGED <<hand, wire, delivered>>
    BY <1>6 DEF AddMessage, workerVars, netVars
  <2>2. Range(MessageStack') = Range(MessageStack) \cup {nextMsg}
    BY SMTT(30), <2>1, RangeAppend
  <2>3. Pending' = Pending \cup {nextMsg}
    BY <2>1, <2>2 DEF Pending
  <2> QED BY <2>1, <2>3 DEF Up!Next, Up!Submit, Pending
<1>7. CASE ServerReads /\ Environment
  <2>1. /\ wire # <<>> /\ wire' = Tail(wire)
        /\ delivered' = Append(delivered, Head(wire))
        /\ UNCHANGED <<nextMsg, MessageStack, hand>>
    BY <1>7 DEF ServerReads, Environment, uiVars, workerVars
  <2>2. Head(wire) \in Pending
    BY <2>1, RangeTail DEF Pending
  <2>3. Pending' = Pending \ {Head(wire)}
    BY <2>1, HeadOfWire DEF Pending
  <2>4. \A n \in Pending : Head(wire) <= n
    BY <2>1, HeadOfWire
  <2> QED BY <2>1, <2>2, <2>3, <2>4 DEF Up!Next, Up!Deliver, Pending
<1> QED BY <1>1, <1>2, <1>3, <1>4, <1>5, <1>6, <1>7, PipelineSteps

\* The messages of the user interface go through a LossyFifo.
THEOREM Implements == Spec => UpRefinement
<1>1. Init => Pipeline /\ Up!Init
  BY DEF Init, Pipeline, Increasing, Before, AllBelow, Up!Init, Range
<1>2. TypeOK => PipelineTypes
  BY DEF TypeOK, PipelineTypes
<1>3. PipelineTypes /\ Pipeline /\ [Next]_vars => Pipeline'
  BY PipelineKept
<1>4. PipelineTypes /\ Pipeline /\ [Next]_vars => [Up!Next]_(Up!vars)
  BY UpStep
<1> QED BY <1>1, <1>2, <1>3, <1>4, TypesHold, PTL DEF Spec, UpRefinement, Up!Spec

\* Appending a message newer than all delivered ones keeps the order.
LEMMA AppendInOrder ==
  ASSUME NEW s \in Seq(Nat), NEW m \in Nat,
         \A i, j \in 1..Len(s) : i < j => s[i] < s[j],
         \A i \in 1..Len(s) : s[i] < m
  PROVE  \A i, j \in 1..Len(Append(s, m)) : i < j => Append(s, m)[i] < Append(s, m)[j]
  OBVIOUS

\* The promise of LossyFifo: what was submitted is delivered once and in order.  Its Inv
\* is inductive, and InOrder is a part of it.
THEOREM Correct == Up!Spec => []Up!Inv
<1>1. Up!Init => Up!Inv
  BY DEF Up!Init, Up!Inv, Up!TypeOK, Up!InOrder
<1>2. Up!Inv /\ [Up!Next]_(Up!vars) => Up!Inv'
  <2> SUFFICES ASSUME Up!Inv, [Up!Next]_(Up!vars) PROVE Up!Inv'
    OBVIOUS
  <2> DEFINE pending == Range(MessageStack) \cup Range(hand) \cup Range(wire)
  <2>0. /\ nextMsg \in Nat /\ pending \in SUBSET Nat /\ delivered \in Seq(Nat)
        /\ \A i, j \in 1..Len(delivered) : i < j => delivered[i] < delivered[j]
        /\ \A m \in pending : m < nextMsg /\ \A i \in 1..Len(delivered) : delivered[i] < m
        /\ \A i \in 1..Len(delivered) : delivered[i] < nextMsg
    BY DEF Up!Inv, Up!TypeOK, Up!InOrder
  <2>i. SUFFICES
        /\ nextMsg' \in Nat /\ pending' \in SUBSET Nat /\ delivered' \in Seq(Nat)
        /\ \A i, j \in 1..Len(delivered') : i < j => delivered'[i] < delivered'[j]
        /\ \A m \in pending' : m < nextMsg' /\ \A i \in 1..Len(delivered') : delivered'[i] < m
        /\ \A i \in 1..Len(delivered') : delivered'[i] < nextMsg'
    BY DEF Up!Inv, Up!TypeOK, Up!InOrder
  <2>1. CASE Up!Submit
    <3>1. nextMsg' = nextMsg + 1 /\ pending' = pending \cup {nextMsg} /\ delivered' = delivered
      BY <2>1 DEF Up!Submit
    <3> HIDE DEF pending
    <3> QED BY <2>0, <3>1
  <2>2. CASE Up!Deliver
    <3>1. PICK m \in pending : /\ \A k \in pending : m <= k
                               /\ pending' = pending \ {m}
                               /\ delivered' = Append(delivered, m)
                               /\ nextMsg' = nextMsg
      BY <2>2 DEF Up!Deliver
    <3> HIDE DEF pending
    <3>2. m \in Nat /\ m < nextMsg
      BY <2>0
    <3>3. \A i, j \in 1..Len(delivered') : i < j => delivered'[i] < delivered'[j]
      BY <2>0, <3>1, <3>2, AppendInOrder
    <3>4. \A k \in pending' : k < nextMsg' /\ \A i \in 1..Len(delivered') : delivered'[i] < k
      BY <2>0, <3>1, <3>2
    <3>5. \A i \in 1..Len(delivered') : delivered'[i] < nextMsg'
      BY <2>0, <3>1, <3>2
    <3> QED BY <2>0, <3>1, <3>2, <3>3, <3>4, <3>5
  <2>3. CASE Up!Lose
    <3>1. pending' \subseteq pending /\ nextMsg' = nextMsg /\ delivered' = delivered
      BY <2>3 DEF Up!Lose
    <3> HIDE DEF pending
    <3> QED BY <2>0, <3>1
  <2>4. CASE UNCHANGED Up!vars
    <3>1. pending' = pending /\ nextMsg' = nextMsg /\ delivered' = delivered
      BY <2>4 DEF Up!vars
    <3> HIDE DEF pending
    <3> QED BY <2>0, <3>1
  <2> QED BY <2>1, <2>2, <2>3, <2>4 DEF Up!Next
<1> QED BY <1>1, <1>2, PTL DEF Up!Spec

\* A message of the user interface reaches the server at most once and never
\* after a newer one, over any number of connections.
THEOREM SentOnce == Spec => []SentOnceInOrder
<1>1. Spec => Up!Spec
  BY Implements DEF UpRefinement
<1>2. Up!Inv => SentOnceInOrder
  BY DEF Up!Inv, Up!InOrder, SentOnceInOrder
<1> QED BY <1>1, <1>2, Correct, PTL
-----------------------------------------------------------------------------
(* What the client knows of its connection.                                 *)

connectionVars == <<wpc, hand, wire, CLIENT_SOCKET, SessionID, link, dirty, mark>>

\* A session that was refused is forgotten before the worker dials again.
HasSession == wpc \in {"dial", "reply"} => SessionID

\* The worker dials only with a session, so that a socket closed without one stays closed.
LEMMA DialStep ==
  ASSUME HasSession, [Next]_vars
  PROVE  /\ HasSession'
         /\ ~SessionID /\ CLIENT_SOCKET = Invalid => CLIENT_SOCKET' = Invalid
<1> USE DEF HasSession, sockVars, workerVars
<1>1. CASE Worker
  <2>1. ASSUME Poll \/ HeaderArrives \/ HeaderFails \/ BodyArrives \/ BodyFails
        PROVE  UNCHANGED <<CLIENT_SOCKET, SessionID>> /\ wpc' \notin {"dial", "reply"}
    BY <2>1 DEF Poll, HeaderArrives, HeaderFails, BodyArrives, BodyFails
  <2>2. ASSUME Enqueue \/ Emit \/ AcquireSem \/ TakeMessage \/ ReleaseSem \/ WriteAccepted \/ WriteLost
        PROVE  UNCHANGED <<CLIENT_SOCKET, SessionID>> /\ wpc' \notin {"dial", "reply"}
    BY <2>2 DEF Enqueue, Emit, AcquireSem, TakeMessage, ReleaseSem, WriteAccepted, WriteLost
  <2>3. ASSUME Failed \/ NoSession \/ DialFails \/ Retry \/ Restored \/ GiveUp \/ EnqueueQuit \/ EmitQuit
        PROVE  UNCHANGED <<CLIENT_SOCKET, SessionID>> /\ wpc' \notin {"dial", "reply"}
    BY <2>3 DEF Failed, NoSession, DialFails, Retry, Restored, GiveUp, EnqueueQuit, EmitQuit
  <2>4. CASE CloseOld
    BY <2>4 DEF CloseOld
  <2>5. CASE Dial
    BY <2>5 DEF Dial
  <2>6. CASE Accepted
    BY <2>6 DEF Accepted
  <2>7. CASE Refused
    BY <2>7 DEF Refused
  <2> QED BY <1>1, <2>1, <2>2, <2>3, <2>4, <2>5, <2>6, <2>7 DEF Worker
<1>2. CASE UI
  <2>1. ASSUME ~Disconnect PROVE UNCHANGED <<wpc, CLIENT_SOCKET, SessionID>>
    BY <1>2, <2>1 DEF UI, UILoop, User, AddMessage, DispatchFrame, DispatchLost, ShowNotice, Exit,
                      StayOpen, UserSends, CloseDialog, AppReturns, CloseLink
  <2>2. CASE Disconnect
    BY <2>2 DEF Disconnect
  <2> QED BY <2>1, <2>2
<1>3. CASE Environment \/ UNCHANGED vars
  BY <1>3 DEF Environment, vars
<1> QED BY <1>1, <1>2, <1>3 DEF Next

\* A session the server refused, or never gave, is not connected again (CheckReconnect).
THEOREM RefusalIsFinal == Spec => NoDialAfterRefusal
<1>1. Init => HasSession
  BY DEF Init, HasSession
<1>2. HasSession /\ [Next]_vars =>
        HasSession' /\ [~SessionID /\ CLIENT_SOCKET = Invalid => CLIENT_SOCKET' = Invalid]_vars
  BY DialStep
<1> QED BY <1>1, <1>2, PTL DEF Spec, NoDialAfterRefusal
\* A failure is noticed once: from the moment the connection fails, or is closed under the
\* worker, until CheckReconnect replaces it, dirty is set; between two sends nothing is in hand.
Noticed ==
  /\ CLIENT_SOCKET = Invalid => link # "up" /\ wire = <<>>
  /\ CLIENT_SOCKET # Invalid /\ link # "up" => dirty
  /\ CLIENT_SOCKET = Invalid /\ wpc \in {"poll", "header", "body", "enqueue", "emit", "pend",
                                         "drain", "write", "failed", "restored"} => dirty
  /\ wpc = "failed" => dirty
  /\ wpc \in {"check", "dial", "reply", "retry"} => dirty \/ CLIENT_SOCKET = Invalid
  /\ wpc # "write" => hand = <<>>

\* Every step keeps it: nothing is taken or written on a connection not checked since it broke.
LEMMA NoticedStep == TypeOK /\ Noticed /\ [Next]_vars => Noticed'
<1> SUFFICES ASSUME TypeOK, Noticed, [Next]_vars PROVE Noticed'
  OBVIOUS
<1>a. /\ link \in {"up", "none", "closed"} \cup AllLossKinds /\ "up" \notin LossKinds
      /\ CLIENT_SOCKET \in {Invalid, Open} /\ wpc \in WorkerPc
  BY ConstantsAssumption DEF TypeOK, AllLossKinds
<1> USE <1>a DEF Noticed, sockVars, workerVars, netVars, histVars, WorkerPc, AllLossKinds
<1>1. CASE Worker
  <2>1. CASE Poll BY <2>1 DEF Poll
  <2>2. CASE HeaderArrives BY <2>2 DEF HeaderArrives
  <2>3. CASE HeaderFails BY <2>3 DEF HeaderFails
  <2>4. CASE BodyArrives BY <2>4 DEF BodyArrives
  <2>5. CASE BodyFails BY <2>5 DEF BodyFails
  <2>6. CASE Enqueue BY <2>6 DEF Enqueue
  <2>7. CASE Emit BY <2>7 DEF Emit
  <2>8. CASE AcquireSem BY <2>8 DEF AcquireSem
  <2>9. CASE TakeMessage BY <2>9 DEF TakeMessage
  <2>10. CASE ReleaseSem BY <2>10 DEF ReleaseSem
  <2>11. CASE WriteAccepted BY <2>11 DEF WriteAccepted
  <2>12. CASE WriteLost BY <2>12 DEF WriteLost
  <2>13. CASE Failed BY <2>13 DEF Failed
  <2>14. CASE CloseOld BY <2>14 DEF CloseOld
  <2>15. CASE NoSession BY <2>15 DEF NoSession
  <2>16. CASE Dial BY <2>16 DEF Dial
  <2>17. CASE DialFails BY <2>17 DEF DialFails
  <2>18. CASE Accepted BY <2>18 DEF Accepted
  <2>19. CASE Refused BY <2>19 DEF Refused
  <2>20. CASE Retry BY <2>20 DEF Retry
  <2>21. CASE Restored BY <2>21 DEF Restored
  <2>22. CASE GiveUp BY <2>22 DEF GiveUp
  <2>23. CASE EnqueueQuit BY <2>23 DEF EnqueueQuit
  <2>24. CASE EmitQuit BY <2>24 DEF EmitQuit
  <2> QED BY <1>1, <2>1, <2>2, <2>3, <2>4, <2>5, <2>6, <2>7, <2>8, <2>9, <2>10, <2>11, <2>12,
             <2>13, <2>14, <2>15, <2>16, <2>17, <2>18, <2>19, <2>20, <2>21, <2>22, <2>23, <2>24
          DEF Worker
<1>2. CASE UI
  <2>1. ASSUME ~Disconnect PROVE UNCHANGED connectionVars
    BY <1>2, <2>1 DEF UI, UILoop, User, AddMessage, DispatchFrame, DispatchLost, ShowNotice, Exit,
                      StayOpen, UserSends, CloseDialog, AppReturns, CloseLink, connectionVars
  <2>2. CASE Disconnect
    BY <2>2 DEF Disconnect
  <2> QED BY <2>1, <2>2 DEF connectionVars
<1>3. CASE Environment
  <2>1. UNCHANGED <<wpc, hand, CLIENT_SOCKET>>
    BY <1>3 DEF Environment
  <2>2. CASE ServerReads BY <2>1, <2>2 DEF ServerReads
  <2>3. CASE ServerSends BY <2>1, <2>3 DEF ServerSends
  <2>4. CASE LinkBreaks BY <2>1, <2>4 DEF LinkBreaks
  <2>5. CASE SessionEnds BY <2>1, <2>5 DEF SessionEnds
  <2>6. CASE SilenceTimesOut BY <2>1, <2>6 DEF SilenceTimesOut
  <2> QED BY <1>3, <2>2, <2>3, <2>4, <2>5, <2>6 DEF Environment
<1>4. CASE UNCHANGED vars
  BY <1>4 DEF vars
<1> QED BY <1>1, <1>2, <1>3, <1>4 DEF Next

\* While no failure waits to be noticed no message is dropped: the step leaves the messages
\* where they are, begins to count anew, or moves one of them along.
LEMMA QuietSteps ==
  ASSUME TypeOK, Noticed, [Next]_vars, ~dirty'
  PROVE  \/ ~dirty /\ UNCHANGED <<pipelineVars, mark>>
         \/ mark' = nextMsg /\ nextMsg' = nextMsg
         \/ /\ ~dirty /\ UNCHANGED mark
            /\ TakeMessage \/ WriteAccepted \/ AddMessage \/ (ServerReads /\ Environment)
<1>a. CLIENT_SOCKET \in {Invalid, Open}
  BY DEF TypeOK
<1> USE <1>a DEF pipelineVars, histVars, uiVars, netVars, workerVars, Noticed
<1>1. CASE Worker
  <2>1. CASE Poll BY <2>1 DEF Poll
  <2>2. CASE HeaderArrives BY <2>2 DEF HeaderArrives
  <2>3. CASE HeaderFails BY <2>3 DEF HeaderFails
  <2>4. CASE BodyArrives BY <2>4 DEF BodyArrives
  <2>5. CASE BodyFails BY <2>5 DEF BodyFails
  <2>6. CASE Enqueue BY <2>6 DEF Enqueue
  <2>7. CASE Emit BY <2>7 DEF Emit
  <2>8. CASE AcquireSem BY <2>8 DEF AcquireSem
  <2>9. CASE TakeMessage BY <2>9 DEF TakeMessage
  <2>10. CASE ReleaseSem BY <2>10 DEF ReleaseSem
  <2>11. CASE WriteAccepted BY <2>11 DEF WriteAccepted
  <2>12. CASE WriteLost BY <2>12 DEF WriteLost
  <2>13. CASE Failed BY <2>13 DEF Failed
  <2>14. CASE CloseOld
    <3>1. CASE dirty BY <2>14, <3>1 DEF CloseOld
    <3>2. CASE ~dirty
      <4>1. wire = <<>>
        BY <2>14, <3>2 DEF CloseOld
      <4> QED BY <2>14, <3>2, <4>1 DEF CloseOld
    <3> QED BY <3>1, <3>2
  <2>15. CASE NoSession BY <2>15 DEF NoSession
  <2>16. CASE Dial BY <2>16 DEF Dial
  <2>17. CASE DialFails BY <2>17 DEF DialFails
  <2>18. CASE Accepted BY <2>18 DEF Accepted
  <2>19. CASE Refused BY <2>19 DEF Refused
  <2>20. CASE Retry BY <2>20 DEF Retry
  <2>21. CASE Restored BY <2>21 DEF Restored
  <2>22. CASE GiveUp BY <2>22 DEF GiveUp
  <2>23. CASE EnqueueQuit BY <2>23 DEF EnqueueQuit
  <2>24. CASE EmitQuit BY <2>24 DEF EmitQuit
  <2> QED BY <1>1, <2>1, <2>2, <2>3, <2>4, <2>5, <2>6, <2>7, <2>8, <2>9, <2>10, <2>11, <2>12,
             <2>13, <2>14, <2>15, <2>16, <2>17, <2>18, <2>19, <2>20, <2>21, <2>22, <2>23, <2>24
          DEF Worker
<1>2. CASE UI
  <2>1. CASE AddMessage BY <2>1 DEF AddMessage
  <2>2. CASE Disconnect BY <2>2 DEF Disconnect
  <2>3. ASSUME ~AddMessage, ~Disconnect PROVE UNCHANGED <<pipelineVars, dirty, mark>>
    BY <1>2, <2>3 DEF UI, UILoop, User, DispatchFrame, DispatchLost, ShowNotice, Exit, StayOpen,
                      UserSends, CloseDialog, AppReturns, CloseLink
  <2> QED BY <2>1, <2>2, <2>3
<1>3. CASE Environment
  <2>1. UNCHANGED <<nextMsg, MessageStack, hand, mark>>
    BY <1>3 DEF Environment
  <2>2. CASE ServerReads BY <1>3, <2>1, <2>2 DEF ServerReads
  <2>3. CASE ServerSends BY <2>1, <2>3 DEF ServerSends
  <2>4. CASE LinkBreaks BY <2>4 DEF LinkBreaks
  <2>5. CASE SessionEnds BY <2>1, <2>5 DEF SessionEnds
  <2>6. CASE SilenceTimesOut BY <2>1, <2>6 DEF SilenceTimesOut
  <2> QED BY <1>3, <2>2, <2>3, <2>4, <2>5, <2>6 DEF Environment
<1>4. CASE UNCHANGED vars
  BY <1>4 DEF vars
<1> QED BY <1>1, <1>2, <1>3, <1>4 DEF Next

\* A concatenation holds all that its parts hold.
LEMMA RangeConcatIs ==
  ASSUME NEW S, NEW s \in Seq(S), NEW t \in Seq(S)
  PROVE  Range(s) \cup Range(t) \subseteq Range(s \o t)
<1>1. /\ DOMAIN (s \o t) = 1..(Len(s) + Len(t))
      /\ DOMAIN s = 1..Len(s) /\ DOMAIN t = 1..Len(t)
      /\ \A i \in 1..(Len(s) + Len(t)) :
           (s \o t)[i] = IF i <= Len(s) THEN s[i] ELSE t[i - Len(s)]
      /\ Len(s) \in Nat /\ Len(t) \in Nat
  OBVIOUS
<1>2. \A i \in 1..Len(s) : i \in DOMAIN (s \o t) /\ (s \o t)[i] = s[i]
  BY <1>1
<1>3. \A i \in 1..Len(t) : Len(s) + i \in DOMAIN (s \o t) /\ (s \o t)[Len(s) + i] = t[i]
  BY <1>1
<1>4. Range(s) \subseteq Range(s \o t)
  BY <1>1, <1>2 DEF Range
<1>5. Range(t) \subseteq Range(s \o t)
  <2> SUFFICES ASSUME NEW i \in 1..Len(t) PROVE t[i] \in Range(s \o t)
    BY <1>1 DEF Range
  <2> DEFINE k == Len(s) + i
  <2>1. k \in DOMAIN (s \o t) /\ (s \o t)[k] = t[i]
    BY <1>3
  <2> QED BY <2>1 DEF Range
<1> QED BY <1>4, <1>5

\* Where a message that is not lost can be.
Kept == Range(delivered) \cup Range(wire) \cup Range(hand) \cup Range(MessageStack)

\* What was taken from the stack is in the hand, on the wire or read until a connection breaks.
LEMMA KeptStep ==
  ASSUME TypeOK, Noticed, TakeMessage \/ WriteAccepted \/ AddMessage \/ (ServerReads /\ Environment)
  PROVE  /\ Kept \subseteq Kept'
         /\ nextMsg' = nextMsg \/ (nextMsg' = nextMsg + 1 /\ nextMsg \in Kept')
<1>a. /\ MessageStack \in Seq(Nat) /\ hand \in Seq(Nat) /\ wire \in Seq(Nat)
      /\ delivered \in Seq(Nat) /\ nextMsg \in Nat
  BY DEF TypeOK
<1>1. CASE TakeMessage
  <2>1. /\ MessageStack # <<>> /\ hand' = <<Head(MessageStack)>> /\ hand = <<>>
        /\ MessageStack' = Tail(MessageStack) /\ UNCHANGED <<nextMsg, wire, delivered>>
    BY <1>1 DEF TakeMessage, uiVars, netVars, Noticed
  <2>2. Range(MessageStack) = Range(MessageStack') \cup {Head(MessageStack)}
    BY <1>a, <2>1, RangeTail
  <2>3. Range(hand') = {Head(MessageStack)} /\ Range(hand) = {}
    BY <2>1 DEF Range
  <2> QED BY <2>1, <2>2, <2>3 DEF Kept
<1>2. CASE WriteAccepted
  <2>1. wire' = wire \o hand /\ UNCHANGED <<nextMsg, MessageStack, delivered>>
    BY <1>2 DEF WriteAccepted, uiVars
  <2>2. Range(wire) \cup Range(hand) \subseteq Range(wire')
    BY <1>a, <2>1, RangeConcatIs
  <2> QED BY <2>1, <2>2 DEF Kept
<1>3. CASE AddMessage
  <2>1. /\ MessageStack' = Append(MessageStack, nextMsg) /\ nextMsg' = nextMsg + 1
        /\ UNCHANGED <<hand, wire, delivered>>
    BY <1>3 DEF AddMessage, workerVars, netVars
  <2>2. Range(MessageStack') = Range(MessageStack) \cup {nextMsg}
    BY <1>a, <2>1, RangeAppend
  <2> QED BY <2>1, <2>2 DEF Kept
<1>4. CASE ServerReads /\ Environment
  <2>1. /\ wire # <<>> /\ wire' = Tail(wire) /\ delivered' = Append(delivered, Head(wire))
        /\ Head(wire) \in Nat /\ UNCHANGED <<nextMsg, MessageStack, hand>>
    BY <1>a, <1>4 DEF ServerReads, Environment, uiVars, workerVars
  <2>2. Range(wire) = Range(wire') \cup {Head(wire)}
    BY <1>a, <2>1, RangeTail
  <2>3. Range(delivered') = Range(delivered) \cup {Head(wire)}
    BY <1>a, <2>1, RangeAppend
  <2> QED BY <2>1, <2>2, <2>3 DEF Kept
<1> QED BY <1>1, <1>2, <1>3, <1>4

\* The members of an interval.
LEMMA Between == \A a, b \in Int : \A m \in a .. b : m \in Int /\ a <= m /\ m <= b
  OBVIOUS

\* Every step keeps the messages since the last restored connection without a gap.
LEMMA NoGapStep ==
  ASSUME TypeOK, TypeOK', Noticed, NoGapSinceRestore, [Next]_vars
  PROVE  NoGapSinceRestore'
<1>a. mark \in Nat /\ nextMsg \in Nat /\ mark' \in Nat /\ nextMsg' \in Nat
  BY DEF TypeOK
<1> SUFFICES ASSUME ~dirty', NEW m \in mark' .. (nextMsg' - 1), m \in Int, mark' <= m, m <= nextMsg' - 1
             PROVE  m \in Kept'
  <2>1. mark' \in Int /\ nextMsg' - 1 \in Int
    BY <1>a
  <2> QED BY <2>1, Between DEF NoGapSinceRestore, Kept
<1>b. ASSUME ~dirty, m \in mark .. (nextMsg - 1) PROVE m \in Kept
  BY <1>b DEF NoGapSinceRestore, Kept
<1>1. CASE ~dirty /\ UNCHANGED <<pipelineVars, mark>>
  BY <1>1, <1>b DEF pipelineVars, Kept
<1>2. CASE mark' = nextMsg /\ nextMsg' = nextMsg
  BY <1>2, <1>a
<1>3. CASE /\ ~dirty /\ UNCHANGED mark
           /\ TakeMessage \/ WriteAccepted \/ AddMessage \/ (ServerReads /\ Environment)
  <2>1. /\ Kept \subseteq Kept'
        /\ nextMsg' = nextMsg \/ (nextMsg' = nextMsg + 1 /\ nextMsg \in Kept')
    BY <1>3, KeptStep
  <2>2. mark' = mark /\ (nextMsg' = nextMsg \/ nextMsg' = nextMsg + 1)
    BY <1>3, <2>1
  <2>3. m \in mark .. (nextMsg - 1) \/ (nextMsg' = nextMsg + 1 /\ m = nextMsg)
    <3>1. CASE nextMsg' = nextMsg
      BY <1>a, <2>2, <3>1
    <3>2. CASE nextMsg' = nextMsg + 1
      <4>1. m <= nextMsg
        BY <1>a, <3>2
      <4> QED BY <1>a, <2>2, <3>2, <4>1
    <3> QED BY <2>2, <3>1, <3>2
  <2>4. CASE m \in mark .. (nextMsg - 1)
    BY <1>3, <1>b, <2>1, <2>4
  <2>5. CASE nextMsg' = nextMsg + 1 /\ m = nextMsg
    <3>1. nextMsg' # nextMsg
      BY <1>a, <2>5
    <3> QED BY <2>1, <2>5, <3>1
  <2> QED BY <2>3, <2>4, <2>5
<1> QED BY <1>1, <1>2, <1>3, QuietSteps

\* From the moment a failure is noticed until the next one no message is lost: what is
\* submitted while the worker dials follows on the new connection (CheckReconnect, SendPending).
THEOREM NoGap == Spec => []NoGapSinceRestore
<1>1. Init => Noticed /\ NoGapSinceRestore
  BY DEF Init, Noticed, NoGapSinceRestore
<1>2. TypeOK /\ TypeOK' /\ Noticed /\ NoGapSinceRestore /\ [Next]_vars =>
        Noticed' /\ NoGapSinceRestore'
  BY NoticedStep, NoGapStep
<1> QED BY <1>1, <1>2, TypesHold, PTL DEF Spec

-----------------------------------------------------------------------------
(* After the last attempt.                                                  *)

\* The events of the reconnect label that wait; nothing follows the error.
ErrorIsLast ==
  \E k \in 1..Len(events) : events[k] = "error" /\ \A j \in (k + 1)..Len(events) : events[j] = "callback"

OnlySignals == \A j \in 1..Len(events) : events[j] = "callback"

\* Once the worker has given up, its error is the last the label will show: it waits, or the
\* label shows it, or it is about to.
ErrorIsOnItsWay ==
  wpc \in {"quit", "quitEmit", "done"} /\ tries = Retries =>
    \/ ErrorIsLast
    \/ OnlySignals /\ (notice = "error" \/ (why = "error" /\ upc \in {"disconnect", "exit"}))

\* The worker keeps it: it posts the error when it gives up (CheckReconnect).
LEMMA ErrorWorker == TypeOK /\ ErrorIsOnItsWay /\ Worker => ErrorIsOnItsWay'
<1> SUFFICES ASSUME TypeOK, ErrorIsOnItsWay, Worker,
                    wpc' \in {"quit", "quitEmit", "done"}, tries' = Retries
             PROVE  \/ ErrorIsLast'
                    \/ OnlySignals' /\ (notice' = "error" \/ (why' = "error" /\ upc' \in {"disconnect", "exit"}))
  BY DEF ErrorIsOnItsWay
<1>a. events \in Seq(Event) /\ Retries \in Nat \ {0} /\ wpc \in WorkerPc
  BY ConstantsAssumption DEF TypeOK
<1>1. CASE GiveUp
  <2>1. events' = Append(events, "error")
    BY <1>1 DEF GiveUp
  <2>2. Len(events') = Len(events) + 1 /\ events'[Len(events) + 1] = "error" /\ Len(events) \in Nat
    BY <1>a, <2>1
  <2> QED BY <2>2 DEF ErrorIsLast
<1>2. CASE EnqueueQuit
  BY <1>2 DEF EnqueueQuit, uiVars, ErrorIsOnItsWay, ErrorIsLast, OnlySignals
<1>3. CASE EmitQuit
  <2>1. events' = Append(events, "callback") /\ UNCHANGED <<uiVars, tries>> /\ wpc = "quitEmit"
    BY <1>3 DEF EmitQuit
  <2>2. /\ Len(events') = Len(events) + 1 /\ Len(events) \in Nat
        /\ events'[Len(events) + 1] = "callback" /\ \A j \in 1..Len(events) : events'[j] = events[j]
    BY <1>a, <2>1
  <2>3. CASE ErrorIsLast
    <3>1. PICK k \in 1..Len(events) :
            events[k] = "error" /\ \A j \in (k + 1)..Len(events) : events[j] = "callback"
      BY <2>3 DEF ErrorIsLast
    <3>2. k \in 1..Len(events') /\ events'[k] = "error"
      BY <2>2, <3>1
    <3>3. \A j \in (k + 1)..Len(events') : events'[j] = "callback"
      <4> SUFFICES ASSUME NEW j \in (k + 1)..Len(events') PROVE events'[j] = "callback"
        OBVIOUS
      <4>1. j \in (k + 1)..Len(events) \/ j = Len(events) + 1
        BY <2>2, <3>1
      <4> QED BY <2>2, <3>1, <4>1
    <3> QED BY <3>2, <3>3 DEF ErrorIsLast
  <2>4. CASE OnlySignals
    <3>1. OnlySignals'
      BY <2>2, <2>4 DEF OnlySignals
    <3>2. ErrorIsLast \/ notice = "error" \/ (why = "error" /\ upc \in {"disconnect", "exit"})
      BY <2>1 DEF ErrorIsOnItsWay
    <3> QED BY <2>1, <2>3, <3>1, <3>2 DEF uiVars
  <2> QED BY <2>1, <2>3, <2>4 DEF ErrorIsOnItsWay
<1>4. CASE Failed
  BY <1>a, <1>4 DEF Failed
<1>5. ~Poll /\ ~HeaderArrives /\ ~HeaderFails /\ ~BodyArrives /\ ~BodyFails /\ ~Enqueue /\ ~Emit
      /\ ~AcquireSem /\ ~TakeMessage /\ ~ReleaseSem /\ ~WriteAccepted /\ ~WriteLost
  BY DEF Poll, HeaderArrives, HeaderFails, BodyArrives, BodyFails, Enqueue, Emit, AcquireSem,
         TakeMessage, ReleaseSem, WriteAccepted, WriteLost
<1>6. ~CloseOld /\ ~NoSession /\ ~Dial /\ ~DialFails /\ ~Accepted /\ ~Refused /\ ~Retry /\ ~Restored
  BY DEF CloseOld, NoSession, Dial, DialFails, Accepted, Refused, Retry, Restored
<1> QED BY <1>1, <1>2, <1>3, <1>4, <1>5, <1>6 DEF Worker

\* Only these handlers take an event.
LEMMA UITakesEvents ==
  ASSUME UI, events' # events
  PROVE  DispatchFrame \/ DispatchLost \/ ShowNotice
<1>1. ~AddMessage /\ ~Disconnect /\ ~Exit /\ ~StayOpen /\ ~UserSends /\ ~CloseDialog /\ ~AppReturns
      /\ ~CloseLink
  BY DEF AddMessage, Disconnect, Exit, StayOpen, UserSends, CloseDialog, AppReturns, CloseLink, queueVars
<1> QED BY <1>1 DEF UI, UILoop, User

\* The user interface keeps it: it takes the error only to show it.
LEMMA ErrorUI == TypeOK /\ ErrorIsOnItsWay /\ UI => ErrorIsOnItsWay'
<1> SUFFICES ASSUME TypeOK, ErrorIsOnItsWay, UI,
                    wpc' \in {"quit", "quitEmit", "done"}, tries' = Retries
             PROVE  \/ ErrorIsLast'
                    \/ OnlySignals' /\ (notice' = "error" \/ (why' = "error" /\ upc' \in {"disconnect", "exit"}))
  BY DEF ErrorIsOnItsWay
<1>a. events \in Seq(Event)
  BY DEF TypeOK
<1>b. UNCHANGED <<wpc, tries>>
  BY DEF UI, UILoop, User, AddMessage, DispatchFrame, DispatchLost, ShowNotice, Disconnect, Exit,
         StayOpen, UserSends, CloseDialog, AppReturns, CloseLink, workerVars
<1>c. \/ ErrorIsLast
      \/ OnlySignals /\ (notice = "error" \/ (why = "error" /\ upc \in {"disconnect", "exit"}))
  BY <1>b DEF ErrorIsOnItsWay
\* What is dequeued is a signal, or an event of the label.
<1>1. CASE events' = Tail(events) /\ events # <<>>
  <2>1. /\ Len(events') = Len(events) - 1 /\ Len(events) \in Nat \ {0} /\ Head(events) = events[1]
        /\ \A j \in 1..Len(events') : events'[j] = events[j + 1]
    BY <1>a, <1>1
  <2>0. events' # events
    BY <2>1
  <2>2. OnlySignals => OnlySignals'
    <3> SUFFICES ASSUME OnlySignals, NEW j \in 1..Len(events') PROVE events'[j] = "callback"
      BY DEF OnlySignals
    <3>1. j + 1 \in 1..Len(events)
      BY <2>1
    <3> QED BY <2>1, <3>1 DEF OnlySignals
  <2>3. CASE ErrorIsLast
    <3>1. PICK k \in 1..Len(events) :
            events[k] = "error" /\ \A j \in (k + 1)..Len(events) : events[j] = "callback"
      BY <2>3 DEF ErrorIsLast
    <3>2. \A j \in k..Len(events') : events'[j] = "callback"
      <4> SUFFICES ASSUME NEW j \in k..Len(events') PROVE events'[j] = "callback"
        OBVIOUS
      <4>1. j \in 1..Len(events') /\ j + 1 \in (k + 1)..Len(events)
        BY <2>1, <3>1
      <4> QED BY <2>1, <3>1, <4>1
    <3>3. CASE k = 1
      <4>1. ShowNotice /\ Head(events) = "error"
        BY <2>0, <2>1, <3>1, <3>3, UITakesEvents DEF DispatchFrame, DispatchLost, Dequeue
      <4>2. why' = "error" /\ upc' = "disconnect"
        BY <4>1 DEF ShowNotice
      <4> QED BY <3>2, <3>3, <4>2 DEF OnlySignals
    <3>4. CASE k # 1
      <4>1. k - 1 \in 1..Len(events') /\ events'[k - 1] = "error"
        BY <2>1, <3>1, <3>4
      <4>2. \A j \in ((k - 1) + 1)..Len(events') : events'[j] = "callback"
        BY <3>1, <3>2
      <4> QED BY <4>1, <4>2 DEF ErrorIsLast
    <3> QED BY <3>3, <3>4
  <2>4. CASE OnlySignals /\ (notice = "error" \/ (why = "error" /\ upc \in {"disconnect", "exit"}))
    <3>1. events[1] = "callback"
      BY <2>1, <2>4 DEF OnlySignals
    <3>2. DispatchFrame \/ DispatchLost
      BY <2>0, <2>1, <3>1, UITakesEvents DEF ShowNotice
    <3>3. upc = "loop" /\ notice' = notice
      BY <3>2 DEF DispatchFrame, DispatchLost, Dequeue
    <3> QED BY <2>2, <2>4, <3>3
  <2> QED BY <1>c, <2>3, <2>4
<1>2. CASE UNCHANGED events
  <2>1. (ErrorIsLast => ErrorIsLast') /\ (OnlySignals => OnlySignals')
    BY <1>2 DEF ErrorIsLast, OnlySignals
  <2>2. ASSUME notice = "error" \/ (why = "error" /\ upc \in {"disconnect", "exit"})
        PROVE  notice' = "error" \/ (why' = "error" /\ upc' \in {"disconnect", "exit"})
    <3>1. CASE AddMessage BY <2>2, <3>1 DEF AddMessage
    <3>2. CASE Disconnect BY <2>2, <3>2 DEF Disconnect
    <3>3. CASE Exit BY <2>2, <3>3 DEF Exit, uiVars
    <3>4. CASE StayOpen BY <2>2, <3>4 DEF StayOpen
    <3>5. CASE UserSends BY <2>2, <3>5 DEF UserSends
    <3>6. CASE CloseDialog BY <2>2, <3>6 DEF CloseDialog
    <3>7. CASE AppReturns BY <2>2, <3>7 DEF AppReturns
    <3>8. CASE CloseLink BY <2>2, <3>8 DEF CloseLink, uiVars
    <3>9. ~DispatchFrame /\ ~DispatchLost /\ ~ShowNotice
      <4>1. Tail(events) # events \/ events = <<>>
        BY <1>a
      <4> QED BY <1>2, <4>1 DEF DispatchFrame, DispatchLost, ShowNotice, Dequeue
    <3> QED BY <3>1, <3>2, <3>3, <3>4, <3>5, <3>6, <3>7, <3>8, <3>9 DEF UI, UILoop, User
  <2> QED BY <1>c, <2>1, <2>2
<1>3. events' # events => events' = Tail(events) /\ events # <<>>
  BY UITakesEvents DEF DispatchFrame, DispatchLost, ShowNotice, Dequeue
<1> QED BY <1>1, <1>2, <1>3

\* When every attempt has failed the user is told, or has left: the event is not overtaken by
\* an older one, nor lost when Done returns because of an open dialog (ReconnectMessage).
THEOREM GivingUpIsShown == Spec => []GiveUpIsShown
<1>1. Init => ErrorIsOnItsWay
  BY DEF Init, ErrorIsOnItsWay
<1>2. TypeOK /\ ErrorIsOnItsWay /\ [Next]_vars => ErrorIsOnItsWay'
  <2>1. ErrorIsOnItsWay /\ (Environment \/ UNCHANGED vars) => ErrorIsOnItsWay'
    BY DEF Environment, vars, uiVars, queueVars, workerVars, ErrorIsOnItsWay, ErrorIsLast, OnlySignals
  <2> QED BY <2>1, ErrorWorker, ErrorUI DEF Next
<1>3. TypeOK /\ ErrorIsOnItsWay => GiveUpIsShown
  <2>1. TypeOK => DOMAIN events = 1..Len(events)
    BY DEF TypeOK
  <2> QED BY <2>1 DEF ErrorIsOnItsWay, ErrorIsLast, GiveUpIsShown, Range
<1> QED BY <1>1, <1>2, <1>3, TypesHold, PTL DEF Spec
-----------------------------------------------------------------------------
(* The way of a frame: the wire, get_message, the queue, the user interface. *)
(* Everything further along the way is older; the worker's own last frame,   *)
(* which has no number, goes to the end.                                     *)

frameVars == <<nextFrame, inbox, got, queue, handled>>

Sent(s, n)  == \A k \in 1..Len(s) : s[k] = Lost \/ (0 < s[k].id /\ s[k].id < n)
InTurn(s)   == \A i, j \in 1..Len(s) : i < j /\ s[j] # Lost => s[i].id < s[j].id
Ahead(s, t) == \A i \in 1..Len(s), j \in 1..Len(t) : t[j] # Lost => s[i].id < t[j].id

Arriving ==
  /\ Sent(queue, nextFrame) /\ Sent(got, nextFrame) /\ Sent(inbox, nextFrame)
  /\ InTurn(queue) /\ InTurn(got) /\ InTurn(inbox)
  /\ Ahead(queue, got) /\ Ahead(queue, inbox) /\ Ahead(got, inbox)

AnyFrame == Frame \cup {Lost}

ArrivingTypes ==
  /\ nextFrame \in Nat \ {0}
  /\ queue \in Seq(AnyFrame) /\ got \in Seq(AnyFrame) /\ inbox \in Seq(AnyFrame)
  /\ handled \in Seq(Nat)

\* Frames have numbers, and the frame of the error is no frame of the server.
LEMMA AnyFrameId == \A f \in AnyFrame : f.id \in Nat /\ (f \in Frame => f # Lost)
  BY DEF AnyFrame, Frame, Lost, FrameKinds

\* What the types say of the sequences frames pass through.
LEMMA ArrivingTyped == TypeOK => ArrivingTypes /\ got \in Seq(Frame) /\ inbox \in Seq(Frame)
<1> SUFFICES ASSUME TypeOK PROVE ArrivingTypes /\ got \in Seq(Frame) /\ inbox \in Seq(Frame)
  OBVIOUS
<1>1. got \in Seq(Frame) /\ inbox \in Seq(Frame) /\ queue \in Seq(AnyFrame)
      /\ nextFrame \in Nat \ {0} /\ handled \in Seq(Nat)
  BY DEF TypeOK, AnyFrame
<1>2. got \in Seq(AnyFrame) /\ inbox \in Seq(AnyFrame)
  BY <1>1 DEF AnyFrame
<1> QED BY <1>1, <1>2 DEF ArrivingTypes

\* The end of the stream is lost with a connection.
DropInbox ==
  /\ \E n \in 0..Len(inbox) : inbox' = SubSeq(inbox, 1, n)
  /\ UNCHANGED <<nextFrame, got, queue, handled>>

\* The frame that was being received is lost.
DropGot == got' = <<>> /\ UNCHANGED <<nextFrame, inbox, queue, handled>>

\* All that a step can do to the frames under way.
LEMMA FrameSteps ==
  ASSUME TypeOK, [Next]_vars
  PROVE  \/ UNCHANGED frameVars
         \/ DropInbox \/ DropGot
         \/ HeaderArrives \/ Enqueue \/ EnqueueQuit
         \/ DispatchFrame \/ DispatchLost
         \/ (ServerSends /\ Environment)
<1>a. inbox \in Seq(Frame)
  BY DEF TypeOK
<1>b. ASSUME inbox' = <<>>, UNCHANGED <<nextFrame, got, queue, handled>> PROVE DropInbox
  <2>1. 0 \in 0..Len(inbox) /\ SubSeq(inbox, 1, 0) = <<>>
    BY <1>a
  <2> QED BY <1>b, <2>1 DEF DropInbox
<1> USE DEF frameVars, queueVars, workerVars, netVars
<1>1. CASE Worker
  <2>1. ASSUME Poll \/ HeaderFails \/ BodyArrives PROVE UNCHANGED frameVars
    BY <2>1 DEF Poll, HeaderFails, BodyArrives
  <2>2. ASSUME BodyFails PROVE DropGot
    BY <2>2 DEF BodyFails, DropGot
  <2>3. ASSUME Emit \/ AcquireSem \/ TakeMessage \/ ReleaseSem \/ WriteAccepted \/ WriteLost
        PROVE UNCHANGED frameVars
    BY <2>3 DEF Emit, AcquireSem, TakeMessage, ReleaseSem, WriteAccepted, WriteLost
  <2>4. ASSUME Failed \/ NoSession \/ Dial \/ DialFails \/ Accepted \/ Refused \/ Retry \/ Restored
               \/ GiveUp \/ EmitQuit
        PROVE UNCHANGED frameVars
    BY <2>4 DEF Failed, NoSession, Dial, DialFails, Accepted, Refused, Retry, Restored, GiveUp, EmitQuit
  <2>5. ASSUME CloseOld PROVE DropInbox
    <3>1. inbox' = <<>> /\ UNCHANGED <<nextFrame, got, queue, handled>>
      BY <2>5 DEF CloseOld
    <3> QED BY <1>b, <3>1
  <2> QED BY <1>1, <2>1, <2>2, <2>3, <2>4, <2>5 DEF Worker
<1>2. CASE UI
  <2>1. ASSUME Disconnect PROVE DropInbox \/ UNCHANGED frameVars
    <3>1. UNCHANGED <<nextFrame, got, queue, handled>> /\ (inbox' = <<>> \/ inbox' = inbox)
      BY <2>1 DEF Disconnect
    <3> QED BY <1>b, <3>1
  <2>2. ASSUME AddMessage \/ ShowNotice \/ Exit \/ StayOpen \/ UserSends \/ CloseDialog \/ AppReturns
               \/ CloseLink
        PROVE UNCHANGED frameVars
    BY <2>2 DEF AddMessage, ShowNotice, Exit, StayOpen, UserSends, CloseDialog, AppReturns, CloseLink
  <2> QED BY <1>2, <2>1, <2>2 DEF UI, UILoop, User
<1>3. CASE Environment
  <2>1. UNCHANGED <<got, queue, handled>>
    BY <1>3 DEF Environment
  <2>2. ASSUME ServerReads \/ SessionEnds \/ SilenceTimesOut PROVE UNCHANGED frameVars
    BY <2>1, <2>2 DEF ServerReads, SessionEnds, SilenceTimesOut
  <2>3. ASSUME LinkBreaks PROVE DropInbox
    BY <2>1, <2>3 DEF LinkBreaks, DropInbox
  <2> QED BY <1>3, <2>2, <2>3 DEF Environment
<1>4. CASE UNCHANGED vars
  BY <1>4 DEF vars
<1> QED BY <1>1, <1>2, <1>3, <1>4 DEF Next

\* What Dequeue takes is there.
LEMMA TakenFrame ==
  ASSUME Typing, SignalPerFrame, Dequeue
  PROVE  queue # <<>> /\ queue' = Tail(queue) /\ Head(queue) \in AnyFrame
  BY DequeueFinds DEF Dequeue, AnyFrame

\* t is s without some frames at its ends.
PartOf(t, s) ==
  \E d \in Nat : \A k \in 1..Len(t) : k + d \in 1..Len(s) /\ t[k] = s[k + d]

\* Such a part is as ordered as the whole.
LEMMA PartsKeepTurns ==
  ASSUME NEW s \in Seq(AnyFrame), NEW t \in Seq(AnyFrame), NEW u \in Seq(AnyFrame),
         NEW n \in Nat, PartOf(t, s)
  PROVE  /\ Sent(s, n) => Sent(t, n)
         /\ InTurn(s) => InTurn(t)
         /\ Ahead(s, u) => Ahead(t, u)
         /\ Ahead(u, s) => Ahead(u, t)
<1>1. PICK d \in Nat : \A k \in 1..Len(t) : k + d \in 1..Len(s) /\ t[k] = s[k + d]
  BY DEF PartOf
<1>2. Sent(s, n) => Sent(t, n)
  BY <1>1 DEF Sent
<1>3. ASSUME InTurn(s) PROVE InTurn(t)
  <2> SUFFICES ASSUME NEW i \in 1..Len(t), NEW j \in 1..Len(t), i < j, t[j] # Lost
               PROVE  t[i].id < t[j].id
    BY DEF InTurn
  <2>1. i + d < j + d
    OBVIOUS
  <2> QED BY <1>1, <1>3, <2>1 DEF InTurn
<1>4. Ahead(s, u) => Ahead(t, u)
  BY <1>1 DEF Ahead
<1>5. Ahead(u, s) => Ahead(u, t)
  BY <1>1 DEF Ahead
<1> QED BY <1>2, <1>3, <1>4, <1>5

\* So are two streams one behind the other.
LEMMA JoinsKeepTurns ==
  ASSUME NEW s \in Seq(AnyFrame), NEW t \in Seq(AnyFrame), NEW u \in Seq(AnyFrame), NEW n \in Nat
  PROVE  /\ Sent(s, n) /\ Sent(t, n) => Sent(s \o t, n)
         /\ InTurn(s) /\ InTurn(t) /\ Ahead(s, t) => InTurn(s \o t)
         /\ Ahead(s, u) /\ Ahead(t, u) => Ahead(s \o t, u)
         /\ Ahead(u, s) /\ Ahead(u, t) => Ahead(u, s \o t)
<1> DEFINE r == s \o t
<1>1. \A k \in 1..Len(r) :
        \/ k \in 1..Len(s) /\ r[k] = s[k]
        \/ k > Len(s) /\ k - Len(s) \in 1..Len(t) /\ r[k] = t[k - Len(s)]
  OBVIOUS
<1>2. Len(s) \in Nat /\ Len(t) \in Nat /\ Len(r) \in Nat
  OBVIOUS
<1> HIDE DEF r
<1>3. Sent(s, n) /\ Sent(t, n) => Sent(r, n)
  BY <1>1 DEF Sent
<1>4. ASSUME InTurn(s), InTurn(t), Ahead(s, t) PROVE InTurn(r)
  <2> SUFFICES ASSUME NEW i \in 1..Len(r), NEW j \in 1..Len(r), i < j, r[j] # Lost
               PROVE  r[i].id < r[j].id
    BY DEF InTurn
  <2>1. CASE j \in 1..Len(s) /\ r[j] = s[j]
    <3>1. i \in 1..Len(s) /\ r[i] = s[i]
      BY <1>1, <1>2, <2>1
    <3> QED BY <1>4, <2>1, <3>1 DEF InTurn
  <2>2. CASE j > Len(s) /\ j - Len(s) \in 1..Len(t) /\ r[j] = t[j - Len(s)]
    <3>1. CASE i \in 1..Len(s) /\ r[i] = s[i]
      BY <1>4, <2>2, <3>1 DEF Ahead
    <3>2. CASE i - Len(s) \in 1..Len(t) /\ r[i] = t[i - Len(s)]
      <4>1. i - Len(s) < j - Len(s)
        BY <1>2
      <4> QED BY <1>4, <2>2, <3>2, <4>1 DEF InTurn
    <3> QED BY <1>1, <3>1, <3>2
  <2> QED BY <1>1, <2>1, <2>2
<1>5. Ahead(s, u) /\ Ahead(t, u) => Ahead(r, u)
  BY <1>1 DEF Ahead
<1>6. Ahead(u, s) /\ Ahead(u, t) => Ahead(u, r)
  BY <1>1 DEF Ahead
<1> QED BY <1>3, <1>4, <1>5, <1>6 DEF r

\* The types at the next step.
LEMMA TypingStep == Typing /\ SignalPerFrame /\ [Next]_vars => Typing'
<1>1. CASE UNCHANGED vars
  BY <1>1 DEF vars, uiVars, queueVars, workerVars, sockVars, netVars, histVars, Typing, TypeOK
<1> QED BY <1>1, WorkerTyping, UITyping, EnvironmentTyping DEF Next

\* No step puts a frame in front of an older one.
LEMMA ArrivingStep ==
  ASSUME Typing, SignalPerFrame, Arriving, [Next]_vars
  PROVE  Arriving'
<1>a. ArrivingTypes /\ got \in Seq(Frame) /\ inbox \in Seq(Frame) /\ TypeOK
  BY ArrivingTyped DEF Typing
<1>b. ArrivingTypes'
  <2>1. TypeOK'
    BY TypingStep DEF Typing
  <2> QED BY <2>1, ArrivingTyped, PTL
<1>c. nextFrame \in Nat /\ queue \in Seq(AnyFrame) /\ got \in Seq(AnyFrame) /\ inbox \in Seq(AnyFrame)
      /\ queue' \in Seq(AnyFrame) /\ got' \in Seq(AnyFrame) /\ inbox' \in Seq(AnyFrame)
  BY <1>a, <1>b DEF ArrivingTypes
<1>1. CASE UNCHANGED frameVars
  BY <1>1 DEF frameVars, Arriving, Sent, InTurn, Ahead
<1>2. CASE DropInbox
  <2>1. PICK n \in 0..Len(inbox) : inbox' = SubSeq(inbox, 1, n)
    BY <1>2 DEF DropInbox
  <2>2. \A k \in 1..Len(inbox') : k + 0 \in 1..Len(inbox) /\ inbox'[k] = inbox[k + 0]
    BY <1>c, <2>1
  <2>3. PartOf(inbox', inbox)
    BY <2>2 DEF PartOf
  <2>4. UNCHANGED <<nextFrame, got, queue>>
    BY <1>2 DEF DropInbox
  <2> QED BY <1>c, <2>3, <2>4, PartsKeepTurns DEF Arriving
<1>3. CASE DropGot
  BY <1>3 DEF DropGot, Arriving, Sent, InTurn, Ahead
<1>4. CASE HeaderArrives
  <2>1. /\ inbox # <<>> /\ got' = <<Head(inbox)>> /\ inbox' = Tail(inbox)
        /\ UNCHANGED <<nextFrame, queue>>
    BY <1>4 DEF HeaderArrives, queueVars
  <2>2. /\ Len(got') = 1 /\ got'[1] = inbox[1] /\ Len(inbox) \in Nat \ {0}
        /\ Len(inbox') = Len(inbox) - 1 /\ \A k \in 1..Len(inbox') : inbox'[k] = inbox[k + 1]
    BY <1>c, <2>1
  <2>3. PartOf(got', inbox)
    <3>1. \A k \in 1..Len(got') : k + 0 \in 1..Len(inbox) /\ got'[k] = inbox[k + 0]
      BY <2>2
    <3> QED BY <3>1 DEF PartOf
  <2>4. PartOf(inbox', inbox)
    <3>1. \A k \in 1..Len(inbox') : k + 1 \in 1..Len(inbox) /\ inbox'[k] = inbox[k + 1]
      BY <2>2
    <3> QED BY <3>1 DEF PartOf
  <2>5. Ahead(got', inbox')
    <3> SUFFICES ASSUME NEW i \in 1..Len(got'), NEW j \in 1..Len(inbox'), inbox'[j] # Lost
                 PROVE  got'[i].id < inbox'[j].id
      BY DEF Ahead
    <3>1. i = 1 /\ got'[i] = inbox[1] /\ inbox'[j] = inbox[j + 1]
          /\ 1 \in 1..Len(inbox) /\ j + 1 \in 1..Len(inbox) /\ 1 < j + 1
      BY <2>2
    <3> QED BY <3>1 DEF Arriving, InTurn
  <2>6. Sent(got', nextFrame) /\ InTurn(got') /\ Ahead(queue, got')
    BY <1>c, <2>3, PartsKeepTurns DEF Arriving
  <2>7. Sent(inbox', nextFrame) /\ InTurn(inbox') /\ Ahead(queue, inbox')
    BY <1>c, <2>4, PartsKeepTurns DEF Arriving
  <2> QED BY <2>1, <2>5, <2>6, <2>7 DEF Arriving
<1>5. CASE Enqueue
  <2>1. queue' = queue \o got /\ got' = <<>> /\ UNCHANGED <<nextFrame, inbox>>
    BY <1>5 DEF Enqueue, netVars
  <2>2. Sent(queue', nextFrame) /\ InTurn(queue') /\ Ahead(queue', inbox)
    BY <1>c, <2>1, JoinsKeepTurns DEF Arriving
  <2>3. Sent(got', nextFrame) /\ InTurn(got') /\ Ahead(queue', got') /\ Ahead(got', inbox)
    BY <2>1 DEF Sent, InTurn, Ahead
  <2> QED BY <2>1, <2>2, <2>3 DEF Arriving
<1>6. CASE EnqueueQuit
  <2>1. queue' = Append(queue, Lost) /\ UNCHANGED <<nextFrame, got, inbox>>
    BY <1>6 DEF EnqueueQuit, netVars
  <2>2. <<Lost>> \in Seq(AnyFrame) /\ queue' = queue \o <<Lost>>
    BY <1>c, <2>1 DEF AnyFrame
  <2>3. Sent(<<Lost>>, nextFrame) /\ InTurn(<<Lost>>) /\ Ahead(queue, <<Lost>>)
    BY DEF Sent, InTurn, Ahead
  <2>4. ASSUME NEW u \in Seq(AnyFrame), Sent(u, nextFrame) PROVE Ahead(<<Lost>>, u)
    BY <2>4 DEF Sent, Ahead, Lost
  <2>5. Sent(queue', nextFrame) /\ InTurn(queue')
    BY <1>c, <2>2, <2>3, JoinsKeepTurns DEF Arriving
  <2>6. Ahead(queue', got) /\ Ahead(queue', inbox)
    BY <1>c, <2>2, <2>4, JoinsKeepTurns DEF Arriving
  <2> QED BY <2>1, <2>5, <2>6 DEF Arriving
<1>7. CASE DispatchFrame \/ DispatchLost
  <2>1. queue # <<>> /\ queue' = Tail(queue) /\ UNCHANGED <<nextFrame, got, inbox>>
    BY <1>7, TakenFrame DEF DispatchFrame, DispatchLost, workerVars, netVars
  <2>2. \A k \in 1..Len(queue') : k + 1 \in 1..Len(queue) /\ queue'[k] = queue[k + 1]
    BY <1>c, <2>1
  <2>3. PartOf(queue', queue)
    BY <2>2 DEF PartOf
  <2> QED BY <1>c, <2>1, <2>3, PartsKeepTurns DEF Arriving
<1>8. CASE ServerSends /\ Environment
  <2>1. PICK kind \in FrameKinds : inbox' = Append(inbox, [id |-> nextFrame, kind |-> kind])
    BY <1>8 DEF ServerSends
  <2>2. nextFrame' = nextFrame + 1 /\ UNCHANGED <<got, queue>>
    BY <1>8 DEF ServerSends, Environment, workerVars, queueVars
  <2> DEFINE new == [id |-> nextFrame, kind |-> kind]
  <2>3. new \in AnyFrame /\ new.id = nextFrame /\ nextFrame > 0
    BY <1>a DEF AnyFrame, Frame, ArrivingTypes
  <2>4. inbox' = Append(inbox, new)
    BY <2>1
  <2> HIDE DEF new
  <2>5. <<new>> \in Seq(AnyFrame) /\ inbox' = inbox \o <<new>>
    BY <1>c, <2>3, <2>4
  <2>6. ASSUME NEW u \in Seq(AnyFrame), Sent(u, nextFrame)
        PROVE  Sent(u, nextFrame') /\ Ahead(u, <<new>>)
    <3>1. \A k \in 1..Len(u) : u[k] \in AnyFrame /\ u[k].id \in Nat /\ u[k].id < nextFrame
      BY <1>c, <2>3, <2>6, AnyFrameId DEF Sent, Lost
    <3> QED BY <1>c, <2>2, <2>3, <2>6, <3>1 DEF Sent, Ahead
  <2>7. Sent(<<new>>, nextFrame') /\ InTurn(<<new>>)
    BY <1>c, <2>2, <2>3 DEF Sent, InTurn
  <2>8. Sent(inbox', nextFrame') /\ InTurn(inbox') /\ Ahead(queue, inbox') /\ Ahead(got, inbox')
    <3>1. nextFrame' \in Nat
      BY <1>c, <2>2
    <3> QED BY <1>c, <2>5, <2>6, <2>7, <3>1, JoinsKeepTurns DEF Arriving
  <2> QED BY <1>c, <2>2, <2>6, <2>8 DEF Arriving
<1> QED BY <1>a, <1>1, <1>2, <1>3, <1>4, <1>5, <1>6, <1>7, <1>8, FrameSteps
FramesUnderWay == (FrameIds(inbox) \cup FrameIds(got) \cup FrameIds(queue)) \ {Lost.id}

\* What FrameIds does on the streams the steps make.
LEMMA IdsOfStreams ==
  /\ FrameIds(<<>>) = {}
  /\ \A f : FrameIds(<<f>>) = {f.id}
  /\ \A s, t \in Seq(AnyFrame) : FrameIds(s \o t) = FrameIds(s) \cup FrameIds(t)
  /\ \A s, t \in Seq(AnyFrame) : PartOf(t, s) => FrameIds(t) \subseteq FrameIds(s)
  /\ \A s \in Seq(AnyFrame) : s # <<>> => FrameIds(s) = {Head(s).id} \cup FrameIds(Tail(s))
<1>1. FrameIds(<<>>) = {}
  BY DEF FrameIds
<1>2. ASSUME NEW f PROVE FrameIds(<<f>>) = {f.id}
  <2>1. Len(<<f>>) = 1 /\ <<f>>[1] = f /\ 1..1 = {1}
    OBVIOUS
  <2> QED BY <2>1 DEF FrameIds
<1>3. ASSUME NEW s \in Seq(AnyFrame), NEW t \in Seq(AnyFrame)
      PROVE  FrameIds(s \o t) = FrameIds(s) \cup FrameIds(t)
  <2> DEFINE r == s \o t
  <2>1. /\ Len(s) \in Nat /\ Len(t) \in Nat /\ Len(r) = Len(s) + Len(t)
        /\ \A k \in 1..Len(s) : r[k] = s[k]
        /\ \A k \in 1..Len(t) : r[k + Len(s)] = t[k]
        /\ \A k \in 1..Len(r) : \/ k \in 1..Len(s) /\ r[k] = s[k]
                                \/ k - Len(s) \in 1..Len(t) /\ r[k] = t[k - Len(s)]
    OBVIOUS
  <2> HIDE DEF r
  <2>2. FrameIds(r) \subseteq FrameIds(s) \cup FrameIds(t)
    <3> SUFFICES ASSUME NEW k \in 1..Len(r) PROVE r[k].id \in FrameIds(s) \cup FrameIds(t)
      BY DEF FrameIds
    <3>1. CASE k \in 1..Len(s) /\ r[k] = s[k]
      BY <3>1 DEF FrameIds
    <3>2. CASE k - Len(s) \in 1..Len(t) /\ r[k] = t[k - Len(s)]
      BY <3>2 DEF FrameIds
    <3> QED BY <2>1, <3>1, <3>2
  <2>3. FrameIds(s) \subseteq FrameIds(r)
    <3>1. \A k \in 1..Len(s) : k \in 1..Len(r)
      BY <2>1
    <3> QED BY <2>1, <3>1 DEF FrameIds
  <2>4. FrameIds(t) \subseteq FrameIds(r)
    <3>1. \A k \in 1..Len(t) : k + Len(s) \in 1..Len(r)
      BY <2>1
    <3> QED BY <2>1, <3>1 DEF FrameIds
  <2> QED BY <2>2, <2>3, <2>4 DEF r
<1>4. ASSUME NEW s \in Seq(AnyFrame), NEW t \in Seq(AnyFrame), PartOf(t, s)
      PROVE  FrameIds(t) \subseteq FrameIds(s)
  BY <1>4 DEF PartOf, FrameIds
<1>5. ASSUME NEW s \in Seq(AnyFrame), s # <<>>
      PROVE  FrameIds(s) = {Head(s).id} \cup FrameIds(Tail(s))
  <2>1. <<Head(s)>> \in Seq(AnyFrame) /\ Tail(s) \in Seq(AnyFrame) /\ s = <<Head(s)>> \o Tail(s)
    BY <1>5
  <2> QED BY <1>2, <1>3, <2>1
<1> QED BY <1>1, <1>2, <1>3, <1>4, <1>5

\* Every step of the program is one of the frames' fifo, or none.
LEMMA DownStep ==
  ASSUME Typing, SignalPerFrame, Arriving, [Next]_vars
  PROVE  [Down!Next]_(Down!vars)
<1>a. TypeOK /\ ArrivingTypes
  BY ArrivingTyped DEF Typing
<1>b. ArrivingTypes'
  <2>1. TypeOK'
    BY TypingStep DEF Typing
  <2> QED BY <2>1, ArrivingTyped, PTL
<1>c. nextFrame \in Nat \ {0} /\ queue \in Seq(AnyFrame) /\ got \in Seq(AnyFrame) /\ inbox \in Seq(AnyFrame)
      /\ queue' \in Seq(AnyFrame) /\ got' \in Seq(AnyFrame) /\ inbox' \in Seq(AnyFrame)
  BY <1>a, <1>b DEF ArrivingTypes
<1>d. ASSUME FramesUnderWay' \subseteq FramesUnderWay, UNCHANGED <<nextFrame, handled>>
      PROVE  Down!Lose
  BY <1>d DEF Down!Lose, FramesUnderWay
<1>1. CASE UNCHANGED frameVars
  BY <1>1 DEF frameVars, Down!vars, FrameIds
<1>2. CASE DropInbox
  <2>1. PICK n \in 0..Len(inbox) : inbox' = SubSeq(inbox, 1, n)
    BY <1>2 DEF DropInbox
  <2>2. \A k \in 1..Len(inbox') : k + 0 \in 1..Len(inbox) /\ inbox'[k] = inbox[k + 0]
    BY <1>c, <2>1
  <2>3. FrameIds(inbox') \subseteq FrameIds(inbox)
    <3>1. PartOf(inbox', inbox)
      BY <2>2 DEF PartOf
    <3> QED BY <1>c, <3>1, IdsOfStreams
  <2>4. UNCHANGED <<nextFrame, got, queue, handled>>
    BY <1>2 DEF DropInbox
  <2> QED BY <1>d, <2>3, <2>4 DEF FramesUnderWay, Down!Next, FrameIds
<1>3. CASE DropGot
  <2>1. FrameIds(got') = {} /\ UNCHANGED <<nextFrame, inbox, queue, handled>>
    BY <1>3, IdsOfStreams DEF DropGot
  <2> QED BY <1>d, <2>1 DEF FramesUnderWay, Down!Next, FrameIds
<1>4. CASE HeaderArrives
  <2>1. /\ inbox # <<>> /\ got' = <<Head(inbox)>> /\ inbox' = Tail(inbox)
        /\ UNCHANGED <<nextFrame, queue, handled>>
    BY <1>4 DEF HeaderArrives, queueVars
  <2>2. FrameIds(inbox) = FrameIds(got') \cup FrameIds(inbox')
    BY <1>c, <2>1, IdsOfStreams
  <2> QED BY <1>d, <2>1, <2>2 DEF FramesUnderWay, Down!Next, FrameIds
<1>5. CASE Enqueue
  <2>1. queue' = queue \o got /\ got' = <<>> /\ UNCHANGED <<nextFrame, inbox, handled>>
    BY <1>5 DEF Enqueue, netVars
  <2>2. FrameIds(queue') = FrameIds(queue) \cup FrameIds(got) /\ FrameIds(got') = {}
    BY <1>c, <2>1, IdsOfStreams
  <2> QED BY <1>d, <2>1, <2>2 DEF FramesUnderWay, Down!Next, FrameIds
<1>6. CASE EnqueueQuit
  <2>1. queue' = Append(queue, Lost) /\ UNCHANGED <<nextFrame, got, inbox, handled>>
    BY <1>6 DEF EnqueueQuit, netVars
  <2>2. <<Lost>> \in Seq(AnyFrame) /\ queue' = queue \o <<Lost>>
    BY <1>c, <2>1 DEF AnyFrame
  <2>3. FrameIds(queue') = FrameIds(queue) \cup {Lost.id}
    <3>1. FrameIds(<<Lost>>) = {Lost.id}
      BY IdsOfStreams
    <3>2. FrameIds(queue') = FrameIds(queue) \cup FrameIds(<<Lost>>)
      BY <1>c, <2>2, IdsOfStreams
    <3> QED BY <3>1, <3>2
  <2> QED BY <1>d, <2>1, <2>3 DEF FramesUnderWay, Down!Next, FrameIds
<1>7. CASE DispatchLost
  <2>1. queue # <<>> /\ queue' = Tail(queue) /\ UNCHANGED <<nextFrame, got, inbox, handled>>
    BY <1>7, TakenFrame DEF DispatchLost, workerVars, netVars
  <2>2. FrameIds(queue') \subseteq FrameIds(queue)
    BY <1>c, <2>1, IdsOfStreams
  <2> QED BY <1>d, <2>1, <2>2 DEF FramesUnderWay, Down!Next, FrameIds
<1>8. CASE ServerSends /\ Environment
  <2>1. PICK kind \in FrameKinds : inbox' = Append(inbox, [id |-> nextFrame, kind |-> kind])
    BY <1>8 DEF ServerSends
  <2>2. nextFrame' = nextFrame + 1 /\ UNCHANGED <<got, queue, handled>>
    BY <1>8 DEF ServerSends, Environment, workerVars, queueVars
  <2> DEFINE new == [id |-> nextFrame, kind |-> kind]
  <2>3. new \in AnyFrame /\ new.id = nextFrame
    BY <1>c DEF AnyFrame, Frame
  <2>4. inbox' = Append(inbox, new)
    BY <2>1
  <2> HIDE DEF new
  <2>5. <<new>> \in Seq(AnyFrame) /\ inbox' = inbox \o <<new>>
    BY <1>c, <2>3, <2>4
  <2>6. FrameIds(inbox') = FrameIds(inbox) \cup {nextFrame} /\ nextFrame # Lost.id
    <3>1. FrameIds(<<new>>) = {nextFrame}
      BY <2>3, IdsOfStreams
    <3>2. FrameIds(inbox') = FrameIds(inbox) \cup FrameIds(<<new>>)
      BY <1>c, <2>5, IdsOfStreams
    <3>3. nextFrame # Lost.id
      BY <1>c DEF Lost
    <3> QED BY <3>1, <3>2, <3>3
  <2>7. FramesUnderWay' = FramesUnderWay \cup {nextFrame}
    BY <2>2, <2>6 DEF FramesUnderWay, FrameIds
  <2>8. Down!Submit
    BY <2>2, <2>7 DEF Down!Submit, FramesUnderWay
  <2> QED BY <2>8 DEF Down!Next
<1>9. CASE DispatchFrame
  <2> DEFINE m == Head(queue).id
             rest == FrameIds(Tail(queue)) \cup FrameIds(got) \cup FrameIds(inbox)
  <2>1. /\ queue # <<>> /\ queue' = Tail(queue) /\ Head(queue) # Lost /\ handled' = Append(handled, m)
        /\ UNCHANGED <<nextFrame, got, inbox>>
    BY <1>9, TakenFrame DEF DispatchFrame, workerVars, netVars
  <2>2. /\ Len(queue) \in Nat \ {0} /\ Head(queue) = queue[1] /\ Len(Tail(queue)) = Len(queue) - 1
        /\ \A k \in 1..Len(Tail(queue)) : Tail(queue)[k] = queue[k + 1]
    BY <1>c, <2>1
  <2>3. m \in Nat /\ m > 0
    <3>1. 1 \in 1..Len(queue) /\ queue[1] \in AnyFrame
      BY <1>c, <2>2
    <3> QED BY <2>1, <2>2, <3>1, AnyFrameId DEF Arriving, Sent
  <2>4. ASSUME NEW s \in {Tail(queue), got, inbox}, NEW k \in 1..Len(s), s[k] # Lost
        PROVE  m < s[k].id
    <3>1. 1 \in 1..Len(queue)
      BY <2>2
    <3>2. CASE s = Tail(queue)
      <4>1. k + 1 \in 1..Len(queue) /\ 1 < k + 1 /\ s[k] = queue[k + 1]
        BY <2>2, <3>2
      <4> QED BY <2>2, <2>4, <3>1, <4>1 DEF Arriving, InTurn
    <3>3. CASE s = got \/ s = inbox
      BY <2>2, <2>4, <3>1, <3>3 DEF Arriving, Ahead
    <3> QED BY <3>2, <3>3
  <2>5. \A x \in rest : x = 0 \/ m < x
    BY <2>4 DEF FrameIds, Lost
  <2>6. FramesUnderWay = ({m} \cup rest) \ {0}
    <3>1. FrameIds(queue) = {m} \cup FrameIds(Tail(queue))
      BY <1>c, <2>1, IdsOfStreams
    <3>2. Lost.id = 0
      BY DEF Lost
    <3> QED BY <3>1, <3>2 DEF FramesUnderWay
  <2>7. FramesUnderWay' = rest \ {0}
    <3>2. Lost.id = 0
      BY DEF Lost
    <3> QED BY ZenonT(30), <2>1, <3>2 DEF FramesUnderWay, FrameIds
  <2>8. handled' = Append(handled, m) /\ UNCHANGED nextFrame
    BY <2>1
  <2> HIDE DEF m, rest
  <2>9. /\ m \in FramesUnderWay /\ \A x \in FramesUnderWay : m <= x
        /\ FramesUnderWay' = FramesUnderWay \ {m}
    <3>1. m \notin rest
      BY <2>3, <2>5
    <3>2. \A x \in {m} \cup rest : x = 0 \/ x = m \/ m < x
      BY <2>5
    <3>3. m \in FramesUnderWay
      BY <2>3, <2>6
    <3>4. FramesUnderWay' = FramesUnderWay \ {m}
      BY <2>6, <2>7, <3>1
    <3>5. \A x \in FramesUnderWay : x = m \/ m < x
      BY <2>6, <3>2
    <3>6. FramesUnderWay \subseteq Nat
      BY <1>c, AnyFrameId DEF FramesUnderWay, FrameIds
    <3>7. \A x \in FramesUnderWay : m <= x
      BY <2>3, <3>5, <3>6
    <3> QED BY <3>3, <3>4, <3>7
  <2>10. Down!Deliver
    BY <2>8, <2>9 DEF Down!Deliver, FramesUnderWay
  <2> QED BY <2>10 DEF Down!Next
<1> QED BY <1>a, <1>1, <1>2, <1>3, <1>4, <1>5, <1>6, <1>7, <1>8, <1>9, FrameSteps

\* The frames of the server reach Worker::callback at most once and in order, over
\* reconnections and nested dialogs: the client implements LossyFifo downwards.
THEOREM ImplementsDown == Spec => DownRefinement
<1>1. Init => Arriving /\ Down!Init
  BY IdsOfStreams DEF Init, Arriving, Sent, InTurn, Ahead, Down!Init
<1>2. Typing /\ SignalPerFrame /\ Arriving /\ [Next]_vars => Arriving' /\ [Down!Next]_(Down!vars)
  BY ArrivingStep, DownStep
<1> QED BY <1>1, <1>2, Signalling, PTL DEF Spec, DownRefinement, Down!Spec
=============================================================================
