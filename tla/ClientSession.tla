--------------------------- MODULE ClientSession ---------------------------
(***************************************************************************)
(* The core of the client: the thread that talks to the server             *)
(* (Worker::doWork, worker.cpp), the user interface thread that runs the    *)
(* Qt event loop (Worker::callback, MESSAGE_CALLBACK, ReconnectMessage and  *)
(* Done), and what they share: the stack of outgoing messages and its       *)
(* semaphore, the queue of received messages, the posted events, the socket *)
(* and the session.  The server and the TCP connection are the environment. *)
(*                                                                          *)
(* A message and a frame are numbers; what a frame contains is its kind.    *)
(* Not here: TLS, the encryption and the serialised form of a frame, the    *)
(* realtime socket and files posted through FILE frames.                    *)
(***************************************************************************)
EXTENDS Integers, Sequences, FiniteSets, SequencesExt

CONSTANTS
  Retries,      \* attempts of doWork before it gives up (20 in the code)
  MaxSend,      \* bound: messages the user interface submits
  MaxRecv,      \* bound: frames the server sends
  MaxFailures,  \* bound: connection failures
  WireCap,      \* bound: messages the kernel accepts before a write blocks
  LossKinds     \* the ways a connection may fail in a run

\* "fin": an orderly end; "rst": refused by the peer; "timeout": TCP itself gave
\* up; "stall": the peer is silent; "cut": it is, after the beginning of a frame.
AllLossKinds == {"fin", "rst", "timeout", "stall", "cut"}

ASSUME ConstantsAssumption ==
  /\ Retries \in Nat \ {0}
  /\ MaxSend \in Nat
  /\ MaxRecv \in Nat
  /\ MaxFailures \in Nat
  /\ WireCap \in Nat \ {0}
  /\ LossKinds \subseteq AllLossKinds

Invalid == -1
Open    == 1

VARIABLES
  proc,          \* the process: "running" or "exited"
  upc,           \* where the user interface thread is
  why,           \* the caller of Done it is in: "quit", "error" or "app"
  dialogs,       \* nested modal dialogs (callback.cpp counts them)
  MainForm,      \* whether a main form is known
  notice,        \* what the reconnect label shows
  nextMsg,       \* number of the next message to be submitted
  MessageStack,  \* outgoing messages
  sem,           \* the semaphore of MessageStack: "free" or "worker"
  queue,         \* received frames the user interface has not dequeued
  events,        \* Qt events posted by the worker to the user interface
  wpc,           \* where the worker thread is
  tries,         \* the loop counter of doWork's reconnection
  errno,         \* the worker's errno, as far as get_message looks at it
  got,           \* the frame being received, at most one
  hand,          \* the message being sent, at most one
  CLIENT_SOCKET,
  SessionID,     \* whether a session identifier is known
  link,          \* the state of the TCP connection
  wire,          \* messages written and not yet read by the server
  inbox,         \* frames sent and not yet read by the client
  srv,           \* the session at the server: "live" or "gone"
  nextFrame,     \* number of the next frame of the server
  failures,      \* connection failures so far
  delivered,     \* history: messages the server has read
  handled,       \* history: frames the user interface has dequeued
  dirty,         \* history: a failure was not yet noticed by the worker
  mark           \* history: first message submitted since it was noticed

uiVars     == <<upc, why, dialogs, MainForm, notice, nextMsg>>
queueVars  == <<queue, events, handled>>
workerVars == <<wpc, tries, errno, got, hand, sem>>
sockVars   == <<CLIENT_SOCKET, SessionID>>
netVars    == <<link, wire, inbox, srv, nextFrame, failures, delivered>>
histVars   == <<dirty, mark>>
vars == <<proc, uiVars, queueVars, MessageStack, workerVars, sockVars,
          netVars, histVars>>

-----------------------------------------------------------------------------
FrameKinds == {"data", "run", "dialog", "quit"}
Frame      == [id : Nat, kind : FrameKinds]
\* The MSG_APPLICATION_QUIT (0x500, Flags = 1) doWork enqueues for itself.
Lost       == [id |-> 0, kind |-> "lost"]

UiPc == {"loop", "add", "disconnect", "exit"}
WorkerPc == {"poll", "header", "body", "enqueue", "emit", "pend", "drain",
             "write", "failed", "check", "dial", "reply", "retry", "restored",
             "giveup", "quit", "quitEmit", "done"}
Event == {"callback", "hide", "retry", "error"}

TypeOK ==
  /\ proc \in {"running", "exited"}
  /\ upc \in UiPc
  /\ why \in {"quit", "error", "app"}
  /\ dialogs \in Nat
  /\ MainForm \in BOOLEAN
  /\ notice \in {"hide", "retry", "error"}
  /\ nextMsg \in Nat \ {0}
  /\ MessageStack \in Seq(Nat)
  /\ sem \in {"free", "worker"}
  /\ queue \in Seq(Frame \cup {Lost})
  /\ events \in Seq(Event)
  /\ wpc \in WorkerPc
  /\ tries \in 0..Retries
  /\ errno \in {"other", "ETIMEDOUT"}
  /\ got \in Seq(Frame)
  /\ hand \in Seq(Nat)
  /\ CLIENT_SOCKET \in {Invalid, Open}
  /\ SessionID \in BOOLEAN
  /\ link \in {"up", "none", "closed"} \cup AllLossKinds
  /\ wire \in Seq(Nat)
  /\ inbox \in Seq(Frame)
  /\ srv \in {"live", "gone"}
  /\ nextFrame \in Nat \ {0}
  /\ failures \in Nat
  /\ delivered \in Seq(Nat)
  /\ handled \in Seq(Nat)
  /\ dirty \in BOOLEAN
  /\ mark \in Nat

\* doWork starts once Connect has succeeded and the application was started:
\* the server may or may not have given a session identifier.
Init ==
  /\ proc = "running"
  /\ upc = "loop" /\ why = "app" /\ dialogs = 0
  /\ MainForm = FALSE /\ notice = "hide" /\ nextMsg = 1
  /\ MessageStack = <<>> /\ sem = "free"
  /\ queue = <<>> /\ events = <<>> /\ handled = <<>>
  /\ wpc = "poll" /\ tries = 0 /\ errno = "other" /\ got = <<>> /\ hand = <<>>
  /\ CLIENT_SOCKET = Open /\ SessionID \in BOOLEAN
  /\ link = "up" /\ wire = <<>> /\ inbox = <<>>
  /\ srv = "live" /\ nextFrame = 1 /\ failures = 0 /\ delivered = <<>>
  /\ dirty = FALSE /\ mark = 1

-----------------------------------------------------------------------------
(* Worker::doWork, waiting for input.                                       *)

\* IsEOF selects on the socket; a socket the user interface closed counts as
\* readable, and so do a failed connection and the beginning of a frame.  A peer
\* that is only silent gives select nothing to report.
HaveMessages == CLIENT_SOCKET = Invalid \/ inbox # <<>> \/ link \notin {"up", "stall"}

Poll ==
  /\ wpc = "poll"
  /\ wpc' = IF HaveMessages THEN "header" ELSE "pend"
  /\ UNCHANGED <<tries, errno, got, hand, sem, MessageStack, queueVars, uiVars,
                 sockVars, netVars, histVars>>

\* get_message read the four bytes of the size.
HeaderArrives ==
  /\ wpc = "header" /\ CLIENT_SOCKET = Open /\ inbox # <<>>
  /\ got' = <<Head(inbox)>>
  /\ inbox' = Tail(inbox)
  /\ wpc' = "body"
  /\ UNCHANGED <<tries, errno, hand, sem, MessageStack, queueVars, uiVars,
                 sockVars, link, wire, srv, nextFrame, failures, delivered,
                 histVars>>

\* Mutant: an orderly end of the connection is taken for a keepalive timeout.
HeaderFailsIgnoringEnd ==
  /\ wpc = "header"
  /\ CLIENT_SOCKET = Invalid \/ (inbox = <<>> /\ link \notin {"up", "stall"})
  /\ wpc' = IF CLIENT_SOCKET = Open /\ link = "fin" THEN "poll" ELSE "failed"
  /\ UNCHANGED <<tries, errno, got, hand, sem, MessageStack, queueVars, uiVars,
                 sockVars, netVars, histVars>>

\* Recv returned nothing.  An orderly end leaves errno alone, every error sets
\* it; the pending error of a connection is reported once.  ETIMEDOUT, now or
\* left from an earlier call, makes get_message return -2 and doWork go round.
\* A header of which only the beginning came is given up after the five seconds
\* of SO_RCVTIMEO (connect2), with EAGAIN.
HeaderFails ==
  /\ wpc = "header"
  /\ CLIENT_SOCKET = Invalid \/ (inbox = <<>> /\ link \notin {"up", "stall"})
  /\ errno' = IF CLIENT_SOCKET = Invalid THEN "other"
              ELSE IF link = "timeout" THEN "ETIMEDOUT"
              ELSE IF link \in {"fin", "closed"} THEN errno
              ELSE "other"
  /\ link' = IF link \in {"rst", "timeout"} THEN "closed" ELSE link
  /\ wpc' = IF errno' = "ETIMEDOUT" THEN "poll" ELSE "failed"
  /\ UNCHANGED <<tries, got, hand, sem, MessageStack, queueVars, uiVars,
                 sockVars, wire, inbox, srv, nextFrame, failures, delivered,
                 histVars>>

BodyArrives ==
  /\ wpc = "body" /\ CLIENT_SOCKET = Open
  /\ wpc' = "enqueue"
  /\ UNCHANGED <<tries, errno, got, hand, sem, MessageStack, queueVars, uiVars,
                 sockVars, netVars, histVars>>

\* RecvTimeout gave up or the connection failed in the middle of a frame.
BodyFails ==
  /\ wpc = "body"
  /\ CLIENT_SOCKET = Invalid \/ (inbox = <<>> /\ link # "up")
  /\ got' = <<>>
  /\ wpc' = "failed"
  /\ errno' \in IF link = "timeout" THEN {"ETIMEDOUT"} ELSE {errno, "other"}
  /\ link' = IF link \in {"rst", "timeout"} THEN "closed" ELSE link
  /\ UNCHANGED <<tries, hand, sem, MessageStack, queueVars, uiVars, sockVars,
                 wire, inbox, srv, nextFrame, failures, delivered, histVars>>

\* Mutant: the newest frame goes to the front.
EnqueueInFront ==
  /\ wpc = "enqueue"
  /\ queue' = got \o queue
  /\ got' = <<>>
  /\ wpc' = "emit"
  /\ UNCHANGED <<tries, errno, hand, sem, MessageStack, events, handled, uiVars,
                 sockVars, netVars, histVars>>

\* The frame goes into the queue under mutex2; the signal is a step of its own.
Enqueue ==
  /\ wpc = "enqueue"
  /\ queue' = queue \o got
  /\ got' = <<>>
  /\ wpc' = "emit"
  /\ UNCHANGED <<tries, errno, hand, sem, MessageStack, events, handled, uiVars,
                 sockVars, netVars, histVars>>

\* Mutant: the signal is forgotten.
EmitNothing ==
  /\ wpc = "emit"
  /\ wpc' = "pend"
  /\ UNCHANGED <<tries, errno, got, hand, sem, MessageStack, queueVars, uiVars,
                 sockVars, netVars, histVars>>

Emit ==
  /\ wpc = "emit"
  /\ events' = Append(events, "callback")
  /\ wpc' = "pend"
  /\ UNCHANGED <<tries, errno, got, hand, sem, MessageStack, queue, handled,
                 uiVars, sockVars, netVars, histVars>>

-----------------------------------------------------------------------------
(* CConceptClient::SendPending.                                             *)

AcquireSem ==
  /\ wpc = "pend" /\ sem = "free"
  /\ sem' = "worker"
  /\ wpc' = "drain"
  /\ UNCHANGED <<tries, errno, got, hand, MessageStack, queueVars, uiVars,
                 sockVars, netVars, histVars>>

\* Mutant: the stack is taken from its end.
TakeNewest ==
  /\ wpc = "drain" /\ MessageStack # <<>> /\ CLIENT_SOCKET = Open
  /\ hand' = <<Last(MessageStack)>>
  /\ MessageStack' = Front(MessageStack)
  /\ wpc' = "write"
  /\ UNCHANGED <<tries, errno, got, sem, queueVars, uiVars, sockVars, netVars,
                 histVars>>

\* Mutant: Count() compared with one.
TakeAllButLast ==
  /\ wpc = "drain" /\ Len(MessageStack) > 1 /\ CLIENT_SOCKET = Open
  /\ hand' = <<Head(MessageStack)>>
  /\ MessageStack' = Tail(MessageStack)
  /\ wpc' = "write"
  /\ UNCHANGED <<tries, errno, got, sem, queueVars, uiVars, sockVars, netVars,
                 histVars>>

TakeMessage ==
  /\ wpc = "drain" /\ MessageStack # <<>> /\ CLIENT_SOCKET = Open
  /\ hand' = <<Head(MessageStack)>>
  /\ MessageStack' = Tail(MessageStack)
  /\ wpc' = "write"
  /\ UNCHANGED <<tries, errno, got, sem, queueVars, uiVars, sockVars, netVars,
                 histVars>>

\* Mutant: SendPending returns early without semv when the socket is closed.
ReleaseSemIfOpen ==
  /\ wpc = "drain" /\ (MessageStack = <<>> \/ CLIENT_SOCKET = Invalid)
  /\ sem' = IF CLIENT_SOCKET = Open THEN "free" ELSE sem
  /\ wpc' = "poll"
  /\ UNCHANGED <<tries, errno, got, hand, MessageStack, queueVars, uiVars,
                 sockVars, netVars, histVars>>

ReleaseSem ==
  /\ wpc = "drain" /\ (MessageStack = <<>> \/ CLIENT_SOCKET = Invalid)
  /\ sem' = "free"
  /\ wpc' = "poll"
  /\ UNCHANGED <<tries, errno, got, hand, MessageStack, queueVars, uiVars,
                 sockVars, netVars, histVars>>

\* session_send blocks while the kernel has no room, for at most the five seconds
\* of SO_SNDTIMEO when nobody reads (WriteLost).
WriteAccepted ==
  /\ wpc = "write" /\ CLIENT_SOCKET = Open /\ link = "up"
  /\ Len(wire) < WireCap
  /\ wire' = wire \o hand
  /\ hand' = <<>>
  /\ wpc' = "drain"
  /\ UNCHANGED <<tries, errno, got, sem, MessageStack, queueVars, uiVars,
                 sockVars, link, inbox, srv, nextFrame, failures, delivered,
                 histVars>>

\* Mutant: a message that could not be sent is added again.
WriteRequeued ==
  /\ wpc = "write"
  /\ CLIENT_SOCKET = Invalid \/ link # "up"
  /\ MessageStack' = MessageStack \o hand
  /\ hand' = <<>>
  /\ sem' = "free"
  /\ wpc' = "poll"
  /\ UNCHANGED <<tries, errno, got, queueVars, uiVars, sockVars, netVars,
                 histVars>>

\* send_message failed, or the kernel took what nobody will read.  Its result
\* is ignored and the message deleted.  A message takes one or two writes, so
\* the pending ETIMEDOUT may be overwritten by the second.
WriteLost ==
  /\ wpc = "write"
  /\ CLIENT_SOCKET = Invalid \/ link # "up"
  /\ errno' \in IF CLIENT_SOCKET = Invalid \/ link \in {"rst", "closed"}
                THEN {"other"}
                ELSE IF link = "timeout" THEN {"ETIMEDOUT", "other"}
                ELSE {errno, "other"}
  /\ link' = IF link \in {"rst", "timeout"} THEN "closed" ELSE link
  /\ hand' = <<>>
  /\ wpc' = "drain"
  /\ UNCHANGED <<tries, got, sem, MessageStack, queueVars, uiVars, sockVars,
                 wire, inbox, srv, nextFrame, failures, delivered, histVars>>

-----------------------------------------------------------------------------
(* Worker::doWork after a failure, and CConceptClient::CheckReconnect.      *)

\* Without a main form there is nothing to reconnect for.
Failed ==
  /\ wpc = "failed"
  /\ wpc' = IF MainForm THEN "check" ELSE "quit"
  /\ tries' = 0
  /\ UNCHANGED <<errno, got, hand, sem, MessageStack, queueVars, uiVars,
                 sockVars, netVars, histVars>>

\* Mutant: the length of SessionID is not looked at.
CloseOldAnySession ==
  /\ wpc = "check"
  /\ CLIENT_SOCKET' = Invalid
  /\ link' = "none" /\ wire' = <<>> /\ inbox' = <<>>
  /\ dirty' = FALSE
  /\ mark' = IF dirty THEN nextMsg ELSE mark
  /\ wpc' = "dial"
  /\ UNCHANGED <<tries, errno, got, hand, sem, MessageStack, queueVars, uiVars,
                 SessionID, srv, nextFrame, failures, delivered>>

\* CheckReconnect closes the old socket before it dials; what was under way on
\* the old connection is gone, and the failure is noticed.
CloseOld ==
  /\ wpc = "check" /\ SessionID
  /\ CLIENT_SOCKET' = Invalid
  /\ link' = "none" /\ wire' = <<>> /\ inbox' = <<>>
  /\ dirty' = FALSE
  /\ mark' = IF dirty THEN nextMsg ELSE mark
  /\ wpc' = "dial"
  /\ UNCHANGED <<tries, errno, got, hand, sem, MessageStack, queueVars, uiVars,
                 SessionID, srv, nextFrame, failures, delivered>>

\* CheckReconnect returns -2.
NoSession ==
  /\ wpc = "check" /\ ~SessionID
  /\ wpc' = "giveup"
  /\ UNCHANGED <<tries, errno, got, hand, sem, MessageStack, queueVars, uiVars,
                 sockVars, netVars, histVars>>

\* A connection is made, the key is exchanged and "get restore" is sent on a
\* socket of its own, CLIENT_SOCKET2.
Dial ==
  /\ wpc = "dial"
  /\ wpc' = "reply"
  /\ errno' = "other"
  /\ UNCHANGED <<tries, got, hand, sem, MessageStack, queueVars, uiVars,
                 sockVars, netVars, histVars>>

\* Any step of the exchange fails: CheckReconnect returns 0.
DialFails ==
  /\ wpc \in {"dial", "reply"}
  /\ errno' = "other"
  /\ wpc' = "retry"
  /\ UNCHANGED <<tries, got, hand, sem, MessageStack, queueVars, uiVars,
                 sockVars, netVars, histVars>>

\* The server answers 1: the new socket becomes CLIENT_SOCKET.
Accepted ==
  /\ wpc = "reply" /\ srv = "live"
  /\ CLIENT_SOCKET' = Open
  /\ link' = "up"
  /\ wpc' = "restored"
  /\ UNCHANGED <<tries, errno, got, hand, sem, MessageStack, queueVars, uiVars,
                 SessionID, wire, inbox, srv, nextFrame, failures, delivered,
                 histVars>>

\* The server answers anything else, or nothing for MAX_GET_TIMEOUT: the session
\* is forgotten and CheckReconnect returns -1.  A slow server is refused too.
Refused ==
  /\ wpc = "reply"
  /\ SessionID' = FALSE
  /\ wpc' = "giveup"
  /\ UNCHANGED <<tries, errno, got, hand, sem, MessageStack, queueVars, uiVars,
                 CLIENT_SOCKET, netVars, histVars>>

\* Mutant: one attempt too many.
RetryOnceMore ==
  /\ wpc = "retry"
  /\ events' = Append(events, "retry")
  /\ tries' = tries + 1
  /\ wpc' = IF tries < Retries THEN "check" ELSE "giveup"
  /\ UNCHANGED <<errno, got, hand, sem, MessageStack, queue, handled, uiVars,
                 sockVars, netVars, histVars>>

\* One attempt more is announced; the loop ends after the last.
Retry ==
  /\ wpc = "retry"
  /\ events' = Append(events, "retry")
  /\ tries' = tries + 1
  /\ wpc' = IF tries + 1 < Retries THEN "check" ELSE "giveup"
  /\ UNCHANGED <<errno, got, hand, sem, MessageStack, queue, handled, uiVars,
                 sockVars, netVars, histVars>>

Restored ==
  /\ wpc = "restored"
  /\ events' = Append(events, "hide")
  /\ wpc' = "poll"
  /\ UNCHANGED <<tries, errno, got, hand, sem, MessageStack, queue, handled,
                 uiVars, sockVars, netVars, histVars>>

GiveUp ==
  /\ wpc = "giveup"
  /\ events' = Append(events, "error")
  /\ wpc' = "quit"
  /\ UNCHANGED <<tries, errno, got, hand, sem, MessageStack, queue, handled,
                 uiVars, sockVars, netVars, histVars>>

\* The worker's last frame is its own.
EnqueueQuit ==
  /\ wpc = "quit"
  /\ queue' = Append(queue, Lost)
  /\ wpc' = "quitEmit"
  /\ UNCHANGED <<tries, errno, got, hand, sem, MessageStack, events, handled,
                 uiVars, sockVars, netVars, histVars>>

\* Mutant: the worker ends without its last signal.
EmitQuitNothing ==
  /\ wpc = "quitEmit"
  /\ wpc' = "done"
  /\ UNCHANGED <<tries, errno, got, hand, sem, MessageStack, queueVars, uiVars,
                 sockVars, netVars, histVars>>

EmitQuit ==
  /\ wpc = "quitEmit"
  /\ events' = Append(events, "callback")
  /\ wpc' = "done"
  /\ UNCHANGED <<tries, errno, got, hand, sem, MessageStack, queue, handled,
                 uiVars, sockVars, netVars, histVars>>

Worker ==
  /\ proc = "running"
  /\ UNCHANGED proc
  /\ \/ Poll \/ HeaderArrives \/ HeaderFails \/ BodyArrives \/ BodyFails
     \/ Enqueue \/ Emit
     \/ AcquireSem \/ TakeMessage \/ ReleaseSem \/ WriteAccepted \/ WriteLost
     \/ Failed \/ CloseOld \/ NoSession \/ Dial \/ DialFails \/ Accepted
     \/ Refused \/ Retry \/ Restored \/ GiveUp \/ EnqueueQuit \/ EmitQuit

-----------------------------------------------------------------------------
(* The user interface thread.                                               *)

\* After a handler the event loop goes on, or the handler sends something.
MayAnswer ==
  \/ upc' = "loop"
  \/ nextMsg <= MaxSend /\ upc' = "add"

\* Something the user does, or a timer, submits a message.
UserSends ==
  /\ upc = "loop" /\ nextMsg <= MaxSend
  /\ upc' = "add"
  /\ UNCHANGED <<proc, why, dialogs, MainForm, notice, nextMsg, queueVars,
                 MessageStack, workerVars, sockVars, netVars, histVars>>

\* Mutant: like SendMessage, a message is refused while there is no connection.
AddMessageIfConnected ==
  /\ upc = "add" /\ sem = "free"
  /\ MessageStack' = IF CLIENT_SOCKET = Open THEN Append(MessageStack, nextMsg)
                     ELSE MessageStack
  /\ nextMsg' = nextMsg + 1
  /\ upc' = "loop"
  /\ UNCHANGED <<proc, why, dialogs, MainForm, notice, queueVars, workerVars,
                 sockVars, netVars, histVars>>

\* SendMessageNoWait, SendBigMessage, SendFileMessage: semp, Add, semv.
AddMessage ==
  /\ upc = "add" /\ sem = "free"
  /\ MessageStack' = Append(MessageStack, nextMsg)
  /\ nextMsg' = nextMsg + 1
  /\ upc' = "loop"
  /\ UNCHANGED <<proc, why, dialogs, MainForm, notice, queueVars, workerVars,
                 sockVars, netVars, histVars>>

\* Worker::callback dequeues one frame for each signal it gets.
Dequeue ==
  /\ upc = "loop" /\ events # <<>> /\ Head(events) = "callback"
  /\ events' = Tail(events)
  /\ queue' = Tail(queue)

DispatchFrame ==
  /\ Dequeue
  /\ Head(queue) # Lost
  /\ handled' = Append(handled, Head(queue).id)
  /\ \/ Head(queue).kind = "data"
        /\ MayAnswer
        /\ UNCHANGED <<why, dialogs, MainForm>>
     \/ Head(queue).kind = "run"
        /\ MainForm' = TRUE
        /\ UNCHANGED <<upc, why, dialogs>>
     \/ Head(queue).kind = "dialog"    \* its event loop runs inside this one
        /\ dialogs' = dialogs + 1
        /\ UNCHANGED <<upc, why, MainForm>>
     \/ Head(queue).kind = "quit"
        /\ upc' = "disconnect" /\ why' = "quit"
        /\ UNCHANGED <<dialogs, MainForm>>
  /\ UNCHANGED <<proc, notice, nextMsg, MessageStack, workerVars, sockVars,
                 netVars, histVars>>

DispatchLost ==
  /\ Dequeue
  /\ Head(queue) = Lost
  /\ upc' = "disconnect" /\ why' = "quit"
  /\ UNCHANGED <<proc, dialogs, MainForm, notice, nextMsg, handled,
                 MessageStack, workerVars, sockVars, netVars, histVars>>

\* ReconnectMessage: an error calls Done before the label is shown.
ShowNotice ==
  /\ upc = "loop" /\ events # <<>> /\ Head(events) # "callback"
  /\ events' = Tail(events)
  /\ IF Head(events) = "error"
     THEN upc' = "disconnect" /\ why' = "error" /\ UNCHANGED notice
     ELSE notice' = Head(events) /\ UNCHANGED <<upc, why>>
  /\ UNCHANGED <<proc, dialogs, MainForm, nextMsg, queue, handled,
                 MessageStack, workerVars, sockVars, netVars, histVars>>

\* The innermost dialog returns, and may answer the server.
CloseDialog ==
  /\ upc = "loop" /\ dialogs > 0
  /\ dialogs' = dialogs - 1
  /\ MayAnswer
  /\ UNCHANGED <<proc, why, MainForm, notice, nextMsg, queueVars, MessageStack,
                 workerVars, sockVars, netVars, histVars>>

\* app.exec returned to main, which calls Done unforced and returns.
AppReturns ==
  /\ upc = "loop" /\ dialogs = 0
  /\ upc' = "disconnect" /\ why' = "app"
  /\ UNCHANGED <<proc, dialogs, MainForm, notice, nextMsg, queueVars,
                 MessageStack, workerVars, sockVars, netVars, histVars>>

\* Done calls Disconnect, which takes no semaphore and may find a message in
\* the worker's hand.  A socket the worker is replacing is not touched.
Disconnect ==
  /\ upc = "disconnect"
  /\ upc' = "exit"
  /\ IF CLIENT_SOCKET = Invalid
     THEN UNCHANGED <<CLIENT_SOCKET, link, wire, inbox, dirty>>
     ELSE /\ CLIENT_SOCKET' = Invalid
          /\ link' = "none" /\ wire' = <<>> /\ inbox' = <<>>
          /\ dirty' = TRUE
  /\ UNCHANGED <<proc, why, dialogs, MainForm, notice, nextMsg, queueVars,
                 MessageStack, workerVars, SessionID, srv, nextFrame, failures,
                 delivered, mark>>

\* Done exits unless a dialog is open; then its callers go on.
Exit ==
  /\ upc = "exit" /\ (dialogs = 0 \/ why = "app")
  /\ proc' = "exited"
  /\ UNCHANGED <<uiVars, queueVars, MessageStack, workerVars, sockVars, netVars,
                 histVars>>

\* Mutant: the label is set before Done and not shown after it.
StayOpenSilent ==
  /\ upc = "exit" /\ dialogs > 0 /\ why # "app"
  /\ upc' = "loop"
  /\ MainForm' = IF why = "quit" THEN FALSE ELSE MainForm
  /\ UNCHANGED <<proc, why, dialogs, notice, nextMsg, queueVars, MessageStack,
                 workerVars, sockVars, netVars, histVars>>

StayOpen ==
  /\ upc = "exit" /\ dialogs > 0 /\ why # "app"
  /\ upc' = "loop"
  /\ MainForm' = IF why = "quit" THEN FALSE ELSE MainForm
  /\ notice' = IF why = "error" THEN "error" ELSE notice
  /\ UNCHANGED <<proc, why, dialogs, nextMsg, queueVars, MessageStack,
                 workerVars, sockVars, netVars, histVars>>

\* on_closeLink: the cross on the label calls exit(0).
CloseLink ==
  /\ upc = "loop" /\ notice # "hide"
  /\ proc' = "exited"
  /\ UNCHANGED <<uiVars, queueVars, MessageStack, workerVars, sockVars, netVars,
                 histVars>>

\* What the user interface thread does by itself, and what the user does.
UILoop == DispatchFrame \/ DispatchLost \/ ShowNotice \/ Disconnect \/ Exit
          \/ StayOpen
User   == UserSends \/ CloseDialog \/ AppReturns \/ CloseLink

UI == proc = "running" /\ (AddMessage \/ UILoop \/ User)

-----------------------------------------------------------------------------
(* The server and the network (not in this repository).                     *)

ServerReads ==
  /\ link = "up" /\ wire # <<>>
  /\ delivered' = Append(delivered, Head(wire))
  /\ wire' = Tail(wire)
  /\ UNCHANGED <<link, inbox, srv, nextFrame, failures, dirty>>

ServerSends ==
  /\ link = "up" /\ srv = "live" /\ nextFrame <= MaxRecv
  /\ \E kind \in FrameKinds : inbox' = Append(inbox, [id |-> nextFrame, kind |-> kind])
  /\ nextFrame' = nextFrame + 1
  /\ UNCHANGED <<link, wire, srv, failures, delivered, dirty>>

\* What is lost of a stream is its end; the frame select has reported to the
\* worker is not lost to silence.
LinkBreaks ==
  /\ link = "up" /\ failures < MaxFailures
  /\ link' \in LossKinds
  /\ \E n \in 0..Len(inbox) :
       /\ inbox' = SubSeq(inbox, 1, n)
       /\ link' = "stall" /\ wpc = "header" => n > 0
  /\ wire' = <<>>
  /\ failures' = failures + 1
  /\ dirty' = TRUE
  /\ UNCHANGED <<srv, nextFrame, delivered>>

\* The kernel's keepalive or its retransmissions end in a timeout.
SilenceTimesOut ==
  /\ link = "stall" /\ "timeout" \in LossKinds
  /\ link' = "timeout"
  /\ UNCHANGED <<wire, inbox, srv, nextFrame, failures, delivered, dirty>>

\* The application ends, or its session expires while the client is away.
SessionEnds ==
  /\ srv = "live" /\ failures < MaxFailures
  /\ srv' = "gone"
  /\ failures' = failures + 1
  /\ IF link = "up"
     THEN link' = "fin" /\ wire' = <<>> /\ dirty' = TRUE
     ELSE UNCHANGED <<link, wire, dirty>>
  /\ UNCHANGED <<inbox, nextFrame, delivered>>

Environment ==
  /\ ServerReads \/ ServerSends \/ LinkBreaks \/ SilenceTimesOut \/ SessionEnds
  /\ UNCHANGED <<proc, uiVars, queueVars, MessageStack, workerVars, sockVars, mark>>

-----------------------------------------------------------------------------
Next == Worker \/ UI \/ Environment

Spec == Init /\ [][Next]_vars

\* The worker thread runs; the event loop takes its events; the semaphore is
\* given to a thread that waits for it while it is free again and again (the
\* worker sleeps in select between two rounds); a server reads what it is sent.
\* The user owes nothing.
Fairness ==
  /\ WF_vars(Worker)
  /\ WF_vars(proc = "running" /\ UILoop)
  /\ SF_vars(proc = "running" /\ AddMessage)
  /\ WF_vars(ServerReads /\ Environment)

FairSpec == Spec /\ Fairness

-----------------------------------------------------------------------------
(* Refinement mappings: LossyFifo seen from the two ends.                   *)

Up == INSTANCE LossyFifo WITH
  next    <- nextMsg,
  pending <- Range(MessageStack) \cup Range(hand) \cup Range(wire),
  out     <- delivered

FrameIds(s) == {s[k].id : k \in 1..Len(s)}

Down == INSTANCE LossyFifo WITH
  next    <- nextFrame,
  pending <- (FrameIds(inbox) \cup FrameIds(got) \cup FrameIds(queue)) \ {Lost.id},
  out     <- handled

\* The messages of the user interface reach the server at most once and in the
\* order they were submitted, over any number of connections.
UpRefinement == Up!Spec

\* The frames of the server reach the user interface at most once and in the
\* order they were sent, over any number of connections and nested dialogs.
DownRefinement == Down!Spec

-----------------------------------------------------------------------------
(* Safety.                                                                  *)

\* A message overtakes no other and is sent once, although sends are retried
\* on new connections, and the user interface adds while the worker drains.
SentOnceInOrder ==
  \A i, j \in 1..Len(delivered) : i < j => delivered[i] < delivered[j]

\* Since the worker last noticed a failure (CheckReconnect) and until the next
\* one, no message is lost: what is submitted while it dials, for however long,
\* waits on MessageStack and follows on the new connection.
NoGapSinceRestore ==
  ~dirty => \A m \in mark .. (nextMsg - 1) :
              m \in Range(delivered) \cup Range(wire) \cup Range(hand)
                    \cup Range(MessageStack)

Signals(s) == {k \in 1..Len(s) : s[k] = "callback"}

\* There is a signal, posted or about to be, for each queued frame, so that
\* Worker::callback never dequeues from an empty queue and none is left behind.
SignalPerFrame ==
  Len(queue) = Cardinality(Signals(events))
               + (IF wpc \in {"emit", "quitEmit"} THEN 1 ELSE 0)

\* A session the server refused, or never gave, is not connected again.
NoDialAfterRefusal ==
  [][~SessionID /\ CLIENT_SOCKET = Invalid => CLIENT_SOCKET' = Invalid]_vars

\* When every attempt of doWork has failed the user is told: the label says so,
\* or its event waits, or ReconnectMessage is in Done, unless the user left.
GiveUpIsShown ==
  wpc \in {"quit", "quitEmit", "done"} /\ tries = Retries =>
    \/ "error" \in Range(events)
    \/ notice = "error"
    \/ why = "error" /\ upc \in {"disconnect", "exit"}

\* worker.cpp:76 says "60 retries": with a session to restore, doWork gives up
\* after sixty attempts.  (It makes twenty.)
SixtyRetries == wpc = "giveup" /\ SessionID => tries = 60

-----------------------------------------------------------------------------
(* Liveness.                                                                *)

\* An end, a reset and a frame that stops in its middle are noticed: the connection is
\* replaced, or the worker ends, even if the user interface is in nested dialogs and keeps
\* sending.  Of silence between two frames nothing is promised: select never reports it,
\* and the timeout it ends in makes doWork go round for ever.
LossIsNoticed ==
  (CLIENT_SOCKET = Open /\ link \in {"fin", "rst", "cut"}) ~>
     (link = "up" \/ wpc = "done" \/ proc = "exited")

\* The user interface does not wait for the semaphore for ever, although the
\* worker holds it during a blocking send.
AddsComplete == upc = "add" ~> (upc # "add" \/ proc = "exited")

\* The connection timed out and get_message said so or left it in errno: it answers -2 to
\* each orderly end that follows, and doWork neither sends nor reconnects.
TimedOut == link = "closed" /\ errno = "ETIMEDOUT"

\* A submitted message is added, and leaves the stack, however many times the connection
\* is replaced, unless the worker has ended or the connection timed out.
StackIsDrained ==
  /\ AddsComplete
  /\ \A m \in 1..MaxSend :
       m \in Range(MessageStack) ~>
         (m \notin Range(MessageStack) \/ wpc = "done" \/ proc = "exited" \/ TimedOut)

\* Every received frame is handled, in nested event loops too.
QueueIsServed == queue # <<>> ~> (queue = <<>> \/ proc = "exited")

\* Frames are served to the end: once the worker has ended so does the program, its last
\* frame is handled, and only a dialog open at that moment keeps Done from exiting.
EndIsServed ==
  /\ QueueIsServed
  /\ (wpc = "done" /\ queue # <<>> /\ dialogs = 0) ~> (proc = "exited" \/ dialogs > 0)
=============================================================================
