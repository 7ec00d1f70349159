----------------------------- MODULE MCProgress -----------------------------
(***************************************************************************)
(* What must happen in the end, side by side for TLC: at a lock, when a       *)
(* command is started, with questions of the server, when two clients switch *)
(* to each other, and around the change to TLS.  Each behaviour is one of     *)
(* these parts, under the fairness its module states; the others stay as     *)
(* they began.                                                               *)
(***************************************************************************)
EXTENDS Lock, Sequences

CONSTANTS UI, MaxFrames, p, q, server, none

VARIABLES
  part,  \* the part that moves
  \* Commands
  ui, n, command, run_target, thread, runs, ShellList, woken, late,
  \* Dispatch
  queue, stack, dialogs, POST_STRING, POST_TARGET, secure_app, cw, MainForm, CookieList, disk,
  connected, exited, closeEvent, sent, MessageStack, decided, clicklog,
  \* PeerToPeer
  RTSOCKET, serveraddr, is_p2p, p2paddr, lastaddr, switching, peer, net, budget, introduced,
  outcome, raced, intruded,
  \* Tls
  tls, worker, layer, in_ssl_neg, ssl, toSend, toServer, toClient, host, frames, messages,
  stolen, crossed, waited, gaveUp, talked

\* Three frames for threads that may be slow to start.
Cmd == INSTANCE Commands WITH Slow <- TRUE

\* Three frames of a server that does not wait for its answers.
Questions == INSTANCE Dispatch WITH
  Kinds <- {"box", "yesno", "save", "error", "command", "post", "quit"}, Methods <- {"SHA1"},
  Sequential <- FALSE, MaxClicks <- 0

\* Two clients switch to each other, one datagram is lost.
Peers == INSTANCE PeerToPeer WITH
  ui <- switching, worker <- peer, Clients <- {p, q}, Strangers <- {}, Server <- server, None <- none,
  Pairs <- {<<p, q>>, <<q, p>>}, Stun <- FALSE, MaxLost <- 1, MaxSent <- 1, MaxOthers <- 0

Layers == INSTANCE Tls WITH
  ui <- tls, MessageStack <- toSend, server <- host, MaxFrames <- 2, MaxMessages <- 2

commands == <<ui, n, command, run_target, thread, runs, ShellList, woken, late>>
questions ==
  <<queue, stack, dialogs, POST_STRING, POST_TARGET, secure_app, cw, MainForm, CookieList, disk,
    connected, exited, closeEvent, sent, MessageStack, decided, clicklog>>
peers ==
  <<RTSOCKET, serveraddr, is_p2p, p2paddr, lastaddr, switching, peer, net, budget, introduced,
    outcome, raced, intruded>>
layers ==
  <<tls, worker, layer, in_ssl_neg, ssl, toSend, toServer, toClient, host, frames, messages,
    stolen, crossed, waited, gaveUp, talked>>
parts == <<part, sem, past, commands, questions, peers, layers>>

PartsInit ==
  /\ part \in {"lock", "commands", "questions", "peers", "tls"}
  /\ Init /\ Cmd!Init /\ Questions!Init /\ Peers!Init /\ Layers!Init

\* Only a lock and a handler may not stop.
PartsNext ==
  /\ UNCHANGED part
  /\ \/ part = "lock" /\ Next /\ UNCHANGED <<commands, questions, peers, layers>>
     \/ part = "commands" /\ Cmd!Next /\ UNCHANGED <<past, questions, peers, layers>>
     \/ part = "questions" /\ Questions!Next /\ UNCHANGED <<sem, past, commands, peers, layers>>
     \/ part = "peers" /\ Peers!Next /\ UNCHANGED <<sem, past, commands, questions, layers>>
     \/ part = "tls" /\ Layers!Next /\ UNCHANGED <<sem, past, commands, questions, peers>>
     \/ part \notin {"lock", "commands"} /\ UNCHANGED parts

\* The fairness of LiveSpec of each module, for the part that moves.
LockRuns ==
  \A t \in Threads :
    WF_<<sem, past>>(part = "lock" /\ Leave(t)) /\ WF_<<sem, past>>(part = "lock" /\ Signalled(t))

CommandsRun ==
  /\ WF_<<sem, commands>>(part = "commands" /\ Cmd!Handler)
  /\ \A t \in 1..MaxFrames : WF_<<sem, commands>>(part = "commands" /\ Cmd!Thread(t))
  /\ \A t \in Threads : WF_<<sem, commands>>(part = "commands" /\ Cmd!Signalled(t))

UserAnswers ==
  /\ WF_questions(part = "questions" /\ Questions!Handle)
  /\ WF_questions(part = "questions" /\ Questions!CloseDialog)

PeersRun ==
  \A c \in {p, q} :
    /\ \A d \in {p, q} : WF_peers(part = "peers" /\ Peers!SwitchP2P(c, d))
    /\ WF_peers(part = "peers" /\ Peers!Switching(c))
    /\ WF_peers(part = "peers" /\ Peers!Receiving(c))
    /\ WF_peers(part = "peers" /\ Peers!SendToPeer(c))

HandshakeEnds ==
  WF_layers(part = "tls" /\ Layers!InitTLS) /\ WF_layers(part = "tls" /\ Layers!Worker)

PartsSpec ==
  /\ PartsInit /\ [][PartsNext]_parts
  /\ LockRuns /\ CommandsRun /\ UserAnswers /\ PeersRun /\ HandshakeEnds

-----------------------------------------------------------------------------
\* If threads wait and none is inside one gets in, also when others were woken without a
\* signal, and the user interface thread comes back from every handler (semp, semv,
\* Execute, CommandThread).
NoSignalLost == (part = "lock" => NoSignalIsLost) /\ Cmd!HandlerReturns

\* Every question with a box of its own is answered in the end: no dialog below is forgotten.
AnswersCome == Questions!AnswersCome

\* Two clients told to switch to each other end up talking to each other for good.
BothSwitch == part = "peers" => Peers!BothSwitch

\* A handshake ends, and the worker is let go.
NegotiationEnds == Layers!NegotiationEnds
=============================================================================
