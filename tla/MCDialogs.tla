----------------------------- MODULE MCDialogs -----------------------------
(***************************************************************************)
(* The handlers that run inside each other while dialogs are open, with a    *)
(* server that waits for its answers and with one that does not, and clients  *)
(* that switch to each other, side by side for TLC: each behaviour is one of  *)
(* these, and the others stay as they began.                                 *)
(***************************************************************************)
EXTENDS Dispatch, TLC

CONSTANTS
  left, right,    \* clients
  Strangers,      \* addresses of others
  server, none,   \* addresses that are nobody's of these
  MaxSent,        \* bound: realtime messages
  MaxOthers       \* bound: queries to take a friend or to switch again, datagrams of strangers

VARIABLES
  part,  \* the part that moves
  RTSOCKET, serveraddr, is_p2p, p2paddr, lastaddr, ui, worker, net, budget, introduced, outcome, raced,
  intruded

\* A server that waits for each answer sends more frames.
Waiting == INSTANCE Dispatch WITH
  Kinds <- {"box", "login", "generic", "save", "post", "run"},
  Sequential <- TRUE, MaxFrames <- 5, MaxClicks <- 0

\* Two clients switch by way of a STUN server; one of them may take a friend or switch
\* once more, or a stranger sends a datagram.
Peers == INSTANCE PeerToPeer WITH
  Clients <- {left, right}, Server <- server, None <- none, Pairs <- {<<left, right>>, <<right, left>>},
  Stun <- TRUE, MaxLost <- 0, MaxSent <- MaxSent, MaxOthers <- MaxOthers

ASSUME PartsAssumption == Peers!PeerAssumption

peers == <<RTSOCKET, serveraddr, is_p2p, p2paddr, lastaddr, ui, worker, net, budget, introduced, outcome,
          raced, intruded>>
parts == <<part, vars, peers>>

PartsInit == part \in {"talking", "waiting", "peers"} /\ Init /\ Peers!Init

PartsNext ==
  /\ UNCHANGED part
  /\ \/ part = "talking" /\ Next /\ UNCHANGED peers
     \/ part = "waiting" /\ Waiting!Next /\ UNCHANGED peers
     \/ part = "peers" /\ Peers!Next /\ UNCHANGED vars

PartsSpec == PartsInit /\ [][PartsNext]_parts

\* No client is anything the other is not.
Symmetry == Permutations({left, right})

-----------------------------------------------------------------------------
\* No question is answered twice, or with the text of another, and a server that waits
\* for its answers gets them in the order of its questions, however many questions and
\* texts are handled inside a dialog (MESSAGE_CALLBACK, POST_STRING).
AnswersFit ==
  IF part = "waiting" THEN Waiting!AnswersMatch /\ Waiting!TextOfTheQuestion
                      ELSE TypeOK /\ AnswersMatch /\ TextOfTheQuestion

\* The program does not end under a dialog whose handler has still to answer, leaves no
\* cookie file behind however it ends, and ends by the close button only when the server
\* was silent for three clicks (dialogs, Done, closeEvent).
EndsCleanly == NoDialogIsCut /\ CookiesAreRemoved /\ ThreeClicks

\* A client that talks to a peer talks to one the server introduced, unless a stranger got
\* in before it had one; what others send to a client that was introduced to nobody is no
\* message; the realtime socket is dropped only if a switch began while a message was sent
\* (recv2, SwitchP2P, session_send).
PeersWereIntroduced ==
  Peers!TypeOK /\ Peers!PeerWasIntroduced /\ Peers!StrangersAreIgnored /\ Peers!SocketIsKept
=============================================================================
