--------------------------- MODULE DialogsProofs ---------------------------
(***************************************************************************)
(* A server that talks on, one that waits for its answers, and clients that   *)
(* switch to each other, side by side as in MCDialogs: for the talking server *)
(* with any kinds of frames and any bounds, for the others with any methods   *)
(* and any two clients.                                                      *)
(***************************************************************************)
EXTENDS MCDialogs, DispatchProofs

Wait == INSTANCE DispatchProofs WITH
  Kinds <- {"box", "login", "generic", "save", "post", "run"},
  Sequential <- TRUE, MaxFrames <- 5, MaxClicks <- 0

-----------------------------------------------------------------------------
(* The server that waits is one the proofs of DispatchProofs are about. *)

\* Its assumption holds, whatever the methods are.
LEMMA WaitingAssumption == DispatchAssumption => Wait!DispatchAssumption
BY DEF DispatchAssumption, Wait!DispatchAssumption, AllKinds, Wait!AllKinds, Counted,
       Wait!Counted,
       Questions, Wait!Questions, Risky, Wait!Risky, FileDialogs, Wait!FileDialogs

\* Its first states, and the frames it sends.
LEMMA WaitingBegins == Init => Wait!Init
BY DEF Init, Wait!Init

\* Its handlers that open a dialog.
LEMMA WaitingOpens == Waiting!OpenDialog => Wait!OpenDialog
BY DEF Waiting!OpenDialog, Wait!OpenDialog, Waiting!Take, Wait!Take, Waiting!First, Wait!First,
       Waiting!Opens, Wait!Opens, Waiting!Asks, Wait!Asks, Waiting!Weight, Wait!Weight,
       Waiting!Risky, Wait!Risky, Waiting!FileDialogs, Wait!FileDialogs, Waiting!Counted,
       Wait!Counted, Waiting!ends, Wait!ends
\* What they do when it is closed.
LEMMA WaitingCloses == Waiting!CloseDialog => Wait!CloseDialog
<1> SUFFICES ASSUME NEW res \in {"yes", "no"},
                    \/ Waiting!CloseBox(res) \/ Waiting!CloseLogin(res) \/ Waiting!CloseFile(res)
                    \/ Waiting!CloseError(res) \/ Waiting!CloseConsent(res)
             PROVE  Wait!CloseDialog
  BY DEF Waiting!CloseDialog
<1>1. Waiting!CloseBox(res) => Wait!CloseBox(res)
  BY DEF Waiting!CloseBox, Wait!CloseBox, Waiting!Reply, Wait!Reply, Waiting!NoReply,
         Wait!NoReply,
         Waiting!Answer, Wait!Answer, Waiting!Shown, Wait!Shown, Waiting!Close, Wait!Close,
         Waiting!Top, Wait!Top, Waiting!Weight, Wait!Weight, Waiting!Counted, Wait!Counted,
         Waiting!Risky, Wait!Risky, Waiting!ends, Wait!ends
<1>2. Waiting!CloseLogin(res) => Wait!CloseLogin(res)
  BY DEF Waiting!CloseLogin, Wait!CloseLogin, Waiting!Reply, Wait!Reply, Waiting!Answer,
         Wait!Answer, Waiting!Shown, Wait!Shown, Waiting!LoginAnswers, Wait!LoginAnswers,
         Waiting!Salted, Wait!Salted, Waiting!Close, Wait!Close, Waiting!Top, Wait!Top,
         Waiting!Weight, Wait!Weight, Waiting!Counted, Wait!Counted, Waiting!Risky, Wait!Risky,
         Waiting!ends, Wait!ends
<1>3. Waiting!CloseFile(res) => Wait!CloseFile(res)
  BY DEF Waiting!CloseFile, Wait!CloseFile, Waiting!Reply, Wait!Reply, Waiting!Answer,
         Wait!Answer,
         Waiting!Shown, Wait!Shown, Waiting!FileDialogs, Wait!FileDialogs, Waiting!Close,
         Wait!Close, Waiting!Top, Wait!Top, Waiting!Weight, Wait!Weight, Waiting!Counted,
         Wait!Counted, Waiting!Risky, Wait!Risky, Waiting!ends, Wait!ends
<1>4. Waiting!CloseError(res) => Wait!CloseError(res)
  BY DEF Waiting!CloseError, Wait!CloseError, Waiting!Done, Wait!Done, Waiting!NoReply,
         Wait!NoReply, Waiting!Close, Wait!Close, Waiting!Top, Wait!Top, Waiting!Weight,
         Wait!Weight, Waiting!Counted, Wait!Counted, Waiting!Risky, Wait!Risky, Waiting!ends,
         Wait!ends
<1>5. Waiting!CloseConsent(res) => Wait!CloseConsent(res)
  BY DEF Waiting!CloseConsent, Wait!CloseConsent, Waiting!Settled, Wait!Settled,
         Waiting!Permitted,
         Wait!Permitted, Waiting!Reply, Wait!Reply, Waiting!NoReply, Wait!NoReply, Waiting!Answer,
         Wait!Answer, Waiting!Close, Wait!Close, Waiting!Top, Wait!Top, Waiting!Weight,
         Wait!Weight, Waiting!Counted, Wait!Counted, Waiting!Risky, Wait!Risky, Waiting!ends,
         Wait!ends
<1> QED BY <1>1, <1>2, <1>3, <1>4, <1>5 DEF Wait!CloseDialog

\* Its handlers that open none.
LEMMA WaitingHandles == Waiting!Handle => Wait!Handle
<1>1. Waiting!HandleQuery => Wait!HandleQuery
  BY DEF Waiting!HandleQuery, Wait!HandleQuery, Waiting!Reply, Wait!Reply, Waiting!Answer,
         Wait!Answer, Waiting!Take, Wait!Take, Waiting!First, Wait!First, Waiting!ends, Wait!ends
<1>2. Waiting!HandleRisky => Wait!HandleRisky
  BY DEF Waiting!HandleRisky, Wait!HandleRisky, Waiting!Asks, Wait!Asks, Waiting!Risky,
         Wait!Risky,
         Waiting!Permitted, Wait!Permitted, Waiting!Reply, Wait!Reply, Waiting!NoReply,
         Wait!NoReply, Waiting!Answer, Wait!Answer, Waiting!Take, Wait!Take, Waiting!First,
         Wait!First, Waiting!ends, Wait!ends
<1>3. Waiting!HandlePost => Wait!HandlePost
  BY DEF Waiting!HandlePost, Wait!HandlePost, Waiting!Take, Wait!Take, Waiting!First, Wait!First,
         Waiting!ends, Wait!ends
<1>4. Waiting!HandleLogin => Wait!HandleLogin
  BY DEF Waiting!HandleLogin, Wait!HandleLogin, Waiting!Take, Wait!Take, Waiting!First,
         Wait!First,
         Waiting!ends, Wait!ends
<1>5. Waiting!HandleText => Wait!HandleText
  BY DEF Waiting!HandleText, Wait!HandleText, Waiting!Take, Wait!Take, Waiting!First, Wait!First,
         Waiting!ends, Wait!ends
<1>6. Waiting!HandleRun => Wait!HandleRun
  BY DEF Waiting!HandleRun, Wait!HandleRun, Waiting!Take, Wait!Take, Waiting!First, Wait!First,
         Waiting!ends, Wait!ends
<1>7. Waiting!HandleQuit => Wait!HandleQuit
  BY DEF Waiting!HandleQuit, Wait!HandleQuit, Waiting!Done, Wait!Done, Waiting!Take, Wait!Take,
         Waiting!First, Wait!First, Waiting!ends, Wait!ends
<1>8. Waiting!HandleCookie => Wait!HandleCookie
  BY DEF Waiting!HandleCookie, Wait!HandleCookie, Waiting!Reply, Wait!Reply, Waiting!NoReply,
         Wait!NoReply, Waiting!Answer, Wait!Answer, Waiting!Take, Wait!Take, Waiting!First,
         Wait!First, Waiting!ends, Wait!ends
<1> QED BY WaitingOpens, <1>1, <1>2, <1>3, <1>4, <1>5, <1>6, <1>7, <1>8
        DEF Waiting!Handle, Wait!Handle

\* What its user does outside of dialogs.
LEMMA WaitingClicks ==
  (Waiting!ConsoleButton => Wait!ConsoleButton) /\ (Waiting!Click => Wait!Click)
<1>1. Waiting!ConsoleButton => Wait!ConsoleButton
  BY DEF Waiting!ConsoleButton, Wait!ConsoleButton, Waiting!CancelAnswer, Wait!CancelAnswer,
         Waiting!Reply, Wait!Reply, Waiting!LoginAnswers, Wait!LoginAnswers, Waiting!Answer,
         Wait!Answer, Waiting!Salted, Wait!Salted, Waiting!ends, Wait!ends
<1>2. Waiting!Click => Wait!Click
  BY DEF Waiting!Click, Wait!Click, Waiting!Done, Wait!Done, Waiting!Silent, Wait!Silent,
         Waiting!ends, Wait!ends
<1> QED BY <1>1, <1>2

\* Its frames, and all of its steps.
LEMMA WaitingIs == Waiting!Next => Wait!Next
<1>1. ASSUME NEW kind, NEW method
      PROVE  Waiting!ServerSends(kind, method) => Wait!ServerSends(kind, method)
  BY DEF Waiting!ServerSends, Wait!ServerSends, Waiting!Answered, Wait!Answered, Waiting!Posted,
         Wait!Posted, Waiting!Questions, Wait!Questions, Waiting!FileDialogs, Wait!FileDialogs,
         Waiting!ends, Wait!ends
<1> QED BY <1>1, WaitingHandles, WaitingCloses, WaitingClicks DEF Waiting!Next, Wait!Next
-----------------------------------------------------------------------------
(* The clients that switch: the invariant, part by part *)

Client == {left, right}
Sender == Client \cup Strangers
Peer(c) == IF c = left THEN right ELSE left

\* The server has told c to talk to the other.
Told(c) == <<c, Peer(c)>> \in introduced

PeerTypes ==
  /\ Peers!TypeOK
  /\ budget \in [pairs : SUBSET {<<left, right>>, <<right, left>>}, lost : Nat, sent : Nat,
                 others : Nat]

\* The worker is in recv2 with a datagram it has taken.
HasDatagram(c) == worker[c].pc \notin {"idle", "sendto"}

\* Every address c knows is of the other, of a stranger or of the server.
Addressed(c) ==
  /\ c \notin {serveraddr[c], p2paddr[c], lastaddr[c]}
  /\ ui[c].pc # "idle" => ui[c].peer = Peer(c)
  /\ HasDatagram(c) => worker[c].from \in {Peer(c)} \cup Strangers

\* Until it is told to talk to somebody, c has no peer, is not about to have one and
\* passes over what it hears.
WasTold(c) ==
  \/ Told(c)
  \/ /\ serveraddr[c] = server /\ is_p2p[c] = 0 /\ p2paddr[c] = none /\ ui[c].pc = "idle"
     /\ worker[c].pc \in {"idle", "source", "early", "remember"}
     /\ outcome[c] \in {"none", "empty"}

\* c talks, or is about to talk, only if the other was told to talk to it, or a stranger
\* got in.
GotIn(c) == \E s \in Strangers : <<s, c>> \in intruded

Heard(c) ==
  /\ is_p2p[c] = 2 => Told(Peer(c)) \/ GotIn(c)
  /\ lastaddr[c] = Peer(c) => Told(Peer(c))
  /\ HasDatagram(c) /\ worker[c].from = Peer(c) => Told(Peer(c))

\* A stranger is the peer, or about to be, only if he got in; what recv2 has of another
\* is passed on or passed over, because c talks to its peer or he did not say "hi".
LetIn(c) ==
  /\ p2paddr[c] \in Strangers => <<p2paddr[c], c>> \in intruded
  /\ lastaddr[c] \in Strangers => <<lastaddr[c], c>> \in intruded
  /\ HasDatagram(c) /\ worker[c].from \in Strangers =>
       \/ <<worker[c].from, c>> \in intruded
       \/ /\ ui[c].pc = "idle" /\ is_p2p[c] = 2
          /\ worker[c].pc \in {"source", "early", "known"}
       \/ /\ ui[c].pc = "idle" /\ is_p2p[c] = 0 /\ worker[c].kind # "hi"
          /\ worker[c].pc \in {"source", "early", "remember"}

\* What session_send has seen of the peer holds until the sendto, unless a switch began.
Sends(c) ==
  /\ worker[c].pc = "sendto" => p2paddr[c] # none \/ c \in raced
  /\ ~RTSOCKET[c] => c \in raced

OfClient(c) == Addressed(c) /\ WasTold(c) /\ Heard(c) /\ LetIn(c) /\ Sends(c)

\* Every datagram under way is of a stranger, or of a client that was told to talk to its
\* receiver.
OnTheWay ==
  \A to \in Client, from \in Sender, kind \in Peers!Datagrams :
    net[<<to, from, kind>>] > 0 /\ from \notin Strangers => from = Peer(to) /\ Told(from)

PeersInv == PeerTypes /\ OnTheWay /\ \A c \in Client : OfClient(c)

-----------------------------------------------------------------------------
(* ... and that each step of a client keeps it *)

\* There are two clients, and each is the peer of the other.
LEMMA TwoClients ==
  /\ left # right /\ server \notin Client /\ none \notin Client /\ none # server
  /\ server \notin Strangers /\ none \notin Strangers /\ \A c \in Client : c \notin Strangers
  /\ \A c \in Client : Peer(c) \in Client /\ Peer(c) # c /\ Peer(Peer(c)) = c
  /\ \A c, d \in Client : d = c \/ d = Peer(c)
<1>1. /\ left # right /\ server \notin Client /\ none \notin Client /\ none # server
      /\ server \notin Strangers /\ none \notin Strangers /\ \A c \in Client : c \notin Strangers
  BY PartsAssumption DEF Peers!PeerAssumption, Client
<1> QED BY <1>1 DEF Client, Peer

\* The types before a step.
LEMMA Before ==
  ASSUME PeersInv
  PROVE  /\ RTSOCKET \in [Client -> BOOLEAN] /\ is_p2p \in [Client -> 0..2]
         /\ serveraddr \in [Client -> Client \cup {server}]
         /\ p2paddr \in [Client -> Sender \cup {none}] /\ lastaddr \in [Client -> Sender \cup {none}]
         /\ ui \in [Client -> [pc : {"idle", "resolve", "stun", "wait", "last", "hi1", "hi2", "hi3"},
                               peer : Client \cup {none}]]
         /\ worker \in [Client -> [pc : {"idle", "source", "meet", "met", "early", "remember",
                                         "known", "sendto"},
                                   from : Sender \cup {none}, kind : Peers!Datagrams]]
         /\ net \in [Client \X Sender \X Peers!Datagrams -> Nat]
         /\ outcome \in [Client -> {"none", "empty", "again", "message", "failed"}]
<1>1. server # none
  BY TwoClients
<1> QED BY <1>1 DEF PeersInv, PeerTypes, Peers!TypeOK, Peers!Senders, Sender, Client

\* A worker that is out of recv2 has no datagram.
LEMMA IdleWorker ==
  /\ Peers!Idle.pc = "idle"
  /\ Peers!Idle \in [pc : {"idle", "source", "meet", "met", "early", "remember", "known", "sendto"},
                      from : Sender \cup {none}, kind : Peers!Datagrams]
BY DEF Peers!Idle, Peers!Datagrams

\* A client a step does not touch stays as it was; the server takes back nothing.
LEMMA OthersStay ==
  ASSUME NEW d \in Client, OfClient(d), introduced \subseteq introduced', raced \subseteq raced',
         intruded \subseteq intruded', RTSOCKET'[d] = RTSOCKET[d], serveraddr'[d] = serveraddr[d], is_p2p'[d] = is_p2p[d],
         p2paddr'[d] = p2paddr[d], lastaddr'[d] = lastaddr[d], ui'[d] = ui[d],
         worker'[d] = worker[d], outcome'[d] = outcome[d]
  PROVE  OfClient(d)'
BY DEF OfClient, Addressed, WasTold, Heard, LetIn, GotIn, Sends, Told, HasDatagram

\* Nothing is under way that was not before.
LEMMA NothingSent ==
  ASSUME OnTheWay, introduced \subseteq introduced',
         \A to \in Client, from \in Sender, kind \in Peers!Datagrams :
           net'[<<to, from, kind>>] > 0 => net[<<to, from, kind>>] > 0
  PROVE  OnTheWay'
BY DEF OnTheWay, Told

\* A datagram that c sends, to the other or to nobody, may be under way.
LEMMA MaySend ==
  ASSUME PeersInv, NEW c \in Client, NEW to \in Sender \cup {server, none}, to # c,
         NEW kind \in Peers!Datagrams, Peers!Sendto(c, to, kind, 1),
         introduced \subseteq introduced', to \in Client => Told(c)'
  PROVE  OnTheWay' /\ net' \in [Client \X Sender \X Peers!Datagrams -> Nat]
<1>0. OnTheWay /\ net \in [Client \X Sender \X Peers!Datagrams -> Nat]
  BY Before DEF PeersInv
<1>1. CASE to \in Client
  <2>1. to = Peer(c) /\ c = Peer(to)
    BY <1>1, TwoClients
  <2>2. net' = [net EXCEPT ![<<to, c, kind>>] = @ + 1]
    BY <1>1 DEF Peers!Sendto, Client
  <2>3. net' \in [Client \X Sender \X Peers!Datagrams -> Nat]
    BY <1>0, <1>1, <2>2 DEF Sender
  <2>4. ASSUME NEW t \in Client, NEW f \in Sender, NEW k \in Peers!Datagrams,
               <<t, f, k>> # <<to, c, kind>>
        PROVE  net'[<<t, f, k>>] = net[<<t, f, k>>]
    BY <1>0, <2>2, <2>4
  <2>5. OnTheWay'
    BY <1>0, <1>1, <2>1, <2>4 DEF OnTheWay, Told
  <2> QED BY <2>3, <2>5
<1>2. CASE to \notin Client
  <2>1. net' = net
    BY <1>2 DEF Peers!Sendto, Client
  <2> QED BY <1>0, <2>1, NothingSent
<1> QED BY <1>1, <1>2

\* A datagram that is taken from the network, or lost, is no longer under way.
LEMMA MayTake ==
  ASSUME PeersInv, NEW t \in Client, NEW f \in Sender, NEW k \in Peers!Datagrams,
         net[<<t, f, k>>] > 0, net' = [net EXCEPT ![<<t, f, k>>] = @ - 1],
         introduced \subseteq introduced'
  PROVE  /\ OnTheWay' /\ net' \in [Client \X Sender \X Peers!Datagrams -> Nat]
         /\ f \in Strangers \/ (f = Peer(t) /\ Told(f))
<1>0. OnTheWay /\ net \in [Client \X Sender \X Peers!Datagrams -> Nat]
  BY Before DEF PeersInv
<1>1. net' \in [Client \X Sender \X Peers!Datagrams -> Nat]
  BY <1>0
<1>2. \A to \in Client, from \in Sender, kind \in Peers!Datagrams :
        net'[<<to, from, kind>>] > 0 => net[<<to, from, kind>>] > 0
  BY <1>0
<1>3. OnTheWay'
  BY <1>0, <1>2, NothingSent
<1> QED BY <1>0, <1>1, <1>3 DEF OnTheWay

\* A step of c touches nothing of the other client.
OnlyOf(c) ==
  /\ introduced \subseteq introduced' /\ raced \subseteq raced' /\ intruded \subseteq intruded'
  /\ \A d \in Client \ {c} :
       /\ RTSOCKET'[d] = RTSOCKET[d] /\ serveraddr'[d] = serveraddr[d] /\ is_p2p'[d] = is_p2p[d]
       /\ p2paddr'[d] = p2paddr[d] /\ lastaddr'[d] = lastaddr[d] /\ ui'[d] = ui[d]
       /\ worker'[d] = worker[d] /\ outcome'[d] = outcome[d]

\* So it keeps the invariant if it keeps what is said of c.
LEMMA StepOf ==
  ASSUME PeersInv, NEW c \in Client, OnlyOf(c), PeerTypes', OnTheWay', OfClient(c)'
  PROVE  PeersInv'
<1>1. ASSUME NEW d \in Client, d # c
      PROVE  OfClient(d)'
  BY <1>1, OthersStay DEF OnlyOf, PeersInv
<1> QED BY <1>1 DEF PeersInv

\* SwitchP2P as it begins: what was known of the peer is forgotten.
LEMMA SwitchBegins ==
  ASSUME PeersInv, NEW c \in Client, NEW peer \in Client, Peers!SwitchP2P(c, peer)
  PROVE  PeersInv'
<1>0. peer = Peer(c)
  BY TwoClients DEF Peers!SwitchP2P, PeersInv, PeerTypes, Peer
<1>a. /\ is_p2p' = [is_p2p EXCEPT ![c] = 0] /\ p2paddr' = [p2paddr EXCEPT ![c] = none]
      /\ raced' = IF worker[c].pc = "sendto" THEN raced \cup {c} ELSE raced
      /\ IF RTSOCKET[c]
           THEN /\ ui' = [ui EXCEPT ![c] = [pc |-> "resolve", peer |-> peer]]
                /\ introduced' = introduced \cup {<<c, peer>>}
           ELSE UNCHANGED <<ui, introduced>>
      /\ UNCHANGED <<RTSOCKET, serveraddr, lastaddr, worker, net, outcome>>
  BY DEF Peers!SwitchP2P
<1>b. /\ intruded \subseteq intruded'
      /\ HasDatagram(c) /\ worker[c].from \in Strangers => <<worker[c].from, c>> \in intruded'
  BY DEF Peers!SwitchP2P, Peers!Intrudes, HasDatagram
<1>c. budget' \in [pairs : SUBSET {<<left, right>>, <<right, left>>}, lost : Nat, sent : Nat,
                   others : Nat]
  <2>1. CASE budget' = [budget EXCEPT !.pairs = @ \ {<<c, peer>>}]
    BY <2>1 DEF PeersInv, PeerTypes
  <2>2. CASE budget.others > 0 /\ budget' = [budget EXCEPT !.others = @ - 1]
    BY <2>2 DEF PeersInv, PeerTypes
  <2> QED BY <2>1, <2>2 DEF Peers!SwitchP2P
<1>1. PeerTypes'
  <2>1. ui' \in [Client -> [pc : {"idle", "resolve", "stun", "wait", "last", "hi1", "hi2", "hi3"},
                            peer : Client \cup {none}]]
    BY <1>a, Before
  <2>2. is_p2p' \in [Client -> 0..2] /\ p2paddr' \in [Client -> Sender \cup {none}]
    BY <1>a, Before
  <2> QED BY <1>a, <1>c, <2>1, <2>2, Before DEF PeerTypes, Peers!TypeOK, Peers!Senders, Sender, Client
<1>2. OnlyOf(c)
  BY <1>a, <1>b, Before DEF OnlyOf
<1>3. OfClient(c)'
  <2>0. OfClient(c) /\ none # c /\ none \notin Strangers
    BY TwoClients DEF PeersInv
  <2>1. /\ is_p2p'[c] = 0 /\ p2paddr'[c] = none /\ worker' = worker /\ raced \subseteq raced'
        /\ UNCHANGED <<RTSOCKET, serveraddr, lastaddr, outcome>> /\ introduced \subseteq introduced'
        /\ worker[c].pc = "sendto" => c \in raced'
    BY <1>a, Before
  <2>2. CASE RTSOCKET[c]
    <3>1. ui'[c].peer = Peer(c) /\ Told(c)'
      BY <1>0, <1>a, <2>2, Before DEF Told
    <3> QED BY <1>b, <2>0, <2>1, <2>2, <3>1
            DEF OfClient, Addressed, WasTold, Heard, LetIn, GotIn, Sends, Told, HasDatagram
  <2>3. CASE ~RTSOCKET[c]
    <3>1. UNCHANGED <<ui, introduced>>
      BY <1>a, <2>3
    <3> QED BY <1>b, <2>0, <2>1, <3>1
            DEF OfClient, Addressed, WasTold, Heard, LetIn, GotIn, Sends, Told, HasDatagram
  <2> QED BY <2>2, <2>3
<1>4. OnTheWay'
  BY NothingSent DEF Peers!SwitchP2P, PeersInv
<1> QED BY <1>1, <1>2, <1>3, <1>4, StepOf
\* The peer of the server is the peer.
LEMMA PeerResolved ==
  ASSUME PeersInv, NEW c \in Client, Peers!Resolve(c)
  PROVE  PeersInv'
<1>0. /\ OfClient(c) /\ none # c /\ Peer(c) # none /\ Peer(c) # c /\ Peer(c) \in Client
      /\ Peer(c) \notin Strangers /\ none \notin Strangers
  BY TwoClients DEF PeersInv
<1>1. PeerTypes'
  BY <1>0, Before DEF Peers!Resolve, Peers!At, Peers!GoTo, Peers!log, PeersInv, PeerTypes,
                      Peers!TypeOK, Peers!Senders, Sender, Client, OfClient, Addressed
<1>2. OnlyOf(c)
  BY Before DEF Peers!Resolve, Peers!At, Peers!GoTo, Peers!log, OnlyOf
<1>3. OfClient(c)'
  BY <1>0, Before
     DEF Peers!Resolve, Peers!At, Peers!GoTo, Peers!log, OfClient, Addressed, WasTold, Heard, LetIn,
         GotIn, Sends, Told, HasDatagram
<1>4. OnTheWay'
  BY NothingSent DEF Peers!Resolve, Peers!At, Peers!GoTo, Peers!log, PeersInv
<1> QED BY <1>1, <1>2, <1>3, <1>4, StepOf

\* The STUN server answers, or does not.
LEMMA StunGoesOn ==
  ASSUME PeersInv, NEW c \in Client, Peers!StunAnswered(c) \/ Peers!StunTimesOut(c)
  PROVE  PeersInv'
<1>0. /\ OfClient(c) /\ none # c /\ Peer(c) # none /\ Peer(c) # c /\ Peer(c) \in Client
      /\ Peer(c) \notin Strangers /\ none \notin Strangers
  BY TwoClients DEF PeersInv
<1>1. PeerTypes'
  BY <1>0, Before DEF Peers!StunAnswered, Peers!StunTimesOut, Peers!At, Peers!GoTo, Peers!log,
                      Peers!p2p, PeersInv, PeerTypes, Peers!TypeOK, Peers!Senders, Sender, Client,
                      OfClient, Addressed
<1>2. OnlyOf(c)
  BY Before DEF Peers!StunAnswered, Peers!StunTimesOut, Peers!At, Peers!GoTo, Peers!log,
                Peers!p2p, OnlyOf
<1>3. OfClient(c)'
  <2>1. /\ ui[c].pc = "stun" /\ ui'[c].pc \in {"wait", "idle"} /\ ui'[c].peer = ui[c].peer
        /\ UNCHANGED <<RTSOCKET, serveraddr, is_p2p, p2paddr, lastaddr, worker, introduced, outcome,
                       raced, intruded>>
    BY Before DEF Peers!StunAnswered, Peers!StunTimesOut, Peers!At, Peers!GoTo, Peers!log, Peers!p2p
  <2> QED BY <1>0, <2>1
          DEF OfClient, Addressed, WasTold, Heard, LetIn, GotIn, Sends, Told, HasDatagram
<1>4. OnTheWay'
  BY NothingSent DEF Peers!StunAnswered, Peers!StunTimesOut, Peers!At, Peers!GoTo, Peers!log,
                     Peers!p2p, PeersInv
<1> QED BY <1>1, <1>2, <1>3, <1>4, StepOf

\* c waits for its peer.
LEMMA PeerAwaited ==
  ASSUME PeersInv, NEW c \in Client, Peers!WaitForPeer(c)
  PROVE  PeersInv'
<1>0. /\ OfClient(c) /\ none # c /\ Peer(c) # none /\ Peer(c) # c /\ Peer(c) \in Client
      /\ Peer(c) \notin Strangers /\ none \notin Strangers
  BY TwoClients DEF PeersInv
<1>1. PeerTypes'
  BY <1>0, Before DEF Peers!WaitForPeer, Peers!At, Peers!GoTo, Peers!log, PeersInv, PeerTypes,
                      Peers!TypeOK, Peers!Senders, Sender, Client, OfClient, Addressed
<1>2. OnlyOf(c)
  BY Before DEF Peers!WaitForPeer, Peers!At, Peers!GoTo, Peers!log, OnlyOf
<1>3. OfClient(c)'
  BY <1>0, Before
     DEF Peers!WaitForPeer, Peers!At, Peers!GoTo, Peers!log, OfClient, Addressed, WasTold, Heard, LetIn,
         GotIn, Sends, Told, HasDatagram
<1>4. OnTheWay'
  BY NothingSent DEF Peers!WaitForPeer, Peers!At, Peers!GoTo, Peers!log, PeersInv
<1> QED BY <1>1, <1>2, <1>3, <1>4, StepOf

\* Who said "hi" before is the peer.
LEMMA LastUsed ==
  ASSUME PeersInv, NEW c \in Client, Peers!UseLast(c)
  PROVE  PeersInv'
<1>0. /\ OfClient(c) /\ none # c /\ Peer(c) # none /\ Peer(c) # c /\ Peer(c) \in Client
      /\ Peer(c) \notin Strangers /\ none \notin Strangers
  BY TwoClients DEF PeersInv
<1>1. PeerTypes'
  BY <1>0, Before DEF Peers!UseLast, Peers!At, Peers!GoTo, Peers!log, Peers!p2p, PeersInv,
                      PeerTypes, Peers!TypeOK, Peers!Senders, Sender, Client, OfClient, Addressed
<1>2. OnlyOf(c)
  BY Before DEF Peers!UseLast, Peers!At, Peers!GoTo, Peers!log, Peers!p2p, OnlyOf
<1>3. OfClient(c)'
  <2>1. /\ ui[c].pc = "last" /\ ui'[c].pc = "hi1" /\ ui'[c].peer = ui[c].peer
        /\ UNCHANGED <<RTSOCKET, serveraddr, worker, raced, intruded, introduced, outcome>>
    BY Before DEF Peers!UseLast, Peers!At, Peers!GoTo, Peers!log
  <2>2. CASE lastaddr[c] = none
    <3>1. UNCHANGED <<is_p2p, p2paddr, lastaddr>>
      BY <2>2 DEF Peers!UseLast, Peers!p2p
    <3> QED BY <1>0, <2>1, <3>1 DEF OfClient, Addressed, WasTold, Heard, LetIn, GotIn, Sends, Told, HasDatagram
  <2>3. CASE lastaddr[c] # none
    <3>1. p2paddr'[c] = lastaddr[c] /\ lastaddr'[c] = none /\ is_p2p'[c] = 2
      BY <2>3, Before DEF Peers!UseLast
    <3>2. lastaddr[c] = Peer(c) \/ lastaddr[c] \in Strangers
      BY <1>0, <2>3, Before, TwoClients DEF OfClient, Addressed, Sender
    <3> QED BY <1>0, <2>1, <2>3, <3>1, <3>2
            DEF OfClient, Addressed, WasTold, Heard, LetIn, GotIn, Sends, Told, HasDatagram
  <2> QED BY <2>2, <2>3
<1>4. OnTheWay'
  BY NothingSent DEF Peers!UseLast, Peers!At, Peers!GoTo, Peers!log, Peers!p2p, PeersInv
<1> QED BY <1>1, <1>2, <1>3, <1>4, StepOf

\* recv2 looks at where the datagram is from.
LEMMA SourceChecked ==
  ASSUME PeersInv, NEW c \in Client, Peers!CheckSource(c)
  PROVE  PeersInv'
<1>0. /\ OfClient(c) /\ none # c /\ Peer(c) # none /\ Peer(c) # c /\ Peer(c) \in Client
      /\ Peer(c) \notin Strangers /\ none \notin Strangers
  BY TwoClients DEF PeersInv
<1>1. PeerTypes'
  BY <1>0, Before
     DEF Peers!CheckSource, Peers!Doing, Peers!Becomes, Peers!log, Peers!p2p, PeersInv, PeerTypes,
         Peers!TypeOK, Peers!Senders, Sender, Client, OfClient, Addressed
<1>2. OnlyOf(c)
  BY Before DEF Peers!CheckSource, Peers!Doing, Peers!Becomes, Peers!log, Peers!p2p, OnlyOf
<1>3. OfClient(c)'
  <2>1. /\ worker[c].pc = "source" /\ worker'[c].from = worker[c].from
        /\ worker'[c].pc = IF worker[c].from = serveraddr[c] THEN "known"
                           ELSE IF is_p2p[c] = 1 THEN "meet" ELSE "early"
        /\ UNCHANGED <<RTSOCKET, serveraddr, is_p2p, p2paddr, lastaddr, ui, introduced, outcome,
                       raced, intruded>>
    BY Before DEF Peers!CheckSource, Peers!Doing, Peers!Becomes, Peers!log, Peers!p2p
  <2>2. /\ worker[c].from \in {Peer(c)} \cup Strangers /\ worker[c].from # server
        /\ worker[c].from \in Strangers => worker[c].from # serveraddr[c]
    <3>1. serveraddr[c] \in Client \cup {server}
      BY Before
    <3> QED BY <1>0, <2>1, <3>1, TwoClients DEF OfClient, Addressed, HasDatagram, Sender
  <2>3. worker'[c].pc # "early" => Told(c)
    BY <1>0, <2>1, <2>2 DEF OfClient, WasTold
  <2>4. worker'[c].kind = worker[c].kind
    BY Before DEF Peers!CheckSource, Peers!Becomes
  <2> QED BY <1>0, <2>1, <2>2, <2>3, <2>4
          DEF OfClient, Addressed, WasTold, Heard, LetIn, GotIn, Sends, Told, HasDatagram
<1>4. OnTheWay'
  BY NothingSent DEF Peers!CheckSource, Peers!Doing, Peers!Becomes, Peers!log, Peers!p2p, PeersInv
<1> QED BY <1>1, <1>2, <1>3, <1>4, StepOf

\* The first datagram of a stranger makes him the peer.
LEMMA StrangerMet ==
  ASSUME PeersInv, NEW c \in Client, Peers!Meet(c)
  PROVE  PeersInv'
<1>0. /\ OfClient(c) /\ none # c /\ Peer(c) # none /\ Peer(c) # c /\ Peer(c) \in Client
      /\ Peer(c) \notin Strangers /\ none \notin Strangers
  BY TwoClients DEF PeersInv
<1>1. PeerTypes'
  BY <1>0, Before
     DEF Peers!Meet, Peers!Doing, Peers!Becomes, Peers!log, PeersInv, PeerTypes, Peers!TypeOK,
         Peers!Senders, Sender, Client, OfClient, Addressed
<1>2. OnlyOf(c)
  BY Before DEF Peers!Meet, Peers!Doing, Peers!Becomes, Peers!log, OnlyOf
<1>3. OfClient(c)'
  <2>1. /\ worker[c].pc = "meet" /\ worker'[c].pc = "met" /\ worker'[c].from = worker[c].from
        /\ worker'[c].kind = worker[c].kind /\ p2paddr'[c] = worker[c].from
        /\ UNCHANGED <<RTSOCKET, serveraddr, is_p2p, lastaddr, ui, introduced, outcome, raced,
                       intruded>>
    BY Before DEF Peers!Meet, Peers!Doing, Peers!Becomes, Peers!log
  <2>2. worker[c].from \in Strangers => <<worker[c].from, c>> \in intruded
    BY <1>0, <2>1 DEF OfClient, LetIn, HasDatagram
  <2>3. worker[c].from \in {Peer(c)} \cup Strangers /\ c \notin Strangers
    BY <1>0, <2>1, TwoClients DEF OfClient, Addressed, HasDatagram
  <2> QED BY <1>0, <2>1, <2>2, <2>3
          DEF OfClient, Addressed, WasTold, Heard, LetIn, GotIn, Sends, Told, HasDatagram
<1>4. OnTheWay'
  BY NothingSent DEF Peers!Meet, Peers!Doing, Peers!Becomes, Peers!log, PeersInv
<1> QED BY <1>1, <1>2, <1>3, <1>4, StepOf

\* ... and c talks to him.
LEMMA MetStranger ==
  ASSUME PeersInv, NEW c \in Client, Peers!Met(c)
  PROVE  PeersInv'
<1>0. /\ OfClient(c) /\ none # c /\ Peer(c) # none /\ Peer(c) # c /\ Peer(c) \in Client
      /\ Peer(c) \notin Strangers /\ none \notin Strangers
  BY TwoClients DEF PeersInv
<1>1. PeerTypes'
  BY <1>0, IdleWorker, Before
     DEF Peers!Met, Peers!Doing, Peers!Leaves, Peers!Ignored, PeersInv, PeerTypes, Peers!TypeOK,
         Peers!Senders, Sender, Client, OfClient, Addressed
<1>2. OnlyOf(c)
  BY Before DEF Peers!Met, Peers!Doing, Peers!Leaves, Peers!Ignored, OnlyOf
<1>3. OfClient(c)'
  BY <1>0, IdleWorker, Before
     DEF Peers!Met, Peers!Doing, Peers!Leaves, Peers!Ignored, OfClient, Addressed, WasTold,
         Heard, LetIn, GotIn, Sends, Told, HasDatagram
<1>4. OnTheWay'
  BY NothingSent DEF Peers!Met, Peers!Doing, Peers!Leaves, Peers!Ignored, PeersInv
<1> QED BY <1>1, <1>2, <1>3, <1>4, StepOf

\* A stranger is heard only by a client that has switched.
LEMMA EarlyChecked ==
  ASSUME PeersInv, NEW c \in Client, Peers!CheckEarly(c)
  PROVE  PeersInv'
<1>0. /\ OfClient(c) /\ none # c /\ Peer(c) # none /\ Peer(c) # c /\ Peer(c) \in Client
      /\ Peer(c) \notin Strangers /\ none \notin Strangers
  BY TwoClients DEF PeersInv
<1>1. PeerTypes'
  BY <1>0, Before
     DEF Peers!CheckEarly, Peers!Doing, Peers!Becomes, Peers!log, Peers!p2p, PeersInv, PeerTypes,
         Peers!TypeOK, Peers!Senders, Sender, Client, OfClient, Addressed
<1>2. OnlyOf(c)
  BY Before DEF Peers!CheckEarly, Peers!Doing, Peers!Becomes, Peers!log, Peers!p2p, OnlyOf
<1>3. OfClient(c)'
  <2>1. /\ worker[c].pc = "early" /\ worker'[c].pc = IF is_p2p[c] = 0 THEN "remember" ELSE "known"
        /\ worker'[c].from = worker[c].from /\ worker'[c].kind = worker[c].kind
        /\ UNCHANGED <<RTSOCKET, serveraddr, is_p2p, p2paddr, lastaddr, ui, introduced, outcome,
                       raced, intruded>>
    BY Before DEF Peers!CheckEarly, Peers!Doing, Peers!Becomes, Peers!log, Peers!p2p
  <2> QED BY <1>0, <2>1
          DEF OfClient, Addressed, WasTold, Heard, LetIn, GotIn, Sends, Told, HasDatagram
<1>4. OnTheWay'
  BY NothingSent DEF Peers!CheckEarly, Peers!Doing, Peers!Becomes, Peers!log, Peers!p2p, PeersInv
<1> QED BY <1>1, <1>2, <1>3, <1>4, StepOf

\* Who said "hi" too early is remembered.
LEMMA HelloRemembered ==
  ASSUME PeersInv, NEW c \in Client, Peers!Remember(c)
  PROVE  PeersInv'
<1>0. /\ OfClient(c) /\ none # c /\ Peer(c) # none /\ Peer(c) # c /\ Peer(c) \in Client
      /\ Peer(c) \notin Strangers /\ none \notin Strangers
  BY TwoClients DEF PeersInv
<1>1. PeerTypes'
  BY <1>0, IdleWorker, Before
     DEF Peers!Remember, Peers!Doing, Peers!Leaves, Peers!Ignored, PeersInv, PeerTypes,
         Peers!TypeOK, Peers!Senders, Sender, Client, OfClient, Addressed
<1>2. OnlyOf(c)
  BY Before DEF Peers!Remember, Peers!Doing, Peers!Leaves, Peers!Ignored, OnlyOf
<1>3. OfClient(c)'
  <2>1. /\ worker[c].pc = "remember" /\ worker'[c].pc = "idle" /\ outcome'[c] = "empty"
        /\ lastaddr'[c] = IF worker[c].kind = "hi" THEN worker[c].from ELSE lastaddr[c]
        /\ UNCHANGED <<RTSOCKET, serveraddr, is_p2p, p2paddr, ui, introduced, raced, intruded>>
    BY IdleWorker, Before DEF Peers!Remember, Peers!Doing, Peers!Leaves, Peers!Ignored
  <2>2. /\ worker[c].from \in Strangers /\ worker[c].kind = "hi" => <<worker[c].from, c>> \in intruded
        /\ worker[c].from = Peer(c) => Told(Peer(c))
    BY <1>0, <2>1 DEF OfClient, LetIn, Heard, HasDatagram
  <2>3. worker[c].from \in {Peer(c)} \cup Strangers /\ c \notin Strangers
    BY <1>0, <2>1, TwoClients DEF OfClient, Addressed, HasDatagram
  <2> QED BY <1>0, <2>1, <2>2, <2>3
          DEF OfClient, Addressed, WasTold, Heard, LetIn, GotIn, Sends, Told, HasDatagram
<1>4. OnTheWay'
  BY NothingSent DEF Peers!Remember, Peers!Doing, Peers!Leaves, Peers!Ignored, PeersInv
<1> QED BY <1>1, <1>2, <1>3, <1>4, StepOf

\* get_message makes of a datagram what it can.
LEMMA DatagramReceived ==
  ASSUME PeersInv, NEW c \in Client, Peers!Receive(c)
  PROVE  PeersInv'
<1>0. /\ OfClient(c) /\ none # c /\ Peer(c) # none /\ Peer(c) # c /\ Peer(c) \in Client
      /\ Peer(c) \notin Strangers /\ none \notin Strangers
  BY TwoClients DEF PeersInv
<1>1. PICK result \in {"empty", "again", "message", "failed"} :
        outcome' = [outcome EXCEPT ![c] = result]
  BY Before DEF Peers!Receive, Peers!Ignored, Peers!Returned, Peers!Results, Peers!Datagrams
<1>2. /\ worker[c].pc = "known" /\ worker' = [worker EXCEPT ![c] = Peers!Idle]
      /\ UNCHANGED <<RTSOCKET, serveraddr, is_p2p, p2paddr, lastaddr, ui, net, budget, introduced,
                     raced, intruded>>
  BY DEF Peers!Receive, Peers!Doing, Peers!Leaves, Peers!p2p
<1>3. PeerTypes'
  <2>1. outcome' \in [Client -> {"none", "empty", "again", "message", "failed"}]
    BY <1>1, Before
  <2>2. worker' \in [Client -> [pc : {"idle", "source", "meet", "met", "early", "remember",
                                      "known", "sendto"},
                                from : Sender \cup {none}, kind : Peers!Datagrams]]
    BY <1>2, IdleWorker, Before
  <2> QED BY SMTT(30), <1>2, <2>1, <2>2, Before DEF PeersInv, PeerTypes, Peers!TypeOK, Peers!Senders, Sender, Client
<1>4. OnlyOf(c)
  BY <1>1, <1>2, Before DEF OnlyOf
<1>5. OfClient(c)'
  BY <1>0, <1>2, IdleWorker, Before DEF OfClient, Addressed, WasTold, Heard, LetIn, GotIn, Sends, Told, HasDatagram
<1>6. OnTheWay'
  BY <1>2, NothingSent DEF PeersInv
<1> QED BY <1>3, <1>4, <1>5, <1>6, StepOf
\* STUN takes a datagram that was for the worker.
LEMMA StunTakes ==
  ASSUME PeersInv, NEW c \in Client, Peers!StunEats(c)
  PROVE  PeersInv'
<1>0. OfClient(c) /\ UNCHANGED <<introduced, raced, intruded>>
  BY DEF PeersInv, Peers!StunEats, Peers!log
<1>1. PICK f \in Sender, k \in Peers!Datagrams :
        net[<<c, f, k>>] > 0 /\ net' = [net EXCEPT ![<<c, f, k>>] = @ - 1]
  BY DEF Peers!StunEats, Peers!Senders, Sender, Client
<1>2. OnTheWay' /\ net' \in [Client \X Sender \X Peers!Datagrams -> Nat]
  BY <1>0, <1>1, MayTake
<1>3. PeerTypes'
  BY SMTT(30), <1>2, Before
     DEF Peers!StunEats, Peers!At, Peers!GoTo, Peers!log, Peers!p2p, PeersInv, PeerTypes,
         Peers!TypeOK, Peers!Senders, Sender, Client
<1>4. OnlyOf(c)
  BY Before DEF Peers!StunEats, Peers!GoTo, Peers!log, Peers!p2p, OnlyOf
<1>5. OfClient(c)'
  <2>1. /\ ui[c].pc = "stun" /\ ui'[c].pc = "idle"
        /\ UNCHANGED <<RTSOCKET, serveraddr, is_p2p, p2paddr, lastaddr, worker, outcome>>
    BY Before DEF Peers!StunEats, Peers!At, Peers!GoTo, Peers!log, Peers!p2p
  <2> QED BY <1>0, <2>1
          DEF OfClient, Addressed, WasTold, Heard, LetIn, GotIn, Sends, Told, HasDatagram
<1> QED BY <1>2, <1>3, <1>4, <1>5, StepOf

\* "hi" goes to the peer of the moment.
LEMMA HelloSent ==
  ASSUME PeersInv, NEW c \in Client, Peers!Hello(c)
  PROVE  PeersInv'
<1>0. OfClient(c) /\ UNCHANGED <<introduced, raced, intruded, RTSOCKET, serveraddr, is_p2p, p2paddr,
                                 lastaddr, worker, budget, outcome>>
  BY DEF PeersInv, Peers!Hello, Peers!log, Peers!p2p
<1>1. PICK n \in 1..3 : /\ Peers!At(c, <<"hi1", "hi2", "hi3">>[n])
                        /\ Peers!GoTo(c, <<"hi2", "hi3", "idle">>[n])
                        /\ Peers!Sendto(c, IF RTSOCKET[c] THEN p2paddr[c] ELSE none, "hi", 1)
  BY DEF Peers!Hello
<1>2. PICK pc \in {"hi2", "hi3", "idle"} : ui' = [ui EXCEPT ![c].pc = pc]
  <2>1. n = 1 \/ n = 2 \/ n = 3
    OBVIOUS
  <2>2. <<"hi2", "hi3", "idle">>[n] \in {"hi2", "hi3", "idle"}
    BY <2>1
  <2> QED BY <1>1, <2>2 DEF Peers!GoTo
<1>3. ui[c].pc # "idle" /\ Told(c) /\ Told(c)'
  <2>1. ui[c].pc # "idle"
    BY <1>1 DEF Peers!At
  <2> QED BY <1>0, <2>1 DEF OfClient, WasTold, Told
<1>4. OnTheWay' /\ net' \in [Client \X Sender \X Peers!Datagrams -> Nat]
  <2>1. PICK to \in Sender \cup {server, none} : to # c /\ Peers!Sendto(c, to, "hi", 1)
    <3>1. p2paddr[c] \in Sender \cup {none} /\ p2paddr[c] # c /\ none # c
      BY <1>0, Before, TwoClients DEF OfClient, Addressed
    <3> QED BY <1>1, <3>1
  <2>2. "hi" \in Peers!Datagrams
    BY DEF Peers!Datagrams
  <2> QED BY <1>0, <1>3, <2>1, <2>2, MaySend
<1>5. PeerTypes'
  BY <1>0, <1>2, <1>4, Before DEF PeersInv, PeerTypes, Peers!TypeOK, Peers!Senders, Sender, Client
<1>6. OnlyOf(c)
  BY <1>0, <1>2, Before DEF OnlyOf
<1>7. OfClient(c)'
  <2>1. ui'[c].peer = ui[c].peer
    BY <1>2, Before
  <2> QED BY <1>0, <1>3, <2>1 DEF OfClient, Addressed, WasTold, Heard, LetIn, GotIn, Sends, Told, HasDatagram
<1> QED BY <1>4, <1>5, <1>6, <1>7, StepOf

\* InitUDP3: a friend takes the place of the server.
LEMMA FriendTaken ==
  ASSUME PeersInv, NEW c \in Client, NEW friend \in Client, Peers!InitUDP3(c, friend)
  PROVE  PeersInv'
<1>0. OfClient(c) /\ none # c /\ friend = Peer(c)
  BY TwoClients DEF PeersInv, Peers!InitUDP3
<1>1. /\ ui[c].pc = "idle" /\ serveraddr' = [serveraddr EXCEPT ![c] = friend]
      /\ introduced' = introduced \cup {<<c, friend>>} /\ Peers!Sendto(c, friend, "punch", 1)
      /\ budget' = [budget EXCEPT !.others = @ - 1] /\ budget.others > 0
      /\ UNCHANGED <<raced, intruded, RTSOCKET, is_p2p, p2paddr, lastaddr, ui, worker, outcome>>
  BY DEF Peers!InitUDP3, Peers!At, Peers!p2p
<1>2. Told(c)'
  BY <1>0, <1>1 DEF Told
<1>3. OnTheWay' /\ net' \in [Client \X Sender \X Peers!Datagrams -> Nat]
  <2>1. "punch" \in Peers!Datagrams /\ friend # c /\ friend \in Sender
    BY <1>0, TwoClients DEF Peers!Datagrams, Sender
  <2> QED BY <1>1, <1>2, <2>1, MaySend
<1>4. PeerTypes'
  <2>1. serveraddr' \in [Client -> Client \cup {server}]
    BY <1>1, Before
  <2>2. budget' \in [pairs : SUBSET {<<left, right>>, <<right, left>>}, lost : Nat, sent : Nat,
                     others : Nat]
    BY <1>1 DEF PeersInv, PeerTypes
  <2>3. server # none /\ none \notin Client
    BY TwoClients
  <2> QED BY <1>1, <1>3, <2>1, <2>2, <2>3, Before
          DEF PeersInv, PeerTypes, Peers!TypeOK, Peers!Senders, Sender, Client
<1>5. OnlyOf(c)
  BY <1>1, Before DEF OnlyOf
<1>6. OfClient(c)'
  <2>1. serveraddr'[c] = Peer(c) /\ Peer(c) # c
    BY <1>0, <1>1, Before, TwoClients
  <2> QED BY <1>0, <1>1, <1>2, <2>1
          DEF OfClient, Addressed, WasTold, Heard, LetIn, GotIn, Sends, Told, HasDatagram
<1> QED BY <1>3, <1>4, <1>5, <1>6, StepOf

\* recv2 takes a datagram.
LEMMA DatagramTaken ==
  ASSUME PeersInv, NEW c \in Client, Peers!Recvfrom(c)
  PROVE  PeersInv'
<1>0. OfClient(c) /\ UNCHANGED <<introduced, raced, RTSOCKET, serveraddr, is_p2p, p2paddr, lastaddr,
                                 ui, budget, outcome>> /\ worker[c].pc = "idle"
  BY DEF PeersInv, Peers!Recvfrom, Peers!Doing, Peers!p2p
<1>1. PICK f \in Sender, k \in Peers!Datagrams :
        /\ net[<<c, f, k>>] > 0 /\ net' = [net EXCEPT ![<<c, f, k>>] = @ - 1]
        /\ worker' = [worker EXCEPT ![c] = [pc |-> "source", from |-> f, kind |-> k]]
        /\ Peers!Intrudes(c, IF Peers!LetsIn(c, k) THEN f ELSE none)
  BY DEF Peers!Recvfrom, Peers!Senders, Sender, Client
<1>2. /\ OnTheWay' /\ net' \in [Client \X Sender \X Peers!Datagrams -> Nat]
      /\ f \in Strangers \/ (f = Peer(c) /\ Told(f))
  BY <1>0, <1>1, MayTake
<1>a. /\ intruded \subseteq intruded'
      /\ f \in Strangers /\ Peers!LetsIn(c, k) => <<f, c>> \in intruded'
  BY <1>1 DEF Peers!Intrudes
<1>b. Peers!LetsIn(c, k) \/ (ui[c].pc = "idle" /\ is_p2p[c] = 2)
        \/ (ui[c].pc = "idle" /\ is_p2p[c] = 0 /\ k # "hi")
  <2>1. is_p2p[c] \in 0..2
    BY Before
  <2> QED BY <2>1 DEF Peers!LetsIn, Peers!At
<1>3. PeerTypes'
  BY <1>0, <1>1, <1>2, Before DEF PeersInv, PeerTypes, Peers!TypeOK, Peers!Senders, Sender, Client
<1>4. OnlyOf(c)
  BY <1>0, <1>1, <1>a, Before DEF OnlyOf
<1>5. OfClient(c)'
  <2>1. worker'[c] = [pc |-> "source", from |-> f, kind |-> k]
    BY <1>1, <1>2, Before
  <2>2. Peer(c) \notin Strangers
    BY TwoClients
  <2> QED BY <1>0, <1>2, <1>a, <1>b, <2>1, <2>2 DEF OfClient, Addressed, WasTold, Heard, LetIn, GotIn, Sends, Told, HasDatagram
<1> QED BY <1>2, <1>3, <1>4, <1>5, StepOf

\* session_send looks for a peer, and sends to the server if there is none.
LEMMA RealtimeSent ==
  ASSUME PeersInv, NEW c \in Client, Peers!SendRealtime(c)
  PROVE  PeersInv'
<1>0. /\ OfClient(c) /\ worker[c].pc = "idle"
      /\ UNCHANGED <<introduced, raced, intruded, RTSOCKET, serveraddr, is_p2p, p2paddr, lastaddr, ui,
                     outcome>>
      /\ budget' = [budget EXCEPT !.sent = @ - 1] /\ budget.sent > 0
  BY DEF PeersInv, Peers!SendRealtime, Peers!Doing, Peers!log, Peers!p2p
<1>1. budget' \in [pairs : SUBSET {<<left, right>>, <<right, left>>}, lost : Nat, sent : Nat,
                   others : Nat]
  BY <1>0 DEF PeersInv, PeerTypes
<1>2. CASE Peers!HasPeer(c)
  <2>1. worker' = [worker EXCEPT ![c].pc = "sendto"] /\ net' = net /\ p2paddr[c] # none /\ is_p2p[c] = 2
    BY <1>2 DEF Peers!SendRealtime, Peers!Becomes, Peers!HasPeer
  <2>2. PeerTypes'
    BY <1>0, <1>1, <2>1, Before DEF PeersInv, PeerTypes, Peers!TypeOK, Peers!Senders, Sender, Client
  <2>3. OnlyOf(c)
    BY <1>0, <2>1, Before DEF OnlyOf
  <2>4. OfClient(c)'
    BY <1>0, <2>1, Before DEF OfClient, Addressed, WasTold, Heard, LetIn, GotIn, Sends, Told, HasDatagram
  <2>5. OnTheWay'
    BY <1>0, <2>1, NothingSent DEF PeersInv
  <2> QED BY <2>2, <2>3, <2>4, <2>5, StepOf
<1>3. CASE ~Peers!HasPeer(c)
  <2>1. Peers!Sendto(c, serveraddr[c], "message", 1) /\ worker' = worker
    BY <1>3 DEF Peers!SendRealtime
  <2>2. /\ serveraddr[c] \in Client \cup {server} /\ serveraddr[c] # c
        /\ serveraddr[c] \in Client => Told(c)'
    BY <1>0, Before, TwoClients DEF OfClient, Addressed, WasTold, Told
  <2>3. "message" \in Peers!Datagrams
    BY DEF Peers!Datagrams
  <2>4. OnTheWay' /\ net' \in [Client \X Sender \X Peers!Datagrams -> Nat]
    BY <1>0, <2>1, <2>2, <2>3, MaySend DEF Sender
  <2>5. PeerTypes'
    BY <1>0, <1>1, <2>1, <2>4, Before DEF PeersInv, PeerTypes, Peers!TypeOK, Peers!Senders, Sender, Client
  <2>6. OnlyOf(c) /\ OfClient(c)'
    BY <1>0, <2>1 DEF OnlyOf, OfClient, Addressed, WasTold, Heard, LetIn, GotIn, Sends, Told, HasDatagram
  <2> QED BY <2>4, <2>5, <2>6, StepOf
<1> QED BY <1>2, <1>3

\* The sendto itself: an address zeroed meanwhile drops the socket.
LEMMA SentToPeer ==
  ASSUME PeersInv, NEW c \in Client, Peers!SendToPeer(c)
  PROVE  PeersInv'
<1>0. /\ OfClient(c) /\ worker[c].pc = "sendto" /\ worker' = [worker EXCEPT ![c].pc = "idle"]
      /\ Peers!Sendto(c, p2paddr[c], "message", 1)
      /\ RTSOCKET' = [RTSOCKET EXCEPT ![c] = p2paddr[c] # none]
      /\ UNCHANGED <<introduced, raced, intruded, serveraddr, is_p2p, p2paddr, lastaddr, ui, budget,
                     outcome>>
  BY DEF PeersInv, Peers!SendToPeer, Peers!Doing, Peers!Becomes, Peers!log, Peers!p2p
<1>1. /\ p2paddr[c] \in Sender \cup {none} /\ p2paddr[c] # c /\ Told(c)'
  BY <1>0, Before, TwoClients DEF OfClient, Addressed, WasTold, Told
<1>2. OnTheWay' /\ net' \in [Client \X Sender \X Peers!Datagrams -> Nat]
  <2>1. "message" \in Peers!Datagrams
    BY DEF Peers!Datagrams
  <2> QED BY <1>0, <1>1, <2>1, MaySend
<1>3. PeerTypes'
  <2>1. RTSOCKET' \in [Client -> BOOLEAN]
    BY <1>0, Before
  <2> QED BY <1>0, <1>2, <2>1, Before DEF PeersInv, PeerTypes, Peers!TypeOK, Peers!Senders, Sender, Client
<1>4. OnlyOf(c)
  BY <1>0, Before DEF OnlyOf
<1>5. OfClient(c)'
  <2>1. worker'[c].pc = "idle" /\ (~RTSOCKET'[c] => p2paddr[c] = none)
    BY <1>0, Before
  <2>2. ~RTSOCKET'[c] => c \in raced
    BY <1>0, <2>1 DEF OfClient, Sends
  <2> QED BY <1>0, <2>1, <2>2 DEF OfClient, Addressed, WasTold, Heard, LetIn, GotIn, Sends, Told, HasDatagram
<1> QED BY <1>2, <1>3, <1>4, <1>5, StepOf

\* The network loses a datagram.
LEMMA DatagramLost ==
  ASSUME PeersInv, Peers!Lose
  PROVE  PeersInv'
<1>0. /\ UNCHANGED <<introduced, raced, intruded, RTSOCKET, serveraddr, is_p2p, p2paddr, lastaddr, ui,
                     worker, outcome>>
      /\ budget' = [budget EXCEPT !.lost = @ - 1] /\ budget.lost > 0
  BY DEF Peers!Lose, Peers!log, Peers!p2p
<1>1. PICK d \in Client \X Sender \X Peers!Datagrams :
        net[d] > 0 /\ net' = [net EXCEPT ![d] = @ - 1]
  BY Before DEF Peers!Lose
<1>2. PICK t \in Client, f \in Sender, k \in Peers!Datagrams : d = <<t, f, k>>
  BY <1>1
<1>3. OnTheWay' /\ net' \in [Client \X Sender \X Peers!Datagrams -> Nat]
  BY <1>0, <1>1, <1>2, MayTake
<1>4. PeerTypes'
  <2>1. budget' \in [pairs : SUBSET {<<left, right>>, <<right, left>>}, lost : Nat, sent : Nat,
                     others : Nat]
    BY <1>0 DEF PeersInv, PeerTypes
  <2> QED BY <1>0, <1>3, <2>1, Before DEF PeersInv, PeerTypes, Peers!TypeOK, Peers!Senders, Sender, Client
<1>5. ASSUME NEW c \in Client
      PROVE  OfClient(c)'
  BY <1>0 DEF PeersInv, OfClient, Addressed, WasTold, Heard, LetIn, GotIn, Sends, Told, HasDatagram
<1> QED BY <1>3, <1>4, <1>5 DEF PeersInv

\* A stranger sends one.
LEMMA OthersSend ==
  ASSUME PeersInv, Peers!StrangerSends
  PROVE  PeersInv'
<1>0. /\ UNCHANGED <<introduced, raced, intruded, RTSOCKET, serveraddr, is_p2p, p2paddr, lastaddr, ui,
                     worker, outcome>>
      /\ budget' = [budget EXCEPT !.others = @ - 1] /\ budget.others > 0
  BY DEF Peers!StrangerSends, Peers!log, Peers!p2p
<1>1. PICK t \in Client, s \in Strangers, k \in Peers!Datagrams :
        net' = [net EXCEPT ![<<t, s, k>>] = @ + 1]
  BY DEF Peers!StrangerSends, Client
<1>2. OnTheWay /\ net \in [Client \X Sender \X Peers!Datagrams -> Nat] /\ s \in Sender
  BY Before DEF PeersInv, Sender
<1>3. net' \in [Client \X Sender \X Peers!Datagrams -> Nat]
  BY <1>1, <1>2
<1>4. ASSUME NEW to \in Client, NEW from \in Sender, NEW kind \in Peers!Datagrams,
             from \notin Strangers
      PROVE  net'[<<to, from, kind>>] = net[<<to, from, kind>>]
  <2>1. <<t, s, k>> # <<to, from, kind>>
    BY <1>4
  <2> QED BY <1>1, <1>2, <2>1
<1>5. OnTheWay'
  BY <1>0, <1>2, <1>4 DEF OnTheWay, Told
<1>6. PeerTypes'
  <2>1. budget' \in [pairs : SUBSET {<<left, right>>, <<right, left>>}, lost : Nat, sent : Nat,
                     others : Nat]
    BY <1>0 DEF PeersInv, PeerTypes
  <2> QED BY <1>0, <1>3, <2>1, Before DEF PeersInv, PeerTypes, Peers!TypeOK, Peers!Senders, Sender, Client
<1>7. ASSUME NEW c \in Client
      PROVE  OfClient(c)'
  BY <1>0 DEF PeersInv, OfClient, Addressed, WasTold, Heard, LetIn, GotIn, Sends, Told, HasDatagram
<1> QED BY <1>5, <1>6, <1>7 DEF PeersInv

\* Before the server told anybody anything nobody has a peer.
LEMMA PeersBegin == Peers!Init => PeersInv
<1> SUFFICES ASSUME Peers!Init PROVE PeersInv
  OBVIOUS
<1>1. PeerTypes
  BY TwoClients, PartsAssumption
     DEF Peers!Init, Peers!Idle, PeerTypes, Peers!TypeOK, Peers!Datagrams, Client,
         Peers!PeerAssumption
<1>2. OnTheWay
  BY DEF Peers!Init, OnTheWay, Peers!Senders, Sender, Client
<1>3. ASSUME NEW c \in Client
      PROVE  OfClient(c)
  BY TwoClients
     DEF Peers!Init, Peers!Idle, OfClient, Addressed, WasTold, Heard, LetIn, GotIn, Sends, HasDatagram, Client
<1> QED BY <1>1, <1>2, <1>3 DEF PeersInv

\* Every step of a client, and of the network, keeps the invariant.
LEMMA PeersNext == PeersInv /\ Peers!Next => PeersInv'
<1> SUFFICES ASSUME PeersInv, Peers!Next PROVE PeersInv'
  OBVIOUS
<1>1. ASSUME NEW c \in Client, NEW peer \in Client, Peers!SwitchP2P(c, peer) \/ Peers!InitUDP3(c, peer)
      PROVE  PeersInv'
  BY <1>1, SwitchBegins, FriendTaken
<1>2. ASSUME NEW c \in Client, Peers!Switching(c)
      PROVE  PeersInv'
  BY <1>2, PeerResolved, StunGoesOn, StunTakes, PeerAwaited, LastUsed, HelloSent DEF Peers!Switching
<1>3. ASSUME NEW c \in Client, Peers!Receiving(c)
      PROVE  PeersInv'
  BY <1>3, DatagramTaken, SourceChecked, StrangerMet, MetStranger, EarlyChecked, HelloRemembered,
     DatagramReceived DEF Peers!Receiving
<1>4. ASSUME NEW c \in Client, Peers!SendRealtime(c) \/ Peers!SendToPeer(c)
      PROVE  PeersInv'
  BY <1>4, RealtimeSent, SentToPeer
<1> QED BY <1>1, <1>2, <1>3, <1>4, DatagramLost, OthersSend DEF Peers!Next, Client

\* So does a step of another part.
LEMMA PeersStay == PeersInv /\ UNCHANGED peers => PeersInv'
<1> SUFFICES ASSUME PeersInv, UNCHANGED peers PROVE PeersInv'
  OBVIOUS
<1>1. PeerTypes'
  BY DEF peers, PeersInv, PeerTypes, Peers!TypeOK
<1>2. OnTheWay'
  BY NothingSent DEF peers, PeersInv
<1>3. ASSUME NEW c \in Client
      PROVE  OfClient(c)'
  BY OthersStay DEF peers, PeersInv
<1> QED BY <1>1, <1>2, <1>3 DEF PeersInv

\* What it says of the peers.
LEMMA PeersImply == PeersInv => PeersWereIntroduced
<1> SUFFICES ASSUME PeersInv PROVE PeersWereIntroduced
  OBVIOUS
<1>1. Peers!TypeOK
  BY DEF PeersInv, PeerTypes
<1>2. ASSUME NEW c \in Client, is_p2p[c] = 2, p2paddr[c] # none
      PROVE  \/ <<p2paddr[c], c>> \in introduced
             \/ \E s \in Strangers :
                  <<s, c>> \in intruded /\ (p2paddr[c] = s \/ <<c, p2paddr[c]>> \in introduced)
  <2>1. OfClient(c) /\ p2paddr[c] \in Sender \cup {none}
    BY Before DEF PeersInv
  <2>2. CASE p2paddr[c] \in Strangers
    BY <2>1, <2>2 DEF OfClient, LetIn
  <2>3. CASE p2paddr[c] \notin Strangers
    <3>1. p2paddr[c] = Peer(c) /\ Peer(Peer(c)) = c
      BY <1>2, <2>1, <2>3, TwoClients DEF OfClient, Addressed, Sender
    <3>2. Told(c)
      BY <1>2, <2>1 DEF OfClient, WasTold
    <3> QED BY <1>2, <2>1, <3>1, <3>2 DEF OfClient, Heard, Told, GotIn
  <2> QED BY <2>2, <2>3
<1>3. ASSUME NEW c \in Client, outcome[c] \notin {"none", "empty"} \/ is_p2p[c] # 0
      PROVE  \E d \in Client : <<c, d>> \in introduced
  BY <1>3, TwoClients DEF PeersInv, OfClient, WasTold, Told
<1>4. ASSUME NEW c \in Client, ~RTSOCKET[c]
      PROVE  c \in raced
  BY <1>4 DEF PeersInv, OfClient, Sends
<1> QED BY <1>1, <1>2, <1>3, <1>4
        DEF PeersWereIntroduced, Peers!PeerWasIntroduced, Peers!StrangersAreIgnored,
            Peers!SocketIsKept, Client

-----------------------------------------------------------------------------
(* The theorems *)

\* The invariant of whichever part moves, which the others keep.
PartsInv == (IF part = "waiting" THEN Wait!Inv ELSE Inv) /\ PeersInv

\* A server that talks or waits, and the clients, keep theirs (MESSAGE_CALLBACK,
\* SwitchP2P, recv2).
THEOREM DialogsAlways == PartsSpec => []PartsInv
<1>0. Wait!DispatchAssumption
  BY WaitingAssumption, DispatchAssumption
<1>1. PartsInit => PartsInv
  <2>1. Init => Wait!Inv
    BY <1>0, Wait!InvInit, WaitingBegins
  <2> QED BY <2>1, InvInit, DispatchAssumption, PeersBegin DEF PartsInit, PartsInv
<1>2. PartsInv /\ [PartsNext]_parts => PartsInv'
  <2> SUFFICES ASSUME PartsInv, [PartsNext]_parts PROVE PartsInv'
    OBVIOUS
  <2>1. CASE part = "talking" /\ Next /\ UNCHANGED <<part, peers>>
    BY <2>1, InvNext, DispatchAssumption, PeersStay DEF PartsInv
  <2>2. CASE part = "waiting" /\ Waiting!Next /\ UNCHANGED <<part, peers>>
    BY <1>0, <2>2, WaitingIs, Wait!InvNext, PeersStay DEF PartsInv
  <2>3. Inv /\ UNCHANGED vars => Inv'
    BY InvStays
  <2>4. Wait!Inv /\ UNCHANGED vars => Wait!Inv'
    <3>1. UNCHANGED vars => UNCHANGED Wait!vars
      BY DEF vars, Wait!vars, ends, Wait!ends
    <3> QED BY <1>0, <3>1, Wait!InvStays
  <2>5. CASE part = "peers" /\ Peers!Next /\ UNCHANGED <<part, vars>>
    BY <2>3, <2>5, PeersNext DEF PartsInv
  <2>6. CASE UNCHANGED parts
    BY <2>3, <2>4, <2>6, PeersStay DEF PartsInv, parts
  <2> QED BY <2>1, <2>2, <2>5, <2>6 DEF PartsNext
<1> QED BY <1>1, <1>2, PTL DEF PartsSpec

\* Each question is answered once, in order, with the text that was sent for it,
\* whatever runs inside its dialog (MESSAGE_CALLBACK, POST_STRING).
THEOREM AnswersAlwaysFit == PartsSpec => []AnswersFit
<1>1. PartsInv => AnswersFit
  <2>1. Inv => TypeOK /\ AnswersMatch /\ TextOfTheQuestion
    BY InvImplies
  <2>2. Wait!Inv => Wait!AnswersMatch /\ Wait!TextOfTheQuestion
    BY Wait!InvImplies, WaitingAssumption, DispatchAssumption
  <2>3. Wait!AnswersMatch => Waiting!AnswersMatch
    BY DEF Wait!AnswersMatch, Waiting!AnswersMatch
  <2>4. Wait!TextOfTheQuestion => Waiting!TextOfTheQuestion
    BY DEF Wait!TextOfTheQuestion, Waiting!TextOfTheQuestion
  <2> QED BY <2>1, <2>2, <2>3, <2>4 DEF PartsInv, AnswersFit
<1> QED BY <1>1, DialogsAlways, PTL

\* The program does not end under a dialog that has still to answer, leaves no cookie
\* file, and ends by the close button only after three silent clicks (dialogs, Done,
\* closeEvent).
THEOREM AlwaysEndsCleanly == PartsSpec => []EndsCleanly
<1>1. PartsInv => EndsCleanly
  <2>1. Inv => EndsCleanly
    BY InvImplies DEF EndsCleanly
  <2>2. Wait!Inv => Wait!NoDialogIsCut /\ Wait!CookiesAreRemoved /\ Wait!ThreeClicks
    BY Wait!InvImplies, WaitingAssumption, DispatchAssumption
  <2>3. Wait!NoDialogIsCut => NoDialogIsCut
    BY DEF Wait!NoDialogIsCut, NoDialogIsCut, Wait!FileDialogs, FileDialogs
  <2>4. (Wait!CookiesAreRemoved => CookiesAreRemoved) /\ (Wait!ThreeClicks => ThreeClicks)
    BY DEF Wait!CookiesAreRemoved, CookiesAreRemoved, Wait!ThreeClicks, ThreeClicks
  <2> QED BY <2>1, <2>2, <2>3, <2>4 DEF PartsInv, EndsCleanly
<1> QED BY <1>1, DialogsAlways, PTL

\* A client talks only to one that was told to talk to it, unless a stranger got in while
\* it had no peer yet, in every interleaving of its two threads with the datagrams of
\* strangers; it takes no message from them until it is told to talk to somebody, and loses
\* its socket only to a switch that began within a send (recv2, SwitchP2P, session_send).
THEOREM PeersAlwaysIntroduced == PartsSpec => []PeersWereIntroduced
<1>1. PartsInv => PeersWereIntroduced
  BY PeersImply DEF PartsInv
<1> QED BY <1>1, DialogsAlways, PTL

\* The box for consent that was shown first decides, and each request is decided once,
\* whether the server waits or not (CheckCredentials).
THEOREM FirstBoxDecidesInParts == PartsSpec => []FirstBoxDecides
<1>1. PartsInv => FirstBoxDecides
  <2>1. Inv => FirstBoxDecides
    BY InvImplies
  <2>2. Wait!Inv => Wait!FirstBoxDecides
    BY Wait!InvImplies, WaitingAssumption, DispatchAssumption
  <2>3. Wait!FirstBoxDecides => FirstBoxDecides
    BY DEF Wait!FirstBoxDecides, FirstBoxDecides, Wait!LastBox, LastBox, Wait!Consent, Consent,
           Wait!Risky, Risky
  <2> QED BY <2>1, <2>2, <2>3 DEF PartsInv
<1> QED BY <1>1, DialogsAlways, PTL
=============================================================================
