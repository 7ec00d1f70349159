----------------------------- MODULE PeerToPeer -----------------------------
(***************************************************************************)
(* The realtime socket of clients that the server introduces to each other   *)
(* (messages.cpp: SwitchP2P, InitUDP3, recv2, session_send, get_message).     *)
(* The user interface thread switches while the worker receives and sends;   *)
(* is_p2p, p2paddr and lastaddr are plain variables of both.                 *)
(***************************************************************************)
EXTENDS Integers, FiniteSets

CONSTANTS
  Clients,   \* the clients, each with an address of its own
  Strangers, \* addresses of others, whom no server introduced
  Server,    \* the address of the server
  None,      \* no address: a zeroed sockaddr_storage
  Pairs,     \* whom the server tells to switch to whom
  Stun,      \* whether a STUN server is asked first
  MaxLost,   \* bound: datagrams the network loses
  MaxSent,   \* bound: realtime messages sent
  MaxOthers  \* bound: UDPFriend queries, P2P queries once more, and datagrams of strangers

PeerAssumption ==
  /\ Strangers \cap Clients = {}
  /\ Server \notin Clients \cup Strangers /\ None \notin Clients \cup Strangers \cup {Server}
  /\ Pairs \subseteq {p \in Clients \X Clients : p[1] # p[2]}
  /\ Stun \in BOOLEAN
  /\ MaxLost \in Nat /\ MaxSent \in Nat /\ MaxOthers \in Nat

Senders == Clients \cup Strangers

\* "hi" has two bytes, the punch of InitUDP3 one, a message five or more.
Datagrams == {"hi", "punch", "message"}

VARIABLES
  RTSOCKET,   \* whether the client's datagram socket is open
  serveraddr, \* where realtime messages go without a peer
  is_p2p,     \* 0 no, 1 waiting for the peer, 2 talking to p2paddr
  p2paddr,    \* the peer
  lastaddr,   \* who said "hi" before this client switched
  ui,         \* the user interface thread: where SwitchP2P is, and for whom
  worker,     \* the worker: in recv2 or session_send, and with what
  net,        \* how many datagrams are under way, by receiver, sender and kind
  budget,     \* what is left of each bound
  introduced, \* history: whom the server told to talk to whom
  outcome,    \* history: what get_message made of the last datagram
  raced,      \* history: whether a switch began between the test and the sendto
  intruded    \* history: strangers whose datagram was heard when it could count

p2p == <<is_p2p, p2paddr, lastaddr>>
log == <<introduced, outcome, raced, intruded>>
vars == <<RTSOCKET, serveraddr, p2p, ui, worker, net, budget, log>>

Idle == [pc |-> "idle", from |-> None, kind |-> "message"]

\* InitUDP has succeeded: the server answered the probe, its address is known.
Init ==
  /\ RTSOCKET = [c \in Clients |-> TRUE]
  /\ serveraddr = [c \in Clients |-> Server]
  /\ is_p2p = [c \in Clients |-> 0]
  /\ p2paddr = [c \in Clients |-> None] /\ lastaddr = [c \in Clients |-> None]
  /\ ui = [c \in Clients |-> [pc |-> "idle", peer |-> None]]
  /\ worker = [c \in Clients |-> Idle]
  /\ net = [d \in Clients \X Senders \X Datagrams |-> 0]
  /\ budget = [pairs |-> Pairs, lost |-> MaxLost,
               sent |-> MaxSent, others |-> MaxOthers]
  /\ introduced = {} /\ raced = {} /\ intruded = {}
  /\ outcome = [c \in Clients |-> "none"]

\* sendto: a datagram for another client is under way; the server, and others, keep
\* their own.
Sendto(from, to, kind, n) ==
  net' = IF to \in Clients THEN [net EXCEPT ![<<to, from, kind>>] = @ + n] ELSE net

-----------------------------------------------------------------------------
(* SwitchP2P, on the user interface thread *)

At(c, pc) == ui[c].pc = pc
GoTo(c, pc) == ui' = [ui EXCEPT ![c].pc = pc]

\* A stranger's datagram in the hands of the worker may decide who is the peer.
Intrudes(c, from) ==
  intruded' = IF from \in Strangers THEN intruded \cup {<<from, c>>} ELSE intruded

\* Query "P2P": the peer of before is forgotten, and a closed socket ends it.
SwitchP2P(c, peer) ==
  /\ At(c, "idle") /\ <<c, peer>> \in Pairs
  /\ \/ <<c, peer>> \in budget.pairs /\ budget' = [budget EXCEPT !.pairs = @ \ {<<c, peer>>}]
     \/ <<c, peer>> \notin budget.pairs /\ budget.others > 0
        /\ budget' = [budget EXCEPT !.others = @ - 1]
  /\ is_p2p' = [is_p2p EXCEPT ![c] = 0]
  /\ p2paddr' = [p2paddr EXCEPT ![c] = None]
  /\ raced' = IF worker[c].pc = "sendto" THEN raced \cup {c} ELSE raced
  /\ Intrudes(c, IF worker[c].pc \in {"idle", "sendto"} THEN None ELSE worker[c].from)
  /\ IF RTSOCKET[c]
       THEN /\ ui' = [ui EXCEPT ![c] = [pc |-> "resolve", peer |-> peer]]
            /\ introduced' = introduced \cup {<<c, peer>>}
       ELSE UNCHANGED <<ui, introduced>>
  /\ UNCHANGED <<RTSOCKET, serveraddr, lastaddr, worker, net, outcome>>

Resolve(c) ==
  /\ At(c, "resolve")
  /\ p2paddr' = [p2paddr EXCEPT ![c] = ui[c].peer]
  /\ GoTo(c, IF Stun THEN "stun" ELSE "wait")
  /\ UNCHANGED <<RTSOCKET, serveraddr, is_p2p, lastaddr, worker, net, budget, log>>

\* STUN reads whatever datagram is first: the answer it waits for, or one that was
\* for the worker.  Without the answer the switch is given up.
StunAnswered(c) ==
  /\ At(c, "stun") /\ GoTo(c, "wait")
  /\ UNCHANGED <<RTSOCKET, serveraddr, p2p, worker, net, budget, log>>

StunEats(c) ==
  /\ At(c, "stun") /\ GoTo(c, "idle")
  /\ \E from \in Senders, kind \in Datagrams :
       /\ net[<<c, from, kind>>] > 0
       /\ net' = [net EXCEPT ![<<c, from, kind>>] = @ - 1]
  /\ UNCHANGED <<RTSOCKET, serveraddr, p2p, worker, budget, log>>

StunTimesOut(c) ==
  /\ At(c, "stun") /\ GoTo(c, "idle")
  /\ UNCHANGED <<RTSOCKET, serveraddr, p2p, worker, net, budget, log>>

\* Mutant: the peer is taken to be there.
WaitForNobody(c) ==
  /\ At(c, "wait") /\ GoTo(c, "last")
  /\ is_p2p' = [is_p2p EXCEPT ![c] = 2]
  /\ UNCHANGED <<RTSOCKET, serveraddr, p2paddr, lastaddr, worker, net, budget, log>>

WaitForPeer(c) ==
  /\ At(c, "wait") /\ GoTo(c, "last")
  /\ is_p2p' = [is_p2p EXCEPT ![c] = 1]
  /\ UNCHANGED <<RTSOCKET, serveraddr, p2paddr, lastaddr, worker, net, budget, log>>

\* Who said "hi" already is the peer, whoever the server named.
UseLast(c) ==
  /\ At(c, "last") /\ GoTo(c, "hi1")
  /\ IF lastaddr[c] = None THEN UNCHANGED p2p
     ELSE /\ p2paddr' = [p2paddr EXCEPT ![c] = lastaddr[c]]
          /\ lastaddr' = [lastaddr EXCEPT ![c] = None]
          /\ is_p2p' = [is_p2p EXCEPT ![c] = 2]
  /\ UNCHANGED <<RTSOCKET, serveraddr, worker, net, budget, log>>

\* Mutant: one "hi" will do.
OneHello(c) ==
  /\ At(c, "hi1") /\ GoTo(c, "idle") /\ Sendto(c, p2paddr[c], "hi", 1)
  /\ UNCHANGED <<RTSOCKET, serveraddr, p2p, worker, budget, log>>

\* Three times "hi" to the peer of the moment.
Hello(c) ==
  /\ \E n \in 1..3 :
       /\ At(c, <<"hi1", "hi2", "hi3">>[n])
       /\ GoTo(c, <<"hi2", "hi3", "idle">>[n])
       /\ Sendto(c, IF RTSOCKET[c] THEN p2paddr[c] ELSE None, "hi", 1)
  /\ UNCHANGED <<RTSOCKET, serveraddr, p2p, worker, budget, log>>

\* Query "UDPFriend" (InitUDP3): the friend takes the place of the server.
InitUDP3(c, friend) ==
  /\ At(c, "idle") /\ friend # c /\ budget.others > 0 /\ RTSOCKET[c]
  /\ budget' = [budget EXCEPT !.others = @ - 1]
  /\ serveraddr' = [serveraddr EXCEPT ![c] = friend]
  /\ Sendto(c, friend, "punch", 1)
  /\ introduced' = introduced \cup {<<c, friend>>}
  /\ UNCHANGED <<RTSOCKET, p2p, ui, worker, outcome, raced, intruded>>

-----------------------------------------------------------------------------
(* The worker *)

Doing(c, pc) == worker[c].pc = pc
Becomes(c, pc) == worker' = [worker EXCEPT ![c].pc = pc]
Leaves(c) == worker' = [worker EXCEPT ![c] = Idle]

\* get_message: recv2 returned no byte, or the size is 0.  The worker queues a frame
\* with the ID 0, which the callback, like every frame it does not know, sends back.
Ignored(c) == outcome' = [outcome EXCEPT ![c] = "empty"]

\* The size is what follows the four bytes of the length: -3 for the punch, which
\* the worker takes for a broken connection, -2 for "hi", which it passes over.  The
\* length itself is read from a buffer that a shorter datagram leaves as it was.
Results(kind) ==
  CASE kind = "message" -> {"message"}
    [] kind = "hi"      -> {"again", "empty"}
    [] kind = "punch"   -> {"failed", "empty"}

Returned(c) ==
  \E result \in Results(worker[c].kind) : outcome' = [outcome EXCEPT ![c] = result]

\* Unless the client talks to a peer and does not switch, a stranger can become its
\* peer: while none is expected by a "hi", else by any datagram.
LetsIn(c, kind) == ~At(c, "idle") \/ is_p2p[c] = 1 \/ (is_p2p[c] = 0 /\ kind = "hi")

\* recv2 takes a datagram, whoever sent it.
Recvfrom(c) ==
  /\ Doing(c, "idle") /\ RTSOCKET[c]
  /\ \E from \in Senders, kind \in Datagrams :
       /\ net[<<c, from, kind>>] > 0
       /\ net' = [net EXCEPT ![<<c, from, kind>>] = @ - 1]
       /\ worker' = [worker EXCEPT ![c] = [pc |-> "source", from |-> from, kind |-> kind]]
       /\ Intrudes(c, IF LetsIn(c, kind) THEN from ELSE None)
  /\ UNCHANGED <<RTSOCKET, serveraddr, p2p, ui, budget, introduced, outcome, raced>>

\* Mutant: the source is not looked at.
AnySource(c) ==
  /\ Doing(c, "source") /\ Becomes(c, "known")
  /\ UNCHANGED <<RTSOCKET, serveraddr, p2p, ui, net, budget, log>>

\* check_clientaddr, and whether this client waits for its peer.
CheckSource(c) ==
  /\ Doing(c, "source")
  /\ Becomes(c, IF worker[c].from = serveraddr[c] THEN "known"
                ELSE IF is_p2p[c] = 1 THEN "meet" ELSE "early")
  /\ UNCHANGED <<RTSOCKET, serveraddr, p2p, ui, net, budget, log>>

\* The first datagram of whoever it is makes him the peer.
Meet(c) ==
  /\ Doing(c, "meet") /\ Becomes(c, "met")
  /\ p2paddr' = [p2paddr EXCEPT ![c] = worker[c].from]
  /\ UNCHANGED <<RTSOCKET, serveraddr, is_p2p, lastaddr, ui, net, budget, log>>

\* Mutant: is_p2p is counted up.
MetCounting(c) ==
  /\ Doing(c, "met") /\ Leaves(c)
  /\ is_p2p' = [is_p2p EXCEPT ![c] = @ + 1]
  /\ Ignored(c)
  /\ UNCHANGED <<RTSOCKET, serveraddr, p2paddr, lastaddr, ui, net, budget, introduced, raced, intruded>>

Met(c) ==
  /\ Doing(c, "met") /\ Leaves(c)
  /\ is_p2p' = [is_p2p EXCEPT ![c] = 2]
  /\ Ignored(c)
  /\ UNCHANGED <<RTSOCKET, serveraddr, p2paddr, lastaddr, ui, net, budget, introduced, raced, intruded>>

\* Others than the server are heard only by a client that has switched.
CheckEarly(c) ==
  /\ Doing(c, "early")
  /\ Becomes(c, IF is_p2p[c] = 0 THEN "remember" ELSE "known")
  /\ UNCHANGED <<RTSOCKET, serveraddr, p2p, ui, net, budget, log>>

Remember(c) ==
  /\ Doing(c, "remember") /\ Leaves(c)
  /\ lastaddr' = IF worker[c].kind = "hi" THEN [lastaddr EXCEPT ![c] = worker[c].from] ELSE lastaddr
  /\ Ignored(c)
  /\ UNCHANGED <<RTSOCKET, serveraddr, is_p2p, p2paddr, ui, net, budget, introduced, raced, intruded>>

\* A further "hi" is passed over; a client that has a peer hears everybody.
Receive(c) ==
  /\ Doing(c, "known") /\ Leaves(c)
  /\ IF worker[c].kind = "hi" /\ is_p2p[c] = 2 THEN Ignored(c) ELSE Returned(c)
  /\ UNCHANGED <<RTSOCKET, serveraddr, p2p, ui, net, budget, introduced, raced, intruded>>

\* Mutant: an empty address is not noticed.
PeerIsTwo(c) == is_p2p[c] = 2

HasPeer(c) == is_p2p[c] = 2 /\ p2paddr[c] # None

\* session_send with is_realtime: to the peer if there is one, else to the server.
SendRealtime(c) ==
  /\ Doing(c, "idle") /\ RTSOCKET[c] /\ budget.sent > 0
  /\ budget' = [budget EXCEPT !.sent = @ - 1]
  /\ IF HasPeer(c) THEN Becomes(c, "sendto") /\ UNCHANGED net
     ELSE Sendto(c, serveraddr[c], "message", 1) /\ UNCHANGED worker
  /\ UNCHANGED <<RTSOCKET, serveraddr, p2p, ui, log>>

\* An address that was zeroed meanwhile is an error, and the socket is dropped.
SendToPeer(c) ==
  /\ Doing(c, "sendto") /\ Becomes(c, "idle")
  /\ Sendto(c, p2paddr[c], "message", 1)
  /\ RTSOCKET' = [RTSOCKET EXCEPT ![c] = p2paddr[c] # None]
  /\ UNCHANGED <<serveraddr, p2p, ui, budget, log>>

-----------------------------------------------------------------------------
\* The network loses a datagram; that it reorders them is in the bag.
Lose ==
  /\ budget.lost > 0
  /\ \E d \in DOMAIN net : net[d] > 0 /\ net' = [net EXCEPT ![d] = @ - 1]
  /\ budget' = [budget EXCEPT !.lost = @ - 1]
  /\ UNCHANGED <<RTSOCKET, serveraddr, p2p, ui, worker, log>>

\* Datagrams of others come at any time.
StrangerSends ==
  /\ budget.others > 0
  /\ \E to \in Clients, from \in Strangers, kind \in Datagrams :
       net' = [net EXCEPT ![<<to, from, kind>>] = @ + 1]
  /\ budget' = [budget EXCEPT !.others = @ - 1]
  /\ UNCHANGED <<RTSOCKET, serveraddr, p2p, ui, worker, log>>

Switching(c) ==
  Resolve(c) \/ StunAnswered(c) \/ StunEats(c) \/ StunTimesOut(c)
    \/ WaitForPeer(c) \/ UseLast(c) \/ Hello(c)

Receiving(c) ==
  Recvfrom(c) \/ CheckSource(c) \/ Meet(c) \/ Met(c) \/ CheckEarly(c) \/ Remember(c) \/ Receive(c)

Next ==
  \/ \E c \in Clients :
       \/ \E peer \in Clients : SwitchP2P(c, peer) \/ InitUDP3(c, peer)
       \/ Switching(c) \/ Receiving(c) \/ SendRealtime(c) \/ SendToPeer(c)
  \/ Lose \/ StrangerSends

Spec == Init /\ [][Next]_vars

\* The server tells every client what it meant to; both threads run.
LiveSpec ==
  /\ Spec
  /\ \A c \in Clients :
       /\ \A peer \in Clients : WF_vars(SwitchP2P(c, peer))
       /\ WF_vars(Switching(c)) /\ WF_vars(Receiving(c)) /\ WF_vars(SendToPeer(c))

-----------------------------------------------------------------------------
(* Properties *)

TypeOK ==
  /\ RTSOCKET \in [Clients -> BOOLEAN]
  /\ serveraddr \in [Clients -> Clients \cup {Server}]
  /\ is_p2p \in [Clients -> 0..2]
  /\ p2paddr \in [Clients -> Senders \cup {None}] /\ lastaddr \in [Clients -> Senders \cup {None}]
  /\ ui \in [Clients -> [pc : {"idle", "resolve", "stun", "wait", "last", "hi1", "hi2", "hi3"},
                         peer : Clients \cup {None}]]
  /\ worker \in [Clients -> [pc : {"idle", "source", "meet", "met", "early", "remember", "known", "sendto"},
                             from : Senders \cup {None}, kind : Datagrams]]
  /\ net \in [Clients \X Senders \X Datagrams -> Nat]
  /\ outcome \in [Clients -> {"none", "empty", "again", "message", "failed"}]

\* A client that talks to a peer talks to one that was told to talk to it, or a stranger
\* got in: by a "hi" before the switch, or by any datagram that was received while it
\* switched or waited.  Then the peer is he, or the one the client itself was told of.
\* What a stranger sends to a client that has its peer never makes him the peer, of a
\* later switch neither, unless that began while recv2 had it (recv2, SwitchP2P).
PeerWasIntroduced ==
  \A c \in Clients :
    is_p2p[c] = 2 /\ ui[c].pc = "idle" /\ p2paddr[c] # None =>
      \/ <<p2paddr[c], c>> \in introduced
      \/ \E s \in Strangers :
           <<s, c>> \in intruded /\ (p2paddr[c] = s \/ <<c, p2paddr[c]>> \in introduced)

\* What others send to a client that was told to talk to nobody is no message, nothing
\* but a frame with the ID 0, and does not make the worker take its connection for
\* broken, as the punch of a friend or of anyone does once a client has switched; nor
\* does the client talk to anybody (recv2, get_message).
StrangersAreIgnored ==
  \A c \in Clients :
    outcome[c] \notin {"none", "empty"} \/ is_p2p[c] # 0 =>
      \E d \in Clients : <<c, d>> \in introduced

\* The realtime socket is dropped only if a switch began between session_send's look
\* at the peer and its sendto.
SocketIsKept == \A c \in Clients : ~RTSOCKET[c] => c \in raced

\* Two clients told to switch to each other end up talking to each other for good, in
\* whatever phase of its switch the "hi" of the other finds each, and one lost.
BothSwitch ==
  <>[](\A c \in Clients : is_p2p[c] = 2 /\ <<c, p2paddr[c]>> \in Pairs)
=============================================================================
