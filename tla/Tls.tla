-------------------------------- MODULE Tls --------------------------------
(***************************************************************************)
(* The switch of a running connection to TLS (ConceptClient.cpp: InitTLS,     *)
(* Send, Recv, IsEOF; the query "TLS" of callback.cpp).  The user interface   *)
(* thread answers the server's query by way of the worker and does the       *)
(* handshake itself, on the socket that the worker reads and writes.         *)
(***************************************************************************)
EXTENDS Integers, Sequences

CONSTANTS
  MaxFrames,   \* bound: frames of the server
  MaxMessages  \* bound: messages of the client

TlsAssumption == MaxFrames \in Nat /\ MaxMessages \in Nat

VARIABLES
  ui,           \* the user interface thread: where it is in InitTLS
  worker,       \* the worker: where it is in doWork and Recv
  layer,        \* whether the Recv under way reads through TLS
  in_ssl_neg,
  ssl,          \* whether ssl is set
  MessageStack, \* messages to be sent
  toServer, toClient, \* what is under way, and whether it is inside TLS
  server,       \* "plain", "asked", "handshake", "tls", or "confused"
  frames, messages,   \* what is used of the bounds
  stolen,       \* history: one thread took what was for the other
  crossed,      \* history: a message was sent while the handshake was under way
  waited,       \* history: the worker was told to read while it was
  gaveUp,       \* history: the client gave the handshake up
  talked        \* history: the server sent a frame between its query and the handshake

wires == <<toServer, toClient>>
history == <<stolen, crossed, waited, gaveUp, talked>>
vars == <<ui, worker, layer, in_ssl_neg, ssl, MessageStack, wires, server, frames, messages, history>>

Item(what, tls) == [what |-> what, tls |-> tls]

Init ==
  /\ ui = "loop" /\ worker = "poll" /\ layer = FALSE
  /\ in_ssl_neg = FALSE /\ ssl = FALSE
  /\ MessageStack = <<>> /\ toServer = <<>> /\ toClient = <<>>
  /\ server = "plain" /\ frames = 0 /\ messages = 0
  /\ stolen = FALSE /\ crossed = FALSE /\ waited = FALSE /\ gaveUp = FALSE /\ talked = FALSE

-----------------------------------------------------------------------------
(* The user interface thread *)

UiGoes(from, to) == ui = from /\ ui' = to

\* The query is handled: its answer is queued for the worker.
Answer ==
  /\ UiGoes("query", "init")
  /\ MessageStack' = Append(MessageStack, "answer")
  /\ UNCHANGED <<worker, layer, in_ssl_neg, ssl, wires, server, frames, messages, history>>

\* Mutant: the worker is not told.
BeginSilently ==
  /\ UiGoes("init", "connect")
  /\ UNCHANGED <<worker, layer, in_ssl_neg, ssl, MessageStack, wires, server, frames, messages, history>>

\* InitTLS; there is no earlier ssl that ResetTLS would end.
Begin ==
  /\ UiGoes("init", "connect") /\ in_ssl_neg' = TRUE
  /\ UNCHANGED <<worker, layer, ssl, MessageStack, wires, server, frames, messages, history>>

\* SSL_connect: the hello goes out at once, the answer when the worker sends it.
Hello ==
  /\ UiGoes("connect", "wait")
  /\ toServer' = Append(toServer, Item("hello", FALSE))
  /\ crossed' = (crossed \/ MessageStack # <<>>)
  /\ UNCHANGED <<worker, layer, in_ssl_neg, ssl, MessageStack, toClient, server, frames, messages, stolen, waited, gaveUp, talked>>

\* The next item is the server's hello, or the handshake fails on it.
HelloBack ==
  /\ toClient # <<>>
  /\ UiGoes("wait", IF Head(toClient).what = "hello" THEN "verify" ELSE "fail")
  /\ toClient' = Tail(toClient)
  /\ stolen' = (stolen \/ Head(toClient).what = "frame")
  /\ UNCHANGED <<worker, layer, in_ssl_neg, ssl, MessageStack, toServer, server, frames, messages, crossed, waited, gaveUp, talked>>

\* Nothing came for five seconds.
HelloTimesOut ==
  /\ toClient = <<>> /\ UiGoes("wait", "fail")
  /\ UNCHANGED <<worker, layer, in_ssl_neg, ssl, MessageStack, wires, server, frames, messages, history>>

\* The certificate is accepted, by the user if need be, or not.
Verify ==
  /\ \E next \in {"set", "fail"} : UiGoes("verify", next)
  /\ UNCHANGED <<worker, layer, in_ssl_neg, ssl, MessageStack, wires, server, frames, messages, history>>

\* Mutant: the flag is cleared before ssl is set.
SetLate ==
  /\ ui \in {"set", "clear"}
  /\ IF ui = "set" THEN ui' = "clear" /\ in_ssl_neg' = FALSE /\ UNCHANGED ssl
                   ELSE ui' = "loop" /\ ssl' = TRUE /\ UNCHANGED in_ssl_neg
  /\ UNCHANGED <<worker, layer, MessageStack, wires, server, frames, messages, history>>

\* ssl is set before the flag is cleared.
Set ==
  /\ ui \in {"set", "clear"}
  /\ IF ui = "set" THEN ui' = "clear" /\ ssl' = TRUE /\ UNCHANGED in_ssl_neg
                   ELSE ui' = "loop" /\ in_ssl_neg' = FALSE /\ UNCHANGED ssl
  /\ UNCHANGED <<worker, layer, MessageStack, wires, server, frames, messages, history>>

\* Mutant: the flag stays set when the handshake failed.
FailBusy ==
  /\ UiGoes("fail", "loop")
  /\ UNCHANGED <<worker, layer, in_ssl_neg, ssl, MessageStack, wires, server, frames, messages, history>>

\* The handshake failed: the client goes on without TLS.
Fail ==
  /\ UiGoes("fail", "loop") /\ in_ssl_neg' = FALSE /\ gaveUp' = TRUE
  /\ UNCHANGED <<worker, layer, ssl, MessageStack, wires, server, frames, messages, stolen, crossed, waited, talked>>

\* The user does something, also under the dialog that asks about the certificate.
UserSends ==
  /\ ui \in {"loop", "verify"} /\ messages < MaxMessages
  /\ messages' = messages + 1 /\ MessageStack' = Append(MessageStack, "message")
  /\ UNCHANGED <<ui, worker, layer, in_ssl_neg, ssl, wires, server, frames, history>>

-----------------------------------------------------------------------------
(* The worker *)

\* IsEOF says that there is something to read.
Poll ==
  /\ worker = "poll" /\ toClient # <<>> /\ worker' = "recv"
  /\ waited' = (waited \/ in_ssl_neg)
  /\ UNCHANGED <<ui, layer, in_ssl_neg, ssl, MessageStack, wires, server, frames, messages, stolen, crossed, gaveUp, talked>>

\* SendPending otherwise; Send does not look at in_ssl_neg.
SendPending ==
  /\ worker = "poll" /\ toClient = <<>> /\ MessageStack # <<>>
  /\ toServer' = Append(toServer, Item(Head(MessageStack), ssl))
  /\ MessageStack' = Tail(MessageStack)
  /\ crossed' = (crossed \/ (in_ssl_neg /\ ~ssl /\ ui # "connect"))
  /\ UNCHANGED <<ui, worker, layer, in_ssl_neg, ssl, toClient, server, frames, messages, stolen, waited, gaveUp, talked>>

\* Mutant: Recv does not look at ssl.
RecvPlain ==
  /\ worker = "recv" /\ ~in_ssl_neg
  /\ worker' = "read" /\ layer' = FALSE
  /\ UNCHANGED <<ui, in_ssl_neg, ssl, MessageStack, wires, server, frames, messages, history>>

\* Recv waits for the handshake to end and takes what ssl is then.
Recv ==
  /\ worker = "recv" /\ ~in_ssl_neg
  /\ worker' = "read" /\ layer' = ssl
  /\ UNCHANGED <<ui, in_ssl_neg, ssl, MessageStack, wires, server, frames, messages, history>>

\* What comes is a frame in the layer it is read in, or the connection is taken for
\* broken.
Read ==
  /\ worker = "read" /\ toClient # <<>>
  /\ toClient' = Tail(toClient)
  /\ LET i == Head(toClient)
         sound == i.what # "hello" /\ i.tls = layer IN
       /\ worker' = IF sound THEN "poll" ELSE "failed"
       /\ ui' = IF sound /\ i.what = "query" THEN "query" ELSE ui
       /\ stolen' = (stolen \/ i.what = "hello")
  /\ UNCHANGED <<layer, in_ssl_neg, ssl, MessageStack, toServer, server, frames, messages, crossed, waited, gaveUp, talked>>

\* Nothing came for five seconds: errno is not ETIMEDOUT, the connection is broken.
ReadTimesOut ==
  /\ worker = "read" /\ toClient = <<>> /\ worker' = "failed"
  /\ UNCHANGED <<ui, layer, in_ssl_neg, ssl, MessageStack, wires, server, frames, messages, history>>

-----------------------------------------------------------------------------
(* The server *)

\* It asks for TLS once.
Ask ==
  /\ server = "plain" /\ server' = "asked"
  /\ toClient' = Append(toClient, Item("query", FALSE))
  /\ UNCHANGED <<ui, worker, layer, in_ssl_neg, ssl, MessageStack, toServer, frames, messages, history>>

\* Mutant: one frame beyond the bound.
ServerSendsMore ==
  /\ frames <= MaxFrames /\ frames' = frames + 1
  /\ server \in {"plain", "asked", "tls"}
  /\ toClient' = Append(toClient, Item("frame", server = "tls"))
  /\ talked' = (talked \/ server = "asked")
  /\ UNCHANGED <<ui, worker, layer, in_ssl_neg, ssl, MessageStack, toServer, server, messages,
                 stolen, crossed, waited, gaveUp>>

\* A frame, also between the query and the handshake.
ServerSends ==
  /\ frames < MaxFrames /\ frames' = frames + 1
  /\ server \in {"plain", "asked", "tls"}
  /\ toClient' = Append(toClient, Item("frame", server = "tls"))
  /\ talked' = (talked \/ server = "asked")
  /\ UNCHANGED <<ui, worker, layer, in_ssl_neg, ssl, MessageStack, toServer, server, messages,
                 stolen, crossed, waited, gaveUp>>

\* It reads messages in its own layer, and the hello when it has the answer.
ServerReads ==
  /\ toServer # <<>> /\ server # "confused"
  /\ toServer' = Tail(toServer)
  /\ LET i == Head(toServer) IN
       CASE i.what = "hello" /\ server = "handshake" ->
              server' = "tls" /\ toClient' = Append(toClient, Item("hello", FALSE))
         [] i.what = "answer" /\ server = "asked" -> server' = "handshake" /\ UNCHANGED toClient
         [] i.what = "message" /\ server # "handshake" /\ i.tls = (server = "tls") ->
              UNCHANGED <<server, toClient>>
         [] OTHER -> server' = "confused" /\ UNCHANGED toClient
  /\ UNCHANGED <<ui, worker, layer, in_ssl_neg, ssl, MessageStack, frames, messages, history>>

-----------------------------------------------------------------------------
InitTLS == Answer \/ Begin \/ Hello \/ HelloBack \/ HelloTimesOut \/ Verify \/ Set \/ Fail
Worker == Poll \/ SendPending \/ Recv \/ Read \/ ReadTimesOut
Server == Ask \/ ServerSends \/ ServerReads

Next == InitTLS \/ UserSends \/ Worker \/ Server

Spec == Init /\ [][Next]_vars

\* SSL_connect times out, the user answers, and the worker runs.
LiveSpec == Spec /\ WF_vars(InitTLS) /\ WF_vars(Worker)

-----------------------------------------------------------------------------
(* Properties *)

TypeOK ==
  /\ ui \in {"loop", "query", "init", "connect", "wait", "verify", "set", "clear", "fail"}
  /\ worker \in {"poll", "recv", "read", "failed"}
  /\ {layer, in_ssl_neg, ssl} \subseteq BOOLEAN
  /\ server \in {"plain", "asked", "handshake", "tls", "confused"}
  /\ frames \in 0..MaxFrames /\ messages \in 0..MaxMessages

\* Unless the client gave the handshake up, the server can make sense of everything it
\* gets: the worker and InitTLS change layers at the same place of the stream, apart from
\* a message that crosses the handshake, since Send does not look at in_ssl_neg.
ServerUnderstands == server = "confused" => crossed \/ gaveUp

\* When the server says nothing between its query and the handshake, neither thread
\* takes from the socket what is for the other (in_ssl_neg, Recv).
NothingIsStolen == stolen => talked \/ gaveUp

\* When the server says nothing in between either, the worker takes the connection for
\* broken only after a handshake that failed, or when bytes of the handshake told it to
\* read, which are gone when it does.
AlarmIsExplained == worker = "failed" => waited \/ gaveUp \/ talked

\* A handshake ends, and the worker is let go.
NegotiationEnds == in_ssl_neg ~> ~in_ssl_neg
=============================================================================
