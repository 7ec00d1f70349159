--------------------------- MODULE ThreadsProofs ---------------------------
(***************************************************************************)
(* Sockets, TLS, commands and the list of their messages, for any            *)
(* descriptors, addresses, attempts, frames, messages, nodes and threads:     *)
(* the layers of a connection agree on its protocol, no socket is lost or     *)
(* closed twice, every thread of a command runs its own, the list is to its   *)
(* callers a sequence, and the semaphore they take turns by is a lock.        *)
(***************************************************************************)
EXTENDS MCThreads, SequenceTheorems, FiniteSetTheorems, WellFoundedInduction, TLAPS

-----------------------------------------------------------------------------
(* Sequences *)

All(s, S) == \A k \in 1..Len(s) : s[k] \in S

\* s ends with the sequence that f follows, and has only x before it.
EndsIn(s, x, f) == Len(s) > 0 /\ s[Len(s)] = f /\ \A k \in 1..Len(s) : k < Len(s) => s[k] = x
EndsInTwo(s, x, e, f) ==
  /\ Len(s) > 1 /\ s[Len(s) - 1] = e /\ s[Len(s)] = f
  /\ \A k \in 1..Len(s) : k < Len(s) - 1 => s[k] = x

\* The first element and the others.
LEMMA HeadAndTail ==
  ASSUME NEW T, NEW s \in Seq(T), s # <<>>
  PROVE  /\ Len(s) \in Nat \ {0} /\ Head(s) = s[1] /\ Head(s) \in T
         /\ Tail(s) \in Seq(T) /\ Len(Tail(s)) = Len(s) - 1
         /\ \A k \in 1..Len(Tail(s)) : k + 1 \in 1..Len(s) /\ Tail(s)[k] = s[k + 1]
  OBVIOUS

\* One more element at the end.
LEMMA OneMore ==
  ASSUME NEW T, NEW s \in Seq(T), NEW e \in T
  PROVE  /\ Append(s, e) \in Seq(T) /\ Len(Append(s, e)) = Len(s) + 1 /\ Len(s) \in Nat
         /\ Append(s, e)[Len(s) + 1] = e
         /\ \A k \in 1..Len(s) : Append(s, e)[k] = s[k]
  OBVIOUS

\* What holds of all elements holds of those that are left, and with one more.
LEMMA AllKept ==
  ASSUME NEW T, NEW s \in Seq(T), NEW S, All(s, S)
  PROVE  /\ s # <<>> => Head(s) \in S /\ All(Tail(s), S)
         /\ \A e \in T : e \in S => All(Append(s, e), S)
<1>1. ASSUME s # <<>> PROVE Head(s) \in S /\ All(Tail(s), S)
  BY <1>1, HeadAndTail DEF All
<1>2. ASSUME NEW e \in T, e \in S PROVE All(Append(s, e), S)
  BY <1>2, OneMore DEF All
<1> QED BY <1>1, <1>2

\* What is appended to a run of x, and to that.
LEMMA EndsMade ==
  ASSUME NEW T, NEW s \in Seq(T), NEW x \in T, NEW e \in T, NEW f \in T
  PROVE  /\ All(s, {x}) => EndsIn(Append(s, f), x, f)
         /\ EndsIn(s, x, e) => EndsInTwo(Append(s, f), x, e, f)
<1>1. ASSUME All(s, {x}) PROVE EndsIn(Append(s, f), x, f)
  BY <1>1, OneMore DEF All, EndsIn
<1>2. ASSUME EndsIn(s, x, e) PROVE EndsInTwo(Append(s, f), x, e, f)
  BY <1>2, OneMore DEF EndsIn, EndsInTwo
<1> QED BY <1>1, <1>2

\* What is taken from them.
LEMMA EndsTaken ==
  ASSUME NEW T, NEW s \in Seq(T), NEW x, NEW e, NEW f
  PROVE  /\ EndsIn(s, x, f) =>
              \/ Head(s) = f /\ Tail(s) = <<>>
              \/ Head(s) = x /\ EndsIn(Tail(s), x, f)
         /\ EndsInTwo(s, x, e, f) =>
              \/ Head(s) = e /\ Len(Tail(s)) = 1 /\ Tail(s)[1] = f
              \/ Head(s) = x /\ EndsInTwo(Tail(s), x, e, f)
<1>a. ASSUME s # <<>>
      PROVE  /\ Len(s) \in Nat \ {0} /\ Head(s) = s[1]
             /\ Tail(s) \in Seq(T) /\ Len(Tail(s)) = Len(s) - 1
             /\ \A k \in 1..Len(Tail(s)) : k + 1 \in 1..Len(s) /\ Tail(s)[k] = s[k + 1]
  BY <1>a, HeadAndTail
<1>1. ASSUME EndsIn(s, x, f) PROVE \/ Head(s) = f /\ Tail(s) = <<>>
                                   \/ Head(s) = x /\ EndsIn(Tail(s), x, f)
  <2>1. s # <<>> /\ Len(s) \in Nat \ {0} /\ s[Len(s)] = f
    BY <1>1 DEF EndsIn
  <2>2. CASE Len(s) = 1
    <3>1. Head(s) = f /\ Len(Tail(s)) = 0
      BY <1>a, <2>1, <2>2
    <3>2. Tail(s) = <<>>
      BY <1>a, <2>1, <3>1, EmptySeq
    <3> QED BY <3>1, <3>2
  <2>3. CASE Len(s) # 1
    <3>1. 1 \in 1..Len(s) /\ 1 < Len(s) /\ Len(Tail(s)) > 0 /\ Len(Tail(s)) \in 1..Len(Tail(s))
      <4>1. Len(Tail(s)) = Len(s) - 1
        BY <1>a, <2>1
      <4> QED BY <2>1, <2>3, <4>1
    <3>2. Head(s) = x
      <4>1. s[1] = x
        BY <1>1, <3>1 DEF EndsIn
      <4> QED BY <1>a, <2>1, <4>1
    <3>3. Tail(s)[Len(Tail(s))] = f
      BY <1>a, <2>1, <3>1
    <3>4. ASSUME NEW k \in 1..Len(Tail(s)), k < Len(Tail(s)) PROVE Tail(s)[k] = x
      <4>1. k + 1 \in 1..Len(s) /\ k + 1 < Len(s) /\ Tail(s)[k] = s[k + 1]
        BY <1>a, <2>1, <3>4
      <4> QED BY <1>1, <4>1 DEF EndsIn
    <3> QED BY <3>1, <3>2, <3>3, <3>4 DEF EndsIn
  <2> QED BY <2>2, <2>3
<1>2. ASSUME EndsInTwo(s, x, e, f) PROVE \/ Head(s) = e /\ Len(Tail(s)) = 1 /\ Tail(s)[1] = f
                                         \/ Head(s) = x /\ EndsInTwo(Tail(s), x, e, f)
  <2>1. s # <<>> /\ Len(s) \in Nat /\ Len(s) > 1 /\ s[Len(s)] = f /\ s[Len(s) - 1] = e
    BY <1>2 DEF EndsInTwo
  <2>2. CASE Len(s) = 2
    <3>1. Head(s) = e /\ Len(Tail(s)) = 1 /\ Tail(s)[1] = f /\ Tail(s) \in Seq(T)
      BY <1>a, <2>1, <2>2
    <3> QED BY <3>1
  <2>3. CASE Len(s) # 2
    <3>1. /\ 1 \in 1..Len(s) /\ 1 < Len(s) - 1 /\ Len(Tail(s)) > 1
          /\ Len(Tail(s)) \in 1..Len(Tail(s)) /\ Len(Tail(s)) - 1 \in 1..Len(Tail(s))
      <4>1. Len(Tail(s)) = Len(s) - 1
        BY <1>a, <2>1
      <4> QED BY <2>1, <2>3, <4>1
    <3>2. Head(s) = x
      <4>1. s[1] = x
        BY <1>2, <3>1 DEF EndsInTwo
      <4> QED BY <1>a, <2>1, <4>1
    <3>3. Tail(s)[Len(Tail(s))] = f /\ Tail(s)[Len(Tail(s)) - 1] = e
      BY <1>a, <2>1, <3>1
    <3>4. ASSUME NEW k \in 1..Len(Tail(s)), k < Len(Tail(s)) - 1 PROVE Tail(s)[k] = x
      <4>1. k + 1 \in 1..Len(s) /\ k + 1 < Len(s) - 1 /\ Tail(s)[k] = s[k + 1]
        BY <1>a, <2>1, <3>4
      <4> QED BY <1>2, <4>1 DEF EndsInTwo
    <3> QED BY <3>1, <3>2, <3>3, <3>4 DEF EndsInTwo
  <2> QED BY <2>2, <2>3
<1> QED BY <1>1, <1>2

-----------------------------------------------------------------------------
(* The change to TLS: what is under way at each point of the handshake.       *)

message(secret) == Layers!Item("message", secret)
answer          == Layers!Item("answer", FALSE)
hello           == Layers!Item("hello", FALSE)
frame(secret)   == Layers!Item("frame", secret)
query           == Layers!Item("query", FALSE)

ToServer == [what : {"hello", "answer", "message"}, tls : BOOLEAN]
ToClient == [what : {"frame", "query", "hello"}, tls : BOOLEAN]

LayersTyped ==
  /\ Layers!TypeOK
  /\ MessageStack \in Seq({"answer", "message"})
  /\ toServer \in Seq(ToServer)
  /\ toClient \in Seq(ToClient)

\* Before the server's query has been read.
Plain == tls = "loop" /\ ~ssl

Flags ==
  /\ in_ssl_neg <=> tls \in {"connect", "wait", "verify", "set", "clear", "fail"}
  /\ ssl => tls \in {"clear", "loop"}
  /\ tls = "clear" => ssl
  /\ Plain \/ tls \in {"query", "init", "connect"} => ~crossed /\ server # "confused"
  /\ Plain \/ tls \in {"query", "init"} => ~waited
  /\ ~Plain => server # "plain"

\* Unless a message crossed the handshake: what the server is still to read is what it
\* expects.
Upstream ==
  /\ Plain \/ tls = "query" =>
       server \in {"plain", "asked"} /\ All(toServer, {message(FALSE)}) /\ All(MessageStack, {"message"})
  /\ tls \in {"init", "connect"} =>
       \/ server = "asked" /\ All(toServer, {message(FALSE)}) /\ EndsIn(MessageStack, "message", "answer")
       \/ server = "asked" /\ EndsIn(toServer, message(FALSE), answer) /\ MessageStack = <<>>
       \/ server = "handshake" /\ toServer = <<>> /\ MessageStack = <<>>
  /\ tls \in {"wait", "fail"} =>
       /\ All(MessageStack, {"message"})
       /\ \/ server = "asked" /\ EndsInTwo(toServer, message(FALSE), answer, hello)
          \/ server = "handshake" /\ Len(toServer) = 1 /\ toServer[1] = hello
          \/ server = "tls" /\ toServer = <<>>
  /\ tls \in {"verify", "set"} =>
       server = "tls" /\ toServer = <<>> /\ All(MessageStack, {"message"})
  /\ ssl => server = "tls" /\ All(toServer, {message(TRUE)}) /\ All(MessageStack, {"message"})

HelloSeen == \A k \in 1..Len(toClient) : toClient[k].what = "hello" => server = "tls"

\* The query is read once, before anything else that is for the user interface.
Downstream ==
  /\ Plain => /\ All(toClient, {frame(FALSE), query})
              /\ \A j, k \in 1..Len(toClient) : toClient[j] = query /\ toClient[k] = query => j = k
              /\ server = "plain" => All(toClient, {frame(FALSE)})
  /\ ~Plain => \A k \in 1..Len(toClient) : toClient[k].what # "query"

\* A server that says nothing between its query and its hello.
Quiet ==
  /\ Plain => \A k \in 1..Len(toClient) : toClient[k] = query => k = Len(toClient)
  /\ tls \in {"query", "init", "connect"} => toClient = <<>>
  /\ tls = "wait" => \/ toClient = <<>> /\ server # "tls"
                     \/ /\ Len(toClient) > 0 /\ toClient[1] = hello
                        /\ \A k \in 1..Len(toClient) : k > 1 => toClient[k] = frame(TRUE)
                        /\ server \in {"tls", "confused"}
  /\ tls = "fail" => All(toClient, {hello, frame(TRUE)})
  /\ tls \in {"verify", "set"} \/ ssl => All(toClient, {frame(TRUE)}) /\ server \in {"tls", "confused"}

\* What the worker is at, then: it reads nothing while the handshake is under way.
Reader ==
  /\ ~stolen
  /\ worker = "failed" => waited
  /\ tls \in {"query", "init", "connect"} => worker = "poll"
  /\ tls \in {"wait", "verify", "set", "clear", "fail"} => worker = "poll" \/ (worker = "recv" /\ waited)
  /\ tls = "loop" /\ ~waited =>
       worker = "poll" \/ (toClient # <<>> /\ (worker = "read" => layer = ssl))

\* All of it, while the client has not given the handshake up.
Agreed ==
  /\ Flags /\ Downstream
  /\ ~crossed => Upstream /\ HelloSeen
  /\ ~talked => Quiet /\ Reader

LayersInv == LayersTyped /\ (~gaveUp => Agreed)

\* What the layers send each other is what their sequences hold.
LEMMA ItemsTyped ==
  /\ \A b1 \in BOOLEAN : message(b1) \in ToServer /\ frame(b1) \in ToClient
  /\ answer \in ToServer /\ hello \in ToServer /\ hello \in ToClient /\ query \in ToClient
  BY DEF message, frame, answer, hello, query, ToServer, ToClient, Layers!Item

\* Every step of the layers keeps their types.
LEMMA LayersTypes == PartsAssumption /\ LayersTyped /\ Layers!Next => LayersTyped'
<1> SUFFICES ASSUME PartsAssumption, LayersTyped, Layers!Next PROVE LayersTyped'
  OBVIOUS
<1> USE DEF LayersTyped, Layers!TypeOK, Layers!UiGoes, Layers!wires, Layers!history, Layers!Item
<1>0. ServerFrames \in Nat /\ UserMessages \in Nat
  BY DEF PartsAssumption, Layers!TlsAssumption
<1>1. CASE Layers!Answer
  BY <1>0, <1>1 DEF Layers!Answer
<1>2. CASE Layers!Begin
  BY <1>0, <1>2 DEF Layers!Begin
<1>3. CASE Layers!Hello
  BY <1>0, <1>3 DEF Layers!Hello, ToServer
<1>4. CASE Layers!HelloBack
  BY <1>0, <1>4 DEF Layers!HelloBack
<1>5. CASE Layers!HelloTimesOut
  BY <1>0, <1>5 DEF Layers!HelloTimesOut
<1>6. CASE Layers!Verify
  BY <1>0, <1>6 DEF Layers!Verify
<1>7. CASE Layers!Set
  BY <1>0, <1>7 DEF Layers!Set
<1>8. CASE Layers!Fail
  BY <1>0, <1>8 DEF Layers!Fail
<1>9. CASE Layers!UserSends
  BY <1>0, <1>9 DEF Layers!UserSends
<1>10. CASE Layers!Poll
  BY <1>0, <1>10 DEF Layers!Poll
<1>11. CASE Layers!SendPending
  BY <1>0, <1>11 DEF Layers!SendPending, ToServer
<1>12. CASE Layers!Recv
  BY <1>0, <1>12 DEF Layers!Recv
<1>13. CASE Layers!Read
  BY <1>0, <1>13 DEF Layers!Read
<1>14. CASE Layers!ReadTimesOut
  BY <1>0, <1>14 DEF Layers!ReadTimesOut
<1>15. CASE Layers!Ask
  BY <1>0, <1>15 DEF Layers!Ask, ToClient
<1>16. CASE Layers!ServerSends
  BY <1>0, <1>16 DEF Layers!ServerSends, ToClient
<1>17. CASE Layers!ServerReads
  <2>1. server' \in {"plain", "asked", "handshake", "tls", "confused"}
        /\ (toClient' = toClient \/ toClient' = Append(toClient, hello))
    BY <1>17 DEF Layers!ServerReads, hello
  <2>2. toServer' \in Seq(ToServer)
    BY <1>17 DEF Layers!ServerReads
  <2>3. hello \in ToClient
    BY DEF hello, ToClient
  <2>4. toClient' \in Seq(ToClient)
    BY <2>1, <2>3
  <2>5. UNCHANGED <<tls, worker, layer, in_ssl_neg, ssl, MessageStack, frames, messages,
                    stolen, crossed, waited, gaveUp, talked>>
    BY <1>17 DEF Layers!ServerReads
  <2> QED BY <1>0, <2>1, <2>2, <2>4, <2>5
<1> QED BY <1>1, <1>2, <1>3, <1>4, <1>5, <1>6, <1>7, <1>8, <1>9, <1>10, <1>11, <1>12, <1>13, <1>14, <1>15, <1>16, <1>17 DEF Layers!Next, Layers!InitTLS, Layers!Worker, Layers!Server
\* What the server makes of what it expects.
LEMMA ServerTakes ==
  ASSUME Layers!ServerReads
  PROVE  /\ Head(toServer) = message(FALSE) /\ server \in {"plain", "asked"} => UNCHANGED <<server, toClient>>
         /\ Head(toServer) = message(TRUE) /\ server = "tls" => UNCHANGED <<server, toClient>>
         /\ Head(toServer) = answer /\ server = "asked" => server' = "handshake" /\ UNCHANGED toClient
         /\ Head(toServer) = hello /\ server = "handshake" =>
              server' = "tls" /\ toClient' = Append(toClient, hello)
<1> USE DEF Layers!ServerReads, message, answer, hello, Layers!Item
<1>1. Head(toServer) = message(FALSE) /\ server \in {"plain", "asked"} => UNCHANGED <<server, toClient>>
  <2> SUFFICES ASSUME Head(toServer) = message(FALSE), server \in {"plain", "asked"}
               PROVE  UNCHANGED <<server, toClient>>
    OBVIOUS
  <2>1. (server = "tls") = FALSE /\ server # "handshake"
    OBVIOUS
  <2>2. Head(toServer).what = "message" /\ Head(toServer).tls = FALSE
    OBVIOUS
  <2>3. Head(toServer).tls = (server = "tls")
    BY <2>1, <2>2, Zenon
  <2> QED BY <2>1, <2>2, <2>3
<1>2. Head(toServer) = message(TRUE) /\ server = "tls" => UNCHANGED <<server, toClient>>
  <2> SUFFICES ASSUME Head(toServer) = message(TRUE), server = "tls" PROVE UNCHANGED <<server, toClient>>
    OBVIOUS
  <2>1. (server = "tls") = TRUE /\ server # "handshake"
    OBVIOUS
  <2>2. Head(toServer).what = "message" /\ Head(toServer).tls = TRUE
    OBVIOUS
  <2>3. Head(toServer).tls = (server = "tls")
    BY <2>1, <2>2, Zenon
  <2> QED BY <2>1, <2>2, <2>3
<1>3. Head(toServer) = answer /\ server = "asked" => server' = "handshake" /\ UNCHANGED toClient
  OBVIOUS
<1>4. Head(toServer) = hello /\ server = "handshake" =>
        server' = "tls" /\ toClient' = Append(toClient, hello)
  OBVIOUS
<1> QED BY <1>1, <1>2, <1>3, <1>4

\* What is on its way to the server keeps its place in the handshake.
LEMMA UpstreamStep ==
  ASSUME LayersTyped, Flags, Downstream, ~crossed, Upstream, HelloSeen, Layers!Next, ~crossed', ~gaveUp'
  PROVE  Upstream'
<1> USE DEF Upstream, Layers!UiGoes, Layers!wires, Layers!history, Plain
<1>a. /\ MessageStack \in Seq({"answer", "message"}) /\ toServer \in Seq(ToServer) /\ toClient \in Seq(ToClient)
      /\ ssl \in BOOLEAN /\ in_ssl_neg \in BOOLEAN
      /\ tls \in {"loop", "query", "init", "connect", "wait", "verify", "set", "clear", "fail"}
      /\ server \in {"plain", "asked", "handshake", "tls", "confused"}
  BY DEF LayersTyped, Layers!TypeOK
<1>b. /\ message(TRUE) \in ToServer /\ message(FALSE) \in ToServer /\ answer \in ToServer /\ hello \in ToServer
  BY ItemsTyped
<1>1. CASE Layers!Answer
  <2>1. /\ tls = "query" /\ tls' = "init" /\ MessageStack' = Append(MessageStack, "answer")
        /\ UNCHANGED <<ssl, server, toServer>>
    BY <1>1 DEF Layers!Answer
  <2>2. EndsIn(MessageStack', "message", "answer")
    BY <1>a, <2>1, EndsMade DEF Upstream
  <2> QED BY <1>a, <2>1, <2>2 DEF Flags
<1>2. CASE Layers!Begin
  BY <1>2 DEF Layers!Begin
<1>3. CASE Layers!Hello
  <2>1. /\ tls = "connect" /\ tls' = "wait" /\ MessageStack = <<>> /\ toServer' = Append(toServer, hello)
        /\ UNCHANGED <<ssl, server, MessageStack>>
    BY <1>3 DEF Layers!Hello, hello
  <2>2. All(MessageStack', {"message"})
    BY <2>1 DEF All
  <2>3. CASE server = "asked"
    <3>1. EndsIn(toServer, message(FALSE), answer)
      <4>1. ~EndsIn(MessageStack, "message", "answer")
        BY <2>1 DEF EndsIn
      <4> QED BY <2>1, <2>3, <4>1
    <3>2. EndsInTwo(toServer', message(FALSE), answer, hello)
      BY <1>a, <1>b, <2>1, <3>1, EndsMade
    <3> QED BY <2>1, <2>2, <2>3, <3>2 DEF Flags
  <2>4. CASE server = "handshake"
    <3>1. toServer = <<>>
      BY <2>1, <2>4
    <3>2. Len(toServer') = 1 /\ toServer'[1] = hello
      BY <2>1, <3>1
    <3> QED BY <2>1, <2>2, <2>4, <3>2 DEF Flags
  <2> QED BY <2>1, <2>3, <2>4
<1>4. CASE Layers!HelloBack
  <2>1. /\ tls = "wait" /\ toClient # <<>> /\ UNCHANGED <<ssl, server, MessageStack, toServer>>
        /\ \/ tls' = "verify" /\ Head(toClient).what = "hello"
           \/ tls' = "fail"
    BY <1>4 DEF Layers!HelloBack
  <2>2. Head(toClient).what = "hello" => server = "tls"
    <3>1. Head(toClient) = toClient[1] /\ 1 \in 1..Len(toClient)
      BY <1>a, <2>1
    <3> QED BY <3>1 DEF HelloSeen
  <2> QED BY <2>1, <2>2 DEF Flags
<1>5. CASE Layers!HelloTimesOut
  BY <1>5 DEF Layers!HelloTimesOut
<1>6. CASE Layers!Verify
  BY <1>6 DEF Layers!Verify
<1>7. CASE Layers!Set
  <2>1. tls = "set" => All(toServer, {message(TRUE)})
    BY DEF All
  <2> QED BY <1>7, <2>1 DEF Layers!Set, Flags
<1>8. CASE Layers!Fail
  BY <1>8 DEF Layers!Fail
<1>9. CASE Layers!UserSends
  <2>1. /\ tls \in {"loop", "verify"} /\ MessageStack' = Append(MessageStack, "message")
        /\ UNCHANGED <<tls, ssl, server, toServer>>
    BY <1>9 DEF Layers!UserSends
  <2>2. All(MessageStack, {"message"})
    BY <2>1
  <2>3. All(MessageStack', {"message"})
    BY <1>a, <2>1, <2>2, AllKept
  <2> QED BY <2>1, <2>3 DEF Flags
<1>10. CASE Layers!Poll
  BY <1>10 DEF Layers!Poll
<1>11. CASE Layers!SendPending
  <2>1. /\ MessageStack # <<>> /\ MessageStack' = Tail(MessageStack)
        /\ toServer' = Append(toServer, Layers!Item(Head(MessageStack), ssl))
        /\ UNCHANGED <<tls, ssl, server>>
        /\ ~(in_ssl_neg /\ ~ssl /\ tls # "connect")
    BY <1>11 DEF Layers!SendPending
  <2>2. CASE Plain \/ tls = "query"
    <3>1. Head(MessageStack) = "message" /\ All(MessageStack', {"message"})
      BY <1>a, <2>1, <2>2, AllKept
    <3>2. ssl = FALSE
      BY <1>a, <2>2 DEF Flags
    <3>3. All(toServer', {message(FALSE)})
      <4>1. toServer' = Append(toServer, message(FALSE))
        BY <2>1, <3>1, <3>2 DEF message
      <4> QED BY <1>a, <1>b, <2>2, <4>1, AllKept
    <3> QED BY <2>1, <2>2, <3>1, <3>2, <3>3
  <2>3. CASE tls \in {"init", "connect"}
    <3>1. server = "asked" /\ All(toServer, {message(FALSE)}) /\ EndsIn(MessageStack, "message", "answer")
      BY <2>1, <2>3
    <3>2. ssl = FALSE
      BY <1>a, <2>3 DEF Flags
    <3>3. CASE Head(MessageStack) = "answer" /\ Tail(MessageStack) = <<>>
      <4>1. toServer' = Append(toServer, answer)
        BY <2>1, <3>2, <3>3 DEF answer
      <4>2. EndsIn(toServer', message(FALSE), answer)
        BY <1>a, <1>b, <3>1, <4>1, EndsMade
      <4> QED BY <2>1, <2>3, <3>1, <3>2, <3>3, <4>2
    <3>4. CASE Head(MessageStack) = "message" /\ EndsIn(Tail(MessageStack), "message", "answer")
      <4>1. toServer' = Append(toServer, message(FALSE))
        BY <2>1, <3>2, <3>4 DEF message
      <4>2. All(toServer', {message(FALSE)})
        BY <1>a, <1>b, <3>1, <4>1, AllKept
      <4> QED BY <2>1, <2>3, <3>1, <3>2, <3>4, <4>2
    <3> QED BY <1>a, <3>1, <3>3, <3>4, EndsTaken
  <2>4. CASE ssl
    <3>1. Head(MessageStack) = "message" /\ All(MessageStack', {"message"})
      BY <1>a, <2>1, <2>4, AllKept
    <3>2. ssl = TRUE
      BY <1>a, <2>4
    <3>3. All(toServer', {message(TRUE)})
      <4>1. toServer' = Append(toServer, message(TRUE))
        BY <2>1, <3>1, <3>2 DEF message
      <4> QED BY <1>a, <1>b, <2>4, <4>1, AllKept
    <3> QED BY <2>1, <2>4, <3>1, <3>2, <3>3 DEF Flags
  <2>5. tls \in {"wait", "verify", "set", "clear", "fail"} => in_ssl_neg
    BY DEF Flags
  <2> QED BY <1>a, <2>1, <2>2, <2>3, <2>4, <2>5
<1>12. CASE Layers!Recv
  BY <1>12 DEF Layers!Recv
<1>13. CASE Layers!Read
  <2>1. /\ UNCHANGED <<ssl, server, MessageStack, toServer>>
        /\ tls' = tls \/ (tls' = "query" /\ Head(toClient).what = "query" /\ toClient # <<>>)
    BY <1>13 DEF Layers!Read
  <2>2. Head(toClient).what = "query" /\ toClient # <<>> => Plain
    <3>1. toClient # <<>> => Head(toClient) = toClient[1] /\ 1 \in 1..Len(toClient)
      BY <1>a
    <3> QED BY <3>1 DEF Downstream
  <2> QED BY <2>1, <2>2
<1>14. CASE Layers!ReadTimesOut
  BY <1>14 DEF Layers!ReadTimesOut
<1>15. CASE Layers!Ask
  BY <1>15 DEF Layers!Ask, Flags
<1>16. CASE Layers!ServerSends
  BY <1>16 DEF Layers!ServerSends
<1>17. CASE Layers!ServerReads
  <2>1. toServer # <<>> /\ toServer' = Tail(toServer) /\ UNCHANGED <<tls, ssl, MessageStack>>
    BY <1>17 DEF Layers!ServerReads
  <2>2. CASE Plain \/ tls = "query"
    <3>1. Head(toServer) = message(FALSE) /\ All(toServer', {message(FALSE)})
      <4>1. All(toServer, {message(FALSE)})
        BY <2>2
      <4>2. Head(toServer) \in {message(FALSE)} /\ All(Tail(toServer), {message(FALSE)})
        BY <1>a, <2>1, <4>1, AllKept
      <4> QED BY <2>1, <4>2
    <3> QED BY <1>17, <2>1, <2>2, <3>1, ServerTakes DEF Flags
  <2>3. CASE tls \in {"init", "connect"}
    <3>1. CASE All(toServer, {message(FALSE)}) /\ server = "asked"
               /\ EndsIn(MessageStack, "message", "answer")
      <4>1. Head(toServer) = message(FALSE) /\ All(toServer', {message(FALSE)})
        <5>1. All(toServer, {message(FALSE)})
          BY <3>1
        <5>2. Head(toServer) \in {message(FALSE)} /\ All(Tail(toServer), {message(FALSE)})
          BY <1>a, <2>1, <5>1, AllKept
        <5> QED BY <2>1, <5>2
      <4> QED BY <1>17, <2>1, <2>3, <3>1, <4>1, ServerTakes DEF Flags
    <3>2. CASE EndsIn(toServer, message(FALSE), answer) /\ server = "asked" /\ MessageStack = <<>>
      <4>1. CASE Head(toServer) = answer /\ Tail(toServer) = <<>>
        BY <1>17, <2>1, <2>3, <3>2, <4>1, ServerTakes DEF Flags
      <4>2. CASE Head(toServer) = message(FALSE) /\ EndsIn(Tail(toServer), message(FALSE), answer)
        BY <1>17, <2>1, <2>3, <3>2, <4>2, ServerTakes DEF Flags
      <4> QED BY <1>a, <3>2, <4>1, <4>2, EndsTaken
    <3> QED BY <2>1, <2>3, <3>1, <3>2
  <2>4. CASE tls \in {"wait", "fail"}
    <3>1. CASE server = "asked" /\ EndsInTwo(toServer, message(FALSE), answer, hello)
      <4>1. CASE Head(toServer) = answer /\ Len(Tail(toServer)) = 1 /\ Tail(toServer)[1] = hello
        BY <1>17, <2>1, <2>4, <3>1, <4>1, ServerTakes DEF Flags
      <4>2. CASE Head(toServer) = message(FALSE) /\ EndsInTwo(Tail(toServer), message(FALSE), answer, hello)
        BY <1>17, <2>1, <2>4, <3>1, <4>2, ServerTakes DEF Flags
      <4> QED BY <1>a, <3>1, <4>1, <4>2, EndsTaken
    <3>2. CASE server = "handshake" /\ Len(toServer) = 1 /\ toServer[1] = hello
      <4>1. Head(toServer) = hello /\ toServer' = <<>>
        <5>1. Len(toServer') = 0 /\ Head(toServer) = hello /\ toServer' \in Seq(ToServer)
          BY <1>a, <2>1, <3>2
        <5> QED BY <5>1, EmptySeq
      <4> QED BY <1>17, <2>1, <2>4, <3>2, <4>1, ServerTakes DEF Flags
    <3> QED BY <2>1, <2>4, <3>1, <3>2
  <2>5. CASE ssl
    <3>1. Head(toServer) = message(TRUE) /\ All(toServer', {message(TRUE)})
      <4>1. All(toServer, {message(TRUE)})
        BY <2>5
      <4>2. Head(toServer) \in {message(TRUE)} /\ All(Tail(toServer), {message(TRUE)})
        BY <1>a, <2>1, <4>1, AllKept
      <4> QED BY <2>1, <4>2
    <3> QED BY <1>17, <2>1, <2>5, <3>1, ServerTakes DEF Flags
  <2> QED BY <1>a, <2>1, <2>2, <2>3, <2>4, <2>5
<1> QED BY <1>1, <1>2, <1>3, <1>4, <1>5, <1>6, <1>7, <1>8, <1>9, <1>10, <1>11, <1>12, <1>13, <1>14,
           <1>15, <1>16, <1>17 DEF Layers!Next, Layers!InitTLS, Layers!Worker, Layers!Server
\* The flags are set and cleared at their places in the handshake.
LEMMA FlagsStep ==
  ASSUME LayersTyped, Agreed, Layers!Next, ~gaveUp'
  PROVE  Flags'
<1> USE DEF Flags, Plain, Layers!UiGoes, Layers!wires, Layers!history
<1>a. /\ MessageStack \in Seq({"answer", "message"}) /\ toServer \in Seq(ToServer) /\ toClient \in Seq(ToClient)
      /\ ssl \in BOOLEAN /\ in_ssl_neg \in BOOLEAN
      /\ tls \in {"loop", "query", "init", "connect", "wait", "verify", "set", "clear", "fail"}
  BY DEF LayersTyped, Layers!TypeOK
<1>b. Flags /\ Downstream
  BY DEF Agreed
<1>1. CASE Layers!Answer
  BY <1>b, <1>1 DEF Layers!Answer
<1>2. CASE Layers!Begin
  BY <1>b, <1>2 DEF Layers!Begin
<1>3. CASE Layers!Hello
  BY <1>b, <1>3 DEF Layers!Hello
<1>4. CASE Layers!HelloBack
  BY <1>b, <1>4 DEF Layers!HelloBack
<1>5. CASE Layers!HelloTimesOut
  BY <1>b, <1>5 DEF Layers!HelloTimesOut
<1>6. CASE Layers!Verify
  BY <1>b, <1>6 DEF Layers!Verify
<1>7. CASE Layers!Set
  BY <1>b, <1>7 DEF Layers!Set
<1>8. CASE Layers!Fail
  BY <1>8 DEF Layers!Fail
<1>9. CASE Layers!UserSends
  BY <1>b, <1>9 DEF Layers!UserSends
<1>10. CASE Layers!Poll
  BY <1>b, <1>10 DEF Layers!Poll
<1>11. CASE Layers!SendPending
  BY <1>b, <1>11 DEF Layers!SendPending
<1>12. CASE Layers!Recv
  BY <1>b, <1>12 DEF Layers!Recv
<1>13. CASE Layers!Read
  <2>1. /\ UNCHANGED <<ssl, in_ssl_neg, server, crossed, waited>>
        /\ tls' = tls \/ (tls' = "query" /\ Head(toClient).what = "query" /\ toClient # <<>>)
    BY <1>13 DEF Layers!Read
  <2>2. ASSUME Head(toClient).what = "query", toClient # <<>> PROVE Plain /\ server # "plain"
    <3>1. Head(toClient) = toClient[1] /\ 1 \in 1..Len(toClient)
      BY <1>a, <2>2
    <3>2. Plain
      BY <1>b, <2>2, <3>1 DEF Downstream
    <3>3. server = "plain" => toClient[1] = frame(FALSE)
      BY <1>b, <3>1, <3>2 DEF Downstream, All
    <3> QED BY <2>2, <3>1, <3>2, <3>3 DEF frame, Layers!Item
  <2> QED BY <1>b, <2>1, <2>2
<1>14. CASE Layers!ReadTimesOut
  BY <1>b, <1>14 DEF Layers!ReadTimesOut
<1>15. CASE Layers!Ask
  BY <1>b, <1>15 DEF Layers!Ask
<1>16. CASE Layers!ServerSends
  BY <1>b, <1>16 DEF Layers!ServerSends
<1>17. CASE Layers!ServerReads
  <2>1. /\ UNCHANGED <<tls, ssl, in_ssl_neg, crossed, waited, gaveUp>>
        /\ server' # "plain" \/ server' = server
    BY <1>17 DEF Layers!ServerReads
  <2>2. Plain \/ tls \in {"query", "init", "connect"} => server' # "confused"
    <3> SUFFICES ASSUME Plain \/ tls \in {"query", "init", "connect"} PROVE server' # "confused"
      OBVIOUS
    <3>1. ~crossed /\ ~crossed' /\ Upstream /\ HelloSeen
      BY <1>b, <2>1 DEF Agreed
    <3>2. Upstream'
      BY <1>b, <3>1, UpstreamStep
    <3> QED BY <2>1, <3>2 DEF Upstream
  <2> QED BY <1>b, <2>1, <2>2
<1> QED BY <1>1, <1>2, <1>3, <1>4, <1>5, <1>6, <1>7, <1>8, <1>9, <1>10, <1>11, <1>12, <1>13, <1>14,
           <1>15, <1>16, <1>17 DEF Layers!Next, Layers!InitTLS, Layers!Worker, Layers!Server

\* What the steps of the client and of the server leave of what is on its way to the client.
LEMMA ToClientStep ==
  ASSUME LayersTyped, Layers!Next
  PROVE  \/ toClient' = toClient /\ Layers!ServerReads /\ server' # "tls"
         \/ toClient' = toClient /\ UNCHANGED server
         \/ toClient # <<>> /\ toClient' = Tail(toClient) /\ (Layers!HelloBack \/ Layers!Read) /\ UNCHANGED server
         \/ /\ toClient' = Append(toClient, hello) /\ Layers!ServerReads
            /\ server = "handshake" /\ server' = "tls"
         \/ toClient' = Append(toClient, query) /\ Layers!Ask /\ server = "plain" /\ server' = "asked"
         \/ /\ toClient' = Append(toClient, frame(server = "tls")) /\ Layers!ServerSends
            /\ server \in {"plain", "asked", "tls"} /\ UNCHANGED server
<1> USE DEF Layers!wires, Layers!history, hello, query, frame
<1>1. CASE Layers!HelloBack \/ Layers!Read
  BY <1>1 DEF Layers!HelloBack, Layers!Read
<1>2. CASE Layers!Ask \/ Layers!ServerSends
  BY <1>2 DEF Layers!Ask, Layers!ServerSends
<1>3. CASE Layers!ServerReads
  BY <1>3 DEF Layers!ServerReads
<1>4. CASE Layers!Answer \/ Layers!Begin \/ Layers!Hello \/ Layers!HelloTimesOut \/ Layers!Verify
           \/ Layers!Set \/ Layers!Fail
  BY <1>4 DEF Layers!Answer, Layers!Begin, Layers!Hello, Layers!HelloTimesOut, Layers!Verify, Layers!Set,
              Layers!Fail
<1>5. CASE Layers!UserSends \/ Layers!Poll \/ Layers!SendPending \/ Layers!Recv \/ Layers!ReadTimesOut
  BY <1>5 DEF Layers!UserSends, Layers!Poll, Layers!SendPending, Layers!Recv, Layers!ReadTimesOut
<1> QED BY <1>1, <1>2, <1>3, <1>4, <1>5 DEF Layers!Next, Layers!InitTLS, Layers!Worker, Layers!Server

\* A hello is under way to the client only when the server has changed.
LEMMA HelloSeenStep ==
  ASSUME LayersTyped, Flags, Downstream, ~crossed, Upstream, HelloSeen, Layers!Next, ~crossed', ~gaveUp',
         Flags'
  PROVE  HelloSeen'
<1>a. toClient \in Seq(ToClient) /\ server \in {"plain", "asked", "handshake", "tls", "confused"}
  BY DEF LayersTyped, Layers!TypeOK
<1>b. server' # "confused"
  <2>1. LayersTyped'
    BY PartsAssumption, LayersTypes
  <2>2. tls' \in {"loop", "query", "init", "connect", "wait", "verify", "set", "clear", "fail"}
    BY <2>1 DEF LayersTyped, Layers!TypeOK
  <2>3. Upstream'
    BY UpstreamStep
  <2> QED BY <2>2, <2>3 DEF Upstream, Flags, Plain
<1>c. ASSUME NEW e \in ToClient, toClient' = Append(toClient, e),
             e.what = "hello" => server' = "tls", server = "tls" => server' = "tls"
      PROVE  HelloSeen'
  <2> SUFFICES ASSUME NEW k \in 1..Len(toClient'), toClient'[k].what = "hello" PROVE server' = "tls"
    BY DEF HelloSeen
  <2>1. CASE k = Len(toClient) + 1
    BY <1>a, <1>c, <2>1, OneMore
  <2>2. CASE k # Len(toClient) + 1
    <3>1. k \in 1..Len(toClient) /\ toClient'[k] = toClient[k]
      BY <1>a, <1>c, <2>2, OneMore
    <3> QED BY <1>c, <3>1 DEF HelloSeen
  <2> QED BY <2>1, <2>2
<1>1. CASE toClient' = toClient /\ Layers!ServerReads /\ server' # "tls"
  <2>1. server # "tls"
    BY <1>b, <1>1 DEF Layers!ServerReads
  <2> QED BY <1>1, <2>1 DEF HelloSeen
<1>2. CASE toClient' = toClient /\ UNCHANGED server
  BY <1>2 DEF HelloSeen
<1>3. CASE toClient # <<>> /\ toClient' = Tail(toClient) /\ UNCHANGED server
  BY <1>a, <1>3, HeadAndTail DEF HelloSeen
<1>4. CASE toClient' = Append(toClient, hello) /\ server' = "tls"
  BY <1>c, <1>4, ItemsTyped
<1>5. CASE toClient' = Append(toClient, query) /\ server = "plain" /\ server' = "asked"
  <2>1. query.what = "query"
    BY DEF query, Layers!Item
  <2> QED BY <1>c, <1>5, <2>1, ItemsTyped
<1>6. CASE toClient' = Append(toClient, frame(server = "tls")) /\ UNCHANGED server
  <2>1. frame(server = "tls").what = "frame" /\ frame(server = "tls") \in ToClient
    BY DEF frame, ToClient, Layers!Item
  <2> QED BY <1>c, <1>6, <2>1
<1> QED BY <1>1, <1>2, <1>3, <1>4, <1>5, <1>6, ToClientStep
\* The query is the only one, and is gone once it has been read.
LEMMA DownstreamStep ==
  ASSUME LayersTyped, Agreed, Layers!Next, ~gaveUp', Flags'
  PROVE  Downstream'
<1> USE DEF Plain
<1>a. /\ toClient \in Seq(ToClient) /\ ssl \in BOOLEAN
      /\ tls \in {"loop", "query", "init", "connect", "wait", "verify", "set", "clear", "fail"}
  BY DEF LayersTyped, Layers!TypeOK
<1>b. Flags /\ Downstream
  BY DEF Agreed
<1>c. frame(FALSE) # query /\ frame(FALSE).what = "frame" /\ query.what = "query" /\ hello.what = "hello"
  BY DEF frame, query, hello, Layers!Item
<1>d. Plain => server \in {"plain", "asked"} /\ Upstream
  BY <1>b DEF Agreed, Upstream, Flags
<1>e. ~Plain => ~Plain'
  <2> USE DEF Layers!UiGoes, Layers!wires, Layers!history
  <2>1. CASE Layers!InitTLS
    BY <1>b, <2>1 DEF Layers!InitTLS, Layers!Answer, Layers!Begin, Layers!Hello, Layers!HelloBack,
       Layers!HelloTimesOut, Layers!Verify, Layers!Set, Layers!Fail, Flags
  <2>2. CASE Layers!UserSends \/ Layers!Worker \/ Layers!Server
    BY <2>2 DEF Layers!UserSends, Layers!Worker, Layers!Server, Layers!Poll, Layers!SendPending, Layers!Recv,
       Layers!Read, Layers!ReadTimesOut, Layers!Ask, Layers!ServerSends, Layers!ServerReads
  <2> QED BY <2>1, <2>2 DEF Layers!Next
<1>f. Plain /\ ~Plain' => Layers!Read /\ Head(toClient) = query
  <2> USE DEF Layers!UiGoes, Layers!wires, Layers!history
  <2> SUFFICES ASSUME Plain, ~Plain' PROVE Layers!Read /\ Head(toClient) = query
    OBVIOUS
  <2>1. CASE Layers!InitTLS
    BY <1>b, <2>1 DEF Layers!InitTLS, Layers!Answer, Layers!Begin, Layers!Hello, Layers!HelloBack,
       Layers!HelloTimesOut, Layers!Verify, Layers!Set, Layers!Fail, Flags
  <2>2. CASE Layers!UserSends \/ Layers!Poll \/ Layers!SendPending \/ Layers!Recv
             \/ Layers!ReadTimesOut \/ Layers!Server
    BY <2>2 DEF Layers!UserSends, Layers!Server, Layers!Poll, Layers!SendPending, Layers!Recv,
       Layers!ReadTimesOut, Layers!Ask, Layers!ServerSends, Layers!ServerReads
  <2>3. CASE Layers!Read
    <3>1. Head(toClient).what = "query" /\ toClient # <<>>
      BY <2>3 DEF Layers!Read
    <3>2. Head(toClient) = toClient[1] /\ 1 \in 1..Len(toClient)
      BY <1>a, <3>1
    <3>3. toClient[1] \in {frame(FALSE), query}
      BY <1>b, <3>2 DEF Downstream, All
    <3> QED BY <1>c, <2>3, <3>1, <3>2, <3>3
  <2> QED BY <2>1, <2>2, <2>3 DEF Layers!Next, Layers!Worker
<1>1. CASE toClient' = toClient /\ Layers!ServerReads /\ server' # "tls"
  <2>1. ASSUME Plain PROVE UNCHANGED server
    <3>1. toServer # <<>> /\ toServer \in Seq(ToServer) /\ All(toServer, {message(FALSE)})
      BY <1>1, <1>d, <2>1 DEF Layers!ServerReads, LayersTyped, Upstream
    <3>2. Head(toServer) = message(FALSE)
      <4>1. Head(toServer) \in {message(FALSE)}
        BY <3>1, AllKept
      <4> QED BY <4>1
    <3> QED BY <1>1, <1>d, <2>1, <3>2, ServerTakes
  <2>2. UNCHANGED <<tls, ssl>>
    BY <1>1 DEF Layers!ServerReads
  <2> QED BY <1>1, <1>b, <2>1, <2>2 DEF Downstream
<1>2. CASE toClient' = toClient /\ UNCHANGED server /\ ~Layers!Read
  <2>1. Plain <=> Plain'
    BY <1>2, <1>e, <1>f
  <2> QED BY <1>2, <1>b, <2>1 DEF Downstream
<1>3. CASE toClient # <<>> /\ toClient' = Tail(toClient) /\ UNCHANGED server
  <2>1. /\ Len(toClient) \in Nat /\ Len(toClient') = Len(toClient) - 1 /\ Head(toClient) = toClient[1]
        /\ \A k \in 1..Len(toClient') : k + 1 \in 1..Len(toClient) /\ toClient'[k] = toClient[k + 1]
        /\ 1 \in 1..Len(toClient)
    BY <1>a, <1>3, HeadAndTail
  <2>2. CASE ~Plain
    <3>1. ~Plain'
      BY <1>e, <2>2
    <3>2. \A k \in 1..Len(toClient') : toClient'[k].what # "query"
      BY <1>b, <2>1, <2>2 DEF Downstream
    <3> QED BY <3>1, <3>2 DEF Downstream
  <2>3. CASE Plain /\ Plain'
    <3>1. All(toClient', {frame(FALSE), query}) /\ (server = "plain" => All(toClient', {frame(FALSE)}))
      BY <1>b, <2>1, <2>3 DEF Downstream, All
    <3>2. ASSUME NEW j \in 1..Len(toClient'), NEW k \in 1..Len(toClient'), toClient'[j] = query, toClient'[k] = query
          PROVE  j = k
      <4>1. j + 1 \in 1..Len(toClient) /\ k + 1 \in 1..Len(toClient) /\ toClient[j + 1] = query /\ toClient[k + 1] = query
        BY <2>1, <3>2
      <4>2. j + 1 = k + 1
        BY <1>b, <2>3, <4>1 DEF Downstream
      <4> QED BY <2>1, <4>2
    <3> QED BY <1>3, <2>3, <3>1, <3>2 DEF Downstream
  <2>4. CASE Plain /\ ~Plain'
    <3>1. toClient[1] = query
      BY <1>f, <2>1, <2>4
    <3>2. ASSUME NEW k \in 1..Len(toClient') PROVE toClient'[k].what # "query"
      <4>1. k + 1 \in 1..Len(toClient) /\ toClient'[k] = toClient[k + 1] /\ k + 1 # 1
        BY <2>1
      <4>2. toClient[k + 1] # query
        BY <1>b, <2>1, <2>4, <3>1, <4>1 DEF Downstream
      <4>3. toClient[k + 1] \in {frame(FALSE), query}
        BY <1>b, <2>4, <4>1 DEF Downstream, All
      <4> QED BY <1>c, <4>1, <4>2, <4>3
    <3> QED BY <2>4, <3>2 DEF Downstream
  <2> QED BY <2>2, <2>3, <2>4
<1>g. ASSUME NEW e \in ToClient, toClient' = Append(toClient, e)
      PROVE  /\ Len(toClient) \in Nat /\ Len(toClient') = Len(toClient) + 1 /\ toClient'[Len(toClient) + 1] = e
             /\ \A k \in 1..Len(toClient) : toClient'[k] = toClient[k]
             /\ \A k \in 1..Len(toClient') : k = Len(toClient) + 1 \/ k \in 1..Len(toClient)
             /\ e.what # "query" /\ ~Plain => \A k \in 1..Len(toClient') : toClient'[k].what # "query"
  <2>1. /\ Len(toClient) \in Nat /\ Len(toClient') = Len(toClient) + 1 /\ toClient'[Len(toClient) + 1] = e
        /\ \A k \in 1..Len(toClient) : toClient'[k] = toClient[k]
        /\ \A k \in 1..Len(toClient') : k = Len(toClient) + 1 \/ k \in 1..Len(toClient)
    BY <1>a, <1>g, OneMore
  <2>2. ASSUME ~Plain, e.what # "query", NEW k \in 1..Len(toClient') PROVE toClient'[k].what # "query"
    <3>1. CASE k = Len(toClient) + 1
      BY <2>1, <2>2, <3>1
    <3>2. CASE k \in 1..Len(toClient)
      BY <1>b, <2>1, <2>2, <3>2 DEF Downstream
    <3> QED BY <2>1, <3>1, <3>2
  <2> QED BY <2>1, <2>2
<1>4. CASE toClient' = Append(toClient, hello) /\ Layers!ServerReads /\ server = "handshake"
  <2>1. ~Plain /\ ~Plain'
    BY <1>4, <1>d, <1>e
  <2> QED BY <1>4, <1>c, <1>g, <2>1, ItemsTyped DEF Downstream
<1>5. CASE toClient' = Append(toClient, query) /\ Layers!Ask /\ server = "plain" /\ server' = "asked"
  <2>1. Plain /\ Plain'
    BY <1>5, <1>b DEF Flags, Layers!Ask
  <2>2. All(toClient, {frame(FALSE)})
    BY <1>5, <1>b, <2>1 DEF Downstream
  <2>3. /\ Len(toClient) \in Nat /\ Len(toClient') = Len(toClient) + 1 /\ toClient'[Len(toClient) + 1] = query
        /\ \A k \in 1..Len(toClient) : toClient'[k] = toClient[k]
        /\ \A k \in 1..Len(toClient') : k = Len(toClient) + 1 \/ k \in 1..Len(toClient)
    BY <1>5, <1>g, ItemsTyped
  <2>4. \A k \in 1..Len(toClient') : (k = Len(toClient) + 1 /\ toClient'[k] = query) \/ toClient'[k] = frame(FALSE)
    <3>1. \A k \in 1..Len(toClient) : toClient[k] = frame(FALSE)
      BY <2>2 DEF All
    <3> QED BY <2>3, <3>1
  <2>5. All(toClient', {frame(FALSE), query})
    BY <2>4 DEF All
  <2>6. \A j, k \in 1..Len(toClient') : toClient'[j] = query /\ toClient'[k] = query => j = k
    BY <1>c, <2>3, <2>4
  <2> QED BY <1>5, <2>1, <2>5, <2>6 DEF Downstream
<1>6. CASE toClient' = Append(toClient, frame(server = "tls")) /\ Layers!ServerSends /\ UNCHANGED server
  <2>1. UNCHANGED <<tls, ssl>>
    BY <1>6 DEF Layers!ServerSends
  <2>2. CASE ~Plain
    <3>1. frame(server = "tls").what = "frame" /\ frame(server = "tls") \in ToClient
      BY DEF frame, ToClient, Layers!Item
    <3> QED BY <1>6, <1>g, <2>1, <2>2, <3>1 DEF Downstream
  <2>3. CASE Plain
    <3>1. (server = "tls") = FALSE
      BY <1>d, <2>3
    <3>2. toClient' = Append(toClient, frame(FALSE))
      BY <1>6, <3>1, Zenon
    <3>3. /\ Len(toClient) \in Nat /\ Len(toClient') = Len(toClient) + 1 /\ toClient'[Len(toClient) + 1] = frame(FALSE)
          /\ \A k \in 1..Len(toClient) : toClient'[k] = toClient[k]
          /\ \A k \in 1..Len(toClient') : k = Len(toClient) + 1 \/ k \in 1..Len(toClient)
      BY <1>g, <3>2, ItemsTyped
    <3>4. All(toClient', {frame(FALSE), query}) /\ (server = "plain" => All(toClient', {frame(FALSE)}))
      BY <1>b, <2>3, <3>3 DEF All, Downstream
    <3>5. ASSUME NEW j \in 1..Len(toClient'), NEW k \in 1..Len(toClient'), toClient'[j] = query, toClient'[k] = query
          PROVE  j = k
      <4>1. j \in 1..Len(toClient) /\ k \in 1..Len(toClient)
        BY <1>c, <3>3, <3>5
      <4> QED BY <1>b, <2>3, <3>3, <3>5, <4>1 DEF Downstream
    <3> QED BY <1>6, <2>1, <2>3, <3>4, <3>5 DEF Downstream
  <2> QED BY <2>2, <2>3
<1>h. Layers!Read => toClient # <<>> /\ toClient' = Tail(toClient) /\ UNCHANGED server
  BY DEF Layers!Read
<1> QED BY <1>1, <1>2, <1>3, <1>4, <1>5, <1>6, <1>h, ToClientStep
\* A server that says nothing in between leaves the socket empty until its hello, and the
\* hello is the first that comes.
LEMMA QuietStep ==
  ASSUME LayersTyped, Agreed, Layers!Next, ~gaveUp', Flags', Downstream', ~talked, ~talked'
  PROVE  Quiet'
<1> USE DEF Plain, Layers!UiGoes, Layers!wires, Layers!history
<1>a. /\ toClient \in Seq(ToClient) /\ ssl \in BOOLEAN
      /\ tls \in {"loop", "query", "init", "connect", "wait", "verify", "set", "clear", "fail"}
      /\ server \in {"plain", "asked", "handshake", "tls", "confused"}
  BY DEF LayersTyped, Layers!TypeOK
<1>b. Flags /\ Downstream /\ Quiet /\ Reader
  BY DEF Agreed
<1>c. /\ frame(FALSE) # query /\ frame(FALSE).what = "frame" /\ frame(TRUE).what = "frame"
      /\ query.what = "query" /\ hello.what = "hello"
  BY DEF frame, query, hello, Layers!Item
<1>d. Plain \/ tls \in {"query", "init", "connect"} => ~crossed /\ server \in {"plain", "asked", "handshake"} /\ Upstream /\ HelloSeen
  BY <1>b DEF Agreed, Upstream, Flags
<1>e. ASSUME toClient # <<>>, toClient' = Tail(toClient)
      PROVE  /\ Len(toClient) \in Nat \ {0} /\ Len(toClient') = Len(toClient) - 1 /\ Head(toClient) = toClient[1]
             /\ \A k \in 1..Len(toClient') : k + 1 \in 1..Len(toClient) /\ toClient'[k] = toClient[k + 1]
             /\ 1 \in 1..Len(toClient)
  BY <1>a, <1>e, HeadAndTail
<1>f. ASSUME NEW e \in ToClient, toClient' = Append(toClient, e)
      PROVE  /\ Len(toClient) \in Nat /\ Len(toClient') = Len(toClient) + 1 /\ toClient'[Len(toClient) + 1] = e
             /\ \A k \in 1..Len(toClient) : toClient'[k] = toClient[k]
             /\ \A k \in 1..Len(toClient') : k = Len(toClient) + 1 \/ k \in 1..Len(toClient)
  BY <1>a, <1>f, OneMore
<1>1. CASE UNCHANGED <<tls, ssl, toClient, server>>
  BY <1>b, <1>1 DEF Quiet, All
<1>2. CASE Layers!Answer \/ Layers!Begin
  BY <1>b, <1>2 DEF Layers!Answer, Layers!Begin, Quiet, Flags
<1>3. CASE Layers!Hello
  <2>1. tls = "connect" /\ tls' = "wait" /\ UNCHANGED <<ssl, toClient, server>>
    BY <1>3 DEF Layers!Hello
  <2>2. toClient = <<>> /\ server # "tls"
    BY <1>b, <1>d, <2>1 DEF Quiet
  <2> QED BY <1>b, <2>1, <2>2 DEF Quiet, Flags
<1>4. CASE Layers!HelloBack
  <2>1. /\ tls = "wait" /\ toClient # <<>> /\ toClient' = Tail(toClient) /\ UNCHANGED <<ssl, server>>
        /\ tls' = (IF Head(toClient).what = "hello" THEN "verify" ELSE "fail")
    BY <1>4 DEF Layers!HelloBack
  <2>2. /\ toClient[1] = hello /\ server \in {"tls", "confused"}
        /\ \A k \in 1..Len(toClient) : k > 1 => toClient[k] = frame(TRUE)
    BY <1>b, <2>1 DEF Quiet
  <2>3. tls' = "verify"
    BY <1>c, <1>e, <2>1, <2>2
  <2>4. All(toClient', {frame(TRUE)})
    <3>1. \A k \in 1..Len(toClient') : k + 1 \in 1..Len(toClient) /\ toClient'[k] = toClient[k + 1] /\ k + 1 > 1
      BY <1>e, <2>1
    <3> QED BY <2>2, <3>1 DEF All
  <2> QED BY <1>b, <2>1, <2>2, <2>3, <2>4 DEF Quiet, Flags
<1>5. CASE Layers!HelloTimesOut
  <2>1. tls = "wait" /\ tls' = "fail" /\ toClient = <<>> /\ UNCHANGED <<ssl, toClient, server>>
    BY <1>5 DEF Layers!HelloTimesOut
  <2>2. All(toClient', {hello, frame(TRUE)})
    BY <2>1 DEF All
  <2> QED BY <1>b, <2>1, <2>2 DEF Quiet, Flags
<1>6. CASE Layers!Verify \/ Layers!Set
  <2>1. /\ UNCHANGED <<toClient, server>> /\ (tls \in {"verify", "set"} \/ ssl)
        /\ tls' \in {"set", "clear", "loop", "fail"} /\ (tls' = "loop" => ssl')
    BY <1>b, <1>6 DEF Layers!Verify, Layers!Set, Flags
  <2>2. All(toClient, {frame(TRUE)}) /\ server \in {"tls", "confused"}
    BY <1>b, <2>1 DEF Quiet
  <2>3. All(toClient', {frame(TRUE)}) /\ All(toClient', {hello, frame(TRUE)})
    BY <2>1, <2>2 DEF All
  <2> QED BY <2>1, <2>2, <2>3 DEF Quiet
<1>7. CASE Layers!Fail
  BY <1>7 DEF Layers!Fail
<1>8. CASE Layers!UserSends \/ Layers!Poll \/ Layers!SendPending \/ Layers!Recv \/ Layers!ReadTimesOut
  BY <1>1, <1>8 DEF Layers!UserSends, Layers!Poll, Layers!SendPending, Layers!Recv, Layers!ReadTimesOut
<1>9. CASE Layers!Read
  <2>1. /\ worker = "read" /\ toClient # <<>> /\ toClient' = Tail(toClient) /\ UNCHANGED <<ssl, server>>
        /\ tls' = tls \/ (tls' = "query" /\ Head(toClient).what = "query")
    BY <1>9 DEF Layers!Read
  <2>2. tls = "loop"
    BY <1>a, <1>b, <2>1 DEF Reader
  <2>3. CASE ssl
    <3>1. All(toClient, {frame(TRUE)}) /\ server \in {"tls", "confused"}
      BY <1>b, <2>3 DEF Quiet
    <3>2. Head(toClient).what = "frame" /\ All(toClient', {frame(TRUE)})
      BY <1>c, <1>e, <2>1, <3>1 DEF All
    <3> QED BY <2>1, <2>2, <2>3, <3>1, <3>2 DEF Quiet
  <2>4. CASE ~ssl /\ tls' = "loop"
    <3>1. \A k \in 1..Len(toClient') : toClient'[k] = query => k = Len(toClient')
      BY <1>b, <1>e, <2>1, <2>2, <2>4 DEF Quiet
    <3> QED BY <2>1, <2>4, <3>1 DEF Quiet
  <2>5. CASE ~ssl /\ tls' = "query" /\ Head(toClient).what = "query"
    <3>1. toClient[1] = query
      <4>1. toClient[1] \in {frame(FALSE), query}
        BY <1>b, <1>e, <2>1, <2>2, <2>5 DEF Downstream, All
      <4> QED BY <1>c, <1>e, <2>1, <2>5, <4>1
    <3>2. Len(toClient') = 0
      <4>1. 1 \in 1..Len(toClient) /\ Len(toClient') = Len(toClient) - 1 /\ Len(toClient) \in Nat
        BY <1>e, <2>1
      <4>2. 1 = Len(toClient)
        BY <1>b, <2>2, <2>5, <3>1, <4>1 DEF Quiet
      <4> QED BY <1>a, <1>e, <2>1, <4>2
    <3>3. toClient' = <<>>
      BY <1>a, <2>1, <3>2, HeadAndTail, EmptySeq
    <3> QED BY <2>1, <2>5, <3>3 DEF Quiet
  <2> QED BY <1>a, <2>1, <2>2, <2>3, <2>4, <2>5
<1>10. CASE Layers!Ask
  <2>1. /\ toClient' = Append(toClient, query) /\ server = "plain" /\ server' = "asked" /\ UNCHANGED <<tls, ssl>>
    BY <1>10 DEF Layers!Ask, query
  <2>2. Plain /\ Plain'
    BY <1>b, <2>1 DEF Flags
  <2>3. \A k \in 1..Len(toClient) : toClient[k] = frame(FALSE)
    BY <1>b, <2>1, <2>2 DEF Downstream, All
  <2>4. \A k \in 1..Len(toClient') : toClient'[k] = query => k = Len(toClient')
    BY <1>c, <1>f, <2>1, <2>3, ItemsTyped
  <2> QED BY <2>2, <2>4 DEF Quiet
<1>11. CASE Layers!ServerSends
  <2>1. /\ toClient' = Append(toClient, frame(server = "tls")) /\ UNCHANGED <<tls, ssl, server>>
        /\ server \in {"plain", "tls"}
    BY <1>11 DEF Layers!ServerSends, frame
  <2>2. frame(server = "tls") \in ToClient
    BY DEF frame, ToClient, Layers!Item
  <2>3. CASE server = "plain"
    <3>1. Plain
      BY <1>b, <2>3 DEF Flags
    <3>2. \A k \in 1..Len(toClient') : toClient'[k].what # "query"
      <4>1. frame(server = "tls").what = "frame"
        BY DEF frame, Layers!Item
      <4>2. \A k \in 1..Len(toClient) : toClient[k] = frame(FALSE)
        BY <1>b, <2>3, <3>1 DEF Downstream, All
      <4> QED BY <1>c, <1>f, <2>1, <2>2, <4>1, <4>2
    <3> QED BY <1>c, <2>1, <3>1, <3>2 DEF Quiet
  <2>4. CASE server = "tls"
    <3>1. toClient' = Append(toClient, frame(TRUE)) /\ frame(TRUE) \in ToClient
      <4>1. (server = "tls") = TRUE
        BY <2>4
      <4>2. frame(server = "tls") = frame(TRUE)
        BY <4>1, Zenon
      <4> QED BY <2>1, <2>2, <4>2
    <3>2. tls \in {"wait", "verify", "set", "fail"} \/ ssl
      BY <1>a, <1>b, <1>d, <2>4 DEF Flags
    <3>3. ASSUME tls = "wait"
          PROVE  /\ Len(toClient') > 0 /\ toClient'[1] = hello
                 /\ \A k \in 1..Len(toClient') : k > 1 => toClient'[k] = frame(TRUE)
      <4>1. /\ Len(toClient) > 0 /\ toClient[1] = hello
            /\ \A k \in 1..Len(toClient) : k > 1 => toClient[k] = frame(TRUE)
        BY <1>b, <2>4, <3>3 DEF Quiet
      <4>2. Len(toClient) \in Nat /\ 1 \in 1..Len(toClient)
        BY <1>a, <4>1
      <4>3. /\ Len(toClient') = Len(toClient) + 1 /\ toClient'[Len(toClient) + 1] = frame(TRUE)
            /\ \A k \in 1..Len(toClient) : toClient'[k] = toClient[k]
            /\ \A k \in 1..Len(toClient') : k = Len(toClient) + 1 \/ k \in 1..Len(toClient)
        BY <1>f, <3>1
      <4>4. Len(toClient') > 0 /\ toClient'[1] = hello
        BY <1>a, <4>1, <4>2, <4>3
      <4>5. ASSUME NEW k \in 1..Len(toClient'), k > 1 PROVE toClient'[k] = frame(TRUE)
        <5>1. CASE k = Len(toClient) + 1
          BY <4>3, <5>1
        <5>2. CASE k \in 1..Len(toClient)
          BY <4>1, <4>3, <4>5, <5>2
        <5> QED BY <4>3, <5>1, <5>2
      <4> QED BY <4>4, <4>5
    <3>4. tls = "fail" => All(toClient', {hello, frame(TRUE)})
      BY <1>b, <1>f, <3>1 DEF Quiet, All
    <3>5. tls \in {"verify", "set"} \/ ssl => All(toClient', {frame(TRUE)})
      BY <1>b, <1>f, <3>1 DEF Quiet, All
    <3> QED BY <1>b, <2>1, <2>4, <3>2, <3>3, <3>4, <3>5 DEF Quiet, Flags
  <2> QED BY <2>1, <2>3, <2>4
<1>12. CASE Layers!ServerReads
  <2>0. UNCHANGED <<tls, ssl, crossed, gaveUp>>
    BY <1>12 DEF Layers!ServerReads
  <2>1. CASE toClient' = toClient /\ server' # "tls"
    <3>1. server = "tls" => server' = "confused"
      BY <1>12, <2>1 DEF Layers!ServerReads
    <3>2. server # "confused"
      BY <1>12 DEF Layers!ServerReads
    <3> QED BY <1>b, <2>0, <2>1, <3>1, <3>2 DEF Quiet, All
  <2>2. CASE toClient' = toClient /\ UNCHANGED server
    BY <1>1, <2>0, <2>2
  <2>3. CASE toClient' = Append(toClient, hello) /\ server = "handshake" /\ server' = "tls"
    <3>1. ~(Plain \/ tls \in {"query", "init", "connect"})
      <4> SUFFICES ASSUME Plain \/ tls \in {"query", "init", "connect"} PROVE FALSE
        OBVIOUS
      <4>1. Upstream'
        BY <1>b, <1>d, <2>0, UpstreamStep
      <4> QED BY <2>0, <2>3, <4>1 DEF Upstream
    <3>2. tls = "wait" \/ tls = "fail"
      BY <1>a, <1>b, <2>3, <3>1 DEF Quiet, Flags
    <3>3. CASE tls = "wait"
      <4>1. toClient = <<>>
        BY <1>b, <2>3, <3>3 DEF Quiet
      <4>2. Len(toClient') = 1 /\ toClient'[1] = hello
        BY <2>3, <4>1
      <4> QED BY <1>b, <2>0, <2>3, <3>3, <4>2 DEF Quiet, Flags
    <3>4. CASE tls = "fail"
      <4>1. All(toClient', {hello, frame(TRUE)})
        BY <1>b, <1>f, <2>3, <3>4, ItemsTyped DEF Quiet, All
      <4> QED BY <1>b, <2>0, <3>4, <4>1 DEF Quiet, Flags
    <3> QED BY <3>2, <3>3, <3>4
  <2>4. \/ toClient' = toClient /\ server' # "tls"
        \/ toClient' = toClient /\ UNCHANGED server
        \/ toClient' = Append(toClient, hello) /\ server = "handshake" /\ server' = "tls"
    BY <1>12 DEF Layers!ServerReads, hello
  <2> QED BY <2>1, <2>2, <2>3, <2>4
<1> QED BY <1>2, <1>3, <1>4, <1>5, <1>6, <1>7, <1>8, <1>9, <1>10, <1>11, <1>12
        DEF Layers!Next, Layers!InitTLS, Layers!Worker, Layers!Server
\* Neither thread takes what is for the other.
LEMMA ReaderStep ==
  ASSUME LayersTyped, Agreed, Layers!Next, ~gaveUp', Flags', ~talked, ~talked'
  PROVE  Reader'
<1> USE DEF Plain, Layers!UiGoes, Layers!wires, Layers!history
<1>a. /\ toClient \in Seq(ToClient) /\ ssl \in BOOLEAN /\ in_ssl_neg \in BOOLEAN /\ layer \in BOOLEAN
      /\ tls \in {"loop", "query", "init", "connect", "wait", "verify", "set", "clear", "fail"}
      /\ worker \in {"poll", "recv", "read", "failed"}
      /\ server \in {"plain", "asked", "handshake", "tls", "confused"}
  BY DEF LayersTyped, Layers!TypeOK
<1>b. Flags /\ Downstream /\ Quiet /\ Reader
  BY DEF Agreed
<1>c. /\ frame(FALSE).what = "frame" /\ frame(TRUE).what = "frame" /\ query.what = "query" /\ hello.what = "hello"
      /\ frame(FALSE).tls = FALSE /\ frame(TRUE).tls = TRUE /\ query.tls = FALSE
  BY DEF frame, query, hello, Layers!Item
<1>e. toClient # <<>> => Head(toClient) = toClient[1] /\ 1 \in 1..Len(toClient)
  BY <1>a
<1>1. CASE Layers!Answer \/ Layers!Begin \/ Layers!Hello
  <2>1. /\ tls \in {"query", "init", "connect"} /\ tls' \in {"init", "connect", "wait"}
        /\ UNCHANGED <<worker, stolen, waited>>
    BY <1>1 DEF Layers!Answer, Layers!Begin, Layers!Hello
  <2> QED BY <1>b, <2>1 DEF Reader
<1>2. CASE Layers!HelloBack
  <2>1. /\ tls = "wait" /\ toClient # <<>> /\ stolen' = (stolen \/ Head(toClient).what = "frame")
        /\ tls' \in {"verify", "fail"} /\ UNCHANGED <<worker, waited>>
    BY <1>2 DEF Layers!HelloBack
  <2>2. Head(toClient) = hello
    BY <1>b, <1>e, <2>1 DEF Quiet
  <2> QED BY <1>b, <1>c, <2>1, <2>2 DEF Reader
<1>3. CASE Layers!HelloTimesOut \/ Layers!Verify \/ Layers!Set
  BY <1>a, <1>b, <1>3 DEF Layers!HelloTimesOut, Layers!Verify, Layers!Set, Reader, Flags
<1>4. CASE Layers!Fail
  BY <1>4 DEF Layers!Fail
<1>5. CASE Layers!UserSends \/ Layers!SendPending
  BY <1>b, <1>5 DEF Layers!UserSends, Layers!SendPending, Reader
<1>6. CASE Layers!Poll
  <2>1. /\ worker = "poll" /\ worker' = "recv" /\ toClient # <<>> /\ waited' = (waited \/ in_ssl_neg)
        /\ UNCHANGED <<tls, toClient, stolen, layer, ssl>>
    BY <1>6 DEF Layers!Poll
  <2>2. tls \notin {"query", "init", "connect"}
    BY <1>b, <2>1 DEF Quiet
  <2>3. tls \in {"wait", "verify", "set", "clear", "fail"} => waited'
    BY <1>b, <2>1 DEF Flags
  <2> QED BY <1>b, <2>1, <2>2, <2>3 DEF Reader
<1>7. CASE Layers!Recv
  <2>1. /\ worker = "recv" /\ ~in_ssl_neg /\ worker' = "read" /\ layer' = ssl
        /\ UNCHANGED <<tls, toClient, stolen, waited, ssl>>
    BY <1>7 DEF Layers!Recv
  <2>2. tls = "loop"
    BY <1>a, <1>b, <2>1 DEF Flags, Reader
  <2> QED BY <1>b, <2>1, <2>2 DEF Reader
<1>8. CASE Layers!Read
  <2>1. /\ worker = "read" /\ toClient # <<>>
        /\ stolen' = (stolen \/ Head(toClient).what = "hello") /\ UNCHANGED <<ssl, waited>>
        /\ IF Head(toClient).what # "hello" /\ Head(toClient).tls = layer
             THEN worker' = "poll" /\ tls' \in {"query", tls}
             ELSE worker' = "failed" /\ tls' = tls
    BY <1>8 DEF Layers!Read
  <2>2. tls = "loop"
    BY <1>a, <1>b, <2>1 DEF Reader
  <2>3. Head(toClient).what # "hello" /\ Head(toClient).tls = ssl
    <3>1. CASE ssl
      <4>1. Head(toClient) = frame(TRUE) /\ ssl = TRUE
        BY <1>a, <1>b, <1>e, <2>1, <3>1 DEF Quiet, All
      <4> QED BY <1>c, <4>1
    <3>2. CASE ~ssl
      <4>1. Head(toClient) \in {frame(FALSE), query} /\ ssl = FALSE
        BY <1>a, <1>b, <1>e, <2>1, <2>2, <3>2 DEF Downstream, All
      <4> QED BY <1>c, <4>1
    <3> QED BY <3>1, <3>2
  <2>4. ~waited => layer = ssl
    BY <1>b, <2>1, <2>2 DEF Reader
  <2> QED BY <1>b, <2>1, <2>2, <2>3, <2>4 DEF Reader
<1>9. CASE Layers!ReadTimesOut
  <2>1. worker = "read" /\ toClient = <<>> /\ worker' = "failed" /\ UNCHANGED <<tls, toClient, stolen, waited>>
    BY <1>9 DEF Layers!ReadTimesOut
  <2>2. tls = "loop"
    BY <1>a, <1>b, <2>1 DEF Reader
  <2> QED BY <1>b, <2>1, <2>2 DEF Reader
<1>10. CASE Layers!Ask \/ Layers!ServerSends \/ Layers!ServerReads
  <2>1. /\ UNCHANGED <<tls, worker, layer, ssl, stolen, waited>>
        /\ toClient' = toClient \/ \E e : toClient' = Append(toClient, e)
    BY <1>10 DEF Layers!Ask, Layers!ServerSends, Layers!ServerReads
  <2>2. toClient # <<>> => toClient' # <<>>
    BY <1>a, <2>1
  <2> QED BY <1>b, <2>1, <2>2 DEF Reader
<1> QED BY <1>1, <1>2, <1>3, <1>4, <1>5, <1>6, <1>7, <1>8, <1>9, <1>10
        DEF Layers!Next, Layers!InitTLS, Layers!Worker, Layers!Server

\* The invariant of the change to TLS is one.
LEMMA LayersStep ==
  ASSUME LayersInv, Layers!Next
  PROVE  LayersInv'
<1>1. LayersTyped /\ LayersTyped'
  BY PartsAssumption, LayersTypes DEF LayersInv
<1>2. (gaveUp => gaveUp') /\ (crossed => crossed') /\ (talked => talked')
  <2> USE DEF Layers!wires, Layers!history
  <2>1. CASE Layers!Answer \/ Layers!Begin \/ Layers!HelloBack
    BY <2>1 DEF Layers!Answer, Layers!Begin, Layers!HelloBack
  <2>6. CASE Layers!Hello
    <3>1. crossed' = (crossed \/ MessageStack # <<>>) /\ UNCHANGED <<gaveUp, talked>>
      BY <2>6 DEF Layers!Hello
    <3> QED BY <3>1, Zenon
  <2>2. CASE Layers!HelloTimesOut \/ Layers!Verify \/ Layers!Set \/ Layers!Fail
    BY <2>2 DEF Layers!HelloTimesOut, Layers!Verify, Layers!Set, Layers!Fail
  <2>3. CASE Layers!UserSends \/ Layers!Poll \/ Layers!Recv
    BY <2>3 DEF Layers!UserSends, Layers!Poll, Layers!Recv
  <2>7. CASE Layers!SendPending
    <3>1. crossed' = (crossed \/ (in_ssl_neg /\ ~ssl /\ tls # "connect")) /\ UNCHANGED <<gaveUp, talked>>
      BY <2>7 DEF Layers!SendPending
    <3> QED BY <3>1, Zenon
  <2>4. CASE Layers!Read \/ Layers!ReadTimesOut
    BY <2>4 DEF Layers!Read, Layers!ReadTimesOut
  <2>5. CASE Layers!Ask \/ Layers!ServerReads
    <3>1. UNCHANGED <<gaveUp, crossed, talked>>
      BY <2>5 DEF Layers!Ask, Layers!ServerReads
    <3> QED BY <3>1
  <2>8. CASE Layers!ServerSends
    <3>1. talked' = (talked \/ server = "asked") /\ UNCHANGED <<gaveUp, crossed>>
      BY <2>8 DEF Layers!ServerSends
    <3> QED BY <3>1, Zenon
  <2> QED BY <2>1, <2>2, <2>3, <2>4, <2>5, <2>6, <2>7, <2>8 DEF Layers!Next, Layers!InitTLS, Layers!Worker, Layers!Server
<1>3. ASSUME ~gaveUp' PROVE Agreed'
  <2>1. Agreed
    BY <1>2, <1>3 DEF LayersInv
  <2>2. Flags' /\ Downstream'
    <3>1. Flags'
      BY <1>1, <1>3, <2>1, FlagsStep
    <3> QED BY <1>1, <1>3, <2>1, <3>1, DownstreamStep
  <2>3. ~crossed' => Upstream' /\ HelloSeen'
    BY <1>1, <1>2, <1>3, <2>1, <2>2, UpstreamStep, HelloSeenStep DEF Agreed
  <2>4. ~talked' => Quiet' /\ Reader'
    BY <1>1, <1>2, <1>3, <2>1, <2>2, QuietStep, ReaderStep
  <2> QED BY <2>2, <2>3, <2>4 DEF Agreed
<1> QED BY <1>1, <1>3 DEF LayersInv

\* Unless the client gave the handshake up, the two threads and the server agree on the layer
\* of all that is under way, with the exceptions of LayersAgree.
THEOREM LayersAgreeAlways == PartsSpec => []LayersAgree
<1>1. PartsInit => LayersInv
  <2> SUFFICES ASSUME PartsInit PROVE LayersInv
    OBVIOUS
  <2>1. Layers!Init /\ ServerFrames \in Nat /\ UserMessages \in Nat
    BY PartsAssumption DEF PartsInit, PartsAssumption, Layers!TlsAssumption
  <2>2. LayersTyped
    <3> USE DEF Layers!Init
    <3>1. Layers!TypeOK
      <4>1. frames \in 0..ServerFrames /\ messages \in 0..UserMessages
        BY <2>1
      <4>2. {layer, in_ssl_neg, ssl} \subseteq BOOLEAN
        BY <2>1
      <4> QED BY <2>1, <4>1, <4>2 DEF Layers!TypeOK
    <3>2. <<>> \in Seq({"answer", "message"}) /\ <<>> \in Seq(ToServer) /\ <<>> \in Seq(ToClient)
      OBVIOUS
    <3> QED BY <2>1, <3>1, <3>2 DEF LayersTyped
  <2>3. \A S : All(<<>>, S)
    BY DEF All
  <2>4. Flags /\ Downstream /\ Quiet /\ Reader /\ Upstream /\ HelloSeen
    BY <2>1, <2>3 DEF Layers!Init, Flags, Plain, Downstream, Quiet, Reader, Upstream, HelloSeen
  <2> QED BY <2>2, <2>4 DEF LayersInv, Agreed
<1>2. LayersInv /\ [PartsNext]_parts => LayersInv'
  <2> SUFFICES ASSUME LayersInv, [PartsNext]_parts PROVE LayersInv'
    OBVIOUS
  <2>1. CASE part = "tls" /\ Layers!Next
    BY <2>1, LayersStep
  <2>2. CASE UNCHANGED layers
    <3> USE <2>2 DEF layers
    <3>1. LayersTyped => LayersTyped'
      BY DEF LayersTyped, Layers!TypeOK
    <3>2. Flags => Flags'
      BY DEF Flags, Plain
    <3>3. Upstream => Upstream'
      BY DEF Upstream, Plain, All, EndsIn, EndsInTwo
    <3>4. Downstream => Downstream'
      BY DEF Downstream, Plain, All
    <3>5. (HelloSeen => HelloSeen') /\ (Reader => Reader')
      BY DEF HelloSeen, Reader
    <3>6. Quiet => Quiet'
      BY DEF Quiet, Plain, All
    <3>7. UNCHANGED <<gaveUp, crossed, talked>>
      OBVIOUS
    <3> QED BY <3>1, <3>2, <3>3, <3>4, <3>5, <3>6, <3>7 DEF LayersInv, Agreed
  <2> QED BY <2>1, <2>2 DEF PartsNext, parts
<1>3. LayersInv => LayersAgree
  BY DEF LayersInv, LayersTyped, Agreed, Flags, Plain, Upstream, Reader, LayersAgree, Layers!ServerUnderstands,
         Layers!NothingIsStolen, Layers!AlarmIsExplained, Layers!TypeOK
<1> QED BY <1>1, <1>2, <1>3, PTL DEF PartsSpec
-----------------------------------------------------------------------------
(* The sockets of a connection: which of them are open at each point of        *)
(* Connect and CheckReconnect.                                                *)

\* The socket in use is one of the client's, or one that connect2 closed.
SocketIsOwn ==
  /\ pc \in {"connect2", "close6", "session", "connected"} => socket \in sockets
  /\ pc = "cert" => socket \in sockets \cup refused
  /\ (Conn!First /\ pc \in {"connect2", "close6", "cert", "session"}) \/ pc = "connected" => CLIENT_SOCKET = socket

\* No other is open, but for those left when connect2 timed out.
OthersAreClosed ==
  /\ pc = "socket" => sockets \subseteq timedOut
  /\ pc \in {"connect2", "close6", "cert", "session", "connected"} => sockets \subseteq {socket} \cup timedOut
  /\ pc \in {"retry", "error"} => sockets \subseteq {CLIENT_SOCKET} \cup timedOut

\* A connection that is made again is of a session, and its old socket is gone.
Attempts ==
  /\ pc \in {"socket", "connect2"} => left > 0
  /\ Conn!First \/ pc = "connected" => tries = 0
  /\ ~Conn!First /\ pc \notin {"connected", "error"} => SessionID /\ CLIENT_SOCKET = Conn!Closed
  /\ pc = "retry" => ~Conn!First

\* The key of the session is there, unless it was restored before anything was sent.
Keys ==
  /\ Conn!ServerHasTheKey
  /\ pc = "connected" /\ En = "none" /\ ~unsent => REMOTE_PUBLIC_KEY = "key"

ConnectionInv ==
  Conn!TypeOK /\ Conn!ClosesItsOwn /\ SocketIsOwn /\ OthersAreClosed /\ Attempts /\ Keys

\* There is a lowest number, and it is free.
LEMMA LowestIsFree ==
  ASSUME PartsAssumption, Conn!Free # {}
  PROVE  Conn!Lowest \in Conn!Free
<1>1. Conn!Free \subseteq Nat
  BY DEF PartsAssumption, Conn!ConnectionAssumption, Conn!Free
<1> DEFINE Less == {p \in Nat \X Nat : p[1] < p[2]}
<1>2. IsWellFoundedOn(Less, Nat)
  BY NatLessThanWellFounded DEF OpToRel
<1>3. PICK d \in Conn!Free : \A d2 \in Conn!Free : ~(<<d2, d>> \in Less)
  <2> HIDE DEF Less
  <2> QED BY <1>1, <1>2, WFMin
<1>4. ASSUME NEW d2 \in Conn!Free PROVE d <= d2
  <2>1. <<d2, d>> \notin Less /\ d2 \in Nat /\ d \in Nat
    BY <1>1, <1>3
  <2>2. ~(d2 < d)
    BY <2>1
  <2> QED BY <2>1, <2>2
<1> QED BY <1>3, <1>4 DEF Conn!Lowest, Conn!Min
\* What every attempt to connect leaves open, and what it sets the keys to.
LEMMA ConnectionStep ==
  ASSUME ConnectionInv, Conn!Next
  PROVE  ConnectionInv'
<1>0. /\ Descriptors \subseteq Nat \ {0} /\ Addresses \in Nat \ {0} /\ Retries \in Nat \ {0}
      /\ MaxLosses \in Nat /\ MaxFiles \in Nat
  BY PartsAssumption DEF PartsAssumption, Conn!ConnectionAssumption
<1>a. Conn!Free # {} => Conn!Lowest \in Descriptors /\ Conn!Lowest \notin sockets /\ Conn!Lowest \notin files
  BY PartsAssumption, LowestIsFree DEF Conn!Free
<1>b. -1 \notin Descriptors
  BY <1>0
<1> USE DEF ConnectionInv, Conn!TypeOK, Conn!ClosesItsOwn, SocketIsOwn, OthersAreClosed, Attempts, Keys,
            Conn!ServerHasTheKey, Conn!First, Conn!Closed, Conn!keys, Conn!fds, Conn!bounds
<1>1. CASE Conn!Socket
  BY <1>0, <1>a, <1>b, <1>1 DEF Conn!Socket
<1>2. CASE Conn!NoDescriptor
  BY <1>0, <1>b, <1>2 DEF Conn!NoDescriptor, Conn!Failed
<1>3. CASE Conn!Connected
  BY <1>0, <1>b, <1>3 DEF Conn!Connected
<1>4. CASE Conn!Refused
  BY <1>0, <1>b, <1>4 DEF Conn!Refused, Conn!Close
<1>5. CASE Conn!TimesOut
  BY <1>0, <1>b, <1>5 DEF Conn!TimesOut, Conn!Failed
<1>6. CASE Conn!NextAddress
  BY <1>0, <1>b, <1>6 DEF Conn!NextAddress, Conn!Close
<1>7. CASE Conn!Breach
  BY <1>0, <1>b, <1>7 DEF Conn!Breach, Conn!Close, Conn!Failed
<1>8. CASE Conn!Certificate
  BY <1>0, <1>b, <1>8 DEF Conn!Certificate
<1>9. CASE Conn!Session
  BY <1>0, <1>b, <1>9 DEF Conn!Session
<1>10. CASE Conn!Restored
  <2>1. /\ pc = "session" /\ losses # 0 /\ pc' = "connected" /\ CLIENT_SOCKET' = socket /\ tries' = 0
        /\ unsent' = (unsent \/ En = "none")
        /\ UNCHANGED <<ipv6, left, socket, SessionID, REMOTE_PUBLIC_KEY, En, losses, sockets, files, harmed,
                       opened, refused, timedOut>>
    BY <1>10 DEF Conn!Restored
  <2>2. (unsent => unsent') /\ (En = "none" => unsent')
    BY <2>1, Zenon
  <2>3. Keys'
    BY <2>1, <2>2
  <2>4. Conn!TypeOK' /\ Conn!ClosesItsOwn'
    BY <1>0, <2>1
  <2>5. SocketIsOwn' /\ OthersAreClosed' /\ Attempts'
    BY <1>0, <2>1
  <2> QED BY <2>3, <2>4, <2>5
<1>11. CASE Conn!Denied
  BY <1>0, <1>b, <1>11 DEF Conn!Denied, Conn!Close
<1>12. CASE Conn!Stalls
  BY <1>0, <1>b, <1>12 DEF Conn!Stalls
<1>13. CASE Conn!Send
  BY <1>0, <1>b, <1>13 DEF Conn!Send
<1>14. CASE Conn!CheckReconnect
  <2>0. /\ tries' = tries + 1 /\ left' = 1 /\ losses' \in 0..MaxLosses /\ losses' # 0 /\ tries < Retries
        /\ pc \in {"connected", "retry"}
        /\ UNCHANGED <<ipv6, socket, SessionID, REMOTE_PUBLIC_KEY, En, unsent, refused, timedOut>>
    BY <1>0, <1>14 DEF Conn!CheckReconnect, Conn!Begins
  <2>1. CASE ~SessionID
    <3>1. pc' = "error" /\ UNCHANGED <<CLIENT_SOCKET, sockets, files, harmed, opened>>
      BY <1>14, <2>1 DEF Conn!CheckReconnect
    <3> QED BY <1>0, <1>b, <2>0, <2>1, <3>1
  <2>2. CASE SessionID /\ CLIENT_SOCKET = -1
    <3>1. pc' = "socket" /\ CLIENT_SOCKET' = -1 /\ UNCHANGED <<sockets, files, harmed, opened>>
      BY <1>14, <2>2 DEF Conn!CheckReconnect, Conn!Drop
    <3>2. pc = "retry"
      BY <1>b, <2>0, <2>2
    <3> QED BY <1>0, <1>b, <2>0, <2>2, <3>1, <3>2
  <2>3. CASE SessionID /\ CLIENT_SOCKET # -1
    <3>1. /\ pc' = "socket" /\ CLIENT_SOCKET' = -1 /\ UNCHANGED opened
          /\ sockets' = sockets \ {CLIENT_SOCKET} /\ files' = files \ {CLIENT_SOCKET}
          /\ harmed' = harmed \cup (files \cap {CLIENT_SOCKET})
      BY <1>14, <2>3 DEF Conn!CheckReconnect, Conn!Drop, Conn!Close
    <3>2. pc = "connected" /\ CLIENT_SOCKET = socket /\ socket \in sockets
      BY <2>0, <2>3
    <3>3. files' = files /\ harmed' = harmed
      BY <3>1, <3>2
    <3> QED BY <1>0, <1>b, <2>0, <2>3, <3>1, <3>2, <3>3
  <2> QED BY <2>1, <2>2, <2>3
<1>15. CASE Conn!GiveUp
  BY <1>0, <1>b, <1>15 DEF Conn!GiveUp
<1>16. CASE Conn!OtherOpens
  BY ZenonT(30), <1>0, <1>a, <1>b, <1>16 DEF Conn!OtherOpens
<1>17. CASE Conn!OtherCloses
  BY <1>0, <1>b, <1>17 DEF Conn!OtherCloses
<1> QED BY <1>1, <1>2, <1>3, <1>4, <1>5, <1>6, <1>7, <1>8, <1>9, <1>10, <1>11, <1>12, <1>13, <1>14, <1>15, <1>16, <1>17 DEF Conn!Next
\* No attempt to connect, and none to connect again, closes what is another thread's or leaves
\* a socket open, and frames are encrypted with the key of the session (ConnectionsAreSound).
THEOREM ConnectionsStaySound == PartsSpec => []ConnectionsAreSound
<1>1. PartsInit => ConnectionInv
  <2> SUFFICES ASSUME Conn!Init PROVE ConnectionInv
    BY DEF PartsInit
  <2> USE DEF Conn!Init, Conn!First, Conn!Closed
  <2>1. Addresses \in Nat \ {0} /\ Retries \in Nat \ {0} /\ MaxLosses \in Nat
    BY PartsAssumption DEF PartsAssumption, Conn!ConnectionAssumption
  <2>2. Conn!TypeOK /\ Conn!ClosesItsOwn
    <3>1. left \in 0..Addresses /\ tries \in 0..Retries /\ losses \in 0..MaxLosses
      BY <2>1
    <3> QED BY <3>1 DEF Conn!TypeOK, Conn!ClosesItsOwn
  <2>3. SocketIsOwn /\ OthersAreClosed /\ Keys
    BY DEF SocketIsOwn, OthersAreClosed, Keys, Conn!ServerHasTheKey
  <2>4. Attempts
    BY <2>1 DEF Attempts
  <2> QED BY <2>2, <2>3, <2>4 DEF ConnectionInv
<1>2. ConnectionInv /\ [PartsNext]_parts => ConnectionInv'
  <2> SUFFICES ASSUME ConnectionInv, [PartsNext]_parts PROVE ConnectionInv'
    OBVIOUS
  <2>1. CASE part = "connection" /\ Conn!Next
    BY <2>1, ConnectionStep
  <2>2. CASE UNCHANGED connection
    BY <2>2 DEF connection, ConnectionInv, Conn!TypeOK, Conn!ClosesItsOwn, SocketIsOwn, OthersAreClosed, Attempts,
                Keys, Conn!ServerHasTheKey, Conn!First
  <2> QED BY <2>1, <2>2 DEF PartsNext, parts
<1>3. ConnectionInv => ConnectionsAreSound
  BY DEF ConnectionInv, SocketIsOwn, OthersAreClosed, Keys, ConnectionsAreSound, Conn!NoSocketIsLost,
         Conn!ConnectedIsOpen
<1> QED BY <1>1, <1>2, <1>3, PTL DEF PartsSpec
-----------------------------------------------------------------------------
(* Commands of the operating system: which thread is at execute_lock.          *)

Copying(t) == thread[t] \in {"copy", "copied"}

\* The counter and who waits or signals, at each point of a handler.
SemIs(val, waits, signals) == v = val /\ waiting = waits /\ signalling = signals

\* While no semp has returned without a signal only the thread that was started last may
\* still copy its string, which is there until it has.
Handshaken ==
  /\ \A t \in 1..MaxFrames : Copying(t) => t = n /\ ui \in {"handshake", "release"}
  /\ ui \in {"create", "handshake", "release"} => n \in 1..MaxFrames /\ command = n
  /\ ui \in {"loop", "sleep"} => SemIs(1, {}, {})
  /\ ui \in {"create", "unlock"} => SemIs(0, {}, {})
  /\ ui = "handshake" => SemIs(IF Copying(n) THEN 0 ELSE 1, {}, {})
  /\ ui = "release" =>
       \/ Copying(n) /\ SemIs(-1, {UI}, {})
       \/ ~Copying(n) /\ (SemIs(0, {UI}, {n}) \/ SemIs(0, {}, {}))

\* A thread that has yet to read run_target finds its own, or was not waited for.
TargetsWait ==
  \A t \in 1..MaxFrames : thread[t] = "target" => t \in late \/ (ui = "sleep" /\ n = t /\ run_target = t)

CommandsInv == Cmd!TypeOK /\ TargetsWait /\ Cmd!EachRunsItsOwn /\ (~woken => Handshaken)

\* What threads there are, and that the user interface thread is none of those it starts.
LEMMA CommandThreads ==
  /\ MaxFrames \in Nat /\ UI \in Threads /\ UI \notin 1..MaxFrames
  /\ \A t \in 1..MaxFrames : t \in Threads /\ t # UI
  BY PartsAssumption DEF PartsAssumption, Cmd!CommandsAssumption


\* What is left of a sequence.
LEMMA RestTyped ==
  ASSUME NEW T, NEW s \in Seq(T), NEW j \in Int, 1 <= j
  PROVE  SubSeq(s, j, Len(s)) \in Seq(T)
<1>1. Len(s) \in Int /\ \A k \in 1..Len(s) : s[k] \in T
  OBVIOUS
<1>2. \A k \in j..Len(s) : k \in 1..Len(s)
  BY <1>1
<1>3. \A k \in j..Len(s) : s[k] \in T
  BY <1>1, <1>2
<1> QED BY <1>1, <1>3, SubSeqProperties

\* The variables of Commands keep their types.
LEMMA CommandsTypes ==
  ASSUME Cmd!TypeOK, Cmd!Next
  PROVE  Cmd!TypeOK'
<1>a. MaxFrames \in Nat /\ UI \in Threads /\ UI \notin 1..MaxFrames /\ \A t \in 1..MaxFrames : t \in Threads /\ t # UI
  BY CommandThreads
<1> USE DEF Cmd!TypeOK, Cmd!SemTypeOK, Cmd!sem
<1>1. CASE Cmd!Execute
  BY <1>a, <1>1 DEF Cmd!Execute, Cmd!Frame, Cmd!semp, Cmd!Runs
<1>2. CASE Cmd!CreateThread
  BY <1>a, <1>2 DEF Cmd!CreateThread, Cmd!Starts, Cmd!Runs
<1>3. CASE Cmd!Handshake
  BY <1>a, <1>3 DEF Cmd!Handshake, Cmd!semp, Cmd!Runs
<1>4. CASE Cmd!Release
  BY <1>a, <1>4 DEF Cmd!Release, Cmd!semv, Cmd!Runs
<1>5. CASE Cmd!NewApplication
  BY <1>a, <1>5 DEF Cmd!NewApplication, Cmd!Frame, Cmd!Runs
<1>6. CASE Cmd!SleepEnds
  BY <1>a, <1>6 DEF Cmd!SleepEnds
<1>7. CASE Cmd!Queue
  BY <1>a, <1>7 DEF Cmd!Queue, Cmd!Frame, Cmd!Runs
<1>8. CASE Cmd!Unlock
  BY <1>a, <1>8 DEF Cmd!Unlock, Cmd!semv, Cmd!Runs
<1>9. CASE Cmd!Finished
  BY <1>a, <1>9 DEF Cmd!Finished, Cmd!vars
<1>10. ASSUME NEW k \in Cmd!Deletes, Cmd!Clear(k) PROVE Cmd!TypeOK'
  <2>1. /\ k \in Int /\ ui' = "unlock" /\ n' \in 0..MaxFrames /\ ShellList' = Cmd!Remaining(k)
        /\ UNCHANGED <<command, run_target, thread, runs>>
    BY <1>a, <1>10 DEF Cmd!Clear, Cmd!Frame, Cmd!Deletes
  <2>2. Cmd!SemTypeOK'
    BY <1>a, <1>10 DEF Cmd!Clear, Cmd!semp
  <2>3. ShellList' \in Seq(1..MaxFrames)
    <3>1. CASE k < 0
      BY <2>1, <3>1 DEF Cmd!Remaining
    <3>2. CASE ~(k < 0)
      <4>1. ShellList' = SubSeq(ShellList, k + 1, Len(ShellList)) /\ k + 1 \in Int /\ 1 <= k + 1
        BY <2>1, <3>2 DEF Cmd!Remaining
      <4>2. ShellList \in Seq(1..MaxFrames)
        OBVIOUS
      <4> QED BY <4>1, <4>2, RestTyped
    <3> QED BY <3>1, <3>2
  <2> QED BY <2>1, <2>2, <2>3
<1>11. ASSUME NEW t \in 1..MaxFrames, Cmd!Copy(t) PROVE Cmd!TypeOK'
  BY <1>a, <1>11 DEF Cmd!Copy
<1>12. ASSUME NEW t \in 1..MaxFrames, Cmd!Copied(t) PROVE Cmd!TypeOK'
  BY <1>a, <1>12 DEF Cmd!Copied, Cmd!semv, Cmd!Runs
<1>13. ASSUME NEW t \in 1..MaxFrames, Cmd!ThreadSHELL(t) PROVE Cmd!TypeOK'
  BY <1>a, <1>13 DEF Cmd!ThreadSHELL
<1>14. ASSUME NEW t \in Threads, Cmd!Signalled(t) PROVE Cmd!TypeOK'
  BY <1>a, <1>14 DEF Cmd!Signalled, Cmd!Signal
<1>15. ASSUME NEW t \in Threads, Cmd!Woken(t) PROVE Cmd!TypeOK'
  BY <1>a, <1>15 DEF Cmd!Woken, Cmd!Wakeup
<1> QED BY <1>1, <1>2, <1>3, <1>4, <1>5, <1>6, <1>7, <1>8, <1>9, <1>10, <1>11, <1>12, <1>13, <1>14, <1>15
        DEF Cmd!Next, Cmd!Handler, Cmd!Thread

\* A target is set only when no other thread that was waited for has yet to read its own.
LEMMA TargetsStep ==
  ASSUME Cmd!TypeOK, TargetsWait, Cmd!Next
  PROVE  TargetsWait'
<1>a. MaxFrames \in Nat /\ UI \in Threads /\ UI \notin 1..MaxFrames /\ \A t \in 1..MaxFrames : t \in Threads /\ t # UI
  BY CommandThreads
<1> USE DEF TargetsWait, Cmd!TypeOK, Cmd!sem
<1>1. CASE Cmd!Execute
  BY <1>a, <1>1 DEF Cmd!Execute, Cmd!Frame, Cmd!semp, Cmd!Runs
<1>2. CASE Cmd!CreateThread
  BY <1>a, <1>2 DEF Cmd!CreateThread, Cmd!Starts, Cmd!Runs
<1>3. CASE Cmd!Handshake
  BY <1>a, <1>3 DEF Cmd!Handshake, Cmd!semp, Cmd!Runs
<1>4. CASE Cmd!Release
  BY <1>a, <1>4 DEF Cmd!Release, Cmd!semv, Cmd!Runs
<1>5. CASE Cmd!NewApplication
  BY <1>a, <1>5 DEF Cmd!NewApplication, Cmd!Frame, Cmd!Runs
<1>6. CASE Cmd!SleepEnds
  BY <1>a, <1>6 DEF Cmd!SleepEnds
<1>7. CASE Cmd!Queue
  BY <1>a, <1>7 DEF Cmd!Queue, Cmd!Frame, Cmd!Runs
<1>8. CASE Cmd!Unlock
  BY <1>a, <1>8 DEF Cmd!Unlock, Cmd!semv, Cmd!Runs
<1>9. CASE Cmd!Finished
  BY <1>a, <1>9 DEF Cmd!Finished, Cmd!vars
<1>10. ASSUME NEW k \in Cmd!Deletes, Cmd!Clear(k) PROVE TargetsWait'
  BY <1>a, <1>10 DEF Cmd!Clear, Cmd!Frame, Cmd!semp, Cmd!Runs, Cmd!Deletes, Cmd!Remaining
<1>11. ASSUME NEW t \in 1..MaxFrames, Cmd!Copy(t) PROVE TargetsWait'
  BY <1>a, <1>11 DEF Cmd!Copy
<1>12. ASSUME NEW t \in 1..MaxFrames, Cmd!Copied(t) PROVE TargetsWait'
  BY <1>a, <1>12 DEF Cmd!Copied, Cmd!semv, Cmd!Runs
<1>13. ASSUME NEW t \in 1..MaxFrames, Cmd!ThreadSHELL(t) PROVE TargetsWait'
  BY <1>a, <1>13 DEF Cmd!ThreadSHELL
<1>14. ASSUME NEW t \in Threads, Cmd!Signalled(t) PROVE TargetsWait'
  BY <1>a, <1>14 DEF Cmd!Signalled, Cmd!Signal
<1>15. ASSUME NEW t \in Threads, Cmd!Woken(t) PROVE TargetsWait'
  BY <1>a, <1>15 DEF Cmd!Woken, Cmd!Wakeup
<1> QED BY <1>1, <1>2, <1>3, <1>4, <1>5, <1>6, <1>7, <1>8, <1>9, <1>10, <1>11, <1>12, <1>13, <1>14, <1>15
        DEF Cmd!Next, Cmd!Handler, Cmd!Thread

\* A thread reads the string or the target that its frame set.
LEMMA OwnStep ==
  ASSUME Cmd!TypeOK, TargetsWait, ~woken => Handshaken, Cmd!EachRunsItsOwn, Cmd!Next
  PROVE  Cmd!EachRunsItsOwn'
<1>a. MaxFrames \in Nat /\ UI \in Threads /\ UI \notin 1..MaxFrames /\ \A t \in 1..MaxFrames : t \in Threads /\ t # UI
  BY CommandThreads
<1> USE DEF Cmd!EachRunsItsOwn, Cmd!TypeOK, Cmd!sem
<1>1. CASE Cmd!Execute
  BY <1>a, <1>1 DEF Cmd!Execute, Cmd!Frame, Cmd!semp, Cmd!Runs
<1>2. CASE Cmd!CreateThread
  BY <1>a, <1>2 DEF Cmd!CreateThread, Cmd!Starts, Cmd!Runs
<1>3. CASE Cmd!Handshake
  BY <1>a, <1>3 DEF Cmd!Handshake, Cmd!semp, Cmd!Runs
<1>4. CASE Cmd!Release
  BY <1>a, <1>4 DEF Cmd!Release, Cmd!semv, Cmd!Runs
<1>5. CASE Cmd!NewApplication
  BY <1>a, <1>5 DEF Cmd!NewApplication, Cmd!Frame, Cmd!Runs
<1>6. CASE Cmd!SleepEnds
  BY <1>a, <1>6 DEF Cmd!SleepEnds
<1>7. CASE Cmd!Queue
  BY <1>a, <1>7 DEF Cmd!Queue, Cmd!Frame, Cmd!Runs
<1>8. CASE Cmd!Unlock
  BY <1>a, <1>8 DEF Cmd!Unlock, Cmd!semv, Cmd!Runs
<1>9. CASE Cmd!Finished
  BY <1>a, <1>9 DEF Cmd!Finished, Cmd!vars
<1>10. ASSUME NEW k \in Cmd!Deletes, Cmd!Clear(k) PROVE Cmd!EachRunsItsOwn'
  BY <1>a, <1>10 DEF Cmd!Clear, Cmd!Frame, Cmd!semp, Cmd!Runs, Cmd!Deletes, Cmd!Remaining
<1>11. ASSUME NEW t \in 1..MaxFrames, Cmd!Copy(t) PROVE Cmd!EachRunsItsOwn'
  BY <1>a, <1>11 DEF Cmd!Copy, Handshaken, Copying
<1>12. ASSUME NEW t \in 1..MaxFrames, Cmd!Copied(t) PROVE Cmd!EachRunsItsOwn'
  BY <1>a, <1>12 DEF Cmd!Copied, Cmd!semv, Cmd!Runs
<1>13. ASSUME NEW t \in 1..MaxFrames, Cmd!ThreadSHELL(t) PROVE Cmd!EachRunsItsOwn'
  BY <1>a, <1>13 DEF Cmd!ThreadSHELL, TargetsWait
<1>14. ASSUME NEW t \in Threads, Cmd!Signalled(t) PROVE Cmd!EachRunsItsOwn'
  BY <1>a, <1>14 DEF Cmd!Signalled, Cmd!Signal
<1>15. ASSUME NEW t \in Threads, Cmd!Woken(t) PROVE Cmd!EachRunsItsOwn'
  BY <1>a, <1>15 DEF Cmd!Woken, Cmd!Wakeup
<1> QED BY <1>1, <1>2, <1>3, <1>4, <1>5, <1>6, <1>7, <1>8, <1>9, <1>10, <1>11, <1>12, <1>13, <1>14, <1>15
        DEF Cmd!Next, Cmd!Handler, Cmd!Thread

\* The two semp and the two semv of a command leave the lock as it was.
LEMMA HandshakenStep ==
  ASSUME Cmd!TypeOK, Handshaken, ~woken', Cmd!Next
  PROVE  Handshaken'
<1>a. MaxFrames \in Nat /\ UI \in Threads /\ UI \notin 1..MaxFrames /\ \A t \in 1..MaxFrames : t \in Threads /\ t # UI
  BY CommandThreads
<1> USE DEF Handshaken, SemIs, Copying, Cmd!TypeOK, Cmd!SemTypeOK, Cmd!sem
<1>1. CASE Cmd!Execute
  BY <1>a, <1>1 DEF Cmd!Execute, Cmd!Frame, Cmd!semp, Cmd!Runs
<1>2. CASE Cmd!CreateThread
  BY <1>a, <1>2 DEF Cmd!CreateThread, Cmd!Starts, Cmd!Runs
<1>3. CASE Cmd!Handshake
  BY <1>a, <1>3 DEF Cmd!Handshake, Cmd!semp, Cmd!Runs
<1>4. CASE Cmd!Release
  BY <1>a, <1>4 DEF Cmd!Release, Cmd!semv, Cmd!Runs
<1>5. CASE Cmd!NewApplication
  BY <1>a, <1>5 DEF Cmd!NewApplication, Cmd!Frame, Cmd!Runs
<1>6. CASE Cmd!SleepEnds
  BY <1>a, <1>6 DEF Cmd!SleepEnds
<1>7. CASE Cmd!Queue
  BY <1>a, <1>7 DEF Cmd!Queue, Cmd!Frame, Cmd!Runs
<1>8. CASE Cmd!Unlock
  BY <1>a, <1>8 DEF Cmd!Unlock, Cmd!semv, Cmd!Runs
<1>9. CASE Cmd!Finished
  BY <1>a, <1>9 DEF Cmd!Finished, Cmd!vars
<1>10. ASSUME NEW k \in Cmd!Deletes, Cmd!Clear(k) PROVE Handshaken'
  BY <1>a, <1>10 DEF Cmd!Clear, Cmd!Frame, Cmd!semp, Cmd!Runs, Cmd!Deletes, Cmd!Remaining
<1>11. ASSUME NEW t \in 1..MaxFrames, Cmd!Copy(t) PROVE Handshaken'
  BY <1>a, <1>11 DEF Cmd!Copy
<1>12. ASSUME NEW t \in 1..MaxFrames, Cmd!Copied(t) PROVE Handshaken'
  BY <1>a, <1>12 DEF Cmd!Copied, Cmd!semv, Cmd!Runs
<1>13. ASSUME NEW t \in 1..MaxFrames, Cmd!ThreadSHELL(t) PROVE Handshaken'
  BY <1>a, <1>13 DEF Cmd!ThreadSHELL
<1>14. ASSUME NEW t \in Threads, Cmd!Signalled(t) PROVE Handshaken'
  BY <1>a, <1>14 DEF Cmd!Signalled, Cmd!Signal
<1>15. ASSUME NEW t \in Threads, Cmd!Woken(t) PROVE Handshaken'
  BY <1>a, <1>15 DEF Cmd!Woken, Cmd!Wakeup
<1> QED BY <1>1, <1>2, <1>3, <1>4, <1>5, <1>6, <1>7, <1>8, <1>9, <1>10, <1>11, <1>12, <1>13, <1>14, <1>15
        DEF Cmd!Next, Cmd!Handler, Cmd!Thread

\* Every step of the commands keeps the invariant.
LEMMA CommandsStep ==
  ASSUME CommandsInv, Cmd!Next
  PROVE  CommandsInv'
<1>1. Cmd!TypeOK' /\ TargetsWait'
  BY CommandsTypes, TargetsStep DEF CommandsInv
<1>2. Cmd!EachRunsItsOwn'
  BY OwnStep DEF CommandsInv
<1>3. woken => woken'
  BY DEF Cmd!Next, Cmd!Handler, Cmd!Thread, Cmd!Execute, Cmd!CreateThread, Cmd!Handshake, Cmd!Release,
     Cmd!NewApplication, Cmd!SleepEnds, Cmd!Queue, Cmd!Unlock, Cmd!Clear, Cmd!Finished, Cmd!vars, Cmd!Copy,
     Cmd!Copied, Cmd!ThreadSHELL, Cmd!Signalled, Cmd!Woken
<1>4. ~woken' => Handshaken'
  BY <1>3, HandshakenStep DEF CommandsInv
<1> QED BY <1>1, <1>2, <1>4 DEF CommandsInv

\* Whatever threads and handlers do, each command is the one its frame asked for, and between
\* two frames the lock is free (EachRunsItsOwn).
THEOREM EachAlwaysRunsItsOwn == PartsSpec => []EachRunsItsOwn
<1> DEFINE Inv == part = "commands" => CommandsInv
<1>1. PartsInit => Inv
  <2> SUFFICES ASSUME Cmd!Init PROVE CommandsInv
    BY DEF PartsInit
  <2>1. MaxFrames \in Nat
    BY CommandThreads
  <2>2. Cmd!TypeOK
    BY <2>1 DEF Cmd!Init, Cmd!SemInit, Cmd!TypeOK, Cmd!SemTypeOK
  <2>3. TargetsWait /\ Cmd!EachRunsItsOwn /\ Handshaken
    BY <2>1 DEF Cmd!Init, Cmd!SemInit, TargetsWait, Cmd!EachRunsItsOwn, Handshaken, SemIs, Copying
  <2> QED BY <2>2, <2>3 DEF CommandsInv
<1>2. Inv /\ [PartsNext]_parts => Inv'
  <2> SUFFICES ASSUME Inv, [PartsNext]_parts, part = "commands" PROVE CommandsInv'
    BY DEF PartsNext, parts
  <2>1. CASE Cmd!Next
    BY <2>1, CommandsStep
  <2>2. CASE UNCHANGED parts
    BY <2>2 DEF parts, commands, sem, CommandsInv, Cmd!TypeOK, Cmd!SemTypeOK, TargetsWait, Cmd!EachRunsItsOwn,
                Handshaken, SemIs, Copying
  <2> QED BY <2>1, <2>2 DEF PartsNext
<1>3. Inv => EachRunsItsOwn
  <2> SUFFICES ASSUME CommandsInv PROVE Cmd!TypeOK /\ Cmd!EachRunsItsOwn /\ Cmd!LockIsFree
    BY DEF EachRunsItsOwn
  <2> QED BY DEF CommandsInv, Cmd!LockIsFree, Handshaken, SemIs
<1> QED BY <1>1, <1>2, <1>3, PTL DEF PartsSpec

-----------------------------------------------------------------------------
(* The list behind MessageStack, CookieList and ShellList: the nodes from First are a chain, *)
(* and what is in them is a sequence.                                                        *)

\* A set of numbers that is not empty has a least one.
LEMMA LeastOne ==
  ASSUME NEW S, S \subseteq Nat, S # {}
  PROVE  \E m \in S : \A j \in S : m <= j
<1> DEFINE Less == OpToRel(<, Nat)
<1>1. IsWellFoundedOn(Less, Nat)
  BY NatLessThanWellFounded DEF OpToRel
<1>2. PICK m \in S : \A j \in S : ~(<<j, m>> \in Less)
  <2> HIDE DEF Less
  <2> QED BY <1>1, WFMin
<1>3. ASSUME NEW j \in S PROVE m <= j
  <2>1. j \in Nat /\ m \in Nat
    OBVIOUS
  <2>2. ~(j < m)
    BY <1>2, <2>1 DEF OpToRel
  <2> HIDE DEF Less
  <2> QED BY <2>1, <2>2
<1> QED BY <1>2, <1>3

\* A sequence with one more element at a place.
Inserted(s, a, x) == SubSeq(s, 1, a - 1) \o <<x>> \o SubSeq(s, a, Len(s))

LEMMA ElementInserted ==
  ASSUME NEW T, NEW s \in Seq(T), NEW a \in 1..(Len(s) + 1), NEW x \in T
  PROVE  LET r == Inserted(s, a, x) IN
         /\ r \in Seq(T) /\ Len(r) = Len(s) + 1 /\ r[a] = x
         /\ \A u \in 1..Len(s) : (u < a => r[u] = s[u]) /\ (u >= a => r[u + 1] = s[u])
<1> DEFINE m == Len(s)
           b == SubSeq(s, 1, a - 1)
           c == SubSeq(s, a, m)
           r == (b \o <<x>>) \o c
<1>1. m \in Nat /\ a \in Nat /\ 1 <= a /\ a <= m + 1
  OBVIOUS
<1>2. b \in Seq(T) /\ Len(b) = a - 1 /\ \A u \in 1..(a - 1) : b[u] = s[u]
  <2>1. \A u \in 1..(a - 1) : s[u] \in T
    BY <1>1, ElementOfSeq
  <2> QED BY <1>1, <2>1
<1>3. c \in Seq(T) /\ Len(c) = m - a + 1 /\ \A u \in 1..(m - a + 1) : c[u] = s[a + u - 1]
  <2>1. \A u \in a..m : s[u] \in T
    BY <1>1, ElementOfSeq
  <2> QED BY <1>1, <2>1
<1>4. <<x>> \in Seq(T) /\ Len(<<x>>) = 1 /\ <<x>>[1] = x
  OBVIOUS
<1> DEFINE d == b \o <<x>>
<1> HIDE DEF b, c, m
<1>5. d \in Seq(T) /\ Len(d) = a /\ d[a] = x /\ \A u \in 1..(a - 1) : d[u] = b[u]
  BY <1>1, <1>2, <1>4
<1> HIDE DEF d
<1> DEFINE e == d \o c
<1>6. e \in Seq(T) /\ Len(e) = m + 1
  <2>1. e \in Seq(T) /\ Len(e) = Len(d) + Len(c)
    BY <1>3, <1>5, ConcatProperties
  <2> QED BY <1>1, <1>3, <1>5, <2>1
<1>7. \A u \in 1..a : e[u] = d[u]
  BY <1>1, <1>3, <1>5
<1>8. \A u \in (a + 1)..(m + 1) : e[u] = c[u - a]
  BY <1>1, <1>3, <1>5
<1> HIDE DEF e
<1>9. e[a] = x /\ \A u \in 1..m : u < a => e[u] = s[u]
  <2>1. \A u \in 1..m : u < a => u \in 1..(a - 1) /\ u \in 1..a
    BY <1>1
  <2>2. a \in 1..a
    BY <1>1
  <2> QED BY <1>2, <1>5, <1>7, <2>1, <2>2
<1>10. ASSUME NEW u \in 1..m, u >= a PROVE e[u + 1] = s[u]
  <2>1. u + 1 \in (a + 1)..(m + 1) /\ (u + 1) - a \in 1..(m - a + 1) /\ a + ((u + 1) - a) - 1 = u
    BY <1>1, <1>10
  <2>2. e[u + 1] = c[(u + 1) - a]
    BY <1>8, <2>1
  <2>3. c[(u + 1) - a] = s[a + ((u + 1) - a) - 1]
    BY <1>3, <2>1
  <2> QED BY <2>1, <2>2, <2>3
<1>11. Inserted(s, a, x) = e
  BY DEF Inserted, e, d, b, c, m
<1> QED BY <1>6, <1>9, <1>10, <1>11 DEF m

\* A sequence without the element of a place.
Removed(s, a) == SubSeq(s, 1, a - 1) \o SubSeq(s, a + 1, Len(s))

LEMMA ElementRemoved ==
  ASSUME NEW T, NEW s \in Seq(T), NEW a \in 1..Len(s)
  PROVE  LET r == Removed(s, a) IN
         /\ r \in Seq(T) /\ Len(r) = Len(s) - 1
         /\ \A u \in 1..(Len(s) - 1) : (u < a => r[u] = s[u]) /\ (u >= a => r[u] = s[u + 1])
<1> DEFINE m == Len(s)
           b == SubSeq(s, 1, a - 1)
           c == SubSeq(s, a + 1, m)
<1>1. m \in Nat /\ a \in Nat /\ 1 <= a /\ a <= m
  OBVIOUS
<1>2. b \in Seq(T) /\ Len(b) = a - 1 /\ \A u \in 1..(a - 1) : b[u] = s[u]
  <2>1. \A u \in 1..(a - 1) : s[u] \in T
    BY <1>1, ElementOfSeq
  <2> QED BY <1>1, <2>1
<1>3. c \in Seq(T) /\ Len(c) = m - a /\ \A u \in 1..(m - a) : c[u] = s[a + u]
  <2>1. \A u \in (a + 1)..m : s[u] \in T
    BY <1>1, ElementOfSeq
  <2>2. \A u \in 1..(m - a) : (a + 1) + u - 1 = a + u
    BY <1>1
  <2> QED BY <1>1, <2>1, <2>2
<1> HIDE DEF b, c, m
<1> DEFINE e == b \o c
<1>4. e \in Seq(T) /\ Len(e) = m - 1
  <2>1. e \in Seq(T) /\ Len(e) = Len(b) + Len(c)
    BY <1>2, <1>3, ConcatProperties
  <2> QED BY <1>1, <1>2, <1>3, <2>1
<1>5. \A u \in 1..(a - 1) : e[u] = b[u]
  BY <1>1, <1>2, <1>3
<1>6. \A u \in a..(m - 1) : e[u] = c[u - (a - 1)]
  BY <1>1, <1>2, <1>3
<1> HIDE DEF e
<1>7. ASSUME NEW u \in 1..(m - 1), u < a PROVE e[u] = s[u]
  <2>1. u \in 1..(a - 1)
    BY <1>1, <1>7
  <2> QED BY <1>2, <1>5, <2>1
<1>8. ASSUME NEW u \in 1..(m - 1), u >= a PROVE e[u] = s[u + 1]
  <2>1. u \in a..(m - 1) /\ u - (a - 1) \in 1..(m - a) /\ a + (u - (a - 1)) = u + 1
    BY <1>1, <1>8
  <2>2. e[u] = c[u - (a - 1)]
    BY <1>6, <2>1
  <2>3. c[u - (a - 1)] = s[a + (u - (a - 1))]
    BY <1>3, <2>1
  <2> QED BY <2>1, <2>2, <2>3
<1>9. Removed(s, a) = e
  BY DEF Removed, e, b, c, m
<1> QED BY <1>4, <1>7, <1>8, <1>9 DEF m

\* The chain from First is walk: each of its nodes once, each linked to the next, with an object.
IsWalk(walk) ==
  /\ walk \in Seq(Nodes) /\ count = Len(walk) /\ heap = {walk[k] : k \in 1..Len(walk)}
  /\ First = (IF walk = <<>> THEN NULL ELSE walk[1])
  /\ \A k, l \in 1..Len(walk) : walk[k] = walk[l] => k = l
  /\ \A k \in 1..Len(walk) : next[walk[k]] = (IF k = Len(walk) THEN NULL ELSE walk[k + 1])
  /\ \A k \in 1..Len(walk) : data[walk[k]] \in Objects

\* The node at a place of it, counted from 1, or NULL behind its end.
Place(walk, k) == IF k \in 1..Len(walk) THEN walk[k] ELSE NULL

\* What is in it.
ObjectsOf(walk) == [k \in 1..Len(walk) |-> data[walk[k]]]

\* There is such a chain, and Item remembers the node of the place it remembers.
ChainInv ==
  /\ next \in [Nodes -> Nodes \cup {NULL}] /\ data \in [Nodes -> Objects \cup {NULL}] /\ LastPos \in Nat
  /\ \E walk : IsWalk(walk) /\ (LastPos # 0 => LastPos < Len(walk) /\ LastIterator = walk[LastPos + 1])

LEMMA ListConstants ==
  /\ IsFiniteSet(Nodes) /\ NULL \notin Nodes /\ NULL \notin Objects /\ NoClean \subseteq Objects
  /\ AutoClean \in BOOLEAN /\ MaxIndex \in Nat
<1>1. List!ListAssumption
  BY PartsAssumption, Zenon DEF PartsAssumption
<1>2. NULL \notin Nodes /\ NULL \notin Objects
  BY <1>1 DEF List!ListAssumption
<1>3. AutoClean \in BOOLEAN /\ IsFiniteSet(Nodes) /\ NoClean \subseteq Objects /\ MaxIndex \in Nat
  BY <1>1, Zenon DEF List!ListAssumption, List!IsFiniteSet, IsFiniteSet
<1> QED BY <1>2, <1>3, Zenon

\* Two sequences with the same elements.
LEMMA SameElements ==
  ASSUME NEW T, NEW s \in Seq(T), NEW r \in Seq(T), Len(s) = Len(r), \A k \in 1..Len(s) : s[k] = r[k]
  PROVE  s = r
  OBVIOUS

\* A loop from a place of the chain comes to a later place, or to its end.
LEMMA HopAlong ==
  \A walk : IsWalk(walk) => \A p \in 1..(Len(walk) + 1), k \in Nat :
    List!Hop(Place(walk, p), k) = Place(walk, p + k)
<1> SUFFICES ASSUME NEW walk, IsWalk(walk), NEW p \in 1..(Len(walk) + 1), NEW k \in Nat
             PROVE  List!Hop(Place(walk, p), k) = Place(walk, p + k)
  OBVIOUS
<1> DEFINE start == Place(walk, p)
           along == [j \in Nat |-> Place(walk, p + j)]
           Hops(hop) ==
             hop = [j \in Nat |-> IF j = 0 THEN start
                                  ELSE IF hop[j - 1] = NULL THEN NULL ELSE next[hop[j - 1]]]
           loop == CHOOSE hop : Hops(hop)
<1>1. Len(walk) \in Nat /\ p \in Nat /\ \A j \in 1..Len(walk) : walk[j] \in Nodes /\ walk[j] # NULL
  BY ListConstants, ElementOfSeq DEF IsWalk
<1>2. \A j \in Nat \ {0} : along[j] = (IF along[j - 1] = NULL THEN NULL ELSE next[along[j - 1]])
  <2> SUFFICES ASSUME NEW j \in Nat \ {0}
               PROVE  Place(walk, p + j) =
                        (IF Place(walk, p + j - 1) = NULL THEN NULL ELSE next[Place(walk, p + j - 1)])
    <3>1. \A j \in Nat \ {0} : j - 1 \in Nat /\ p + (j - 1) = p + j - 1
      BY <1>1
    <3> QED BY <3>1
  <2>1. CASE p + j - 1 \in 1..Len(walk)
    <3>1. Place(walk, p + j - 1) = walk[p + j - 1] /\ walk[p + j - 1] # NULL
      BY <1>1, <2>1 DEF Place
    <3>2. next[walk[p + j - 1]] = (IF p + j - 1 = Len(walk) THEN NULL ELSE walk[p + j - 1 + 1])
      BY <2>1 DEF IsWalk
    <3>3. p + j - 1 + 1 = p + j /\ (p + j \in 1..Len(walk) <=> p + j - 1 # Len(walk))
      BY <1>1, <2>1
    <3> QED BY <3>1, <3>2, <3>3 DEF Place
  <2>2. CASE p + j - 1 \notin 1..Len(walk)
    <3>1. p + j \notin 1..Len(walk)
      BY <1>1, <2>2
    <3> QED BY <2>2, <3>1 DEF Place
  <2> QED BY <2>1, <2>2
<1>3. along[0] = start
  <2>1. p + 0 = p
    BY <1>1
  <2> QED BY <2>1
<1>4. Hops(along)
  <2>1. along = [j \in Nat |-> along[j]]
    OBVIOUS
  <2>2. \A j \in Nat : along[j] = (IF j = 0 THEN start
                                   ELSE IF along[j - 1] = NULL THEN NULL ELSE next[along[j - 1]])
    BY <1>2, <1>3
  <2> HIDE DEF along
  <2> QED BY <2>1, <2>2
<1>5. Hops(loop)
  <2> HIDE DEF Hops
  <2> QED BY <1>4
<1>6. List!Hop(start, k) = loop[k]
  BY DEF List!Hop
<1>7. loop[0] = start /\ \A j \in Nat \ {0} : loop[j] = (IF loop[j - 1] = NULL THEN NULL ELSE next[loop[j - 1]])
  <2> HIDE DEF loop
  <2> QED BY <1>5
<1>8. loop[k] = along[k]
  <2> HIDE DEF loop, along, start
  <2> DEFINE Wrong == {j \in Nat : loop[j] # along[j]}
  <2>1. SUFFICES ASSUME Wrong # {} PROVE FALSE
    OBVIOUS
  <2>2. PICK j \in Wrong : \A l \in Wrong : j <= l
    BY <2>1, LeastOne
  <2>3. j \in Nat /\ j # 0
    BY <1>3, <1>7, <2>2
  <2>4. j - 1 \in Nat /\ j - 1 \notin Wrong
    BY <2>2, <2>3
  <2>5. loop[j - 1] = along[j - 1]
    BY <2>4
  <2>6. loop[j] = along[j]
    BY <1>2, <1>7, <2>3, <2>5
  <2> QED BY <2>2, <2>6
<1> QED BY <1>6, <1>8

\* The loops that count from First find the nodes of the chain.
LEMMA NodesAreFound ==
  \A walk : IsWalk(walk) => \A k \in Int : List!NodeAt(k) = Place(walk, k + 1)
<1> SUFFICES ASSUME NEW walk, IsWalk(walk), NEW k \in Int PROVE List!NodeAt(k) = Place(walk, k + 1)
  OBVIOUS
<1>1. Len(walk) \in Nat
  BY DEF IsWalk
<1>2. CASE k < 0
  <2>1. k + 1 \notin 1..Len(walk)
    BY <1>1, <1>2
  <2> QED BY <1>2, <2>1 DEF List!NodeAt, List!Hop, Place
<1>3. CASE k >= 0
  <2>1. First = Place(walk, 1)
    <3>1. walk \in Seq(Nodes) /\ (walk = <<>> <=> 1 \notin 1..Len(walk))
      BY <1>1, EmptySeq DEF IsWalk
    <3> QED BY <3>1 DEF IsWalk, Place
  <2>2. k \in Nat /\ 1 \in 1..(Len(walk) + 1) /\ 1 + k = k + 1
    BY <1>1, <1>3
  <2> QED BY <2>1, <2>2, HopAlong DEF List!NodeAt
<1> QED BY <1>2, <1>3

\* It has as many nodes as are allocated, and no more than there are.
LEMMA ChainCounts ==
  ASSUME NEW walk, IsWalk(walk)
  PROVE  /\ Len(walk) \in Nat /\ Cardinality(heap) = Len(walk)
         /\ Len(walk) <= Cardinality(Nodes) /\ Cardinality(Nodes) \in Nat
<1> DEFINE size == Len(walk)
           at == [k \in 1..size |-> walk[k]]
<1>1. size \in Nat /\ \A k \in 1..size : walk[k] \in Nodes
  BY ElementOfSeq DEF IsWalk
<1>2. IsFiniteSet(1..size) /\ Cardinality(1..size) = size
  <2>1. IsFiniteSet(1..size) /\ Cardinality(1..size) = IF 1 > size THEN 0 ELSE size - 1 + 1
    BY <1>1, FS_Interval
  <2> QED BY <1>1, <2>1
<1>3. at \in Bijection(1..size, heap)
  <2>1. heap = {walk[k] : k \in 1..size} /\ \A k, l \in 1..size : walk[k] = walk[l] => k = l
    BY DEF IsWalk
  <2> HIDE DEF size
  <2>2. at \in [1..size -> heap] /\ \A k, l \in 1..size : at[k] = at[l] => k = l
    BY <2>1
  <2>3. \A x \in heap : \E k \in 1..size : at[k] = x
    BY <2>1
  <2> HIDE DEF at
  <2>4. at \in Injection(1..size, heap)
    BY <2>2 DEF Injection, IsInjective
  <2>5. at \in Surjection(1..size, heap)
    BY <2>2, <2>3 DEF Surjection
  <2> QED BY <2>4, <2>5 DEF Bijection
<1>4. Cardinality(heap) = size
  <2> HIDE DEF at, size
  <2>1. ExistsBijection(1..size, heap)
    BY <1>3, Zenon DEF ExistsBijection
  <2> QED BY <1>2, <2>1, FS_Bijection
<1>5. heap \subseteq Nodes
  BY <1>1 DEF IsWalk
<1>6. Cardinality(heap) <= Cardinality(Nodes) /\ Cardinality(Nodes) \in Nat
  BY <1>5, ListConstants, FS_Subset, FS_CardinalityType
<1> QED BY <1>1, <1>4, <1>6

\* The model's walk from First is the chain.
LEMMA WalkIsTheChain ==
  \A walk : IsWalk(walk) => List!Walk = walk
<1> SUFFICES ASSUME NEW walk, IsWalk(walk) PROVE List!Walk = walk
  OBVIOUS
<1> DEFINE size == Len(walk)
           found == {j \in 0..Cardinality(Nodes) : List!NodeAt(j) # NULL}
<1>1. size \in Nat /\ size <= Cardinality(Nodes) /\ Cardinality(Nodes) \in Nat
  BY ChainCounts
<1>2. walk \in Seq(Nodes) /\ \A k \in 1..size : walk[k] # NULL
  BY ListConstants, ElementOfSeq DEF IsWalk
<1>3. found = 0..(size - 1)
  <2>1. ASSUME NEW j \in Nat PROVE List!NodeAt(j) # NULL <=> j <= size - 1
    <3>1. j \in Int /\ (j + 1 \in 1..size <=> j <= size - 1)
      BY <1>1
    <3>2. List!NodeAt(j) = Place(walk, j + 1)
      BY <3>1, NodesAreFound
    <3> QED BY <1>2, <3>1, <3>2 DEF Place
  <2> HIDE DEF size
  <2>2. ASSUME NEW j \in found PROVE j \in 0..(size - 1)
    <3>1. j \in Nat /\ List!NodeAt(j) # NULL
      BY <1>1
    <3> QED BY <1>1, <2>1, <3>1
  <2>3. ASSUME NEW j \in 0..(size - 1) PROVE j \in found
    <3>1. j \in Nat /\ j \in 0..Cardinality(Nodes) /\ j <= size - 1
      BY <1>1
    <3>2. List!NodeAt(j) # NULL
      BY <2>1, <3>1
    <3> QED BY <3>1, <3>2
  <2> HIDE DEF found
  <2> QED BY <2>2, <2>3
<1>4. Cardinality(found) = size
  <2> HIDE DEF size
  <2>1. 0 \in Int /\ size - 1 \in Int
    BY <1>1
  <2>2. Cardinality(0..(size - 1)) = IF 0 > size - 1 THEN 0 ELSE (size - 1) - 0 + 1
    BY <2>1, FS_Interval
  <2>3. Cardinality(0..(size - 1)) = size
    BY <1>1, <2>2
  <2> HIDE DEF found
  <2> QED BY <1>3, <2>3
<1>5. List!Walk = [k \in 1..Cardinality(found) |-> List!NodeAt(k - 1)]
  BY Zenon DEF List!Walk, List!Cardinality, Cardinality
<1>6. \A k \in 1..size : List!NodeAt(k - 1) = walk[k]
  <2> SUFFICES ASSUME NEW k \in 1..size PROVE List!NodeAt(k - 1) = walk[k]
    OBVIOUS
  <2>1. k - 1 \in Int /\ (k - 1) + 1 = k
    BY <1>1
  <2> QED BY <2>1, NodesAreFound DEF Place
<1>7. walk = [k \in 1..size |-> walk[k]]
  BY <1>2
<1> HIDE DEF found, size
<1> QED BY <1>4, <1>5, <1>6, <1>7

\* So is what callers see.
LEMMA ContentsAreTheChain ==
  \A walk : IsWalk(walk) =>
    /\ List!Contents = ObjectsOf(walk) /\ List!Contents \in Seq(Objects) /\ Len(List!Contents) = Len(walk)
    /\ Len(walk) \in Nat /\ DOMAIN List!Contents = 1..Len(walk)
    /\ \A k \in 1..Len(walk) : List!Contents[k] = data[walk[k]]
<1> SUFFICES ASSUME NEW walk, IsWalk(walk)
             PROVE  /\ List!Contents = ObjectsOf(walk) /\ ObjectsOf(walk) \in Seq(Objects)
                    /\ Len(ObjectsOf(walk)) = Len(walk) /\ DOMAIN ObjectsOf(walk) = 1..Len(walk)
                    /\ Len(walk) \in Nat /\ \A k \in 1..Len(walk) : ObjectsOf(walk)[k] = data[walk[k]]
  OBVIOUS
<1>1. /\ walk \in Seq(Nodes) /\ Len(walk) \in Nat /\ DOMAIN walk = 1..Len(walk)
      /\ \A k \in 1..Len(walk) : data[walk[k]] \in Objects
  BY DEF IsWalk
<1>2. List!Contents = ObjectsOf(walk)
  BY <1>1, WalkIsTheChain DEF List!Contents, ObjectsOf
<1>3. ObjectsOf(walk) \in Seq(Objects) /\ Len(ObjectsOf(walk)) = Len(walk)
  BY <1>1 DEF ObjectsOf
<1> QED BY <1>1, <1>2, <1>3 DEF ObjectsOf

\* What a chain gives the types and the iterator.
LEMMA ChainIsSound == ChainInv => List!TypeOK /\ List!IteratorIsFresh
<1> SUFFICES ASSUME ChainInv PROVE List!TypeOK /\ List!IteratorIsFresh
  OBVIOUS
<1>1. PICK walk : IsWalk(walk) /\ (LastPos # 0 => LastPos < Len(walk) /\ LastIterator = walk[LastPos + 1])
  BY DEF ChainInv
<1>2. Len(walk) \in Nat /\ DOMAIN walk = 1..Len(walk) /\ walk \in Seq(Nodes) /\ LastPos \in Nat
  BY <1>1 DEF ChainInv, IsWalk
<1>3. List!Walk = walk /\ Cardinality(heap) = Len(walk)
  BY <1>1, WalkIsTheChain, ChainCounts
<1>4. List!TypeOK
  <2>1. heap \subseteq Nodes /\ First \in Nodes \cup {NULL}
    BY <1>1, <1>2, ElementOfSeq, EmptySeq DEF IsWalk
  <2>2. count = Len(List!Walk) /\ heap = {List!Walk[k] : k \in DOMAIN List!Walk}
    BY <1>1, <1>2, <1>3 DEF IsWalk
  <2>3. List!Cardinality(heap) = Cardinality(heap)
    BY Zenon DEF List!Cardinality, Cardinality
  <2>4. Cardinality(heap) = count
    BY <1>1, <1>3 DEF IsWalk
  <2> QED BY <1>2, <2>1, <2>2, <2>3, <2>4 DEF List!TypeOK
<1>5. List!IteratorIsFresh
  <2> SUFFICES ASSUME LastPos # 0 PROVE LastIterator \in heap /\ LastIterator = List!NodeAt(LastPos)
    BY DEF List!IteratorIsFresh
  <2>1. LastPos + 1 \in 1..Len(walk) /\ LastIterator = walk[LastPos + 1] /\ LastPos \in Int
    BY <1>1, <1>2
  <2>2. List!NodeAt(LastPos) = walk[LastPos + 1]
    BY <1>1, <2>1, NodesAreFound DEF Place
  <2> QED BY <1>1, <2>1, <2>2 DEF IsWalk
<1> QED BY <1>4, <1>5

\* The next free address takes a place in the chain, and the object with it.
LEMMA Linking ==
  ASSUME NEW walk, IsWalk(walk), NEW a \in 1..(Len(walk) + 1), NEW node \in Nodes \ heap, NEW x \in Objects,
         data \in [Nodes -> Objects \cup {NULL}], next' \in [Nodes -> Nodes \cup {NULL}],
         data' = [data EXCEPT ![node] = x], heap' = heap \cup {node}, count' = count + 1,
         First' = (IF a = 1 THEN node ELSE First), next'[node] = Place(walk, a),
         a > 1 => next'[walk[a - 1]] = node,
         \A k \in 1..Len(walk) : k # a - 1 => next'[walk[k]] = next[walk[k]]
  PROVE  \E w : w = Inserted(walk, a, node) /\ IsWalk(w)' /\ ObjectsOf(w)' = Inserted(ObjectsOf(walk), a, x)
<1> DEFINE size == Len(walk)
<1>1. /\ size \in Nat /\ walk \in Seq(Nodes)
      /\ \A k \in 1..size : walk[k] \in Nodes /\ walk[k] \in heap /\ walk[k] # node
  BY ElementOfSeq DEF IsWalk
<1>w. PICK w : w = Inserted(walk, a, node)
  OBVIOUS
<1>2. /\ w \in Seq(Nodes) /\ Len(w) = size + 1 /\ w[a] = node
      /\ \A u \in 1..size : (u < a => w[u] = walk[u]) /\ (u >= a => w[u + 1] = walk[u])
  BY <1>1, <1>w, ElementInserted
<1>3. a \in Nat /\ a >= 1 /\ a <= size + 1
  BY <1>1
<1>4. ASSUME NEW k \in 1..(size + 1)
      PROVE  \/ k \in 1..size /\ k < a /\ w[k] = walk[k]
             \/ k = a /\ w[k] = node
             \/ k - 1 \in 1..size /\ k > a /\ w[k] = walk[k - 1]
  <2>1. CASE k < a
    BY <1>1, <1>2, <1>3, <2>1
  <2>2. CASE k = a
    BY <1>2, <2>2
  <2>3. CASE k > a
    <3>1. k - 1 \in 1..size /\ k - 1 >= a /\ (k - 1) + 1 = k
      BY <1>1, <1>3, <2>3
    <3> QED BY <1>2, <2>3, <3>1
  <2> QED BY <1>3, <2>1, <2>2, <2>3
<1>5. heap' = {w[k] : k \in 1..(size + 1)}
  <2>1. ASSUME NEW k \in 1..(size + 1) PROVE w[k] \in heap'
    BY <1>1, <1>4
  <2>2. ASSUME NEW e \in heap' PROVE \E k \in 1..(size + 1) : w[k] = e
    <3>1. CASE e = node
      BY <1>2, <3>1
    <3>2. CASE e # node
      <4>1. PICK u \in 1..size : walk[u] = e
        BY <3>2 DEF IsWalk
      <4>2. u \in 1..(size + 1) /\ u + 1 \in 1..(size + 1) /\ (u < a \/ u >= a)
        BY <1>1, <1>3
      <4> QED BY <1>2, <4>1, <4>2
    <3> QED BY <3>1, <3>2
  <2> QED BY <2>1, <2>2
<1>6. ASSUME NEW k \in 1..(size + 1), NEW l \in 1..(size + 1), w[k] = w[l] PROVE k = l
  <2>1. \A u, t \in 1..size : walk[u] = walk[t] => u = t
    BY DEF IsWalk
  <2>2. \/ k \in 1..size /\ k < a /\ w[k] = walk[k]
        \/ k = a /\ w[k] = node
        \/ k - 1 \in 1..size /\ k > a /\ w[k] = walk[k - 1]
    BY <1>4
  <2>3. \/ l \in 1..size /\ l < a /\ w[l] = walk[l]
        \/ l = a /\ w[l] = node
        \/ l - 1 \in 1..size /\ l > a /\ w[l] = walk[l - 1]
    BY <1>4
  <2> HIDE DEF size
  <2>4. k \in Nat /\ l \in Nat
    BY <1>1
  <2> QED BY <1>1, <1>3, <1>6, <2>1, <2>2, <2>3, <2>4
<1>7. First' = w[1] /\ w # <<>>
  <2>1. Len(w) # 0
    BY <1>1, <1>2
  <2>2. CASE a = 1
    BY <1>2, <2>1, <2>2
  <2>3. CASE a # 1
    <3>1. 1 \in 1..size /\ 1 < a
      BY <1>1, <1>3, <2>3
    <3>2. walk # <<>> /\ First = walk[1]
      BY <3>1 DEF IsWalk
    <3> QED BY <1>2, <2>1, <2>3, <3>1, <3>2
  <2> QED BY <2>2, <2>3
<1>8. ASSUME NEW k \in 1..(size + 1) PROVE next'[w[k]] = (IF k = size + 1 THEN NULL ELSE w[k + 1])
  <2>1. \A u \in 1..size : next[walk[u]] = (IF u = size THEN NULL ELSE walk[u + 1])
    BY DEF IsWalk
  <2>2. CASE k < a - 1
    <3>1. k \in 1..size /\ k < a /\ k # size /\ k + 1 \in 1..size /\ k + 1 < a /\ k # a - 1 /\ k # size + 1
      BY <1>1, <1>3, <2>2
    <3>2. w[k] = walk[k] /\ w[k + 1] = walk[k + 1]
      BY <1>2, <3>1
    <3>3. next'[walk[k]] = next[walk[k]]
      BY <3>1
    <3> QED BY <2>1, <3>1, <3>2, <3>3
  <2>3. CASE k = a - 1
    <3>1. k \in 1..size /\ k < a /\ a > 1 /\ k # size + 1 /\ k + 1 = a
      BY <1>1, <1>3, <2>3
    <3>2. w[k] = walk[a - 1] /\ w[k + 1] = node
      BY <1>2, <2>3, <3>1
    <3> QED BY <3>1, <3>2
  <2>4. CASE k = a
    <3>1. CASE a = size + 1
      <4>1. a \notin 1..size
        BY <1>1, <3>1
      <4> QED BY <1>2, <2>4, <3>1, <4>1 DEF Place
    <3>2. CASE a # size + 1
      <4>1. a \in 1..size
        BY <1>1, <1>3, <3>2
      <4>2. w[a + 1] = walk[a]
        BY <1>2, <1>3, <4>1
      <4> QED BY <1>2, <2>4, <3>2, <4>1, <4>2 DEF Place
    <3> QED BY <3>1, <3>2
  <2>5. CASE k > a
    <3>1. k - 1 \in 1..size /\ k - 1 >= a /\ (k - 1) + 1 = k /\ k - 1 # a - 1 /\ (k - 1 = size <=> k = size + 1)
      BY <1>1, <1>3, <2>5
    <3>2. w[k] = walk[k - 1]
      BY <1>2, <3>1
    <3>3. next'[walk[k - 1]] = next[walk[k - 1]]
      BY <3>1
    <3>4. CASE k = size + 1
      BY <2>1, <3>1, <3>2, <3>3, <3>4
    <3>5. CASE k # size + 1
      <4>1. k \in 1..size /\ k >= a
        BY <1>1, <1>3, <2>5, <3>5
      <4>2. w[k + 1] = walk[k]
        BY <1>2, <4>1
      <4> QED BY <2>1, <3>1, <3>2, <3>3, <3>5, <4>2
    <3> QED BY <3>4, <3>5
  <2> QED BY <1>1, <1>3, <2>2, <2>3, <2>4, <2>5
<1>9. /\ data'[node] = x /\ \A u \in 1..size : data'[walk[u]] = data[walk[u]] /\ data[walk[u]] \in Objects
  BY <1>1 DEF IsWalk
<1>10. ASSUME NEW k \in 1..(size + 1) PROVE data'[w[k]] \in Objects
  BY <1>4, <1>9
<1>11. IsWalk(w)'
  <2>1. count' = size + 1
    BY DEF IsWalk
  <2>2. \A k, l \in 1..(size + 1) : w[k] = w[l] => k = l
    BY <1>6
  <2> HIDE DEF size
  <2> QED BY <1>2, <1>5, <1>7, <1>8, <1>10, <2>1, <2>2 DEF IsWalk
<1>12. ObjectsOf(w)' = Inserted(ObjectsOf(walk), a, x)
  <2> DEFINE old == ObjectsOf(walk)
             new == Inserted(old, a, x)
             got == [k \in 1..(size + 1) |-> data'[w[k]]]
  <2>1. old \in Seq(Objects) /\ Len(old) = size /\ \A u \in 1..size : old[u] = data[walk[u]]
    BY <1>1, <1>9 DEF ObjectsOf
  <2> HIDE DEF old
  <2>2. /\ new \in Seq(Objects) /\ Len(new) = size + 1 /\ new[a] = x
        /\ \A u \in 1..size : (u < a => new[u] = old[u]) /\ (u >= a => new[u + 1] = old[u])
    BY <2>1, <1>3, ElementInserted
  <2> HIDE DEF new
  <2>3. got \in Seq(Objects) /\ Len(got) = size + 1
    BY <1>1, <1>10
  <2>4. ASSUME NEW k \in 1..(size + 1) PROVE got[k] = new[k]
    <3>0. got[k] = data'[w[k]]
      OBVIOUS
    <3> HIDE DEF got
    <3>1. CASE k \in 1..size /\ k < a /\ w[k] = walk[k]
      BY <1>9, <2>1, <2>2, <3>0, <3>1
    <3>2. CASE k = a /\ w[k] = node
      BY <1>9, <2>2, <3>0, <3>2
    <3>3. CASE k - 1 \in 1..size /\ k > a /\ w[k] = walk[k - 1]
      <4>1. k - 1 >= a /\ (k - 1) + 1 = k
        BY <1>3, <3>3
      <4>2. new[k] = old[k - 1] /\ old[k - 1] = data[walk[k - 1]]
        BY <2>1, <2>2, <3>3, <4>1
      <4> QED BY <1>9, <3>0, <3>3, <4>2
    <3> QED BY <1>4, <3>1, <3>2, <3>3
  <2>5. got = new
    <3> HIDE DEF got, size
    <3> QED BY <2>2, <2>3, <2>4, SameElements
  <2>6. ObjectsOf(w)' = got
    BY <1>2 DEF ObjectsOf
  <2> QED BY <2>5, <2>6 DEF new, old
<1> QED BY <1>w, <1>11, <1>12

\* A node is taken out of the chain, and its object with it.
LEMMA Unlinking ==
  ASSUME NEW walk, IsWalk(walk), NEW a \in 1..Len(walk),
         data \in [Nodes -> Objects \cup {NULL}],
         data' = [data EXCEPT ![walk[a]] = NULL], heap' = heap \ {walk[a]}, count' = count - 1,
         First' = (IF a = 1 THEN next[walk[1]] ELSE First),
         a > 1 => next'[walk[a - 1]] = next[walk[a]],
         \A k \in 1..Len(walk) : k # a - 1 /\ k # a => next'[walk[k]] = next[walk[k]]
  PROVE  \E w : w = Removed(walk, a) /\ IsWalk(w)' /\ ObjectsOf(w)' = Removed(ObjectsOf(walk), a)
<1> DEFINE size == Len(walk)
<1>1. /\ size \in Nat /\ walk \in Seq(Nodes) /\ \A k \in 1..size : walk[k] \in Nodes /\ walk[k] \in heap
      /\ \A u, t \in 1..size : walk[u] = walk[t] => u = t
  <2>1. /\ size \in Nat /\ walk \in Seq(Nodes) /\ heap = {walk[k] : k \in 1..size}
        /\ \A u, t \in 1..size : walk[u] = walk[t] => u = t
    BY DEF IsWalk
  <2> QED BY <2>1, ElementOfSeq
<1>w. PICK w : w = Removed(walk, a)
  OBVIOUS
<1>2. /\ w \in Seq(Nodes) /\ Len(w) = size - 1
      /\ \A u \in 1..(size - 1) : (u < a => w[u] = walk[u]) /\ (u >= a => w[u] = walk[u + 1])
  BY <1>1, <1>w, ElementRemoved
<1>3. a \in Nat /\ a >= 1 /\ a <= size
  BY <1>1
<1>4. ASSUME NEW k \in 1..(size - 1)
      PROVE  \/ k \in 1..size /\ k < a /\ w[k] = walk[k]
             \/ k + 1 \in 1..size /\ k >= a /\ w[k] = walk[k + 1]
  <2>1. k \in 1..size /\ k + 1 \in 1..size /\ (k < a \/ k >= a)
    BY <1>1, <1>3
  <2> QED BY <1>2, <2>1
<1>5. heap' = {w[k] : k \in 1..(size - 1)}
  <2>1. ASSUME NEW k \in 1..(size - 1) PROVE w[k] \in heap'
    <3>2. CASE k \in 1..size /\ k < a /\ w[k] = walk[k]
      BY <1>1, <1>3, <3>2
    <3>3. CASE k + 1 \in 1..size /\ k >= a /\ w[k] = walk[k + 1]
      <4>1. k + 1 # a
        BY <1>3, <3>3
      <4> QED BY <1>1, <3>3, <4>1
    <3> QED BY <1>4, <3>2, <3>3
  <2>2. ASSUME NEW e \in heap' PROVE \E k \in 1..(size - 1) : w[k] = e
    <3>1. PICK u \in 1..size : walk[u] = e
      BY DEF IsWalk
    <3>2. u # a
      BY <3>1
    <3>3. CASE u < a
      <4>1. u \in 1..(size - 1)
        BY <1>1, <1>3, <3>3
      <4> QED BY <1>2, <3>1, <3>3, <4>1
    <3>4. CASE u > a
      <4>1. u - 1 \in 1..(size - 1) /\ u - 1 >= a /\ (u - 1) + 1 = u
        BY <1>1, <1>3, <3>4
      <4>2. w[u - 1] = walk[u]
        BY <1>2, <4>1
      <4> QED BY <3>1, <4>1, <4>2
    <3> QED BY <1>1, <1>3, <3>2, <3>3, <3>4
  <2> QED BY <2>1, <2>2
<1>6. ASSUME NEW k \in 1..(size - 1), NEW l \in 1..(size - 1), w[k] = w[l] PROVE k = l
  <2>1. \/ k \in 1..size /\ k < a /\ w[k] = walk[k]
        \/ k + 1 \in 1..size /\ k >= a /\ w[k] = walk[k + 1]
    BY <1>4
  <2>2. \/ l \in 1..size /\ l < a /\ w[l] = walk[l]
        \/ l + 1 \in 1..size /\ l >= a /\ w[l] = walk[l + 1]
    BY <1>4
  <2> HIDE DEF size
  <2>3. k \in Nat /\ l \in Nat
    BY <1>1
  <2> QED BY <1>1, <1>3, <1>6, <2>1, <2>2, <2>3
<1>7. \A u \in 1..size : next[walk[u]] = (IF u = size THEN NULL ELSE walk[u + 1])
  BY DEF IsWalk
<1>8. First' = (IF w = <<>> THEN NULL ELSE w[1])
  <2>1. First = walk[1] /\ 1 \in 1..size
    <3>1. 1 \in 1..size
      BY <1>1, <1>3
    <3>2. walk # <<>>
      BY <3>1
    <3> QED BY <3>1, <3>2 DEF IsWalk
  <2>2. w = <<>> <=> size = 1
    <3>1. Len(w) = 0 <=> size = 1
      BY <1>1, <1>2
    <3> QED BY <1>2, <3>1, EmptySeq
  <2>3. CASE a = 1
    <3> HIDE DEF size
    <3>1. next[walk[1]] = (IF size = 1 THEN NULL ELSE walk[1 + 1])
      BY <1>7, <2>1
    <3>2. size # 1 => 1 \in 1..(size - 1) /\ 1 >= a
      BY <1>1, <2>1, <2>3
    <3>3. size # 1 => w[1] = walk[1 + 1]
      BY <1>2, <3>2
    <3> QED BY <2>2, <2>3, <3>1, <3>3
  <2>4. CASE a # 1
    <3>1. size # 1 /\ 1 \in 1..(size - 1) /\ 1 < a
      BY <1>1, <1>3, <2>4
    <3>2. w[1] = walk[1]
      BY <1>2, <3>1
    <3> QED BY <2>1, <2>2, <2>4, <3>1, <3>2
  <2> QED BY <2>3, <2>4
<1>9. ASSUME NEW k \in 1..(size - 1) PROVE next'[w[k]] = (IF k = size - 1 THEN NULL ELSE w[k + 1])
  <2>1. CASE k < a - 1
    <3>1. /\ k \in 1..size /\ k < a /\ k # size /\ k + 1 \in 1..(size - 1) /\ k + 1 < a
          /\ k # a - 1 /\ k # a /\ k # size - 1
      BY <1>1, <1>3, <2>1
    <3>2. w[k] = walk[k] /\ w[k + 1] = walk[k + 1]
      BY <1>2, <3>1
    <3> QED BY <1>7, <3>1, <3>2
  <2>2. CASE k = a - 1
    <3>1. k \in 1..(size - 1) /\ k < a /\ a > 1 /\ a \in 1..size /\ k + 1 = a /\ (a = size <=> k = size - 1)
      BY <1>1, <1>3, <2>2
    <3>2. w[k] = walk[a - 1] /\ next'[w[k]] = (IF a = size THEN NULL ELSE walk[a + 1])
      BY <1>2, <1>7, <2>2, <3>1
    <3>3. a # size => a \in 1..(size - 1) /\ a >= a
      BY <1>1, <1>3
    <3>4. a # size => w[a] = walk[a + 1]
      BY <1>2, <3>3
    <3> QED BY <3>1, <3>2, <3>4
  <2>3. CASE k >= a
    <3>1. k + 1 \in 1..size /\ k + 1 # a /\ k + 1 # a - 1 /\ (k + 1 = size <=> k = size - 1)
      BY <1>1, <1>3, <2>3
    <3>2. w[k] = walk[k + 1] /\ next'[walk[k + 1]] = (IF k + 1 = size THEN NULL ELSE walk[k + 1 + 1])
      BY <1>2, <1>7, <2>3, <3>1
    <3>3. k # size - 1 => k + 1 \in 1..(size - 1) /\ k + 1 >= a
      BY <1>1, <1>3, <2>3
    <3>4. k # size - 1 => w[k + 1] = walk[k + 1 + 1]
      BY <1>2, <3>3
    <3> QED BY <3>1, <3>2, <3>4
  <2> QED BY <1>1, <1>3, <2>1, <2>2, <2>3
<1>10. \A u \in 1..size : u # a => data'[walk[u]] = data[walk[u]] /\ data[walk[u]] \in Objects
  BY <1>1, <1>3 DEF IsWalk
<1>11. ASSUME NEW k \in 1..(size - 1)
       PROVE  \/ k \in 1..size /\ k < a /\ data'[w[k]] = data[walk[k]] /\ data[walk[k]] \in Objects
              \/ k + 1 \in 1..size /\ k >= a /\ data'[w[k]] = data[walk[k + 1]] /\ data[walk[k + 1]] \in Objects
  <2>1. (k < a => k # a) /\ (k >= a => k + 1 # a)
    BY <1>3
  <2> QED BY <1>4, <1>10, <2>1
<1>12. IsWalk(w)'
  <2>1. count' = size - 1
    BY DEF IsWalk
  <2>2. \A k, l \in 1..(size - 1) : w[k] = w[l] => k = l
    BY <1>6
  <2>3. \A k \in 1..(size - 1) : data'[w[k]] \in Objects
    BY <1>11
  <2> HIDE DEF size
  <2> QED BY <1>2, <1>5, <1>8, <1>9, <2>1, <2>2, <2>3 DEF IsWalk
<1>13. ObjectsOf(w)' = Removed(ObjectsOf(walk), a)
  <2> DEFINE old == ObjectsOf(walk)
             new == Removed(old, a)
             got == [k \in 1..(size - 1) |-> data'[w[k]]]
  <2>1. old \in Seq(Objects) /\ Len(old) = size /\ \A u \in 1..size : old[u] = data[walk[u]]
    BY <1>1 DEF ObjectsOf, IsWalk
  <2> HIDE DEF old
  <2>2. /\ new \in Seq(Objects) /\ Len(new) = size - 1
        /\ \A u \in 1..(size - 1) : (u < a => new[u] = old[u]) /\ (u >= a => new[u] = old[u + 1])
    BY <2>1, <1>3, ElementRemoved
  <2> HIDE DEF new
  <2>3. got \in Seq(Objects) /\ Len(got) = size - 1
    <3>1. size - 1 \in Nat
      BY <1>1, <1>3
    <3>2. \A k \in 1..(size - 1) : data'[w[k]] \in Objects
      BY <1>11
    <3> HIDE DEF size
    <3> QED BY <3>1, <3>2
  <2>4. ASSUME NEW k \in 1..(size - 1) PROVE got[k] = new[k]
    <3>0. got[k] = data'[w[k]]
      OBVIOUS
    <3> HIDE DEF got
    <3> QED BY <1>11, <2>1, <2>2, <3>0
  <2>5. got = new
    <3> HIDE DEF got, size
    <3> QED BY <2>2, <2>3, <2>4, SameElements
  <2>6. ObjectsOf(w)' = got
    BY <1>2 DEF ObjectsOf
  <2> QED BY <2>5, <2>6 DEF new, old
<1> QED BY <1>w, <1>12, <1>13

\* The objects the list destroys.
LEMMA OwnedAreDestroyed ==
  \A x \in Objects : List!Destroys(x) <=> x \in (IF AutoClean THEN Objects \ NoClean ELSE {})
  BY ListConstants DEF List!Destroys

\* A step of the list: the chain after it, and what callers see of it.
ChainStep(walk) == IsWalk(walk)' /\ List!Contents' = ObjectsOf(walk)'

LEMMA ChainSeen == \A walk : IsWalk(walk)' => ChainStep(walk)
<1>1. \A walk : IsWalk(walk) => List!Contents = ObjectsOf(walk)
  BY ContentsAreTheChain
<1>2. (\A walk : IsWalk(walk) => List!Contents = ObjectsOf(walk))'
  BY <1>1, PTL
<1> QED BY <1>2 DEF ChainStep

\* The places callers may ask for.
LEMMA ValidPlaces ==
  ASSUME ChainInv
  PROVE  /\ count \in Nat /\ Len(List!Contents) = count
         /\ \A i \in Int : List!Refines!Valid(i) <=> i \in 0..(count - 1)
         /\ \A i \in 0..(count - 1) : data[List!NodeAt(i)] = List!Contents[i + 1] /\ List!Contents[i + 1] \in Objects
<1>1. PICK walk : IsWalk(walk)
  BY DEF ChainInv
<1>2. /\ count = Len(walk) /\ Len(walk) \in Nat /\ Len(List!Contents) = Len(walk)
      /\ \A k \in 1..Len(walk) : List!Contents[k] = data[walk[k]] /\ data[walk[k]] \in Objects
  BY <1>1, ContentsAreTheChain DEF IsWalk
<1>3. ASSUME NEW i \in 0..(count - 1)
      PROVE  data[List!NodeAt(i)] = List!Contents[i + 1] /\ List!Contents[i + 1] \in Objects
  <2>1. i \in Int /\ i + 1 \in 1..Len(walk)
    BY <1>2
  <2>2. List!NodeAt(i) = walk[i + 1]
    BY <1>1, <2>1, NodesAreFound DEF Place
  <2> QED BY <1>2, <2>1, <2>2
<1>4. \A i \in Int : List!Refines!Valid(i) <=> i \in 0..(count - 1)
  BY <1>2 DEF List!Refines!Valid
<1> QED BY <1>2, <1>3, <1>4

\* Insert puts the object at its place, behind the others, or nowhere.
LEMMA InsertRefines ==
  ASSUME ChainInv, NEW x \in Objects, NEW i \in List!Indices, List!Insert(x, i)
  PROVE  ChainInv' /\ List!Refines!Insert(x, i)
<1>1. PICK walk : IsWalk(walk)
  BY DEF ChainInv
<1>2. /\ Len(walk) \in Nat /\ walk \in Seq(Nodes) /\ count = Len(walk) /\ i \in Int
      /\ data \in [Nodes -> Objects \cup {NULL}] /\ next \in [Nodes -> Nodes \cup {NULL}]
      /\ \A k \in 1..Len(walk) : walk[k] \in Nodes /\ walk[k] \in heap /\ walk[k] # NULL
      /\ \A k, l \in 1..Len(walk) : walk[k] = walk[l] => k = l
  <2>1. /\ Len(walk) \in Nat /\ walk \in Seq(Nodes) /\ count = Len(walk)
        /\ heap = {walk[k] : k \in 1..Len(walk)}
        /\ \A k, l \in 1..Len(walk) : walk[k] = walk[l] => k = l
    BY <1>1 DEF IsWalk
  <2>2. \A k \in 1..Len(walk) : walk[k] \in Nodes /\ walk[k] \in heap /\ walk[k] # NULL
    BY <2>1, ListConstants, ElementOfSeq
  <2>3. i \in Int
    BY ListConstants DEF List!Indices
  <2> QED BY <2>1, <2>2, <2>3, Zenon DEF ChainInv
<1>3. List!Contents = ObjectsOf(walk) /\ ObjectsOf(walk) \in Seq(Objects) /\ Len(ObjectsOf(walk)) = Len(walk)
  BY <1>1, ContentsAreTheChain
<1>4. LastPos' = 0 /\ UNCHANGED destroyed /\ List!Returns("Insert", i, NULL)
  BY DEF List!Insert
<1> DEFINE after(a) == Inserted(ObjectsOf(walk), a, x)
<1>5. /\ next' \in [Nodes -> Nodes \cup {NULL}] /\ data' \in [Nodes -> Objects \cup {NULL}]
      /\ \E w : ChainStep(w) /\ ObjectsOf(w)' = (IF i < 0 THEN ObjectsOf(walk)
                                                 ELSE IF i < count THEN after(i + 1) ELSE after(count + 1))
  <2>1. CASE i < 0
    <3>1. UNCHANGED <<First, count, heap, next, data>>
      BY <2>1 DEF List!Insert
    <3>2. IsWalk(walk)' /\ ObjectsOf(walk)' = ObjectsOf(walk)
      BY <1>1, <3>1 DEF IsWalk, ObjectsOf
    <3>3. ChainStep(walk)
      BY <3>2, ChainSeen
    <3> QED BY <1>2, <2>1, <3>1, <3>2, <3>3
  <2>2. CASE i >= 0
    <3> DEFINE a == IF i < count THEN i + 1 ELSE count + 1
    <3>1. PICK node \in Nodes \ heap :
            IF i >= count THEN List!Add(x, node)
            ELSE /\ data' = [data EXCEPT ![node] = x]
                 /\ heap' = heap \cup {node}
                 /\ IF i = 0
                    THEN First' = node /\ next' = [next EXCEPT ![node] = First]
                    ELSE /\ next' = [next EXCEPT ![node] = List!NodeAt(i), ![List!NodeAt(i - 1)] = node]
                         /\ UNCHANGED First
                 /\ count' = count + 1
      BY <1>2, <2>2 DEF List!Insert
    <3>2. a \in 1..(Len(walk) + 1) /\ Place(walk, Len(walk) + 1) = NULL
      BY <1>2, <2>2 DEF Place
    <3>4. (i >= count => a = Len(walk) + 1) /\ (i < count => a = i + 1)
      BY <1>2
    <3>5. after(a) = (IF i < count THEN after(i + 1) ELSE after(count + 1))
      OBVIOUS
    <3> HIDE DEF a
    <3>6. /\ data' = [data EXCEPT ![node] = x] /\ heap' = heap \cup {node} /\ count' = count + 1
          /\ next' \in [Nodes -> Nodes \cup {NULL}] /\ First' = (IF a = 1 THEN node ELSE First)
          /\ next'[node] = Place(walk, a) /\ (a > 1 => next'[walk[a - 1]] = node)
          /\ \A k \in 1..Len(walk) : k # a - 1 => next'[walk[k]] = next[walk[k]]
      <4>1. CASE i >= count
        <5>1. List!Add(x, node) /\ a = Len(walk) + 1
          BY <3>1, <3>4, <4>1
        <5>2. First = NULL <=> Len(walk) = 0
          <6>1. walk = <<>> <=> Len(walk) = 0
            BY <1>2, EmptySeq
          <6>2. Len(walk) # 0 => 1 \in 1..Len(walk)
            BY <1>2
          <6> QED BY <1>1, <1>2, <6>1, <6>2 DEF IsWalk
        <5>3. CASE First = NULL
          <6>1. First' = node /\ next' = [next EXCEPT ![node] = NULL] /\ Len(walk) = 0 /\ a = 1
            BY <5>1, <5>2, <5>3 DEF List!Add
          <6>2. data' = [data EXCEPT ![node] = x] /\ heap' = heap \cup {node} /\ count' = count + 1
            BY <5>1 DEF List!Add
          <6> QED BY <1>2, <3>2, <5>1, <6>1, <6>2
        <5>4. CASE First # NULL
          <6>1. List!Walk = walk /\ Len(walk) \in 1..Len(walk) /\ a - 1 = Len(walk) /\ a > 1
            BY <1>1, <1>2, <5>1, <5>2, <5>4, WalkIsTheChain
          <6>2. UNCHANGED First /\ next' = [next EXCEPT ![node] = NULL, ![walk[Len(walk)]] = node]
            BY <5>1, <5>4, <6>1 DEF List!Add
          <6>3. /\ next' \in [Nodes -> Nodes \cup {NULL}] /\ next'[node] = NULL /\ next'[walk[Len(walk)]] = node
                /\ \A k \in 1..Len(walk) : k # Len(walk) => next'[walk[k]] = next[walk[k]]
            BY <1>2, <6>1, <6>2
          <6>4. data' = [data EXCEPT ![node] = x] /\ heap' = heap \cup {node} /\ count' = count + 1
            BY <5>1 DEF List!Add
          <6>5. a # 1 /\ next'[walk[a - 1]] = node /\ Place(walk, a) = NULL
            <7>1. a # 1
              BY <6>1
            <7>2. a = Len(walk) + 1
              BY <5>1
            <7> QED BY <3>2, <6>1, <6>3, <7>1, <7>2, Zenon
          <6>6. \A k \in 1..Len(walk) : k # a - 1 => next'[walk[k]] = next[walk[k]]
            BY <6>1, <6>3
          <6> HIDE DEF after
          <6> QED BY <6>2, <6>3, <6>4, <6>5, <6>6, Zenon
        <5> QED BY <5>3, <5>4
      <4>2. CASE i < count
        <5>1. /\ data' = [data EXCEPT ![node] = x] /\ heap' = heap \cup {node} /\ count' = count + 1
              /\ IF i = 0 THEN First' = node /\ next' = [next EXCEPT ![node] = First]
                 ELSE /\ next' = [next EXCEPT ![node] = List!NodeAt(i), ![List!NodeAt(i - 1)] = node]
                      /\ UNCHANGED First
          BY <1>2, <3>1, <4>2
        <5>2. a = i + 1 /\ a \in 1..Len(walk) /\ Place(walk, a) = walk[a] /\ walk[a] \in Nodes
          BY <1>2, <2>2, <3>4, <4>2 DEF Place
        <5>3. CASE i = 0
          <6>1. a = 1 /\ First = walk[1]
            <7>1. walk # <<>>
              BY <5>2
            <7> QED BY <1>1, <5>2, <5>3, <7>1 DEF IsWalk
          <6>2. First' = node /\ next' = [next EXCEPT ![node] = walk[1]]
            BY <5>1, <5>3, <6>1
          <6>3. \A k \in 1..Len(walk) : next'[walk[k]] = next[walk[k]]
            BY <1>2, <6>2
          <6> QED BY <1>2, <5>1, <5>2, <6>1, <6>2, <6>3
        <5>4. CASE i # 0
          <6>1. a - 1 \in 1..Len(walk) /\ a - 1 = i /\ i \in Int /\ i - 1 \in Int /\ (i - 1) + 1 = i /\ a > 1
            BY <1>2, <2>2, <5>2, <5>4
          <6>2. List!NodeAt(i) = walk[a] /\ List!NodeAt(i - 1) = walk[a - 1]
            BY <1>1, <5>2, <6>1, NodesAreFound DEF Place
          <6>3. UNCHANGED First /\ next' = [next EXCEPT ![node] = walk[a], ![walk[a - 1]] = node]
            BY <5>1, <5>4, <6>2
          <6>4. /\ next' \in [Nodes -> Nodes \cup {NULL}] /\ next'[node] = walk[a] /\ next'[walk[a - 1]] = node
                /\ \A k \in 1..Len(walk) : k # a - 1 => next'[walk[k]] = next[walk[k]]
            BY <1>2, <5>2, <6>1, <6>3
          <6>5. a # 1
            BY <6>1
          <6> HIDE DEF after
          <6> QED BY <5>1, <5>2, <6>3, <6>4, <6>5, Zenon
        <5> QED BY <5>3, <5>4
      <4> QED BY <1>2, <4>1, <4>2
    <3>7. \E w : w = Inserted(walk, a, node) /\ IsWalk(w)' /\ ObjectsOf(w)' = Inserted(ObjectsOf(walk), a, x)
      <4>1. node \in Nodes \ heap /\ IsWalk(walk) /\ a \in 1..(Len(walk) + 1)
        BY <1>1, <3>2
      <4>2. data \in [Nodes -> Objects \cup {NULL}]
        BY <1>2
      <4> HIDE DEF after
      <4> QED BY <3>6, <4>1, <4>2, Linking
    <3>8. PICK w : IsWalk(w)' /\ ObjectsOf(w)' = after(a)
      BY <3>7, Zenon
    <3>9. ChainStep(w)
      BY <3>8, ChainSeen
    <3>10. data' \in [Nodes -> Objects \cup {NULL}]
      BY <1>2, <3>6
    <3>11. ~(i < 0)
      BY <1>2, <2>2
    <3> HIDE DEF after
    <3> QED BY <3>5, <3>6, <3>8, <3>9, <3>10, <3>11, Zenon
  <2> QED BY <1>2, <2>1, <2>2
<1>6. PICK w : ChainStep(w) /\ ObjectsOf(w)' = (IF i < 0 THEN ObjectsOf(walk)
                                                ELSE IF i < count THEN after(i + 1) ELSE after(count + 1))
  BY <1>5
<1>7. ChainInv'
  BY <1>4, <1>5, <1>6 DEF ChainInv, ChainStep
<1>8. List!Contents' = (IF i < 0 THEN List!Contents
                        ELSE IF i < count THEN after(i + 1) ELSE after(count + 1))
  BY <1>3, <1>6 DEF ChainStep
<1>9. after(count + 1) = Append(List!Contents, x)
  <2> DEFINE old == ObjectsOf(walk)
  <2>1. SubSeq(old, 1, (count + 1) - 1) = old
    <3>1. (count + 1) - 1 = Len(old)
      BY <1>2, <1>3
    <3> HIDE DEF old
    <3> QED BY <1>3, <3>1 DEF old
  <2>2. SubSeq(old, count + 1, Len(old)) = <<>>
    BY <1>2, <1>3
  <2> HIDE DEF old
  <2>3. old \in Seq(Objects)
    BY <1>3 DEF old
  <2>4. (old \o <<x>>) \o <<>> = Append(old, x)
    BY <2>3
  <2> QED BY <1>3, <2>1, <2>2, <2>4 DEF Inserted, old
<1>10. after(i + 1) = List!Refines!Ext!InsertAt(List!Contents, i + 1, x)
  BY <1>3 DEF Inserted, List!Refines!Ext!InsertAt
<1>11. List!Refines!Valid(i) <=> i >= 0 /\ i < count
  <2>1. List!Refines!Valid(i) <=> i \in 0..(count - 1)
    BY <1>2, ValidPlaces
  <2> QED BY <1>2, <2>1
<1> HIDE DEF after
<1>12. List!Contents' = (IF i < 0 THEN List!Contents
                         ELSE IF List!Refines!Valid(i) THEN List!Refines!Ext!InsertAt(List!Contents, i + 1, x)
                         ELSE Append(List!Contents, x))
  <2>1. i >= 0 <=> ~(i < 0)
    BY <1>2
  <2> QED BY <1>8, <1>9, <1>10, <1>11, <2>1, Zenon
<1>13. List!Refines!Insert(x, i)
  BY <1>4, <1>12, Zenon DEF List!Refines!Insert, List!Refines!Returns, List!Returns
<1> QED BY <1>7, <1>13

\* What Remove and Delete have in common: the chain without the node, or as it was.
LEMMA UnlinkRefines ==
  ASSUME ChainInv, NEW i \in List!Indices, List!Unlink(i), LastPos' = 0
  PROVE  /\ ChainInv'
         /\ List!Contents' = (IF List!Refines!Valid(i)
                              THEN List!Refines!Ext!RemoveAt(List!Contents, i + 1) ELSE List!Contents)
<1>1. PICK walk : IsWalk(walk)
  BY DEF ChainInv
<1>2. /\ Len(walk) \in Nat /\ walk \in Seq(Nodes) /\ count = Len(walk) /\ i \in Int
      /\ data \in [Nodes -> Objects \cup {NULL}] /\ next \in [Nodes -> Nodes \cup {NULL}]
      /\ \A k \in 1..Len(walk) : walk[k] \in Nodes /\ walk[k] \in heap /\ walk[k] # NULL
      /\ \A k, l \in 1..Len(walk) : walk[k] = walk[l] => k = l
  <2>1. /\ Len(walk) \in Nat /\ walk \in Seq(Nodes) /\ count = Len(walk)
        /\ heap = {walk[k] : k \in 1..Len(walk)}
        /\ \A k, l \in 1..Len(walk) : walk[k] = walk[l] => k = l
    BY <1>1 DEF IsWalk
  <2>2. \A k \in 1..Len(walk) : walk[k] \in Nodes /\ walk[k] \in heap /\ walk[k] # NULL
    BY <2>1, ListConstants, ElementOfSeq
  <2>3. i \in Int
    BY ListConstants DEF List!Indices
  <2> QED BY <2>1, <2>2, <2>3, Zenon DEF ChainInv
<1>3. List!Contents = ObjectsOf(walk)
  BY <1>1, ContentsAreTheChain
<1>4. List!Refines!Valid(i) <=> i >= 0 /\ i < count
  <2>1. List!Refines!Valid(i) <=> i \in 0..(count - 1)
    BY <1>2, ValidPlaces
  <2> QED BY <1>2, <2>1
<1>5. CASE ~(i >= 0 /\ i < count)
  <2>1. i >= count \/ i < 0
    BY <1>2, <1>5
  <2>2. UNCHANGED <<First, count, heap, next, data>>
    BY <2>1 DEF List!Unlink
  <2>3. IsWalk(walk)' /\ ObjectsOf(walk)' = ObjectsOf(walk)
    BY <1>1, <2>2 DEF IsWalk, ObjectsOf
  <2>4. ChainStep(walk)
    BY <2>3, ChainSeen
  <2>5. List!Contents' = List!Contents
    BY <1>3, <2>3, <2>4 DEF ChainStep
  <2>6. ChainInv'
    BY <1>2, <2>2, <2>3 DEF ChainInv
  <2> QED BY <1>4, <1>5, <2>5, <2>6, Zenon
<1>6. CASE i >= 0 /\ i < count
  <2> DEFINE a == i + 1
  <2>1. a \in 1..Len(walk) /\ i \in Int /\ a - 1 = i /\ (i = 0 <=> a = 1)
    BY <1>2, <1>6
  <2>2. List!NodeAt(i) = walk[a] /\ walk[a] \in Nodes
    BY <1>1, <1>2, <2>1, NodesAreFound DEF Place
  <2>3. /\ count' = count - 1 /\ heap' = heap \ {walk[a]} /\ data' = [data EXCEPT ![walk[a]] = NULL]
        /\ IF i = 0
           THEN First' = next[walk[a]] /\ next' = [next EXCEPT ![walk[a]] = NULL]
           ELSE /\ next' = [next EXCEPT ![List!NodeAt(i - 1)] = next[walk[a]], ![walk[a]] = NULL]
                /\ UNCHANGED First
    <3>1. ~(i >= count \/ i < 0)
      BY <1>2, <1>6
    <3> QED BY <2>2, <3>1 DEF List!Unlink
  <2> HIDE DEF a
  <2>4. /\ next' \in [Nodes -> Nodes \cup {NULL}]
        /\ First' = (IF a = 1 THEN next[walk[1]] ELSE First)
        /\ a > 1 => next'[walk[a - 1]] = next[walk[a]]
        /\ \A k \in 1..Len(walk) : k # a - 1 /\ k # a => next'[walk[k]] = next[walk[k]]
    <3>1. next[walk[a]] \in Nodes \cup {NULL}
      BY <1>2, <2>2
    <3>2. CASE i = 0
      <4>1. a = 1 /\ First' = next[walk[a]] /\ next' = [next EXCEPT ![walk[a]] = NULL]
        BY <2>1, <2>3, <3>2
      <4>2. next' \in [Nodes -> Nodes \cup {NULL}]
        BY <1>2, <4>1
      <4>3. \A k \in 1..Len(walk) : k # a => next'[walk[k]] = next[walk[k]]
        BY <1>2, <2>1, <4>1
      <4> QED BY <4>1, <4>2, <4>3
    <3>3. CASE i # 0
      <4>1. a # 1 /\ a - 1 \in 1..Len(walk) /\ a - 1 # a /\ i - 1 \in Int /\ (i - 1) + 1 = a - 1
        BY <1>2, <1>6, <2>1, <3>3
      <4>2. List!NodeAt(i - 1) = walk[a - 1]
        BY <1>1, <4>1, NodesAreFound DEF Place
      <4>3. UNCHANGED First /\ next' = [next EXCEPT ![walk[a - 1]] = next[walk[a]], ![walk[a]] = NULL]
        BY <2>3, <3>3, <4>2
      <4>4. walk[a - 1] # walk[a] /\ walk[a - 1] \in Nodes
        BY <1>2, <2>1, <4>1
      <4>5. next' \in [Nodes -> Nodes \cup {NULL}] /\ next'[walk[a - 1]] = next[walk[a]]
        BY <1>2, <2>2, <3>1, <4>3, <4>4
      <4>6. \A k \in 1..Len(walk) : k # a - 1 /\ k # a => next'[walk[k]] = next[walk[k]]
        BY <1>2, <2>1, <4>1, <4>3
      <4> QED BY <4>1, <4>3, <4>5, <4>6
    <3> QED BY <3>2, <3>3
  <2>5. \E w : w = Removed(walk, a) /\ IsWalk(w)' /\ ObjectsOf(w)' = Removed(ObjectsOf(walk), a)
    <3>1. data \in [Nodes -> Objects \cup {NULL}]
      BY <1>2
    <3>2. IsWalk(walk) /\ a \in 1..Len(walk)
      BY <1>1, <2>1
    <3> QED BY <2>3, <2>4, <3>1, <3>2, Unlinking
  <2>6. PICK w : IsWalk(w)' /\ ObjectsOf(w)' = Removed(ObjectsOf(walk), a)
    BY <2>5, Zenon
  <2>7. ChainStep(w)
    BY <2>6, ChainSeen
  <2>8. List!Contents' = Removed(List!Contents, a)
    BY <1>3, <2>6, <2>7, Zenon DEF ChainStep
  <2>9. List!Contents' = List!Refines!Ext!RemoveAt(List!Contents, i + 1)
    BY <2>8, Zenon DEF a, Removed, List!Refines!Ext!RemoveAt
  <2>10. ChainInv'
    <3>1. data' \in [Nodes -> Objects \cup {NULL}]
      BY <1>2, <2>2, <2>3
    <3>2. next' \in [Nodes -> Nodes \cup {NULL}] /\ LastPos' \in Nat
      BY <2>4
    <3>3. \E each : IsWalk(each)'
      BY <2>6
    <3> QED BY <3>1, <3>2, <3>3 DEF ChainInv
  <2> QED BY <1>4, <1>6, <2>9, <2>10, Zenon
<1> QED BY <1>5, <1>6

\* The object at a place, or NULL.
LEMMA FoundIsContents ==
  ASSUME ChainInv, NEW i \in List!Indices
  PROVE  /\ List!Found(i) = (IF List!Refines!Valid(i) THEN List!Contents[i + 1] ELSE NULL)
         /\ List!Refines!Valid(i) => List!Contents[i + 1] \in Objects
         /\ List!Found(i) = NULL <=> ~List!Refines!Valid(i)
<1>1. i \in Int
  BY ListConstants DEF List!Indices
<1>2. List!Refines!Valid(i) <=> i \in 0..(count - 1)
  BY <1>1, ValidPlaces
<1>3. i \in 0..(count - 1) => data[List!NodeAt(i)] = List!Contents[i + 1] /\ List!Contents[i + 1] \in Objects
  BY ValidPlaces
<1>4. NULL \notin Objects
  BY ListConstants
<1> QED BY <1>2, <1>3, <1>4, Zenon DEF List!Found

\* Remove gives the caller the object.
LEMMA RemoveRefines ==
  ASSUME ChainInv, NEW i \in List!Indices, List!Remove(i)
  PROVE  ChainInv' /\ List!Refines!Remove(i)
<1>1. List!Unlink(i) /\ LastPos' = 0 /\ UNCHANGED destroyed /\ List!Returns("Remove", i, List!Found(i))
  BY DEF List!Remove
<1>2. /\ ChainInv'
      /\ List!Contents' = (IF List!Refines!Valid(i)
                           THEN List!Refines!Ext!RemoveAt(List!Contents, i + 1) ELSE List!Contents)
  BY <1>1, UnlinkRefines
<1>3. ret' = [op |-> "Remove", i |-> i,
              value |-> IF List!Refines!Valid(i) THEN List!Contents[i + 1] ELSE NULL]
  BY <1>1, FoundIsContents, Zenon DEF List!Returns
<1> QED BY <1>1, <1>2, <1>3, Zenon DEF List!Refines!Remove, List!Refines!Returns

\* Delete destroys what the list owns, and gives the caller the rest.
LEMMA DeleteRefines ==
  ASSUME ChainInv, NEW i \in List!Indices, List!Delete(i)
  PROVE  ChainInv' /\ List!Refines!Delete(i)
<1> DEFINE owned == IF AutoClean THEN Objects \ NoClean ELSE {}
           valid == List!Refines!Valid(i)
           object == List!Contents[i + 1]
<1>1. /\ List!Unlink(i) /\ LastPos' = 0
      /\ destroyed' = destroyed \cup {x \in {List!Found(i)} \ {NULL} : List!Destroys(x)}
      /\ List!Returns("Delete", i, IF List!Destroys(List!Found(i)) THEN NULL ELSE List!Found(i))
  BY DEF List!Delete
<1>2. /\ ChainInv'
      /\ List!Contents' = (IF valid THEN List!Refines!Ext!RemoveAt(List!Contents, i + 1) ELSE List!Contents)
  BY <1>1, UnlinkRefines
<1>3. /\ List!Found(i) = (IF valid THEN object ELSE NULL) /\ (valid => object \in Objects)
      /\ List!Found(i) = NULL <=> ~valid
  BY FoundIsContents
<1>4. \A x \in Objects : List!Destroys(x) <=> x \in owned
  BY OwnedAreDestroyed
<1> HIDE DEF valid, object, owned
<1>5. {x \in {List!Found(i)} \ {NULL} : List!Destroys(x)} = (IF valid THEN {object} \cap owned ELSE {})
  <2>1. CASE valid
    <3>1. List!Found(i) = object /\ object # NULL /\ object \in Objects
      BY <1>3, <2>1
    <3>2. List!Destroys(object) <=> object \in owned
      BY <1>4, <3>1
    <3>3. ASSUME NEW x PROVE x \in {List!Found(i)} \ {NULL} /\ List!Destroys(x) <=> x \in {object} \cap owned
      BY <3>1, <3>2, Zenon
    <3>4. {x \in {List!Found(i)} \ {NULL} : List!Destroys(x)} = {object} \cap owned
      BY <3>3, Zenon
    <3> QED BY <2>1, <3>4
  <2>2. CASE ~valid
    <3>1. {List!Found(i)} \ {NULL} = {}
      BY <1>3, <2>2
    <3>2. {x \in {List!Found(i)} \ {NULL} : List!Destroys(x)} = {}
      BY <3>1, Zenon
    <3> QED BY <2>2, <3>2
  <2> QED BY <2>1, <2>2
<1>6. (IF List!Destroys(List!Found(i)) THEN NULL ELSE List!Found(i))
        = (IF valid /\ object \notin owned THEN object ELSE NULL)
  <2>1. CASE valid
    <3>1. List!Found(i) = object /\ object \in Objects
      BY <1>3, <2>1
    <3>2. List!Destroys(object) <=> object \in owned
      BY <1>4, <3>1
    <3> QED BY <2>1, <3>1, <3>2, Zenon
  <2>2. CASE ~valid
    <3>1. List!Found(i) = NULL
      BY <1>3, <2>2
    <3> QED BY <2>2, <3>1, Zenon
  <2> QED BY <2>1, <2>2
<1>7. destroyed' = destroyed \cup (IF valid THEN {object} \cap owned ELSE {})
  BY <1>1, <1>5, Zenon
<1>8. ret' = [op |-> "Delete", i |-> i, value |-> IF valid /\ object \notin owned THEN object ELSE NULL]
  BY <1>1, <1>6, Zenon DEF List!Returns
<1> QED BY <1>2, <1>7, <1>8, Zenon DEF List!Refines!Delete, List!Refines!Returns, valid, object, owned

\* Clear destroys what the list owns, and forgets the rest.
LEMMA ClearRefines ==
  ASSUME ChainInv, List!Clear
  PROVE  ChainInv' /\ List!Refines!Clear
<1> DEFINE owned == IF AutoClean THEN Objects \ NoClean ELSE {}
           held == {List!Contents[k] : k \in DOMAIN List!Contents}
<1>1. /\ LastPos' = 0 /\ First' = NULL /\ count' = 0 /\ heap' = {}
      /\ next' = [e \in Nodes |-> NULL] /\ data' = [e \in Nodes |-> NULL]
      /\ destroyed' = destroyed \cup {x \in held : List!Destroys(x)}
      /\ List!Returns("Clear", 0, NULL)
  BY DEF List!Clear
<1>2. <<>> \in Seq(Nodes) /\ Len(<<>>) = 0 /\ 1..0 = {}
  OBVIOUS
<1>3. IsWalk(<<>>)'
  BY <1>1, <1>2 DEF IsWalk
<1>4. ChainStep(<<>>)
  BY <1>3, ChainSeen
<1>5. List!Contents' = <<>>
  <2>1. ObjectsOf(<<>>)' = <<>>
    BY <1>2 DEF ObjectsOf
  <2> QED BY <1>4, <2>1 DEF ChainStep
<1>6. ChainInv'
  BY <1>1, <1>3 DEF ChainInv
<1>7. held \subseteq Objects
  <2>1. PICK walk : IsWalk(walk)
    BY DEF ChainInv
  <2>2. DOMAIN List!Contents = 1..Len(walk) /\ \A k \in 1..Len(walk) : List!Contents[k] = data[walk[k]]
    BY <2>1, ContentsAreTheChain
  <2>3. \A k \in 1..Len(walk) : data[walk[k]] \in Objects
    BY <2>1 DEF IsWalk
  <2> QED BY <2>2, <2>3
<1>8. \A x \in Objects : List!Destroys(x) <=> x \in owned
  BY OwnedAreDestroyed
<1>9. {x \in held : List!Destroys(x)} = held \cap owned
  <2> HIDE DEF held, owned
  <2> QED BY <1>7, <1>8
<1>10. held = List!Refines!Ext!ToSet(List!Contents)
  BY Zenon DEF List!Refines!Ext!ToSet
<1> HIDE DEF held
<1> QED BY <1>1, <1>5, <1>6, <1>9, <1>10, Zenon DEF List!Refines!Clear, List!Refines!Returns, List!Returns

\* Item finds the object at the place, from First or from where it was, and remembers the node.
LEMMA ItemRefines ==
  ASSUME ChainInv, NEW i \in List!Indices, List!Item(i)
  PROVE  ChainInv' /\ List!Refines!Item(i)
<1>1. PICK walk : IsWalk(walk) /\ (LastPos # 0 => LastPos < Len(walk) /\ LastIterator = walk[LastPos + 1])
  BY DEF ChainInv
<1>2. /\ Len(walk) \in Nat /\ count = Len(walk) /\ i \in Int /\ LastPos \in Nat /\ walk \in Seq(Nodes)
      /\ \A k \in 1..Len(walk) : walk[k] # NULL
  <2>1. Len(walk) \in Nat /\ count = Len(walk) /\ walk \in Seq(Nodes)
    BY <1>1 DEF IsWalk
  <2>2. \A k \in 1..Len(walk) : walk[k] # NULL
    BY <2>1, ListConstants, ElementOfSeq
  <2>3. i \in Int /\ LastPos \in Nat
    BY ListConstants DEF List!Indices, ChainInv
  <2> QED BY <2>1, <2>2, <2>3
<1> DEFINE start == IF LastPos # 0 /\ i >= LastPos THEN List!Hop(LastIterator, i - LastPos)
                    ELSE List!NodeAt(i)
<1>3. start = Place(walk, i + 1)
  <2>1. CASE LastPos # 0 /\ i >= LastPos
    <3>1. /\ LastPos + 1 \in 1..Len(walk) /\ LastPos + 1 \in 1..(Len(walk) + 1) /\ i - LastPos \in Nat
          /\ (LastPos + 1) + (i - LastPos) = i + 1
      BY <1>1, <1>2, <2>1
    <3>2. LastIterator = Place(walk, LastPos + 1)
      BY <1>1, <2>1, <3>1 DEF Place
    <3>3. List!Hop(LastIterator, i - LastPos) = Place(walk, i + 1)
      BY <1>1, <3>1, <3>2, HopAlong
    <3> QED BY <2>1, <3>3
  <2>2. CASE ~(LastPos # 0 /\ i >= LastPos)
    <3>1. List!NodeAt(i) = Place(walk, i + 1)
      BY <1>1, <1>2, NodesAreFound
    <3> QED BY <2>2, <3>1
  <2> QED BY <2>1, <2>2
<1>4. /\ UNCHANGED <<First, count, heap, next, data, destroyed>>
      /\ IF i >= count \/ i < 0 \/ start = NULL
         THEN UNCHANGED <<LastPos, LastIterator>> /\ List!Returns("Item", i, NULL)
         ELSE LastPos' = i /\ LastIterator' = start /\ List!Returns("Item", i, data[start])
  BY DEF List!Item
<1> HIDE DEF start
<1>5. IsWalk(walk)' /\ ObjectsOf(walk)' = ObjectsOf(walk)
  BY <1>1, <1>4 DEF IsWalk, ObjectsOf
<1>6. List!Contents' = List!Contents
  <2>1. List!Contents = ObjectsOf(walk)
    BY <1>1, ContentsAreTheChain
  <2>2. ChainStep(walk)
    BY <1>5, ChainSeen
  <2> QED BY <1>5, <2>1, <2>2 DEF ChainStep
<1>7. List!Refines!Valid(i) <=> i >= 0 /\ i < count
  <2>1. List!Refines!Valid(i) <=> i \in 0..(count - 1)
    BY <1>2, ValidPlaces
  <2> QED BY <1>2, <2>1
<1>8. next' \in [Nodes -> Nodes \cup {NULL}] /\ data' \in [Nodes -> Objects \cup {NULL}]
  BY <1>4 DEF ChainInv
<1>9. CASE ~(i >= 0 /\ i < count)
  <2>1. i >= count \/ i < 0
    BY <1>2, <1>9
  <2>2. UNCHANGED <<LastPos, LastIterator>> /\ List!Returns("Item", i, NULL)
    BY <1>4, <2>1
  <2>3. ChainInv'
    BY <1>1, <1>2, <1>5, <1>8, <2>2 DEF ChainInv
  <2> QED BY <1>4, <1>6, <1>7, <1>9, <2>2, <2>3, Zenon DEF List!Refines!Item, List!Refines!Returns, List!Returns
<1>10. CASE i >= 0 /\ i < count
  <2>1. i + 1 \in 1..Len(walk) /\ i \in 0..(count - 1) /\ ~(i >= count \/ i < 0) /\ i \in Nat
    BY <1>2, <1>10
  <2>2. start = walk[i + 1] /\ start # NULL /\ start = List!NodeAt(i)
    BY <1>1, <1>2, <1>3, <2>1, NodesAreFound DEF Place
  <2>3. LastPos' = i /\ LastIterator' = start /\ List!Returns("Item", i, data[start])
    BY <1>4, <2>1, <2>2
  <2>4. ChainInv'
    <3>1. LastPos' \in Nat /\ LastPos' < Len(walk) /\ LastIterator' = walk[LastPos' + 1]
      BY <1>2, <1>10, <2>1, <2>2, <2>3
    <3> QED BY <1>5, <1>8, <3>1 DEF ChainInv
  <2>5. data[start] = List!Contents[i + 1]
    BY <2>1, <2>2, ValidPlaces
  <2>6. ret' = [op |-> "Item", i |-> i, value |-> List!Contents[i + 1]]
    BY <2>3, <2>5, Zenon DEF List!Returns
  <2> QED BY <1>4, <1>6, <1>7, <1>10, <2>4, <2>6, Zenon DEF List!Refines!Item, List!Refines!Returns
<1> QED BY <1>9, <1>10

\* A step of another part leaves the list alone.
LEMMA ChainUntouched ==
  ASSUME ChainInv, UNCHANGED list
  PROVE  ChainInv' /\ UNCHANGED List!Refines!vars
<1>1. UNCHANGED <<First, count, LastPos, LastIterator, heap, next, data, destroyed, ret>>
  BY DEF list
<1>2. PICK walk : IsWalk(walk) /\ (LastPos # 0 => LastPos < Len(walk) /\ LastIterator = walk[LastPos + 1])
  BY DEF ChainInv
<1>3. IsWalk(walk)' /\ ObjectsOf(walk)' = ObjectsOf(walk)
  BY <1>1, <1>2 DEF IsWalk, ObjectsOf
<1>4. ChainInv'
  BY <1>1, <1>2, <1>3 DEF ChainInv
<1>5. List!Contents = ObjectsOf(walk)
  BY <1>2, ContentsAreTheChain
<1>6. ChainStep(walk)
  BY <1>3, ChainSeen
<1>7. List!Contents' = List!Contents
  BY <1>3, <1>5, <1>6 DEF ChainStep
<1> QED BY <1>1, <1>4, <1>7, Zenon DEF List!Refines!vars

\* Every step of the list keeps the chain and is one of ObjectList.
LEMMA ListStep ==
  ASSUME ChainInv, List!Next
  PROVE  ChainInv' /\ List!Refines!Next
<1>1. Objects \ ({List!Contents[k] : k \in DOMAIN List!Contents} \cup destroyed) = List!Refines!Free
  BY Zenon DEF List!Refines!Free, List!Refines!Ext!ToSet
<1>2. \/ \E x \in List!Refines!Free, i \in List!Indices : List!Insert(x, i)
      \/ \E i \in List!Indices : List!Remove(i) \/ List!Delete(i) \/ List!Item(i)
      \/ List!Clear
  BY <1>1, Zenon DEF List!Next
<1>3. ASSUME NEW x \in List!Refines!Free, NEW i \in List!Indices, List!Insert(x, i)
      PROVE  ChainInv' /\ List!Refines!Next
  <2>1. x \in Objects
    BY <1>3, <1>1
  <2>2. ChainInv' /\ List!Refines!Insert(x, i)
    BY <1>3, <2>1, InsertRefines
  <2> QED BY <2>2, Zenon DEF List!Refines!Next
<1>4. ASSUME NEW i \in List!Indices, List!Remove(i) PROVE ChainInv' /\ List!Refines!Next
  <2>1. ChainInv' /\ List!Refines!Remove(i)
    BY <1>4, RemoveRefines
  <2> QED BY <2>1, Zenon DEF List!Refines!Next
<1>5. ASSUME NEW i \in List!Indices, List!Delete(i) PROVE ChainInv' /\ List!Refines!Next
  <2>1. ChainInv' /\ List!Refines!Delete(i)
    BY <1>5, DeleteRefines
  <2> QED BY <2>1, Zenon DEF List!Refines!Next
<1>6. ASSUME NEW i \in List!Indices, List!Item(i) PROVE ChainInv' /\ List!Refines!Next
  <2>1. ChainInv' /\ List!Refines!Item(i)
    BY <1>6, ItemRefines
  <2> QED BY <2>1, Zenon DEF List!Refines!Next
<1>7. ASSUME List!Clear PROVE ChainInv' /\ List!Refines!Next
  <2>1. ChainInv' /\ List!Refines!Clear
    BY <1>7, ClearRefines
  <2> QED BY <2>1, Zenon DEF List!Refines!Next
<1> QED BY <1>2, <1>3, <1>4, <1>5, <1>6, <1>7, Zenon

\* The list begins without a node.
LEMMA ListBegins == List!Init => ChainInv /\ List!Refines!Init
<1> SUFFICES ASSUME List!Init PROVE ChainInv /\ List!Refines!Init
  OBVIOUS
<1>1. /\ First = NULL /\ count = 0 /\ LastPos = 0 /\ heap = {} /\ destroyed = {}
      /\ next = [e \in Nodes |-> NULL] /\ data = [e \in Nodes |-> NULL]
      /\ ret = [op |-> "new", i |-> 0, value |-> NULL]
  BY DEF List!Init
<1>2. <<>> \in Seq(Nodes) /\ Len(<<>>) = 0 /\ 1..0 = {}
  OBVIOUS
<1>3. IsWalk(<<>>)
  BY <1>1, <1>2 DEF IsWalk
<1>4. ChainInv
  BY <1>1, <1>3 DEF ChainInv
<1>5. List!Contents = <<>>
  <2>1. ObjectsOf(<<>>) = <<>>
    BY <1>2 DEF ObjectsOf
  <2> QED BY <1>3, <2>1, ContentsAreTheChain
<1> QED BY <1>1, <1>4, <1>5, Zenon DEF List!Refines!Init

\* For any finite heap, any objects, and any of them the list does not destroy, AnsiList is to its
\* callers the sequence of ObjectList: whatever Item remembered, each of its operations changes
\* and returns what the sequence says, no node leaks, none is freed twice, and the node Item
\* remembers is the one at its place (IsObjectList).
THEOREM ListIsObjectList == PartsSpec => IsObjectList
<1>1. PartsInit => ChainInv /\ List!Refines!Init
  BY ListBegins, Zenon DEF PartsInit
<1>2. ChainInv /\ [PartsNext]_parts =>
        ChainInv' /\ [part = "list" => [List!Refines!Next]_<<List!Refines!vars>>]_parts
  <2> SUFFICES ASSUME ChainInv, [PartsNext]_parts
               PROVE  ChainInv' /\ (part = "list" => List!Refines!Next \/ UNCHANGED List!Refines!vars)
    OBVIOUS
  <2>1. CASE part = "list" /\ List!Next
    BY <2>1, ListStep
  <2>2. CASE UNCHANGED list
    BY <2>2, ChainUntouched
  <2>3. (part = "list" /\ List!Next) \/ UNCHANGED list
    BY Zenon DEF PartsNext, parts
  <2> QED BY <2>1, <2>2, <2>3
<1>3. ChainInv => (part = "list" => List!TypeOK /\ List!IteratorIsFresh)
  BY ChainIsSound
<1> QED BY <1>1, <1>2, <1>3, PTL DEF PartsSpec, IsObjectList

-----------------------------------------------------------------------------
(* The two bytes before a packet of an AudioObject.                         *)

\* A length of at most 0xC0 is the byte itself (OpusBuffer2, OpusDeBuffer).
LEMMA ShortLengths == ASSUME NEW s \in 1..Opus!ShortLimit PROVE Opus!LengthRead(s) = s
BY SMT DEF Opus!LengthRead, Opus!FirstByte, Opus!ShortLimit

\* The multiples of 0x3F fit the first byte as long as the packet has less than 0x1000
\* bytes (OpusBuffer2).
LEMMA FirstByteFits ==
  ASSUME NEW s \in Opus!Lengths, s > Opus!ShortLimit
  PROVE  Opus!FirstByte(s) = Opus!ShortLimit + s \div Opus!Base /\ Opus!FirstByte(s) > Opus!ShortLimit
<1>1. s \div 63 \in 3..63  BY SMT DEF Opus!ShortLimit, Opus!Lengths
<1>2. (192 + s \div 63) % 256 = 192 + s \div 63  BY <1>1, SMT
<1>3. Opus!FirstByte(s) = 192 + s \div 63
  BY <1>2, SMT DEF Opus!FirstByte, Opus!Lengths, Opus!ShortLimit, Opus!Base, Opus!Byte
<1> QED  BY <1>1, <1>3, SMT DEF Opus!ShortLimit, Opus!Base

\* The length that OpusDeBuffer reads is the one OpusBuffer2 wrote exactly for the packets
\* of up to 255 bytes: the cast to an unsigned char comes before the remainder.
THEOREM LengthsAreRead == \A s \in Opus!Lengths : (Opus!LengthRead(s) = s) <=> (s <= Opus!LengthLimit)
<1> TAKE s \in Opus!Lengths
<1>1. CASE s <= Opus!ShortLimit
  BY <1>1, ShortLengths, SMT DEF Opus!Lengths, Opus!ShortLimit, Opus!LengthLimit
<1>2. CASE ~(s <= Opus!ShortLimit)
  <2> s > Opus!ShortLimit  BY <1>2, SMT DEF Opus!Lengths, Opus!ShortLimit
  <2>1. Opus!FirstByte(s) = Opus!ShortLimit + s \div Opus!Base /\ Opus!FirstByte(s) > Opus!ShortLimit
    BY FirstByteFits
  <2>2. Opus!LengthRead(s) = ((s \div 63) * 63) + ((s % 256) % 63)
    BY <2>1, SMT DEF Opus!Lengths, Opus!LengthRead, Opus!SecondByte, Opus!ShortLimit, Opus!Base, Opus!Byte
  <2>3. s = ((s \div 63) * 63) + (s % 63)  BY SMT DEF Opus!Lengths
  <2>4. CASE s <= Opus!LengthLimit
    BY <2>2, <2>3, <2>4, SMT DEF Opus!Lengths, Opus!LengthLimit
  <2>5. CASE ~(s <= Opus!LengthLimit)
    \* 256 is 4 more than a multiple of 63.
    <3>1. PICK k \in 1..15, r \in 0..255 : s = 256 * k + r
      <4>1. s \div 256 \in 1..15 /\ s % 256 \in 0..255 /\ s = (256 * (s \div 256)) + (s % 256)
        BY <2>5, SMT DEF Opus!Lengths, Opus!LengthLimit
      <4> QED  BY <4>1
    <3>2. s % 256 = r  BY <3>1, SMT
    <3>3. s % 63 # r % 63
      <4>1. PICK q \in 0..4, t \in 0..62 : r = 63 * q + t
        BY r = (63 * (r \div 63)) + (r % 63), r \div 63 \in 0..4, r % 63 \in 0..62, SMT
      <4>2. r % 63 = t  BY <4>1, SMT
      <4>3. s = 63 * (4 * k + q) + (4 * k + t)  BY <3>1, <4>1, SMT
      <4>4. s % 63 = (4 * k + t) % 63  BY <4>3, SMT
      <4>5. (4 * k + t) % 63 # t  BY SMT
      <4> QED  BY <4>2, <4>4, <4>5
    <3> QED  BY <2>2, <2>3, <2>5, <3>2, <3>3, SMT DEF Opus!Lengths
  <2> QED  BY <2>4, <2>5
<1> QED  BY <1>1, <1>2
-----------------------------------------------------------------------------
(* The semaphore of semhh.h is a lock for any number of threads.  What makes the argument go
   through is a token: the one thread that is inside has it, or the one that left and has yet to
   signal. *)

\* Who was let through, or is to let somebody through.
Token == Inside \cup signalling

\* There is one token, and while it is out the counter is not positive: a thread that
\* finds the counter positive finds nobody inside.
LockInv ==
  /\ TypeOK
  /\ signalling \cap past = {}
  /\ v <= 1
  /\ Token # {} => v <= 0
  /\ \A t, u \in Token : t = u

\* It holds while nobody has come to the lock.
LEMMA LockInitInv == Init => LockInv
  BY DEF Init, SemInit, LockInv, TypeOK, SemTypeOK, Token, Inside

\* A call of semp takes the token if the counter was positive, and waits otherwise.
LEMMA LockEnterInv ==
  ASSUME LockInv, NEW t \in Threads, Enter(t)
  PROVE  LockInv' /\ (TheMutex!Enter(t) \/ Inside' = Inside)
<1>1. CASE v = 1
  <2>1. waiting' = waiting /\ signalling' = signalling /\ v' = 0 /\ past' = past \cup {t}
    BY <1>1 DEF Enter, semp, LockInv, TypeOK, SemTypeOK
  <2>2. Token = {}
    BY <1>1 DEF LockInv
  <2>3. t \notin waiting /\ Inside' = {t} /\ Inside = {} /\ signalling' = {}
    BY <2>1, <2>2 DEF Inside, Token, Enter, semp, Runs
  <2>4. Token' = {t}
    BY <2>3 DEF Token
  <2> QED
    BY <2>1, <2>3, <2>4 DEF LockInv, TypeOK, SemTypeOK, TheMutex!Enter
<1>2. CASE v # 1
  <2>1. v \in Int /\ v <= 0
    BY <1>2 DEF LockInv, TypeOK, SemTypeOK
  <2>2. waiting' = waiting \cup {t} /\ signalling' = signalling /\ v' = v - 1
        /\ past' = past \cup {t} /\ t \notin past /\ t \notin signalling
    BY <2>1 DEF Enter, semp, Runs
  <2>3. Inside' = Inside /\ Token' = Token
    BY <2>2 DEF Inside, Token
  <2> QED
    BY <2>1, <2>2, <2>3 DEF LockInv, TypeOK, SemTypeOK
<1> QED
  BY <1>1, <1>2

\* semv hands the token to the condition, or gives it back to the counter.
LEMMA LockLeaveInv ==
  ASSUME LockInv, NEW t \in Threads, Leave(t)
  PROVE  LockInv' /\ TheMutex!Leave(t)
<1>1. t \in Inside /\ t \in Token /\ Token = {t} /\ v \in Int /\ v <= 0
  BY DEF Leave, semv, Runs, Inside, Token, LockInv, TypeOK, SemTypeOK
<1>2. v' = v + 1 /\ waiting' = waiting /\ past' = past \ {t} /\ Inside' = Inside \ {t}
  BY DEF Leave, semv, Inside
<1>3. Inside' = {} /\ signalling = {} /\ t \notin waiting
  BY <1>1, <1>2 DEF Token, Inside, LockInv
<1>4. CASE v < 0
  <2>1. signalling' = {t}
    BY <1>3, <1>4 DEF Leave, semv
  <2> QED
    BY <1>1, <1>2, <1>3, <1>4, <2>1 DEF LockInv, TypeOK, SemTypeOK, Token, TheMutex!Leave
<1>5. CASE v = 0
  <2>1. signalling' = {}
    BY <1>3, <1>5 DEF Leave, semv
  <2> QED
    BY <1>1, <1>2, <1>3, <1>5, <2>1 DEF LockInv, TypeOK, SemTypeOK, Token, TheMutex!Leave
<1> QED
  BY <1>1, <1>4, <1>5

\* The signal hands it to one that waits; if nobody waited it would be gone.
LEMMA LockSignalInv ==
  ASSUME LockInv, NEW t \in Threads, Signalled(t)
  PROVE  LockInv' /\ (Inside' = Inside \/ \E w \in Threads : TheMutex!Enter(w))
<1>1. t \in Token /\ Token = {t} /\ v <= 0 /\ v \in Int /\ Inside = {} /\ signalling = {t}
  BY DEF Signalled, Signal, Token, Inside, LockInv, TypeOK, SemTypeOK
<1>2. signalling' = {} /\ v' = v /\ past' = past
  BY <1>1 DEF Signalled, Signal
<1>3. CASE waiting = {}
  <2>1. waiting' = {}
    BY <1>3 DEF Signalled, Signal
  <2>2. Inside' = Inside /\ Token' = {}
    BY <1>1, <1>2, <1>3, <2>1 DEF Inside, Token
  <2> QED
    BY <1>1, <1>2, <2>1, <2>2 DEF LockInv, TypeOK, SemTypeOK
<1>4. CASE waiting # {}
  <2>1. PICK w \in waiting : waiting' = waiting \ {w}
    BY <1>4 DEF Signalled, Signal
  <2>2. w \in Threads /\ w \in past
    BY DEF LockInv, TypeOK, SemTypeOK
  <2>3. Inside' = {w} /\ Token' = {w}
    BY <1>1, <1>2, <2>1, <2>2 DEF Inside, Token
  <2> QED
    BY <1>1, <1>2, <2>1, <2>2, <2>3 DEF LockInv, TypeOK, SemTypeOK, TheMutex!Enter
<1> QED
  BY <1>3, <1>4

\* Every step keeps the invariant and is a step of the lock or none.
LEMMA LockStepInv ==
  ASSUME ~Spurious, LockInv, [Next]_vars
  PROVE  LockInv' /\ [TheMutex!Next]_Inside
<1>1. CASE UNCHANGED vars
  BY <1>1 DEF vars, sem, LockInv, TypeOK, SemTypeOK, Token, Inside
<1>2. ASSUME NEW t \in Threads, Enter(t) PROVE LockInv' /\ [TheMutex!Next]_Inside
  BY <1>2, LockEnterInv DEF TheMutex!Next
<1>3. ASSUME NEW t \in Threads, Leave(t) PROVE LockInv' /\ [TheMutex!Next]_Inside
  BY <1>3, LockLeaveInv DEF TheMutex!Next
<1>4. ASSUME NEW t \in Threads, Signalled(t) PROVE LockInv' /\ [TheMutex!Next]_Inside
  BY <1>4, LockSignalInv DEF TheMutex!Next
<1>5. ASSUME NEW t \in Threads, Woken(t) PROVE FALSE
  BY <1>5 DEF Woken, Wakeup
<1> QED
  BY <1>1, <1>2, <1>3, <1>4, <1>5 DEF Next

\* TypeOK holds of every behaviour, also with wakeups that nobody signalled.
THEOREM TypeCorrect == Spec => []TypeOK
<1>1. Init => TypeOK
  BY LockInitInv DEF LockInv
<1>2. TypeOK /\ [Next]_vars => TypeOK'
  BY DEF TypeOK, SemTypeOK, Next, vars, sem, Enter, Leave, Signalled, Woken, semp, semv, Signal,
         Wakeup, Runs
<1> QED
  BY <1>1, <1>2, PTL DEF Spec

\* As long as pthread_cond_wait returns only when it was signalled, semp and semv are
\* a lock for any set of threads: never two are inside (IsMutex).
THEOREM LockIsMutex ==
  ASSUME ~Spurious
  PROVE  Spec => IsMutex
<1>1. Init => LockInv /\ TheMutex!Init
  BY LockInitInv DEF Init, SemInit, Inside, TheMutex!Init
<1>2. LockInv /\ [Next]_vars => LockInv' /\ [TheMutex!Next]_Inside
  BY LockStepInv
<1> QED
  BY <1>1, <1>2, PTL DEF Spec, IsMutex, TheMutex!Spec

\* What the counter counts, for a finite set of threads.
Counted ==
  /\ v = 1 => waiting = {} /\ signalling = {}
  /\ v <= 0 => Cardinality(waiting) = Cardinality(signalling) - v

\* Every step keeps the count.
LEMMA CountedStep ==
  ASSUME ~Spurious, IsFiniteSet(Threads), LockInv, Counted, [Next]_vars
  PROVE  Counted'
<1>1. /\ IsFiniteSet(waiting) /\ IsFiniteSet(signalling)
      /\ Cardinality(waiting) \in Nat /\ Cardinality(signalling) \in Nat
      /\ v \in Int /\ v <= 1
  BY FS_Subset, FS_CardinalityType DEF LockInv, TypeOK, SemTypeOK
<1>2. CASE UNCHANGED vars
  BY <1>2 DEF vars, sem, Counted
<1>3. ASSUME NEW t \in Threads, Enter(t) PROVE Counted'
  <2>1. signalling' = signalling /\ v' = v - 1 /\ t \notin waiting
    BY <1>3 DEF Enter, semp, Runs
  <2>2. CASE v = 1
    BY <1>1, <1>3, <2>1, <2>2, FS_EmptySet DEF Enter, semp, Counted
  <2>3. CASE v <= 0
    <3>1. waiting' = waiting \cup {t}
      BY <1>1, <1>3, <2>3 DEF Enter, semp
    <3>2. Cardinality(waiting') = Cardinality(waiting) + 1
      BY <1>1, <2>1, <3>1, FS_AddElement
    <3> QED
      BY <1>1, <2>1, <2>3, <3>2 DEF Counted
  <2> QED
    BY <1>1, <2>2, <2>3
<1>4. ASSUME NEW t \in Threads, Leave(t) PROVE Counted'
  <2>1. /\ waiting' = waiting /\ v' = v + 1
        /\ signalling = {} /\ v <= 0 /\ Cardinality(signalling) = 0
    BY <1>4, FS_EmptySet DEF Leave, semv, Runs, LockInv, Token, Inside
  <2>2. CASE v < 0
    <3>1. signalling' = {t} /\ Cardinality(signalling') = 1
      BY <1>4, <2>1, <2>2, FS_Singleton DEF Leave, semv
    <3> QED
      BY <1>1, <2>1, <2>2, <3>1 DEF Counted
  <2>3. CASE v = 0
    <3>1. signalling' = {} /\ Cardinality(waiting) = 0
      BY <1>1, <1>4, <2>1, <2>3 DEF Leave, semv, Counted
    <3>2. waiting = {}
      BY <1>1, <3>1, FS_EmptySet
    <3> QED
      BY <1>1, <2>1, <2>3, <3>1, <3>2 DEF Counted
  <2> QED
    BY <1>1, <2>1, <2>2, <2>3
<1>5. ASSUME NEW t \in Threads, Signalled(t) PROVE Counted'
  <2>1. signalling = {t} /\ signalling' = {} /\ v' = v /\ v <= 0
    BY <1>5 DEF Signalled, Signal, LockInv, Token
  <2>2. Cardinality(signalling) = 1 /\ Cardinality(signalling') = 0
    BY <2>1, FS_Singleton, FS_EmptySet
  <2>3. Cardinality(waiting) = 1 - v
    BY <2>1, <2>2 DEF Counted
  <2>4. waiting # {}
    BY <1>1, <2>1, <2>3, FS_EmptySet
  <2>5. PICK w \in waiting : waiting' = waiting \ {w}
    BY <1>5, <2>4 DEF Signalled, Signal
  <2>6. Cardinality(waiting') = Cardinality(waiting) - 1
    BY <1>1, <2>5, FS_RemoveElement
  <2> QED
    BY <1>1, <2>1, <2>2, <2>3, <2>6 DEF Counted
<1>6. ASSUME NEW t \in Threads, Woken(t) PROVE Counted'
  BY <1>6 DEF Woken, Wakeup
<1> QED
  BY <1>2, <1>3, <1>4, <1>5, <1>6 DEF Next

\* However many threads there are, as many wait as are to be signalled: none of them
\* waits for a signal that nobody will send (WaitersAreCounted).
THEOREM WaitersCounted ==
  ASSUME ~Spurious, IsFiniteSet(Threads)
  PROVE  Spec => []WaitersAreCounted
<1>1. Init => LockInv /\ Counted
  BY LockInitInv DEF Init, SemInit, Counted
<1>2. LockInv /\ Counted /\ [Next]_vars => LockInv' /\ Counted'
  BY LockStepInv, CountedStep
<1>3. Counted => WaitersAreCounted
  BY DEF Counted, WaitersAreCounted
<1> QED
  BY <1>1, <1>2, <1>3, PTL DEF Spec
=============================================================================
