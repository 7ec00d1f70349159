----------------------------- MODULE MCThreads -----------------------------
(***************************************************************************)
(* The parts of the client in which threads meet, side by side for TLC: a    *)
(* lock, the commands of the operating system, the sockets of a connection,  *)
(* the change to TLS, the list that carries their messages, and sound between *)
(* the server and the devices.  The parts share no variable but the           *)
(* semaphore, so each behaviour is one of one part, and the others stay as    *)
(* they began.                                                               *)
(***************************************************************************)
EXTENDS Lock, Sequences

CONSTANTS
  UI, MaxFrames,                   \* Commands
  Descriptors, Addresses, Retries, MaxLosses, MaxFiles,  \* Connection
  ServerFrames, UserMessages,      \* Tls
  Nodes, Objects, NoClean, AutoClean, MaxIndex, NULL  \* AnsiList

VARIABLES
  part,  \* the part that moves
  \* Commands
  ui, n, command, run_target, thread, runs, ShellList, woken, late,
  \* Connection
  pc, ipv6, left, socket, CLIENT_SOCKET, SessionID, REMOTE_PUBLIC_KEY, En, tries, losses, opened,
  sockets, files, refused, timedOut, harmed, unsent,
  \* Tls
  tls, worker, layer, in_ssl_neg, ssl, MessageStack, toServer, toClient, server, frames, messages,
  stolen, crossed, waited, gaveUp, talked,
  \* AnsiList
  First, count, LastPos, LastIterator, heap, next, data, destroyed, ret,
  \* Audio
  captured, recording, encrypt, propagation, sent, lost, wire, playing, decrypt, audio_buf, played,
  drm, distorted, why, orders, crashed

\* Four frames; a semp may return without a signal, and threads may be slow to start.
Cmd == INSTANCE Commands WITH Spurious <- TRUE, Slow <- TRUE

\* A name with two addresses; connections are refused, time out, break off and are lost.
Conn == INSTANCE Connection

\* The server sends frames and the user messages, also around the handshake.
Layers == INSTANCE Tls WITH ui <- tls, MaxFrames <- ServerFrames, MaxMessages <- UserMessages

\* Objects go into the list and come out of it, at every index and beyond.
List == INSTANCE AnsiList

\* A block is one sample, or two packets and the rest of the next; packets may be longer than
\* a byte can tell.
Opus == INSTANCE Audio WITH
  Codec <- "opus", FrameSize <- 2, Blocks <- {1, 6}, Sizes <- {2, 193, 256}, MaxBuffers <- 0,
  MaxSamples <- 7, MaxOrders <- 4

\* The player holds one buffer.
Limited == INSTANCE Audio WITH
  Codec <- "opus", FrameSize <- 1, Blocks <- {1, 2}, Sizes <- {1, 192}, MaxBuffers <- 1,
  MaxSamples <- 4, MaxOrders <- 4

\* A block may be too small for a frame.
Speex == INSTANCE Audio WITH
  Codec <- "speex", FrameSize <- 2, Blocks <- {1, 2, 3}, Sizes <- {1}, MaxBuffers <- 1,
  MaxSamples <- 6, MaxOrders <- 4

Pcm == INSTANCE Audio WITH
  Codec <- "pcm", FrameSize <- 1, Blocks <- {1, 2}, Sizes <- {1}, MaxBuffers <- 1,
  MaxSamples <- 4, MaxOrders <- 4

ASSUME PartsAssumption ==
  /\ Cmd!CommandsAssumption /\ Conn!ConnectionAssumption /\ Layers!TlsAssumption
  /\ List!ListAssumption /\ Opus!AudioAssumption /\ Limited!AudioAssumption
  /\ Speex!AudioAssumption /\ Pcm!AudioAssumption

commands == <<ui, n, command, run_target, thread, runs, ShellList, woken, late>>
connection ==
  <<pc, ipv6, left, socket, CLIENT_SOCKET, SessionID, REMOTE_PUBLIC_KEY, En, tries, losses, opened,
    sockets, files, refused, timedOut, harmed, unsent>>
layers ==
  <<tls, worker, layer, in_ssl_neg, ssl, MessageStack, toServer, toClient, server, frames, messages,
    stolen, crossed, waited, gaveUp, talked>>
list == <<First, count, LastPos, LastIterator, heap, next, data, destroyed, ret>>
audio ==
  <<captured, recording, encrypt, propagation, sent, lost, wire, playing, decrypt, audio_buf, played,
    drm, distorted, why, orders, crashed>>
parts == <<part, sem, past, commands, connection, layers, list, audio>>

sounds == {"opus", "limited", "speex", "pcm"}

PartsInit ==
  /\ part \in {"lock", "commands", "connection", "tls", "list", "opus", "limited", "speex", "pcm"}
  /\ Init /\ Cmd!Init /\ Conn!Init /\ Layers!Init /\ List!Init /\ Opus!Init
  /\ ipv6 => part = "connection"
  /\ drm => part \in sounds

\* A connection that is given up, a server that is confused, a list whose objects are all
\* destroyed: these may stop. A lock and a handler may not.
PartsNext ==
  /\ UNCHANGED part
  /\ \/ part = "lock" /\ Next /\ UNCHANGED <<commands, connection, layers, list, audio>>
     \/ part = "commands" /\ Cmd!Next /\ UNCHANGED <<past, connection, layers, list, audio>>
     \/ part = "connection" /\ Conn!Next /\ UNCHANGED <<sem, past, commands, layers, list, audio>>
     \/ part = "tls" /\ Layers!Next /\ UNCHANGED <<sem, past, commands, connection, list, audio>>
     \/ part = "list" /\ List!Next /\ UNCHANGED <<sem, past, commands, connection, layers, audio>>
     \/ /\ \/ part = "opus" /\ Opus!Next
           \/ part = "limited" /\ Limited!Next
           \/ part = "speex" /\ Speex!Next
           \/ part = "pcm" /\ Pcm!Next
        /\ UNCHANGED <<sem, past, commands, connection, layers, list>>
     \/ part \notin {"lock", "commands"} /\ UNCHANGED parts

PartsSpec == PartsInit /\ [][PartsNext]_parts

-----------------------------------------------------------------------------
\* Every command that runs is the one its frame asked for, and its string is there while
\* it is copied, unless a semp returned without a signal; between two frames the lock is
\* free, however the two semp and the two semv followed each other (Execute,
\* CommandThread, NewApplication, ThreadSHELL).
EachRunsItsOwn ==
  part = "commands" => Cmd!TypeOK /\ Cmd!EachRunsItsOwn /\ Cmd!LockIsFree

\* Whatever attempt to connect fails, and where, no descriptor of another thread is
\* closed, no socket stays open beside the one in use, and that one is open, with the
\* exceptions connect2 makes after a refusal and a timeout; frames are encrypted with the
\* key that was sent to the server, unless a session was restored before the first frame
\* (Connect, CheckReconnect).
ConnectionsAreSound ==
  /\ Conn!TypeOK /\ Conn!ClosesItsOwn /\ Conn!NoSocketIsLost /\ Conn!ConnectedIsOpen
  /\ Conn!ServerHasTheKey

\* The two threads change to TLS at the same place of the stream, none takes bytes of the
\* other, and the worker takes no connection for broken that is not, with the exceptions
\* named in Tls (InitTLS, Recv, Send).
LayersAgree ==
  Layers!TypeOK /\ Layers!ServerUnderstands /\ Layers!NothingIsStolen /\ Layers!AlarmIsExplained

\* Each captured sample is sent, waits for a whole frame or was given up for a reason named in
\* Audio; what is played keeps its order, none of it twice; noise comes of what could not be
\* decrypted or lost its last byte, and silence of that or of a length that is written or
\* read wrong (AudioObject).
SoundIsAccountedFor ==
  /\ part = "opus" => Opus!Sound
  /\ part = "limited" => Limited!Sound
  /\ part = "speex" => Speex!Sound
  /\ part = "pcm" => Pcm!Sound

\* Behind its chain of nodes AnsiList is a sequence that owns objects, whatever Item
\* remembers: each of its steps is one of ObjectList, or none.  No node leaks or is freed
\* twice, and Item remembers none that is gone or moved.
IsObjectList ==
  /\ List!Refines!Init
  /\ [][part = "list" => [List!Refines!Next]_<<List!Refines!vars>>]_parts
  /\ [](part = "list" => List!TypeOK /\ List!IteratorIsFresh)
=============================================================================
