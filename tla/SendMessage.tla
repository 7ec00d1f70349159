---------------------------- MODULE SendMessage ----------------------------
(***************************************************************************)
(* send_message (messages.cpp): how one message becomes a frame on the      *)
(* connection.  SerializeBuffer lays the frame out, a big frame goes out in  *)
(* chunks under a progress box, a file is read while it is sent, and a       *)
(* realtime frame goes out as a datagram.  Bytes are counted, not spelled.   *)
(* The worker thread is the only one that runs this code.                   *)
(***************************************************************************)
EXTENDS Integers, Sequences

CONSTANTS
  BIG_MESSAGE,  \* frames of this size are sent in chunks
  CHUNK_SIZE,   \* bytes of a chunk
  RBUF_SIZE,    \* bytes read from a file at a time
  Messages,     \* the messages callers put on MessageStack
  Secured,      \* whether Connect agreed on a key (REMOTE_PUBLIC_KEY)
  Realtime,     \* whether P2P or UDP was set up (RTSOCKET, serveraddr)
  Drift,        \* by how much an open file may grow or shrink
  MaxSends      \* bound: messages sent in a run

\* owner is the sender as a number, olen its length as text, tlen and vlen the
\* lengths of target and value; the value of a file is what the file holds.  A file that
\* cannot be opened goes out like an empty one; that its name is then copied past the end
\* of the frame's buffer (SerializeBuffer) is not modelled.
Message == [kind : {"event", "file", "data"}, owner : Nat, olen : Nat, tlen : Nat, vlen : Nat]

ASSUME SizeAssumption ==
  /\ BIG_MESSAGE \in Nat \ {0} /\ CHUNK_SIZE \in Nat \ {0} /\ RBUF_SIZE \in Nat \ {0}
  /\ CHUNK_SIZE <= BIG_MESSAGE
  /\ Messages \subseteq Message
  /\ Secured \in BOOLEAN /\ Realtime \in BOOLEAN
  /\ Drift \subseteq Int
  /\ MaxSends \in Nat

VARIABLES
  pc,         \* where send_message is: "idle" between two messages
  job,        \* the message it is sending
  i,          \* chunks sent
  left,       \* bytes of the open file not read yet
  RTSOCKET,   \* whether the realtime socket is open
  box,        \* the progress box of BigMessageNotify
  broken,     \* the connection is down
  owed,       \* bytes the server still expects of the frame it is reading
  garbled,    \* the server took the bytes of one frame for another's
  decoded,    \* what the server made of the frames it read
  sent,       \* history: the messages sent over TCP, and whether the file changed
  datagrams   \* history: the realtime messages and what sendto did with them

vars == <<pc, job, i, left, RTSOCKET, box, broken, owed, garbled, decoded, sent, datagrams>>

-----------------------------------------------------------------------------
(* SerializeBuffer *)

\* An event without target from a numbered sender gets a header of four bytes.
Compressed(m) ==
  m.kind = "event" /\ ~Secured /\ 0 < m.vlen /\ m.vlen <= 40959 /\ m.owner <= 4095

\* With a key the file is read into the frame, otherwise it follows it.
Follows(m) == m.kind = "file" /\ ~Secured

\* Any other event is sent with the target "350".
TargetLength(m) == IF m.kind = "event" THEN 3 ELSE m.tlen

in_content_size(m) ==
  IF Compressed(m) THEN m.vlen
  ELSE 7 + m.olen + TargetLength(m) + (IF Follows(m) THEN 0 ELSE m.vlen)

\* AES_encrypt: five bytes in front, the rest padded to blocks of 16.
Encrypted(n) == 5 + 16 * ((n + 15) \div 16)

\* What send_message cuts in chunks, and the size it announces.
content(m) == IF Secured THEN Encrypted(in_content_size(m)) ELSE in_content_size(m)
size_n(m) == content(m) + (IF Follows(m) THEN m.vlen ELSE 0)

\* The header word: its upper four bits, and the 28 below.
HeaderRange == 268435456

Header(m) ==
  IF Compressed(m) THEN [top |-> 15, rest |-> 65536 * m.owner + m.vlen]
                   ELSE [top |-> size_n(m) \div HeaderRange, rest |-> size_n(m) % HeaderRange]

Big(m) == size_n(m) >= BIG_MESSAGE

-----------------------------------------------------------------------------
(* The peer, which reads frames as get_message does *)

Announced(m) ==
  LET h == Header(m) IN
  IF Secured THEN size_n(m) ELSE IF h.top # 0 THEN h.rest % 65536 ELSE h.rest

\* What a receiver is to find in the frame of m.
Delivered(m) ==
  [kind |-> m.kind, owner |-> m.owner, olen |-> m.olen, tlen |-> TargetLength(m), vlen |-> m.vlen]

\* DeSerializeBuffer.  The length of the owner is one byte, that of the target
\* two; an owner cut short leaves the message id to be read from its text.
Decode(m) ==
  LET h           == Header(m)
      target_size == TargetLength(m) % 65536
  IN
  IF ~Secured /\ h.top # 0
  THEN [kind |-> "event", owner |-> h.rest \div 65536, olen |-> m.olen, tlen |-> 3,
        vlen |-> h.rest % 65536]
  ELSE [kind |-> IF m.olen % 256 = m.olen THEN m.kind ELSE "garbage",
        owner |-> m.owner, olen |-> m.olen % 256, tlen |-> target_size,
        vlen |-> m.vlen + (m.olen - (m.olen % 256)) + (TargetLength(m) - target_size)]

-----------------------------------------------------------------------------
Init ==
  /\ pc = "idle" /\ job \in Messages /\ i = 0 /\ left = 0   \* job does not matter yet
  /\ RTSOCKET = Realtime
  /\ box = "none"
  /\ broken = FALSE /\ owed = 0 /\ garbled = FALSE
  /\ decoded = <<>> /\ sent = <<>> /\ datagrams = <<>>

\* session_send of n more bytes of the frame of m, of which the server expects o.
Put(m, o, n) ==
  /\ owed' = IF o >= n THEN o - n ELSE 0
  /\ garbled' = (garbled \/ o < n)
  /\ decoded' = IF o = n /\ n > 0 /\ ~garbled THEN Append(decoded, Decode(m)) ELSE decoded

\* A header in the middle of a frame is taken for its bytes.
PutHeader(m, n) ==
  IF owed # 0 THEN garbled' = TRUE /\ UNCHANGED <<owed, decoded>>
              ELSE Put(m, Announced(m), n)

Lost == UNCHANGED <<owed, garbled, decoded>>

\* notify_parent: -1 shows the box, 101 takes it away.
Show == box' = "shown"
Hide == box' = "none"

-----------------------------------------------------------------------------
GoesRealtime(m) == RTSOCKET /\ Compressed(m) /\ m.vlen <= 65000

\* A frame sendto refuses as too long is not sent at all; any error but that
\* one closes the socket.
SendDatagram(m) ==
  /\ pc = "idle" /\ GoesRealtime(m)
  /\ Len(sent) + Len(datagrams) < MaxSends
  /\ \E outcome \in {"sent", "EMSGSIZE", "error"} :
       /\ datagrams' = Append(datagrams, [m |-> m, outcome |-> outcome])
       /\ RTSOCKET' = (outcome # "error")
  /\ UNCHANGED <<pc, job, i, left, box, broken, owed, garbled, decoded, sent>>

\* The call up to its first session_send.  The result of the one that sends a
\* header alone is not looked at.
SendMessage(m) ==
  /\ pc = "idle" /\ ~GoesRealtime(m)
  /\ Len(sent) + Len(datagrams) < MaxSends
  /\ job' = m /\ i' = 0
  /\ left' = IF Follows(m) THEN m.vlen ELSE 0
  /\ sent' = Append(sent, [m |-> m, changed |-> FALSE])
  /\ IF broken THEN Lost ELSE PutHeader(m, IF Big(m) THEN 0 ELSE content(m))
  /\ IF Big(m) THEN pc' = "chunks" /\ Show
     ELSE pc' = (IF Follows(m) THEN "file" ELSE "idle") /\ UNCHANGED box
  /\ UNCHANGED <<RTSOCKET, broken, datagrams>>

Chunks == content(job) \div CHUNK_SIZE + (IF content(job) % CHUNK_SIZE # 0 THEN 1 ELSE 0)

\* Mutant: the last chunk is one of the others.
FullChunk == CHUNK_SIZE

\* The last chunk is what is left over.
chunk_size == IF i < Chunks - 1 THEN CHUNK_SIZE ELSE content(job) % CHUNK_SIZE

SendChunk ==
  /\ pc = "chunks" /\ i < Chunks
  /\ ~broken \/ chunk_size = 0
  /\ Put(job, owed, chunk_size)
  /\ i' = i + 1
  /\ UNCHANGED <<pc, job, left, RTSOCKET, box, broken, sent, datagrams>>

\* The box is shown again, with the status of a failure; then it is taken away
\* for the file is closed, unless the frame is encrypted.
ChunkFails ==
  /\ pc = "chunks" /\ i < Chunks
  /\ broken /\ chunk_size # 0
  /\ pc' = "idle"
  /\ IF Secured THEN Show ELSE Hide
  /\ UNCHANGED <<job, i, left, RTSOCKET, broken, owed, garbled, decoded, sent, datagrams>>

\* Mutant: the box stays.
LastChunkShowing ==
  /\ pc = "chunks" /\ i = Chunks
  /\ pc' = IF Follows(job) THEN "file" ELSE "idle"
  /\ UNCHANGED <<job, i, left, RTSOCKET, box, broken, owed, garbled, decoded, sent, datagrams>>

LastChunk ==
  /\ pc = "chunks" /\ i = Chunks
  /\ pc' = IF Follows(job) THEN "file" ELSE "idle"
  /\ IF Secured \/ Follows(job) THEN UNCHANGED box ELSE Hide
  /\ UNCHANGED <<job, i, left, RTSOCKET, broken, owed, garbled, decoded, sent, datagrams>>

-----------------------------------------------------------------------------
\* Mutant: the size of the buffer instead of what fread returned.
WholeBuffer == RBUF_SIZE

block == IF left < RBUF_SIZE THEN left ELSE RBUF_SIZE

\* The loop that copies the file ends with the first block that is not full.
SendBlock ==
  /\ pc = "file"
  /\ ~broken \/ block = 0
  /\ IF block = 0 THEN Lost ELSE Put(job, owed, block)
  /\ left' = left - block
  /\ IF block = RBUF_SIZE THEN UNCHANGED <<pc, box>>
     ELSE pc' = "idle" /\ IF Big(job) THEN Hide ELSE UNCHANGED box
  /\ UNCHANGED <<job, i, RTSOCKET, broken, sent, datagrams>>

BlockFails ==
  /\ pc = "file"
  /\ broken /\ left > 0
  /\ pc' = "idle"
  /\ IF Big(job) THEN Hide ELSE UNCHANGED box
  /\ UNCHANGED <<job, i, left, RTSOCKET, broken, owed, garbled, decoded, sent, datagrams>>

\* Another program writes to the file after its size was announced.
FileChanges ==
  /\ pc \in {"chunks", "file"} /\ Follows(job)
  /\ \E d \in Drift : d # 0 /\ left + d >= 0 /\ left' = left + d
  /\ ~sent[Len(sent)].changed
  /\ sent' = [sent EXCEPT ![Len(sent)].changed = TRUE]
  /\ UNCHANGED <<pc, job, i, RTSOCKET, box, broken, owed, garbled, decoded, datagrams>>

LinkBreaks ==
  /\ ~broken
  /\ broken' = TRUE
  /\ UNCHANGED <<pc, job, i, left, RTSOCKET, box, owed, garbled, decoded, sent, datagrams>>

Next ==
  \/ \E m \in Messages : SendDatagram(m) \/ SendMessage(m)
  \/ SendChunk \/ ChunkFails \/ LastChunk
  \/ SendBlock \/ BlockFails
  \/ FileChanges \/ LinkBreaks

Spec == Init /\ [][Next]_vars

-----------------------------------------------------------------------------
Read == [kind : {"event", "file", "data", "garbage"}, owner : Nat, olen : Nat, tlen : Nat, vlen : Nat]

TypeOK ==
  /\ pc \in {"idle", "chunks", "file"} /\ job \in Messages
  /\ i \in Nat /\ left \in Nat /\ owed \in Nat
  /\ box \in {"none", "shown"}
  /\ RTSOCKET \in BOOLEAN /\ broken \in BOOLEAN /\ garbled \in BOOLEAN
  /\ decoded \in Seq(Read)
  /\ sent \in Seq([m : Messages, changed : BOOLEAN])
  /\ datagrams \in Seq([m : Messages, outcome : {"sent", "EMSGSIZE", "error"}])

\* A frame whose last chunk the loop takes to be empty.
LastChunkVanishes(m) == Big(m) /\ content(m) % CHUNK_SIZE = 0

\* What the format can express: the widths of the two length fields and, when
\* the upper bits of the header mean something else, the size.
Fits(m) == m.olen < 256 /\ TargetLength(m) < 65536 /\ (Secured \/ size_n(m) < HeaderRange)

Sound(s) == Fits(s.m) /\ ~LastChunkVanishes(s.m) /\ ~s.changed

\* Once a call has returned and the connection is up, the server has read every
\* message sent so far, in order and as it was meant, whatever mix of headers,
\* chunks and files carried them; the messages Sound excludes are the only ones
\* that make the two ends lose step.
FramesArriveWhole ==
  (pc = "idle" /\ ~broken /\ \A k \in DOMAIN sent : Sound(sent[k])) =>
    /\ owed = 0 /\ ~garbled
    /\ decoded = [k \in DOMAIN sent |-> Delivered(sent[k].m)]

\* When no message is being sent the progress box, which is modal to the whole
\* application, is gone, however the sending ended.  (With a key it stays after
\* a big message: that branch of send_message never takes it away.)
ProgressBoxGoesAway == pc = "idle" /\ ~Secured => box = "none"

\* "done big message !": after the loop over the chunks the frame is complete.
BigMessageIsDone ==
  (pc = "idle" /\ ~broken /\ \A k \in DOMAIN sent : Fits(sent[k].m) /\ ~sent[k].changed) =>
    owed = 0

\* An owner "may have at most 256 octets": one of that length arrives.
OwnerOf256Octets ==
  (pc = "idle" /\ ~broken /\ Len(sent) = 1 /\ sent[1].m.olen <= 256 /\ ~Big(sent[1].m)) =>
    decoded = <<Delivered(sent[1].m)>>

\* "Fall back to TCP socket": a message too long for a datagram goes over TCP.
FallsBackToTCP ==
  pc = "idle" => \A k \in DOMAIN datagrams :
    datagrams[k].outcome = "EMSGSIZE" => \E j \in DOMAIN sent : sent[j].m = datagrams[k].m
=============================================================================
