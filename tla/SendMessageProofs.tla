------------------------- MODULE SendMessageProofs -------------------------
(***************************************************************************)
(* Whatever the sizes of chunks, buffers and messages, the frames            *)
(* send_message puts on a connection that stays up are read as they were     *)
(* meant.  The invariant says how many bytes the peer is still waiting for    *)
(* at each point of the call.                                               *)
(***************************************************************************)
EXTENDS SendMessage, SequenceTheorems, TLAPS

\* Quotient and remainder of two numbers of bytes.
LEMMA DivMod ==
  ASSUME NEW n \in Nat, NEW c \in Nat \ {0}
  PROVE  n \div c \in Nat /\ n % c \in Nat /\ n % c < c /\ n = c * (n \div c) + (n % c)
OBVIOUS

\* The sizes of a frame are what the header and the chunks are made of.
LEMMA Sizes ==
  ASSUME NEW m \in Messages
  PROVE  /\ m \in Message /\ TargetLength(m) \in Nat
         /\ in_content_size(m) \in Nat /\ content(m) \in Nat
         /\ size_n(m) \in Nat /\ size_n(m) >= content(m)
         /\ content(m) > 0
<1>1. m \in Message /\ TargetLength(m) \in Nat
  BY SizeAssumption DEF Message, TargetLength
<1>2. in_content_size(m) \in Nat /\ in_content_size(m) > 0
  <2>1. CASE Compressed(m)
    BY <1>1, <2>1 DEF in_content_size, Compressed, Message
  <2>2. CASE ~Compressed(m)
    <3>1. m.olen \in Nat /\ m.vlen \in Nat BY <1>1 DEF Message
    <3>2. QED BY <1>1, <2>2, <3>1 DEF in_content_size
  <2>3. QED BY <2>1, <2>2
<1>3. content(m) \in Nat /\ content(m) > 0
  <2>1. in_content_size(m) + 15 \in Nat /\ (in_content_size(m) + 15) \div 16 \in Nat
    BY <1>2, DivMod
  <2>2. QED BY <1>2, <2>1 DEF content, Encrypted
<1>4. size_n(m) \in Nat /\ size_n(m) >= content(m)
  BY <1>1, <1>3 DEF size_n, Message
<1>5. QED BY <1>1, <1>2, <1>3, <1>4

\* A frame that fits the format is read as it was written.
LEMMA FrameIsRead ==
  ASSUME NEW m \in Messages, Fits(m)
  PROVE  Announced(m) = size_n(m) /\ Decode(m) = Delivered(m)
<1>1. m \in Message /\ TargetLength(m) \in Nat /\ size_n(m) \in Nat BY Sizes
<1>2. m.olen % 256 = m.olen /\ TargetLength(m) % 65536 = TargetLength(m)
  BY <1>1 DEF Fits, Message
<1>3. CASE Compressed(m)
  <2>1. /\ m.kind = "event" /\ ~Secured /\ m.vlen \in Nat /\ 0 < m.vlen /\ m.vlen < 65536 /\ m.owner \in Nat
    BY <1>1, <1>3 DEF Compressed, Message
  <2>2. (65536 * m.owner + m.vlen) % 65536 = m.vlen /\ (65536 * m.owner + m.vlen) \div 65536 = m.owner
    BY <2>1
  <2>3. Header(m).top = 15 /\ Header(m).rest = 65536 * m.owner + m.vlen
    BY <1>3 DEF Header
  <2>4. size_n(m) = m.vlen
    BY <1>3, <2>1 DEF size_n, content, in_content_size, Follows
  <2>5. TargetLength(m) = 3 BY <2>1 DEF TargetLength
  <2>6. QED BY <2>1, <2>2, <2>3, <2>4, <2>5 DEF Announced, Decode, Delivered
<1>4. CASE ~Compressed(m)
  <2>1. CASE Secured
    BY <1>1, <1>2, <2>1 DEF Announced, Decode, Delivered, Message
  <2>2. CASE ~Secured
    <3>1. size_n(m) \div HeaderRange = 0 /\ size_n(m) % HeaderRange = size_n(m)
      BY <1>1, <2>2 DEF Fits, HeaderRange
    <3>2. Header(m).top = 0 /\ Header(m).rest = size_n(m)
      BY <1>4, <3>1 DEF Header
    <3>3. QED BY <1>1, <1>2, <2>2, <3>2 DEF Announced, Decode, Delivered, Message
  <2>3. QED BY <2>1, <2>2
<1>5. QED BY <1>3, <1>4

-----------------------------------------------------------------------------
AllSound == \A k \in DOMAIN sent : Sound(sent[k])

\* The bytes of the frame that the rest of the call is going to send.
Unsent == IF pc = "idle" THEN 0
          ELSE IF pc = "file" THEN left
          ELSE size_n(job) - (IF i = Chunks THEN content(job) ELSE i * CHUNK_SIZE)

Busy == pc # "idle" => sent # <<>> /\ sent[Len(sent)].m = job

Cutting == pc = "chunks" =>
  Big(job) /\ i <= Chunks /\ (~sent[Len(sent)].changed => left = size_n(job) - content(job))

\* What the first n frames, the last one still incomplete or not, were read as.
ReadInOrder(n, o) ==
  /\ Len(decoded) = n - (IF o = 0 THEN 0 ELSE 1)
  /\ \A k \in DOMAIN decoded : decoded[k] = Delivered(sent[k].m)

InStep == AllSound /\ ~broken => ~garbled /\ owed = Unsent /\ ReadInOrder(Len(sent), owed)

Inv == TypeOK /\ Busy /\ Cutting /\ InStep

-----------------------------------------------------------------------------
\* What the server reads of a message has the type of what it reads.
LEMMA DecodeTyped ==
  ASSUME NEW m \in Messages
  PROVE  Decode(m) \in Read /\ Announced(m) \in Nat
<1>1. m \in Message /\ TargetLength(m) \in Nat /\ size_n(m) \in Nat BY Sizes
<1>2. m.olen \in Nat /\ m.owner \in Nat /\ m.vlen \in Nat /\ m.kind \in {"event", "file", "data"}
  BY <1>1 DEF Message
<1>3. Header(m).rest \in Nat
  <2>1. size_n(m) % HeaderRange \in Nat BY <1>1 DEF HeaderRange
  <2>2. QED BY <1>2, <2>1 DEF Header
<1>4. Header(m).rest % 65536 \in Nat /\ Header(m).rest \div 65536 \in Nat BY <1>3
<1>5. /\ m.olen % 256 \in Nat /\ m.olen % 256 <= m.olen
      /\ TargetLength(m) % 65536 \in Nat /\ TargetLength(m) % 65536 <= TargetLength(m)
  BY <1>1, <1>2
<1>6. m.vlen + (m.olen - (m.olen % 256)) + (TargetLength(m) - (TargetLength(m) % 65536)) \in Nat
  BY <1>1, <1>2, <1>5
<1>7. Decode(m) \in Read
  BY <1>2, <1>4, <1>5, <1>6 DEF Decode, Read
<1>8. QED BY <1>1, <1>3, <1>4, <1>7 DEF Announced

\* session_send keeps the types of what is owed and decoded.
LEMMA PutTyped ==
  ASSUME TypeOK, NEW m \in Messages, NEW o \in Nat, NEW n \in Nat, Put(m, o, n)
  PROVE  owed' \in Nat /\ garbled' \in BOOLEAN /\ decoded' \in Seq(Read)
<1>1. owed' \in Nat BY DEF Put
<1>2. garbled' \in BOOLEAN BY DEF Put
<1>3. decoded' \in Seq(Read)
  <2>1. decoded \in Seq(Read) /\ Decode(m) \in Read BY DecodeTyped DEF TypeOK
  <2>2. Append(decoded, Decode(m)) \in Seq(Read) BY <2>1
  <2>3. QED BY <2>1, <2>2 DEF Put
<1>4. QED BY <1>1, <1>2, <1>3

\* Bytes of the last frame keep the peer in step, and its last byte makes it
\* one of the frames read.
LEMMA PutInStep ==
  ASSUME TypeOK, NEW m \in Messages, NEW o \in Nat \ {0}, NEW n \in Nat,
         Fits(m), n <= o, ~garbled, Put(m, o, n),
         sent' \in Seq([m : Messages, changed : BOOLEAN]), sent' # <<>>,
         sent'[Len(sent')].m = m,
         Len(decoded) = Len(sent') - 1,
         \A k \in DOMAIN decoded : decoded[k] = Delivered(sent'[k].m)
  PROVE  /\ owed' = o - n /\ ~garbled'
         /\ ReadInOrder(Len(sent), owed)'
<1>1. owed' = o - n /\ ~garbled'
  <2>1. owed' = o - n BY DEF Put
  <2>2. ~(o < n) OBVIOUS
  <2>3. garbled' = (garbled \/ o < n) BY DEF Put
  <2>4. ~garbled' BY <2>2, <2>3, Zenon
  <2>5. QED BY <2>1, <2>4
<1>2. decoded \in Seq(Read) /\ Decode(m) \in Read BY DecodeTyped DEF TypeOK
<1>3. CASE o = n
  <2>1. decoded' = Append(decoded, Decode(m)) /\ owed' = 0 BY <1>1, <1>3 DEF Put
  <2>2. Len(decoded') = Len(sent') BY <1>2, <2>1
  <2>3. ASSUME NEW k \in DOMAIN decoded' PROVE decoded'[k] = Delivered(sent'[k].m)
    <3>1. CASE k \in DOMAIN decoded BY <1>2, <2>1, <3>1
    <3>2. CASE k = Len(decoded) + 1
      <4>1. decoded'[k] = Decode(m) BY <1>2, <2>1, <3>2
      <4>2. k = Len(sent') BY <3>2
      <4>3. QED BY <4>1, <4>2, FrameIsRead
    <3>3. DOMAIN decoded' = 1..(Len(decoded) + 1) /\ DOMAIN decoded = 1..Len(decoded) /\ Len(decoded) \in Nat
      BY <1>2, <2>1
    <3>4. QED BY <3>1, <3>2, <3>3
  <2>4. QED BY <1>1, <2>1, <2>2, <2>3 DEF ReadInOrder
<1>4. CASE o # n
  <2>1. decoded' = decoded /\ owed' # 0 BY <1>1, <1>4 DEF Put
  <2>2. QED BY <1>1, <2>1 DEF ReadInOrder
<1>5. QED BY <1>1, <1>3, <1>4

\* The bytes the chunk loop has to send when the last chunk is not empty.
LEMMA ChunkLoop ==
  ASSUME NEW m \in Messages, Big(m), ~LastChunkVanishes(m), NEW j \in Nat,
         j < content(m) \div CHUNK_SIZE + 1
  PROVE  /\ content(m) % CHUNK_SIZE # 0
         /\ j < content(m) \div CHUNK_SIZE => (j + 1) * CHUNK_SIZE < content(m)
         /\ j = content(m) \div CHUNK_SIZE =>
              j * CHUNK_SIZE + (content(m) % CHUNK_SIZE) = content(m)
         /\ (j + 1) * CHUNK_SIZE = j * CHUNK_SIZE + CHUNK_SIZE
<1> DEFINE q == content(m) \div CHUNK_SIZE
           r == content(m) % CHUNK_SIZE
<1>1. content(m) \in Nat /\ CHUNK_SIZE \in Nat \ {0} BY Sizes, SizeAssumption
<1>2. q \in Nat /\ r \in Nat /\ r < CHUNK_SIZE /\ content(m) = CHUNK_SIZE * q + r
  BY <1>1, DivMod
<1>3. r # 0 BY DEF LastChunkVanishes
<1>4. (j + 1) * CHUNK_SIZE = j * CHUNK_SIZE + CHUNK_SIZE BY <1>1
<1>5. ASSUME j < q PROVE (j + 1) * CHUNK_SIZE < content(m)
  <2> HIDE DEF q, r
  <2>1. PICK d \in Nat : q = j + 1 + d
    <3>1. q - j - 1 \in Nat /\ q = j + 1 + (q - j - 1) BY <1>2, <1>5
    <3>2. QED BY <3>1
  <2>2. CHUNK_SIZE * q = (j + 1) * CHUNK_SIZE + CHUNK_SIZE * d BY <1>1, <2>1
  <2>3. CHUNK_SIZE * d \in Nat /\ (j + 1) * CHUNK_SIZE \in Nat BY <1>1, <2>1
  <2>4. QED BY <1>2, <1>3, <2>2, <2>3
<1>6. ASSUME j = q PROVE j * CHUNK_SIZE + r = content(m)
  <2> HIDE DEF q, r
  <2>1. QED BY <1>1, <1>2, <1>6
<1>7. QED BY <1>3, <1>4, <1>5, <1>6

-----------------------------------------------------------------------------
(* Typing *)

\* The sizes of chunks and blocks are numbers, and a block is in what is left.
LEMMA ChunkTyped ==
  ASSUME TypeOK
  PROVE  chunk_size \in Nat /\ block \in Nat /\ block <= left /\ Chunks \in Nat
<1>1. content(job) \in Nat /\ CHUNK_SIZE \in Nat \ {0} /\ RBUF_SIZE \in Nat \ {0}
  BY Sizes, SizeAssumption DEF TypeOK
<1>2. content(job) % CHUNK_SIZE \in Nat /\ content(job) \div CHUNK_SIZE \in Nat BY <1>1, DivMod
<1>3. QED BY <1>1, <1>2 DEF chunk_size, block, Chunks, TypeOK

\* Every step of send_message keeps the types.
LEMMA TypesStay ==
  ASSUME TypeOK, Busy, [Next]_vars
  PROVE  TypeOK'
<1>1. ASSUME NEW m \in Messages, SendDatagram(m) PROVE TypeOK'
  <2>1. RTSOCKET' \in BOOLEAN BY <1>1, Zenon DEF SendDatagram
  <2>2. datagrams' \in Seq([m : Messages, outcome : {"sent", "EMSGSIZE", "error"}])
    BY <1>1 DEF SendDatagram, TypeOK
  <2>3. QED BY <1>1, <2>1, <2>2 DEF SendDatagram, TypeOK
<1>2. ASSUME NEW m \in Messages, SendMessage(m) PROVE TypeOK'
  <2>1. owed' \in Nat /\ garbled' \in BOOLEAN /\ decoded' \in Seq(Read)
    <3>1. CASE broken BY <1>2, <3>1 DEF SendMessage, Lost, TypeOK
    <3>2. CASE ~broken /\ owed # 0 BY <1>2, <3>2 DEF SendMessage, PutHeader, TypeOK
    <3>3. CASE ~broken /\ owed = 0
      <4>1. (IF Big(m) THEN 0 ELSE content(m)) \in Nat /\ Announced(m) \in Nat
        BY Sizes, DecodeTyped
      <4>2. Put(m, Announced(m), IF Big(m) THEN 0 ELSE content(m))
        BY <1>2, <3>3 DEF SendMessage, PutHeader
      <4>3. QED BY <4>1, <4>2, PutTyped
    <3>4. QED BY <3>1, <3>2, <3>3
  <2>2. sent' \in Seq([m : Messages, changed : BOOLEAN])
    BY <1>2 DEF SendMessage, TypeOK
  <2>3. left' \in Nat
    <3>1. m.vlen \in Nat BY Sizes DEF Message
    <3>2. QED BY <1>2, <3>1 DEF SendMessage
  <2>4. pc' \in {"idle", "chunks", "file"} /\ box' \in {"none", "shown"}
    BY <1>2 DEF SendMessage, Show, TypeOK
  <2>5. QED BY <1>2, <2>1, <2>2, <2>3, <2>4 DEF SendMessage, TypeOK
<1>3. CASE SendChunk
  <2>1. owed' \in Nat /\ garbled' \in BOOLEAN /\ decoded' \in Seq(Read)
    <3>1. owed \in Nat /\ chunk_size \in Nat /\ job \in Messages BY ChunkTyped DEF TypeOK
    <3>2. Put(job, owed, chunk_size) BY <1>3 DEF SendChunk
    <3>3. QED BY <3>1, <3>2, PutTyped
  <2>2. QED BY <1>3, <2>1 DEF SendChunk, TypeOK
<1>4. CASE ChunkFails BY <1>4 DEF ChunkFails, Show, Hide, TypeOK
<1>5. CASE LastChunk BY <1>5 DEF LastChunk, Hide, TypeOK
<1>6. CASE SendBlock
  <2>1. owed \in Nat /\ block \in Nat /\ job \in Messages /\ left \in Nat /\ block <= left
    BY ChunkTyped DEF TypeOK
  <2>2. owed' \in Nat /\ garbled' \in BOOLEAN /\ decoded' \in Seq(Read)
    <3>1. CASE block = 0 BY <1>6, <3>1 DEF SendBlock, Lost, TypeOK
    <3>2. CASE block # 0
      <4>1. Put(job, owed, block) BY <1>6, <3>2 DEF SendBlock
      <4>2. QED BY <2>1, <4>1, PutTyped
    <3>3. QED BY <3>1, <3>2
  <2>3. left' \in Nat BY <1>6, <2>1 DEF SendBlock
  <2>4. pc' \in {"idle", "chunks", "file"} /\ box' \in {"none", "shown"}
    BY <1>6 DEF SendBlock, Hide, TypeOK
  <2>5. QED BY <1>6, <2>2, <2>3, <2>4 DEF SendBlock, TypeOK
<1>7. CASE BlockFails BY <1>7 DEF BlockFails, Hide, TypeOK
<1>8. CASE FileChanges
  <2>1. left' \in Nat BY <1>8, SizeAssumption DEF FileChanges, TypeOK
  <2>2. sent' \in Seq([m : Messages, changed : BOOLEAN])
    <3>1. sent \in Seq([m : Messages, changed : BOOLEAN]) BY DEF TypeOK
    <3>2. sent' = [sent EXCEPT ![Len(sent)].changed = TRUE] BY <1>8 DEF FileChanges
    <3>3. Len(sent) \in 1..Len(sent) BY <1>8, <3>1 DEF FileChanges, Busy
    <3>4. [sent[Len(sent)] EXCEPT !.changed = TRUE] \in [m : Messages, changed : BOOLEAN]
      <4> DEFINE last == sent[Len(sent)]
      <4>1. last \in [m : Messages, changed : BOOLEAN] BY <3>1, <3>3, ElementOfSeq
      <4> HIDE DEF last
      <4>2. [last EXCEPT !.changed = TRUE] \in [m : Messages, changed : BOOLEAN] BY <4>1
      <4>3. QED BY <4>2 DEF last
    <3>5. QED BY <3>1, <3>2, <3>3, <3>4, ExceptSeq
  <2>3. QED BY <1>8, <2>1, <2>2 DEF FileChanges, TypeOK
<1>9. CASE LinkBreaks BY <1>9 DEF LinkBreaks, TypeOK
<1>10. CASE UNCHANGED vars BY <1>10 DEF vars, TypeOK
<1>11. QED
  BY <1>1, <1>2, <1>3, <1>4, <1>5, <1>6, <1>7, <1>8, <1>9, <1>10 DEF Next

-----------------------------------------------------------------------------
(* The peer in step *)

\* The headers and the fields before a big content keep the invariant.
LEMMA SendMessageInv ==
  ASSUME Inv, TypeOK', NEW m \in Messages, SendMessage(m)
  PROVE  Busy' /\ Cutting' /\ InStep'
<1> USE DEF Inv
<1> DEFINE rec == [m : Messages, changed : BOOLEAN]
<1>1. /\ sent \in Seq(rec) /\ sent' = Append(sent, [m |-> m, changed |-> FALSE])
      /\ sent' \in Seq(rec) /\ Len(sent') = Len(sent) + 1 /\ sent' # <<>>
      /\ sent'[Len(sent')] = [m |-> m, changed |-> FALSE]
      /\ \A k \in DOMAIN sent : k \in DOMAIN sent' /\ sent'[k] = sent[k]
      /\ Len(sent') \in DOMAIN sent'
  <2> DEFINE new == [m |-> m, changed |-> FALSE]
  <2>1. new \in rec OBVIOUS
  <2>2. sent \in Seq(rec) /\ sent' = Append(sent, new) BY DEF SendMessage, TypeOK
  <2> HIDE DEF rec, new
  <2>3. /\ sent' \in Seq(rec) /\ Len(sent') = Len(sent) + 1 /\ sent' # <<>>
        /\ sent'[Len(sent')] = new
        /\ \A k \in 1..Len(sent) : sent'[k] = sent[k]
        /\ DOMAIN sent = 1..Len(sent) /\ DOMAIN sent' = 1..(Len(sent) + 1) /\ Len(sent) \in Nat
    BY <2>1, <2>2
  <2>4. QED BY <2>2, <2>3 DEF new
<1>2. job' = m /\ i' = 0 /\ left' = (IF Follows(m) THEN m.vlen ELSE 0) /\ broken' = broken
  BY DEF SendMessage
<1>3. left' = size_n(m) - content(m)
  <2>1. m.vlen \in Nat /\ content(m) \in Nat BY Sizes DEF Message
  <2>2. QED BY <1>2, <2>1 DEF size_n
<1>4. Busy' BY <1>1, <1>2 DEF Busy
<1>5. Chunks' \in Nat
  <2>1. content(m) \div CHUNK_SIZE \in Nat BY Sizes, DivMod, SizeAssumption
  <2>2. QED BY <1>2, <2>1 DEF Chunks
<1>6. pc' = (IF Big(m) THEN "chunks" ELSE IF Follows(m) THEN "file" ELSE "idle")
  BY DEF SendMessage
<1>7. Cutting' BY <1>2, <1>3, <1>5, <1>6 DEF Cutting
<1>8. ASSUME AllSound', ~broken'
      PROVE  ~garbled' /\ owed' = Unsent' /\ ReadInOrder(Len(sent), owed)'
  <2> DEFINE n == IF Big(m) THEN 0 ELSE content(m)
  <2>1. AllSound /\ Sound([m |-> m, changed |-> FALSE])
    <3>1. \A k \in DOMAIN sent' : Sound(sent'[k]) BY <1>8 DEF AllSound
    <3>2. \A k \in DOMAIN sent : Sound(sent[k]) BY <1>1, <3>1
    <3>3. QED BY <1>1, <3>1, <3>2 DEF AllSound
  <2>2. ~garbled /\ owed = 0 /\ Len(decoded) = Len(sent)
        /\ \A k \in DOMAIN decoded : decoded[k] = Delivered(sent[k].m)
    BY <1>2, <1>8, <2>1 DEF InStep, Unsent, ReadInOrder, SendMessage
  <2>3. Fits(m) /\ ~LastChunkVanishes(m) BY <2>1 DEF Sound
  <2>4. Announced(m) = size_n(m) BY <2>3, FrameIsRead
  <2>5. size_n(m) \in Nat \ {0} /\ n \in Nat /\ n <= size_n(m) BY Sizes
  <2>6. Put(m, size_n(m), n) BY <1>2, <1>8, <2>2, <2>4 DEF SendMessage, PutHeader
  <2>7. \A k \in DOMAIN decoded : decoded[k] = Delivered(sent'[k].m)
    <3>1. DOMAIN decoded = DOMAIN sent BY <1>1, <2>2 DEF TypeOK
    <3>2. QED BY <1>1, <2>2, <3>1
  <2>8. Len(decoded) = Len(sent') - 1 /\ sent'[Len(sent')].m = m BY <1>1, <2>2
  <2> HIDE DEF n
  <2>9. owed' = size_n(m) - n /\ ~garbled' /\ ReadInOrder(Len(sent), owed)'
    BY <1>1, <2>2, <2>3, <2>5, <2>6, <2>7, <2>8, PutInStep
  <2>10. Unsent' = size_n(m) - n
    <3>1. CASE Big(m)
      <4>1. Chunks' # 0
        <5>1. content(m) \div CHUNK_SIZE \in Nat /\ content(m) % CHUNK_SIZE # 0
          BY <2>3, <3>1, Sizes, DivMod, SizeAssumption DEF LastChunkVanishes
        <5>2. QED BY <1>2, <5>1 DEF Chunks
      <4>2. CHUNK_SIZE \in Nat BY SizeAssumption
      <4>3. QED BY <1>2, <1>6, <2>5, <3>1, <4>1, <4>2 DEF Unsent, n
    <3>2. CASE ~Big(m)
      <4>1. content(m) \in Nat /\ m.vlen \in Nat BY Sizes DEF Message
      <4>2. QED BY <1>2, <1>3, <1>6, <3>2, <4>1 DEF Unsent, n
    <3>3. QED BY <3>1, <3>2
  <2>11. QED BY <2>9, <2>10
<1>9. QED BY <1>4, <1>7, <1>8 DEF InStep

\* So does a chunk of a big content.
LEMMA SendChunkInv ==
  ASSUME Inv, TypeOK', SendChunk
  PROVE  Busy' /\ Cutting' /\ InStep'
<1> USE DEF Inv
<1> DEFINE rec == [m : Messages, changed : BOOLEAN]
           last == Len(sent)
<1>1. /\ pc = "chunks" /\ i < Chunks /\ i' = i + 1
      /\ UNCHANGED <<pc, job, left, broken, sent>>
      /\ Put(job, owed, chunk_size)
  BY DEF SendChunk
<1>2. sent # <<>> /\ sent[last].m = job /\ last \in DOMAIN sent /\ sent \in Seq(rec) /\ job \in Messages
  BY <1>1 DEF Busy, TypeOK
<1>3. Busy' BY <1>1, <1>2 DEF Busy
<1>4. Chunks' = Chunks /\ Chunks \in Nat /\ i \in Nat BY <1>1, ChunkTyped DEF Chunks, TypeOK
<1>5. Cutting' BY <1>1, <1>4 DEF Cutting
<1>6. ASSUME AllSound', ~broken'
      PROVE  ~garbled' /\ owed' = Unsent' /\ ReadInOrder(Len(sent), owed)'
  <2>1. AllSound /\ ~broken BY <1>1, <1>6 DEF AllSound
  <2>2. Fits(job) /\ ~LastChunkVanishes(job) /\ Big(job)
    BY <1>1, <1>2, <2>1 DEF AllSound, Sound, Cutting
  <2>3. ~garbled /\ owed = size_n(job) - i * CHUNK_SIZE /\ ReadInOrder(Len(sent), owed)
    BY <1>1, <1>4, <2>1 DEF InStep, Unsent
  <2> DEFINE q == content(job) \div CHUNK_SIZE
             r == content(job) % CHUNK_SIZE
  <2>4. q \in Nat /\ r \in Nat \ {0} /\ r < CHUNK_SIZE /\ CHUNK_SIZE \in Nat \ {0}
    BY <1>2, <2>2, Sizes, DivMod, SizeAssumption DEF LastChunkVanishes
  <2>5. Chunks = q + 1 BY <2>4 DEF Chunks
  <2>6. content(job) \in Nat /\ size_n(job) \in Nat /\ size_n(job) >= content(job)
    BY <1>2, Sizes
  <2>7. /\ i < q => (i + 1) * CHUNK_SIZE < content(job)
        /\ i = q => i * CHUNK_SIZE + r = content(job)
        /\ (i + 1) * CHUNK_SIZE = i * CHUNK_SIZE + CHUNK_SIZE
    BY <1>1, <1>2, <1>4, <2>2, <2>5, ChunkLoop
  <2>8. chunk_size = (IF i < q THEN CHUNK_SIZE ELSE r)
    BY <1>1, <1>4, <2>4, <2>5 DEF chunk_size
  <2> HIDE DEF q, r
  <2> DEFINE at == i * CHUNK_SIZE
  <2>9. at \in Nat BY <1>4, <2>4
  <2> HIDE DEF at
  <2>10. /\ owed = size_n(job) - at
         /\ i < q => at + CHUNK_SIZE < content(job)
         /\ i = q => at + r = content(job)
         /\ i < q \/ i = q
    BY <1>1, <1>4, <2>3, <2>4, <2>5, <2>7 DEF at
  <2>11. owed \in Nat \ {0} /\ chunk_size \in Nat /\ chunk_size <= owed
    BY <2>4, <2>6, <2>8, <2>9, <2>10
  <2>12. Len(decoded) = Len(sent) - 1 /\ \A k \in DOMAIN decoded : decoded[k] = Delivered(sent[k].m)
    BY <2>3, <2>11 DEF ReadInOrder
  <2>13. owed' = owed - chunk_size /\ ~garbled' /\ ReadInOrder(Len(sent), owed)'
    <3>1. sent' = sent BY <1>1
    <3>2. sent' \in Seq(rec) /\ sent' # <<>> /\ sent'[Len(sent')].m = job BY <1>2, <3>1
    <3>3. Len(decoded) = Len(sent') - 1 /\ \A k \in DOMAIN decoded : decoded[k] = Delivered(sent'[k].m)
      BY <2>12, <3>1
    <3>4. QED BY <1>1, <1>2, <2>2, <2>3, <2>11, <3>2, <3>3, PutInStep
  <2>14. owed' = Unsent'
    <3>1. CASE i < q
      <4>1. i' # Chunks' BY <1>1, <1>4, <2>4, <2>5, <3>1
      <4>2. Unsent' = size_n(job) - (i + 1) * CHUNK_SIZE BY <1>1, <4>1 DEF Unsent
      <4>3. (i + 1) * CHUNK_SIZE = at + CHUNK_SIZE BY <2>7 DEF at
      <4>4. QED BY <2>4, <2>6, <2>8, <2>9, <2>10, <2>13, <3>1, <4>2, <4>3
    <3>2. CASE i = q
      <4>1. i' = Chunks' BY <1>1, <1>4, <2>4, <2>5, <3>2
      <4>2. Unsent' = size_n(job) - content(job) BY <1>1, <4>1 DEF Unsent
      <4>3. QED BY <2>4, <2>6, <2>8, <2>9, <2>10, <2>13, <3>2, <4>2
    <3>3. QED BY <2>10, <3>1, <3>2
  <2>15. QED BY <2>13, <2>14
<1>7. QED BY <1>3, <1>5, <1>6 DEF InStep

\* So does a block of a file.
LEMMA SendBlockInv ==
  ASSUME Inv, TypeOK', SendBlock
  PROVE  Busy' /\ Cutting' /\ InStep'
<1> USE DEF Inv
<1> DEFINE rec == [m : Messages, changed : BOOLEAN]
<1>1. /\ pc = "file" /\ UNCHANGED <<job, i, broken, sent>> /\ left' = left - block
      /\ IF block = 0 THEN Lost ELSE Put(job, owed, block)
      /\ pc' = IF block = RBUF_SIZE THEN pc ELSE "idle"
  BY DEF SendBlock
<1>2. sent # <<>> /\ sent[Len(sent)].m = job /\ Len(sent) \in DOMAIN sent /\ sent \in Seq(rec) /\ job \in Messages
  BY <1>1 DEF Busy, TypeOK
<1>3. Busy' BY <1>1, <1>2 DEF Busy
<1>4. Cutting' BY <1>1 DEF Cutting
<1>5. ASSUME AllSound', ~broken'
      PROVE  ~garbled' /\ owed' = Unsent' /\ ReadInOrder(Len(sent), owed)'
  <2>1. AllSound /\ ~broken BY <1>1, <1>5 DEF AllSound
  <2>2. Fits(job) BY <1>2, <2>1 DEF AllSound, Sound
  <2>3. ~garbled /\ owed = left /\ ReadInOrder(Len(sent), owed)
    BY <1>1, <2>1 DEF InStep, Unsent
  <2>4. /\ block \in Nat /\ block <= left /\ left \in Nat /\ RBUF_SIZE \in Nat \ {0}
        /\ block # RBUF_SIZE => block = left
    BY ChunkTyped, SizeAssumption DEF TypeOK, block
  <2>5. Unsent' = left - block
    BY <1>1, <2>4 DEF Unsent
  <2>6. CASE block = 0
    <3>1. UNCHANGED <<owed, garbled, decoded, sent>> BY <1>1, <2>6 DEF Lost
    <3>2. QED BY <2>3, <2>4, <2>5, <2>6, <3>1 DEF ReadInOrder
  <2>7. CASE block # 0
    <3>1. owed \in Nat \ {0} /\ Put(job, owed, block) BY <1>1, <2>3, <2>4, <2>7
    <3>2. Len(decoded) = Len(sent) - 1 /\ \A k \in DOMAIN decoded : decoded[k] = Delivered(sent[k].m)
      BY <2>3, <3>1 DEF ReadInOrder
    <3>3. sent' = sent BY <1>1
    <3>4. sent' \in Seq(rec) /\ sent' # <<>> /\ sent'[Len(sent')].m = job BY <1>2, <3>3
    <3>5. Len(decoded) = Len(sent') - 1 /\ \A k \in DOMAIN decoded : decoded[k] = Delivered(sent'[k].m)
      BY <3>2, <3>3
    <3>6. owed' = owed - block /\ ~garbled' /\ ReadInOrder(Len(sent), owed)'
      BY <1>2, <2>2, <2>3, <2>4, <3>1, <3>4, <3>5, PutInStep
    <3>7. QED BY <2>3, <2>5, <3>6
  <2>8. QED BY <2>6, <2>7
<1>6. QED BY <1>3, <1>4, <1>5 DEF InStep

\* Every step of send_message keeps the invariant.
LEMMA InvStays ==
  ASSUME Inv, [Next]_vars
  PROVE  Inv'
<1>1. TypeOK' BY TypesStay DEF Inv
<1> USE <1>1 DEF Inv
<1>2. ASSUME UNCHANGED <<pc, job, i, left, owed, garbled, decoded, sent>>
      PROVE  Busy' /\ Cutting'
  BY <1>2 DEF Busy, Cutting, Chunks
<1>3. ASSUME UNCHANGED <<pc, job, i, left, owed, garbled, decoded, sent, broken>> PROVE InStep'
  BY <1>3 DEF InStep, AllSound, Unsent, ReadInOrder, Chunks
<1>4. ASSUME broken' PROVE InStep' BY <1>4 DEF InStep
<1>5. ASSUME NEW m \in Messages, SendDatagram(m) PROVE Busy' /\ Cutting' /\ InStep'
  BY <1>2, <1>3, <1>5 DEF SendDatagram
<1>6. ASSUME NEW m \in Messages, SendMessage(m) PROVE Busy' /\ Cutting' /\ InStep'
  BY <1>6, SendMessageInv
<1>7. CASE SendChunk BY <1>7, SendChunkInv
<1>8. CASE ChunkFails
  <2>1. pc' = "idle" /\ broken' BY <1>8 DEF ChunkFails
  <2>2. QED BY <1>4, <2>1 DEF Busy, Cutting
<1>9. CASE LastChunk
  <2>1. /\ pc = "chunks" /\ i = Chunks /\ pc' = (IF Follows(job) THEN "file" ELSE "idle")
        /\ UNCHANGED <<job, i, left, broken, owed, garbled, decoded, sent>>
    BY <1>9 DEF LastChunk
  <2>2. Busy' /\ Cutting' BY <2>1 DEF Busy, Cutting
  <2>3. ASSUME AllSound', ~broken'
        PROVE  ~garbled' /\ owed' = Unsent' /\ ReadInOrder(Len(sent), owed)'
    <3>1. AllSound /\ ~broken BY <2>1, <2>3 DEF AllSound
    <3>2. sent[Len(sent)].m = job /\ Len(sent) \in DOMAIN sent /\ job \in Messages BY <2>1 DEF Busy, TypeOK
    <3>3. left = size_n(job) - content(job) BY <2>1, <3>1, <3>2 DEF Cutting, AllSound, Sound
    <3>4. ~garbled /\ owed = size_n(job) - content(job) /\ ReadInOrder(Len(sent), owed)
      BY <2>1, <3>1 DEF InStep, Unsent
    <3>5. Unsent' = owed
      <4>1. CASE Follows(job) BY <2>1, <3>3, <3>4, <4>1 DEF Unsent
      <4>2. CASE ~Follows(job)
        <5>1. size_n(job) = content(job) BY <3>2, <4>2, Sizes DEF size_n
        <5>2. QED BY <2>1, <3>2, <3>4, <4>2, <5>1, Sizes DEF Unsent
      <4>3. QED BY <4>1, <4>2
    <3>6. QED BY <2>1, <3>4, <3>5 DEF ReadInOrder
  <2>4. QED BY <2>2, <2>3 DEF InStep
<1>10. CASE SendBlock BY <1>10, SendBlockInv
<1>11. CASE BlockFails
  <2>1. pc' = "idle" /\ broken' BY <1>11 DEF BlockFails
  <2>2. QED BY <1>4, <2>1 DEF Busy, Cutting
<1>12. CASE FileChanges
  <2> DEFINE rec == [m : Messages, changed : BOOLEAN]
  <2>1. /\ pc \in {"chunks", "file"} /\ UNCHANGED <<pc, job, i>>
        /\ sent' = [sent EXCEPT ![Len(sent)].changed = TRUE]
    BY <1>12 DEF FileChanges
  <2>2. sent # <<>> /\ sent[Len(sent)].m = job /\ Len(sent) \in DOMAIN sent /\ sent \in Seq(rec)
    BY <2>1 DEF Busy, TypeOK
  <2>3. Len(sent') = Len(sent) /\ DOMAIN sent' = DOMAIN sent /\ sent' # <<>>
    BY <2>1, <2>2
  <2>4. sent[Len(sent)] \in rec
    <3>1. Len(sent) \in 1..Len(sent) BY <2>2
    <3> HIDE DEF rec
    <3>2. QED BY <2>2, <3>1, ElementOfSeq
  <2>5. sent'[Len(sent')].m = job /\ sent'[Len(sent')].changed
    BY <2>1, <2>2, <2>3, <2>4
  <2>6. Busy' BY <2>1, <2>3, <2>5 DEF Busy
  <2>7. Cutting' BY <2>1, <2>5 DEF Cutting, Chunks
  <2>8. ~AllSound' BY <2>2, <2>3, <2>5 DEF AllSound, Sound
  <2>9. QED BY <2>6, <2>7, <2>8 DEF InStep
<1>13. CASE LinkBreaks
  <2>1. broken' /\ UNCHANGED <<pc, job, i, left, owed, garbled, decoded, sent>> BY <1>13 DEF LinkBreaks
  <2>2. QED BY <1>2, <1>4, <2>1
<1>14. CASE UNCHANGED vars BY <1>2, <1>3, <1>14 DEF vars
<1>15. QED
  BY <1>1, <1>5, <1>6, <1>7, <1>8, <1>9, <1>10, <1>11, <1>12, <1>13, <1>14 DEF Next

\* The invariant holds: at every point of every call the peer, if the connection
\* is up, waits for exactly the bytes that are still to be sent.
THEOREM Counting == Spec => []Inv
<1>1. Init => Inv
  <2> SUFFICES ASSUME Init PROVE Inv OBVIOUS
  <2>1. RTSOCKET \in BOOLEAN BY SizeAssumption, Zenon DEF Init
  <2>2. TypeOK
    <3>1. /\ decoded \in Seq(Read) /\ sent \in Seq([m : Messages, changed : BOOLEAN])
          /\ datagrams \in Seq([m : Messages, outcome : {"sent", "EMSGSIZE", "error"}])
      BY EmptySeq DEF Init
    <3>2. pc \in {"idle", "chunks", "file"} /\ job \in Messages /\ box \in {"none", "shown"}
          /\ i \in Nat /\ left \in Nat /\ owed \in Nat /\ broken \in BOOLEAN /\ garbled \in BOOLEAN
      BY DEF Init
    <3>3. QED BY <2>1, <3>1, <3>2 DEF TypeOK
  <2>3. Busy /\ Cutting BY DEF Init, Busy, Cutting
  <2>4. InStep BY DEF Init, InStep, Unsent, ReadInOrder
  <2>5. QED BY <2>2, <2>3, <2>4 DEF Inv
<1>2. Inv /\ [Next]_vars => Inv' BY InvStays
<1>3. QED BY <1>1, <1>2, PTL DEF Spec

\* send_message keeps its types whatever the sizes.
THEOREM TypesHold == Spec => []TypeOK
<1>1. Inv => TypeOK BY DEF Inv
<1>2. QED BY <1>1, Counting, PTL

\* Every message is read as it was meant once its call has returned, provided
\* all of them fit the format, none is cut into full chunks only and no file
\* changed: for every CHUNK_SIZE, BIG_MESSAGE and RBUF_SIZE.
THEOREM WholeFrames == Spec => []FramesArriveWhole
<1>1. Inv => FramesArriveWhole
  <2> SUFFICES ASSUME Inv, pc = "idle", ~broken, \A k \in DOMAIN sent : Sound(sent[k])
               PROVE  owed = 0 /\ ~garbled /\ decoded = [k \in DOMAIN sent |-> Delivered(sent[k].m)]
    BY DEF FramesArriveWhole
  <2>1. ~garbled /\ owed = 0 /\ ReadInOrder(Len(sent), owed) BY DEF Inv, InStep, AllSound, Unsent
  <2>2. Len(decoded) = Len(sent) /\ \A k \in DOMAIN decoded : decoded[k] = Delivered(sent[k].m)
    BY <2>1 DEF Inv, TypeOK, ReadInOrder
  <2>3. decoded \in Seq(Read) /\ sent \in Seq([m : Messages, changed : BOOLEAN]) BY DEF Inv, TypeOK
  <2>4. DOMAIN decoded = DOMAIN sent BY <2>2, <2>3
  <2>5. decoded = [k \in DOMAIN decoded |-> decoded[k]] BY <2>3
  <2>6. QED BY <2>1, <2>2, <2>4, <2>5
<1>2. QED BY <1>1, Counting, PTL

-----------------------------------------------------------------------------
\* The box is up only while a big message is being sent.
BoxInv == box \in {"none", "shown"} /\ (~Secured /\ box = "shown" => pc # "idle" /\ Big(job))

\* However a call ends, it takes the progress box away, unless it encrypts.
THEOREM BoxGoes == Spec => []ProgressBoxGoesAway
<1>1. Init => BoxInv BY DEF Init, BoxInv
<1>2. BoxInv /\ [Next]_vars => BoxInv'
  <2> SUFFICES ASSUME BoxInv, [Next]_vars PROVE BoxInv' OBVIOUS
  <2>1. ASSUME NEW m \in Messages, SendDatagram(m) PROVE BoxInv'
    BY <2>1 DEF SendDatagram, BoxInv
  <2>2. ASSUME NEW m \in Messages, SendMessage(m) PROVE BoxInv'
    BY <2>2 DEF SendMessage, Show, BoxInv
  <2>3. CASE SendChunk BY <2>3 DEF SendChunk, BoxInv
  <2>4. CASE ChunkFails BY <2>4 DEF ChunkFails, Show, Hide, BoxInv
  <2>5. CASE LastChunk
    <3>1. CASE Follows(job) BY <2>5, <3>1 DEF LastChunk, BoxInv
    <3>2. CASE ~Follows(job) BY <2>5, <3>2 DEF LastChunk, Hide, BoxInv
    <3>3. QED BY <3>1, <3>2
  <2>6. CASE SendBlock BY <2>6 DEF SendBlock, Hide, BoxInv
  <2>7. CASE BlockFails BY <2>7 DEF BlockFails, Hide, BoxInv
  <2>8. CASE FileChanges BY <2>8 DEF FileChanges, BoxInv
  <2>9. CASE LinkBreaks BY <2>9 DEF LinkBreaks, BoxInv
  <2>10. CASE UNCHANGED vars BY <2>10 DEF vars, BoxInv
  <2>11. QED
    BY <2>1, <2>2, <2>3, <2>4, <2>5, <2>6, <2>7, <2>8, <2>9, <2>10 DEF Next
<1>3. BoxInv => ProgressBoxGoesAway BY DEF BoxInv, ProgressBoxGoesAway
<1>4. QED BY <1>1, <1>2, <1>3, PTL DEF Spec
=============================================================================
