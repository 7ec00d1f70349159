---------------------------- MODULE FramesProofs ----------------------------
(***************************************************************************)
(* Frames from a silent server, from one that goes on talking and over        *)
(* connections that break, and encrypted frames, side by side as in MCFrames.  *)
(* Each part is an instance whose invariant ReceiveMessageProofs or            *)
(* SendMessageProofs proves, and a part that does not move keeps it: for the   *)
(* silent server with any shapes of frames and any bounds, for the others     *)
(* with any sizes of header, buffer and first read.                           *)
(***************************************************************************)
EXTENDS MCFrames, ReceiveMessageProofs

Talk == INSTANCE ReceiveMessageProofs WITH Patient <- FALSE, Shapes <- SoundShapes, MaxFrames <- 4, MaxBreaks <- 0
Break == INSTANCE ReceiveMessageProofs WITH Patient <- FALSE, Shapes <- SoundShapes, MaxFrames <- 3

Cipher == INSTANCE SendMessageProofs WITH
  BIG_MESSAGE <- 524287, CHUNK_SIZE <- Chunk, RBUF_SIZE <- 1048575, Messages <- Encrypted,
  Secured <- TRUE, Realtime <- FALSE, Drift <- {-1, 1}, MaxSends <- 2

-----------------------------------------------------------------------------
(* The instances the proofs are about are those that are checked. *)

\* The server that goes on talking.
LEMMA TalkingIs == (Talking!Init => Talk!Init) /\ (Talking!Next => Talk!Next)
<1>1. Talking!Init => Talk!Init
  BY DEF Talking!Init, Talk!Init, Talking!NoFrame, Talk!NoFrame, Talking!Fresh, Talk!Fresh
<1>2. Talking!ReadHeader \/ Talking!HeaderFails \/ Talking!Prepare \/ Talking!Choose \/ Talking!Overrun
     => Talk!Next
  BY DEF Talk!Next, Talking!ReadHeader, Talk!ReadHeader, Talking!HeaderFails, Talk!HeaderFails,
         Talking!Prepare, Talk!Prepare, Talking!Choose, Talk!Choose, Talking!Overrun,
         Talk!Overrun, Talking!Arrived, Talk!Arrived, Talking!Front,
         Talk!Front, Talking!After, Talk!After, Talking!Ended, Talk!Ended, Talking!post_done,
         Talk!post_done, Talking!Long, Talk!Long, Talking!BufferFor, Talk!BufferFor,
         Talking!FirstRead, Talk!FirstRead, Talking!ui, Talk!ui, Talking!server, Talk!server
<1>3. ASSUME NEW k \in 1..(FILE_MESSAGE + SLACK),
             Talking!ReceiveToBuffer(k) \/ Talking!ReceiveHead(k) \/ Talking!ReceiveRest(k)
      PROVE  Talk!Next
  <2>1. Talk!ReceiveToBuffer(k) \/ Talk!ReceiveHead(k) \/ Talk!ReceiveRest(k)
    BY <1>3 DEF Talking!ReceiveToBuffer, Talk!ReceiveToBuffer, Talking!ReceiveHead,
           Talk!ReceiveHead, Talking!ReceiveRest, Talk!ReceiveRest, Talking!Recv, Talk!Recv,
           Talking!Arrived, Talk!Arrived,
           Talking!After, Talk!After, Talking!Front, Talk!Front, Talking!Counted,
           Talk!Counted, Talking!post_write, Talk!post_write, Talking!TakenApart,
           Talk!TakenApart, Talking!NoFrame, Talk!NoFrame, Talking!remaining,
           Talk!remaining, Talking!ui, Talk!ui, Talking!server, Talk!server
  <2> QED BY <2>1 DEF Talk!Next
<1>4. Talking!BodyFails \/ Talking!Finish \/ Talking!SendPending \/ Talking!Reconnect => Talk!Next
  BY DEF Talk!Next, Talking!BodyFails, Talk!BodyFails, Talking!Finish, Talk!Finish, Talking!SendPending,
         Talk!SendPending, Talking!Reconnect, Talk!Reconnect, Talking!Ended, Talk!Ended,
         Talking!post_done, Talk!post_done, Talking!value, Talk!value, Talking!Fresh,
         Talk!Fresh, Talking!NoFrame, Talk!NoFrame, Talking!worker, Talk!worker, Talking!ui,
         Talk!ui, Talking!server, Talk!server
<1>5. Talking!Handle \/ Talking!UserChooses \/ Talking!UserCancels \/ Talking!LinkBreaks => Talk!Next
  BY DEF Talk!Next, Talking!Handle, Talk!Handle, Talking!UserChooses, Talk!UserChooses,
         Talking!UserCancels, Talk!UserCancels, Talking!LinkBreaks, Talk!LinkBreaks,
         Talking!Asks, Talk!Asks, Talking!NoFrame, Talk!NoFrame, Talking!InFrame,
         Talk!InFrame, Talking!NextFile, Talk!NextFile, Talking!worker, Talk!worker,
         Talking!ui, Talk!ui, Talking!server, Talk!server
<1>6. ASSUME NEW kind \in {"ask", "content", "other"}, NEW shape \in SoundShapes,
             Talking!ServerSends(kind, shape)
      PROVE  Talk!Next
  <2>1. Talk!ServerSends(kind, shape)
    BY <1>6 DEF Talking!ServerSends, Talk!ServerSends, Talking!worker, Talk!worker, Talking!ui,
           Talk!ui
  <2> QED BY <2>1 DEF Talk!Next
<1>7. Talking!Next => Talk!Next
  BY <1>2, <1>3, <1>4, <1>5, <1>6 DEF Talking!Next
<1> QED BY <1>1, <1>7

\* The connections that break.
LEMMA BreakingIs == (Breaking!Init => Break!Init) /\ (Breaking!Next => Break!Next)
<1>1. Breaking!Init => Break!Init
  BY DEF Breaking!Init, Break!Init, Breaking!NoFrame, Break!NoFrame, Breaking!Fresh,
         Break!Fresh
<1>2. Breaking!ReadHeader \/ Breaking!HeaderFails \/ Breaking!Prepare \/ Breaking!Choose \/ Breaking!Overrun
     => Break!Next
  BY DEF Break!Next, Breaking!ReadHeader, Break!ReadHeader, Breaking!HeaderFails, Break!HeaderFails,
         Breaking!Prepare, Break!Prepare, Breaking!Choose, Break!Choose, Breaking!Overrun,
         Break!Overrun, Breaking!Arrived, Break!Arrived, Breaking!Front,
         Break!Front, Breaking!After, Break!After, Breaking!Ended, Break!Ended,
         Breaking!post_done, Break!post_done, Breaking!Long, Break!Long, Breaking!BufferFor,
         Break!BufferFor, Breaking!FirstRead, Break!FirstRead, Breaking!ui, Break!ui,
         Breaking!server, Break!server
<1>3. ASSUME NEW k \in 1..(FILE_MESSAGE + SLACK),
             Breaking!ReceiveToBuffer(k) \/ Breaking!ReceiveHead(k) \/ Breaking!ReceiveRest(k)
      PROVE  Break!Next
  <2>1. Break!ReceiveToBuffer(k) \/ Break!ReceiveHead(k) \/ Break!ReceiveRest(k)
    BY <1>3 DEF Breaking!ReceiveToBuffer, Break!ReceiveToBuffer, Breaking!ReceiveHead,
           Break!ReceiveHead, Breaking!ReceiveRest, Break!ReceiveRest, Breaking!Recv,
           Break!Recv, Breaking!Arrived, Break!Arrived, Breaking!After, Break!After, Breaking!Front, Break!Front,
           Breaking!Counted, Break!Counted, Breaking!post_write, Break!post_write,
           Breaking!TakenApart, Break!TakenApart, Breaking!NoFrame, Break!NoFrame,
           Breaking!remaining, Break!remaining, Breaking!ui, Break!ui, Breaking!server,
           Break!server
  <2> QED BY <2>1 DEF Break!Next
<1>4. Breaking!BodyFails \/ Breaking!Finish \/ Breaking!SendPending \/ Breaking!Reconnect => Break!Next
  BY DEF Break!Next, Breaking!BodyFails, Break!BodyFails, Breaking!Finish, Break!Finish,
         Breaking!SendPending, Break!SendPending, Breaking!Reconnect, Break!Reconnect,
         Breaking!Ended, Break!Ended, Breaking!post_done, Break!post_done, Breaking!value,
         Break!value, Breaking!Fresh, Break!Fresh, Breaking!NoFrame, Break!NoFrame,
         Breaking!worker, Break!worker, Breaking!ui, Break!ui, Breaking!server, Break!server
<1>5. Breaking!Handle \/ Breaking!UserChooses \/ Breaking!UserCancels \/ Breaking!LinkBreaks => Break!Next
  BY DEF Break!Next, Breaking!Handle, Break!Handle, Breaking!UserChooses, Break!UserChooses,
         Breaking!UserCancels, Break!UserCancels, Breaking!LinkBreaks, Break!LinkBreaks,
         Breaking!Asks, Break!Asks, Breaking!NoFrame, Break!NoFrame, Breaking!InFrame,
         Break!InFrame, Breaking!NextFile, Break!NextFile, Breaking!worker, Break!worker,
         Breaking!ui, Break!ui, Breaking!server, Break!server
<1>6. ASSUME NEW kind \in {"ask", "content", "other"}, NEW shape \in SoundShapes,
             Breaking!ServerSends(kind, shape)
      PROVE  Break!Next
  <2>1. Break!ServerSends(kind, shape)
    BY <1>6 DEF Breaking!ServerSends, Break!ServerSends, Breaking!worker, Break!worker,
           Breaking!ui, Break!ui
  <2> QED BY <2>1 DEF Break!Next
<1>7. Breaking!Next => Break!Next
  BY <1>2, <1>3, <1>4, <1>5, <1>6 DEF Breaking!Next
<1> QED BY <1>1, <1>7

\* The encrypted frames that go out.
LEMMA CipherIs == (Out!Init => Cipher!Init) /\ (Out!Next => Cipher!Next)
<1>1. Out!Init => Cipher!Init
  BY DEF Out!Init, Cipher!Init
<1>2. ASSUME NEW m \in Encrypted, Out!SendDatagram(m) \/ Out!SendMessage(m)
      PROVE  Cipher!Next
  <2>1. Out!SendDatagram(m) => Cipher!SendDatagram(m)
    BY DEF Out!SendDatagram, Cipher!SendDatagram, Out!GoesRealtime, Cipher!GoesRealtime,
           Out!Compressed, Cipher!Compressed
  <2>2. /\ Out!content(m) = Cipher!content(m) /\ Out!size_n(m) = Cipher!size_n(m)
        /\ Out!Follows(m) = Cipher!Follows(m)
    BY DEF Out!Compressed, Cipher!Compressed, Out!Follows, Cipher!Follows, Out!TargetLength,
           Cipher!TargetLength, Out!in_content_size, Cipher!in_content_size, Out!Encrypted,
           Cipher!Encrypted, Out!content, Cipher!content, Out!size_n, Cipher!size_n
  <2>3. Out!Header(m) = Cipher!Header(m)
    BY <2>2 DEF Out!Header, Cipher!Header, Out!HeaderRange, Cipher!HeaderRange,
           Out!Compressed, Cipher!Compressed
  <2>4. Out!Announced(m) = Cipher!Announced(m) /\ Out!Decode(m) = Cipher!Decode(m)
    BY <2>2, <2>3 DEF Out!Announced, Cipher!Announced, Out!Decode, Cipher!Decode,
           Out!TargetLength, Cipher!TargetLength
  <2>5. \A o : Out!PutHeader(m, o) => Cipher!PutHeader(m, o)
    BY <2>4 DEF Out!PutHeader, Cipher!PutHeader, Out!Put, Cipher!Put
  <2>6. Out!SendMessage(m) => Cipher!SendMessage(m)
    BY <2>2, <2>5 DEF Out!SendMessage, Cipher!SendMessage, Out!GoesRealtime,
           Cipher!GoesRealtime, Out!Compressed, Cipher!Compressed, Out!Big, Cipher!Big,
           Out!Lost, Cipher!Lost, Out!Show, Cipher!Show
  <2> QED BY <1>2, <2>1, <2>6 DEF Cipher!Next
<1>3. Out!SendChunk \/ Out!ChunkFails \/ Out!LastChunk => Cipher!Next
  <2>1. \A m : /\ Out!content(m) = Cipher!content(m) /\ Out!size_n(m) = Cipher!size_n(m)
               /\ Out!Follows(m) = Cipher!Follows(m) /\ Out!Compressed(m) = Cipher!Compressed(m)
               /\ Out!TargetLength(m) = Cipher!TargetLength(m)
    BY DEF Out!Compressed, Cipher!Compressed, Out!Follows, Cipher!Follows, Out!TargetLength,
           Cipher!TargetLength, Out!in_content_size, Cipher!in_content_size, Out!Encrypted,
           Cipher!Encrypted, Out!content, Cipher!content, Out!size_n, Cipher!size_n
  <2>2. \A m : Out!Header(m) = Cipher!Header(m)
    BY <2>1 DEF Out!Header, Cipher!Header, Out!HeaderRange, Cipher!HeaderRange
  <2>3. \A m : Out!Decode(m) = Cipher!Decode(m)
    BY <2>1, <2>2 DEF Out!Decode, Cipher!Decode
  <2>4. Out!Chunks = Cipher!Chunks
    BY <2>1 DEF Out!Chunks, Cipher!Chunks
  <2>5. Out!chunk_size = Cipher!chunk_size
    BY <2>1, <2>4 DEF Out!chunk_size, Cipher!chunk_size
  <2>6. \A m, o, c : Out!Put(m, o, c) => Cipher!Put(m, o, c)
    BY <2>3 DEF Out!Put, Cipher!Put
  <2>7. Out!SendChunk => Cipher!SendChunk
    BY <2>4, <2>5, <2>6 DEF Out!SendChunk, Cipher!SendChunk
  <2>8. Out!ChunkFails => Cipher!ChunkFails
    BY <2>4, <2>5 DEF Out!ChunkFails, Cipher!ChunkFails, Out!Show, Cipher!Show, Out!Hide,
           Cipher!Hide
  <2>9. Out!LastChunk => Cipher!LastChunk
    BY <2>1, <2>4 DEF Out!LastChunk, Cipher!LastChunk, Out!Hide, Cipher!Hide
  <2> QED BY <2>7, <2>8, <2>9 DEF Cipher!Next
<1>4. Out!SendBlock \/ Out!BlockFails \/ Out!FileChanges \/ Out!LinkBreaks => Cipher!Next
  BY DEF Cipher!Next, Out!SendBlock, Cipher!SendBlock, Out!BlockFails, Cipher!BlockFails,
         Out!FileChanges, Cipher!FileChanges, Out!LinkBreaks, Cipher!LinkBreaks, Out!block,
         Cipher!block, Out!Hide, Cipher!Hide, Out!Compressed, Cipher!Compressed, Out!Follows,
         Cipher!Follows, Out!TargetLength, Cipher!TargetLength, Out!in_content_size,
         Cipher!in_content_size, Out!Encrypted, Cipher!Encrypted, Out!content, Cipher!content,
         Out!size_n, Cipher!size_n, Out!HeaderRange, Cipher!HeaderRange, Out!Header,
         Cipher!Header, Out!Big, Cipher!Big, Out!Announced, Cipher!Announced, Out!Decode,
         Cipher!Decode, Out!Put, Cipher!Put, Out!Lost, Cipher!Lost
<1>5. Out!Next => Cipher!Next
  BY <1>2, <1>3, <1>4 DEF Out!Next
<1> QED BY <1>1, <1>5

-----------------------------------------------------------------------------
(* What the instances assume of their constants. *)

\* The frames of the talking server and of the connections that break.
LEMMA TalkConstants == Talk!ReceiveAssumption /\ Break!ReceiveAssumption
BY PartsAssumption DEF PartsAssumption, Talking!ReceiveAssumption, Breaking!ReceiveAssumption,
   Talk!ReceiveAssumption, Break!ReceiveAssumption

\* The sizes of send_message, and the messages on both sides of its bounds.
LEMMA CipherConstants == Cipher!SizeAssumption
<1>1. Encrypted \subseteq [kind : {"event", "file", "data"}, owner : Nat, olen : Nat, tlen : Nat, vlen : Nat]
  BY DEF Encrypted, Data, Chunk
<1> QED BY <1>1 DEF Cipher!SizeAssumption, Cipher!Message, Chunk

-----------------------------------------------------------------------------
(* The invariant: each part keeps its own, and what does not move its beginning. *)

FramesInv ==
  IF part = "talking" THEN Talk!ReceiveInv
  ELSE IF part = "breaking" THEN Break!ReceiveInv
  ELSE ReceiveInv

\* It holds at first.
LEMMA FramesInit == PartsInit => FramesInv
<1> SUFFICES ASSUME PartsInit PROVE FramesInv
  OBVIOUS
<1>1. CASE part = "talking"
  <2>1. Talk!ReceiveInv
    BY <1>1, TalkingIs, TalkConstants, Talk!ReceiveInit DEF PartsInit
  <2> QED BY <1>1, <2>1 DEF FramesInv
<1>2. CASE part = "breaking"
  <2>1. Talking!Init => Break!Init
    BY DEF Talking!Init, Break!Init, Talking!Fresh, Break!Fresh, Talking!NoFrame, Break!NoFrame
  <2>2. Break!ReceiveInv
    BY <1>2, <2>1, TalkConstants, Break!ReceiveInit DEF PartsInit
  <2> QED BY <1>2, <2>2 DEF FramesInv
<1>3. CASE part \notin {"talking", "breaking"}
  <2>1. ReceiveInv
    BY <1>3, ReceiveInit DEF PartsInit
  <2> QED BY <1>3, <2>1 DEF FramesInv
<1> QED BY <1>1, <1>2, <1>3

\* Every step keeps it, a step of another part as well.
LEMMA FramesStep == FramesInv /\ [PartsNext]_parts => FramesInv'
<1> SUFFICES ASSUME FramesInv, [PartsNext]_parts PROVE FramesInv'
  OBVIOUS
<1>p. part' = part
  BY DEF PartsNext, parts
<1>v. UNCHANGED vars => UNCHANGED Talk!vars /\ UNCHANGED Break!vars
  BY DEF vars, worker, ui, server, Talk!vars, Talk!worker, Talk!ui, Talk!server,
         Break!vars, Break!worker, Break!ui, Break!server
<1>1. CASE part = "talking"
  <2>1. Talking!Next \/ UNCHANGED vars
    BY <1>1 DEF PartsNext, parts
  <2>2. Talk!ReceiveInv'
    BY <1>1, <1>v, <2>1, TalkingIs, TalkConstants, Talk!ReceiveStep, Talk!ReceiveStutters DEF FramesInv
  <2> QED BY <1>1, <1>p, <2>2 DEF FramesInv
<1>2. CASE part = "breaking"
  <2>1. Breaking!Next \/ UNCHANGED vars
    BY <1>2 DEF PartsNext, parts
  <2>2. Break!ReceiveInv'
    BY <1>2, <1>v, <2>1, BreakingIs, TalkConstants, Break!ReceiveStep, Break!ReceiveStutters DEF FramesInv
  <2> QED BY <1>2, <1>p, <2>2 DEF FramesInv
<1>3. CASE part \notin {"talking", "breaking"}
  <2>1. Next \/ UNCHANGED vars
    BY <1>3 DEF PartsNext, parts
  <2>2. ReceiveInv'
    BY <1>3, <2>1, ReceiveStep, ReceiveStutters DEF FramesInv
  <2> QED BY <1>3, <1>p, <2>2 DEF FramesInv
<1> QED BY <1>1, <1>2, <1>3

\* It holds at any time.
THEOREM FramesAlways == PartsSpec => []FramesInv
BY FramesInit, FramesStep, PTL DEF PartsSpec

\* What it says in the terms of the part that moves.
LEMMA FramesFollow == FramesInv => OpenedInTime /\ FramesStayApart /\ FileGetsItsFrame
<1> SUFFICES ASSUME FramesInv PROVE OpenedInTime /\ FramesStayApart /\ FileGetsItsFrame
  OBVIOUS
<1>1. CASE part = "talking"
  <2>1. /\ Talk!TypeOK /\ Talk!UndefinedIsExplained
        /\ Talk!EveryFrameHasItsPlace /\ Talk!FileGetsNextFrame
    BY <1>1, TalkConstants, Talk!ReceiveFollows DEF FramesInv
  <2>2. Talking!TypeOK /\ Talking!UndefinedIsExplained
    BY <2>1 DEF Talking!TypeOK, Talk!TypeOK, Talking!Frame, Talk!Frame,
                Talking!UndefinedIsExplained, Talk!UndefinedIsExplained, Talking!FilesOf, Talk!FilesOf
  <2>3. Talking!EveryFrameHasItsPlace /\ Talking!FileGetsNextFrame
    BY <2>1 DEF Talking!EveryFrameHasItsPlace, Talk!EveryFrameHasItsPlace, Talking!FilesOf, Talk!FilesOf,
                Talking!FileGetsNextFrame, Talk!FileGetsNextFrame, Talking!Sound, Talk!Sound,
                Talking!value, Talk!value
  <2> QED BY <1>1, <2>2, <2>3 DEF OpenedInTime, FramesStayApart, FileGetsItsFrame
<1>2. CASE part = "breaking"
  <2>1. /\ Break!TypeOK /\ Break!UndefinedIsExplained
        /\ Break!EveryFrameHasItsPlace /\ Break!FileGetsNextFrame
    BY <1>2, TalkConstants, Break!ReceiveFollows DEF FramesInv
  <2>2. Breaking!TypeOK /\ Breaking!UndefinedIsExplained
    BY <2>1 DEF Breaking!TypeOK, Break!TypeOK, Breaking!Frame, Break!Frame,
                Breaking!UndefinedIsExplained, Break!UndefinedIsExplained, Breaking!FilesOf, Break!FilesOf
  <2>3. Breaking!EveryFrameHasItsPlace /\ Breaking!FileGetsNextFrame
    BY <2>1 DEF Breaking!EveryFrameHasItsPlace, Break!EveryFrameHasItsPlace, Breaking!FilesOf, Break!FilesOf,
                Breaking!FileGetsNextFrame, Break!FileGetsNextFrame, Breaking!Sound, Break!Sound,
                Breaking!value, Break!value
  <2> QED BY <1>2, <2>2, <2>3 DEF OpenedInTime, FramesStayApart, FileGetsItsFrame
<1>3. CASE part \notin {"talking", "breaking"}
  <2>1. /\ TypeOK /\ StaysInStep /\ OpenedBetweenFrames /\ UndefinedIsExplained
        /\ EveryFrameHasItsPlace /\ FileGetsNextFrame
    BY <1>3, ReceiveFollows DEF FramesInv
  <2> QED BY <1>3, <2>1 DEF OpenedInTime, FramesStayApart, FileGetsItsFrame
<1> QED BY <1>1, <1>2, <1>3

\* PostFile has no lock: a server that is silent until it has the answer never lets a file be
\* opened while a frame is received, and with any server what get_message does with a frame is
\* defined, unless the file is opened after the frame's buffer was made, or the frame is a long
\* one that meets a file.
THEOREM OpensInTime == PartsSpec => []OpenedInTime
BY FramesAlways, FramesFollow, PTL

\* get_message takes the bytes of one frame and no other's, and each becomes one entry of the
\* queue, in order, with its value there or in a file.
THEOREM FramesAreApart == PartsSpec => []FramesStayApart
BY FramesAlways, FramesFollow, PTL

\* set_next_post_filename: a file opened between two frames gets the value of the next one
\* and nothing else, from a silent server that of the content it was chosen for.
THEOREM FilesGetFrames == PartsSpec => []FileGetsItsFrame
BY FramesAlways, FramesFollow, PTL

\* AES_encrypt and send_message: with a key too the server reads every message as it was
\* meant, whatever chunks carry it, except those whose last chunk is full.
THEOREM CipherArrives == PartsSpec => []EncryptedArriveWhole
<1>1. PartsInit => Cipher!Init
  BY CipherIs DEF PartsInit
<1>2. [PartsNext]_parts => [Cipher!Next]_Cipher!vars
  <2>1. PartsNext => Out!Next \/ UNCHANGED outgoing
    BY DEF PartsNext
  <2>2. UNCHANGED outgoing => UNCHANGED Cipher!vars
    BY DEF outgoing, Cipher!vars
  <2>3. UNCHANGED parts => UNCHANGED outgoing
    BY DEF parts
  <2> QED BY <2>1, <2>2, <2>3, CipherIs
<1>3. Cipher!Spec => []Cipher!FramesArriveWhole
  BY CipherConstants, Cipher!WholeFrames
<1>4. Cipher!FramesArriveWhole => EncryptedArriveWhole
  BY DEF EncryptedArriveWhole, Out!FramesArriveWhole, Cipher!FramesArriveWhole, Out!Sound,
         Cipher!Sound, Out!LastChunkVanishes, Cipher!LastChunkVanishes, Out!Fits, Cipher!Fits,
         Out!Delivered, Cipher!Delivered, Out!Big, Cipher!Big, Out!Compressed,
         Cipher!Compressed, Out!Follows, Cipher!Follows, Out!TargetLength,
         Cipher!TargetLength, Out!in_content_size, Cipher!in_content_size, Out!Encrypted,
         Cipher!Encrypted, Out!content, Cipher!content, Out!size_n, Cipher!size_n
<1> QED BY <1>1, <1>2, <1>3, <1>4, PTL DEF PartsSpec, Cipher!Spec
=============================================================================
