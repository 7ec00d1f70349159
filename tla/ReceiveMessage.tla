--------------------------- MODULE ReceiveMessage ---------------------------
(***************************************************************************)
(* get_message (messages.cpp): how a plain frame becomes parameters in the  *)
(* queue or, when the user chose a file to save to, bytes in that file.  The *)
(* worker thread receives; the user interface thread opens PostFile in the   *)
(* handler of MSG_SAVE_FILE2, at any moment, without a lock.  recv returns   *)
(* what is there, so a frame comes in pieces.  Bytes are counted.           *)
(***************************************************************************)
EXTENDS Integers, Sequences

CONSTANTS
  WORD,          \* bytes of the header
  FILE_MESSAGE,  \* bytes of a file frame that are buffered
  SLACK,         \* bytes the first read of a long file frame asks for beyond those
  Shapes,        \* what frames look like: their size, and the bytes before the value
  Patient,       \* whether the server is silent between the question and the answer
  MaxFrames,     \* bound: frames the server sends
  MaxBreaks      \* bound: connections that break

ASSUME ReceiveAssumption ==
  /\ WORD \in Nat \ {0} /\ FILE_MESSAGE \in Nat \ {0} /\ SLACK \in Nat \ {0}
  /\ Shapes \subseteq [size : Nat \ {0}, head : Nat]
  /\ \A s \in Shapes : s.head <= s.size /\ SLACK <= WORD + s.size
  /\ Patient \in BOOLEAN
  /\ MaxFrames \in Nat \ {0} /\ MaxBreaks \in Nat

\* A frame asks for a file name, brings what is to be saved, or anything else.
Frame == [kind : {"ask", "content", "other"}, shape : Shapes, id : 1..MaxFrames]

VARIABLES
  \* The worker thread, in get_message.
  wpc,          \* where it is: "poll" between two frames
  frame,        \* the frame whose header it read last
  rec_count,    \* bytes of its body received
  buf_size,     \* bytes the buffer holds
  initial_buf,  \* bytes to receive before a file frame is taken apart
  filemarker,   \* the file frame was taken apart, the rest is for the file
  PARAM,        \* what the parameters hold: a frame (0 if none) and bytes of value
  \* Shared by both threads.
  PostFile,     \* the open file as an index of files, 0 if there is none
  files,        \* history: the files opened so far
  queue,        \* the parameters handed to the user interface, all of them
  answer,       \* the answer on MessageStack
  \* The user interface thread.
  handled,      \* frames taken from the queue
  dialog,       \* whether the save dialog is open
  \* The server and the network.
  wire,         \* frames not received completely, with the bytes left of each
  link,         \* "up" or "down"
  waiting,      \* what the server does about the file: "no", "answer", "send"
  nsent,        \* frames sent
  breaks,       \* connections that broke
  \* History.
  received,     \* the frames received, and whether a file was opened meanwhile
  disturbed     \* a file was opened since the buffer of this frame was made

worker == <<wpc, frame, rec_count, buf_size, initial_buf, filemarker, PARAM>>
ui     == <<handled, dialog>>
server == <<waiting, nsent>>
vars   == <<worker, PostFile, files, queue, answer, ui, wire, link, server, breaks,
            received, disturbed>>

value(f) == f.shape.size - f.shape.head

NoFrame == 0
Fresh   == [frame |-> NoFrame, value |-> 0]

Init ==
  /\ wpc = "poll" /\ frame \in [kind : {"other"}, shape : Shapes, id : {1}]  \* not read yet
  /\ rec_count = 0 /\ buf_size = 0 /\ initial_buf = 0 /\ filemarker = FALSE /\ PARAM = Fresh
  /\ PostFile = 0 /\ files = <<>> /\ queue = <<>> /\ answer = "none"
  /\ handled = 0 /\ dialog = FALSE
  /\ wire = <<>> /\ link = "up" /\ waiting = "no" /\ nsent = 0 /\ breaks = 0
  /\ received = <<>> /\ disturbed = FALSE

-----------------------------------------------------------------------------
(* What is on the wire *)

Front == wire[1]

\* The wire without its first n bytes, which reach at most into the second frame.
After(n) ==
  IF n < Front.left THEN [wire EXCEPT ![1].left = @ - n]
  ELSE IF n = Front.left THEN Tail(wire)
  ELSE [Tail(wire) EXCEPT ![1].left = @ - (n - Front.left)]

\* As many bytes wait in the first two frames.
Arrived(n) ==
  wire # <<>> /\ (n <= Front.left \/ (Len(wire) > 1 /\ n - Front.left <= wire[2].left))

\* recv of up to n bytes returns some of those that arrived.
Recv(n, k) == k \in 1..n /\ Arrived(k) /\ wire' = After(k)

\* recv fails, or returns 0: the connection ended and everything was read.
Ended == link = "down" /\ wire = <<>>

-----------------------------------------------------------------------------
(* The worker thread *)

\* Mutant: a file is closed without forgetting it.
post_kept ==
  /\ files' = IF PostFile = 0 THEN files ELSE [files EXCEPT ![PostFile].closed = TRUE]
  /\ UNCHANGED PostFile

post_done ==
  /\ files' = IF PostFile = 0 THEN files ELSE [files EXCEPT ![PostFile].closed = TRUE]
  /\ PostFile' = 0

\* The header.  Out of step its bytes are those of a frame's body.
ReadHeader ==
  /\ wpc = "poll" /\ wire # <<>>
  /\ IF Front.left = WORD + Front.frame.shape.size
     THEN wpc' = "sized" /\ frame' = Front.frame /\ wire' = After(WORD)
     ELSE wpc' = "garbled" /\ UNCHANGED <<frame, wire>>
  /\ disturbed' = FALSE
  /\ UNCHANGED <<rec_count, buf_size, initial_buf, filemarker, PARAM, PostFile, files, queue,
                 answer, ui, link, server, breaks, received>>

\* With ETIMEDOUT in errno the file stays open and doWork goes round.
HeaderFails ==
  /\ wpc = "poll" /\ Ended
  /\ \/ wpc' = "reconnect" /\ post_done
     \/ UNCHANGED <<wpc, PostFile, files>>
  /\ UNCHANGED <<frame, rec_count, buf_size, initial_buf, filemarker, PARAM, queue, answer, ui,
                 wire, link, server, breaks, received, disturbed>>

Long(size) == PostFile # 0 /\ size > FILE_MESSAGE

\* Mutant: every long frame gets the short buffer.
ShortBuffer(size) == IF size > FILE_MESSAGE THEN FILE_MESSAGE ELSE size

\* The buffer is made for the frame or, when it goes to a file, for its beginning.
BufferFor(size) == IF Long(size) THEN FILE_MESSAGE ELSE size

FirstRead(size) == IF Long(size) THEN FILE_MESSAGE + SLACK ELSE IF PostFile # 0 THEN size ELSE 0

Prepare ==
  /\ wpc = "sized"
  /\ wpc' = "round" /\ rec_count' = 0 /\ filemarker' = FALSE
  /\ buf_size' = BufferFor(frame.shape.size)
  /\ initial_buf' = FirstRead(frame.shape.size)
  /\ files' = IF PostFile = 0 THEN files
              ELSE [files EXCEPT ![PostFile].met = Append(@, frame)]
  /\ UNCHANGED <<frame, PARAM, PostFile, queue, answer, ui, wire, link, server, breaks,
                 received, disturbed>>

\* Each round looks at PostFile anew.  A length below zero, and a buffer that is
\* too short for the rest of the frame, have no defined outcome.
Choose ==
  /\ wpc = "round"
  /\ wpc' = IF PostFile # 0
            THEN IF ~filemarker /\ rec_count > initial_buf THEN "undefined" ELSE "toFile"
            ELSE IF frame.shape.size > buf_size THEN "undefined" ELSE "toBuffer"
  /\ UNCHANGED <<frame, rec_count, buf_size, initial_buf, filemarker, PARAM, PostFile, files,
                 queue, answer, ui, wire, link, server, breaks, received, disturbed>>

\* The loop goes on while the frame is not complete.
Counted(n) ==
  /\ rec_count' = rec_count + n
  /\ wpc' = IF rec_count + n < frame.shape.size THEN "round" ELSE "ended"

ReceiveToBuffer(n) ==
  /\ wpc = "toBuffer"
  /\ Recv(frame.shape.size - rec_count, n)
  /\ Counted(n)
  /\ UNCHANGED <<frame, buf_size, initial_buf, filemarker, PARAM, PostFile, files, queue, answer,
                 ui, link, server, breaks, received, disturbed>>

\* post_write; without a file it writes nothing.
post_write(n) ==
  files' = IF PostFile = 0 THEN files ELSE [files EXCEPT ![PostFile].bytes = @ + n]

\* Mutant: the value stays in the parameters, too.
TakenApartKeeping ==
  [frame |-> IF frame.shape.head <= initial_buf THEN frame.id ELSE NoFrame, value |-> value(frame)]

\* The parameters read from the beginning of a file frame.
TakenApart ==
  [frame |-> IF frame.shape.head <= initial_buf THEN frame.id ELSE NoFrame, value |-> 0]

\* The first read of a long file frame asks for up to SLACK bytes more than buf_size, and
\* the buffer was allocated with one more.  What is written beyond it has no defined
\* outcome: anything (this action), or nothing where the allocator rounds the buffer up
\* (ReceiveHead).
Overrun ==
  /\ wpc = "toFile" /\ ~filemarker
  /\ \E n \in 1..(initial_buf - rec_count) : Arrived(n) /\ rec_count + n > buf_size + 1
  /\ wpc' = "overrun"
  /\ UNCHANGED <<frame, rec_count, buf_size, initial_buf, filemarker, PARAM, PostFile, files,
                 queue, answer, ui, wire, link, server, breaks, received, disturbed>>

\* The beginning of a file frame: once the buffer has as much as was asked for, the
\* parameters are read from it and what follows them is written.
ReceiveHead(n) ==
  LET head == frame.shape.head IN
  /\ wpc = "toFile" /\ ~filemarker
  /\ Recv(initial_buf - rec_count, n)
  /\ Counted(n)
  /\ IF rec_count + n = initial_buf
     THEN /\ filemarker' = TRUE
          /\ PARAM' = TakenApart
          /\ IF head < initial_buf THEN post_write(initial_buf - head) ELSE UNCHANGED files
     ELSE UNCHANGED <<filemarker, PARAM, files>>
  /\ UNCHANGED <<frame, buf_size, initial_buf, PostFile, queue, answer, ui, link, server, breaks,
                 received, disturbed>>

\* Mutant: the rest of the frame is asked for as if nothing had been received.
WholeBlock == buf_size

\* The rest of a file frame comes in blocks of the size of the buffer.
remaining ==
  IF frame.shape.size - rec_count > buf_size THEN buf_size ELSE frame.shape.size - rec_count

ReceiveRest(n) ==
  /\ wpc = "toFile" /\ filemarker
  /\ Recv(remaining, n)
  /\ Counted(n)
  /\ post_write(n)
  /\ UNCHANGED <<frame, buf_size, initial_buf, filemarker, PARAM, PostFile, queue, answer, ui,
                 link, server, breaks, received, disturbed>>

\* The body fails at the end of the connection, when RecvTimeout gives up on a
\* silent server, and when recv is asked for no bytes and returns none.  The file
\* stays open.
BodyFails ==
  /\ \/ wpc \in {"toBuffer", "toFile"} /\ Ended
     \/ wpc = "toBuffer" /\ wire = <<>>
     \/ wpc = "toFile" /\ ~filemarker /\ initial_buf = rec_count
  /\ wpc' = "reconnect"
  /\ UNCHANGED <<frame, rec_count, buf_size, initial_buf, filemarker, PARAM, PostFile, files,
                 queue, answer, ui, wire, link, server, breaks, received, disturbed>>

\* After the loop the frame is read from the buffer unless there is a file, which
\* is closed.  doWork puts the parameters into the queue either way.
Finish ==
  LET result == IF PostFile # 0 THEN PARAM
                ELSE [frame |-> frame.id, value |-> value(frame)]
  IN
  /\ wpc = "ended"
  /\ wpc' = "poll"
  /\ queue' = Append(queue, result)
  /\ received' = Append(received, [frame |-> frame, disturbed |-> disturbed])
  /\ PARAM' = Fresh
  /\ post_done
  /\ UNCHANGED <<frame, rec_count, buf_size, initial_buf, filemarker, answer, ui, wire, link,
                 server, breaks, disturbed>>

\* SendPending, between two frames.
SendPending ==
  /\ wpc = "poll" /\ answer # "none"
  /\ answer' = "none"
  /\ waiting' = IF link = "down" THEN waiting ELSE IF answer = "1" THEN "send" ELSE "no"
  /\ UNCHANGED <<worker, PostFile, files, queue, ui, wire, link, nsent, breaks, received, disturbed>>

\* CheckReconnect makes a new connection; a file that is open stays open.
Reconnect ==
  /\ wpc = "reconnect"
  /\ wpc' = "poll"
  /\ link' = "up" /\ wire' = <<>>
  /\ files' = IF PostFile = 0 THEN files ELSE [files EXCEPT ![PostFile].cut = TRUE]
  /\ UNCHANGED <<frame, rec_count, buf_size, initial_buf, filemarker, PARAM, PostFile, queue,
                 answer, ui, server, breaks, received, disturbed>>

-----------------------------------------------------------------------------
(* The user interface thread *)

Asks(p) == p.frame # NoFrame /\ \E k \in DOMAIN received :
  received[k].frame.id = p.frame /\ received[k].frame.kind = "ask"

\* Mutant: the question is answered before the file is chosen.
HandleAnswering ==
  /\ handled < Len(queue)
  /\ handled' = handled + 1
  /\ dialog' = (dialog \/ Asks(queue[handled + 1]))
  /\ answer' = IF Asks(queue[handled + 1]) THEN "1" ELSE answer
  /\ UNCHANGED <<worker, PostFile, files, queue, wire, link, server, breaks, received, disturbed>>

Handle ==
  /\ handled < Len(queue)
  /\ handled' = handled + 1
  /\ dialog' = (dialog \/ Asks(queue[handled + 1]))
  /\ UNCHANGED <<worker, PostFile, files, queue, answer, wire, link, server, breaks, received,
                 disturbed>>

\* The worker is past the place where it makes its buffer.
InFrame == wpc \in {"round", "toFile", "toBuffer", "ended", "undefined", "overrun"}

\* Mutant: what fopen returns is not looked at.
FileAnyway(opened) == Len(files) + 1

NextFile(opened) == IF opened THEN Len(files) + 1 ELSE 0

\* set_next_post_filename: the open file is closed and the chosen one opened, if
\* fopen can.  The answer is 1 in both cases.
UserChooses ==
  /\ dialog /\ answer = "none"
  /\ \E opened \in BOOLEAN :
       LET old == IF PostFile = 0 THEN files ELSE [files EXCEPT ![PostFile].closed = TRUE]
           new == [met |-> <<>>, bytes |-> 0, closed |-> FALSE,
                   cut |-> (link = "down" \/ wpc = "reconnect"), mid |-> InFrame]
       IN
       /\ files' = IF opened THEN Append(old, new) ELSE old
       /\ PostFile' = NextFile(opened)
  /\ disturbed' = (disturbed \/ InFrame)
  /\ answer' = "1" /\ dialog' = FALSE
  /\ UNCHANGED <<worker, queue, handled, wire, link, server, breaks, received>>

UserCancels ==
  /\ dialog /\ answer = "none"
  /\ answer' = "0" /\ dialog' = FALSE
  /\ UNCHANGED <<worker, PostFile, files, queue, handled, wire, link, server, breaks, received,
                 disturbed>>

-----------------------------------------------------------------------------
(* The server and the network *)

\* The server asks once at a time, sends the content when the answer is 1, and if
\* it is patient nothing else in between.
ServerSends(kind, shape) ==
  /\ link = "up" /\ nsent < MaxFrames
  /\ CASE kind = "ask"     -> waiting = "no" /\ waiting' = "answer"
       [] kind = "content" -> waiting = "send" /\ waiting' = "no"
       [] kind = "other"   -> (Patient => waiting = "no") /\ UNCHANGED waiting
  /\ nsent' = nsent + 1
  /\ wire' = Append(wire, [frame |-> [kind |-> kind, shape |-> shape, id |-> nsent + 1],
                           left |-> WORD + shape.size])
  /\ UNCHANGED <<worker, PostFile, files, queue, answer, ui, link, breaks, received, disturbed>>

\* What arrived may still be read, or it is lost.
LinkBreaks ==
  /\ link = "up" /\ breaks < MaxBreaks
  /\ link' = "down" /\ breaks' = breaks + 1
  /\ wire' \in {wire, <<>>}
  /\ files' = IF PostFile = 0 THEN files ELSE [files EXCEPT ![PostFile].cut = TRUE]
  /\ UNCHANGED <<worker, PostFile, queue, answer, ui, server, received, disturbed>>

-----------------------------------------------------------------------------
Next ==
  \/ ReadHeader \/ HeaderFails \/ Prepare \/ Choose \/ Overrun
  \/ \E n \in 1..(FILE_MESSAGE + SLACK) : ReceiveToBuffer(n) \/ ReceiveHead(n) \/ ReceiveRest(n)
  \/ BodyFails \/ Finish \/ SendPending \/ Reconnect
  \/ Handle \/ UserChooses \/ UserCancels
  \/ \E kind \in {"ask", "content", "other"}, shape \in Shapes : ServerSends(kind, shape)
  \/ LinkBreaks

Spec == Init /\ [][Next]_vars

-----------------------------------------------------------------------------
TypeOK ==
  /\ wpc \in {"poll", "sized", "round", "toFile", "toBuffer", "ended", "reconnect", "garbled",
              "undefined", "overrun"}
  /\ frame \in Frame
  /\ rec_count \in Nat /\ buf_size \in Nat /\ initial_buf \in Nat /\ filemarker \in BOOLEAN
  /\ PARAM \in [frame : 0..MaxFrames, value : Nat]
  /\ files \in Seq([met : Seq(Frame), bytes : Nat, closed : BOOLEAN, cut : BOOLEAN, mid : BOOLEAN])
  /\ PostFile \in 0..Len(files)
  /\ queue \in Seq([frame : 0..MaxFrames, value : Nat])
  /\ answer \in {"none", "0", "1"}
  /\ handled \in 0..Len(queue) /\ dialog \in BOOLEAN
  /\ wire \in Seq([frame : Frame, left : Nat])
  /\ link \in {"up", "down"} /\ waiting \in {"no", "answer", "send"}
  /\ nsent \in 0..MaxFrames /\ breaks \in 0..MaxBreaks
  /\ received \in Seq([frame : Frame, disturbed : BOOLEAN]) /\ disturbed \in BOOLEAN

\* A frame that a file takes as it should: the first read asks for no more than the
\* frame has, and finds all the parameters.
Sound(f) ==
  /\ f.shape.size <= FILE_MESSAGE \/ f.shape.size >= FILE_MESSAGE + SLACK
  /\ f.shape.head <= FILE_MESSAGE + SLACK

\* The files that met a frame f.
FilesOf(f) == {k \in DOMAIN files : \E j \in DOMAIN files[k].met : files[k].met[j] = f}

\* However a frame comes in pieces, its reader takes its bytes and no other's.
\* Only a file frame that is longer than FILE_MESSAGE by less than SLACK can make
\* it take bytes of the next one.
StaysInStep ==
  wpc = "garbled" =>
    \E k \in DOMAIN files : \E j \in DOMAIN files[k].met : ~Sound(files[k].met[j])

\* PostFile is shared without a lock.  A server that is silent until it has the
\* answer never lets the file be opened while a frame is being received, nor the
\* kind of the read change under it.
OpenedBetweenFrames ==
  Patient => wpc # "undefined" /\ \A k \in DOMAIN files : ~files[k].mid

\* What happens to a frame is defined, with any server, unless a file is opened
\* after its buffer was made and before it was received (opening one earlier, even
\* between header and body, is harmless), and unless the frame is longer than
\* FILE_MESSAGE and meets a file: the first read of it may leave the buffer.
UndefinedIsExplained ==
  /\ wpc = "undefined" => disturbed
  /\ wpc = "overrun" => frame.shape.size > FILE_MESSAGE /\ FilesOf(frame) # {}

\* set_next_post_filename: a file opened between two frames gets the value of the
\* next one, all of it and nothing else, if the connection lasts and what was written
\* beyond the buffer did no harm; with a silent server that frame is the content the
\* file was chosen for.
FileGetsNextFrame ==
  \A k \in DOMAIN files :
    LET file == files[k] IN
    (file.closed /\ ~file.cut /\ ~file.mid) =>
      /\ Len(file.met) = 1
      /\ Sound(file.met[1]) => file.bytes = value(file.met[1])
      /\ Patient => file.met[1].kind = "content"

\* Each frame received becomes one entry of the queue, in order, and its value is
\* there or in a file, never in both and never nowhere (where Overrun did no harm).
EveryFrameHasItsPlace ==
  \A k \in DOMAIN queue :
    LET r == received[k] IN
    (~r.disturbed /\ Sound(r.frame)) =>
      /\ queue[k].frame = r.frame.id
      /\ queue[k].value = IF FilesOf(r.frame) = {} THEN value(r.frame) ELSE 0
=============================================================================
