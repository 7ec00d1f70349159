------------------------ MODULE ReceiveMessageProofs ------------------------
(***************************************************************************)
(* Frames in pieces and the file that is opened for one of them, for any      *)
(* sizes and shapes of frames, any server and any number of frames and        *)
(* breaks: the reader stays in step, what happens to a frame is defined        *)
(* unless a file is opened while it is received or a long frame meets a file,   *)
(* a file gets the frame it was opened for, and every frame has its place.     *)
(***************************************************************************)
EXTENDS ReceiveMessage, SequenceTheorems, TLAPS

Item == [frame : Frame, left : Nat]
File == [met : Seq(Frame), bytes : Nat, closed : BOOLEAN, cut : BOOLEAN, mid : BOOLEAN]
Entry == [frame : 0..MaxFrames, value : Nat]
Record == [frame : Frame, disturbed : BOOLEAN]

-----------------------------------------------------------------------------
(* Sequences *)

\* What appending an element does.
LEMMA OneMore ==
  ASSUME NEW T, NEW s \in Seq(T), NEW e \in T
  PROVE  /\ Append(s, e) \in Seq(T) /\ Len(Append(s, e)) = Len(s) + 1 /\ Len(s) \in Nat
         /\ Append(s, e)[Len(s) + 1] = e
         /\ \A k \in 1..Len(s) : Append(s, e)[k] = s[k]
  OBVIOUS

\* What taking the first element does.
LEMMA OneLess ==
  ASSUME NEW T, NEW s \in Seq(T), s # <<>>
  PROVE  /\ Len(s) \in Nat \ {0} /\ s[1] \in T
         /\ Tail(s) \in Seq(T) /\ Len(Tail(s)) = Len(s) - 1
         /\ \A k \in 1..Len(Tail(s)) : k + 1 \in 1..Len(s) /\ Tail(s)[k] = s[k + 1]
  OBVIOUS

\* What replacing an element does.
LEMMA OneOther ==
  ASSUME NEW T, NEW s \in Seq(T), NEW n \in 1..Len(s), NEW e \in T
  PROVE  /\ [s EXCEPT ![n] = e] \in Seq(T) /\ Len([s EXCEPT ![n] = e]) = Len(s)
         /\ [s EXCEPT ![n] = e][n] = e
         /\ \A k \in 1..Len(s) : k # n => [s EXCEPT ![n] = e][k] = s[k]
  OBVIOUS

-----------------------------------------------------------------------------
(* What the types say of a frame, and what recv takes from the wire. *)

\* Frames have a body, and the bytes before the value are a part of it.
LEMMA FrameSizes ==
  ASSUME NEW f \in Frame
  PROVE  /\ f.shape \in Shapes /\ f.shape.size \in Nat \ {0} /\ f.shape.head \in Nat
         /\ f.shape.head <= f.shape.size /\ value(f) \in Nat
         /\ SLACK <= WORD + f.shape.size
         /\ f.id \in 1..MaxFrames /\ f.id \in Nat \ {0} /\ f.kind \in {"ask", "content", "other"}
         /\ WORD \in Nat \ {0} /\ FILE_MESSAGE \in Nat \ {0} /\ SLACK \in Nat \ {0}
<1>1. f.shape \in Shapes /\ f.id \in 1..MaxFrames /\ f.kind \in {"ask", "content", "other"}
  BY DEF Frame
<1>2. f.shape \in [size : Nat \ {0}, head : Nat]
  BY <1>1, ReceiveAssumption DEF ReceiveAssumption
<1>3. f.shape.size \in Nat \ {0} /\ f.shape.head \in Nat
  BY <1>2
<1>4. f.shape.head <= f.shape.size /\ SLACK <= WORD + f.shape.size
  BY <1>1, ReceiveAssumption DEF ReceiveAssumption
<1>5. /\ WORD \in Nat \ {0} /\ FILE_MESSAGE \in Nat \ {0} /\ SLACK \in Nat \ {0}
      /\ MaxFrames \in Nat
  BY ReceiveAssumption DEF ReceiveAssumption
<1> QED BY <1>1, <1>3, <1>4, <1>5 DEF value

\* What is on a wire.
LEMMA Items ==
  ASSUME NEW w \in Seq(Item), NEW k \in 1..Len(w)
  PROVE  /\ w[k] \in Item /\ w[k].frame \in Frame /\ w[k].left \in Nat
         /\ w[k].frame.id \in Nat \ {0} /\ w[k].frame.shape.size \in Nat \ {0}
<1>1. w[k] \in Item
  OBVIOUS
<1>2. w[k].frame \in Frame /\ w[k].left \in Nat
  BY <1>1 DEF Item
<1> QED BY <1>1, <1>2, FrameSizes

\* The front loses bytes, is gone, or is gone with bytes of the one behind it.
LEMMA Taken ==
  ASSUME wire \in Seq(Item), NEW m \in Int, NEW n \in Int, Recv(m, n)
  PROVE  /\ n \in 1..m /\ wire # <<>> /\ wire' \in Seq(Item) /\ Len(wire) \in Nat \ {0}
         /\ wire[1] \in Item
         /\ \/ /\ n < wire[1].left /\ Len(wire') = Len(wire)
               /\ wire'[1].frame = wire[1].frame /\ wire'[1].left = wire[1].left - n
               /\ \A k \in 2..Len(wire) : wire'[k] = wire[k]
            \/ /\ n = wire[1].left /\ Len(wire') = Len(wire) - 1
               /\ \A k \in 1..Len(wire') : wire'[k] = wire[k + 1]
            \/ /\ n > wire[1].left /\ Len(wire) > 1 /\ Len(wire') = Len(wire) - 1
               /\ wire'[1].frame = wire[2].frame
               /\ wire[2] \in Item
               /\ n - wire[1].left <= wire[2].left
               /\ wire'[1].left = wire[2].left - (n - wire[1].left)
               /\ \A k \in 2..Len(wire') : wire'[k] = wire[k + 1]
<1>1. /\ n \in 1..m /\ wire # <<>> /\ wire' = After(n)
      /\ n <= wire[1].left \/ (Len(wire) > 1 /\ n - wire[1].left <= wire[2].left)
  BY DEF Recv, Arrived, Front
<1>2. /\ Len(wire) \in Nat \ {0} /\ wire[1] \in Item
      /\ Tail(wire) \in Seq(Item) /\ Len(Tail(wire)) = Len(wire) - 1
      /\ \A k \in 1..Len(Tail(wire)) : k + 1 \in 1..Len(wire) /\ Tail(wire)[k] = wire[k + 1]
  BY <1>1, OneLess
<1>3. wire[1].frame \in Frame /\ wire[1].left \in Nat
  BY <1>2 DEF Item
<1>4. CASE n < wire[1].left
  <2> DEFINE e == [wire[1] EXCEPT !.left = @ - n]
  <2>1. wire' = [wire EXCEPT ![1] = e]
    BY <1>1, <1>4 DEF After, Front
  <2>2. e.left = wire[1].left - n /\ e.frame = wire[1].frame /\ e \in Item
    BY <1>1, <1>2, <1>3, <1>4 DEF Item
  <2> HIDE DEF e
  <2>3. 1 \in 1..Len(wire)
    BY <1>2
  <2>4. /\ wire' \in Seq(Item) /\ Len(wire') = Len(wire) /\ wire'[1] = e
        /\ \A k \in 1..Len(wire) : k # 1 => wire'[k] = wire[k]
    BY <2>1, <2>2, <2>3, OneOther
  <2>5. \A k \in 2..Len(wire) : wire'[k] = wire[k]
    BY <1>2, <2>4
  <2>6. wire'[1].frame = wire[1].frame /\ wire'[1].left = wire[1].left - n
    BY <2>2, <2>4
  <2> QED BY <1>1, <1>2, <1>4, <2>4, <2>5, <2>6
<1>5. CASE n = wire[1].left
  <2>1. wire' = Tail(wire)
    BY <1>1, <1>5 DEF After, Front
  <2> QED BY <1>1, <1>2, <1>5, <2>1
<1>6. CASE n > wire[1].left
  <2> DEFINE e == [wire[2] EXCEPT !.left = @ - (n - wire[1].left)]
  <2>1. Len(wire) > 1 /\ n - wire[1].left <= wire[2].left
    BY <1>1, <1>3, <1>6
  <2>2. Tail(wire)[1] = wire[2] /\ 1 \in 1..Len(Tail(wire)) /\ wire[2] \in Item
    BY <1>2, <2>1
  <2>3. ~(n < wire[1].left) /\ n # wire[1].left
    BY <1>3, <1>6
  <2>4. wire' = [Tail(wire) EXCEPT ![1] = [Tail(wire)[1] EXCEPT !.left = @ - (n - wire[1].left)]]
    BY <1>1, <2>3 DEF After, Front
  <2>5. wire' = [Tail(wire) EXCEPT ![1] = e]
    BY <2>2, <2>4
  <2>6. e.left = wire[2].left - (n - wire[1].left) /\ e.frame = wire[2].frame /\ e \in Item
    BY SMTT(30), <1>1, <1>3, <1>6, <2>1, <2>2 DEF Item
  <2> HIDE DEF e
  <2> DEFINE r == Tail(wire)
  <2>r. r \in Seq(Item) /\ 1 \in 1..Len(r) /\ wire' = [r EXCEPT ![1] = e] /\ e \in Item
    BY <1>2, <2>2, <2>5, <2>6
  <2> HIDE DEF r
  <2>o. /\ wire' \in Seq(Item) /\ Len(wire') = Len(r) /\ wire'[1] = e
        /\ \A k \in 1..Len(r) : k # 1 => wire'[k] = r[k]
    BY <2>r, OneOther
  <2>7. /\ wire' \in Seq(Item) /\ Len(wire') = Len(Tail(wire)) /\ wire'[1] = e
        /\ \A k \in 1..Len(Tail(wire)) : k # 1 => wire'[k] = Tail(wire)[k]
    BY <2>o DEF r
  <2>8. \A k \in 2..Len(wire') : wire'[k] = wire[k + 1]
    BY <1>2, <2>7
  <2>9. /\ wire'[1].frame = wire[2].frame /\ Len(wire') = Len(wire) - 1
        /\ wire'[1].left = wire[2].left - (n - wire[1].left)
    BY <1>2, <2>6, <2>7
  <2> QED BY <1>1, <1>2, <1>6, <2>1, <2>2, <2>7, <2>8, <2>9
<1> QED BY <1>1, <1>3, <1>4, <1>5, <1>6
-----------------------------------------------------------------------------
(* What becomes of the files. *)

\* The length of the files, and what one is.
LEMMA OpenFile ==
  ASSUME TypeOK
  PROVE  /\ files \in Seq(File) /\ Len(files) \in Nat /\ PostFile \in 0..Len(files)
         /\ PostFile # 0 => PostFile \in 1..Len(files)
         /\ DOMAIN files = 1..Len(files)
         /\ \A k \in 1..Len(files) :
              /\ files[k] \in File /\ files[k].met \in Seq(Frame) /\ files[k].bytes \in Nat
              /\ files[k].closed \in BOOLEAN /\ files[k].cut \in BOOLEAN /\ files[k].mid \in BOOLEAN
              /\ Len(files[k].met) \in Nat /\ DOMAIN files[k].met = 1..Len(files[k].met)
              /\ \A j \in 1..Len(files[k].met) : files[k].met[j] \in Frame
<1>1. files \in Seq(File) /\ PostFile \in 0..Len(files)
  BY DEF TypeOK, File
<1>2. Len(files) \in Nat /\ DOMAIN files = 1..Len(files)
  BY <1>1
<1>3. ASSUME NEW k \in 1..Len(files)
      PROVE  /\ files[k] \in File /\ files[k].met \in Seq(Frame) /\ files[k].bytes \in Nat
             /\ files[k].closed \in BOOLEAN /\ files[k].cut \in BOOLEAN /\ files[k].mid \in BOOLEAN
  <2>1. files[k] \in File
    BY <1>1, <1>2
  <2> QED BY <2>1 DEF File
<1>4. ASSUME NEW s \in Seq(Frame)
      PROVE  Len(s) \in Nat /\ DOMAIN s = 1..Len(s) /\ \A j \in 1..Len(s) : s[j] \in Frame
  OBVIOUS
<1>5. PostFile # 0 => PostFile \in 1..Len(files)
  BY <1>1, <1>2
<1> QED BY <1>1, <1>2, <1>3, <1>4, <1>5

\* The open file gets another record.
LEMMA Replaced ==
  ASSUME TypeOK, PostFile # 0, NEW e \in File, files' = [files EXCEPT ![PostFile] = e]
  PROVE  /\ files' \in Seq(File) /\ Len(files') = Len(files)
         /\ files'[PostFile] = e
         /\ \A k \in 1..Len(files) : k # PostFile => files'[k] = files[k]
<1>1. files \in Seq(File) /\ PostFile \in 1..Len(files)
  BY OpenFile
<1> QED BY <1>1, OneOther

\* All that may change in the open file, and in no other.
Meets(f) == files' = IF PostFile = 0 THEN files ELSE [files EXCEPT ![PostFile].met = Append(@, f)]
Closes == files' = IF PostFile = 0 THEN files ELSE [files EXCEPT ![PostFile].closed = TRUE]
Cuts == files' = IF PostFile = 0 THEN files ELSE [files EXCEPT ![PostFile].cut = TRUE]

\* The files are as many as before, and all is kept but what the argument names.
OthersSame == Len(files') = Len(files) /\ \A k \in 1..Len(files) : k # PostFile => files'[k] = files[k]

\* Prepare announces the frame to the open file.
LEMMA FileMeets ==
  ASSUME TypeOK, Meets(frame)
  PROVE  /\ files' \in Seq(File) /\ OthersSame
         /\ PostFile # 0 =>
              /\ files'[PostFile].met = Append(files[PostFile].met, frame)
              /\ files'[PostFile].bytes = files[PostFile].bytes
              /\ files'[PostFile].closed = files[PostFile].closed
              /\ files'[PostFile].cut = files[PostFile].cut
              /\ files'[PostFile].mid = files[PostFile].mid
<1>1. CASE PostFile = 0
  BY <1>1, OpenFile DEF Meets, OthersSame
<1>2. CASE PostFile # 0
  <2> DEFINE e == [files[PostFile] EXCEPT !.met = Append(@, frame)]
  <2>1. files' = [files EXCEPT ![PostFile] = e]
    BY <1>2 DEF Meets
  <2>2. files[PostFile] \in File /\ files[PostFile].met \in Seq(Frame) /\ frame \in Frame
    BY <1>2, OpenFile DEF TypeOK
  <2>3. Append(files[PostFile].met, frame) \in Seq(Frame)
    BY <2>2, OneMore
  <2>4. /\ e \in File /\ e.met = Append(files[PostFile].met, frame)
        /\ e.bytes = files[PostFile].bytes /\ e.closed = files[PostFile].closed
        /\ e.cut = files[PostFile].cut /\ e.mid = files[PostFile].mid
    BY <2>2, <2>3 DEF File
  <2> HIDE DEF e
  <2> QED BY <1>2, <2>1, <2>4, Replaced DEF OthersSame
<1> QED BY <1>1, <1>2

\* post_done closes the open file and changes nothing else in it.
LEMMA FileCloses ==
  ASSUME TypeOK, Closes
  PROVE  /\ files' \in Seq(File) /\ OthersSame
         /\ PostFile # 0 =>
              /\ files'[PostFile].met = files[PostFile].met
              /\ files'[PostFile].bytes = files[PostFile].bytes
              /\ files'[PostFile].closed = TRUE
              /\ files'[PostFile].cut = files[PostFile].cut
              /\ files'[PostFile].mid = files[PostFile].mid
<1>1. CASE PostFile = 0
  BY <1>1, OpenFile DEF Closes, OthersSame
<1>2. CASE PostFile # 0
  <2> DEFINE e == [files[PostFile] EXCEPT !.closed = TRUE]
  <2>1. files' = [files EXCEPT ![PostFile] = e]
    BY <1>2 DEF Closes
  <2>2. files[PostFile] \in File
    BY <1>2, OpenFile
  <2>3. /\ e \in File /\ e.met = files[PostFile].met
        /\ e.bytes = files[PostFile].bytes /\ e.closed = TRUE
        /\ e.cut = files[PostFile].cut /\ e.mid = files[PostFile].mid
    BY <2>2 DEF File
  <2> HIDE DEF e
  <2> QED BY <1>2, <2>1, <2>3, Replaced DEF OthersSame
<1> QED BY <1>1, <1>2

\* A connection that breaks, or is made anew, marks the open file.
LEMMA FileCut ==
  ASSUME TypeOK, Cuts
  PROVE  /\ files' \in Seq(File) /\ OthersSame
         /\ PostFile # 0 =>
              /\ files'[PostFile].met = files[PostFile].met
              /\ files'[PostFile].bytes = files[PostFile].bytes
              /\ files'[PostFile].closed = files[PostFile].closed
              /\ files'[PostFile].cut = TRUE
              /\ files'[PostFile].mid = files[PostFile].mid
<1>1. CASE PostFile = 0
  BY <1>1, OpenFile DEF Cuts, OthersSame
<1>2. CASE PostFile # 0
  <2> DEFINE e == [files[PostFile] EXCEPT !.cut = TRUE]
  <2>1. files' = [files EXCEPT ![PostFile] = e]
    BY <1>2 DEF Cuts
  <2>2. files[PostFile] \in File
    BY <1>2, OpenFile
  <2>3. /\ e \in File /\ e.met = files[PostFile].met
        /\ e.bytes = files[PostFile].bytes /\ e.closed = files[PostFile].closed
        /\ e.cut = TRUE /\ e.mid = files[PostFile].mid
    BY <2>2 DEF File
  <2> HIDE DEF e
  <2> QED BY <1>2, <2>1, <2>3, Replaced DEF OthersSame
<1> QED BY <1>1, <1>2

\* post_write adds bytes to the open file.
LEMMA FileWritten ==
  ASSUME TypeOK, NEW n \in Nat, post_write(n)
  PROVE  /\ files' \in Seq(File) /\ OthersSame
         /\ PostFile # 0 =>
              /\ files'[PostFile].met = files[PostFile].met
              /\ files'[PostFile].bytes = files[PostFile].bytes + n
              /\ files'[PostFile].closed = files[PostFile].closed
              /\ files'[PostFile].cut = files[PostFile].cut
              /\ files'[PostFile].mid = files[PostFile].mid
<1>1. CASE PostFile = 0
  BY <1>1, OpenFile DEF post_write, OthersSame
<1>2. CASE PostFile # 0
  <2> DEFINE e == [files[PostFile] EXCEPT !.bytes = @ + n]
  <2>1. files' = [files EXCEPT ![PostFile] = e]
    BY <1>2 DEF post_write
  <2>2. files[PostFile] \in File /\ files[PostFile].bytes \in Nat
    BY <1>2, OpenFile
  <2>3. /\ e \in File /\ e.met = files[PostFile].met
        /\ e.bytes = files[PostFile].bytes + n /\ e.closed = files[PostFile].closed
        /\ e.cut = files[PostFile].cut /\ e.mid = files[PostFile].mid
    BY <2>2 DEF File
  <2> HIDE DEF e
  <2> QED BY <1>2, <2>1, <2>3, Replaced DEF OthersSame
<1> QED BY <1>1, <1>2

\* The user chooses: the open file is closed and perhaps one more opened.
LEMMA FileChosen ==
  ASSUME TypeOK, UserChooses
  PROVE  /\ files' \in Seq(File)
         /\ \A k \in 1..Len(files) :
              /\ k \in 1..Len(files') /\ k # PostFile => files'[k] = files[k]
              /\ files'[k].met = files[k].met /\ files'[k].bytes = files[k].bytes
              /\ files'[k].cut = files[k].cut /\ files'[k].mid = files[k].mid
         /\ \/ Len(files') = Len(files) /\ PostFile' = 0
            \/ /\ Len(files') = Len(files) + 1 /\ PostFile' = Len(files')
               /\ files'[PostFile'] = [met |-> <<>>, bytes |-> 0, closed |-> FALSE,
                                      cut |-> (link = "down" \/ wpc = "reconnect"), mid |-> InFrame]
<1> DEFINE old == IF PostFile = 0 THEN files ELSE [files EXCEPT ![PostFile].closed = TRUE]
           new == [met |-> <<>>, bytes |-> 0, closed |-> FALSE,
                   cut |-> (link = "down" \/ wpc = "reconnect"), mid |-> InFrame]
<1>1. PICK opened \in BOOLEAN : /\ files' = IF opened THEN Append(old, new) ELSE old
                                /\ PostFile' = NextFile(opened)
  BY DEF UserChooses
<1>2. /\ old \in Seq(File) /\ Len(old) = Len(files) /\ Len(files) \in Nat
      /\ \A k \in 1..Len(files) :
           /\ k # PostFile => old[k] = files[k]
           /\ old[k].met = files[k].met /\ old[k].bytes = files[k].bytes
           /\ old[k].cut = files[k].cut /\ old[k].mid = files[k].mid
  <2>1. CASE PostFile = 0
    BY <2>1, OpenFile
  <2>2. CASE PostFile # 0
    <3> DEFINE e == [files[PostFile] EXCEPT !.closed = TRUE]
    <3>1. old = [files EXCEPT ![PostFile] = e]
      BY <2>2
    <3>2. files[PostFile] \in File /\ files \in Seq(File) /\ PostFile \in 1..Len(files)
      BY <2>2, OpenFile
    <3>3. /\ e \in File /\ e.met = files[PostFile].met /\ e.bytes = files[PostFile].bytes
          /\ e.cut = files[PostFile].cut /\ e.mid = files[PostFile].mid
      BY <3>2 DEF File
    <3> HIDE DEF e, old
    <3>4. /\ old \in Seq(File) /\ Len(old) = Len(files) /\ old[PostFile] = e
          /\ \A k \in 1..Len(files) : k # PostFile => old[k] = files[k]
      BY <3>1, <3>2, <3>3, OneOther
    <3> QED BY <3>2, <3>3, <3>4
  <2> QED BY <2>1, <2>2
<1>3. new \in File
  <2>1. (link = "down" \/ wpc = "reconnect") \in BOOLEAN /\ InFrame \in BOOLEAN
    BY DEF InFrame
  <2>2. <<>> \in Seq(Frame)
    OBVIOUS
  <2> QED BY <2>1, <2>2 DEF File
<1> HIDE DEF old, new
<1>4. CASE opened
  <2>1. files' = Append(old, new) /\ PostFile' = Len(files) + 1
    BY <1>1, <1>4 DEF NextFile
  <2>2. /\ files' \in Seq(File) /\ Len(files') = Len(files) + 1 /\ files'[Len(files) + 1] = new
        /\ \A k \in 1..Len(files) : files'[k] = old[k]
    BY <1>2, <1>3, <2>1, OneMore
  <2> QED BY <1>2, <2>1, <2>2 DEF new
<1>5. CASE ~opened
  <2>1. files' = old /\ PostFile' = 0
    BY <1>1, <1>5 DEF NextFile
  <2> QED BY <1>2, <2>1
<1> QED BY <1>4, <1>5
-----------------------------------------------------------------------------
(* The types. *)

\* What the counters are, and the sizes of the frame that was read last.
LEMMA Counts ==
  ASSUME TypeOK
  PROVE  /\ rec_count \in Nat /\ buf_size \in Nat /\ initial_buf \in Nat /\ filemarker \in BOOLEAN
         /\ frame \in Frame /\ nsent \in Nat /\ nsent <= MaxFrames /\ handled \in Nat
         /\ frame.shape.size \in Nat \ {0} /\ frame.shape.head \in Nat
         /\ frame.shape.head <= frame.shape.size /\ frame.id \in 1..MaxFrames
         /\ frame.kind \in {"ask", "content", "other"}
         /\ PARAM.frame \in 0..MaxFrames /\ PARAM.frame \in Nat /\ MaxFrames \in Nat
         /\ Len(queue) \in Nat /\ Len(received) \in Nat /\ Len(wire) \in Nat
         /\ DOMAIN queue = 1..Len(queue) /\ DOMAIN received = 1..Len(received)
         /\ wire \in Seq(Item)
         /\ \A k \in 1..Len(received) :
              /\ received[k].frame \in Frame /\ received[k].disturbed \in BOOLEAN
              /\ received[k].frame.id \in Nat \ {0}
         /\ \A k \in 1..Len(queue) : queue[k].frame \in 0..MaxFrames /\ queue[k].frame \in Nat
         /\ \A k \in 1..Len(wire) :
              /\ wire[k].frame \in Frame /\ wire[k].left \in Nat
              /\ wire[k].frame.id \in Nat \ {0} /\ wire[k].frame.shape.size \in Nat \ {0}
<1>1. /\ frame \in Frame /\ wire \in Seq(Item) /\ received \in Seq(Record) /\ queue \in Seq(Entry)
      /\ PARAM \in Entry /\ nsent \in 0..MaxFrames /\ handled \in 0..Len(queue)
  BY DEF TypeOK, Item, Record, Entry
<1>2. MaxFrames \in Nat
  BY ReceiveAssumption DEF ReceiveAssumption
<1>3. /\ Len(queue) \in Nat /\ Len(received) \in Nat /\ Len(wire) \in Nat
      /\ DOMAIN queue = 1..Len(queue) /\ DOMAIN received = 1..Len(received)
  BY <1>1
<1>4. ASSUME NEW k \in 1..Len(received)
      PROVE  /\ received[k].frame \in Frame /\ received[k].disturbed \in BOOLEAN
             /\ received[k].frame.id \in Nat \ {0}
  <2>1. received[k] \in Record
    BY <1>1, <1>3
  <2> QED BY <2>1, FrameSizes DEF Record
<1>5. ASSUME NEW k \in 1..Len(queue) PROVE queue[k].frame \in 0..MaxFrames /\ queue[k].frame \in Nat
  <2>1. queue[k] \in Entry
    BY <1>1, <1>3
  <2> QED BY <2>1, <1>2 DEF Entry
<1>6. ASSUME NEW k \in 1..Len(wire)
      PROVE  /\ wire[k].frame \in Frame /\ wire[k].left \in Nat
             /\ wire[k].frame.id \in Nat \ {0} /\ wire[k].frame.shape.size \in Nat \ {0}
  <2>1. wire[k] \in Item
    BY <1>1, <1>3
  <2>2. wire[k].frame \in Frame /\ wire[k].left \in Nat
    BY <2>1 DEF Item
  <2> QED BY <2>2, FrameSizes
<1>7. PARAM.frame \in 0..MaxFrames /\ PARAM.frame \in Nat
  BY <1>1, <1>2 DEF Entry
<1>8. nsent \in Nat /\ nsent <= MaxFrames /\ handled \in Nat
  BY <1>1, <1>2, <1>3
<1>9. rec_count \in Nat /\ buf_size \in Nat /\ initial_buf \in Nat /\ filemarker \in BOOLEAN
  BY DEF TypeOK
<1> QED BY <1>1, <1>2, <1>3, <1>4, <1>5, <1>6, <1>7, <1>8, <1>9, FrameSizes

\* Every step keeps the types.
LEMMA TypesStep == TypeOK /\ Next => TypeOK'
<1> SUFFICES ASSUME TypeOK, Next PROVE TypeOK'
  OBVIOUS
<1>a. /\ MaxFrames \in Nat /\ MaxBreaks \in Nat
      /\ WORD \in Nat \ {0} /\ FILE_MESSAGE \in Nat \ {0} /\ SLACK \in Nat \ {0}
  BY ReceiveAssumption DEF ReceiveAssumption
<1>b. /\ rec_count \in Nat /\ buf_size \in Nat /\ initial_buf \in Nat
      /\ frame.shape.size \in Nat /\ frame.shape.head \in Nat
  BY Counts
<1>c. nsent \in Nat /\ handled \in Nat /\ Len(queue) \in Nat
  BY Counts
<1>d. wire \in Seq(Item)
  BY Counts
<1>f. ASSUME files' \in Seq(File), PostFile' \in 0..Len(files'), UNCHANGED <<worker, queue, handled, wire, link, server, breaks, received>>,
             answer' \in {"none", "0", "1"}, dialog' \in BOOLEAN, disturbed' \in BOOLEAN
      PROVE  TypeOK'
  BY <1>f DEF TypeOK, File, worker, server
<1>1. CASE ReadHeader
  <2>1. CASE Front.left = WORD + Front.frame.shape.size
    <3>0. wire # <<>> /\ wire[1].frame \in Frame /\ wire[1].left \in Nat
          /\ WORD < wire[1].left
      <4>1. wire # <<>>
        BY <1>1 DEF ReadHeader
      <4>2. 1 \in 1..Len(wire)
        BY <1>d, <4>1, OneLess
      <4>3. /\ wire[1].frame \in Frame /\ wire[1].left \in Nat
            /\ wire[1].frame.shape.size \in Nat \ {0}
        BY <4>2, Counts
      <4> QED BY <1>a, <2>1, <4>1, <4>3 DEF Front
    <3>1. Recv(WORD, WORD)
      BY <1>1, <1>a, <2>1, <3>0 DEF ReadHeader, Recv, Arrived, Front
    <3>2. wire' \in Seq(Item)
      BY <1>a, <3>1, Counts, Taken
    <3> QED BY <1>1, <2>1, <3>0, <3>2 DEF ReadHeader, TypeOK, Item, ui, server, Front
  <2>2. CASE Front.left # WORD + Front.frame.shape.size
    BY <1>1, <2>2 DEF ReadHeader, TypeOK, ui, server
  <2> QED BY <2>1, <2>2
<1>2. CASE HeaderFails
  <2>1. files' \in Seq(File) /\ PostFile' \in 0..Len(files')
    <3>1. CASE post_done
      BY <3>1, FileCloses, OpenFile DEF post_done, Closes, OthersSame
    <3>2. CASE UNCHANGED <<PostFile, files>>
      BY <3>2, OpenFile
    <3> QED BY <1>2, <3>1, <3>2 DEF HeaderFails
  <2> QED BY <1>2, <2>1 DEF HeaderFails, TypeOK, File, ui, server
<1>3. CASE Prepare
  <2>1. files' \in Seq(File) /\ PostFile' \in 0..Len(files')
    BY <1>3, FileMeets, OpenFile DEF Prepare, Meets, OthersSame
  <2>2. buf_size' \in Nat /\ initial_buf' \in Nat
    BY <1>3, <1>a, <1>b DEF Prepare, BufferFor, FirstRead
  <2> QED BY <1>3, <2>1, <2>2 DEF Prepare, TypeOK, File, ui, server
<1>4. CASE Choose \/ Overrun
  BY <1>4 DEF Choose, Overrun, TypeOK, ui, server
<1>5. ASSUME NEW n \in 1..(FILE_MESSAGE + SLACK),
             ReceiveToBuffer(n) \/ ReceiveHead(n) \/ ReceiveRest(n)
      PROVE  TypeOK'
  <2>1. n \in Nat
    BY <1>a
  <2>2. \A m \in Int : Recv(m, n) => wire' \in Seq(Item)
    BY <2>1, Counts, Taken
  <2>3. wire' \in Seq(Item)
    <3>1. /\ frame.shape.size - rec_count \in Int /\ initial_buf - rec_count \in Int
          /\ remaining \in Int
      BY <1>b DEF remaining
    <3> QED BY <1>5, <2>2, <3>1 DEF ReceiveToBuffer, ReceiveHead, ReceiveRest
  <2>4. rec_count' \in Nat /\ wpc' \in {"round", "ended"}
    BY SMTT(30), <1>5, <2>1, Counts DEF ReceiveToBuffer, ReceiveHead, ReceiveRest, Counted
  <2>5. CASE ReceiveToBuffer(n)
    BY <2>3, <2>4, <2>5 DEF ReceiveToBuffer, TypeOK, Item, ui, server
  <2>6. CASE ReceiveHead(n)
    <3>1. files' \in Seq(File) /\ Len(files') = Len(files)
      <4>1. CASE rec_count + n = initial_buf /\ frame.shape.head < initial_buf
        <5>1. initial_buf - frame.shape.head \in Nat /\ post_write(initial_buf - frame.shape.head)
          BY <1>b, <2>6, <4>1 DEF ReceiveHead
        <5> QED BY <5>1, FileWritten DEF OthersSame
      <4>2. CASE ~(rec_count + n = initial_buf /\ frame.shape.head < initial_buf)
        BY <2>6, <4>2, OpenFile DEF ReceiveHead
      <4> QED BY <4>1, <4>2
    <3>2. PARAM' \in [frame : 0..MaxFrames, value : Nat] /\ filemarker' \in BOOLEAN
      <4>1. TakenApart \in [frame : 0..MaxFrames, value : Nat]
        BY <1>a, Counts DEF TakenApart, NoFrame
      <4> QED BY <2>6, <4>1 DEF ReceiveHead, TypeOK
    <3> QED BY <2>3, <2>4, <2>6, <3>1, <3>2 DEF ReceiveHead, TypeOK, Item, File, ui, server
  <2>7. CASE ReceiveRest(n)
    <3>1. files' \in Seq(File) /\ Len(files') = Len(files)
      BY <2>1, <2>7, FileWritten DEF ReceiveRest, OthersSame
    <3> QED BY <2>3, <2>4, <2>7, <3>1 DEF ReceiveRest, TypeOK, Item, File, ui, server
  <2> QED BY <1>5, <2>5, <2>6, <2>7
<1>6. CASE BodyFails
  BY <1>6 DEF BodyFails, TypeOK, ui, server
<1>7. CASE Finish
  <2> DEFINE result == IF PostFile # 0 THEN PARAM ELSE [frame |-> frame.id, value |-> value(frame)]
             record == [frame |-> frame, disturbed |-> disturbed]
  <2>1. /\ result \in [frame : 0..MaxFrames, value : Nat]
        /\ record \in [frame : Frame, disturbed : BOOLEAN]
        /\ Fresh \in [frame : 0..MaxFrames, value : Nat]
    BY <1>a, Counts, FrameSizes DEF TypeOK, Fresh, NoFrame
  <2>2. queue' = Append(queue, result) /\ received' = Append(received, record) /\ PARAM' = Fresh
    BY <1>7 DEF Finish
  <2>3. /\ queue' \in Seq([frame : 0..MaxFrames, value : Nat]) /\ Len(queue') = Len(queue) + 1
        /\ received' \in Seq([frame : Frame, disturbed : BOOLEAN])
    <3> HIDE DEF result, record
    <3> QED BY <2>1, <2>2, OneMore DEF TypeOK
  <2>4. files' \in Seq(File) /\ PostFile' \in 0..Len(files')
    BY <1>7, FileCloses, OpenFile DEF Finish, post_done, Closes, OthersSame
  <2>5. handled' \in 0..Len(queue')
    BY <1>7, <2>3, Counts DEF Finish, TypeOK, ui
  <2> HIDE DEF result, record
  <2> QED BY <1>7, <2>1, <2>2, <2>3, <2>4, <2>5 DEF Finish, TypeOK, File, ui, server
<1>8. CASE SendPending
  BY <1>8 DEF SendPending, TypeOK, worker, ui
<1>9. CASE Reconnect
  <2>1. files' \in Seq(File) /\ PostFile' \in 0..Len(files')
    BY <1>9, FileCut, OpenFile DEF Reconnect, Cuts, OthersSame
  <2>2. wire' \in Seq([frame : Frame, left : Nat])
    BY <1>9 DEF Reconnect
  <2> QED BY <1>9, <2>1, <2>2 DEF Reconnect, TypeOK, File, ui, server
<1>10. CASE Handle
  <2>1. handled < Len(queue) /\ handled' = handled + 1 /\ queue' = queue
    BY <1>10 DEF Handle
  <2>2. handled' \in 0..Len(queue')
    BY <1>c, <2>1
  <2>3. dialog' \in BOOLEAN
    BY <1>10 DEF Handle
  <2> QED BY <1>10, <2>2, <2>3 DEF Handle, TypeOK, worker, server
<1>11. CASE UserChooses
  <2>1. files' \in Seq(File) /\ PostFile' \in 0..Len(files')
    BY <1>11, FileChosen, OpenFile
  <2>2. disturbed' \in BOOLEAN
    BY <1>11 DEF UserChooses, TypeOK, InFrame
  <2> QED BY <1>11, <1>f, <2>1, <2>2 DEF UserChooses
<1>12. CASE UserCancels
  BY <1>12 DEF UserCancels, TypeOK, worker, server
<1>13. ASSUME NEW kind \in {"ask", "content", "other"}, NEW shape \in Shapes, ServerSends(kind, shape)
       PROVE  TypeOK'
  <2> DEFINE f == [kind |-> kind, shape |-> shape, id |-> nsent + 1]
             e == [frame |-> f, left |-> WORD + shape.size]
  <2>1. nsent + 1 \in 1..MaxFrames /\ nsent' = nsent + 1
    BY <1>13, <1>a, <1>c DEF ServerSends
  <2>2. f \in Frame
    BY <2>1 DEF Frame
  <2>3. e \in Item
    BY <1>a, <2>2, FrameSizes DEF Item
  <2>4. wire' = Append(wire, e)
    BY <1>13 DEF ServerSends
  <2> HIDE DEF f, e
  <2>5. wire' \in Seq(Item)
    BY <2>3, <2>4, Counts, OneMore
  <2>6. waiting' \in {"no", "answer", "send"}
    BY <1>13 DEF ServerSends, TypeOK
  <2> QED BY SMTT(30), <1>13, <1>a, <2>1, <2>5, <2>6 DEF ServerSends, TypeOK, Item, worker, ui
<1>14. CASE LinkBreaks
  <2>1. files' \in Seq(File) /\ PostFile' \in 0..Len(files')
    BY <1>14, FileCut, OpenFile DEF LinkBreaks, Cuts, OthersSame
  <2>a. wire' \in {wire, <<>>} /\ breaks < MaxBreaks /\ breaks' = breaks + 1 /\ link' = "down"
    BY <1>14 DEF LinkBreaks
  <2>2. wire' \in Seq(Item)
    <3>1. <<>> \in Seq(Item)
      OBVIOUS
    <3>2. wire' = wire \/ wire' = <<>>
      BY <2>a
    <3> QED BY <1>d, <3>1, <3>2, Zenon
  <2>b. breaks \in 0..MaxBreaks
    BY DEF TypeOK
  <2>3. breaks' \in 0..MaxBreaks /\ link' \in {"up", "down"}
    BY <1>a, <2>a, <2>b
  <2> QED BY <1>14, <2>1, <2>2, <2>3 DEF LinkBreaks, TypeOK, File, Item, worker, ui, server
<1> QED BY <1>1, <1>2, <1>3, <1>4, <1>5, <1>6, <1>7, <1>8, <1>9, <1>10, <1>11, <1>12, <1>13, <1>14
        DEF Next
-----------------------------------------------------------------------------
(* The wire: frames in the order of their numbers, and only the front has lost bytes. *)

Size == frame.shape.size

\* Nothing of it was received.
Whole(e) == e.left = WORD + e.frame.shape.size

OnWire ==
  /\ \A k \in 1..Len(wire) :
       /\ wire[k].frame.id <= nsent
       /\ wire[k].left <= WORD + wire[k].frame.shape.size
       /\ k > 1 => Whole(wire[k])
  /\ \A j, k \in 1..Len(wire) : j < k => wire[j].frame.id < wire[k].frame.id

\* What is on the wire was there before, and no less of it.
Shrinks ==
  \A j \in 1..Len(wire') : \E i \in 1..Len(wire) :
    wire'[j].frame = wire[i].frame /\ (Whole(wire'[j]) => Whole(wire[i]))

\* recv takes bytes from the front of the wire only.
LEMMA RecvShrinks ==
  ASSUME TypeOK, OnWire, NEW m \in Int, NEW n \in Int, Recv(m, n), nsent' = nsent
  PROVE  Shrinks /\ OnWire'
<1>w. /\ wire \in Seq(Item) /\ Len(wire) \in Nat
      /\ \A k \in 1..Len(wire) :
           /\ wire[k].left \in Nat /\ wire[k].frame.id \in Nat
           /\ wire[k].frame.shape.size \in Nat
  BY Counts
<1>a. WORD \in Nat /\ nsent \in Nat
  BY Counts, ReceiveAssumption DEF ReceiveAssumption
<1>n. n \in 1..m /\ wire # <<>> /\ Len(wire) \in Nat \ {0} /\ n >= 1 /\ 1 \in 1..Len(wire)
  BY <1>w, Taken
<1>1. CASE /\ n < wire[1].left /\ Len(wire') = Len(wire)
           /\ wire'[1].frame = wire[1].frame /\ wire'[1].left = wire[1].left - n
           /\ \A k \in 2..Len(wire) : wire'[k] = wire[k]
  <2>1. ~Whole(wire'[1]) /\ wire'[1].left <= WORD + wire'[1].frame.shape.size
    BY SMTT(30), <1>1, <1>w, <1>a, <1>n DEF Whole, OnWire
  <2>2. \A k \in 1..Len(wire') : k \in 1..Len(wire) /\ wire'[k].frame = wire[k].frame
                              /\ (k = 1 \/ wire'[k] = wire[k])
    BY <1>1, <1>w
  <2>3. Shrinks
    BY <2>1, <2>2 DEF Shrinks
  <2>4. ASSUME NEW k \in 1..Len(wire')
        PROVE  /\ wire'[k].frame.id <= nsent
               /\ wire'[k].left <= WORD + wire'[k].frame.shape.size
               /\ k > 1 => Whole(wire'[k])
    <3>1. wire[k].frame.id <= nsent
      BY <2>2, <2>4 DEF OnWire
    <3>2. CASE k = 1
      BY <2>1, <2>2, <3>1, <3>2
    <3>3. CASE k # 1
      BY <2>2, <2>4, <3>3 DEF OnWire
    <3> QED BY <3>2, <3>3
  <2>5. \A j, k \in 1..Len(wire') : j < k => wire'[j].frame.id < wire'[k].frame.id
    BY <2>2 DEF OnWire
  <2>6. OnWire'
    BY <2>4, <2>5 DEF OnWire
  <2> QED BY <2>3, <2>6
<1>2. CASE /\ n = wire[1].left /\ Len(wire') = Len(wire) - 1
           /\ \A k \in 1..Len(wire') : wire'[k] = wire[k + 1]
  <2>0. \A k \in 1..Len(wire') : k + 1 \in 1..Len(wire) /\ wire'[k] = wire[k + 1] /\ k + 1 > 1
    BY <1>2, <1>w
  <2>1. \A k \in 1..Len(wire) : k > 1 => Whole(wire[k])
    BY DEF OnWire
  <2>2. Shrinks
    BY <2>0 DEF Shrinks
  <2>4. ASSUME NEW k \in 1..Len(wire')
        PROVE  /\ wire'[k].frame.id <= nsent
               /\ wire'[k].left <= WORD + wire'[k].frame.shape.size
               /\ Whole(wire'[k])
    BY <2>0, <2>1 DEF OnWire
  <2>5. ASSUME NEW j \in 1..Len(wire'), NEW k \in 1..Len(wire'), j < k
        PROVE  wire'[j].frame.id < wire'[k].frame.id
    <3>1. j + 1 < k + 1 /\ j + 1 \in 1..Len(wire) /\ k + 1 \in 1..Len(wire)
      BY <2>0, <2>5
    <3> QED BY <2>0, <3>1 DEF OnWire
  <2>6. OnWire'
    BY <2>4, <2>5 DEF OnWire
  <2> QED BY <2>2, <2>6
<1>3. CASE /\ n > wire[1].left /\ Len(wire) > 1 /\ Len(wire') = Len(wire) - 1
           /\ wire'[1].frame = wire[2].frame
           /\ wire[2] \in Item
           /\ n - wire[1].left <= wire[2].left
           /\ wire'[1].left = wire[2].left - (n - wire[1].left)
           /\ \A k \in 2..Len(wire') : wire'[k] = wire[k + 1]
  <2>0. wire[1].left \in Nat /\ wire[2].left \in Nat /\ wire[2].frame.shape.size \in Nat
        /\ 2 \in 1..Len(wire)
    BY <1>3, <1>w, <1>n
  <2>1. ~Whole(wire'[1]) /\ wire'[1].left <= WORD + wire'[1].frame.shape.size
    BY <1>3, <1>a, <2>0 DEF Whole, OnWire
  <2>2. \A k \in 1..Len(wire') : k + 1 \in 1..Len(wire) /\ wire'[k].frame = wire[k + 1].frame
                              /\ (k = 1 \/ wire'[k] = wire[k + 1]) /\ k + 1 > 1
    BY <1>3, <1>w
  <2>3. Shrinks
    BY <2>1, <2>2 DEF Shrinks
  <2>4. ASSUME NEW k \in 1..Len(wire')
        PROVE  /\ wire'[k].frame.id <= nsent
               /\ wire'[k].left <= WORD + wire'[k].frame.shape.size
               /\ k > 1 => Whole(wire'[k])
    <3>1. wire[k + 1].frame.id <= nsent /\ Whole(wire[k + 1])
      BY <2>2, <2>4 DEF OnWire
    <3>2. CASE k = 1
      BY <2>1, <2>2, <3>1, <3>2
    <3>3. CASE k # 1
      BY <2>2, <2>4, <3>1, <3>3 DEF OnWire
    <3> QED BY <3>2, <3>3
  <2>5. ASSUME NEW j \in 1..Len(wire'), NEW k \in 1..Len(wire'), j < k
        PROVE  wire'[j].frame.id < wire'[k].frame.id
    <3>1. j + 1 < k + 1 /\ j + 1 \in 1..Len(wire) /\ k + 1 \in 1..Len(wire)
      BY <2>2, <2>5
    <3> QED BY <2>2, <3>1 DEF OnWire
  <2>6. OnWire'
    BY <2>4, <2>5 DEF OnWire
  <2> QED BY <2>3, <2>6
<1> QED BY <1>1, <1>2, <1>3, <1>w, Taken

\* The header is read from a front that is whole.
LEMMA HeaderTaken ==
  ASSUME TypeOK, ReadHeader, Whole(wire[1])
  PROVE  /\ Recv(WORD, WORD) /\ wpc' = "sized" /\ frame' = wire[1].frame
         /\ wire # <<>> /\ 1 \in 1..Len(wire) /\ wire' # <<>>
         /\ wire'[1].frame = frame' /\ wire'[1].left = Size'
<1>a. WORD \in Nat \ {0}
  BY ReceiveAssumption DEF ReceiveAssumption
<1>1. wire # <<>> /\ wire \in Seq(Item)
  BY Counts DEF ReadHeader
<1>2. 1 \in 1..Len(wire)
  BY <1>1, OneLess
<1>3. wire[1].left \in Nat /\ wire[1].frame.shape.size \in Nat \ {0}
  BY <1>2, Counts
<1>4. WORD < wire[1].left
  BY <1>a, <1>3 DEF Whole
<1>5. wpc' = "sized" /\ frame' = wire[1].frame /\ wire' = After(WORD)
  BY DEF ReadHeader, Whole, Front
<1>6. Recv(WORD, WORD)
  BY <1>a, <1>1, <1>3, <1>4, <1>5 DEF Recv, Arrived, Front
<1>7. Len(wire') = Len(wire) /\ wire'[1].frame = wire[1].frame /\ wire'[1].left = wire[1].left - WORD
      /\ wire' \in Seq(Item)
  BY <1>a, <1>1, <1>2, <1>3, <1>4, <1>6, Taken
<1>8. wire' # <<>>
  BY <1>1, <1>2, <1>7
<1>9. wire'[1].left = Size'
  BY <1>a, <1>3, <1>5, <1>7 DEF Whole, Size
<1> QED BY <1>1, <1>2, <1>5, <1>6, <1>7, <1>8, <1>9

\* What each step does to the wire.
LEMMA WireChanges ==
  ASSUME TypeOK, Next
  PROVE  \/ nsent' = nsent /\ (wire' = wire \/ wire' = <<>>)
         \/ nsent' = nsent /\ \E m, n \in Int : Recv(m, n)
         \/ \E kind \in {"ask", "content", "other"}, shape \in Shapes : ServerSends(kind, shape)
<1>1. CASE ReadHeader
  <2>1. nsent' = nsent
    BY <1>1 DEF ReadHeader, server
  <2>2. CASE Whole(wire[1])
    <3>1. WORD \in Int
      BY ReceiveAssumption DEF ReceiveAssumption
    <3> QED BY <1>1, <2>1, <2>2, <3>1, HeaderTaken
  <2>3. CASE ~Whole(wire[1])
    BY <1>1, <2>1, <2>3 DEF ReadHeader, Whole, Front
  <2> QED BY <2>2, <2>3
<1>2. ASSUME NEW n \in 1..(FILE_MESSAGE + SLACK),
             ReceiveToBuffer(n) \/ ReceiveHead(n) \/ ReceiveRest(n)
      PROVE  nsent' = nsent /\ \E m, k \in Int : Recv(m, k)
  <2>1. /\ frame.shape.size - rec_count \in Int /\ initial_buf - rec_count \in Int
        /\ remaining \in Int /\ n \in Int
    BY SMTT(30), Counts, ReceiveAssumption DEF remaining, ReceiveAssumption
  <2> QED BY <1>2, <2>1 DEF ReceiveToBuffer, ReceiveHead, ReceiveRest, server
<1>3. CASE HeaderFails \/ Prepare \/ Choose \/ Overrun \/ BodyFails \/ Finish \/ SendPending
           \/ Handle \/ UserChooses \/ UserCancels
  BY <1>3 DEF HeaderFails, Prepare, Choose, Overrun, BodyFails, Finish, SendPending, Handle, UserChooses,
              UserCancels, server
<1>4. CASE Reconnect \/ LinkBreaks
  <2>1. nsent' = nsent /\ (wire' = wire \/ wire' = <<>>)
    BY <1>4 DEF Reconnect, LinkBreaks, server
  <2> QED BY <2>1
<1> QED BY <1>1, <1>2, <1>3, <1>4 DEF Next

\* The frame the server sends is whole, behind the others and newer than they are.
LEMMA Sent ==
  ASSUME TypeOK, NEW kind \in {"ask", "content", "other"}, NEW shape \in Shapes,
         ServerSends(kind, shape)
  PROVE  /\ nsent' = nsent + 1 /\ Len(wire') = Len(wire) + 1 /\ Whole(wire'[Len(wire')])
         /\ wire'[Len(wire')].frame = [kind |-> kind, shape |-> shape, id |-> nsent + 1]
         /\ wire'[Len(wire')].frame.kind = kind /\ wire'[Len(wire')].frame.id = nsent + 1
         /\ \A k \in 1..Len(wire) : wire'[k] = wire[k]
         /\ \A k \in 1..Len(wire') : k = Len(wire') \/ k \in 1..Len(wire)
<1> DEFINE f == [kind |-> kind, shape |-> shape, id |-> nsent + 1]
           e == [frame |-> f, left |-> WORD + shape.size]
<1>1. f.kind = kind /\ f.id = nsent + 1 /\ f.shape = shape /\ e.frame = f /\ e.left = WORD + shape.size
  OBVIOUS
<1>2. wire' = Append(wire, e) /\ nsent' = nsent + 1 /\ nsent < MaxFrames
  BY DEF ServerSends
<1>3. nsent + 1 \in 1..MaxFrames
  BY SMTT(30), <1>2, Counts
<1>4. e \in Item
  <2>1. f \in Frame
    BY <1>3 DEF Frame
  <2>2. WORD + shape.size \in Nat
    BY <1>1, <2>1, FrameSizes
  <2> QED BY <2>1, <2>2 DEF Item
<1> HIDE DEF f, e
<1>5. wire \in Seq(Item)
  BY Counts
<1>6. Len(wire') = Len(wire) + 1 /\ wire'[Len(wire) + 1] = e /\ Len(wire) \in Nat
      /\ \A k \in 1..Len(wire) : wire'[k] = wire[k]
  BY <1>2, <1>4, <1>5, OneMore
<1>7. Whole(e)
  BY <1>1 DEF Whole
<1>8. \A k \in 1..Len(wire') : k = Len(wire') \/ k \in 1..Len(wire)
  BY <1>6
<1> QED BY <1>1, <1>2, <1>6, <1>7, <1>8 DEF f

\* Every step keeps the order of the wire, and only the server adds to it.
LEMMA OnWireStep ==
  ASSUME TypeOK, OnWire, Next
  PROVE  /\ OnWire'
         /\ \/ nsent' = nsent /\ Shrinks
            \/ \E kind \in {"ask", "content", "other"}, shape \in Shapes : ServerSends(kind, shape)
<1>1. CASE nsent' = nsent /\ wire' = wire
  BY <1>1 DEF OnWire, Shrinks
<1>2. CASE nsent' = nsent /\ wire' = <<>>
  BY <1>2 DEF OnWire, Shrinks
<1>3. CASE nsent' = nsent /\ \E m, n \in Int : Recv(m, n)
  BY <1>3, RecvShrinks
<1>4. ASSUME NEW kind \in {"ask", "content", "other"}, NEW shape \in Shapes, ServerSends(kind, shape)
      PROVE  OnWire'
  <2>1. /\ nsent \in Nat /\ Len(wire) \in Nat
        /\ \A k \in 1..Len(wire) : wire[k].frame.id \in Nat
    BY Counts
  <2>2. wire' \in Seq(Item)
    BY TypesStep DEF TypeOK, Item
  <2>3. \A k \in 1..Len(wire') : wire'[k].frame.id \in Nat /\ wire'[k].left \in Nat
    BY <2>2, Items
  <2>4. /\ nsent' = nsent + 1 /\ Len(wire') = Len(wire) + 1 /\ Whole(wire'[Len(wire')])
        /\ wire'[Len(wire')].frame.id = nsent + 1
        /\ \A k \in 1..Len(wire) : wire'[k] = wire[k]
        /\ \A k \in 1..Len(wire') : k = Len(wire') \/ k \in 1..Len(wire)
    BY <1>4, Sent
  <2>5. wire'[Len(wire')].left <= WORD + wire'[Len(wire')].frame.shape.size
    <3>1. Len(wire') \in 1..Len(wire')
      BY <2>1, <2>4
    <3> QED BY <2>3, <2>4, <3>1 DEF Whole
  <2>6. ASSUME NEW k \in 1..Len(wire')
        PROVE  /\ wire'[k].frame.id <= nsent'
               /\ wire'[k].left <= WORD + wire'[k].frame.shape.size
               /\ k > 1 => Whole(wire'[k])
    BY <2>1, <2>4, <2>5 DEF OnWire
  <2>7. ASSUME NEW j \in 1..Len(wire'), NEW k \in 1..Len(wire'), j < k
        PROVE  wire'[j].frame.id < wire'[k].frame.id
    <3>1. j \in 1..Len(wire)
      BY <2>1, <2>4, <2>7
    <3> QED BY <2>1, <2>4, <2>7, <3>1 DEF OnWire
  <2> QED BY <2>6, <2>7 DEF OnWire
<1> QED BY <1>1, <1>2, <1>3, <1>4, WireChanges
-----------------------------------------------------------------------------
(* The frames that the files met. *)

Met(f) == \E k \in 1..Len(files) : \E j \in 1..Len(files[k].met) : files[k].met[j] = f

\* A file met a frame that a file does not take as it should.
Unsound == \E k \in 1..Len(files) : \E j \in 1..Len(files[k].met) : ~Sound(files[k].met[j])

\* A frame was met when some file has it among those it met.
LEMMA MetIs == TypeOK => \A f : Met(f) <=> FilesOf(f) # {}
<1> SUFFICES ASSUME TypeOK, NEW f PROVE Met(f) <=> FilesOf(f) # {}
  OBVIOUS
<1>1. /\ DOMAIN files = 1..Len(files)
      /\ \A k \in 1..Len(files) : DOMAIN files[k].met = 1..Len(files[k].met)
  BY OpenFile
<1> QED BY <1>1 DEF Met, FilesOf

\* The files keep what they met, and no file is forgotten.
MetsSame ==
  /\ \A k \in 1..Len(files) : k \in 1..Len(files') /\ files'[k].met = files[k].met
  /\ \A k \in 1..Len(files') : k \in 1..Len(files) \/ files'[k].met = <<>>

\* The open file meets the frame that was announced.
MetsMore ==
  /\ PostFile \in 1..Len(files) /\ Len(files') = Len(files)
  /\ \A k \in 1..Len(files) : k # PostFile => files'[k] = files[k]
  /\ files'[PostFile].met = Append(files[PostFile].met, frame)

\* A file meets frames in Prepare only.
LEMMA Mets ==
  ASSUME TypeOK, Next
  PROVE  MetsSame \/ (Prepare /\ MetsMore)
<1>o. /\ Len(files) \in Nat /\ PostFile # 0 => PostFile \in 1..Len(files)
  BY OpenFile
<1>s. OthersSame /\ (PostFile # 0 => files'[PostFile].met = files[PostFile].met) => MetsSame
  BY <1>o DEF OthersSame, MetsSame
<1>u. UNCHANGED files => MetsSame
  BY DEF MetsSame
<1>1. CASE ReadHeader \/ Choose \/ Overrun \/ BodyFails \/ SendPending \/ Handle \/ UserCancels
  BY <1>1, <1>u DEF ReadHeader, Choose, Overrun, BodyFails, SendPending, Handle, UserCancels
<1>2. CASE HeaderFails
  BY <1>2, <1>s, <1>u, FileCloses DEF HeaderFails, post_done, Closes
<1>3. CASE Prepare
  <2>1. CASE PostFile = 0
    BY <1>3, <1>u, <2>1 DEF Prepare
  <2>2. CASE PostFile # 0
    BY <1>3, <1>o, <2>2, FileMeets DEF Prepare, Meets, OthersSame, MetsMore
  <2> QED BY <2>1, <2>2
<1>4. ASSUME NEW n \in 1..(FILE_MESSAGE + SLACK),
             ReceiveToBuffer(n) \/ ReceiveHead(n) \/ ReceiveRest(n)
      PROVE  MetsSame
  <2>1. n \in Nat
    BY ReceiveAssumption DEF ReceiveAssumption
  <2>2. \A k \in Nat : post_write(k) => MetsSame
    BY <1>s, FileWritten
  <2>3. CASE ReceiveHead(n)
    <3>1. initial_buf \in Nat /\ frame.shape.head \in Nat
      BY Counts
    <3>2. frame.shape.head < initial_buf => initial_buf - frame.shape.head \in Nat
      BY <3>1
    <3> QED BY <1>u, <2>2, <2>3, <3>2 DEF ReceiveHead
  <2> QED BY <1>4, <1>u, <2>1, <2>2, <2>3 DEF ReceiveToBuffer, ReceiveRest
<1>5. CASE Finish
  BY <1>5, <1>s, FileCloses DEF Finish, post_done, Closes
<1>6. CASE Reconnect \/ LinkBreaks
  BY <1>6, <1>s, FileCut DEF Reconnect, LinkBreaks, Cuts
<1>7. CASE UserChooses
  <2>1. /\ \A k \in 1..Len(files) : k \in 1..Len(files') /\ files'[k].met = files[k].met
        /\ \/ Len(files') = Len(files)
           \/ /\ Len(files') = Len(files) + 1 /\ files'[Len(files')].met = <<>>
    BY <1>7, FileChosen
  <2> QED BY <1>o, <2>1 DEF MetsSame
<1>8. ASSUME NEW kind \in {"ask", "content", "other"}, NEW shape \in Shapes, ServerSends(kind, shape)
      PROVE  MetsSame
  BY <1>8, <1>u DEF ServerSends
<1> QED BY <1>1, <1>2, <1>3, <1>4, <1>5, <1>6, <1>7, <1>8 DEF Next

\* What was met stays met, and what is new is the frame that was announced.
LEMMA MetsKept ==
  ASSUME TypeOK, Next
  PROVE  /\ \A f : Met(f) => Met(f)'
         /\ Unsound => Unsound'
         /\ \A f : Met(f)' => Met(f) \/ (Prepare /\ PostFile # 0 /\ f = frame)
         /\ Prepare /\ PostFile # 0 => Met(frame)'
<1>1. CASE MetsSame
  <2>1. \A k \in 1..Len(files') : \A j \in 1..Len(files'[k].met) :
          k \in 1..Len(files) /\ j \in 1..Len(files[k].met) /\ files'[k].met[j] = files[k].met[j]
    BY <1>1 DEF MetsSame
  <2>2. \A k \in 1..Len(files) : k \in 1..Len(files') /\ files'[k].met = files[k].met
    BY <1>1 DEF MetsSame
  <2>3. ~(Prepare /\ PostFile # 0)
    <3> SUFFICES ASSUME Prepare, PostFile # 0 PROVE FALSE
      OBVIOUS
    <3>1. files'[PostFile].met = Append(files[PostFile].met, frame)
      BY FileMeets DEF Prepare, Meets
    <3>2. files[PostFile].met \in Seq(Frame) /\ PostFile \in 1..Len(files) /\ frame \in Frame
      BY OpenFile, Counts
    <3>3. files'[PostFile].met = files[PostFile].met
      BY <2>2, <3>2
    <3>4. Len(files'[PostFile].met) = Len(files[PostFile].met) + 1 /\ Len(files[PostFile].met) \in Nat
      BY <3>1, <3>2, OneMore
    <3> QED BY <3>3, <3>4
  <2> QED BY SMTT(30), <2>1, <2>2, <2>3 DEF Met, Unsound
<1>2. CASE Prepare /\ MetsMore
  <2> DEFINE m == files[PostFile].met
  <2>1. /\ PostFile \in 1..Len(files) /\ Len(files') = Len(files)
        /\ \A k \in 1..Len(files) : k # PostFile => files'[k] = files[k]
        /\ files'[PostFile].met = Append(m, frame)
    BY <1>2 DEF MetsMore
  <2>2. m \in Seq(Frame) /\ frame \in Frame
    BY <2>1, OpenFile, Counts
  <2> HIDE DEF m
  <2>3. /\ Len(files'[PostFile].met) = Len(m) + 1 /\ Len(m) \in Nat
        /\ files'[PostFile].met[Len(m) + 1] = frame
        /\ \A j \in 1..Len(m) : files'[PostFile].met[j] = m[j]
    BY <2>1, <2>2, OneMore
  <2>4. /\ Len(m) + 1 \in 1..Len(files'[PostFile].met)
        /\ \A j \in 1..Len(m) : j \in 1..Len(files'[PostFile].met)
        /\ \A j \in 1..Len(files'[PostFile].met) : j = Len(m) + 1 \/ j \in 1..Len(m)
    BY <2>3
  <2>5. \A k \in 1..Len(files) : \A j \in 1..Len(files[k].met) :
          k \in 1..Len(files') /\ j \in 1..Len(files'[k].met) /\ files'[k].met[j] = files[k].met[j]
    BY <2>1, <2>3, <2>4 DEF m
  <2>6. \A k \in 1..Len(files') : \A j \in 1..Len(files'[k].met) :
          \/ k \in 1..Len(files) /\ j \in 1..Len(files[k].met) /\ files'[k].met[j] = files[k].met[j]
          \/ files'[k].met[j] = frame
    BY <2>1, <2>3, <2>4 DEF m
  <2>7. Met(frame)'
    <3>1. frame' = frame
      BY <1>2 DEF Prepare
    <3> QED BY <2>1, <2>3, <2>4, <3>1 DEF Met
  <2>8. (\A f : Met(f) => Met(f)') /\ (Unsound => Unsound')
    BY <2>5 DEF Met, Unsound
  <2>9. \A f : Met(f)' => Met(f) \/ f = frame
    BY <2>6 DEF Met
  <2>10. PostFile # 0
    BY <2>1
  <2> QED BY <1>2, <2>7, <2>8, <2>9, <2>10
<1> QED BY <1>1, <1>2, Mets

-----------------------------------------------------------------------------
(* The reader is in step: what is left of a frame on the wire is what it expects. *)

Receiving == wpc \in {"round", "toFile", "toBuffer"}

InStep ==
  /\ wpc = "sized" /\ (link = "up" \/ wire # <<>>) =>
       wire # <<>> /\ wire[1].frame = frame /\ wire[1].left = Size
  /\ Receiving => rec_count < Size
  /\ Receiving /\ (link = "up" \/ wire # <<>>) =>
       wire # <<>> /\ wire[1].frame = frame /\ wire[1].left = Size - rec_count
  /\ wpc = "ended" => rec_count >= Size /\ (rec_count = Size \/ initial_buf > Size)
  /\ wpc \in {"poll", "ended"} /\ wire # <<>> => Whole(wire[1]) \/ Unsound
  /\ wpc = "garbled" => Unsound
  /\ InFrame /\ initial_buf > Size => Unsound

\* A read goes on with the frame, or ends it and leaves those behind it.
LEMMA Receives ==
  ASSUME TypeOK, OnWire, InStep,
         NEW n \in 1..(FILE_MESSAGE + SLACK), ReceiveToBuffer(n) \/ ReceiveHead(n) \/ ReceiveRest(n)
  PROVE  /\ Receiving /\ rec_count' = rec_count + n /\ n \in Nat \ {0}
         /\ UNCHANGED <<frame, initial_buf, buf_size, PostFile, link, nsent, disturbed, queue, received,
                        answer, handled, dialog, waiting>>
         /\ \E m \in Int : Recv(m, n) /\ (m = initial_buf - rec_count \/ m <= Size - rec_count)
         /\ \/ /\ wpc' = "round" /\ rec_count' < Size
               /\ wire' # <<>> /\ wire'[1].frame = frame /\ wire'[1].left = Size - rec_count'
            \/ /\ wpc' = "ended" /\ rec_count' >= Size /\ (rec_count' = Size \/ initial_buf > Size)
               /\ \A k \in 1..Len(wire') :
                    k + 1 \in 1..Len(wire) /\ wire'[k].frame = wire[k + 1].frame
               /\ rec_count' = Size /\ wire' # <<>> => Whole(wire'[1])
<1>c. /\ rec_count \in Nat /\ initial_buf \in Nat /\ buf_size \in Nat /\ Size \in Nat \ {0}
      /\ wire \in Seq(Item)
  BY Counts DEF Size
<1>n. n \in Nat \ {0} /\ n \in Int
  BY ReceiveAssumption DEF ReceiveAssumption
<1>1. PICK m \in Int : Recv(m, n) /\ (m = initial_buf - rec_count \/ m <= Size - rec_count)
  <2>1. /\ Size - rec_count \in Int /\ initial_buf - rec_count \in Int /\ remaining \in Int
        /\ remaining <= Size - rec_count
    BY <1>c DEF remaining, Size
  <2> QED BY <2>1 DEF ReceiveToBuffer, ReceiveHead, ReceiveRest, Size
<1>2. /\ Receiving /\ Counted(n)
      /\ UNCHANGED <<frame, initial_buf, buf_size, PostFile, link, nsent, disturbed, queue, received,
                     answer, handled, dialog, waiting>>
  BY DEF ReceiveToBuffer, ReceiveHead, ReceiveRest, Receiving, ui, server
<1>3. /\ rec_count' = rec_count + n
      /\ wpc' = IF rec_count + n < Size THEN "round" ELSE "ended"
  BY <1>2 DEF Counted, Size
<1>4. wire # <<>> /\ n \in 1..m /\ wire' \in Seq(Item) /\ Len(wire) \in Nat \ {0} /\ n <= m
  BY <1>1, <1>c, <1>n, Taken
<1>5. wire[1].frame = frame /\ wire[1].left = Size - rec_count /\ rec_count < Size
  BY <1>2, <1>4 DEF InStep
<1>6. CASE /\ n < wire[1].left /\ Len(wire') = Len(wire)
           /\ wire'[1].frame = wire[1].frame /\ wire'[1].left = wire[1].left - n
           /\ \A k \in 2..Len(wire) : wire'[k] = wire[k]
  <2>1. rec_count + n < Size /\ wpc' = "round"
    BY <1>c, <1>n, <1>3, <1>5, <1>6
  <2>2. wire' # <<>>
    BY <1>4, <1>6
  <2>3. wire'[1].frame = frame /\ wire'[1].left = Size - rec_count'
    BY <1>c, <1>n, <1>3, <1>5, <1>6
  <2> QED BY <1>1, <1>2, <1>3, <1>n, <2>1, <2>2, <2>3
<1>7. CASE /\ n = wire[1].left /\ Len(wire') = Len(wire) - 1
           /\ \A k \in 1..Len(wire') : wire'[k] = wire[k + 1]
  <2>1. rec_count' = Size /\ wpc' = "ended" /\ rec_count' >= Size
    BY <1>c, <1>n, <1>3, <1>5, <1>7
  <2>2. \A k \in 1..Len(wire') : k + 1 \in 1..Len(wire) /\ wire'[k] = wire[k + 1] /\ k + 1 > 1
    BY <1>4, <1>7
  <2>3. wire' # <<>> => Whole(wire'[1])
    <3> SUFFICES ASSUME wire' # <<>> PROVE Whole(wire'[1])
      OBVIOUS
    <3>1. 1 \in 1..Len(wire')
      BY <1>4, OneLess
    <3> QED BY <2>2, <3>1 DEF OnWire
  <2> QED BY <1>1, <1>2, <1>3, <1>n, <2>1, <2>2, <2>3
<1>8. CASE /\ n > wire[1].left /\ Len(wire) > 1 /\ Len(wire') = Len(wire) - 1
           /\ wire'[1].frame = wire[2].frame
           /\ wire[2] \in Item
           /\ n - wire[1].left <= wire[2].left
           /\ wire'[1].left = wire[2].left - (n - wire[1].left)
           /\ \A k \in 2..Len(wire') : wire'[k] = wire[k + 1]
  <2>1. rec_count' > Size /\ rec_count' >= Size /\ rec_count' # Size /\ wpc' = "ended"
        /\ ~(m <= Size - rec_count)
    <3>1. n > Size - rec_count
      BY <1>5, <1>8
    <3> QED BY <1>c, <1>n, <1>3, <1>4, <3>1
  <2>2. initial_buf > Size
    BY <1>1, <1>c, <1>4, <2>1
  <2>3. \A k \in 1..Len(wire') : k + 1 \in 1..Len(wire) /\ (k = 1 \/ k \in 2..Len(wire'))
    BY <1>4, <1>8
  <2>4. \A k \in 1..Len(wire') : wire'[k].frame = wire[k + 1].frame
    BY <1>8, <2>3
  <2> QED BY <1>1, <1>2, <1>3, <1>n, <2>1, <2>2, <2>3, <2>4
<1> QED BY <1>1, <1>6, <1>7, <1>8, <1>c, <1>n, Taken
\* Every step keeps the reader in step.
LEMMA InStepStep ==
  ASSUME TypeOK, OnWire, InStep, Next
  PROVE  InStep'
<1>c. /\ rec_count \in Nat /\ initial_buf \in Nat /\ buf_size \in Nat /\ Size \in Nat \ {0}
      /\ FILE_MESSAGE \in Nat \ {0} /\ SLACK \in Nat \ {0}
  BY Counts, ReceiveAssumption DEF Size, ReceiveAssumption
<1>w. wire \in Seq(Item) /\ Len(wire) \in Nat
  BY Counts
<1>m. Unsound => Unsound'
  BY MetsKept
<1>1. CASE ReadHeader
  <2>1. CASE Whole(wire[1])
    <3>1. /\ wpc' = "sized" /\ wire' # <<>> /\ wire'[1].frame = frame' /\ wire'[1].left = Size'
      BY <1>1, <2>1, HeaderTaken
    <3> QED BY <3>1 DEF InStep, Receiving, InFrame
  <2>2. CASE ~Whole(wire[1])
    <3>1. wpc = "poll" /\ wire # <<>> /\ wpc' = "garbled"
      BY <1>1, <2>2 DEF ReadHeader, Whole, Front
    <3>2. Unsound'
      BY <1>m, <2>2, <3>1 DEF InStep
    <3> QED BY <3>1, <3>2 DEF InStep, Receiving, InFrame
  <2> QED BY <2>1, <2>2
<1>2. CASE HeaderFails
  <2>1. wpc' \in {"poll", "reconnect"} /\ wire' = <<>>
    BY <1>2 DEF HeaderFails, Ended
  <2> QED BY <2>1 DEF InStep, Receiving, InFrame
<1>3. CASE Prepare
  <2>1. /\ wpc = "sized" /\ wpc' = "round" /\ rec_count' = 0 /\ wire' = wire /\ link' = link
        /\ frame' = frame /\ initial_buf' = FirstRead(frame.shape.size) /\ Size' = Size
    BY <1>3 DEF Prepare, Size
  <2>2. (link' = "up" \/ wire' # <<>>) =>
          wire' # <<>> /\ wire'[1].frame = frame' /\ wire'[1].left = Size' - rec_count'
    BY <1>c, <2>1 DEF InStep
  <2>3. ASSUME initial_buf' > Size' PROVE Unsound'
    <3>1. PostFile # 0 /\ Size > FILE_MESSAGE /\ FILE_MESSAGE + SLACK > Size
      BY <1>c, <2>1, <2>3 DEF FirstRead, Long, Size
    <3>2. ~Sound(frame)
      BY <1>c, <3>1 DEF Sound, Size
    <3>3. Met(frame)'
      BY <1>3, <3>1, MetsKept
    <3> QED BY <2>1, <3>2, <3>3 DEF Met, Unsound
  <2> QED BY <1>c, <2>1, <2>2, <2>3 DEF InStep, Receiving
<1>4. CASE Choose \/ Overrun
  <2>1. /\ wpc \in {"round", "toFile"} /\ wpc' \in {"toFile", "toBuffer", "undefined", "overrun"}
        /\ UNCHANGED <<frame, rec_count, initial_buf, wire, link, files>> /\ Size' = Size
    BY <1>4 DEF Choose, Overrun, Size
  <2> QED BY <1>m, <2>1 DEF InStep, Receiving, InFrame
<1>5. ASSUME NEW n \in 1..(FILE_MESSAGE + SLACK),
             ReceiveToBuffer(n) \/ ReceiveHead(n) \/ ReceiveRest(n)
      PROVE  InStep'
  <2>1. Receiving /\ frame' = frame /\ initial_buf' = initial_buf /\ Size' = Size
    BY <1>5, Receives DEF Size
  <2>2. initial_buf > Size => Unsound'
    BY <1>m, <2>1 DEF InStep, Receiving, InFrame
  <2>3. \/ /\ wpc' = "round" /\ rec_count' < Size
           /\ wire' # <<>> /\ wire'[1].frame = frame /\ wire'[1].left = Size - rec_count'
        \/ /\ wpc' = "ended" /\ rec_count' >= Size /\ (rec_count' = Size \/ initial_buf > Size)
           /\ rec_count' = Size /\ wire' # <<>> => Whole(wire'[1])
    BY <1>5, Receives
  <2> QED BY <2>1, <2>2, <2>3 DEF InStep, Receiving
<1>6. CASE BodyFails
  BY <1>6 DEF BodyFails, InStep, Receiving, InFrame
<1>7. CASE Finish
  <2>1. wpc = "ended" /\ wpc' = "poll" /\ wire' = wire
    BY <1>7 DEF Finish
  <2>2. wire # <<>> => Whole(wire[1]) \/ Unsound
    BY <2>1 DEF InStep
  <2> QED BY <1>m, <2>1, <2>2 DEF InStep, Receiving, InFrame
<1>8. CASE Reconnect
  <2>1. wpc' = "poll" /\ wire' = <<>>
    BY <1>8 DEF Reconnect
  <2> QED BY <2>1 DEF InStep, Receiving, InFrame
<1>9. CASE SendPending \/ Handle \/ UserChooses \/ UserCancels
  <2>1. UNCHANGED <<wpc, frame, rec_count, initial_buf, wire, link>> /\ Size' = Size
    BY <1>9 DEF SendPending, Handle, UserChooses, UserCancels, worker, Size
  <2> QED BY <1>m, <2>1 DEF InStep, Receiving, InFrame
<1>10. ASSUME NEW kind \in {"ask", "content", "other"}, NEW shape \in Shapes, ServerSends(kind, shape)
       PROVE  InStep'
  <2>1. link = "up" /\ UNCHANGED <<wpc, frame, rec_count, initial_buf, link>> /\ Size' = Size
    BY <1>10 DEF ServerSends, worker, Size
  <2>2. /\ Len(wire') = Len(wire) + 1 /\ Whole(wire'[Len(wire')])
        /\ \A k \in 1..Len(wire) : wire'[k] = wire[k]
    BY <1>10, Sent
  <2>3. wire # <<>> => wire'[1] = wire[1] /\ wire' # <<>>
    BY <1>w, <2>2, OneLess
  <2>4. wire = <<>> => Whole(wire'[1])
    BY <1>w, <2>2
  <2> QED BY <1>m, <2>1, <2>3, <2>4 DEF InStep, Receiving, InFrame
<1>11. CASE LinkBreaks
  <2>1. /\ link' = "down" /\ UNCHANGED <<wpc, frame, rec_count, initial_buf>> /\ Size' = Size
        /\ wire' = wire \/ wire' = <<>>
    BY <1>11 DEF LinkBreaks, worker, Size
  <2> QED BY <1>m, <2>1 DEF InStep, Receiving, InFrame
<1> QED BY <1>1, <1>2, <1>3, <1>4, <1>5, <1>6, <1>7, <1>8, <1>9, <1>10, <1>11 DEF Next

-----------------------------------------------------------------------------
(* The numbers of frames: what was received and met is older than what is to come. *)

\* A frame is announced and not yet received.
Busy == wpc \in {"sized", "round", "toFile", "toBuffer", "ended", "undefined", "overrun"}

Past(x) ==
  /\ x <= nsent
  /\ Busy => x < frame.id
  /\ \A k \in 1..Len(wire) : x < wire[k].frame.id

\* Older than every frame that is still whole on the wire.
Old(x) == x <= nsent /\ \A k \in 1..Len(wire) : Whole(wire[k]) => x < wire[k].frame.id

Order ==
  /\ Len(received) = Len(queue)
  /\ \A j, k \in 1..Len(received) : j < k => received[j].frame.id < received[k].frame.id
  /\ \A k \in 1..Len(received) : Past(received[k].frame.id) /\ Past(queue[k].frame)
  /\ \A f \in Frame : Met(f) => Old(f.id) /\ (wpc = "sized" => f.id < frame.id)
  /\ Busy => Old(frame.id)
  /\ wpc = "ended" => \A k \in 1..Len(wire) : frame.id < wire[k].frame.id
  /\ Old(PARAM.frame) /\ (Busy => PARAM.frame <= frame.id)
  /\ \A k \in 1..Len(received) : PARAM.frame # received[k].frame.id
  /\ \A j, k \in 1..Len(received) : queue[j].frame = received[k].frame.id => j = k

\* A header is read, or the frame is the one it was.
LEMMA FrameKept ==
  ASSUME TypeOK, Next
  PROVE  \/ frame' = frame /\ (Busy' => Busy) /\ (wpc' = "sized" => wpc = "sized")
         \/ ReadHeader /\ Whole(wire[1])
<1>1. CASE ReadHeader
  BY <1>1 DEF ReadHeader, Whole, Front, Busy
<1>2. ASSUME NEW n \in 1..(FILE_MESSAGE + SLACK),
             ReceiveToBuffer(n) \/ ReceiveHead(n) \/ ReceiveRest(n)
      PROVE  frame' = frame /\ Busy /\ wpc' # "sized"
  BY <1>2 DEF ReceiveToBuffer, ReceiveHead, ReceiveRest, Counted, Busy
<1>3. CASE HeaderFails \/ Prepare \/ Choose \/ Overrun \/ BodyFails \/ Finish \/ Reconnect
  BY <1>3 DEF HeaderFails, Prepare, Choose, Overrun, BodyFails, Finish, Reconnect, Busy
<1>4. CASE SendPending \/ Handle \/ UserChooses \/ UserCancels \/ LinkBreaks
  BY <1>4 DEF SendPending, Handle, UserChooses, UserCancels, LinkBreaks, worker, Busy
<1>5. ASSUME NEW kind \in {"ask", "content", "other"}, NEW shape \in Shapes, ServerSends(kind, shape)
      PROVE  frame' = frame /\ wpc' = wpc
  BY <1>5 DEF ServerSends, worker
<1> QED BY <1>1, <1>2, <1>3, <1>4, <1>5 DEF Next, Busy

\* What is past stays past, and what is old stays old.
LEMMA PastStays ==
  ASSUME TypeOK, OnWire, Next
  PROVE  \A x \in Nat : (Past(x) => Past(x)') /\ (Old(x) => Old(x)')
<1> SUFFICES ASSUME NEW x \in Nat PROVE (Past(x) => Past(x)') /\ (Old(x) => Old(x)')
  OBVIOUS
<1>c. nsent \in Nat /\ Len(wire) \in Nat
  BY Counts
<1>f. Past(x) /\ Busy' => x < frame'.id
  <2>1. CASE ReadHeader /\ Whole(wire[1])
    <3>1. frame' = wire[1].frame /\ 1 \in 1..Len(wire)
      BY <2>1, HeaderTaken
    <3> QED BY <3>1 DEF Past
  <2> QED BY <2>1, FrameKept DEF Past
<1>1. CASE nsent' = nsent /\ Shrinks
  BY <1>f, <1>1 DEF Past, Old, Shrinks
<1>2. ASSUME NEW kind \in {"ask", "content", "other"}, NEW shape \in Shapes, ServerSends(kind, shape)
      PROVE  (Past(x) => Past(x)') /\ (Old(x) => Old(x)')
  <2>1. /\ nsent' = nsent + 1
        /\ wire'[Len(wire')].frame.id = nsent + 1
        /\ \A k \in 1..Len(wire) : wire'[k] = wire[k]
        /\ \A k \in 1..Len(wire') : k = Len(wire') \/ k \in 1..Len(wire)
    BY <1>2, Sent
  <2>2. x <= nsent => x <= nsent' /\ x < nsent + 1
    BY <1>c, <2>1
  <2> QED BY <1>f, <2>1, <2>2 DEF Past, Old
<1> QED BY <1>1, <1>2, OnWireStep
\* The parameters change in ReceiveHead, and the queue in Finish.
LEMMA ParamKept ==
  ASSUME TypeOK, Next
  PROVE  /\ \/ PARAM' = PARAM
            \/ Finish /\ PARAM' = Fresh
            \/ PARAM' = TakenApart /\ \E n \in 1..(FILE_MESSAGE + SLACK) : ReceiveHead(n)
         /\ Finish \/ UNCHANGED <<received, queue>>
<1>1. ASSUME NEW n \in 1..(FILE_MESSAGE + SLACK),
             ReceiveToBuffer(n) \/ ReceiveHead(n) \/ ReceiveRest(n)
      PROVE  /\ UNCHANGED <<received, queue>>
             /\ PARAM' = PARAM \/ (PARAM' = TakenApart /\ ReceiveHead(n))
  BY <1>1 DEF ReceiveToBuffer, ReceiveHead, ReceiveRest
<1>2. CASE ReadHeader \/ HeaderFails \/ Prepare \/ Choose \/ Overrun \/ BodyFails \/ Reconnect
  BY <1>2 DEF ReadHeader, HeaderFails, Prepare, Choose, Overrun, BodyFails, Reconnect
<1>3. CASE SendPending \/ Handle \/ UserChooses \/ UserCancels \/ LinkBreaks
  BY <1>3 DEF SendPending, Handle, UserChooses, UserCancels, LinkBreaks, worker
<1>4. ASSUME NEW kind \in {"ask", "content", "other"}, NEW shape \in Shapes, ServerSends(kind, shape)
      PROVE  UNCHANGED <<received, queue, PARAM>>
  BY <1>4 DEF ServerSends, worker
<1>5. CASE Finish
  BY <1>5 DEF Finish
<1> QED BY <1>1, <1>2, <1>3, <1>4, <1>5 DEF Next

\* What Finish puts into the queue.
Result == IF PostFile # 0 THEN PARAM ELSE [frame |-> frame.id, value |-> value(frame)]

\* Finish appends one entry to the queue and the frame to those received.
LEMMA Finished ==
  ASSUME TypeOK, Finish
  PROVE  /\ wpc = "ended" /\ wpc' = "poll" /\ UNCHANGED <<frame, wire, nsent, handled, disturbed>>
         /\ Len(queue') = Len(queue) + 1 /\ queue'[Len(queue) + 1] = Result
         /\ \A k \in 1..Len(queue) : queue'[k] = queue[k]
         /\ Len(received') = Len(received) + 1
         /\ received'[Len(received) + 1].frame = frame
         /\ received'[Len(received) + 1].disturbed = disturbed
         /\ \A k \in 1..Len(received) : received'[k] = received[k]
         /\ \A k \in 1..Len(received') : k = Len(received) + 1 \/ k \in 1..Len(received)
<1> DEFINE r == [frame |-> frame, disturbed |-> disturbed]
<1>1. /\ queue' = Append(queue, Result) /\ received' = Append(received, r)
      /\ wpc = "ended" /\ wpc' = "poll" /\ UNCHANGED <<frame, wire, nsent, handled, disturbed>>
  BY DEF Finish, Result, ui, server
<1>2. Result \in Entry /\ r \in Record /\ queue \in Seq(Entry) /\ received \in Seq(Record)
  BY Counts, FrameSizes DEF TypeOK, Entry, Record, Result
<1>3. r.frame = frame /\ r.disturbed = disturbed
  OBVIOUS
<1> HIDE DEF r
<1>4. /\ Len(queue') = Len(queue) + 1 /\ queue'[Len(queue) + 1] = Result
      /\ \A k \in 1..Len(queue) : queue'[k] = queue[k]
  BY <1>1, <1>2, OneMore
<1>5. /\ Len(received') = Len(received) + 1 /\ received'[Len(received) + 1] = r
      /\ \A k \in 1..Len(received) : received'[k] = received[k] /\ Len(received) \in Nat
  BY <1>1, <1>2, OneMore
<1>6. \A k \in 1..Len(received') : k = Len(received) + 1 \/ k \in 1..Len(received)
  BY SMTT(30), <1>5, Counts
<1> QED BY <1>1, <1>3, <1>4, <1>5, <1>6

\* Every step keeps the order of the numbers.
LEMMA OrderStep ==
  ASSUME TypeOK, OnWire, InStep, Order, Next
  PROVE  Order'
<1>c. /\ nsent \in Nat /\ frame.id \in Nat \ {0} /\ PARAM.frame \in Nat
      /\ Len(received) \in Nat /\ Len(queue) = Len(received)
  BY Counts DEF Order
<1>r. \A k \in 1..Len(received) : received[k].frame.id \in Nat \ {0} /\ queue[k].frame \in Nat
  BY <1>c, Counts
<1>p. \A x \in Nat : (Past(x) => Past(x)') /\ (Old(x) => Old(x)')
  BY PastStays
<1>h. ASSUME ReadHeader, Whole(wire[1])
      PROVE  /\ Old(frame.id)' /\ wpc' = "sized" /\ frame' = wire[1].frame
             /\ \A x \in Nat : Old(x) => x < frame'.id
  <2>1. /\ Recv(WORD, WORD) /\ wpc' = "sized" /\ frame' = wire[1].frame /\ 1 \in 1..Len(wire)
        /\ wire' # <<>> /\ wire'[1].frame = frame' /\ wire'[1].left = Size'
    BY <1>h, HeaderTaken
  <2>2. OnWire' /\ wire' \in Seq(Item)
    BY OnWireStep, TypesStep DEF TypeOK, Item
  <2>3. 1 \in 1..Len(wire') /\ Len(wire') \in Nat
    BY <2>1, <2>2, OneLess
  <2>4. ~Whole(wire'[1])
    <3>1. Size' \in Nat /\ WORD \in Nat \ {0} /\ wire'[1].frame.shape.size = Size'
      BY <2>1, <2>2, <2>3, Items, ReceiveAssumption DEF Size, ReceiveAssumption
    <3>2. wire'[1].left = Size'
      BY <2>1
    <3>3. wire'[1].left # WORD + wire'[1].frame.shape.size
      BY <3>1, <3>2
    <3> QED BY <3>3 DEF Whole
  <2>5. \A k \in 1..Len(wire') : Whole(wire'[k]) => frame'.id < wire'[k].frame.id
    <3> SUFFICES ASSUME NEW k \in 1..Len(wire'), Whole(wire'[k]) PROVE frame'.id < wire'[k].frame.id
      OBVIOUS
    <3>1. 1 < k
      BY <2>3, <2>4
    <3> QED BY <2>1, <2>2, <2>3, <3>1 DEF OnWire
  <2>6. frame'.id <= nsent'
    BY <2>1, <2>2, <2>3 DEF OnWire
  <2>7. \A x \in Nat : Old(x) => x < frame'.id
    BY <1>h, <2>1 DEF Old
  <2> QED BY <2>1, <2>5, <2>6, <2>7 DEF Old
<1>s. (ReadHeader /\ Whole(wire[1])) \/ (frame' = frame /\ (Busy' => Busy) /\ (wpc' = "sized" => wpc = "sized"))
  BY FrameKept
<1>1. (Busy => Old(frame.id))'
  BY <1>c, <1>h, <1>p, <1>s DEF Order
<1>2. (\A f \in Frame : Met(f) => Old(f.id) /\ (wpc = "sized" => f.id < frame.id))'
  <2> SUFFICES ASSUME NEW f \in Frame, Met(f)' PROVE Old(f.id)' /\ (wpc' = "sized" => f.id < frame'.id)
    OBVIOUS
  <2>1. f.id \in Nat
    BY FrameSizes
  <2>2. CASE Met(f)
    <3>1. Old(f.id)'
      BY <1>p, <2>1, <2>2 DEF Order
    <3>2. wpc' = "sized" => f.id < frame'.id
      BY <1>h, <1>s, <2>1, <2>2 DEF Order
    <3> QED BY <3>1, <3>2
  <2>3. CASE Prepare /\ f = frame
    <3>1. wpc = "sized" /\ wpc' = "round"
      BY <2>3 DEF Prepare
    <3>2. Old(frame.id)
      BY <3>1 DEF Order, Busy
    <3> QED BY <1>p, <2>1, <2>3, <3>1, <3>2
  <2> QED BY <2>2, <2>3, MetsKept
<1>3. (wpc = "ended" => \A k \in 1..Len(wire) : frame.id < wire[k].frame.id)'
  <2>1. ASSUME NEW n \in 1..(FILE_MESSAGE + SLACK),
               ReceiveToBuffer(n) \/ ReceiveHead(n) \/ ReceiveRest(n), wpc' = "ended"
        PROVE  \A k \in 1..Len(wire') : frame'.id < wire'[k].frame.id
    <3>1. /\ frame' = frame /\ Receiving
          /\ \E m \in Int : Recv(m, n)
          /\ \A k \in 1..Len(wire') : k + 1 \in 1..Len(wire) /\ wire'[k].frame = wire[k + 1].frame
      BY <2>1, Receives
    <3>2. wire # <<>> /\ 1 \in 1..Len(wire)
      <4>1. wire # <<>> /\ wire \in Seq(Item)
        BY <3>1, Counts DEF Recv, Arrived
      <4> QED BY <4>1, OneLess
    <3>3. wire[1].frame = frame
      BY <3>1, <3>2 DEF InStep
    <3>4. \A k \in 1..Len(wire') : 1 < k + 1
      OBVIOUS
    <3> QED BY <3>1, <3>2, <3>3, <3>4 DEF OnWire
  <2>2. CASE ReadHeader \/ HeaderFails \/ Prepare \/ Choose \/ Overrun \/ BodyFails \/ Finish \/ Reconnect
    BY <2>2 DEF ReadHeader, HeaderFails, Prepare, Choose, Overrun, BodyFails, Finish, Reconnect
  <2>3. CASE SendPending \/ Handle \/ UserChooses \/ UserCancels \/ LinkBreaks
    BY <2>3 DEF SendPending, Handle, UserChooses, UserCancels, LinkBreaks, worker, Order
  <2>4. ASSUME NEW kind \in {"ask", "content", "other"}, NEW shape \in Shapes, ServerSends(kind, shape),
               wpc' = "ended"
        PROVE  \A k \in 1..Len(wire') : frame'.id < wire'[k].frame.id
    <3>1. /\ nsent' = nsent + 1
          /\ wire'[Len(wire')].frame.id = nsent + 1
          /\ \A k \in 1..Len(wire) : wire'[k] = wire[k]
          /\ \A k \in 1..Len(wire') : k = Len(wire') \/ k \in 1..Len(wire)
      BY <2>4, Sent
    <3>2. wpc = "ended" /\ frame' = frame
      BY <2>4 DEF ServerSends, worker
    <3>3. frame.id <= nsent /\ frame.id < nsent + 1
      BY <1>c, <3>2 DEF Order, Busy, Old
    <3> QED BY <3>1, <3>2, <3>3 DEF Order
  <2> QED BY <2>1, <2>2, <2>3, <2>4 DEF Next
<1>4. (Old(PARAM.frame) /\ (Busy => PARAM.frame <= frame.id))'
  <2>1. CASE PARAM' = PARAM
    <3>1. Old(PARAM.frame)'
      BY <1>c, <1>p, <2>1 DEF Order
    <3>2. Busy' => PARAM'.frame <= frame'.id
      <4>1. CASE ReadHeader /\ Whole(wire[1])
        <5>1. PARAM.frame < frame'.id
          BY <1>c, <1>h, <4>1 DEF Order
        <5>2. frame'.id \in Nat
          BY TypesStep, FrameSizes DEF TypeOK
        <5> QED BY <1>c, <2>1, <5>1, <5>2
      <4> QED BY <1>s, <2>1, <4>1 DEF Order
    <3> QED BY <3>1, <3>2
  <2>2. CASE PARAM' = Fresh /\ Finish
    <3>1. PARAM'.frame = 0 /\ ~Busy'
      BY <2>2 DEF Fresh, NoFrame, Finish, Busy
    <3>2. Old(0)
      <4>0. \A k \in 1..Len(wire) : wire[k].frame.id \in Nat \ {0}
        BY Counts
      <4>1. \A k \in 1..Len(wire) : 0 < wire[k].frame.id
        BY <4>0
      <4> QED BY <1>c, <4>1 DEF Old
    <3> QED BY <1>p, <3>1, <3>2
  <2>3. ASSUME NEW n \in 1..(FILE_MESSAGE + SLACK), ReceiveHead(n), PARAM' = TakenApart
        PROVE  (Old(PARAM.frame) /\ (Busy => PARAM.frame <= frame.id))'
    <3>1. PARAM'.frame = 0 \/ PARAM'.frame = frame.id
      BY <2>3 DEF TakenApart, NoFrame
    <3>2. frame' = frame /\ Busy
      BY <2>3 DEF ReceiveHead, Busy
    <3>3. Old(0)
      <4>0. \A k \in 1..Len(wire) : wire[k].frame.id \in Nat \ {0}
        BY Counts
      <4>1. \A k \in 1..Len(wire) : 0 < wire[k].frame.id
        BY <4>0
      <4> QED BY <1>c, <4>1 DEF Old
    <3>4. Old(frame.id)
      BY <3>2 DEF Order
    <3>5. PARAM'.frame <= frame'.id
      BY <1>c, <3>1, <3>2
    <3>6. Old(0)' /\ \A x \in Nat : x = frame.id => Old(x)'
      BY <1>p, <3>3, <3>4
    <3>7. Old(PARAM.frame)'
      <4>1. CASE PARAM'.frame = 0
        BY <3>6, <4>1
      <4>2. CASE PARAM'.frame = frame.id
        BY <1>c, <3>6, <4>2
      <4> QED BY <3>1, <4>1, <4>2
    <3> QED BY <3>5, <3>7
  <2> QED BY <2>1, <2>2, <2>3, ParamKept
<1>5. CASE UNCHANGED <<received, queue>>
  <2>1. (\A k \in 1..Len(received) : Past(received[k].frame.id) /\ Past(queue[k].frame))'
    BY <1>5, <1>p, <1>r DEF Order
  <2>2. (\A k \in 1..Len(received) : PARAM.frame # received[k].frame.id)'
    <3>1. CASE PARAM' = PARAM
      BY <1>5, <3>1 DEF Order
    <3>2. CASE PARAM' = Fresh
      <4>1. PARAM'.frame = 0
        BY <3>2 DEF Fresh, NoFrame
      <4> QED BY <1>5, <1>r, <4>1
    <3>3. ASSUME NEW n \in 1..(FILE_MESSAGE + SLACK), ReceiveHead(n), PARAM' = TakenApart
          PROVE  \A k \in 1..Len(received) : PARAM'.frame # received[k].frame.id
      <4>1. PARAM'.frame = 0 \/ PARAM'.frame = frame.id
        BY <3>3 DEF TakenApart, NoFrame
      <4>2. \A k \in 1..Len(received) : received[k].frame.id < frame.id
        BY <3>3 DEF ReceiveHead, Busy, Order, Past
      <4> QED BY <1>c, <1>r, <4>1, <4>2
    <3> QED BY <1>5, <3>1, <3>2, <3>3, ParamKept
  <2> QED BY <1>1, <1>2, <1>3, <1>4, <1>5, <2>1, <2>2 DEF Order
<1>6. CASE Finish
  <2> DEFINE l == Len(received) + 1
  <2>1. /\ wpc = "ended" /\ wpc' = "poll" /\ UNCHANGED <<frame, wire, nsent>>
        /\ Len(queue') = l /\ queue'[l] = Result
        /\ \A k \in 1..Len(received) : queue'[k] = queue[k]
        /\ Len(received') = l /\ received'[l].frame = frame
        /\ \A k \in 1..Len(received) : received'[k] = received[k]
        /\ \A k \in 1..Len(received') : k = l \/ k \in 1..Len(received)
    BY <1>6, <1>c, Finished
  <2> HIDE DEF l
  <2>2. l \in Nat /\ \A k \in 1..Len(received) : k < l /\ k # l
    BY <1>c DEF l
  <2>3. \A k \in 1..Len(received) : received[k].frame.id < frame.id /\ queue[k].frame < frame.id
    BY <2>1 DEF Order, Past, Busy
  <2>4. Result.frame = PARAM.frame \/ Result.frame = frame.id
    BY DEF Result
  <2>5. PARAM.frame <= frame.id /\ \A k \in 1..Len(received) : PARAM.frame # received[k].frame.id
    BY <2>1 DEF Order, Busy
  <2> DEFINE Passed(x) == x <= nsent' /\ ~Busy' /\ \A i \in 1..Len(wire') : x < wire'[i].frame.id
  <2>6. ASSUME NEW x \in Nat, x <= frame.id PROVE Passed(x)
    <3>1. frame.id <= nsent /\ \A k \in 1..Len(wire) : frame.id < wire[k].frame.id
      BY <2>1 DEF Order, Busy, Old
    <3>2. \A k \in 1..Len(wire) : wire[k].frame.id \in Nat
      BY Counts
    <3> QED BY <1>c, <2>1, <2>6, <3>1, <3>2 DEF Busy
  <2>7. (\A k \in 1..Len(received) : Past(received[k].frame.id) /\ Past(queue[k].frame))'
    <3>1. ASSUME NEW k \in 1..Len(received')
          PROVE  Passed(received'[k].frame.id) /\ Passed(queue'[k].frame)
      <4>1. CASE k = l
        <5>1. /\ received'[k].frame.id = frame.id /\ queue'[k].frame \in Nat
              /\ queue'[k].frame <= frame.id /\ frame.id <= frame.id
          BY <1>c, <2>1, <2>4, <2>5, <4>1
        <5> HIDE DEF Passed
        <5> QED BY <1>c, <2>6, <5>1
      <4>2. CASE k \in 1..Len(received)
        <5>1. /\ received'[k].frame.id \in Nat /\ received'[k].frame.id <= frame.id
              /\ queue'[k].frame \in Nat /\ queue'[k].frame <= frame.id
          BY <1>c, <1>r, <2>1, <2>3, <4>2
        <5> HIDE DEF Passed
        <5> QED BY <2>6, <5>1
      <4> QED BY <2>1, <3>1, <4>1, <4>2
    <3> QED BY <3>1 DEF Past
  <2>8. (\A j, k \in 1..Len(received) : j < k => received[j].frame.id < received[k].frame.id)'
    <3> SUFFICES ASSUME NEW j \in 1..Len(received'), NEW k \in 1..Len(received'), j < k
                 PROVE  received'[j].frame.id < received'[k].frame.id
      OBVIOUS
    <3>1. j \in 1..Len(received)
      BY <2>1, <2>2
    <3> QED BY <2>1, <2>3, <3>1 DEF Order
  <2>9. (\A j, k \in 1..Len(received) : queue[j].frame = received[k].frame.id => j = k)'
    <3> SUFFICES ASSUME NEW j \in 1..Len(received'), NEW k \in 1..Len(received'),
                        queue'[j].frame = received'[k].frame.id
                 PROVE  j = k
      OBVIOUS
    <3>1. CASE j = l /\ k \in 1..Len(received)
      BY <1>c, <1>r, <2>1, <2>3, <2>4, <2>5, <3>1
    <3>2. CASE j \in 1..Len(received) /\ k = l
      BY <1>c, <1>r, <2>1, <2>3, <3>2
    <3>3. CASE j \in 1..Len(received) /\ k \in 1..Len(received)
      BY <2>1, <3>3 DEF Order
    <3> QED BY <2>1, <3>1, <3>2, <3>3
  <2>10. (\A k \in 1..Len(received) : PARAM.frame # received[k].frame.id)'
    <3>1. PARAM'.frame = 0
      BY <1>6 DEF Finish, Fresh, NoFrame
    <3> QED BY <1>c, <1>r, <2>1, <3>1
  <2> QED BY <1>1, <1>2, <1>3, <1>4, <2>1, <2>7, <2>8, <2>9, <2>10 DEF Order
<1> QED BY <1>5, <1>6, ParamKept
-----------------------------------------------------------------------------
(* While no file is opened during a frame, its beginning and its place are defined. *)

Undisturbed ==
  InFrame /\ ~disturbed =>
    /\ wpc # "undefined"
    /\ PostFile = 0 => buf_size = Size /\ ~Met(frame) /\ wpc # "toFile"
    /\ PostFile # 0 =>
         /\ Met(frame) /\ wpc # "toBuffer"
         /\ initial_buf = (IF Size > FILE_MESSAGE THEN FILE_MESSAGE + SLACK ELSE Size)
         /\ filemarker => rec_count >= initial_buf /\ PARAM = TakenApart
         /\ ~filemarker => rec_count < initial_buf

\* A step that leaves the reader where it is.
LEMMA Aside ==
  ASSUME TypeOK, Next,
         \/ SendPending \/ Handle \/ UserCancels \/ LinkBreaks
         \/ \E kind \in {"ask", "content", "other"}, shape \in Shapes : ServerSends(kind, shape)
  PROVE  /\ UNCHANGED <<wpc, frame, rec_count, buf_size, initial_buf, filemarker, PARAM, PostFile, queue,
                        received, disturbed>>
         /\ \A f : Met(f)' <=> Met(f)
<1>1. /\ UNCHANGED <<wpc, frame, rec_count, buf_size, initial_buf, filemarker, PARAM, PostFile, queue,
                     received, disturbed>>
      /\ ~(wpc = "sized" /\ wpc' = "round")
  BY DEF SendPending, Handle, UserCancels, LinkBreaks, ServerSends, worker
<1>2. ~Prepare
  BY <1>1 DEF Prepare
<1> QED BY <1>1, <1>2, MetsKept

\* Every step keeps it: opening a file while a frame is received disturbs the frame.
LEMMA UndisturbedStep ==
  ASSUME TypeOK, OnWire, InStep, Order, Undisturbed, Next
  PROVE  Undisturbed'
<1>c. /\ rec_count \in Nat /\ initial_buf \in Nat /\ buf_size \in Nat /\ Size \in Nat \ {0}
      /\ FILE_MESSAGE \in Nat \ {0} /\ SLACK \in Nat \ {0} /\ frame \in Frame /\ frame.id \in Nat
      /\ filemarker \in BOOLEAN
  BY Counts, ReceiveAssumption DEF Size, ReceiveAssumption
<1>1. CASE ~InFrame'
  BY <1>1 DEF Undisturbed
<1>2. CASE ReadHeader \/ HeaderFails \/ BodyFails \/ Finish \/ Reconnect
  <2>1. ~InFrame'
    BY <1>2 DEF ReadHeader, HeaderFails, BodyFails, Finish, Reconnect, InFrame
  <2> QED BY <2>1 DEF Undisturbed
<1>3. CASE Prepare
  <2>1. /\ wpc = "sized" /\ wpc' = "round" /\ rec_count' = 0 /\ filemarker' = FALSE
        /\ UNCHANGED <<frame, PostFile, disturbed>> /\ Size' = Size
        /\ buf_size' = BufferFor(frame.shape.size) /\ initial_buf' = FirstRead(frame.shape.size)
    BY <1>3 DEF Prepare, Size
  <2>2. ~Met(frame)
    BY <1>c, <2>1 DEF Order
  <2>3. CASE PostFile = 0
    <3>1. buf_size' = Size'
      BY <2>1, <2>3 DEF BufferFor, Long, Size
    <3>2. ~Met(frame)'
      <4>1. \A f : Met(f)' => Met(f)
        BY <2>3, MetsKept
      <4>2. Met(frame)' => \E f : f = frame /\ Met(f)'
        BY <2>1 DEF Met
      <4> QED BY <2>2, <4>1, <4>2
    <3> QED BY <2>1, <2>3, <3>1, <3>2 DEF Undisturbed
  <2>4. CASE PostFile # 0
    <3>1. Met(frame)'
      BY <1>3, <2>4, MetsKept
    <3>2. initial_buf' = (IF Size > FILE_MESSAGE THEN FILE_MESSAGE + SLACK ELSE Size)
      BY <2>1, <2>4 DEF FirstRead, Long, Size
    <3>3. rec_count' < initial_buf'
      BY <1>c, <2>1, <3>2
    <3> QED BY <2>1, <2>4, <3>1, <3>2, <3>3 DEF Undisturbed
  <2> QED BY <2>3, <2>4
<1>4. CASE Choose
  <2>1. /\ wpc = "round"
        /\ wpc' = IF PostFile # 0
                  THEN IF ~filemarker /\ rec_count > initial_buf THEN "undefined" ELSE "toFile"
                  ELSE IF Size > buf_size THEN "undefined" ELSE "toBuffer"
        /\ UNCHANGED <<frame, rec_count, buf_size, initial_buf, filemarker, PARAM, PostFile, files,
                       disturbed>>
        /\ Size' = Size /\ TakenApart' = TakenApart /\ (Met(frame)' <=> Met(frame))
    BY <1>4 DEF Choose, Size, TakenApart, Met
  <2>2. CASE ~disturbed /\ PostFile = 0
    <3>1. wpc' = "toBuffer" /\ buf_size = Size /\ ~Met(frame)
      BY <1>c, <2>1, <2>2 DEF Undisturbed, InFrame
    <3> QED BY <2>1, <2>2, <3>1 DEF Undisturbed
  <2>3. CASE ~disturbed /\ PostFile # 0
    <3>1. wpc' = "toFile"
      BY <1>c, <2>1, <2>3 DEF Undisturbed, InFrame
    <3> QED BY <2>1, <2>3, <3>1 DEF Undisturbed, InFrame
  <2>4. CASE disturbed
    BY <2>1, <2>4 DEF Undisturbed
  <2> QED BY <2>2, <2>3, <2>4
<1>9. CASE Overrun
  <2>1. /\ wpc = "toFile" /\ wpc' = "overrun"
        /\ UNCHANGED <<frame, rec_count, buf_size, initial_buf, filemarker, PARAM, PostFile, files,
                       disturbed>>
        /\ Size' = Size /\ TakenApart' = TakenApart /\ (Met(frame)' <=> Met(frame))
    BY <1>9 DEF Overrun, Size, TakenApart, Met
  <2> QED BY <2>1 DEF Undisturbed, InFrame
<1>5. ASSUME NEW n \in 1..(FILE_MESSAGE + SLACK),
             ReceiveToBuffer(n) \/ ReceiveHead(n) \/ ReceiveRest(n), ~disturbed
      PROVE  Undisturbed'
  <2>1. /\ InFrame /\ n \in Nat \ {0} /\ rec_count' = rec_count + n
        /\ UNCHANGED <<frame, initial_buf, buf_size, PostFile, disturbed>>
        /\ wpc' \in {"round", "ended"} /\ Size' = Size /\ TakenApart' = TakenApart
    BY <1>5, Receives DEF Receiving, InFrame, Size, TakenApart
  <2>2. Met(frame)' <=> Met(frame)
    <3>1. wpc # "sized"
      BY <1>5 DEF ReceiveToBuffer, ReceiveHead, ReceiveRest
    <3>2. \A f : Met(f)' <=> Met(f)
      BY <3>1, MetsKept DEF Prepare
    <3>3. Met(frame)' <=> \E f : f = frame /\ Met(f)'
      BY <2>1 DEF Met
    <3> QED BY <3>2, <3>3
  <2>3. CASE ReceiveToBuffer(n)
    <3>1. PostFile = 0
      BY <1>5, <2>1, <2>3 DEF Undisturbed, ReceiveToBuffer
    <3> QED BY <1>5, <2>1, <2>2, <3>1 DEF Undisturbed
  <2>4. CASE ReceiveHead(n)
    <3>1. /\ PostFile # 0 /\ ~filemarker
          /\ initial_buf = (IF Size > FILE_MESSAGE THEN FILE_MESSAGE + SLACK ELSE Size)
          /\ Met(frame)
      BY <1>5, <2>1, <2>4 DEF Undisturbed, ReceiveHead
    <3>2. n <= initial_buf - rec_count
      <4>1. Recv(initial_buf - rec_count, n)
        BY <2>4 DEF ReceiveHead
      <4> QED BY <1>c, <4>1 DEF Recv, Arrived
    <3>3. CASE rec_count + n = initial_buf
      <4>1. filemarker' = TRUE /\ PARAM' = TakenApart
        BY <2>4, <3>3 DEF ReceiveHead
      <4>2. rec_count' >= initial_buf
        BY <1>c, <2>1, <3>3
      <4> QED BY <2>1, <2>2, <3>1, <4>1, <4>2 DEF Undisturbed
    <3>4. CASE rec_count + n # initial_buf
      <4>1. filemarker' = filemarker
        BY <2>4, <3>4 DEF ReceiveHead
      <4>2. rec_count' < initial_buf
        BY <1>c, <2>1, <3>2, <3>4
      <4> QED BY <2>1, <2>2, <3>1, <4>1, <4>2 DEF Undisturbed
    <3> QED BY <3>3, <3>4
  <2>5. CASE ReceiveRest(n)
    <3>1. /\ PostFile # 0 /\ filemarker /\ filemarker' = filemarker /\ PARAM' = PARAM
          /\ initial_buf = (IF Size > FILE_MESSAGE THEN FILE_MESSAGE + SLACK ELSE Size)
          /\ Met(frame) /\ rec_count >= initial_buf /\ PARAM = TakenApart
      BY <1>5, <2>1, <2>5 DEF Undisturbed, ReceiveRest
    <3>2. rec_count' >= initial_buf
      BY <1>c, <2>1, <3>1
    <3> QED BY <2>1, <2>2, <3>1, <3>2 DEF Undisturbed
  <2> QED BY <1>5, <2>3, <2>4, <2>5
<1>6. ASSUME NEW n \in 1..(FILE_MESSAGE + SLACK),
             ReceiveToBuffer(n) \/ ReceiveHead(n) \/ ReceiveRest(n), disturbed
      PROVE  Undisturbed'
  <2>1. disturbed'
    BY <1>6, Receives
  <2> QED BY <2>1 DEF Undisturbed
<1>7. CASE UserChooses
  <2>1. wpc' = wpc /\ (InFrame => disturbed')
    BY <1>7 DEF UserChooses, worker
  <2> QED BY <2>1 DEF Undisturbed, InFrame
<1>8. CASE \/ SendPending \/ Handle \/ UserCancels \/ LinkBreaks
           \/ \E kind \in {"ask", "content", "other"}, shape \in Shapes : ServerSends(kind, shape)
  <2>1. /\ UNCHANGED <<wpc, frame, rec_count, buf_size, initial_buf, filemarker, PARAM, PostFile, disturbed>>
        /\ \A f : Met(f)' <=> Met(f)
    BY <1>8, Aside
  <2>2. Size' = Size /\ TakenApart' = TakenApart
    BY <2>1 DEF Size, TakenApart
  <2>3. Met(frame)' <=> Met(frame)
    <3>1. Met(frame)' <=> \E f : f = frame /\ Met(f)'
      BY <2>1 DEF Met
    <3> QED BY <2>1, <3>1
  <2> QED BY <2>1, <2>2, <2>3 DEF Undisturbed, InFrame
<1> QED BY <1>2, <1>3, <1>4, <1>5, <1>6, <1>7, <1>8, <1>9 DEF Next

-----------------------------------------------------------------------------
(* Which frames may leave their buffer. *)

\* The first read asks for more than the buffer only when a long frame met a file.
Buffered ==
  InFrame =>
    /\ initial_buf <= buf_size \/ (Size > FILE_MESSAGE /\ Met(frame))
    /\ wpc = "overrun" => initial_buf > buf_size + 1

\* Every step keeps it: the buffer and the first read are chosen together.
LEMMA BufferedStep ==
  ASSUME TypeOK, OnWire, InStep, Buffered, Next
  PROVE  Buffered'
<1>c. /\ rec_count \in Nat /\ initial_buf \in Nat /\ buf_size \in Nat /\ Size \in Nat \ {0}
      /\ FILE_MESSAGE \in Nat \ {0} /\ SLACK \in Nat \ {0}
  BY Counts, ReceiveAssumption DEF Size, ReceiveAssumption
<1>k. ASSUME UNCHANGED <<frame, buf_size, initial_buf>>, InFrame' => InFrame,
             wpc' = "overrun" => wpc = "overrun" \/ initial_buf > buf_size + 1
      PROVE  Buffered'
  <2>1. Met(frame) => Met(frame)'
    <3>1. Met(frame)' <=> \E f : f = frame /\ Met(f)'
      BY <1>k DEF Met
    <3> QED BY <3>1, MetsKept
  <2>2. Size' = Size
    BY <1>k DEF Size
  <2> QED BY <1>k, <2>1, <2>2 DEF Buffered, InFrame
<1>1. CASE ReadHeader \/ HeaderFails \/ BodyFails \/ Finish \/ Reconnect
  <2>1. ~InFrame'
    BY <1>1 DEF ReadHeader, HeaderFails, BodyFails, Finish, Reconnect, InFrame
  <2> QED BY <2>1 DEF Buffered
<1>2. CASE Prepare
  <2>1. /\ wpc' = "round" /\ UNCHANGED <<frame, PostFile>> /\ Size' = Size
        /\ buf_size' = BufferFor(Size) /\ initial_buf' = FirstRead(Size)
    BY <1>2 DEF Prepare, Size
  <2>2. CASE Long(Size)
    <3>1. Met(frame)' /\ Size > FILE_MESSAGE
      BY <1>2, <2>2, MetsKept DEF Long
    <3> QED BY <2>1, <3>1 DEF Buffered
  <2>3. CASE ~Long(Size)
    <3>1. initial_buf' <= buf_size'
      BY <1>c, <2>1, <2>3 DEF BufferFor, FirstRead
    <3> QED BY <2>1, <3>1 DEF Buffered
  <2> QED BY <2>2, <2>3
<1>3. CASE Choose
  BY <1>3, <1>k DEF Choose, InFrame
<1>4. CASE Overrun
  <2>1. PICK n \in 1..(initial_buf - rec_count) : rec_count + n > buf_size + 1
    BY <1>4 DEF Overrun
  <2>2. initial_buf > buf_size + 1
    BY <1>c, <2>1
  <2> QED BY <1>4, <1>k, <2>2 DEF Overrun, InFrame
<1>5. ASSUME NEW n \in 1..(FILE_MESSAGE + SLACK),
             ReceiveToBuffer(n) \/ ReceiveHead(n) \/ ReceiveRest(n)
      PROVE  Buffered'
  BY <1>5, <1>k DEF ReceiveToBuffer, ReceiveHead, ReceiveRest, Counted, InFrame
<1>6. CASE SendPending \/ Handle \/ UserChooses \/ UserCancels \/ LinkBreaks
  BY <1>6, <1>k DEF SendPending, Handle, UserChooses, UserCancels, LinkBreaks, worker, InFrame
<1>7. ASSUME NEW kind \in {"ask", "content", "other"}, NEW shape \in Shapes, ServerSends(kind, shape)
      PROVE  Buffered'
  BY <1>7, <1>k DEF ServerSends, worker, InFrame
<1> QED BY <1>1, <1>2, <1>3, <1>4, <1>5, <1>6, <1>7 DEF Next

-----------------------------------------------------------------------------
(* Every frame has its place. *)

Places ==
  \A k \in 1..Len(received) :
    ~received[k].disturbed /\ Sound(received[k].frame) =>
      /\ queue[k].frame = received[k].frame.id
      /\ queue[k].value = IF Met(received[k].frame) THEN 0 ELSE value(received[k].frame)

\* What the queue gets of a sound frame when no file was opened meanwhile.
LEMMA ResultIs ==
  ASSUME TypeOK, InStep, Undisturbed, wpc = "ended", ~disturbed, Sound(frame)
  PROVE  Result.frame = frame.id /\ Result.value = IF Met(frame) THEN 0 ELSE value(frame)
<1>c. /\ rec_count \in Nat /\ initial_buf \in Nat /\ Size \in Nat \ {0} /\ frame.shape.head \in Nat
      /\ FILE_MESSAGE \in Nat \ {0} /\ SLACK \in Nat \ {0} /\ frame.shape.head <= Size
  BY Counts, ReceiveAssumption DEF Size, ReceiveAssumption
<1>1. CASE PostFile = 0
  BY <1>1 DEF Undisturbed, InFrame, Result
<1>2. CASE PostFile # 0
  <2>1. /\ Met(frame)
        /\ initial_buf = (IF Size > FILE_MESSAGE THEN FILE_MESSAGE + SLACK ELSE Size)
        /\ filemarker => PARAM = TakenApart
        /\ ~filemarker => rec_count < initial_buf
        /\ rec_count >= Size
    BY <1>2 DEF Undisturbed, InFrame, InStep
  <2>2. /\ Size <= FILE_MESSAGE \/ Size >= FILE_MESSAGE + SLACK
        /\ frame.shape.head <= FILE_MESSAGE + SLACK
    BY DEF Sound, Size
  <2>3. initial_buf <= Size /\ frame.shape.head <= initial_buf
    BY <1>c, <2>1, <2>2
  <2>4. PARAM = TakenApart
    BY <1>c, <2>1, <2>3
  <2>5. Result = [frame |-> frame.id, value |-> 0]
    BY <1>2, <2>3, <2>4 DEF Result, TakenApart
  <2> QED BY <2>1, <2>5
<1> QED BY <1>1, <1>2

\* Every step keeps the places.
LEMMA PlacesStep ==
  ASSUME TypeOK, OnWire, InStep, Order, Undisturbed, Places, Next
  PROVE  Places'
<1>a. frame.id \in Nat
  BY Counts
<1>b. \A k \in 1..Len(received) : received[k].frame.id \in Nat
  BY Counts
<1>2. ASSUME NEW k \in 1..Len(received), NEW f, f = received[k].frame PROVE Met(f)' <=> Met(f)
  <2>1. Prepare => f # frame
    <3>1. Prepare => received[k].frame.id < frame.id
      BY DEF Prepare, Busy, Order, Past
    <3> QED BY <1>a, <1>b, <1>2, <3>1
  <2> QED BY <2>1, MetsKept
<1>3. CASE UNCHANGED <<received, queue>>
  <2> SUFFICES ASSUME NEW k \in 1..Len(received),
                      ~received[k].disturbed /\ Sound(received[k].frame)
               PROVE  /\ queue[k].frame = received[k].frame.id
                      /\ queue[k].value = IF Met(received[k].frame)' THEN 0 ELSE value(received[k].frame)
    BY <1>3 DEF Places
  <2>1. Met(received[k].frame)' <=> Met(received[k].frame)
    <3> DEFINE f == received[k].frame
    <3>1. Met(received[k].frame)' <=> \E g : g = f /\ Met(g)'
      BY <1>3 DEF Met
    <3> QED BY <1>2, <3>1
  <2> QED BY <2>1 DEF Places
<1>4. CASE Finish
  <2> SUFFICES ASSUME NEW k \in 1..Len(received'), NEW f, f = received'[k].frame,
                      ~received'[k].disturbed, Sound(f)
               PROVE  /\ queue'[k].frame = f.id
                      /\ queue'[k].value = IF Met(f)' THEN 0 ELSE value(f)
    BY DEF Places, Met
  <2>1. /\ wpc = "ended" /\ Len(queue) = Len(received)
        /\ queue'[Len(queue) + 1] = Result
        /\ \A j \in 1..Len(queue) : queue'[j] = queue[j]
        /\ received'[Len(received) + 1].frame = frame
        /\ received'[Len(received) + 1].disturbed = disturbed
        /\ \A j \in 1..Len(received) : received'[j] = received[j]
        /\ k = Len(received) + 1 \/ k \in 1..Len(received)
    BY <1>4, Finished DEF Order
  <2>2. CASE k = Len(received) + 1
    <3>1. f = frame /\ ~disturbed
      BY <2>1, <2>2
    <3>2. Met(f)' <=> Met(f)
      BY <2>1, MetsKept DEF Prepare
    <3> QED BY <2>1, <2>2, <3>1, <3>2, ResultIs
  <2>3. CASE k \in 1..Len(received)
    <3>1. Met(f)' <=> Met(f)
      BY <1>2, <2>1, <2>3
    <3> QED BY <2>1, <2>3, <3>1 DEF Places
  <2> QED BY <2>1, <2>2, <2>3
<1> QED BY <1>3, <1>4, ParamKept
-----------------------------------------------------------------------------
(* What a file gets. *)

\* A step that opens no file changes the open one only, and never how it was opened.
LEMMA FilesStep ==
  ASSUME TypeOK, Next, ~UserChooses
  PROVE  /\ OthersSame /\ (PostFile' = PostFile \/ PostFile' = 0)
         /\ PostFile # 0 =>
              /\ files'[PostFile].mid = files[PostFile].mid
              /\ files[PostFile].cut => files'[PostFile].cut
              /\ LinkBreaks \/ Reconnect => files'[PostFile].cut = TRUE
              /\ files'[PostFile].cut = files[PostFile].cut \/ LinkBreaks \/ Reconnect
              /\ PostFile' = PostFile => files'[PostFile].closed = files[PostFile].closed
              /\ PostFile' = 0 => Finish \/ (Ended /\ HeaderFails)
<1> DEFINE Rest ==
      /\ files'[PostFile].mid = files[PostFile].mid
      /\ files[PostFile].cut => files'[PostFile].cut
      /\ LinkBreaks \/ Reconnect => files'[PostFile].cut = TRUE
      /\ files'[PostFile].cut = files[PostFile].cut \/ LinkBreaks \/ Reconnect
      /\ PostFile' = PostFile => files'[PostFile].closed = files[PostFile].closed
      /\ PostFile' = 0 => Finish \/ (Ended /\ HeaderFails)
<1>u. ASSUME UNCHANGED <<files, PostFile>>, ~LinkBreaks, ~Reconnect
      PROVE  OthersSame /\ (PostFile' = PostFile \/ PostFile' = 0) /\ (PostFile # 0 => Rest)
  BY <1>u DEF OthersSame
<1>l. ASSUME LinkBreaks \/ Reconnect
      PROVE  OthersSame /\ (PostFile' = PostFile \/ PostFile' = 0) /\ (PostFile # 0 => Rest)
  <2>1. PostFile' = PostFile /\ Cuts
    BY <1>l DEF LinkBreaks, Reconnect, Cuts
  <2> QED BY <1>l, <2>1, FileCut
<1>b. LinkBreaks \/ Reconnect => link' # link \/ (wpc = "reconnect" /\ wpc' = "poll")
  BY DEF LinkBreaks, Reconnect
<1>1. CASE ReadHeader \/ Choose \/ Overrun \/ BodyFails \/ SendPending \/ Handle \/ UserCancels
  <2>1. UNCHANGED <<files, PostFile, link>> /\ ~(wpc = "reconnect" /\ wpc' = "poll")
    BY <1>1 DEF ReadHeader, Choose, Overrun, BodyFails, SendPending, Handle, UserCancels, worker
  <2> QED BY <1>b, <1>u, <2>1
<1>2. CASE HeaderFails
  <2>1. link' = link /\ wpc = "poll" /\ Ended /\ (post_done \/ UNCHANGED <<files, PostFile>>)
    BY <1>2 DEF HeaderFails
  <2>2. ~LinkBreaks /\ ~Reconnect
    BY <1>b, <2>1
  <2>3. CASE post_done
    BY <1>2, <2>1, <2>2, <2>3, FileCloses DEF post_done, Closes
  <2> QED BY <1>u, <2>1, <2>2, <2>3
<1>3. CASE Prepare
  <2>1. link' = link /\ wpc = "sized" /\ Meets(frame) /\ PostFile' = PostFile
    BY <1>3 DEF Prepare, Meets
  <2> QED BY <1>b, <2>1, FileMeets
<1>4. ASSUME NEW n \in 1..(FILE_MESSAGE + SLACK),
             ReceiveToBuffer(n) \/ ReceiveHead(n) \/ ReceiveRest(n)
      PROVE  OthersSame /\ (PostFile' = PostFile \/ PostFile' = 0) /\ (PostFile # 0 => Rest)
  <2>1. link' = link /\ PostFile' = PostFile /\ wpc # "reconnect"
    BY <1>4 DEF ReceiveToBuffer, ReceiveHead, ReceiveRest
  <2>2. UNCHANGED files \/ \E k \in Nat : post_write(k)
    <3>1. n \in Nat
      BY ReceiveAssumption DEF ReceiveAssumption
    <3>2. initial_buf \in Nat /\ frame.shape.head \in Nat
      BY Counts
    <3>3. frame.shape.head < initial_buf => initial_buf - frame.shape.head \in Nat
      BY <3>2
    <3> QED BY <1>4, <3>1, <3>3 DEF ReceiveToBuffer, ReceiveHead, ReceiveRest
  <2>3. ~LinkBreaks /\ ~Reconnect
    BY <1>b, <2>1
  <2>4. ASSUME NEW k \in Nat, post_write(k)
        PROVE  OthersSame /\ (PostFile # 0 => Rest)
    BY <2>1, <2>3, <2>4, FileWritten
  <2> QED BY <1>u, <2>1, <2>2, <2>3, <2>4
<1>5. CASE Finish
  <2>1. link' = link /\ wpc = "ended" /\ PostFile' = 0 /\ Closes
    BY <1>5 DEF Finish, post_done, Closes
  <2> QED BY <1>5, <1>b, <2>1, FileCloses
<1>6. ASSUME NEW kind \in {"ask", "content", "other"}, NEW shape \in Shapes, ServerSends(kind, shape)
      PROVE  OthersSame /\ (PostFile' = PostFile \/ PostFile' = 0) /\ (PostFile # 0 => Rest)
  <2>1. UNCHANGED <<files, PostFile, link, wpc>>
    BY <1>6 DEF ServerSends, worker
  <2> QED BY <1>b, <1>u, <2>1
<1> QED BY <1>l, <1>1, <1>2, <1>3, <1>4, <1>5, <1>6 DEF Next

\* Not yet taken by the user interface, and asking for a file.
Unhandled(k) == k > handled /\ received[k].frame.kind = "ask"

\* What the open file got, if it was opened between two frames and the connection lasts.
Filled(file) ==
  /\ wpc \in {"poll", "sized", "garbled"} => Len(file.met) = 0 /\ file.bytes = 0
  /\ InFrame => /\ ~disturbed /\ Len(file.met) = 1 /\ file.met[1] = frame
                /\ Sound(frame) => file.bytes = IF filemarker THEN rec_count - frame.shape.head ELSE 0

Opened ==
  /\ wpc = "sized" => ~disturbed
  /\ PostFile # 0 =>
       /\ link = "down" => files[PostFile].cut
       /\ ~files[PostFile].closed
       /\ ~files[PostFile].mid /\ ~files[PostFile].cut => Filled(files[PostFile])

\* Every step keeps what is known of the open file.
LEMMA OpenedStep ==
  ASSUME TypeOK, OnWire, InStep, Order, Undisturbed, Opened, Next
  PROVE  Opened'
<1>c. /\ rec_count \in Nat /\ initial_buf \in Nat /\ Size \in Nat \ {0} /\ frame.shape.head \in Nat
      /\ FILE_MESSAGE \in Nat \ {0} /\ SLACK \in Nat \ {0} /\ frame.shape.head <= Size
  BY Counts, ReceiveAssumption DEF Size, ReceiveAssumption
<1>o. PostFile # 0 => PostFile \in 1..Len(files)
  BY OpenFile
<1>t. ASSUME NEW n \in 1..(FILE_MESSAGE + SLACK),
             ReceiveToBuffer(n) \/ ReceiveHead(n) \/ ReceiveRest(n)
      PROVE  /\ wpc' \in {"round", "ended"} /\ InFrame /\ rec_count' = rec_count + n /\ n \in Nat
             /\ UNCHANGED <<frame, initial_buf, PostFile, link, disturbed>>
  BY <1>t, Receives DEF Receiving, InFrame
<1>d. (wpc = "sized" => ~disturbed)'
  <2>1. ASSUME NEW n \in 1..(FILE_MESSAGE + SLACK),
               ReceiveToBuffer(n) \/ ReceiveHead(n) \/ ReceiveRest(n)
        PROVE  wpc' # "sized"
    BY <1>t, <2>1
  <2>2. CASE ReadHeader \/ HeaderFails \/ Prepare \/ Choose \/ Overrun \/ BodyFails \/ Finish \/ Reconnect
    BY <2>2 DEF ReadHeader, HeaderFails, Prepare, Choose, Overrun, BodyFails, Finish, Reconnect, Opened
  <2>3. CASE UserChooses
    BY <2>3 DEF UserChooses, worker, InFrame, Opened
  <2>4. CASE \/ SendPending \/ Handle \/ UserCancels \/ LinkBreaks
             \/ \E kind \in {"ask", "content", "other"}, shape \in Shapes : ServerSends(kind, shape)
    BY <2>4, Aside DEF Opened
  <2> QED BY <2>1, <2>2, <2>3, <2>4 DEF Next
<1>1. CASE UserChooses
  <2>1. CASE PostFile' = 0
    BY <1>d, <2>1 DEF Opened
  <2>2. CASE PostFile' # 0
    <3>1. files'[PostFile'] = [met |-> <<>>, bytes |-> 0, closed |-> FALSE,
                              cut |-> (link = "down" \/ wpc = "reconnect"), mid |-> InFrame]
      BY <1>1, <2>2, FileChosen
    <3>2. /\ files'[PostFile'].met = <<>> /\ files'[PostFile'].bytes = 0
          /\ files'[PostFile'].closed = FALSE
      BY <3>1
    <3> DEFINE c == (link = "down" \/ wpc = "reconnect")
    <3>a. files'[PostFile'] = [met |-> <<>>, bytes |-> 0, closed |-> FALSE, cut |-> c, mid |-> InFrame]
      BY <3>1
    <3> HIDE DEF c
    <3>b. files'[PostFile'].cut = c
      BY <3>a
    <3>3. link = "down" \/ wpc = "reconnect" => files'[PostFile'].cut
      BY <3>b DEF c
    <3>4. InFrame => files'[PostFile'].mid
      BY <3>1
    <3>5. link' = link /\ (InFrame' <=> InFrame)
      BY <1>1 DEF UserChooses, worker, InFrame
    <3> QED BY <1>d, <2>2, <3>2, <3>3, <3>4, <3>5 DEF Opened, Filled
  <2> QED BY <2>1, <2>2
<1>2. CASE PostFile' = 0
  BY <1>d, <1>2 DEF Opened
<1>3. ASSUME ~UserChooses, PostFile' = PostFile, PostFile # 0,
             ~files'[PostFile].mid, ~files'[PostFile].cut
      PROVE  Filled(files[PostFile])'
  <2>1. ~files[PostFile].mid /\ ~files[PostFile].cut /\ ~LinkBreaks /\ ~Reconnect
    BY <1>3, FilesStep
  <2>2. Filled(files[PostFile])
    BY <1>3, <2>1 DEF Opened
  <2>3. CASE ReadHeader
    <3>1. wpc = "poll" /\ files' = files /\ wpc' \in {"sized", "garbled"}
      BY <2>3 DEF ReadHeader
    <3> QED BY <1>3, <2>2, <3>1 DEF Filled, InFrame
  <2>4. CASE HeaderFails
    <3>1. wpc = "poll" /\ wpc' \in {"poll", "reconnect"} /\ files' = files
      BY <1>3, <2>4 DEF HeaderFails, post_done
    <3> QED BY <1>3, <2>2, <3>1 DEF Filled, InFrame
  <2>5. CASE Prepare
    <3>1. wpc = "sized" /\ wpc' = "round" /\ filemarker' = FALSE /\ frame' = frame /\ disturbed' = disturbed
          /\ Meets(frame)
      BY <2>5 DEF Prepare, Meets
    <3>2. /\ files'[PostFile].met = Append(files[PostFile].met, frame)
          /\ files'[PostFile].bytes = files[PostFile].bytes
      BY <1>3, <3>1, FileMeets
    <3>3. Len(files[PostFile].met) = 0 /\ files[PostFile].bytes = 0
      BY <2>2, <3>1 DEF Filled
    <3>4. files[PostFile].met \in Seq(Frame) /\ frame \in Frame
      BY <1>3, <1>o, OpenFile, Counts
    <3>5. Len(files'[PostFile].met) = 1 /\ files'[PostFile].met[1] = frame
      <4> DEFINE m == files[PostFile].met
      <4>1. m \in Seq(Frame) /\ Len(m) = 0
        BY <3>3, <3>4
      <4> HIDE DEF m
      <4>2. Len(Append(m, frame)) = 1 /\ Append(m, frame)[1] = frame
        BY <3>4, <4>1, OneMore
      <4> QED BY <3>2, <4>2 DEF m
    <3>6. ~disturbed'
      BY <3>1 DEF Opened
    <3> QED BY <1>3, <3>1, <3>2, <3>3, <3>5, <3>6 DEF Filled
  <2>6. CASE Choose \/ Overrun
    <3>1. /\ wpc \in {"round", "toFile"} /\ wpc' \in {"undefined", "toFile", "toBuffer", "overrun"}
          /\ UNCHANGED <<frame, rec_count, filemarker, files, disturbed>>
      BY <2>6 DEF Choose, Overrun
    <3> QED BY <1>3, <2>2, <3>1 DEF Filled, InFrame
  <2>7. CASE BodyFails
    BY <2>7 DEF BodyFails, Filled, InFrame
  <2>8. CASE Finish
    BY <1>3, <2>8 DEF Finish, post_done
  <2>9. CASE \/ SendPending \/ Handle \/ UserCancels
             \/ \E kind \in {"ask", "content", "other"}, shape \in Shapes : ServerSends(kind, shape)
    <3>1. UNCHANGED <<wpc, frame, rec_count, filemarker, disturbed>>
      BY <2>9, Aside
    <3>2. files' = files
      BY <2>9 DEF SendPending, Handle, UserCancels, ServerSends
    <3> QED BY <1>3, <2>2, <3>1, <3>2 DEF Filled, InFrame
  <2>10. ASSUME NEW n \in 1..(FILE_MESSAGE + SLACK),
                ReceiveToBuffer(n) \/ ReceiveHead(n) \/ ReceiveRest(n)
         PROVE  Filled(files[PostFile])'
    <3>1. /\ wpc' \in {"round", "ended"} /\ InFrame /\ rec_count' = rec_count + n /\ n \in Nat
          /\ UNCHANGED <<frame, initial_buf, PostFile, disturbed>>
      BY <1>t, <2>10
    <3>2. ~disturbed /\ Len(files[PostFile].met) = 1 /\ files[PostFile].met[1] = frame
          /\ (Sound(frame) => files[PostFile].bytes = IF filemarker THEN rec_count - frame.shape.head ELSE 0)
      BY <2>2, <3>1 DEF Filled
    <3>3. wpc # "toBuffer"
          /\ initial_buf = (IF Size > FILE_MESSAGE THEN FILE_MESSAGE + SLACK ELSE Size)
      BY <1>3, <3>1, <3>2 DEF Undisturbed
    <3>4. /\ files'[PostFile].met = files[PostFile].met
          /\ Sound(frame) => files'[PostFile].bytes = IF filemarker' THEN rec_count' - frame.shape.head ELSE 0
      <4>1. CASE ReceiveRest(n)
        <5>1. filemarker /\ filemarker' = filemarker /\ post_write(n)
          BY <4>1 DEF ReceiveRest
        <5>2. /\ files'[PostFile].met = files[PostFile].met
              /\ files'[PostFile].bytes = files[PostFile].bytes + n
          BY <1>3, <3>1, <5>1, FileWritten
        <5> QED BY <1>c, <3>1, <3>2, <5>1, <5>2
      <4>2. CASE ReceiveHead(n) /\ rec_count + n = initial_buf /\ frame.shape.head < initial_buf
        <5>1. ~filemarker /\ filemarker' = TRUE /\ post_write(initial_buf - frame.shape.head)
          BY <4>2 DEF ReceiveHead
        <5>2. initial_buf - frame.shape.head \in Nat
          BY <1>c, <4>2
        <5>3. /\ files'[PostFile].met = files[PostFile].met
              /\ files'[PostFile].bytes = files[PostFile].bytes + (initial_buf - frame.shape.head)
          BY <1>3, <5>1, <5>2, FileWritten
        <5> QED BY <1>c, <3>1, <3>2, <4>2, <5>1, <5>3
      <4>3. CASE ReceiveHead(n) /\ rec_count + n = initial_buf /\ ~(frame.shape.head < initial_buf)
        <5>1. ~filemarker /\ filemarker' = TRUE /\ files' = files
          BY <4>3 DEF ReceiveHead
        <5>2. Sound(frame) => frame.shape.head <= initial_buf
          BY <1>c, <3>3 DEF Sound, Size
        <5> QED BY <1>c, <3>1, <3>2, <4>3, <5>1, <5>2
      <4>4. CASE ReceiveHead(n) /\ rec_count + n # initial_buf
        <5>1. filemarker' = filemarker /\ files' = files /\ ~filemarker
          BY <4>4 DEF ReceiveHead
        <5> QED BY <3>2, <5>1
      <4> QED BY <2>10, <3>3, <4>1, <4>2, <4>3, <4>4 DEF ReceiveToBuffer
    <3> QED BY <1>3, <3>1, <3>2, <3>4 DEF Filled
  <2> QED BY <1>3, <2>1, <2>3, <2>4, <2>5, <2>6, <2>7, <2>8, <2>9, <2>10 DEF Next
<1>4. ASSUME ~UserChooses, PostFile' = PostFile, PostFile # 0
      PROVE  (link' = "down" => files'[PostFile].cut) /\ ~files'[PostFile].closed
  <2>1. ~files'[PostFile].closed
    BY <1>4, FilesStep DEF Opened
  <2>2. link' = link \/ LinkBreaks \/ Reconnect
    <3>1. ASSUME NEW n \in 1..(FILE_MESSAGE + SLACK),
                 ReceiveToBuffer(n) \/ ReceiveHead(n) \/ ReceiveRest(n)
          PROVE  link' = link
      BY <1>t, <3>1
    <3>2. CASE ReadHeader \/ HeaderFails \/ Prepare \/ Choose \/ Overrun \/ BodyFails \/ Finish
      BY <3>2 DEF ReadHeader, HeaderFails, Prepare, Choose, Overrun, BodyFails, Finish
    <3>3. CASE \/ SendPending \/ Handle \/ UserCancels \/ UserChooses
               \/ \E kind \in {"ask", "content", "other"}, shape \in Shapes : ServerSends(kind, shape)
      BY <3>3 DEF SendPending, Handle, UserCancels, UserChooses, ServerSends
    <3> QED BY <3>1, <3>2, <3>3 DEF Next
  <2> QED BY <1>4, <2>1, <2>2, FilesStep DEF Opened
<1>5. PostFile' # 0 => UserChooses \/ PostFile' = PostFile
  BY FilesStep
<1>6. CASE ~UserChooses /\ PostFile' # 0
  <2>1. PostFile' = PostFile /\ PostFile # 0
    BY <1>5, <1>6
  <2> QED BY <1>3, <1>4, <1>6, <1>d, <2>1 DEF Opened
<1> QED BY <1>1, <1>2, <1>6
-----------------------------------------------------------------------------
(* The question for a file: one at a time, and not while a file is open. *)

\* A question the user interface has not taken yet: on the wire, being received, or queued.
Outstanding(a) ==
  \/ \E k \in 1..Len(wire) : wire[k].frame.kind = "ask" /\ wire[k].frame.id = a
  \/ Busy /\ frame.kind = "ask" /\ frame.id = a
  \/ \E k \in 1..Len(received) : Unhandled(k) /\ received[k].frame.id = a

NoUnhandled == \A k \in 1..Len(received) : ~Unhandled(k)

Questions ==
  /\ \A a, b \in Nat : Outstanding(a) /\ Outstanding(b) => a = b
  /\ \A a \in Nat : Outstanding(a) => waiting = "answer" /\ ~dialog /\ answer = "none"
  /\ dialog => waiting = "answer" /\ answer = "none"
  /\ answer # "none" => waiting = "answer"
  /\ PostFile # 0 => ~dialog /\ NoUnhandled

\* A parameter that asks is the frame received for it.
LEMMA AsksIs ==
  ASSUME TypeOK, Order, NEW k \in 1..Len(queue), Asks(queue[k])
  PROVE  k \in 1..Len(received) /\ received[k].frame.kind = "ask"
<1>1. PICK j \in DOMAIN received : /\ received[j].frame.id = queue[k].frame
                                  /\ received[j].frame.kind = "ask"
  BY DEF Asks
<1>2. j \in 1..Len(received) /\ k \in 1..Len(received)
  BY Counts DEF Order
<1>3. j = k
  BY <1>1, <1>2 DEF Order
<1> QED BY <1>1, <1>2, <1>3

\* What of the user interface a step leaves.
LEMMA Dialogs ==
  ASSUME TypeOK, Next
  PROVE  /\ handled' = handled \/ Handle
         /\ dialog' = dialog \/ Handle \/ (dialog /\ ~dialog')
         /\ answer' = answer \/ (dialog /\ ~dialog' /\ answer = "none") \/ (SendPending /\ answer' = "none")
         /\ \/ waiting' = waiting \/ SendPending
            \/ waiting = "send" /\ waiting' = "no" /\ \E shape \in Shapes : ServerSends("content", shape)
            \/ waiting = "no" /\ waiting' = "answer" /\ \E shape \in Shapes : ServerSends("ask", shape)
         /\ Handle \/ UserChooses \/ UserCancels => UNCHANGED <<wpc, frame, wire, received, queue, waiting, nsent>>
<1>1. ASSUME NEW n \in 1..(FILE_MESSAGE + SLACK),
             ReceiveToBuffer(n) \/ ReceiveHead(n) \/ ReceiveRest(n)
      PROVE  UNCHANGED <<handled, dialog, answer, waiting>>
  BY <1>1 DEF ReceiveToBuffer, ReceiveHead, ReceiveRest, ui, server
<1>2. CASE ReadHeader \/ HeaderFails \/ Prepare \/ Choose \/ Overrun \/ BodyFails \/ Finish \/ Reconnect
           \/ LinkBreaks
  <2>1. UNCHANGED <<handled, dialog, answer, waiting>>
    BY <1>2 DEF ReadHeader, HeaderFails, Prepare, Choose, Overrun, BodyFails, Finish, Reconnect,
                LinkBreaks, ui, server
  <2>2. ~(Handle \/ UserChooses \/ UserCancels)
    <3>1. Handle => handled' # handled
      BY Counts DEF Handle
    <3>2. UserChooses \/ UserCancels => answer' # answer
      BY DEF UserChooses, UserCancels
    <3> QED BY <2>1, <3>1, <3>2
  <2> QED BY <2>1, <2>2
<1>3. CASE SendPending
  <2>1. handled' = handled /\ dialog' = dialog /\ answer' = "none" /\ answer # "none"
    BY <1>3 DEF SendPending, ui
  <2>2. ~(Handle \/ UserChooses \/ UserCancels)
    <3>1. Handle => handled' # handled
      BY Counts DEF Handle
    <3>2. UserChooses \/ UserCancels => answer = "none"
      BY DEF UserChooses, UserCancels
    <3> QED BY <2>1, <3>1, <3>2
  <2> QED BY <1>3, <2>1, <2>2
<1>4. CASE Handle
  BY <1>4 DEF Handle, worker, server
<1>5. CASE UserChooses \/ UserCancels
  <2>1. handled' = handled /\ dialog /\ dialog' = FALSE /\ answer = "none" /\ waiting' = waiting
        /\ UNCHANGED <<wpc, frame, wire, received, queue, nsent>>
    BY <1>5 DEF UserChooses, UserCancels, worker, server
  <2> QED BY <2>1
<1>6. ASSUME NEW kind \in {"ask", "content", "other"}, NEW shape \in Shapes, ServerSends(kind, shape)
      PROVE  /\ UNCHANGED <<handled, dialog, answer>>
             /\ \/ waiting' = waiting
                \/ waiting = "send" /\ waiting' = "no" /\ kind = "content"
                \/ waiting = "no" /\ waiting' = "answer" /\ kind = "ask"
             /\ ~(Handle \/ UserChooses \/ UserCancels)
  <2>1. UNCHANGED <<handled, dialog, answer>> /\ nsent' = nsent + 1
    BY <1>6 DEF ServerSends, ui
  <2>2. nsent' # nsent
    BY <2>1, Counts
  <2>3. Handle \/ UserChooses \/ UserCancels => nsent' = nsent
    BY DEF Handle, UserChooses, UserCancels, server
  <2>4. \/ waiting' = waiting
        \/ waiting = "send" /\ waiting' = "no" /\ kind = "content"
        \/ waiting = "no" /\ waiting' = "answer" /\ kind = "ask"
    BY <1>6 DEF ServerSends
  <2> QED BY <2>1, <2>2, <2>3, <2>4
<1>7. ASSUME NEW n \in 1..(FILE_MESSAGE + SLACK),
             ReceiveToBuffer(n) \/ ReceiveHead(n) \/ ReceiveRest(n)
      PROVE  ~(Handle \/ UserChooses \/ UserCancels)
  <2>1. Handle => handled' # handled
    BY Counts DEF Handle
  <2>2. UserChooses \/ UserCancels => answer' # answer
    BY DEF UserChooses, UserCancels
  <2> QED BY <1>1, <1>7, <2>1, <2>2
<1>8. CASE \E n \in 1..(FILE_MESSAGE + SLACK) : ReceiveToBuffer(n) \/ ReceiveHead(n) \/ ReceiveRest(n)
  BY <1>1, <1>7, <1>8
<1>9. CASE \E kind \in {"ask", "content", "other"}, shape \in Shapes : ServerSends(kind, shape)
  BY <1>6, <1>9
<1> QED BY <1>2, <1>3, <1>4, <1>5, <1>8, <1>9 DEF Next

\* Only the server asks, one more question than those it sent.
LEMMA OutstandingStep ==
  ASSUME TypeOK, OnWire, Order, Next
  PROVE  /\ \A a \in Nat : Outstanding(a)' =>
              \/ Outstanding(a)
              \/ a = nsent + 1 /\ \E shape \in Shapes : ServerSends("ask", shape)
         /\ NoUnhandled => Finish \/ NoUnhandled'
<1>h. handled' >= handled /\ handled \in Nat /\ handled' \in Nat
  <2>1. handled \in Nat
    BY Counts
  <2>2. Handle => handled' = handled + 1
    BY DEF Handle
  <2> QED BY <2>1, <2>2, Dialogs
<1>1. ASSUME NEW a \in Nat, NEW k \in 1..Len(wire'), wire'[k].frame.kind = "ask", wire'[k].frame.id = a
      PROVE  \/ Outstanding(a)
             \/ a = nsent + 1 /\ \E shape \in Shapes : ServerSends("ask", shape)
  <2>1. CASE Shrinks
    BY <1>1, <2>1 DEF Shrinks, Outstanding
  <2>2. ASSUME NEW kind \in {"ask", "content", "other"}, NEW shape \in Shapes, ServerSends(kind, shape)
        PROVE  Outstanding(a) \/ (a = nsent + 1 /\ kind = "ask")
    <3>1. /\ wire'[Len(wire')].frame.kind = kind /\ wire'[Len(wire')].frame.id = nsent + 1
          /\ \A i \in 1..Len(wire) : wire'[i] = wire[i]
          /\ \A i \in 1..Len(wire') : i = Len(wire') \/ i \in 1..Len(wire)
      BY <2>2, Sent
    <3> QED BY <1>1, <3>1 DEF Outstanding
  <2> QED BY <2>1, <2>2, OnWireStep
<1>2. ASSUME NEW a \in Nat, Busy', frame'.kind = "ask", frame'.id = a
      PROVE  Outstanding(a)
  <2>1. CASE ReadHeader /\ Whole(wire[1])
    <3>1. frame' = wire[1].frame /\ 1 \in 1..Len(wire)
      BY <2>1, HeaderTaken
    <3> QED BY <1>2, <3>1 DEF Outstanding
  <2> QED BY <1>2, <2>1, FrameKept DEF Outstanding
<1>3. ASSUME NEW k \in 1..Len(received'), Unhandled(k)'
      PROVE  \/ k \in 1..Len(received) /\ Unhandled(k) /\ received'[k] = received[k]
             \/ Finish /\ received'[k].frame = frame /\ wpc = "ended" /\ frame.kind = "ask"
  <2>1. CASE UNCHANGED received
    <3>1. k \in Nat /\ k > handled' /\ received[k].frame.kind = "ask"
      BY <1>3, <2>1 DEF Unhandled
    <3>2. k > handled
      BY <1>h, <3>1
    <3> QED BY <1>3, <2>1, <3>1, <3>2 DEF Unhandled
  <2>2. CASE Finish
    <3>1. /\ wpc = "ended" /\ handled' = handled
          /\ received'[Len(received) + 1].frame = frame
          /\ \A j \in 1..Len(received) : received'[j] = received[j]
          /\ k = Len(received) + 1 \/ k \in 1..Len(received)
      BY <2>2, Finished
    <3> QED BY <1>3, <2>2, <3>1 DEF Unhandled
  <2> QED BY <2>1, <2>2, ParamKept
<1>4. ASSUME NEW a \in Nat, Outstanding(a)'
      PROVE  \/ Outstanding(a)
             \/ a = nsent + 1 /\ \E shape \in Shapes : ServerSends("ask", shape)
  <2>1. \/ \E k \in 1..Len(wire') : wire'[k].frame.kind = "ask" /\ wire'[k].frame.id = a
        \/ Busy' /\ frame'.kind = "ask" /\ frame'.id = a
        \/ \E k \in 1..Len(received') : Unhandled(k)' /\ received'[k].frame.id = a
    BY <1>4 DEF Outstanding
  <2>2. CASE \E k \in 1..Len(received') : Unhandled(k)' /\ received'[k].frame.id = a
    <3>1. PICK k \in 1..Len(received') : Unhandled(k)' /\ received'[k].frame.id = a
      BY <2>2
    <3> QED BY <1>3, <3>1 DEF Outstanding, Busy
  <2> QED BY <1>1, <1>2, <2>1, <2>2
<1>5. NoUnhandled => Finish \/ NoUnhandled'
  BY <1>3 DEF NoUnhandled
<1> QED BY <1>4, <1>5

\* A question that is taken is outstanding no more, and was the only one.
LEMMA HandledIs ==
  ASSUME TypeOK, OnWire, Order, Questions, Handle, Asks(queue[handled + 1])
  PROVE  /\ \A a \in Nat : ~Outstanding(a)'
         /\ waiting = "answer" /\ ~dialog /\ answer = "none" /\ ~NoUnhandled
<1> DEFINE h == handled + 1
<1>1. h \in 1..Len(queue) /\ handled' = h /\ h \in Nat
  BY Counts DEF Handle
<1>2. h \in 1..Len(received) /\ received[h].frame.kind = "ask"
  BY <1>1, AsksIs
<1>3. Unhandled(h) /\ received[h].frame.id \in Nat
  BY <1>2, Counts DEF Unhandled
<1>4. Outstanding(received[h].frame.id) /\ ~NoUnhandled
  BY <1>2, <1>3 DEF Outstanding, NoUnhandled
<1>5. UNCHANGED <<wpc, frame, wire, received>>
  BY DEF Handle, worker
<1>6. ASSUME NEW a \in Nat, Outstanding(a)' PROVE FALSE
  <2>1. \/ \E k \in 1..Len(wire) : wire[k].frame.kind = "ask" /\ wire[k].frame.id = a
        \/ Busy /\ frame.kind = "ask" /\ frame.id = a
        \/ \E k \in 1..Len(received) : k > h /\ received[k].frame.kind = "ask" /\ received[k].frame.id = a
    BY <1>1, <1>5, <1>6 DEF Outstanding, Unhandled, Busy
  <2>2. Outstanding(a)
    <3>1. \A k \in 1..Len(received) : k > h => k > handled
      BY <1>1, Counts
    <3> QED BY <2>1, <3>1 DEF Outstanding, Unhandled
  <2>3. a = received[h].frame.id
    BY <1>3, <1>4, <2>2 DEF Questions
  <2>4. \A k \in 1..Len(wire) : a < wire[k].frame.id
    BY <1>2, <2>3 DEF Order, Past
  <2>5. Busy => a < frame.id
    BY <1>2, <2>3 DEF Order, Past
  <2>6. \A k \in 1..Len(received) : k > h => a < received[k].frame.id
    BY <1>2, <2>3 DEF Order
  <2> QED BY <2>1, <2>4, <2>5, <2>6
<1>7. waiting = "answer" /\ ~dialog /\ answer = "none"
  BY <1>3, <1>4 DEF Questions
<1> QED BY <1>4, <1>6, <1>7

\* Every step keeps the questions.
LEMMA QuestionsStep ==
  ASSUME TypeOK, OnWire, Order, Questions, Next
  PROVE  Questions'
<1>n. nsent + 1 \in Nat /\ \A k \in 1..Len(received) : received[k].frame.id \in Nat
  BY Counts
<1>d. dialog /\ dialog' => UNCHANGED answer /\ waiting' = waiting
  <2>1. dialog => waiting = "answer" /\ answer = "none"
    BY DEF Questions
  <2>2. SendPending => answer # "none"
    BY DEF SendPending
  <2> QED BY <2>1, <2>2, Dialogs
<1>u. dialog => NoUnhandled
  BY <1>n DEF Questions, NoUnhandled, Outstanding
<1>k. ASSUME NEW shape \in Shapes, ServerSends("ask", shape)
      PROVE  /\ waiting = "no" /\ waiting' = "answer" /\ \A a \in Nat : ~Outstanding(a)
             /\ dialog' = FALSE /\ answer' = "none"
  <2>1. waiting = "no" /\ waiting' = "answer" /\ dialog' = dialog /\ answer' = answer
    BY <1>k DEF ServerSends, ui
  <2>2. dialog \in BOOLEAN
    BY DEF TypeOK
  <2> QED BY <2>1, <2>2 DEF Questions
<1>1. (\A a, b \in Nat : Outstanding(a) /\ Outstanding(b) => a = b)'
  <2> SUFFICES ASSUME NEW a \in Nat, NEW b \in Nat, Outstanding(a)', Outstanding(b)' PROVE a = b
    OBVIOUS
  <2> QED BY <1>k, OutstandingStep DEF Questions
<1>2. (\A a \in Nat : Outstanding(a) => waiting = "answer" /\ ~dialog /\ answer = "none")'
  <2> SUFFICES ASSUME NEW a \in Nat, Outstanding(a)'
               PROVE  waiting' = "answer" /\ ~dialog' /\ answer' = "none"
    OBVIOUS
  <2>1. CASE \E shape \in Shapes : ServerSends("ask", shape)
    BY <1>k, <2>1
  <2>2. CASE Outstanding(a)
    <3>1. waiting = "answer" /\ ~dialog /\ answer = "none"
      BY <2>2 DEF Questions
    <3>2. ~SendPending
      BY <3>1 DEF SendPending
    <3>3. ~dialog'
      <4>1. CASE Handle
        <5>1. ~Asks(queue[handled + 1])
          BY <4>1, HandledIs
        <5> QED BY <3>1, <4>1, <5>1 DEF Handle
      <4> QED BY <3>1, <4>1, Dialogs
    <3> QED BY <3>1, <3>2, <3>3, Dialogs
  <2> QED BY <2>1, <2>2, OutstandingStep
<1>3. (dialog => waiting = "answer" /\ answer = "none")'
  <2> SUFFICES ASSUME dialog' PROVE waiting' = "answer" /\ answer' = "none"
    OBVIOUS
  <2>1. CASE dialog
    BY <1>d, <2>1 DEF Questions
  <2>2. CASE ~dialog
    <3>1. Handle
      BY <2>2, Dialogs
    <3>2. Asks(queue[handled + 1])
      BY <2>2, <3>1 DEF Handle
    <3>3. waiting' = waiting /\ answer' = answer
      BY <3>1 DEF Handle, server
    <3> QED BY <3>1, <3>2, <3>3, HandledIs
  <2> QED BY <2>1, <2>2
<1>4. (answer # "none" => waiting = "answer")'
  <2> SUFFICES ASSUME answer' # "none" PROVE waiting' = "answer"
    OBVIOUS
  <2>1. ~SendPending
    BY DEF SendPending
  <2>2. waiting = "answer"
    BY <2>1, Dialogs DEF Questions
  <2> QED BY <2>1, <2>2, Dialogs
<1>5. (PostFile # 0 => ~dialog /\ NoUnhandled)'
  <2> SUFFICES ASSUME PostFile' # 0 PROVE ~dialog' /\ NoUnhandled'
    OBVIOUS
  <2>1. ~Finish
    BY DEF Finish, post_done
  <2>2. CASE UserChooses
    <3>1. dialog /\ dialog' = FALSE
      BY <2>2 DEF UserChooses
    <3> QED BY <1>u, <2>1, <3>1, OutstandingStep
  <2>3. CASE ~UserChooses
    <3>1. PostFile # 0
      BY <2>3, FilesStep
    <3>2. ~dialog /\ NoUnhandled
      BY <3>1 DEF Questions
    <3>3. ~dialog'
      <4>1. CASE Handle
        <5>1. ~Asks(queue[handled + 1])
          BY <3>2, <4>1, HandledIs
        <5> QED BY <3>2, <4>1, <5>1 DEF Handle
      <4> QED BY <3>2, <4>1, Dialogs
    <3> QED BY <2>1, <3>2, <3>3, OutstandingStep
  <2> QED BY <2>2, <2>3
<1> QED BY <1>1, <1>2, <1>3, <1>4, <1>5 DEF Questions
-----------------------------------------------------------------------------
(* A server that is silent between the question and the answer. *)

Patience ==
  Patient =>
    /\ ~disturbed /\ \A k \in 1..Len(files) : ~files[k].mid
    /\ \A a \in Nat : Outstanding(a) => a = nsent
    /\ dialog \/ answer # "none" \/ waiting = "send" \/ ~NoUnhandled =>
         wire = <<>> /\ wpc \in {"poll", "reconnect"}
    /\ PostFile # 0 /\ ~files[PostFile].cut =>
         /\ Busy => frame.kind = "content"
         /\ wpc \in {"poll", "garbled"} =>
              answer = "1" \/ waiting = "send" \/ (wire # <<>> /\ wire[1].frame.kind = "content")

\* What steps between two frames do to the wire, and which lead there (get_message).
LEMMA BetweenFrames ==
  ASSUME TypeOK, Next
  PROVE  /\ wpc' \in {"poll", "garbled"} => wpc \in {"poll", "garbled"} \/ Finish \/ Reconnect
         /\ wpc \in {"poll", "garbled", "reconnect"} =>
              \/ wire' = wire \/ LinkBreaks \/ Reconnect \/ (ReadHeader /\ wpc' = "sized")
              \/ \E kind \in {"ask", "content", "other"}, shape \in Shapes : ServerSends(kind, shape)
         /\ wpc \in {"poll", "reconnect"} => wpc' \in {"poll", "reconnect"} \/ ReadHeader
         /\ wire = <<>> => wire' = <<>>
              \/ \E kind \in {"ask", "content", "other"}, shape \in Shapes : ServerSends(kind, shape)
         /\ disturbed' = disturbed \/ disturbed' = FALSE \/ UserChooses
<1>1. CASE ReadHeader
  BY <1>1 DEF ReadHeader
<1>2. ASSUME NEW n \in 1..(FILE_MESSAGE + SLACK),
             ReceiveToBuffer(n) \/ ReceiveHead(n) \/ ReceiveRest(n)
      PROVE  /\ wpc \in {"toBuffer", "toFile"} /\ wpc' \in {"round", "ended"}
             /\ wire # <<>> /\ disturbed' = disturbed
  BY <1>2 DEF ReceiveToBuffer, ReceiveHead, ReceiveRest, Counted, Recv, Arrived
<1>3. CASE HeaderFails \/ Prepare \/ Choose \/ Overrun \/ BodyFails \/ Finish \/ Reconnect
  BY <1>3 DEF HeaderFails, Prepare, Choose, Overrun, BodyFails, Finish, Reconnect
<1>4. CASE SendPending \/ Handle \/ UserChooses \/ UserCancels
  BY <1>4 DEF SendPending, Handle, UserChooses, UserCancels, worker
<1>5. CASE LinkBreaks
  <2>1. wpc' = wpc /\ disturbed' = disturbed /\ (wire' = wire \/ wire' = <<>>)
    BY <1>5 DEF LinkBreaks, worker
  <2> QED BY <1>5, <2>1
<1>6. ASSUME NEW kind \in {"ask", "content", "other"}, NEW shape \in Shapes, ServerSends(kind, shape)
      PROVE  wpc' = wpc /\ disturbed' = disturbed
  BY <1>6 DEF ServerSends, worker
<1>7. CASE \E n \in 1..(FILE_MESSAGE + SLACK) : ReceiveToBuffer(n) \/ ReceiveHead(n) \/ ReceiveRest(n)
  BY <1>2, <1>7
<1>8. CASE \E kind \in {"ask", "content", "other"}, shape \in Shapes : ServerSends(kind, shape)
  BY <1>6, <1>8
<1> QED BY <1>1, <1>3, <1>4, <1>5, <1>7, <1>8 DEF Next

\* Every step keeps the patience: nothing is on its way while the user is asked, so the
\* file is open before its content comes, and that is the next frame.
LEMMA PatienceStep ==
  ASSUME TypeOK, OnWire, Order, Opened, Questions, Patience, Next
  PROVE  Patience'
<1> DEFINE Asked == dialog \/ answer # "none" \/ waiting = "send" \/ ~NoUnhandled
<1> SUFFICES ASSUME Patient
             PROVE  /\ ~disturbed' /\ \A k \in 1..Len(files') : ~files'[k].mid
                    /\ \A a \in Nat : Outstanding(a)' => a = nsent'
                    /\ Asked' => wire' = <<>> /\ wpc' \in {"poll", "reconnect"}
                    /\ PostFile' # 0 /\ ~files'[PostFile'].cut =>
                         /\ Busy' => frame'.kind = "content"
                         /\ wpc' \in {"poll", "garbled"} =>
                              \/ answer' = "1" \/ waiting' = "send"
                              \/ wire' # <<>> /\ wire'[1].frame.kind = "content"
  BY DEF Patience
<1>p. /\ ~disturbed /\ \A k \in 1..Len(files) : ~files[k].mid
      /\ \A a \in Nat : Outstanding(a) => a = nsent
      /\ Asked => wire = <<>> /\ wpc \in {"poll", "reconnect"}
  BY DEF Patience
<1>q. Asked => waiting # "no" /\ (waiting = "send" => ~dialog /\ answer = "none" /\ NoUnhandled)
  <2>1. ~NoUnhandled => \E a \in Nat : Outstanding(a)
    <3>1. \A k \in 1..Len(received) : received[k].frame.id \in Nat
      BY Counts
    <3> QED BY <3>1 DEF NoUnhandled, Outstanding
  <2> QED BY <2>1 DEF Questions
<1>s. ASSUME NEW kind \in {"ask", "content", "other"}, NEW shape \in Shapes, ServerSends(kind, shape)
      PROVE  /\ waiting = "no" \/ (waiting = "send" /\ waiting' = "no" /\ kind = "content")
             /\ UNCHANGED <<dialog, answer, wpc, received, handled>>
  BY <1>s DEF ServerSends, ui, worker
<1>n. nsent \in Nat /\ frame.id \in Nat /\ Len(wire) \in Nat /\ wire \in Seq(Item)
      /\ \A k \in 1..Len(wire) : wire[k].frame.id \in Nat
  <2>1. nsent \in Nat /\ Len(wire) \in Nat /\ wire \in Seq(Item) /\ frame.id \in 1..MaxFrames
    BY Counts
  <2>2. \A k \in 1..Len(wire) : wire[k].frame.id \in Nat \ {0}
    BY Counts
  <2> QED BY <2>1, <2>2
<1>1. ~disturbed'
  <2>1. UserChooses => disturbed' = (disturbed \/ InFrame) /\ dialog
    BY DEF UserChooses
  <2>2. dialog => ~InFrame
    BY <1>p DEF InFrame
  <2> QED BY <1>p, <2>1, <2>2, BetweenFrames
<1>2. \A k \in 1..Len(files') : ~files'[k].mid
  <2> SUFFICES ASSUME NEW k \in 1..Len(files') PROVE ~files'[k].mid
    OBVIOUS
  <2>1. CASE UserChooses
    <3>1. ~InFrame
      BY <1>p, <2>1 DEF UserChooses, InFrame
    <3>2. /\ \A j \in 1..Len(files) : files'[j].mid = files[j].mid
          /\ \/ Len(files') = Len(files)
             \/ Len(files') = Len(files) + 1 /\ (files'[Len(files')].mid <=> InFrame)
      BY <2>1, FileChosen
    <3>3. k \in 1..Len(files) \/ (k = Len(files') /\ Len(files') = Len(files) + 1)
      BY <3>2, OpenFile
    <3> QED BY <1>p, <3>1, <3>2, <3>3
  <2>2. CASE ~UserChooses
    <3>1. Len(files') = Len(files) /\ (k # PostFile => files'[k] = files[k])
      BY <2>2, FilesStep DEF OthersSame
    <3>2. PostFile # 0 => files'[PostFile].mid = files[PostFile].mid
      BY <2>2, FilesStep
    <3>3. k # 0
      BY OpenFile
    <3> QED BY <1>p, <3>1, <3>2, <3>3
  <2> QED BY <2>1, <2>2
<1>3. ASSUME NEW a \in Nat, Outstanding(a)' PROVE a = nsent'
  <2>1. CASE a = nsent + 1 /\ \E shape \in Shapes : ServerSends("ask", shape)
    BY <2>1 DEF ServerSends
  <2>2. CASE Outstanding(a)
    <3>1. waiting = "answer" /\ a = nsent
      BY <1>p, <2>2 DEF Questions
    <3>2. nsent' = nsent
      BY <1>s, <3>1, OnWireStep
    <3> QED BY <3>1, <3>2
  <2> QED BY <1>3, <2>1, <2>2, OutstandingStep
<1>4. ASSUME Asked' PROVE wire' = <<>> /\ wpc' \in {"poll", "reconnect"}
  <2>1. CASE Asked
    <3>1. wire = <<>> /\ wpc \in {"poll", "reconnect"}
      BY <1>p, <2>1
    <3>2. ~ReadHeader /\ ~Finish
      BY <3>1 DEF ReadHeader, Finish
    <3>3. ASSUME NEW kind \in {"ask", "content", "other"}, NEW shape \in Shapes,
                 ServerSends(kind, shape)
          PROVE  FALSE
      <4>1. waiting' = "no" /\ ~dialog /\ answer = "none" /\ NoUnhandled
        BY <1>q, <1>s, <2>1, <3>3
      <4>2. NoUnhandled' /\ ~dialog' /\ answer' = "none"
        BY <1>s, <3>2, <3>3, <4>1, OutstandingStep
      <4> QED BY <1>4, <4>1, <4>2
    <3> QED BY <3>1, <3>2, <3>3, BetweenFrames
  <2>2. CASE ~Asked
    <3>1. dialog' = dialog
      <4>1. Handle /\ Asks(queue[handled + 1]) => ~NoUnhandled
        BY HandledIs
      <4>2. dialog = FALSE
        BY <2>2 DEF TypeOK
      <4>3. Handle => dialog' = (dialog \/ Asks(queue[handled + 1]))
        BY DEF Handle
      <4>4. Handle /\ ~Asks(queue[handled + 1]) => dialog' = FALSE
        BY <4>2, <4>3
      <4> QED BY <2>2, <4>1, <4>2, <4>4, Dialogs
    <3>2. answer' = answer /\ ~SendPending
      BY <2>2, Dialogs DEF SendPending
    <3>3. waiting' # "send"
      BY <2>2, <3>2, Dialogs
    <3>4. ~NoUnhandled' /\ Finish
      BY <1>4, <2>2, <3>1, <3>2, <3>3, OutstandingStep
    <3>5. frame.kind = "ask"
      <4>1. PICK k \in 1..Len(received') : Unhandled(k)'
        BY <3>4 DEF NoUnhandled
      <4>2. /\ handled' = handled /\ received'[Len(received) + 1].frame = frame
            /\ \A j \in 1..Len(received) : received'[j] = received[j]
            /\ k = Len(received) + 1 \/ k \in 1..Len(received)
        BY <3>4, <4>1, Finished
      <4>3. ~(k \in 1..Len(received))
        BY <2>2, <4>1, <4>2 DEF NoUnhandled, Unhandled
      <4> QED BY <4>1, <4>2, <4>3 DEF Unhandled
    <3>6. wpc = "ended" /\ wpc' = "poll" /\ wire' = wire
      BY <3>4, Finished
    <3>7. frame.id = nsent
      BY <1>n, <1>p, <3>5, <3>6 DEF Outstanding, Busy
    <3>8. \A k \in 1..Len(wire) : frame.id < wire[k].frame.id /\ wire[k].frame.id <= nsent
      BY <3>6 DEF Order, OnWire
    <3>9. wire = <<>>
      <4> SUFFICES ASSUME wire # <<>> PROVE FALSE
        OBVIOUS
      <4>1. 1 \in 1..Len(wire)
        BY <1>n, OneLess
      <4> QED BY <1>n, <3>7, <3>8, <4>1
    <3> QED BY <3>6, <3>9
  <2> QED BY <2>1, <2>2
<1>5. ASSUME PostFile' # 0, ~files'[PostFile'].cut
      PROVE  /\ Busy' => frame'.kind = "content"
             /\ wpc' \in {"poll", "garbled"} =>
                  \/ answer' = "1" \/ waiting' = "send"
                  \/ wire' # <<>> /\ wire'[1].frame.kind = "content"
  <2>1. CASE UserChooses
    <3>1. answer' = "1" /\ wpc' = wpc /\ wpc \in {"poll", "reconnect"}
      BY <1>p, <2>1 DEF UserChooses, worker
    <3> QED BY <3>1 DEF Busy
  <2>2. CASE ~UserChooses
    <3>1. /\ PostFile # 0 /\ ~files[PostFile].cut /\ ~LinkBreaks /\ ~Reconnect /\ ~Finish
          /\ PostFile' = PostFile
      <4>1. Finish => PostFile' = 0
        BY DEF Finish, post_done
      <4> QED BY <1>5, <2>2, <4>1, FilesStep
    <3>2. /\ Busy => frame.kind = "content"
          /\ wpc \in {"poll", "garbled"} =>
               answer = "1" \/ waiting = "send" \/ (wire # <<>> /\ wire[1].frame.kind = "content")
      BY <3>1 DEF Patience
    <3>3. link = "up"
      BY <3>1 DEF Opened, TypeOK
    <3>4. Busy' => frame'.kind = "content"
      <4>1. CASE ReadHeader /\ Whole(wire[1])
        <5>1. frame' = wire[1].frame /\ wire # <<>> /\ wpc = "poll"
          BY <4>1, HeaderTaken DEF ReadHeader
        <5> QED BY <1>p, <3>2, <5>1
      <4> QED BY <3>2, <4>1, FrameKept
    <3>5. ASSUME wpc' \in {"poll", "garbled"}
          PROVE  \/ answer' = "1" \/ waiting' = "send"
                 \/ wire' # <<>> /\ wire'[1].frame.kind = "content"
      <4>1. wpc \in {"poll", "garbled"}
        BY <3>1, <3>5, BetweenFrames
      <4>2. CASE answer = "1"
        <5>1. SendPending => waiting' = "send"
          BY <3>3, <4>2 DEF SendPending
        <5> QED BY <4>2, <5>1, Dialogs
      <4>3. CASE waiting = "send" /\ answer # "1"
        <5>1. ~SendPending
          BY <4>3 DEF SendPending, Questions
        <5>2. ASSUME NEW shape \in Shapes, ServerSends("content", shape)
              PROVE  wire' # <<>> /\ wire'[1].frame.kind = "content"
          <6>1. Len(wire) = 0
            BY <1>p, <4>3
          <6>2. Len(wire') = Len(wire) + 1 /\ wire'[Len(wire')].frame.kind = "content"
            BY <5>2, Sent
          <6>3. Len(wire') = 1
            BY <6>1, <6>2
          <6>4. wire' # <<>>
            BY <6>3
          <6>5. wire'[1].frame.kind = "content"
            BY <6>2, <6>3
          <6> QED BY <6>4, <6>5
        <5> QED BY <4>3, <5>1, <5>2, Dialogs
      <4>4. CASE wire # <<>> /\ wire[1].frame.kind = "content"
        <5>1. ASSUME NEW kind \in {"ask", "content", "other"}, NEW shape \in Shapes,
                     ServerSends(kind, shape)
              PROVE  wire' # <<>> /\ wire'[1] = wire[1]
          <6>1. 1 \in 1..Len(wire)
            BY <1>n, <4>4, OneLess
          <6>2. Len(wire') = Len(wire) + 1 /\ \A k \in 1..Len(wire) : wire'[k] = wire[k]
            BY <5>1, Sent
          <6>3. Len(wire') # 0
            BY <1>n, <6>2
          <6> QED BY <6>1, <6>2, <6>3
        <5> QED BY <3>1, <3>5, <4>1, <4>4, <5>1, BetweenFrames
      <4> QED BY <3>2, <4>1, <4>2, <4>3, <4>4
    <3> QED BY <3>4, <3>5
  <2> QED BY <2>1, <2>2
<1> QED BY <1>1, <1>2, <1>3, <1>4, <1>5
-----------------------------------------------------------------------------
(* What a closed file got. *)

\* What FileGetsNextFrame says of one file.
Got(file) ==
  file.closed /\ ~file.cut /\ ~file.mid =>
    /\ Len(file.met) = 1
    /\ Sound(file.met[1]) => file.bytes = value(file.met[1])
    /\ Patient => file.met[1].kind = "content"

Gets == \A k \in 1..Len(files) : Got(files[k])

\* Every step keeps it: a file that was opened between two frames, and whose connection
\* lasts, is closed when it has a frame, all of it.
LEMMA GetsStep ==
  ASSUME TypeOK, InStep, Undisturbed, Opened, Questions, Patience, Gets, Next
  PROVE  Gets'
<1> SUFFICES ASSUME NEW k \in 1..Len(files') PROVE Got(files'[k])
  BY DEF Gets, Got
<1>o. /\ PostFile # 0 => PostFile \in 1..Len(files)
      /\ k # 0 /\ Len(files) \in Nat
  BY OpenFile
<1>1. CASE UserChooses
  <2>1. PostFile = 0
    BY <1>1 DEF UserChooses, Questions
  <2>2. /\ \A j \in 1..Len(files) : j # PostFile => files'[j] = files[j]
        /\ \/ Len(files') = Len(files)
           \/ Len(files') = Len(files) + 1 /\ files'[Len(files')].closed = FALSE
    BY <1>1, FileChosen
  <2>3. k \in 1..Len(files) \/ (k = Len(files') /\ Len(files') = Len(files) + 1)
    BY <1>o, <2>2
  <2>4. CASE k \in 1..Len(files)
    <3>1. files'[k] = files[k]
      BY <1>o, <2>1, <2>2, <2>4
    <3> QED BY <2>4, <3>1 DEF Gets
  <2>5. CASE k = Len(files') /\ Len(files') = Len(files) + 1
    <3>1. files'[k].closed = FALSE
      BY <1>o, <2>2, <2>5
    <3> QED BY <3>1 DEF Got
  <2> QED BY <2>3, <2>4, <2>5
<1>2. CASE ~UserChooses /\ k # PostFile
  BY <1>2, FilesStep DEF OthersSame, Gets
<1>3. CASE ~UserChooses /\ k = PostFile /\ PostFile' = PostFile
  <2>1. ~files'[k].closed
    BY <1>3, <1>o, FilesStep DEF Opened
  <2> QED BY <2>1 DEF Got
<1>4. CASE k = PostFile /\ Ended /\ HeaderFails /\ ~UserChooses
  <2>1. files'[k].cut
    BY <1>4, <1>o, FilesStep DEF Opened, Ended
  <2> QED BY <2>1 DEF Got
<1>5. CASE k = PostFile /\ Finish
  <2> SUFFICES ASSUME files'[k].closed, ~files'[k].cut, ~files'[k].mid
               PROVE  /\ Len(files'[k].met) = 1
                      /\ Sound(files'[k].met[1]) => files'[k].bytes = value(files'[k].met[1])
                      /\ Patient => files'[k].met[1].kind = "content"
    BY DEF Got
  <2>1. wpc = "ended" /\ InFrame /\ Busy
    BY <1>5 DEF Finish, InFrame, Busy
  <2>2. /\ files'[k].met = files[k].met /\ files'[k].bytes = files[k].bytes
        /\ ~files[k].cut /\ ~files[k].mid
    BY <1>5, <1>o, FileCloses DEF Finish, post_done, Closes
  <2>3. /\ ~disturbed /\ Len(files[k].met) = 1 /\ files[k].met[1] = frame
        /\ Sound(frame) => files[k].bytes = IF filemarker THEN rec_count - frame.shape.head ELSE 0
    BY <1>5, <1>o, <2>1, <2>2 DEF Opened, Filled
  <2>4. Sound(frame) => rec_count = Size /\ filemarker
    <3>1. /\ rec_count \in Nat /\ initial_buf \in Nat /\ Size \in Nat
          /\ FILE_MESSAGE \in Nat /\ SLACK \in Nat
      BY Counts, ReceiveAssumption DEF Size, ReceiveAssumption
    <3>2. /\ initial_buf = (IF Size > FILE_MESSAGE THEN FILE_MESSAGE + SLACK ELSE Size)
          /\ ~filemarker => rec_count < initial_buf
          /\ rec_count >= Size /\ (rec_count = Size \/ initial_buf > Size)
      BY <1>5, <1>o, <2>1, <2>3 DEF Undisturbed, InStep
    <3>3. Sound(frame) => Size <= FILE_MESSAGE \/ Size >= FILE_MESSAGE + SLACK
      BY DEF Sound, Size
    <3> QED BY <3>1, <3>2, <3>3
  <2>5. Sound(frame) => files[k].bytes = value(frame)
    BY <2>3, <2>4 DEF value, Size
  <2>6. Patient => frame.kind = "content"
    BY <1>5, <1>o, <2>1, <2>2 DEF Patience
  <2> QED BY <2>2, <2>3, <2>5, <2>6
<1> QED BY <1>o, <1>1, <1>2, <1>3, <1>4, <1>5, FilesStep
-----------------------------------------------------------------------------
(* The invariant, and what follows from it. *)

ReceiveInv ==
  /\ TypeOK /\ OnWire /\ InStep /\ Order /\ Undisturbed /\ Buffered /\ Places
  /\ Opened /\ Questions /\ Patience /\ Gets

\* It holds before the first frame.
LEMMA ReceiveInit == Init => ReceiveInv
<1> SUFFICES ASSUME Init PROVE ReceiveInv
  OBVIOUS
<1>a. MaxFrames \in Nat \ {0} /\ MaxBreaks \in Nat
  BY ReceiveAssumption DEF ReceiveAssumption
<1>b. PICK shape \in Shapes : frame = [kind |-> "other", shape |-> shape, id |-> 1]
  BY DEF Init
<1>c. frame \in Frame
  BY <1>a, <1>b DEF Frame
<1>s. /\ <<>> \in Seq(Item) /\ <<>> \in Seq(File) /\ <<>> \in Seq(Entry) /\ <<>> \in Seq(Record)
      /\ Len(files) = 0 /\ Len(queue) = 0 /\ Len(received) = 0 /\ Len(wire) = 0
  BY DEF Init
<1>1. TypeOK
  <2>1. /\ PARAM \in [frame : 0..MaxFrames, value : Nat] /\ PostFile \in 0..Len(files)
        /\ handled \in 0..Len(queue) /\ nsent \in 0..MaxFrames /\ breaks \in 0..MaxBreaks
    BY <1>a, <1>s DEF Init, Fresh, NoFrame
  <2>2. files = <<>> /\ queue = <<>> /\ received = <<>> /\ wire = <<>>
    BY DEF Init
  <2> QED BY <1>c, <1>s, <2>1, <2>2 DEF Init, TypeOK, Item, File, Entry, Record
<1>2. OnWire
  BY <1>s DEF OnWire
<1>3. InStep
  BY DEF Init, InStep, Receiving, InFrame
<1>4. ~Busy /\ ~InFrame
  BY DEF Init, Busy, InFrame
<1>5. Order
  <2>1. PARAM.frame = 0 /\ nsent = 0
    BY DEF Init, Fresh, NoFrame
  <2>2. \A f : ~Met(f)
    BY <1>s DEF Met
  <2>3. Old(PARAM.frame)
    BY <1>s, <2>1 DEF Old
  <2>4. wpc = "poll"
    BY DEF Init
  <2> QED BY <1>4, <1>s, <2>2, <2>3, <2>4 DEF Order
<1>6. Undisturbed /\ Buffered
  BY <1>4 DEF Undisturbed, Buffered
<1>7. Places
  BY <1>s DEF Places
<1>8. Opened
  BY DEF Init, Opened
<1>o. (\A a \in Nat : ~Outstanding(a)) /\ NoUnhandled
  BY <1>4, <1>s DEF Outstanding, NoUnhandled
<1>9. Questions
  BY <1>o DEF Init, Questions
<1>10. Patience
  BY <1>o, <1>s DEF Init, Patience
<1>11. Gets
  BY <1>s DEF Gets
<1> QED BY <1>1, <1>2, <1>3, <1>5, <1>6, <1>7, <1>8, <1>9, <1>10, <1>11 DEF ReceiveInv

\* A step that changes nothing keeps it.
LEMMA ReceiveStutters == ReceiveInv /\ UNCHANGED vars => ReceiveInv'
<1> SUFFICES ASSUME ReceiveInv, UNCHANGED vars PROVE ReceiveInv'
  OBVIOUS
<1>u. UNCHANGED <<wpc, frame, rec_count, buf_size, initial_buf, filemarker, PARAM, PostFile, files, queue,
                  answer, handled, dialog, wire, link, waiting, nsent, breaks, received, disturbed>>
  BY DEF vars, worker, ui, server
<1>1. TypeOK'
  BY <1>u DEF ReceiveInv, TypeOK
<1>2. OnWire' /\ InStep'
  BY <1>u DEF ReceiveInv, OnWire, InStep, Whole, Unsound, Receiving, InFrame, Size, Sound
<1>3. Order' /\ Undisturbed' /\ Buffered' /\ Places'
  BY <1>u DEF ReceiveInv, Order, Past, Old, Busy, Whole, Met, Undisturbed, Buffered, InFrame, Size,
              TakenApart, Places, Sound, value
<1>4. Opened' /\ Gets'
  BY <1>u DEF ReceiveInv, Opened, Filled, InFrame, Sound, Gets, Got, value
<1>5. Questions' /\ Patience'
  BY <1>u DEF ReceiveInv, Questions, Patience, Outstanding, NoUnhandled, Unhandled, Busy
<1> QED BY <1>1, <1>2, <1>3, <1>4, <1>5 DEF ReceiveInv

\* Every step keeps it.
LEMMA ReceiveStep == ReceiveInv /\ Next => ReceiveInv'
BY TypesStep, OnWireStep, InStepStep, OrderStep, UndisturbedStep, BufferedStep, PlacesStep, OpenedStep,
   QuestionsStep, PatienceStep, GetsStep DEF ReceiveInv

\* It holds at any time.
THEOREM ReceiveAlways == Spec => []ReceiveInv
BY ReceiveInit, ReceiveStutters, ReceiveStep, PTL DEF Spec

\* What it says in the terms of ReceiveMessage.
LEMMA ReceiveFollows ==
  ReceiveInv => /\ TypeOK /\ StaysInStep /\ OpenedBetweenFrames /\ UndefinedIsExplained
                /\ FileGetsNextFrame /\ EveryFrameHasItsPlace
<1> SUFFICES ASSUME ReceiveInv
             PROVE  /\ TypeOK /\ StaysInStep /\ OpenedBetweenFrames /\ UndefinedIsExplained
                    /\ FileGetsNextFrame /\ EveryFrameHasItsPlace
  OBVIOUS
<1>1. TypeOK
  BY DEF ReceiveInv
<1>d. /\ DOMAIN files = 1..Len(files) /\ DOMAIN queue = 1..Len(queue)
      /\ \A k \in 1..Len(files) : DOMAIN files[k].met = 1..Len(files[k].met)
  BY <1>1, OpenFile, Counts
<1>2. StaysInStep
  BY <1>d DEF ReceiveInv, InStep, Unsound, StaysInStep
<1>3. UndefinedIsExplained
  <2>1. wpc = "undefined" => disturbed
    BY DEF ReceiveInv, Undisturbed, InFrame
  <2>2. initial_buf \in Nat /\ buf_size \in Nat
    BY <1>1, Counts
  <2>3. wpc = "overrun" => Size > FILE_MESSAGE /\ Met(frame)
    BY <2>2 DEF ReceiveInv, Buffered, InFrame
  <2>4. Met(frame) <=> FilesOf(frame) # {}
    BY <1>1, MetIs
  <2> QED BY <2>1, <2>3, <2>4 DEF UndefinedIsExplained, Size
<1>4. OpenedBetweenFrames
  BY <1>3, <1>d DEF ReceiveInv, Patience, UndefinedIsExplained, OpenedBetweenFrames
<1>5. FileGetsNextFrame
  BY <1>d DEF ReceiveInv, Gets, Got, FileGetsNextFrame
<1>6. EveryFrameHasItsPlace
  <2>1. \A f : Met(f) <=> FilesOf(f) # {}
    BY <1>1, MetIs
  <2>2. \A k \in 1..Len(received) :
          ~received[k].disturbed /\ Sound(received[k].frame) =>
            /\ queue[k].frame = received[k].frame.id
            /\ queue[k].value = IF FilesOf(received[k].frame) = {} THEN value(received[k].frame) ELSE 0
    BY <2>1 DEF ReceiveInv, Places
  <2>3. Len(received) = Len(queue)
    BY DEF ReceiveInv, Order
  <2> QED BY <1>d, <2>2, <2>3 DEF EveryFrameHasItsPlace
<1> QED BY <1>1, <1>2, <1>3, <1>4, <1>5, <1>6

\* get_message keeps the types of its state and of what both threads share.
THEOREM TypesHold == Spec => []TypeOK
BY ReceiveAlways, ReceiveFollows, PTL

\* However a frame comes in pieces, get_message takes its bytes and no other's, unless a file
\* met a frame that is longer than FILE_MESSAGE by less than SLACK.
THEOREM ReaderStaysInStep == Spec => []StaysInStep
BY ReceiveAlways, ReceiveFollows, PTL

\* With a server that is silent until it has the answer, set_next_post_filename never opens a
\* file while a frame is being received, for all that PostFile has no lock.
THEOREM FilesOpenBetweenFrames == Spec => []OpenedBetweenFrames
BY ReceiveAlways, ReceiveFollows, PTL

\* With any server what get_message does with a frame is defined, unless a file was opened
\* after its buffer was made and before the frame was received, or the frame is longer than
\* FILE_MESSAGE and met a file: then the first read may write beyond the buffer.
THEOREM FramesAreDefined == Spec => []UndefinedIsExplained
BY ReceiveAlways, ReceiveFollows, PTL

\* A file that was opened between two frames gets the value of the next one, all of it and
\* nothing else, if the connection lasts; from a silent server that is the content.
THEOREM FilesGetTheirFrame == Spec => []FileGetsNextFrame
BY ReceiveAlways, ReceiveFollows, PTL

\* Each frame received is one entry of the queue, in order, with its value there or in a file.
THEOREM FramesHavePlaces == Spec => []EveryFrameHasItsPlace
BY ReceiveAlways, ReceiveFollows, PTL
=============================================================================
