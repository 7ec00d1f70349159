--------------------------- MODULE DispatchProofs ---------------------------
(***************************************************************************)
(* Theorems about Dispatch: the answers of handlers that run inside each     *)
(* other while dialogs are open, the box that decides on a consent, and how  *)
(* the program ends.                                                         *)
(***************************************************************************)
EXTENDS Dispatch, FiniteSetTheorems, SequenceTheorems, TLAPS

\* A question with the text it was shown with, on the stack or in the console window.
Entry == [frame : Frame, text : 0..MaxFrames]

\* An answer in MessageStack.
AnswerType == [id : 1..MaxFrames, part : 1..2, res : {"yes", "no"},
               shown : 0..MaxFrames, used : -1..MaxFrames]

\* The frames the thread has taken from the queue.
Handled == Len(sent) - Len(queue)

\* p is the last MSG_POST_STRING among the first n frames.
LastPost(p, n) ==
  \/ p = 0 /\ \A k \in 1..n : sent[k].kind # "post"
  \/ p \in 1..n /\ sent[p].kind = "post" /\ \A k \in p + 1..n : sent[k].kind # "post"

-----------------------------------------------------------------------------
(* The inductive invariant, part by part *)

\* Types of the histories and of the number of dialogs.
HistoryTypes ==
  /\ sent \in Seq(Frame) /\ Len(sent) <= MaxFrames
  /\ MessageStack \in Seq(AnswerType)
  /\ clicklog \in Seq(0..MaxFrames)

\* What is in the queue are the last of the frames sent, and the registers hold the
\* last text that was taken from it.
Posts ==
  /\ Len(queue) <= Len(sent) /\ \A k \in 1..Len(queue) : queue[k] = sent[Handled + k]
  /\ \A k \in 1..Len(sent) : sent[k].id = k /\ LastPost(sent[k].text, k - 1)
  /\ LastPost(POST_STRING, Handled) /\ LastPost(POST_TARGET, Handled)

\* A dialog that is open is of a frame taken from the queue, shows the text sent for
\* it, and no frame has two.
OfItsFrame(e) == e.frame.id <= Handled /\ e.frame = sent[e.frame.id] /\ e.text = e.frame.text

Dialogs ==
  /\ \A k \in 1..Len(stack) :
       OfItsFrame(stack[k]) /\ stack[k].frame.kind \in Counted \cup FileDialogs
  /\ \A j, k \in 1..Len(stack) : stack[j].frame.id = stack[k].frame.id => j = k

\* So is the login in the console window, which has no dialog.
ConsoleLogin ==
  \A l \in 1..Len(cw.login) :
    /\ l = 1
    /\ OfItsFrame(cw.login[l]) /\ cw.login[l].frame.kind = "login"
    /\ \A k \in 1..Len(stack) : stack[k].frame.id # cw.login[l].frame.id

\* What was answered is a question that waits nowhere.
Answers ==
  \A a \in 1..Len(MessageStack) :
    /\ MessageStack[a].id <= Handled /\ sent[MessageStack[a].id].kind \in Questions
    /\ \A k \in 1..Len(stack) : stack[k].frame.id # MessageStack[a].id
    /\ \A l \in 1..Len(cw.login) : cw.login[l].frame.id # MessageStack[a].id

\* A server that waits has one question without an answer, the last frame it sent.
OneQuestion ==
  Sequential => \A k \in 1..Len(sent) :
    sent[k].kind \in Questions /\ ~Answered(k) => k = Len(sent)

\* dialogs counts those of the dialogs on the stack that are to be counted.
CountedOpen == {k \in 1..Len(stack) : stack[k].frame.kind \in Counted}
DialogsCount == dialogs = Cardinality(CountedOpen)

\* Nothing is on the disk that is not listed, and after the end nothing is.
Ends ==
  /\ disk \subseteq CookieList
  /\ NoDialogIsCut /\ (exited # "no" => disk = {})

\* What closeEvent remembers of the clicks.
Clicks ==
  LET n == Len(clicklog) IN
  IF exited = "no"
  THEN \/ closeEvent = [clicked |-> 0, last |-> -1] /\ n = 0
       \/ /\ n >= 1 /\ clicklog[n] = closeEvent.last
          /\ closeEvent.clicked = 1 => n >= 2 /\ clicklog[n - 1] = closeEvent.last
  ELSE ThreeClicks

\* The boxes lie in the order of their frames, a request that waits in one is not decided,
\* and FirstBoxDecides.
Credentials ==
  /\ \A j, k \in 1..Len(stack) : j < k => stack[j].frame.id < stack[k].frame.id
  /\ \A k \in 1..Len(decided) :
       /\ decided[k].id <= Handled
       /\ \A j \in 1..Len(stack) : stack[j].frame.id # decided[k].id
  /\ FirstBoxDecides

Inv ==
  /\ TypeOK /\ HistoryTypes /\ Posts /\ Dialogs /\ ConsoleLogin /\ Answers /\ Credentials
  /\ AnswersMatch /\ TextOfTheQuestion /\ OneQuestion /\ DialogsCount /\ Ends /\ Clicks

-----------------------------------------------------------------------------
(* Sequences *)

\* What appending an element does.
LEMMA OneMore ==
  ASSUME NEW T, NEW s \in Seq(T), NEW e \in T
  PROVE  /\ Append(s, e) \in Seq(T) /\ Len(Append(s, e)) = Len(s) + 1 /\ Len(s) \in Nat
         /\ Append(s, e)[Len(s) + 1] = e
         /\ \A k \in 1..Len(s) : Append(s, e)[k] = s[k]
  OBVIOUS

\* What taking the first element does.
LEMMA OneLess ==
  ASSUME NEW T, NEW s \in Seq(T), s # <<>>
  PROVE  /\ Len(s) \in Nat \ {0} /\ s[1] \in T
         /\ Tail(s) \in Seq(T) /\ Len(Tail(s)) = Len(s) - 1
         /\ \A k \in 1..Len(Tail(s)) : k + 1 \in 1..Len(s) /\ Tail(s)[k] = s[k + 1]
  OBVIOUS

\* What taking the last element does.
LEMMA LastLess ==
  ASSUME NEW T, NEW s \in Seq(T), s # <<>>
  PROVE  /\ Len(s) \in Nat \ {0} /\ s[Len(s)] \in T
         /\ SubSeq(s, 1, Len(s) - 1) \in Seq(T) /\ Len(SubSeq(s, 1, Len(s) - 1)) = Len(s) - 1
         /\ \A k \in 1..Len(s) - 1 : SubSeq(s, 1, Len(s) - 1)[k] = s[k]
<1>1. Len(s) \in Nat \ {0} /\ \A k \in 1..Len(s) : s[k] \in T
  OBVIOUS
<1> DEFINE n == Len(s) - 1
<1>2. n \in Nat /\ \A k \in 1..n : s[k] \in T
  BY <1>1
<1> HIDE DEF n
<1>3. SubSeq(s, 1, n) \in Seq(T)
  BY <1>2, SubSeqProperties
<1>4. Len(SubSeq(s, 1, n)) = n
  BY <1>2, SubSeqProperties
<1>5. \A k \in 1..n : SubSeq(s, 1, n)[k] = s[k]
  <2>1. \A k \in 1..n - 1 + 1 : SubSeq(s, 1, n)[k] = s[1 + k - 1]
    BY <1>2, SubSeqProperties
  <2> QED BY <1>2, <2>1
<1> QED BY <1>1, <1>3, <1>4, <1>5 DEF n

\* What appending several does.
LEMMA Joined ==
  ASSUME NEW T, NEW s \in Seq(T), NEW new \in Seq(T)
  PROVE  /\ s \o new \in Seq(T) /\ Len(s \o new) = Len(s) + Len(new)
         /\ Len(s) \in Nat /\ Len(new) \in Nat
         /\ \A k \in 1..Len(s) : (s \o new)[k] = s[k]
         /\ \A k \in 1..Len(new) : (s \o new)[Len(s) + k] = new[k]
<1>1. Len(s) \in Nat /\ Len(new) \in Nat
  OBVIOUS
<1> QED BY <1>1, ConcatProperties

-----------------------------------------------------------------------------
(* The frames that were sent, and the texts *)

\* The last text is one.
LEMMA OneLastPost ==
  ASSUME NEW p, NEW q, NEW n \in Nat, LastPost(p, n), LastPost(q, n)
  PROVE  p = q
BY DEF LastPost

\* How the last text follows the frames.
LEMMA NextLastPost ==
  ASSUME NEW p, NEW n \in Nat, LastPost(p, n)
  PROVE  LastPost(IF sent[n + 1].kind = "post" THEN n + 1 ELSE p, n + 1)
<1>1. CASE sent[n + 1].kind = "post"
  BY <1>1 DEF LastPost
<1>2. CASE sent[n + 1].kind # "post"
  <2>1. \A k \in 1..n + 1 : k = n + 1 \/ k \in 1..n
    OBVIOUS
  <2>2. \A k \in p + 1..n + 1 : p \in 1..n => k = n + 1 \/ k \in p + 1..n
    OBVIOUS
  <2> QED BY <1>2, <2>1, <2>2 DEF LastPost
<1> QED BY <1>1, <1>2

\* Numbers that the proofs use.
LEMMA Counts ==
  ASSUME TypeOK, HistoryTypes, Posts
  PROVE  /\ Len(sent) \in Nat /\ Len(queue) \in Nat /\ Handled \in Nat /\ Len(stack) \in Nat
         /\ Len(MessageStack) \in Nat /\ Len(clicklog) \in Nat /\ Handled <= Len(sent)
         /\ Len(cw.login) \in Nat /\ MaxFrames \in Nat /\ Len(sent) <= MaxFrames
         /\ DOMAIN MessageStack = 1..Len(MessageStack) /\ DOMAIN sent = 1..Len(sent)
         /\ DOMAIN stack = 1..Len(stack)
         /\ \A k \in 1..Len(sent) : sent[k] \in Frame /\ sent[k].id = k
         /\ \A k \in 1..Len(stack) : stack[k] \in Entry /\ stack[k].frame.id \in 1..MaxFrames
         /\ \A k \in 1..Len(cw.login) : cw.login[k] \in Entry /\ cw.login[k].frame.id \in 1..MaxFrames
         /\ \A k \in 1..Len(MessageStack) : MessageStack[k] \in AnswerType
                                           /\ MessageStack[k].id \in 1..MaxFrames
<1>1. MaxFrames \in Nat
  BY DispatchAssumption DEF DispatchAssumption
<1>2. /\ sent \in Seq(Frame) /\ queue \in Seq(Frame) /\ stack \in Seq(Entry)
      /\ MessageStack \in Seq(AnswerType) /\ cw.login \in Seq(Entry)
      /\ Len(sent) <= MaxFrames /\ Len(queue) <= Len(sent)
  BY DEF TypeOK, HistoryTypes, Entry, Posts
<1>3. /\ Len(sent) \in Nat /\ Len(queue) \in Nat /\ Len(stack) \in Nat
      /\ Len(MessageStack) \in Nat /\ Len(cw.login) \in Nat
      /\ DOMAIN MessageStack = 1..Len(MessageStack) /\ DOMAIN sent = 1..Len(sent)
      /\ DOMAIN stack = 1..Len(stack)
      /\ \A k \in 1..Len(sent) : sent[k] \in Frame
      /\ \A k \in 1..Len(stack) : stack[k] \in Entry
      /\ \A k \in 1..Len(cw.login) : cw.login[k] \in Entry
      /\ \A k \in 1..Len(MessageStack) : MessageStack[k] \in AnswerType
  BY <1>2
<1>4. Len(clicklog) \in Nat
  BY DEF HistoryTypes
<1>5. Handled \in Nat /\ Handled <= Len(sent)
  BY <1>2, <1>3 DEF Handled
<1>6. \A k \in 1..Len(sent) : sent[k].id = k
  BY DEF Posts
<1>7. \A e \in Entry : e.frame.id \in 1..MaxFrames
  BY DEF Entry, Frame
<1>8. \A a \in AnswerType : a.id \in 1..MaxFrames
  BY DEF AnswerType
<1> QED BY <1>1, <1>2, <1>3, <1>4, <1>5, <1>6, <1>7, <1>8

\* What a handler takes is the next of the frames sent, and POST_STRING holds its text.
LEMMA Taken ==
  ASSUME TypeOK, HistoryTypes, Posts, Take, sent' = sent
  PROVE  /\ First \in Frame /\ First.id = Handled + 1 /\ First = sent[Handled + 1]
         /\ Handled + 1 \in 1..Len(sent) /\ Handled' = Handled + 1
         /\ queue' \in Seq(Frame) /\ Len(queue') <= Len(sent)
         /\ \A k \in 1..Len(queue') : queue'[k] = sent[Handled + 1 + k]
         /\ POST_STRING = First.text /\ POST_TARGET = First.text
<1>1. queue \in Seq(Frame) /\ queue # <<>> /\ queue' = Tail(queue)
  BY DEF TypeOK, Take
<1>2. /\ Len(queue) \in Nat \ {0} /\ queue[1] \in Frame
      /\ Tail(queue) \in Seq(Frame) /\ Len(Tail(queue)) = Len(queue) - 1
      /\ \A k \in 1..Len(Tail(queue)) : k + 1 \in 1..Len(queue) /\ Tail(queue)[k] = queue[k + 1]
  BY <1>1, OneLess
<1>3. Len(sent) \in Nat /\ Handled \in Nat /\ Len(queue) <= Len(sent)
  BY Counts DEF Posts
<1>4. Handled + 1 \in 1..Len(sent) /\ Handled' = Handled + 1
  BY <1>1, <1>2, <1>3 DEF Handled
<1>5. First = sent[Handled + 1]
  BY <1>2 DEF Posts, First
<1>6. First.id = Handled + 1
  BY <1>4, <1>5 DEF Posts
<1>7. \A k \in 1..Len(queue') : queue'[k] = sent[Handled + 1 + k]
  <2> TAKE k \in 1..Len(queue')
  <2>1. k \in Nat /\ k + 1 \in 1..Len(queue) /\ queue'[k] = queue[k + 1]
    BY <1>1, <1>2
  <2>2. queue[k + 1] = sent[Handled + (k + 1)]
    BY <2>1 DEF Posts
  <2> QED BY <1>3, <2>1, <2>2
<1>8. LastPost(First.text, Handled)
  <2>1. LastPost(sent[Handled + 1].text, (Handled + 1) - 1)
    BY <1>4 DEF Posts
  <2> QED BY <1>3, <1>5, <2>1
<1>9. POST_STRING = First.text /\ POST_TARGET = First.text
  BY <1>3, <1>8, OneLastPost DEF Posts
<1> QED BY <1>1, <1>2, <1>3, <1>4, <1>5, <1>6, <1>7, <1>9 DEF First
\* The text that the next frame belongs to: the last there is.
LEMMA PostedIsLast ==
  ASSUME TypeOK, HistoryTypes, Posts
  PROVE  Posted \in 0..Len(sent) /\ LastPost(Posted, Len(sent))
<1>1. Len(sent) \in Nat /\ DOMAIN sent = 1..Len(sent)
  BY Counts
<1>2. PICK p : LastPost(p, Len(sent))
  <2>1. CASE Len(sent) = 0
    <3>1. LastPost(0, Len(sent))
      BY <2>1 DEF LastPost
    <3> QED BY <3>1
  <2>2. CASE Len(sent) # 0
    <3>1. Len(sent) \in 1..Len(sent) /\ Len(sent) - 1 \in Nat /\ (Len(sent) - 1) + 1 = Len(sent)
      BY <1>1, <2>2
    <3>2. LastPost(sent[Len(sent)].text, Len(sent) - 1)
      BY <3>1 DEF Posts
    <3> DEFINE n == Len(sent) - 1
    <3>3. LastPost(IF sent[n + 1].kind = "post" THEN n + 1 ELSE sent[Len(sent)].text, n + 1)
      <4> HIDE DEF n
      <4>1. n \in Nat /\ LastPost(sent[Len(sent)].text, n)
        BY <3>1, <3>2 DEF n
      <4> QED BY <4>1, NextLastPost
    <3> QED BY <3>1, <3>3
  <2> QED BY <2>1, <2>2
<1>3. CASE \E k \in 1..Len(sent) : sent[k].kind = "post"
  <2>1. Posted = CHOOSE k \in 1..Len(sent) : sent[k].kind = "post" /\
                   \A j \in k + 1..Len(sent) : sent[j].kind # "post"
    BY <1>1, <1>3 DEF Posted
  <2>2. p \in 1..Len(sent) /\ sent[p].kind = "post" /\ \A j \in p + 1..Len(sent) : sent[j].kind # "post"
    BY <1>2, <1>3 DEF LastPost
  <2>3. /\ Posted \in 1..Len(sent) /\ sent[Posted].kind = "post"
        /\ \A j \in Posted + 1..Len(sent) : sent[j].kind # "post"
    BY <2>1, <2>2
  <2> QED BY <1>1, <2>3 DEF LastPost
<1>4. CASE ~\E k \in 1..Len(sent) : sent[k].kind = "post"
  <2>1. Posted = 0
    BY <1>1, <1>4 DEF Posted
  <2> QED BY <1>1, <1>4, <2>1 DEF LastPost
<1> QED BY <1>3, <1>4

\* The frame the server sends is one.
LEMMA SendingFrame ==
  ASSUME TypeOK, HistoryTypes, Posts, NEW kind \in Kinds, NEW method \in Methods,
         ServerSends(kind, method)
  PROVE  [id |-> Len(sent) + 1, kind |-> kind, method |-> method, text |-> Posted] \in Frame
<1>1. Len(sent) + 1 \in 1..MaxFrames
  BY Counts DEF ServerSends
<1>2. Posted \in 0..MaxFrames
  BY PostedIsLast, Counts
<1> QED BY <1>1, <1>2 DEF Frame
-----------------------------------------------------------------------------
(* Steps *)

\* After the end nothing happens.
LEMMA Running == Next => exited = "no"
BY DEF Next, Handle, OpenDialog, HandleQuery, HandleRisky, HandlePost, HandleLogin, HandleText,
       HandleRun, HandleQuit, HandleCookie, Take, CloseDialog, CloseBox, CloseLogin, CloseFile,
       CloseError, CloseConsent, Close, ConsoleButton, Click, ServerSends

\* What Done assigns has its type.
LEMMA DoneTypes ==
  ASSUME TypeOK, NEW reason \in {"clicks", "done"}, NEW open, Done(reason, open)
  PROVE  /\ connected' \in BOOLEAN /\ exited' \in {"no", "clicks", "done"}
         /\ CookieList' \subseteq 1..MaxFrames /\ disk' \subseteq 1..MaxFrames
BY DEF TypeOK, Done

\* What Close assigns has its type.
LEMMA CloseTypes ==
  ASSUME TypeOK, Close
  PROVE  /\ stack' \in Seq([frame : Frame, text : 0..MaxFrames])
         /\ UNCHANGED <<queue, POST_STRING, POST_TARGET, cw, MainForm, closeEvent, sent, clicklog>>
<1>1. stack \in Seq(Entry) /\ stack # <<>> /\ stack' = SubSeq(stack, 1, Len(stack) - 1)
  BY DEF TypeOK, Close, Entry
<1>2. stack' \in Seq(Entry)
  BY <1>1, LastLess
<1> QED BY <1>2 DEF Close, Entry

\* Every step keeps the types.
LEMMA TypesStep ==
  ASSUME TypeOK, HistoryTypes, Posts, Next
  PROVE  TypeOK'
<1>a. MaxFrames \in Nat
  BY Counts
<1>t. ASSUME Take, sent' = sent
      PROVE  queue' \in Seq(Frame) /\ First \in Frame /\ First.id \in 1..MaxFrames
  BY <1>t, Taken, Counts DEF Frame
<1>1. CASE OpenDialog
  <2>1. queue' \in Seq(Frame) /\ First \in Frame
    BY <1>1, <1>t DEF OpenDialog
  <2>2. stack' \in Seq(Entry)
    <3>1. stack \in Seq(Entry) /\ [frame |-> First, text |-> POST_STRING] \in Entry
      BY <2>1 DEF TypeOK, Entry
    <3> QED BY <1>1, <3>1, OneMore DEF OpenDialog
  <2> QED BY <1>1, <2>1, <2>2 DEF OpenDialog, TypeOK, Entry, ends
<1>2. CASE HandleQuery
  BY <1>2, <1>t DEF HandleQuery, TypeOK, ends
<1>3. CASE HandleRisky
  <2>1. decided' \in Seq(Decision)
    BY <1>3, <1>t, OneMore DEF HandleRisky, Permitted, TypeOK, Decision
  <2> QED BY <1>3, <1>t, <2>1 DEF HandleRisky, TypeOK, ends
<1>4. CASE HandlePost
  <2>1. First.id \in 0..MaxFrames
    BY <1>4, <1>t DEF HandlePost
  <2> QED BY <1>4, <1>t, <2>1 DEF HandlePost, TypeOK, ends
<1>5. CASE HandleLogin
  <2>1. queue' \in Seq(Frame) /\ First \in Frame
    BY <1>5, <1>t DEF HandleLogin
  <2>2. <<[frame |-> First, text |-> POST_STRING]>> \in Seq([frame : Frame, text : 0..MaxFrames])
    <3>1. [frame |-> First, text |-> POST_STRING] \in Entry
      BY <2>1 DEF TypeOK, Entry
    <3>2. <<[frame |-> First, text |-> POST_STRING]>> \in Seq(Entry)
      BY <3>1
    <3> QED BY <3>2 DEF Entry
  <2>3. cw' \in [visible : BOOLEAN, started : BOOLEAN, login : Seq([frame : Frame, text : 0..MaxFrames])]
    BY <1>5, <2>2 DEF HandleLogin, TypeOK
  <2> QED BY <1>5, <2>1, <2>3 DEF HandleLogin, TypeOK, ends
<1>6. CASE HandleText
  BY <1>6, <1>t DEF HandleText, TypeOK, ends
<1>7. CASE HandleRun
  BY <1>7, <1>t DEF HandleRun, TypeOK, ends
<1>8. CASE HandleQuit
  <2>1. queue' \in Seq(Frame) /\ Done("done", dialogs)
    BY <1>8, <1>t DEF HandleQuit
  <2>2. cw' \in [visible : BOOLEAN, started : BOOLEAN, login : Seq([frame : Frame, text : 0..MaxFrames])]
    BY <1>8 DEF HandleQuit, TypeOK
  <2> QED BY <1>8, <2>1, <2>2, DoneTypes DEF HandleQuit, TypeOK
<1>9. CASE HandleCookie
  <2>1. queue' \in Seq(Frame) /\ First.id \in 1..MaxFrames
    BY <1>9, <1>t DEF HandleCookie
  <2> QED BY <1>9, <2>1 DEF HandleCookie, TypeOK
<1>10. ASSUME NEW res \in {"yes", "no"},
              CloseBox(res) \/ CloseLogin(res) \/ CloseFile(res) \/ CloseError(res) \/ CloseConsent(res)
       PROVE  TypeOK'
  <2>1. Close
    BY <1>10 DEF CloseBox, CloseLogin, CloseFile, CloseError, CloseConsent
  <2>2. /\ connected' \in BOOLEAN /\ exited' \in {"no", "clicks", "done"}
        /\ CookieList' \subseteq 1..MaxFrames /\ disk' \subseteq 1..MaxFrames
    <3>1. UNCHANGED ends \/ Done("done", dialogs - 1)
      BY <1>10 DEF CloseBox, CloseLogin, CloseFile, CloseError, CloseConsent
    <3> QED BY <3>1, DoneTypes DEF TypeOK, ends
  <2>3. secure_app' \in -1..1
    <3>1. secure_app' = secure_app \/ secure_app' = Settled(res)
      BY <1>10 DEF CloseBox, CloseLogin, CloseFile, CloseError, CloseConsent
    <3>2. Settled(res) \in -1..1 /\ secure_app \in -1..1
      BY DEF Settled, TypeOK
    <3> QED BY <3>1, <3>2
  <2>4. decided' \in Seq(Decision)
    <3>1. CASE decided' = decided
      BY <3>1 DEF TypeOK
    <3>2. CASE CloseConsent(res)
      <4>1. Top.frame.id \in 1..MaxFrames
        <5>1. stack \in Seq(Entry) /\ stack # <<>>
          BY <2>1 DEF TypeOK, Entry, Close
        <5>2. Top \in Entry
          BY <5>1, LastLess DEF Top
        <5> QED BY <5>2 DEF Entry, Frame
      <4> QED BY <3>2, <4>1, OneMore DEF CloseConsent, Permitted, TypeOK, Decision
    <3> QED BY <1>10, <3>1, <3>2 DEF CloseBox, CloseLogin, CloseFile, CloseError
  <2> QED BY <2>1, <2>2, <2>3, <2>4, CloseTypes DEF TypeOK
<1>11. CASE ConsoleButton
  <2>1. cw' \in [visible : BOOLEAN, started : BOOLEAN, login : Seq([frame : Frame, text : 0..MaxFrames])]
    BY <1>11 DEF ConsoleButton, TypeOK
  <2> QED BY <1>11, <2>1 DEF ConsoleButton, TypeOK, ends
<1>12. CASE Click
  <2>1. /\ connected' \in BOOLEAN /\ exited' \in {"no", "clicks", "done"}
        /\ CookieList' \subseteq 1..MaxFrames /\ disk' \subseteq 1..MaxFrames
    <3>1. UNCHANGED ends \/ Done("done", dialogs) \/ Done("clicks", dialogs)
      BY <1>12 DEF Click
    <3> QED BY <3>1, DoneTypes DEF TypeOK, ends
  <2>2. closeEvent' \in [clicked : 0..1, last : -1..MaxFrames]
    <3>1. Len(sent) \in -1..MaxFrames
      BY Counts
    <3>2. \/ closeEvent' = closeEvent
          \/ closeEvent' = [clicked |-> 0, last |-> Len(sent)]
          \/ closeEvent' = [closeEvent EXCEPT !.clicked = 1]
      <4>1. CASE ~connected
        BY <1>12, <4>1 DEF Click
      <4>2. CASE connected /\ ~Silent
        BY <1>12, <4>2 DEF Click
      <4>3. CASE connected /\ Silent /\ closeEvent.clicked = 0
        BY <1>12, <4>3 DEF Click
      <4>4. CASE connected /\ Silent /\ closeEvent.clicked # 0
        BY <1>12, <4>4 DEF Click
      <4> QED BY <4>1, <4>2, <4>3, <4>4
    <3>3. closeEvent \in [clicked : 0..1, last : -1..MaxFrames]
      BY DEF TypeOK
    <3> QED BY <3>1, <3>2, <3>3
  <2> QED BY <1>12, <2>1, <2>2 DEF Click, TypeOK
<1>13. ASSUME NEW kind \in Kinds, NEW method \in Methods, ServerSends(kind, method)
       PROVE  TypeOK'
  <2> DEFINE f == [id |-> Len(sent) + 1, kind |-> kind, method |-> method, text |-> Posted]
  <2>1. f \in Frame /\ queue' = Append(queue, f)
    BY <1>13, SendingFrame DEF ServerSends
  <2> HIDE DEF f
  <2>2. queue' \in Seq(Frame)
    BY <2>1, OneMore DEF TypeOK
  <2> QED BY <1>13, <2>2 DEF ServerSends, TypeOK, ends
<1> QED BY <1>1, <1>2, <1>3, <1>4, <1>5, <1>6, <1>7, <1>8, <1>9, <1>10, <1>11, <1>12, <1>13
        DEF Next, Handle, CloseDialog
\* A step that takes no frame and sends none.
LEMMA PostsKept ==
  ASSUME Posts, UNCHANGED <<queue, sent, POST_STRING, POST_TARGET>>
  PROVE  Posts'
BY DEF Posts, Handled, LastPost

\* A handler takes the next frame; MSG_POST_STRING fills the registers.
LEMMA PostsTaken ==
  ASSUME TypeOK, HistoryTypes, Posts, Take, sent' = sent,
         IF First.kind = "post" THEN POST_STRING' = First.id /\ POST_TARGET' = First.id
                                ELSE UNCHANGED <<POST_STRING, POST_TARGET>>
  PROVE  Posts'
<1>1. /\ First.id = Handled + 1 /\ First = sent[Handled + 1] /\ Handled' = Handled + 1
      /\ Len(queue') <= Len(sent) /\ \A k \in 1..Len(queue') : queue'[k] = sent[Handled + 1 + k]
  BY Taken
<1>2. Handled \in Nat
  BY Counts
<1>3. LastPost(POST_STRING', Handled + 1) /\ LastPost(POST_TARGET', Handled + 1)
  <2>1. \A p : LastPost(p, Handled) =>
                 LastPost(IF sent[Handled + 1].kind = "post" THEN Handled + 1 ELSE p, Handled + 1)
    BY <1>2, NextLastPost
  <2>2. LastPost(POST_STRING, Handled) /\ LastPost(POST_TARGET, Handled)
    BY DEF Posts
  <2>3. CASE First.kind = "post"
    <3>1. POST_STRING' = Handled + 1 /\ POST_TARGET' = Handled + 1 /\ sent[Handled + 1].kind = "post"
      BY <1>1, <2>3
    <3> QED BY <2>1, <2>2, <3>1
  <2>4. CASE First.kind # "post"
    <3>1. POST_STRING' = POST_STRING /\ POST_TARGET' = POST_TARGET /\ sent[Handled + 1].kind # "post"
      BY <1>1, <2>4
    <3> QED BY <2>1, <2>2, <3>1
  <2> QED BY <2>3, <2>4
<1>4. LastPost(POST_STRING, Handled)' /\ LastPost(POST_TARGET, Handled)'
  BY <1>1, <1>3 DEF LastPost
<1>5. \A k \in 1..Len(sent') : sent'[k].id = k /\ LastPost(sent[k].text, k - 1)'
  BY DEF Posts, LastPost
<1>6. \A k \in 1..Len(queue') : queue'[k] = sent'[Handled' + k]
  BY <1>1
<1> QED BY <1>1, <1>4, <1>5, <1>6 DEF Posts

\* What the server sends next to the queue and to what was sent.
LEMMA Sent ==
  ASSUME TypeOK, HistoryTypes, Posts, NEW kind \in Kinds, NEW method \in Methods,
         ServerSends(kind, method)
  PROVE  /\ sent' \in Seq(Frame) /\ Len(sent') = Len(sent) + 1 /\ Len(sent') <= MaxFrames
         /\ \A k \in 1..Len(sent) : sent'[k] = sent[k]
         /\ sent'[Len(sent) + 1].id = Len(sent) + 1 /\ sent'[Len(sent) + 1].text = Posted
         /\ sent'[Len(sent) + 1].kind = kind
         /\ Len(queue') = Len(queue) + 1 /\ \A k \in 1..Len(queue) : queue'[k] = queue[k]
         /\ queue'[Len(queue) + 1] = sent'[Len(sent) + 1]
         /\ Handled' = Handled
<1> DEFINE f == [id |-> Len(sent) + 1, kind |-> kind, method |-> method, text |-> Posted]
<1>1. /\ f \in Frame /\ sent' = Append(sent, f) /\ queue' = Append(queue, f)
      /\ f.id = Len(sent) + 1 /\ f.kind = kind /\ f.text = Posted /\ Len(sent) < MaxFrames
  BY SendingFrame DEF ServerSends
<1> HIDE DEF f
<1>2. sent \in Seq(Frame) /\ queue \in Seq(Frame) /\ Len(sent) \in Nat /\ Len(queue) \in Nat /\ MaxFrames \in Nat
  BY Counts DEF TypeOK, HistoryTypes
<1>3. /\ sent' \in Seq(Frame) /\ Len(sent') = Len(sent) + 1 /\ sent'[Len(sent) + 1] = f
      /\ \A k \in 1..Len(sent) : sent'[k] = sent[k]
  BY <1>1, <1>2, OneMore
<1>4. /\ Len(queue') = Len(queue) + 1 /\ queue'[Len(queue) + 1] = f
      /\ \A k \in 1..Len(queue) : queue'[k] = queue[k]
  BY <1>1, <1>2, OneMore
<1>5. Handled' = Handled
  BY <1>2, <1>3, <1>4 DEF Handled
<1>6. Len(sent') <= MaxFrames
  BY <1>1, <1>2, <1>3
<1> QED BY <1>1, <1>3, <1>4, <1>5, <1>6

\* The frame that is sent carries the number of the text before it.
LEMMA PostsSent ==
  ASSUME TypeOK, HistoryTypes, Posts, NEW kind \in Kinds, NEW method \in Methods,
         ServerSends(kind, method)
  PROVE  Posts'
<1>1. /\ Len(sent') = Len(sent) + 1 /\ \A k \in 1..Len(sent) : sent'[k] = sent[k]
      /\ sent'[Len(sent) + 1].id = Len(sent) + 1 /\ sent'[Len(sent) + 1].text = Posted
      /\ Len(queue') = Len(queue) + 1 /\ \A k \in 1..Len(queue) : queue'[k] = queue[k]
      /\ queue'[Len(queue) + 1] = sent'[Len(sent) + 1]
      /\ Handled' = Handled
  BY Sent
<1>2. /\ Len(sent) \in Nat /\ Len(queue) \in Nat /\ Handled \in Nat /\ Handled <= Len(sent)
      /\ Len(queue) <= Len(sent) /\ Handled + Len(queue) = Len(sent)
  BY Counts DEF Handled
<1>3. ASSUME NEW p, NEW n \in 0..Len(sent), LastPost(p, n)
      PROVE  \/ p = 0 /\ \A k \in 1..n : sent'[k].kind # "post"
             \/ p \in 1..n /\ sent'[p].kind = "post" /\ \A k \in p + 1..n : sent'[k].kind # "post"
  <2>1. \A k \in 1..n : k \in 1..Len(sent) /\ sent'[k] = sent[k]
    BY <1>1, <1>2
  <2>2. p \in 1..n => \A k \in p + 1..n : k \in 1..n
    OBVIOUS
  <2> QED BY <1>3, <2>1, <2>2 DEF LastPost
<1>4. \A k \in 1..Len(queue') : queue'[k] = sent'[Handled' + k]
  <2> TAKE k \in 1..Len(queue')
  <2>1. CASE k \in 1..Len(queue)
    <3>0. Handled + k \in 1..Len(sent)
      BY <1>2, <2>1
    <3>1. queue[k] = sent[Handled + k]
      BY <2>1 DEF Posts
    <3>2. queue'[k] = queue[k] /\ sent'[Handled + k] = sent[Handled + k] /\ Handled' + k = Handled + k
      BY <1>1, <2>1, <3>0
    <3> QED BY <3>1, <3>2
  <2>2. CASE k = Len(queue) + 1
    <3>1. Handled + k = Len(sent) + 1
      BY <1>2, <2>2
    <3> QED BY <1>1, <2>2, <3>1
  <2> QED BY <1>1, <1>2, <2>1, <2>2
<1>5. \A k \in 1..Len(sent') : sent'[k].id = k /\ LastPost(sent[k].text, k - 1)'
  <2> TAKE k \in 1..Len(sent')
  <2>1. CASE k \in 1..Len(sent)
    <3>1. sent[k].id = k /\ LastPost(sent[k].text, k - 1) /\ k - 1 \in 0..Len(sent)
      BY <1>2, <2>1 DEF Posts
    <3>2. sent'[k] = sent[k]
      BY <1>1, <2>1
    <3>3. \/ sent[k].text = 0 /\ \A j \in 1..k - 1 : sent'[j].kind # "post"
          \/ /\ sent[k].text \in 1..k - 1 /\ sent'[sent[k].text].kind = "post"
             /\ \A j \in sent[k].text + 1..k - 1 : sent'[j].kind # "post"
      BY <1>3, <3>1
    <3>4. LastPost(sent[k].text, k - 1)'
      BY <3>2, <3>3 DEF LastPost
    <3> QED BY <3>1, <3>2, <3>4
  <2>2. CASE k = Len(sent) + 1
    <3>1. LastPost(Posted, k - 1) /\ k - 1 \in 0..Len(sent)
      BY <1>2, <2>2, PostedIsLast
    <3> QED BY SMTT(30), <1>1, <1>3, <2>2, <3>1 DEF LastPost
  <2> QED BY <1>1, <1>2, <2>1, <2>2
<1>6. LastPost(POST_STRING, Handled)' /\ LastPost(POST_TARGET, Handled)'
  <2>1. POST_STRING' = POST_STRING /\ POST_TARGET' = POST_TARGET
    BY DEF ServerSends
  <2>2. LastPost(POST_STRING, Handled) /\ LastPost(POST_TARGET, Handled) /\ Handled \in 0..Len(sent)
    BY <1>2 DEF Posts
  <2>3. \A p \in {POST_STRING, POST_TARGET} :
          \/ p = 0 /\ \A k \in 1..Handled : sent'[k].kind # "post"
          \/ p \in 1..Handled /\ sent'[p].kind = "post" /\ \A k \in p + 1..Handled : sent'[k].kind # "post"
    BY <1>3, <2>2
  <2>4. Handled' = Handled
    BY <1>1
  <2> QED BY <2>1, <2>3, <2>4 DEF LastPost
<1> QED BY <1>1, <1>2, <1>4, <1>5, <1>6 DEF Posts

\* Every step keeps the frames in their order, and the registers hold the last text.
LEMMA PostsStep ==
  ASSUME TypeOK, HistoryTypes, Posts, Next
  PROVE  Posts' /\ sent' \in Seq(Frame) /\ Len(sent') <= MaxFrames
<1>0. sent \in Seq(Frame) /\ Len(sent) <= MaxFrames
  BY DEF HistoryTypes
<1>1. ASSUME \/ OpenDialog \/ HandleQuery \/ HandleRisky \/ HandleLogin \/ HandleText
             \/ HandleRun \/ HandleQuit \/ HandleCookie
      PROVE  Posts' /\ sent' = sent
  <2>1. /\ Take /\ sent' = sent /\ First.kind # "post"
        /\ UNCHANGED <<POST_STRING, POST_TARGET>>
    BY <1>1 DEF OpenDialog, Opens, FileDialogs, Risky, HandleQuery, HandleRisky, HandleLogin,
                HandleText, HandleRun, HandleQuit, HandleCookie
  <2> QED BY <2>1, PostsTaken
<1>2. CASE HandlePost
  BY <1>0, <1>2, PostsTaken DEF HandlePost
<1>3. CASE CloseDialog \/ ConsoleButton \/ Click
  <2>1. UNCHANGED <<queue, sent, POST_STRING, POST_TARGET>>
    BY <1>3 DEF CloseDialog, CloseBox, CloseLogin, CloseFile, CloseError, CloseConsent, Close,
                ConsoleButton, Click
  <2> QED BY <1>0, <2>1, PostsKept
<1>4. ASSUME NEW kind \in Kinds, NEW method \in Methods, ServerSends(kind, method)
      PROVE  Posts' /\ sent' \in Seq(Frame) /\ Len(sent') <= MaxFrames
  BY <1>4, PostsSent, Sent
<1> QED BY <1>0, <1>1, <1>2, <1>3, <1>4 DEF Next, Handle
-----------------------------------------------------------------------------
(* The answers *)

\* No answer to f was given.
Unanswered(f) == \A a \in 1..Len(MessageStack) : MessageStack[a].id # f.id

\* new are answers to f: its parts in order, with the text that belongs to it.
Fitting(new, f) ==
  /\ new \in Seq(AnswerType) /\ Len(new) \in 1..2
  /\ \A i \in 1..Len(new) :
       /\ new[i].id = f.id /\ new[i].part = i
       /\ f.kind # "environment" => new[i].shown = f.text
       /\ Sequential /\ new[i].used # -1 => new[i].used = f.text

\* What an invariant says of the answers.
AnswersSound == AnswersMatch /\ TextOfTheQuestion /\ OneQuestion

\* The answers to a question that had none fit in behind the others.
LEMMA Answering ==
  ASSUME TypeOK, HistoryTypes, Posts, Answers, AnswersSound,
         NEW f \in Frame, f.id \in 1..Len(sent), f = sent[f.id], f.kind \in Questions, Unanswered(f),
         NEW new, Fitting(new, f), MessageStack' = MessageStack \o new, sent' = sent
  PROVE  /\ MessageStack' \in Seq(AnswerType) /\ AnswersSound'
         /\ \A a \in 1..Len(MessageStack') :
              \/ a \in 1..Len(MessageStack) /\ MessageStack'[a] = MessageStack[a]
              \/ MessageStack'[a].id = f.id
<1> DEFINE n == Len(MessageStack)
<1>1. /\ MessageStack \in Seq(AnswerType) /\ new \in Seq(AnswerType) /\ n \in Nat /\ Len(new) \in 1..2
      /\ DOMAIN MessageStack = 1..n /\ Len(sent) \in Nat /\ Handled <= Len(sent) /\ Handled \in Nat
      /\ DOMAIN sent = 1..Len(sent)
  BY Counts DEF HistoryTypes, Fitting
<1>2. /\ MessageStack' \in Seq(AnswerType) /\ Len(MessageStack') = n + Len(new)
      /\ \A k \in 1..n : MessageStack'[k] = MessageStack[k]
      /\ \A k \in 1..Len(new) : MessageStack'[n + k] = new[k]
  BY <1>1, Joined
<1>3. DOMAIN MessageStack' = 1..n + Len(new)
  BY <1>2
<1>4. \A k \in 1..n + Len(new) :
        \/ k \in 1..n
        \/ k = n + 1 /\ 1 \in 1..Len(new)
        \/ k = n + 2 /\ 2 \in 1..Len(new)
  BY SMTT(30), <1>1
<1> HIDE DEF n
<1>5. \A k \in 1..n + Len(new) :
        \/ k \in 1..n /\ MessageStack'[k] = MessageStack[k]
        \/ \E i \in 1..Len(new) : k = n + i /\ MessageStack'[k] = new[i]
  BY <1>1, <1>2, <1>4
<1>6. \A i \in 1..Len(new) :
        /\ new[i].id = f.id /\ new[i].part = i
        /\ f.kind # "environment" => new[i].shown = f.text
        /\ Sequential /\ new[i].used # -1 => new[i].used = f.text
  BY DEF Fitting
<1>7. \A k \in 1..n : MessageStack[k].id <= Handled /\ MessageStack[k].id # f.id
                   /\ MessageStack[k].id \in 1..MaxFrames
  BY Counts DEF Answers, Unanswered, n
<1>8. Sequential => \A k \in 1..n : MessageStack[k].id <= f.id
  <2>1. SUFFICES ASSUME Sequential PROVE \A k \in 1..n : MessageStack[k].id <= f.id
    OBVIOUS
  <2>2. ~Answered(f.id)
    BY <1>1, <1>7 DEF Answered, n
  <2>3. f.id = Len(sent)
    BY <2>1, <2>2 DEF AnswersSound, OneQuestion
  <2>4. MaxFrames \in Nat
    BY Counts
  <2> QED BY <1>1, <1>7, <2>3, <2>4
<1>9. AnswersMatch'
  <2> SUFFICES ASSUME NEW j \in 1..n + Len(new), NEW k \in 1..n + Len(new), j < k
               PROVE  /\ MessageStack'[j].id = MessageStack'[k].id =>
                           k = j + 1 /\ MessageStack'[j].part = 1 /\ MessageStack'[k].part = 2
                      /\ Sequential => MessageStack'[j].id <= MessageStack'[k].id
    BY <1>3 DEF AnswersMatch
  <2>1. CASE k \in 1..n
    <3>1. j \in 1..n
      BY <1>1, <2>1
    <3>2. MessageStack'[j] = MessageStack[j] /\ MessageStack'[k] = MessageStack[k]
      BY <1>2, <2>1, <3>1
    <3>3. /\ MessageStack[j].id = MessageStack[k].id =>
               k = j + 1 /\ MessageStack[j].part = 1 /\ MessageStack[k].part = 2
          /\ Sequential => MessageStack[j].id <= MessageStack[k].id
      <4>1. j \in DOMAIN MessageStack /\ k \in DOMAIN MessageStack
        BY <1>1, <2>1, <3>1
      <4> QED BY <4>1 DEF AnswersSound, AnswersMatch
    <3> QED BY <3>2, <3>3
  <2>2. CASE k \notin 1..n /\ j \in 1..n
    <3>1. MessageStack'[j] = MessageStack[j] /\ MessageStack'[k].id = f.id
      BY SMTT(30), <1>2, <1>5, <1>6, <2>2
    <3> QED BY <1>7, <1>8, <2>2, <3>1
  <2>3. CASE k \notin 1..n /\ j \notin 1..n
    <3>1. j = n + 1 /\ k = n + 2 /\ 1 \in 1..Len(new) /\ 2 \in 1..Len(new)
      BY <1>1, <1>4, <2>3
    <3>2. MessageStack'[j] = new[1] /\ MessageStack'[k] = new[2]
      BY <1>2, <3>1
    <3>3. f.id \in Int
      BY <1>1
    <3> QED BY SMTT(30), <1>1, <1>6, <3>1, <3>2, <3>3
  <2> QED BY <2>1, <2>2, <2>3
<1>10. TextOfTheQuestion'
  <2> SUFFICES ASSUME NEW k \in 1..n + Len(new)
               PROVE  /\ sent[MessageStack'[k].id].kind # "environment" =>
                           MessageStack'[k].shown = sent[MessageStack'[k].id].text
                      /\ Sequential /\ MessageStack'[k].used # -1 =>
                           MessageStack'[k].used = sent[MessageStack'[k].id].text
    BY <1>3 DEF TextOfTheQuestion
  <2>1. CASE k \in 1..n
    <3>1. MessageStack'[k] = MessageStack[k]
      BY <1>2, <2>1
    <3> QED BY <1>1, <2>1, <3>1 DEF AnswersSound, TextOfTheQuestion, n
  <2>2. CASE k \notin 1..n
    <3>1. PICK i \in 1..Len(new) : MessageStack'[k] = new[i]
      BY <1>5, <2>2
    <3>2. sent[MessageStack'[k].id] = f
      BY <1>6, <3>1
    <3> QED BY <1>6, <3>1, <3>2
  <2> QED BY <2>1, <2>2
<1>11. OneQuestion'
  <2>1. \A k : Answered(k) => Answered(k)'
    BY <1>1, <1>2, <1>3 DEF Answered, n
  <2> QED BY <2>1 DEF AnswersSound, OneQuestion
<1>12. \A a \in 1..Len(MessageStack') :
         \/ a \in 1..Len(MessageStack) /\ MessageStack'[a] = MessageStack[a]
         \/ MessageStack'[a].id = f.id
  BY <1>2, <1>5, <1>6 DEF n
<1> QED BY <1>2, <1>9, <1>10, <1>11, <1>12 DEF AnswersSound

\* A step without an answer and without a new frame.
LEMMA NotAnswering ==
  ASSUME AnswersSound, UNCHANGED <<MessageStack, sent>>
  PROVE  AnswersSound'
BY DEF AnswersSound, AnswersMatch, TextOfTheQuestion, OneQuestion, Answered

\* A server that waits sends only when it has all its answers.
LEMMA AnswersSent ==
  ASSUME TypeOK, HistoryTypes, Posts, Answers, AnswersSound,
         NEW kind \in Kinds, NEW method \in Methods, ServerSends(kind, method)
  PROVE  AnswersSound'
<1>1. /\ Len(sent') = Len(sent) + 1 /\ \A k \in 1..Len(sent) : sent'[k] = sent[k]
      /\ MessageStack' = MessageStack
  BY Sent DEF ServerSends
<1>2. /\ Len(sent) \in Nat /\ DOMAIN sent = 1..Len(sent) /\ Handled <= Len(sent) /\ Handled \in Nat
      /\ DOMAIN MessageStack = 1..Len(MessageStack)
  BY Counts
<1>3. \A k \in 1..Len(MessageStack) : MessageStack[k].id \in 1..Len(sent)
  <2> TAKE k \in 1..Len(MessageStack)
  <2>1. MessageStack[k].id <= Handled /\ MessageStack[k].id \in Nat \ {0}
    BY Counts DEF Answers
  <2> QED BY <1>2, <2>1
<1>4. AnswersMatch'
  BY <1>1 DEF AnswersSound, AnswersMatch
<1>5. TextOfTheQuestion'
  <2>1. \A k \in 1..Len(MessageStack) : sent'[MessageStack[k].id] = sent[MessageStack[k].id]
    BY <1>1, <1>3
  <2> QED BY <1>1, <1>2, <2>1 DEF AnswersSound, TextOfTheQuestion
<1>6. OneQuestion'
  <2> SUFFICES ASSUME Sequential, NEW k \in 1..Len(sent'), sent'[k].kind \in Questions, ~Answered(k)'
               PROVE  k = Len(sent')
    BY DEF OneQuestion
  <2>1. ASSUME k \in 1..Len(sent) PROVE FALSE
    <3>1. sent'[k] = sent[k]
      BY <1>1, <2>1
    <3>2. Answered(k)
      BY <1>2, <2>1, <3>1 DEF ServerSends
    <3>3. Answered(k)'
      BY <1>1, <3>1, <3>2 DEF Answered
    <3> QED BY <3>3
  <2> QED BY <1>1, <1>2, <2>1
<1> QED BY <1>4, <1>5, <1>6 DEF AnswersSound
\* One answer fits.
LEMMA AnswerFits ==
  ASSUME NEW f \in Frame, NEW res \in {"yes", "no"}, NEW shown \in 0..MaxFrames,
         NEW used \in -1..MaxFrames, f.kind # "environment" => shown = f.text,
         Sequential /\ used # -1 => used = f.text
  PROVE  Fitting(<<Answer(f, 1, res, shown, used)>>, f)
<1> DEFINE a == Answer(f, 1, res, shown, used)
<1>1. /\ a \in AnswerType /\ a.id = f.id /\ a.part = 1 /\ a.shown = shown /\ a.used = used
  BY DEF Answer, AnswerType, Frame
<1> HIDE DEF a
<1>2. <<a>> \in Seq(AnswerType) /\ Len(<<a>>) = 1 /\ <<a>>[1] = a
  BY <1>1
<1>3. \A i \in 1..Len(<<a>>) : i = 1
  BY <1>2
<1> QED BY <1>1, <1>2, <1>3 DEF Fitting, a

\* So do the two of a login.
LEMMA LoginFits ==
  ASSUME NEW f \in Frame, NEW res \in {"yes", "no"}, NEW console, f.text \in 0..MaxFrames,
         POST_TARGET \in 0..MaxFrames, MaxFrames \in Nat, Sequential => POST_TARGET = f.text
  PROVE  Fitting(LoginAnswers(f, res, f.text, console), f)
<1> DEFINE a == Answer(f, 1, res, f.text, -1)
           used == IF Salted(f, console) THEN POST_TARGET ELSE -1
           b == Answer(f, 2, res, f.text, used)
<1>0. used \in -1..MaxFrames /\ (Sequential /\ used # -1 => used = f.text) /\ -1 \in -1..MaxFrames
  OBVIOUS
<1>1. a \in AnswerType /\ a.id = f.id /\ a.part = 1 /\ a.shown = f.text /\ a.used = -1
  BY <1>0 DEF Answer, AnswerType, Frame
<1>2. b \in AnswerType /\ b.id = f.id /\ b.part = 2 /\ b.shown = f.text /\ b.used = used
  <2> HIDE DEF used
  <2> QED BY <1>0 DEF Answer, AnswerType, Frame
<1>3. LoginAnswers(f, res, f.text, console) = <<a, b>>
  BY DEF LoginAnswers
<1> HIDE DEF a, b, used
<1>4. <<a, b>> \in Seq(AnswerType) /\ Len(<<a, b>>) = 2 /\ <<a, b>>[1] = a /\ <<a, b>>[2] = b
  BY <1>1, <1>2
<1>5. \A i \in 1..Len(<<a, b>>) : i = 1 \/ i = 2
  BY <1>4
<1> QED BY <1>0, <1>1, <1>2, <1>3, <1>4, <1>5 DEF Fitting

\* While a server waits for an answer the registers hold the text of its question.
LEMMA Registers ==
  ASSUME TypeOK, HistoryTypes, Posts, OneQuestion, Sequential, NEW f \in Frame,
         f.id \in 1..Handled, f = sent[f.id], f.kind \in Questions, Unanswered(f)
  PROVE  POST_STRING = f.text /\ POST_TARGET = f.text
<1>1. /\ Len(sent) \in Nat /\ Handled \in Nat /\ Handled <= Len(sent)
      /\ DOMAIN MessageStack = 1..Len(MessageStack)
  BY Counts
<1>2. ~Answered(f.id)
  BY <1>1 DEF Answered, Unanswered
<1>3. f.id = Len(sent) /\ f.id = Handled /\ f.id \in 1..Len(sent)
  <2>1. f.id = Len(sent)
    BY <1>1, <1>2 DEF OneQuestion
  <2> QED BY <1>1, <2>1
<1> DEFINE n == f.id - 1
<1>4. LastPost(f.text, n) /\ n \in Nat /\ n + 1 = f.id
  BY <1>1, <1>3 DEF Posts
<1>5. LastPost(IF sent[n + 1].kind = "post" THEN n + 1 ELSE f.text, n + 1)
  <2> HIDE DEF n
  <2> QED BY <1>4, NextLastPost
<1>6. sent[n + 1].kind # "post"
  BY <1>4 DEF Questions, FileDialogs
<1>7. LastPost(f.text, Handled)
  BY <1>3, <1>4, <1>5, <1>6
<1> QED BY <1>1, <1>7, OneLastPost DEF Posts

-----------------------------------------------------------------------------
(* Where questions wait *)

Places == Dialogs /\ ConsoleLogin /\ Answers

\* What a dialog shows stays that of its frame.
LEMMA StaysOfItsFrame ==
  ASSUME Handled \in Nat, Handled' \in Nat, Handled <= Handled',
         \A k \in 1..Handled : sent'[k] = sent[k],
         NEW e \in Entry, OfItsFrame(e)
  PROVE  OfItsFrame(e)'
<1>1. e.frame.id \in 1..Handled
  <2>1. MaxFrames \in Nat /\ e.frame.id \in 1..MaxFrames
    BY DispatchAssumption DEF DispatchAssumption, Entry, Frame
  <2> QED BY <2>1 DEF OfItsFrame
<1> QED BY <1>1 DEF OfItsFrame

\* The next frame gets a dialog.
LEMMA PlacesOpened ==
  ASSUME TypeOK, HistoryTypes, Posts, Places, OpenDialog
  PROVE  Places'
<1>1. /\ First \in Frame /\ First.id = Handled + 1 /\ First = sent[Handled + 1]
      /\ Handled' = Handled + 1 /\ POST_STRING = First.text
  BY Taken DEF OpenDialog
<1>2. /\ stack' = Append(stack, [frame |-> First, text |-> POST_STRING]) /\ UNCHANGED <<sent, cw, MessageStack>>
  BY DEF OpenDialog
<1>3. First.kind \in Counted \cup FileDialogs
  BY DEF OpenDialog, Opens, Counted
<1>4. PICK e \in Entry : e = [frame |-> First, text |-> POST_STRING]
  BY <1>1 DEF TypeOK, Entry
<1>e. e.frame = First /\ e.text = POST_STRING /\ stack' = Append(stack, e)
  BY <1>2, <1>4
<1>5. stack \in Seq(Entry) /\ Handled \in Nat /\ Handled' \in Nat /\ Len(stack) \in Nat
  <2>1. stack \in Seq(Entry)
    BY DEF TypeOK, Entry
  <2>2. Handled \in Nat /\ Len(stack) \in Nat
    BY Counts
  <2> QED BY <1>1, <2>1, <2>2
<1>6. /\ Len(stack') = Len(stack) + 1 /\ stack'[Len(stack) + 1] = e
      /\ \A k \in 1..Len(stack) : stack'[k] = stack[k]
  BY <1>4, <1>5, <1>e, OneMore
<1>7. \A k \in 1..Len(stack') : k \in 1..Len(stack) \/ k = Len(stack) + 1
  BY <1>5, <1>6
<1>8. OfItsFrame(e)'
  BY <1>1, <1>2, <1>e DEF OfItsFrame
<1>9. \A d \in Entry : OfItsFrame(d) => OfItsFrame(d)'
  BY <1>1, <1>2, <1>5, StaysOfItsFrame
<1>10. \A k \in 1..Len(stack) : stack[k] \in Entry /\ stack[k].frame.id <= Handled
                             /\ stack[k].frame.id \in Nat /\ OfItsFrame(stack[k])
                             /\ stack[k].frame.kind \in Counted \cup FileDialogs
  BY Counts DEF Places, Dialogs, OfItsFrame
<1>11. \A k \in 1..Len(stack') : OfItsFrame(stack[k])' /\ stack'[k].frame.kind \in Counted \cup FileDialogs
  BY <1>3, <1>4, <1>e, <1>6, <1>7, <1>8, <1>9, <1>10 DEF OfItsFrame
<1>12. \A k \in 1..Len(stack) : stack'[k].frame.id # e.frame.id
  BY <1>1, <1>e, <1>5, <1>6, <1>10
<1>13. \A j, k \in 1..Len(stack') : stack'[j].frame.id = stack'[k].frame.id => j = k
  BY <1>6, <1>7, <1>12 DEF Places, Dialogs
<1>14. Dialogs'
  BY <1>11, <1>13 DEF Dialogs
<1>15. \A l \in 1..Len(cw.login) : cw.login[l] \in Entry /\ cw.login[l].frame.id <= Handled
                                 /\ cw.login[l].frame.id \in Nat /\ OfItsFrame(cw.login[l])
  BY Counts DEF Places, ConsoleLogin, OfItsFrame
<1>16. ConsoleLogin'
  <2> SUFFICES ASSUME NEW l \in 1..Len(cw.login)
               PROVE  /\ l = 1 /\ OfItsFrame(cw.login[l])' /\ cw.login[l].frame.kind = "login"
                      /\ \A k \in 1..Len(stack') : stack'[k].frame.id # cw.login[l].frame.id
    BY <1>2 DEF ConsoleLogin, OfItsFrame
  <2>1. OfItsFrame(cw.login[l])'
    BY <1>2, <1>9, <1>15 DEF OfItsFrame
  <2>2. cw.login[l].frame.id # First.id
    BY <1>1, <1>5, <1>15
  <2>3. \A k \in 1..Len(stack') : stack'[k].frame.id # cw.login[l].frame.id
    BY <1>e, <1>6, <1>7, <2>2 DEF Places, ConsoleLogin
  <2> QED BY <2>1, <2>3 DEF Places, ConsoleLogin
<1>17. Answers'
  <2> SUFFICES ASSUME NEW a \in 1..Len(MessageStack)
               PROVE  /\ MessageStack[a].id <= Handled' /\ sent[MessageStack[a].id].kind \in Questions
                      /\ \A k \in 1..Len(stack') : stack'[k].frame.id # MessageStack[a].id
                      /\ \A l \in 1..Len(cw.login) : cw.login[l].frame.id # MessageStack[a].id
    BY <1>2 DEF Answers
  <2>1. MessageStack[a].id <= Handled /\ MessageStack[a].id \in Nat
    BY Counts DEF Places, Answers
  <2>2. MessageStack[a].id # First.id /\ MessageStack[a].id <= Handled'
    BY <1>1, <1>5, <2>1
  <2>3. \A k \in 1..Len(stack') : stack'[k].frame.id # MessageStack[a].id
    BY <1>e, <1>6, <1>7, <2>2 DEF Places, Answers
  <2> QED BY <2>2, <2>3 DEF Places, Answers
<1> QED BY <1>14, <1>16, <1>17 DEF Places
\* A login is shown in the console window, in place of the one before.
LEMMA PlacesShown ==
  ASSUME TypeOK, HistoryTypes, Posts, Places, HandleLogin
  PROVE  Places'
<1>1. /\ First \in Frame /\ First.id = Handled + 1 /\ First = sent[Handled + 1]
      /\ Handled' = Handled + 1 /\ POST_STRING = First.text
  BY Taken DEF HandleLogin
<1>2. /\ cw' = [cw EXCEPT !.login = <<[frame |-> First, text |-> POST_STRING]>>]
      /\ UNCHANGED <<sent, stack, MessageStack>> /\ First.kind = "login"
  BY DEF HandleLogin
<1>3. PICK e \in Entry : e = [frame |-> First, text |-> POST_STRING]
  BY <1>1 DEF TypeOK, Entry
<1>4. e.frame = First /\ e.text = POST_STRING /\ cw'.login = <<e>>
  BY <1>2, <1>3 DEF TypeOK
<1>5. Handled \in Nat /\ Handled' \in Nat /\ Handled < Handled'
  <2>1. Handled \in Nat
    BY Counts
  <2> QED BY <1>1, <2>1
<1>6. OfItsFrame(e)'
  BY <1>1, <1>2, <1>4, <1>5 DEF OfItsFrame
<1>7. \A d \in Entry : OfItsFrame(d) => OfItsFrame(d)'
  BY <1>2, <1>5, StaysOfItsFrame
<1>8. \A k \in 1..Len(stack) : stack[k] \in Entry /\ OfItsFrame(stack[k]) /\ stack[k].frame.id # e.frame.id
  <2> TAKE k \in 1..Len(stack)
  <2>1. stack[k] \in Entry /\ OfItsFrame(stack[k]) /\ stack[k].frame.id \in 1..MaxFrames /\ MaxFrames \in Nat
    BY Counts DEF Places, Dialogs
  <2>2. stack[k].frame.id <= Handled
    BY <2>1 DEF OfItsFrame
  <2> QED BY <1>1, <1>4, <1>5, <2>1, <2>2
<1>9. Dialogs'
  <2>1. \A k \in 1..Len(stack') : OfItsFrame(stack[k])'
    BY <1>2, <1>7, <1>8 DEF OfItsFrame
  <2> QED BY <1>2, <2>1 DEF Places, Dialogs
<1>10. ConsoleLogin'
  <2>1. Len(cw'.login) = 1 /\ cw'.login[1] = e
    BY <1>4
  <2>2. \A l \in 1..Len(cw'.login) : l = 1
    BY <2>1
  <2>3. OfItsFrame(cw.login[1])'
    BY <1>6, <2>1 DEF OfItsFrame
  <2> QED BY <1>2, <1>4, <1>8, <2>1, <2>2, <2>3 DEF ConsoleLogin
<1>11. Answers'
  <2> SUFFICES ASSUME NEW a \in 1..Len(MessageStack)
               PROVE  /\ MessageStack[a].id <= Handled' /\ sent[MessageStack[a].id].kind \in Questions
                      /\ \A k \in 1..Len(stack) : stack[k].frame.id # MessageStack[a].id
                      /\ \A l \in 1..Len(cw'.login) : cw'.login[l].frame.id # MessageStack[a].id
    BY <1>2 DEF Answers
  <2>1. MessageStack[a].id <= Handled /\ MessageStack[a].id \in 1..MaxFrames /\ MaxFrames \in Nat
    BY Counts DEF Places, Answers
  <2>2. MessageStack[a].id # First.id /\ MessageStack[a].id <= Handled'
    BY <1>1, <1>5, <2>1
  <2>3. \A l \in 1..Len(cw'.login) : cw'.login[l].frame.id # MessageStack[a].id
    BY <1>4, <2>2
  <2> QED BY <2>2, <2>3 DEF Places, Answers
<1> QED BY <1>9, <1>10, <1>11 DEF Places

\* The next frame is handled at once, with an answer to it or without.
LEMMA PlacesPassed ==
  ASSUME TypeOK, HistoryTypes, Posts, Places, Take, UNCHANGED <<sent, stack>>, cw'.login = cw.login,
         \A a \in 1..Len(MessageStack') :
           \/ a \in 1..Len(MessageStack) /\ MessageStack'[a] = MessageStack[a]
           \/ MessageStack'[a].id = First.id /\ First.kind \in Questions
  PROVE  Places'
<1>1. /\ First.id = Handled + 1 /\ First = sent[Handled + 1] /\ Handled' = Handled + 1
  BY Taken
<1>2. Handled \in Nat /\ Handled' \in Nat /\ Handled < Handled' /\ MaxFrames \in Nat
  <2>1. Handled \in Nat /\ MaxFrames \in Nat
    BY Counts
  <2> QED BY <1>1, <2>1
<1>3. \A d \in Entry : OfItsFrame(d) => OfItsFrame(d)'
  BY <1>2, StaysOfItsFrame
<1>4. /\ \A k \in 1..Len(stack) : stack[k] \in Entry /\ OfItsFrame(stack[k])
                               /\ stack[k].frame.id # First.id
      /\ \A l \in 1..Len(cw.login) : cw.login[l] \in Entry /\ OfItsFrame(cw.login[l])
                                  /\ cw.login[l].frame.id # First.id
  <2>1. \A d \in Entry : OfItsFrame(d) => d.frame.id # First.id
    <3> TAKE d \in Entry
    <3>1. d.frame.id \in 1..MaxFrames
      BY DEF Entry, Frame
    <3> QED BY <1>1, <1>2, <3>1 DEF OfItsFrame
  <2>2. /\ \A k \in 1..Len(stack) : stack[k] \in Entry /\ OfItsFrame(stack[k])
        /\ \A l \in 1..Len(cw.login) : cw.login[l] \in Entry /\ OfItsFrame(cw.login[l])
    BY Counts DEF Places, Dialogs, ConsoleLogin
  <2> QED BY <2>1, <2>2
<1>5. Dialogs'
  <2>1. \A k \in 1..Len(stack') : OfItsFrame(stack[k])'
    BY <1>3, <1>4 DEF OfItsFrame
  <2> QED BY <2>1 DEF Places, Dialogs
<1>6. ConsoleLogin'
  <2>1. \A l \in 1..Len(cw'.login) : OfItsFrame(cw.login[l])'
    BY <1>3, <1>4 DEF OfItsFrame
  <2> QED BY <2>1 DEF Places, ConsoleLogin
<1>7. Answers'
  <2> SUFFICES ASSUME NEW a \in 1..Len(MessageStack')
               PROVE  /\ MessageStack'[a].id <= Handled' /\ sent[MessageStack'[a].id].kind \in Questions
                      /\ \A k \in 1..Len(stack) : stack[k].frame.id # MessageStack'[a].id
                      /\ \A l \in 1..Len(cw.login) : cw.login[l].frame.id # MessageStack'[a].id
    BY DEF Answers
  <2>1. CASE a \in 1..Len(MessageStack) /\ MessageStack'[a] = MessageStack[a]
    <3>1. MessageStack[a].id <= Handled /\ MessageStack[a].id \in 1..MaxFrames
      BY <2>1, Counts DEF Places, Answers
    <3>2. MessageStack'[a].id <= Handled'
      BY <1>2, <2>1, <3>1
    <3> QED BY <2>1, <3>2 DEF Places, Answers
  <2>2. CASE MessageStack'[a].id = First.id /\ First.kind \in Questions
    <3>1. MessageStack'[a].id <= Handled'
      BY <1>1, <1>2, <2>2
    <3> QED BY <1>1, <1>4, <2>2, <3>1
  <2> QED BY <2>1, <2>2
<1> QED BY <1>5, <1>6, <1>7 DEF Places

\* The topmost dialog is closed, with an answer to its question or without.
LEMMA PlacesClosed ==
  ASSUME TypeOK, HistoryTypes, Posts, Places, Close,
         \A a \in 1..Len(MessageStack') :
           \/ a \in 1..Len(MessageStack) /\ MessageStack'[a] = MessageStack[a]
           \/ MessageStack'[a].id = Top.frame.id /\ Top.frame.kind \in Questions
  PROVE  Places'
<1>1. /\ stack \in Seq(Entry) /\ stack # <<>> /\ stack' = SubSeq(stack, 1, Len(stack) - 1)
      /\ UNCHANGED <<queue, sent, cw>>
  BY DEF Close, TypeOK, Entry
<1>2. /\ Len(stack) \in Nat \ {0} /\ Len(stack') = Len(stack) - 1
      /\ \A k \in 1..Len(stack) - 1 : stack'[k] = stack[k]
  BY <1>1, LastLess
<1>3. \A k \in 1..Len(stack') : k \in 1..Len(stack) /\ k # Len(stack) /\ stack'[k] = stack[k]
  BY <1>2
<1>4. Len(stack) \in 1..Len(stack) /\ Top = stack[Len(stack)] /\ Handled' = Handled
  BY <1>1, <1>2 DEF Top, Handled
<1>5. Dialogs'
  <2>1. \A k \in 1..Len(stack') : OfItsFrame(stack[k])'
    BY SMTT(30), <1>1, <1>3, <1>4 DEF Places, Dialogs, OfItsFrame
  <2> QED BY <1>3, <2>1 DEF Places, Dialogs
<1>6. ConsoleLogin'
  <2>1. \A l \in 1..Len(cw'.login) : OfItsFrame(cw.login[l])'
    BY <1>1, <1>4 DEF Places, ConsoleLogin, OfItsFrame
  <2> SUFFICES ASSUME NEW l \in 1..Len(cw'.login)
               PROVE  /\ l = 1 /\ cw'.login[l].frame.kind = "login"
                      /\ \A k \in 1..Len(stack') : stack'[k].frame.id # cw'.login[l].frame.id
    BY <2>1 DEF ConsoleLogin
  <2>2. cw' = cw /\ l \in 1..Len(cw.login)
    BY <1>1
  <2>3. /\ l = 1 /\ cw.login[l].frame.kind = "login"
        /\ \A k \in 1..Len(stack) : stack[k].frame.id # cw.login[l].frame.id
    BY <2>2 DEF Places, ConsoleLogin
  <2> QED BY <1>3, <2>2, <2>3
<1>7. Answers'
  <2> SUFFICES ASSUME NEW a \in 1..Len(MessageStack')
               PROVE  /\ MessageStack'[a].id <= Handled /\ sent[MessageStack'[a].id].kind \in Questions
                      /\ \A k \in 1..Len(stack') : stack'[k].frame.id # MessageStack'[a].id
                      /\ \A l \in 1..Len(cw.login) : cw.login[l].frame.id # MessageStack'[a].id
    BY <1>1, <1>4 DEF Answers
  <2>1. CASE a \in 1..Len(MessageStack) /\ MessageStack'[a] = MessageStack[a]
    BY <1>3, <2>1 DEF Places, Answers
  <2>2. CASE MessageStack'[a].id = Top.frame.id /\ Top.frame.kind \in Questions
    <3>1. OfItsFrame(Top) /\ \A k \in 1..Len(stack') : stack'[k].frame.id # Top.frame.id
      BY <1>3, <1>4 DEF Places, Dialogs
    <3>2. \A l \in 1..Len(cw.login) : cw.login[l].frame.id # Top.frame.id
      BY <1>4 DEF Places, ConsoleLogin
    <3> QED BY <2>2, <3>1, <3>2 DEF OfItsFrame
  <2> QED BY <2>1, <2>2
<1> QED BY <1>5, <1>6, <1>7 DEF Places

\* The login in the console window is answered.
LEMMA PlacesConsole ==
  ASSUME TypeOK, HistoryTypes, Posts, Places, UNCHANGED <<queue, sent, stack>>, cw'.login = <<>>,
         cw.login # <<>>,
         \A a \in 1..Len(MessageStack') :
           \/ a \in 1..Len(MessageStack) /\ MessageStack'[a] = MessageStack[a]
           \/ MessageStack'[a].id = cw.login[1].frame.id
  PROVE  Places'
<1>1. Handled' = Handled /\ 1 \in 1..Len(cw.login) /\ Len(cw'.login) = 0
  <2>1. cw.login \in Seq(Entry)
    BY DEF TypeOK, Entry
  <2> QED BY <2>1 DEF Handled
<1>2. Dialogs'
  <2>1. \A k \in 1..Len(stack') : OfItsFrame(stack[k])'
    BY <1>1 DEF Places, Dialogs, OfItsFrame
  <2> QED BY <2>1 DEF Places, Dialogs
<1>3. ConsoleLogin'
  BY <1>1 DEF ConsoleLogin
<1>4. Answers'
  <2> SUFFICES ASSUME NEW a \in 1..Len(MessageStack')
               PROVE  /\ MessageStack'[a].id <= Handled /\ sent[MessageStack'[a].id].kind \in Questions
                      /\ \A k \in 1..Len(stack) : stack[k].frame.id # MessageStack'[a].id
    BY <1>1 DEF Answers
  <2>1. CASE a \in 1..Len(MessageStack) /\ MessageStack'[a] = MessageStack[a]
    BY <2>1 DEF Places, Answers
  <2>2. CASE MessageStack'[a].id = cw.login[1].frame.id
    BY <1>1, <2>2 DEF Places, ConsoleLogin, OfItsFrame, Questions
  <2> QED BY <2>1, <2>2
<1> QED BY <1>2, <1>3, <1>4 DEF Places

\* Nothing is opened, shown or answered, and what was sent only grows.
LEMMA PlacesKept ==
  ASSUME TypeOK, HistoryTypes, Posts, Places, Handled' = Handled, UNCHANGED <<stack, cw, MessageStack>>,
         \A k \in 1..Len(sent) : sent'[k] = sent[k]
  PROVE  Places'
<1>1. Handled \in Nat /\ Len(sent) \in Nat /\ Handled <= Len(sent) /\ MaxFrames \in Nat
  BY Counts
<1>2. \A k \in 1..Handled : sent'[k] = sent[k]
  BY <1>1
<1>3. \A d \in Entry : OfItsFrame(d) => OfItsFrame(d)'
  BY <1>1, <1>2, StaysOfItsFrame
<1>4. Dialogs'
  <2>1. \A k \in 1..Len(stack') : OfItsFrame(stack[k])'
    <3>1. \A k \in 1..Len(stack) : stack[k] \in Entry /\ OfItsFrame(stack[k])
      BY Counts DEF Places, Dialogs
    <3> QED BY <1>3, <3>1 DEF OfItsFrame
  <2> QED BY <2>1 DEF Places, Dialogs
<1>5. ConsoleLogin'
  <2>1. \A l \in 1..Len(cw'.login) : OfItsFrame(cw.login[l])'
    <3>1. \A l \in 1..Len(cw.login) : cw.login[l] \in Entry /\ OfItsFrame(cw.login[l])
      BY Counts DEF Places, ConsoleLogin
    <3> QED BY <1>3, <3>1 DEF OfItsFrame
  <2> QED BY <2>1 DEF Places, ConsoleLogin
<1>6. Answers'
  <2>1. \A a \in 1..Len(MessageStack) : sent'[MessageStack[a].id] = sent[MessageStack[a].id]
    <3> TAKE a \in 1..Len(MessageStack)
    <3>1. MessageStack[a].id <= Handled /\ MessageStack[a].id \in 1..MaxFrames
      BY Counts DEF Places, Answers
    <3> QED BY <1>1, <1>2, <3>1
  <2> QED BY <2>1 DEF Places, Answers
<1> QED BY <1>4, <1>5, <1>6 DEF Places
Questioning == Places /\ AnswersSound

\* The next frame is answered at once.
LEMMA FirstAnswered ==
  ASSUME TypeOK, HistoryTypes, Posts, Questioning, Take, UNCHANGED <<sent, stack>>,
         cw'.login = cw.login, NEW new, Fitting(new, First), First.kind \in Questions, Reply(new)
  PROVE  Questioning' /\ MessageStack' \in Seq(AnswerType)
<1>1. /\ First \in Frame /\ First.id = Handled + 1 /\ First = sent[Handled + 1]
      /\ Handled + 1 \in 1..Len(sent) /\ Handled \in Nat
  BY Taken, Counts
<1>2. PICK f \in Frame : f = First
  BY <1>1
<1>3. Unanswered(f)
  <2> SUFFICES ASSUME NEW a \in 1..Len(MessageStack) PROVE MessageStack[a].id # f.id
    BY DEF Unanswered
  <2>1. MessageStack[a].id <= Handled /\ MessageStack[a].id \in 1..MaxFrames /\ MaxFrames \in Nat
    BY Counts DEF Questioning, Places, Answers
  <2> QED BY <1>1, <1>2, <2>1
<1>4. f.id \in 1..Len(sent) /\ f = sent[f.id] /\ f.kind \in Questions /\ Fitting(new, f)
  BY <1>1, <1>2
<1>5. Answers /\ AnswersSound /\ MessageStack' = MessageStack \o new /\ sent' = sent
  BY DEF Questioning, Places, Reply
<1>6. /\ MessageStack' \in Seq(AnswerType) /\ AnswersSound'
      /\ \A a \in 1..Len(MessageStack') :
           \/ a \in 1..Len(MessageStack) /\ MessageStack'[a] = MessageStack[a]
           \/ MessageStack'[a].id = f.id
  BY <1>3, <1>4, <1>5, Answering
<1>7. Places'
  BY <1>2, <1>6, PlacesPassed DEF Questioning
<1> QED BY <1>6, <1>7 DEF Questioning

\* What the topmost dialog is of.
LEMMA TopOfItsFrame ==
  ASSUME TypeOK, HistoryTypes, Posts, Places, stack # <<>>
  PROVE  /\ Top \in Entry /\ Top.frame \in Frame /\ Top.frame.id \in 1..Handled
         /\ Top.frame = sent[Top.frame.id] /\ Top.text = Top.frame.text
         /\ Top.frame.kind \in Counted \cup FileDialogs /\ Unanswered(Top.frame)
<1>1. Len(stack) \in 1..Len(stack) /\ Top = stack[Len(stack)]
  <2>1. stack \in Seq(Entry)
    BY DEF TypeOK, Entry
  <2> QED BY <2>1 DEF Top
<1>2. /\ Top \in Entry /\ Top.frame.id \in 1..MaxFrames /\ MaxFrames \in Nat /\ Handled \in Nat
      /\ OfItsFrame(Top) /\ Top.frame.kind \in Counted \cup FileDialogs
  BY <1>1, Counts DEF Places, Dialogs
<1>3. Unanswered(Top.frame)
  BY <1>1 DEF Places, Answers, Unanswered
<1> QED BY <1>2, <1>3 DEF OfItsFrame, Entry

\* The question of the topmost dialog is answered when it is closed.
LEMMA TopAnswered ==
  ASSUME TypeOK, HistoryTypes, Posts, Questioning, Close,
         NEW new, Fitting(new, Top.frame), Top.frame.kind \in Questions, Reply(new)
  PROVE  Questioning' /\ MessageStack' \in Seq(AnswerType)
<1>1. /\ Top.frame \in Frame /\ Top.frame.id \in 1..Handled /\ Top.frame = sent[Top.frame.id]
      /\ Unanswered(Top.frame)
  BY TopOfItsFrame DEF Questioning, Close
<1>2. PICK f \in Frame : f = Top.frame
  BY <1>1
<1>3. Handled \in Nat /\ Len(sent) \in Nat /\ Handled <= Len(sent)
  BY Counts
<1>4. /\ f.id \in 1..Len(sent) /\ f = sent[f.id] /\ f.kind \in Questions /\ Fitting(new, f)
      /\ Unanswered(f)
  BY <1>1, <1>2, <1>3
<1>5. Answers /\ AnswersSound /\ MessageStack' = MessageStack \o new /\ sent' = sent
  BY DEF Questioning, Places, Reply, Close
<1>6. /\ MessageStack' \in Seq(AnswerType) /\ AnswersSound'
      /\ \A a \in 1..Len(MessageStack') :
           \/ a \in 1..Len(MessageStack) /\ MessageStack'[a] = MessageStack[a]
           \/ MessageStack'[a].id = f.id
  BY <1>4, <1>5, Answering
<1>7. Places'
  BY <1>2, <1>6, PlacesClosed DEF Questioning
<1> QED BY <1>6, <1>7 DEF Questioning

\* A dialog is closed without an answer.
LEMMA TopDropped ==
  ASSUME TypeOK, HistoryTypes, Posts, Questioning, Close, NoReply
  PROVE  Questioning' /\ MessageStack' \in Seq(AnswerType)
<1>1. MessageStack' = MessageStack /\ sent' = sent
  BY DEF Close, NoReply
<1>2. Places'
  BY <1>1, PlacesClosed DEF Questioning
<1> QED BY <1>1, <1>2, NotAnswering DEF Questioning, HistoryTypes

\* The next frame is handled without an answer.
LEMMA FirstDropped ==
  ASSUME TypeOK, HistoryTypes, Posts, Questioning, Take, UNCHANGED <<sent, stack, MessageStack>>,
         cw'.login = cw.login
  PROVE  Questioning' /\ MessageStack' \in Seq(AnswerType)
<1>1. Places'
  BY PlacesPassed DEF Questioning
<1> QED BY <1>1, NotAnswering DEF Questioning, HistoryTypes

\* Every step keeps the questions and their answers together.
LEMMA QuestioningStep ==
  ASSUME TypeOK, HistoryTypes, Posts, Questioning, Next
  PROVE  Questioning' /\ MessageStack' \in Seq(AnswerType)
<1>m. MaxFrames \in Nat /\ POST_STRING \in 0..MaxFrames /\ POST_TARGET \in 0..MaxFrames
  BY Counts DEF TypeOK
<1>t. \A f \in Frame : f.text \in 0..MaxFrames
  BY DEF Frame
<1>u. -1 \in -1..MaxFrames /\ "yes" \in {"yes", "no"}
  BY <1>m
<1>f. ASSUME Take, sent' = sent PROVE First \in Frame /\ POST_STRING = First.text
  BY <1>f, Taken
<1>a. \A f \in Frame : Fitting(<<Answer(f, 1, "yes", f.text, -1)>>, f)
  BY <1>t, <1>u, AnswerFits
<1>1. CASE OpenDialog
  <2>1. MessageStack' = MessageStack /\ sent' = sent /\ Places'
    BY <1>1, PlacesOpened DEF OpenDialog, Questioning
  <2> QED BY <2>1, NotAnswering DEF Questioning, HistoryTypes
<1>2. CASE HandleQuery
  <2>1. First \in Frame /\ First.kind \in Questions
    BY <1>2, <1>f DEF HandleQuery, Questions
  <2> QED BY <1>2, <1>a, <2>1, FirstAnswered DEF HandleQuery
<1>3. CASE HandleRisky
  <2>1. Take /\ UNCHANGED <<sent, stack, cw>>
    BY <1>3 DEF HandleRisky
  <2>2. CASE First.kind = "environment" /\ secure_app = 1
    <3>1. First \in Frame /\ First.kind \in Questions /\ POST_STRING = First.text
      BY <1>f, <2>1, <2>2 DEF Questions
    <3>2. Reply(<<Answer(First, 1, "yes", First.text, -1)>>)
      BY <1>3, <2>2, <3>1 DEF HandleRisky, Permitted
    <3> QED BY <1>a, <2>1, <3>1, <3>2, FirstAnswered
  <2>3. CASE ~(First.kind = "environment" /\ secure_app = 1)
    <3>1. MessageStack' = MessageStack
      BY <1>3, <2>3 DEF HandleRisky, Permitted, NoReply
    <3> QED BY <2>1, <3>1, FirstDropped
  <2> QED BY <2>2, <2>3
<1>4. CASE HandlePost
  BY <1>4, FirstDropped DEF HandlePost
<1>5. CASE HandleLogin
  <2>1. MessageStack' = MessageStack /\ sent' = sent /\ Places'
    BY <1>5, PlacesShown DEF HandleLogin, Questioning
  <2> QED BY <2>1, NotAnswering DEF Questioning, HistoryTypes
<1>6. CASE HandleText \/ HandleRun \/ HandleQuit
  <2>1. cw'.login = cw.login
    BY <1>6 DEF HandleText, HandleRun, HandleQuit, TypeOK
  <2>2. Take /\ UNCHANGED <<sent, stack, MessageStack>>
    BY <1>6 DEF HandleText, HandleRun, HandleQuit
  <2> QED BY <2>1, <2>2, FirstDropped
<1>7. CASE HandleCookie
  <2>1. Take /\ UNCHANGED <<sent, stack, cw>>
    BY <1>7 DEF HandleCookie
  <2>2. CASE First.kind = "cookieChunk"
    <3>1. First \in Frame /\ First.kind \in Questions
      BY <1>f, <2>1, <2>2 DEF Questions
    <3>2. Reply(<<Answer(First, 1, "yes", First.text, -1)>>)
      BY <1>7, <2>2 DEF HandleCookie
    <3> QED BY <1>a, <2>1, <3>1, <3>2, FirstAnswered
  <2>3. CASE First.kind # "cookieChunk"
    <3>1. MessageStack' = MessageStack
      BY <1>7, <2>3 DEF HandleCookie, NoReply
    <3> QED BY <2>1, <3>1, FirstDropped
  <2> QED BY <2>2, <2>3
<1>8. ASSUME NEW res \in {"yes", "no"},
             CloseBox(res) \/ CloseLogin(res) \/ CloseFile(res) \/ CloseError(res) \/ CloseConsent(res)
      PROVE  Questioning' /\ MessageStack' \in Seq(AnswerType)
  <2>0. Close
    BY <1>8 DEF CloseBox, CloseLogin, CloseFile, CloseError, CloseConsent
  <2>1. /\ Top.frame \in Frame /\ Top.frame.id \in 1..Handled /\ Top.frame = sent[Top.frame.id]
        /\ Top.text = Top.frame.text /\ Unanswered(Top.frame) /\ Top.frame.text \in 0..MaxFrames
    BY <1>t, <2>0, TopOfItsFrame DEF Close, Questioning
  <2>2. ASSUME Sequential, Top.frame.kind \in Questions
        PROVE  POST_STRING = Top.frame.text /\ POST_TARGET = Top.frame.text
    BY <2>1, <2>2, Registers DEF Questioning, AnswersSound
  <2>3. CASE CloseBox(res)
    <3>1. CASE Top.frame.kind = "box"
      BY <2>0, <2>3, <3>1, TopDropped DEF CloseBox
    <3>2. CASE Top.frame.kind # "box"
      <4>1. Top.frame.kind \in Questions /\ Reply(<<Answer(Top.frame, 1, res, Top.frame.text, -1)>>)
        BY <2>1, <2>3, <3>2 DEF CloseBox, Shown, Questions
      <4>2. Fitting(<<Answer(Top.frame, 1, res, Top.frame.text, -1)>>, Top.frame)
        BY <1>u, <2>1, AnswerFits
      <4> QED BY <2>0, <4>1, <4>2, TopAnswered
    <3> QED BY <3>1, <3>2
  <2>4. CASE CloseLogin(res)
    <3>1. Top.frame.kind \in Questions /\ Reply(LoginAnswers(Top.frame, res, Top.frame.text, FALSE))
      BY <2>1, <2>4 DEF CloseLogin, Shown, Questions
    <3>2. Fitting(LoginAnswers(Top.frame, res, Top.frame.text, FALSE), Top.frame)
      BY <1>m, <2>1, <2>2, <3>1, LoginFits
    <3> QED BY <2>0, <3>1, <3>2, TopAnswered
  <2>5. CASE CloseFile(res)
    <3> DEFINE used == IF Top.frame.kind = "save" /\ res = "yes" THEN POST_STRING ELSE -1
    <3>1. Top.frame.kind \in Questions /\ Reply(<<Answer(Top.frame, 1, res, Top.frame.text, used)>>)
      BY <2>1, <2>5 DEF CloseFile, Shown, Questions
    <3>2. used \in -1..MaxFrames /\ (Sequential /\ used # -1 => used = Top.frame.text)
      BY <1>m, <2>2, <3>1
    <3> HIDE DEF used
    <3>3. Fitting(<<Answer(Top.frame, 1, res, Top.frame.text, used)>>, Top.frame)
      BY <2>1, <3>2, AnswerFits
    <3> QED BY <2>0, <3>1, <3>3, TopAnswered
  <2>6. CASE CloseError(res)
    BY <2>0, <2>6, TopDropped DEF CloseError
  <2>7. CASE CloseConsent(res)
    <3>1. CASE Top.frame.kind = "environment" /\ res = "yes"
      <4>1. Top.frame.kind \in Questions /\ Reply(<<Answer(Top.frame, 1, "yes", POST_STRING, -1)>>)
        BY <2>7, <3>1 DEF CloseConsent, Permitted, Questions
      <4>2. Fitting(<<Answer(Top.frame, 1, "yes", POST_STRING, -1)>>, Top.frame)
        BY <1>m, <1>u, <2>1, <3>1, AnswerFits
      <4> QED BY <2>0, <4>1, <4>2, TopAnswered
    <3>2. CASE ~(Top.frame.kind = "environment" /\ res = "yes")
      <4>1. NoReply
        BY <2>7, <3>2 DEF CloseConsent, Permitted
      <4> QED BY <2>0, <4>1, TopDropped
    <3> QED BY <3>1, <3>2
  <2> QED BY <1>8, <2>3, <2>4, <2>5, <2>6, <2>7
<1>9. CASE ConsoleButton
  <2>1. cw.login \in Seq(Entry) /\ cw.login # <<>> /\ 1 \in 1..Len(cw.login) /\ cw.login[1] \in Entry
    <3>1. cw.login \in Seq(Entry) /\ cw.login # <<>>
      BY <1>9 DEF ConsoleButton, TypeOK, Entry
    <3> QED BY <3>1
  <2>2. PICK f \in Frame : f = cw.login[1].frame
    BY <2>1 DEF Entry
  <2>3. OfItsFrame(cw.login[1]) /\ f.kind = "login" /\ Unanswered(f)
    BY <2>1, <2>2 DEF Questioning, Places, ConsoleLogin, Answers, Unanswered
  <2>4. /\ f.id \in 1..Handled /\ f = sent[f.id] /\ cw.login[1].text = f.text
        /\ f.id \in 1..Len(sent) /\ f.kind \in Questions /\ f.text \in 0..MaxFrames
    <3>1. f.id \in 1..MaxFrames /\ f.id <= Handled
      BY <2>2, <2>3 DEF Frame, OfItsFrame
    <3>2. Handled \in Nat /\ Handled <= Len(sent) /\ Len(sent) \in Nat
      BY Counts
    <3> QED BY <1>m, <1>t, <2>2, <2>3, <3>1, <3>2 DEF OfItsFrame, Questions
  <2>5. PICK res \in {"yes", "no"} : Reply(LoginAnswers(f, res, f.text, TRUE))
    BY <1>9, <2>2, <2>4 DEF ConsoleButton, CancelAnswer
  <2>6. Sequential => POST_TARGET = f.text
    BY <2>3, <2>4, Registers DEF Questioning, AnswersSound
  <2>7. Fitting(LoginAnswers(f, res, f.text, TRUE), f)
    BY <1>m, <2>4, <2>6, LoginFits
  <2>8. Answers /\ AnswersSound /\ UNCHANGED <<queue, sent, stack>> /\ cw'.login = <<>>
    BY <1>9 DEF Questioning, Places, ConsoleButton, TypeOK
  <2>9. /\ MessageStack' \in Seq(AnswerType) /\ AnswersSound'
        /\ \A a \in 1..Len(MessageStack') :
             \/ a \in 1..Len(MessageStack) /\ MessageStack'[a] = MessageStack[a]
             \/ MessageStack'[a].id = f.id
    BY <2>3, <2>4, <2>5, <2>7, <2>8, Answering DEF Reply
  <2>10. Places'
    BY <2>1, <2>2, <2>8, <2>9, PlacesConsole DEF Questioning
  <2> QED BY <2>9, <2>10 DEF Questioning
<1>10. CASE Click
  <2>1. UNCHANGED <<stack, cw, MessageStack, sent, queue>>
    BY <1>10 DEF Click
  <2>2. Places'
    BY <2>1, PlacesKept DEF Questioning, Handled
  <2> QED BY <2>1, <2>2, NotAnswering DEF Questioning, HistoryTypes
<1>11. ASSUME NEW kind \in Kinds, NEW method \in Methods, ServerSends(kind, method)
       PROVE  Questioning' /\ MessageStack' \in Seq(AnswerType)
  <2>1. UNCHANGED <<stack, cw, MessageStack>>
    BY <1>11 DEF ServerSends
  <2>2. Handled' = Handled /\ \A k \in 1..Len(sent) : sent'[k] = sent[k]
    BY <1>11, Sent
  <2>3. Places'
    BY <2>1, <2>2, PlacesKept DEF Questioning
  <2>4. AnswersSound'
    BY <1>11, AnswersSent DEF Questioning, Places
  <2> QED BY <2>1, <2>3, <2>4 DEF Questioning, HistoryTypes
<1> QED BY <1>1, <1>2, <1>3, <1>4, <1>5, <1>6, <1>7, <1>8, <1>9, <1>10, <1>11
        DEF Next, Handle, CloseDialog
-----------------------------------------------------------------------------
(* The number of dialogs, and the end *)

\* The dialogs that are counted are finitely many.
LEMMA CountedFinite ==
  ASSUME Len(stack) \in Nat
  PROVE  IsFiniteSet(CountedOpen) /\ Cardinality(CountedOpen) \in Nat
<1>1. IsFiniteSet(1..Len(stack)) /\ CountedOpen \in SUBSET (1..Len(stack))
  BY FS_Interval DEF CountedOpen
<1>2. IsFiniteSet(CountedOpen)
  BY <1>1, FS_Subset
<1> QED BY <1>2, FS_CardinalityType

\* The count follows a dialog that opens.
LEMMA CountOpened ==
  ASSUME TypeOK, HistoryTypes, Posts, DialogsCount, OpenDialog
  PROVE  DialogsCount'
<1> DEFINE n == Len(stack) + 1
<1>1. /\ stack \in Seq(Entry) /\ Len(stack) \in Nat
      /\ [frame |-> First, text |-> POST_STRING] \in Entry
  <2>1. First \in Frame
    BY Taken DEF OpenDialog
  <2>2. Len(stack) \in Nat
    BY Counts
  <2> QED BY <2>1, <2>2 DEF TypeOK, Entry
<1>2. /\ Len(stack') = n /\ stack'[n].frame = First /\ \A k \in 1..Len(stack) : stack'[k] = stack[k]
      /\ dialogs' = dialogs + Weight(First)
  BY <1>1, OneMore DEF OpenDialog
<1>3. \A k \in 1..n : k \in 1..Len(stack) \/ k = n
  BY <1>1
<1>4. n \in 1..n /\ 1..Len(stack) \subseteq 1..n /\ n \notin 1..Len(stack)
  BY <1>1
<1> HIDE DEF n
<1>5. CASE First.kind \in Counted
  <2>1. CountedOpen' = CountedOpen \cup {n} /\ n \notin CountedOpen
    BY <1>2, <1>3, <1>4, <1>5 DEF CountedOpen
  <2>2. Cardinality(CountedOpen \cup {n}) = Cardinality(CountedOpen) + 1
    BY <1>1, <2>1, CountedFinite, FS_AddElement
  <2> QED BY <1>2, <1>5, <2>1, <2>2 DEF DialogsCount, Weight
<1>6. CASE First.kind \notin Counted
  <2>1. CountedOpen' = CountedOpen
    BY <1>2, <1>3, <1>4, <1>6 DEF CountedOpen
  <2>2. Cardinality(CountedOpen) \in Nat
    BY <1>1, CountedFinite
  <2> QED BY <1>2, <1>6, <2>1, <2>2 DEF DialogsCount, Weight
<1> QED BY <1>5, <1>6

\* ... and one that closes.
LEMMA CountClosed ==
  ASSUME TypeOK, DialogsCount, Close
  PROVE  DialogsCount'
<1> DEFINE n == Len(stack)
<1>1. stack \in Seq(Entry) /\ stack # <<>> /\ stack' = SubSeq(stack, 1, Len(stack) - 1)
  BY DEF TypeOK, Entry, Close
<1>2. /\ n \in Nat \ {0} /\ Len(stack') = n - 1 /\ \A k \in 1..n - 1 : stack'[k] = stack[k]
      /\ dialogs' = dialogs - Weight(stack[n].frame)
  BY <1>1, LastLess DEF Close, Top
<1>3. \A k \in 1..n : k \in 1..n - 1 \/ k = n
  BY <1>2
<1>4. n \in 1..n /\ 1..n - 1 \subseteq 1..n /\ n \notin 1..n - 1
  BY <1>2
<1>5. IsFiniteSet(CountedOpen) /\ Cardinality(CountedOpen) \in Nat
  BY <1>2, CountedFinite
<1>6. CountedOpen = {k \in 1..n : stack[k].frame.kind \in Counted}
  BY DEF CountedOpen
<1> HIDE DEF n
<1>7. CASE stack[n].frame.kind \in Counted
  <2>1. CountedOpen' = CountedOpen \ {n} /\ n \in CountedOpen
    BY <1>2, <1>3, <1>4, <1>6, <1>7 DEF CountedOpen
  <2>2. Cardinality(CountedOpen \ {n}) = Cardinality(CountedOpen) - 1
    BY <1>5, <2>1, FS_RemoveElement
  <2> QED BY <1>2, <1>7, <2>1, <2>2 DEF DialogsCount, Weight
<1>8. CASE stack[n].frame.kind \notin Counted
  <2>1. CountedOpen' = CountedOpen
    BY <1>2, <1>3, <1>4, <1>6, <1>8 DEF CountedOpen
  <2> QED BY <1>2, <1>5, <1>8, <2>1 DEF DialogsCount, Weight
<1> QED BY <1>7, <1>8

\* When none of the open dialogs s is counted, only file dialogs are open.
LEMMA NoneCounted ==
  ASSUME NEW s, Len(s) \in Nat,
         \A k \in 1..Len(s) : s[k].frame.kind \in Counted \cup FileDialogs,
         Cardinality({k \in 1..Len(s) : s[k].frame.kind \in Counted}) <= 0
  PROVE  \A k \in 1..Len(s) : s[k].frame.kind \in FileDialogs
<1> DEFINE C == {k \in 1..Len(s) : s[k].frame.kind \in Counted}
<1>1. IsFiniteSet(C)
  <2>1. IsFiniteSet(1..Len(s)) /\ C \in SUBSET (1..Len(s))
    BY FS_Interval
  <2> QED BY <2>1, FS_Subset
<1>2. Cardinality(C) = 0
  <2>1. Cardinality(C) \in Nat
    BY <1>1, FS_CardinalityType
  <2>2. Cardinality(C) <= 0
    OBVIOUS
  <2> HIDE DEF C
  <2> QED BY <2>1, <2>2
<1>3. C = {}
  BY <1>1, <1>2, FS_EmptySet
<1> QED BY <1>3

\* Every step keeps the count.
LEMMA CountStep ==
  ASSUME TypeOK, HistoryTypes, Posts, DialogsCount, Next
  PROVE  DialogsCount'
<1>1. CASE OpenDialog
  BY <1>1, CountOpened
<1>2. CASE CloseDialog
  BY <1>2, CountClosed DEF CloseDialog, CloseBox, CloseLogin, CloseFile, CloseError, CloseConsent
<1>3. CASE UNCHANGED <<stack, dialogs>>
  BY <1>3 DEF DialogsCount, CountedOpen
<1>4. OpenDialog \/ CloseDialog \/ UNCHANGED <<stack, dialogs>>
  BY DEF Next, Handle, HandleQuery, HandleRisky, HandlePost, HandleLogin, HandleText, HandleRun,
         HandleQuit, HandleCookie, ConsoleButton, Click, ServerSends
<1> QED BY <1>1, <1>2, <1>3, <1>4

\* The ways in which a step ends the program, or leaves it running.
LEMMA EndingSteps ==
  ASSUME Next
  PROVE  \/ UNCHANGED ends
         \/ HandleCookie /\ exited' = exited
         \/ \E reason \in {"clicks", "done"} : Done(reason, dialogs')
<1>1. CASE HandleQuit
  BY <1>1 DEF HandleQuit
<1>2. CASE Click
  <2>1. UNCHANGED ends \/ Done("done", dialogs) \/ Done("clicks", dialogs)
    BY <1>2 DEF Click
  <2> QED BY <1>2, <2>1 DEF Click
<1>3. ASSUME NEW res \in {"yes", "no"}, CloseError(res)
      PROVE  UNCHANGED ends \/ Done("done", dialogs')
  <2>1. dialogs' = dialogs - 1
    BY <1>3 DEF CloseError, Close, Weight, Counted
  <2> QED BY <1>3, <2>1 DEF CloseError
<1>4. CASE HandleCookie
  BY <1>4 DEF HandleCookie
<1> QED BY <1>1, <1>2, <1>3, <1>4
        DEF Next, Handle, OpenDialog, HandleQuery, HandleRisky, HandlePost, HandleLogin, HandleText,
            HandleRun, CloseDialog, CloseBox, CloseLogin, CloseFile, CloseConsent, ConsoleButton,
            ServerSends, ends

\* Every step keeps what the end promises.
LEMMA EndsStep ==
  ASSUME TypeOK, Ends, Next, TypeOK', Dialogs', DialogsCount'
  PROVE  Ends'
<1>0. exited = "no"
  BY Running
<1>1. CASE UNCHANGED ends
  BY <1>0, <1>1 DEF Ends, NoDialogIsCut, ends
<1>2. CASE HandleCookie /\ exited' = exited
  BY <1>0, <1>2 DEF HandleCookie, Ends, NoDialogIsCut
<1>3. ASSUME NEW reason \in {"clicks", "done"}, Done(reason, dialogs')
      PROVE  Ends'
  <2>1. disk' = {} /\ (exited' # "no" => dialogs' <= 0)
    BY <1>0, <1>3 DEF Done, Ends
  <2>2. Len(stack') \in Nat /\ DOMAIN stack' = 1..Len(stack')
    BY DEF TypeOK
  <2>3. exited' # "no" => \A k \in 1..Len(stack') : stack'[k].frame.kind \in FileDialogs
    <3> SUFFICES ASSUME exited' # "no"
                 PROVE  \A k \in 1..Len(stack') : stack'[k].frame.kind \in FileDialogs
      OBVIOUS
    <3>1. \A k \in 1..Len(stack') : stack'[k].frame.kind \in Counted \cup FileDialogs
      BY DEF Dialogs
    <3>2. Cardinality({k \in 1..Len(stack') : stack'[k].frame.kind \in Counted}) <= 0
      BY <2>1 DEF DialogsCount, CountedOpen
    <3> QED BY <2>2, <3>1, <3>2, NoneCounted
  <2> QED BY <2>1, <2>2, <2>3 DEF Ends, NoDialogIsCut
<1> QED BY <1>1, <1>2, <1>3, EndingSteps

\* Every step keeps what closeEvent remembers.
LEMMA ClicksStep ==
  ASSUME TypeOK, HistoryTypes, Posts, DialogsCount, Clicks, Next
  PROVE  Clicks' /\ clicklog' \in Seq(0..MaxFrames)
<1> DEFINE n == Len(clicklog)
<1>0. /\ exited = "no" /\ n \in Nat /\ Len(sent) \in 0..MaxFrames /\ clicklog \in Seq(0..MaxFrames)
      /\ closeEvent.clicked \in 0..1
  <2>1. exited = "no" /\ clicklog \in Seq(0..MaxFrames) /\ closeEvent.clicked \in 0..1
    BY Running DEF HistoryTypes, TypeOK
  <2>2. n \in Nat /\ Len(sent) \in Nat /\ Len(sent) <= MaxFrames /\ MaxFrames \in Nat
    BY Counts
  <2> QED BY <2>1, <2>2
<1>1. \/ closeEvent = [clicked |-> 0, last |-> -1] /\ n = 0
      \/ /\ n >= 1 /\ clicklog[n] = closeEvent.last
         /\ closeEvent.clicked = 1 => n >= 2 /\ clicklog[n - 1] = closeEvent.last
  BY <1>0 DEF Clicks
<1>2. CASE Click
  <2>1. clicklog' = Append(clicklog, Len(sent)) /\ stack = <<>> /\ sent' = sent
    BY <1>2 DEF Click
  <2>2. /\ clicklog' \in Seq(0..MaxFrames) /\ Len(clicklog') = n + 1 /\ clicklog'[n + 1] = Len(sent)
        /\ \A k \in 1..n : clicklog'[k] = clicklog[k]
    BY <1>0, <2>1, OneMore
  <2>3. dialogs <= 0
    <3>1. CountedOpen = {}
      BY <2>1 DEF CountedOpen
    <3>2. dialogs = 0
      BY <3>1, FS_EmptySet DEF DialogsCount
    <3> QED BY <3>2
  <2> HIDE DEF n
  <2>4. CASE ~connected
    <3>1. exited' = "done"
      BY <1>2, <2>3, <2>4 DEF Click, Done
    <3> QED BY <2>2, <3>1 DEF Clicks, ThreeClicks
  <2>5. CASE connected /\ ~Silent
    <3>1. closeEvent' = [clicked |-> 0, last |-> Len(sent)] /\ exited' = "no"
      BY <1>0, <1>2, <2>5 DEF Click, ends
    <3> QED BY <1>0, <2>2, <3>1 DEF Clicks
  <2>6. CASE connected /\ Silent /\ closeEvent.clicked = 0
    <3>1. closeEvent' = [closeEvent EXCEPT !.clicked = 1] /\ exited' = "no"
      BY <1>0, <1>2, <2>6 DEF Click, ends
    <3>2. closeEvent'.last = closeEvent.last /\ closeEvent.last = Len(sent)
      BY <2>6, <3>1 DEF Silent, TypeOK
    <3>3. n >= 1 /\ clicklog[n] = Len(sent)
      BY <1>0, <1>1, <3>2
    <3>4. clicklog'[n] = Len(sent) /\ (n + 1) - 1 = n /\ n + 1 >= 2
      BY <1>0, <2>2, <3>3
    <3> QED BY <1>0, <2>2, <3>1, <3>2, <3>4 DEF Clicks
  <2>7. CASE connected /\ Silent /\ closeEvent.clicked # 0
    <3>1. exited' = "clicks"
      BY <1>2, <2>3, <2>7 DEF Click, Done
    <3>2. closeEvent.last = Len(sent) /\ closeEvent.clicked = 1
      BY <1>0, <2>7 DEF Silent
    <3>3. n >= 2 /\ clicklog[n] = Len(sent) /\ clicklog[n - 1] = Len(sent)
      BY <1>0, <1>1, <3>2
    <3>4. /\ clicklog'[n] = Len(sent) /\ clicklog'[n - 1] = Len(sent)
          /\ (n + 1) - 1 = n /\ (n + 1) - 2 = n - 1 /\ n + 1 >= 3
      BY <1>0, <2>2, <3>3
    <3> QED BY <1>0, <2>2, <3>1, <3>4 DEF Clicks, ThreeClicks
  <2> QED BY <2>2, <2>4, <2>5, <2>6, <2>7
<1>3. CASE ~Click
  <2>1. UNCHANGED <<clicklog, closeEvent>>
    BY <1>3 DEF Next, Handle, OpenDialog, HandleQuery, HandleRisky, HandlePost, HandleLogin,
         HandleText, HandleRun, HandleQuit, HandleCookie, CloseDialog, CloseBox, CloseLogin,
         CloseFile, CloseError, CloseConsent, Close, ConsoleButton, ServerSends
  <2>2. exited' \in {"no", "done"}
    BY <1>0, <1>3 DEF Next, Handle, OpenDialog, HandleQuery, HandleRisky, HandlePost, HandleLogin,
         HandleText, HandleRun, HandleQuit, HandleCookie, CloseDialog, CloseBox, CloseLogin,
         CloseFile, CloseError, CloseConsent, Close, ConsoleButton, ServerSends, ends, Done
  <2> QED BY <1>0, <1>1, <2>1, <2>2 DEF Clicks, ThreeClicks
<1> QED BY <1>2, <1>3
-----------------------------------------------------------------------------
(* Consent *)

\* A decision has a number and truth values.
LEMMA DecisionTypes ==
  ASSUME TypeOK
  PROVE  /\ decided \in Seq(Decision) /\ Len(decided) \in Nat /\ DOMAIN decided = 1..Len(decided)
         /\ \A k \in 1..Len(decided) :
              decided[k].id \in Nat /\ decided[k].yes \in BOOLEAN /\ decided[k].asked \in BOOLEAN
<1>1. decided \in Seq(Decision) /\ \A k \in 1..Len(decided) : decided[k] \in Decision
  BY DEF TypeOK
<1>2. \A d \in Decision : d.id \in Nat /\ d.yes \in BOOLEAN /\ d.asked \in BOOLEAN
  BY DispatchAssumption DEF DispatchAssumption, Decision
<1> QED BY <1>1, <1>2

\* One more decision leaves the boxes among the earlier ones as they are.
LEMMA LastBoxStays ==
  ASSUME NEW j \in Nat, NEW n \in Nat, n <= Len(decided), Len(decided) \in Nat, j <= n,
         \A k \in 1..Len(decided) : decided'[k] = decided[k], j # 0
  PROVE  LastBox(j, n) <=> LastBox(j, n)'
<1>1. j \in 1..Len(decided) /\ \A i \in j + 1..n : i \in 1..Len(decided)
  OBVIOUS
<1> QED BY <1>1 DEF LastBox

\* A frame that opens no box for consent, or closes none, decides nothing.
LEMMA NothingDecided ==
  ASSUME TypeOK, Credentials, UNCHANGED <<decided, secure_app>>, Handled <= Handled',
         Handled \in Nat, Handled' \in Nat,
         stack' \in Seq(Entry), Len(stack') <= Len(stack),
         \A k \in 1..Len(stack') : stack'[k] = stack[k]
  PROVE  Credentials'
<1>1. /\ decided \in Seq(Decision)
      /\ stack \in Seq(Entry)
      /\ Len(decided) \in Nat /\ Len(stack) \in Nat /\ Len(stack') \in Nat
      /\ DOMAIN decided = 1..Len(decided) /\ DOMAIN stack = 1..Len(stack)
      /\ DOMAIN stack' = 1..Len(stack')
  BY DEF TypeOK, Entry
<1>2. \A k \in 1..Len(stack') : k \in 1..Len(stack)
  BY <1>1
<1>3. \A k \in 1..Len(decided) : decided[k].id <= Handled' /\ decided' = decided
  <2> TAKE k \in 1..Len(decided)
  <2>1. decided[k].id \in Nat /\ decided[k].id <= Handled
    BY DecisionTypes DEF Credentials
  <2> QED BY <2>1
<1>4. FirstBoxDecides'
  <2>1. \A j \in Consent(stack') : j \in Consent(stack) /\ stack'[j] = stack[j]
    BY <1>1, <1>2 DEF Consent
  <2>2. \A j, n : LastBox(j, n)' <=> LastBox(j, n)
    BY DEF LastBox
  <2> QED BY <2>1, <2>2 DEF Credentials, FirstBoxDecides
<1>5. /\ \A j, k \in 1..Len(stack') : j < k => stack'[j].frame.id < stack'[k].frame.id
      /\ \A k \in 1..Len(decided), j \in 1..Len(stack') : stack'[j].frame.id # decided[k].id
  BY <1>2 DEF Credentials
<1> QED BY <1>3, <1>4, <1>5 DEF Credentials

\* One that takes the next frame and opens a dialog.
LEMMA CredentialsOpened ==
  ASSUME TypeOK, HistoryTypes, Posts, Dialogs, Credentials, OpenDialog
  PROVE  Credentials'
<1> DEFINE n == Len(stack)
           h == Handled
           e == [frame |-> First, text |-> POST_STRING]
<1>1. /\ First \in Frame /\ First.id = h + 1 /\ Handled' = h + 1 /\ h \in Nat
      /\ UNCHANGED <<decided, secure_app>> /\ stack' = Append(stack, e)
      /\ POST_STRING \in 0..MaxFrames
  BY Taken, Counts DEF OpenDialog, TypeOK
<1>2. /\ decided \in Seq(Decision)
      /\ stack \in Seq(Entry) /\ e \in Entry
      /\ Len(decided) \in Nat /\ DOMAIN decided = 1..Len(decided)
  BY <1>1 DEF TypeOK, Entry
<1>3. /\ stack' \in Seq(Entry) /\ Len(stack') = n + 1 /\ n \in Nat
      /\ stack'[n + 1] = e /\ \A k \in 1..n : stack'[k] = stack[k]
  BY <1>1, <1>2, OneMore
<1>4. DOMAIN stack = 1..n /\ DOMAIN stack' = 1..n + 1 /\ \A k \in 1..n + 1 : k \in 1..n \/ k = n + 1
  BY <1>2, <1>3
<1>5. \A k \in 1..n : stack[k].frame.id \in Nat /\ stack[k].frame.id <= h
  BY Counts DEF Dialogs, OfItsFrame
<1>6. \A k \in 1..Len(decided) : decided[k].id \in Nat /\ decided[k].id <= h
  BY DecisionTypes DEF Credentials
<1>7. \A k \in DOMAIN decided : First.kind \in Risky => ~decided[k].asked
  <2>1. First.kind \in Risky => secure_app < 0
    BY DEF OpenDialog, Opens, Asks, Risky, FileDialogs
  <2>2. secure_app < 0 => decided = <<>>
    BY DEF Credentials, FirstBoxDecides
  <2> QED BY <2>1, <2>2
<1>8. e.frame = First
  OBVIOUS
<1> HIDE DEF n, h, e
<1>9. \A j, k \in 1..n + 1 : j < k => stack'[j].frame.id < stack'[k].frame.id
  <2> SUFFICES ASSUME NEW j \in 1..n + 1, NEW k \in 1..n + 1, j < k
               PROVE  stack'[j].frame.id < stack'[k].frame.id
    OBVIOUS
  <2>1. j \in 1..n
    BY <1>3
  <2>2. CASE k \in 1..n
    BY <1>3, <2>1, <2>2 DEF Credentials, n
  <2>3. CASE k = n + 1
    BY <1>1, <1>3, <1>5, <1>8, <2>1, <2>3
  <2> QED BY <1>4, <2>2, <2>3
<1>10. \A k \in 1..Len(decided) :
         decided[k].id <= h + 1 /\ \A j \in 1..n + 1 : stack'[j].frame.id # decided[k].id
  <2> TAKE k \in 1..Len(decided)
  <2>1. decided[k].id <= h + 1 /\ decided[k].id # h + 1
    BY <1>1, <1>6
  <2>2. \A j \in 1..n : stack'[j].frame.id # decided[k].id
    BY <1>3 DEF Credentials, n
  <2>3. stack'[n + 1].frame.id # decided[k].id
    BY <1>1, <1>3, <1>8, <2>1
  <2> QED BY <1>4, <2>1, <2>2, <2>3
<1>11. \A j \in Consent(stack'), k \in DOMAIN decided :
         decided[k].asked => stack'[j].frame.id < decided[k].id
  <2> SUFFICES ASSUME NEW j \in Consent(stack'), NEW k \in DOMAIN decided, decided[k].asked
               PROVE  stack'[j].frame.id < decided[k].id
    OBVIOUS
  <2>1. j \in 1..n + 1 /\ stack'[j].frame.kind \in Risky
    BY <1>4 DEF Consent
  <2>2. j # n + 1
    BY <1>3, <1>7, <1>8, <2>1
  <2>3. j \in 1..n /\ j \in Consent(stack) /\ stack'[j] = stack[j]
    BY <1>3, <1>4, <2>1, <2>2 DEF Consent
  <2> QED BY <2>3 DEF Credentials, FirstBoxDecides
<1>12. FirstBoxDecides'
  <2>1. \A j, m : LastBox(j, m)' <=> LastBox(j, m)
    BY <1>1 DEF LastBox
  <2> QED BY <1>1, <1>11, <2>1 DEF Credentials, FirstBoxDecides
<1> QED BY <1>1, <1>3, <1>9, <1>10, <1>12 DEF Credentials, h

\* What a decision adds: asked in a box below which only older ones wait, or told by the
\* box closed last.
LEMMA CredentialsDecided ==
  ASSUME TypeOK, Credentials, NEW d \in Decision,
         decided' = Append(decided, d), Handled \in Nat, Handled' \in Nat, Handled <= Handled',
         d.id <= Handled', \A k \in 1..Len(decided) : decided[k].id # d.id,
         stack' \in Seq(Entry), Len(stack') <= Len(stack),
         \A k \in 1..Len(stack') : stack'[k] = stack[k] /\ stack'[k].frame.id # d.id,
         \/ /\ d.asked /\ secure_app' = Settled(IF d.yes THEN "yes" ELSE "no")
            /\ \A k \in 1..Len(decided) : decided[k].asked => d.id < decided[k].id
            /\ \A j \in Consent(stack') : stack'[j].frame.id < d.id
         \/ ~d.asked /\ secure_app >= 0 /\ secure_app' = secure_app /\ (d.yes <=> secure_app = 1)
  PROVE  Credentials'
<1>0. PICK m : m = Len(decided)
  OBVIOUS
<1>1. /\ decided \in Seq(Decision)
      /\ stack \in Seq(Entry)
      /\ Len(stack) \in Nat /\ Len(stack') \in Nat
      /\ DOMAIN decided = 1..m /\ DOMAIN stack = 1..Len(stack)
      /\ DOMAIN stack' = 1..Len(stack')
  BY <1>0, DecisionTypes DEF TypeOK, Entry
<1>2. /\ decided' \in Seq(Decision)
      /\ Len(decided') = m + 1 /\ m \in Nat
      /\ decided'[m + 1] = d /\ \A k \in 1..m : decided'[k] = decided[k]
  BY <1>0, <1>1, OneMore
<1>3. DOMAIN decided' = 1..m + 1 /\ \A k \in 1..m + 1 : k \in 1..m \/ k = m + 1
  BY <1>2
<1>4. \A k \in 1..Len(stack') : k \in 1..Len(stack)
  BY <1>1
<1>5. \A k \in 1..m : decided[k].id \in Nat /\ decided[k].id <= Handled
  BY <1>0, DecisionTypes DEF Credentials
<1>6. \A j \in 1..m, i \in 0..m : j <= i => (LastBox(j, i)' <=> LastBox(j, i))
  <2> TAKE j \in 1..m, i \in 0..m
  <2>1. HAVE j <= i
  <2>2. \A l \in j + 1..i : l \in 1..m
    BY <1>2, <2>1
  <2> QED BY <1>2, <2>2 DEF LastBox
<1>7. FirstBoxDecides
  BY DEF Credentials
<1>8. /\ \A j, k \in 1..m : decided[j].id = decided[k].id => j = k
      /\ \A j, k \in 1..m : j < k /\ decided[j].asked /\ decided[k].asked =>
                              decided[k].id < decided[j].id
      /\ \A k \in 1..m : ~decided[k].asked =>
           \E j \in 1..k - 1 : LastBox(j, k - 1) /\ decided[j].yes = decided[k].yes
      /\ secure_app >= 0 =>
           \E j \in 1..m : LastBox(j, m) /\ secure_app = (IF decided[j].yes THEN 1 ELSE 0)
      /\ \A j \in Consent(stack), k \in 1..m :
           decided[k].asked => stack[j].frame.id < decided[k].id
  <2>1. decided = <<>> => secure_app = -1
    BY <1>7 DEF FirstBoxDecides
  <2>2. decided # <<>> =>
          \E j \in 1..m : LastBox(j, m) /\ secure_app = (IF decided[j].yes THEN 1 ELSE 0)
    BY <1>0, <1>1, <1>7 DEF FirstBoxDecides
  <2>3. secure_app >= 0 =>
          \E j \in 1..m : LastBox(j, m) /\ secure_app = (IF decided[j].yes THEN 1 ELSE 0)
    BY <2>1, <2>2
  <2> QED BY <1>1, <1>7, <2>3 DEF FirstBoxDecides
<1>9. \A j, k \in 1..m + 1 :
        /\ decided'[j].id = decided'[k].id => j = k
        /\ j < k /\ decided'[j].asked /\ decided'[k].asked => decided'[k].id < decided'[j].id
  <2> SUFFICES ASSUME NEW j \in 1..m + 1, NEW k \in 1..m + 1
               PROVE  /\ decided'[j].id = decided'[k].id => j = k
                      /\ j < k /\ decided'[j].asked /\ decided'[k].asked =>
                           decided'[k].id < decided'[j].id
    OBVIOUS
  <2>1. CASE j \in 1..m /\ k \in 1..m
    BY <1>2, <1>8, <2>1
  <2>2. CASE j \in 1..m /\ k = m + 1
    BY <1>0, <1>2, <2>2
  <2>3. CASE j = m + 1
    BY <1>0, <1>2, <1>3, <2>3
  <2> QED BY <1>3, <2>1, <2>2, <2>3
<1>10. \A k \in 1..m + 1 : ~decided'[k].asked =>
         \E j \in 1..k - 1 : LastBox(j, k - 1)' /\ decided'[j].yes = decided'[k].yes
  <2> SUFFICES ASSUME NEW k \in 1..m + 1, ~decided'[k].asked
               PROVE  \E j \in 1..k - 1 : LastBox(j, k - 1)' /\ decided'[j].yes = decided'[k].yes
    OBVIOUS
  <2>1. CASE k \in 1..m
    <3>1. PICK j \in 1..k - 1 : LastBox(j, k - 1) /\ decided[j].yes = decided[k].yes
      BY <1>2, <1>8, <2>1
    <3>2. j \in 1..m /\ k - 1 \in 0..m /\ j <= k - 1
      BY <1>2, <2>1, <3>1
    <3> QED BY <1>2, <1>6, <2>1, <3>1, <3>2
  <2>2. CASE k = m + 1
    <3>1. secure_app >= 0 /\ (d.yes <=> secure_app = 1) /\ k - 1 = m /\ m \in 0..m
      BY <1>2, <2>2
    <3>2. PICK j \in 1..m : LastBox(j, m) /\ secure_app = (IF decided[j].yes THEN 1 ELSE 0)
      BY <1>8, <3>1
    <3>3. LastBox(j, m)' /\ decided'[j] = decided[j]
      BY <1>2, <1>6, <3>1, <3>2
    <3>4. decided[j].yes \in BOOLEAN /\ d.yes \in BOOLEAN
      BY <1>0, <3>2, DecisionTypes DEF Decision
    <3>5. decided[j].yes = d.yes
      BY <3>1, <3>2, <3>4
    <3> QED BY <1>2, <2>2, <3>1, <3>3, <3>5
  <2> QED BY <1>3, <2>1, <2>2
<1>11. \E j \in 1..m + 1 : LastBox(j, m + 1)' /\ secure_app' = (IF decided'[j].yes THEN 1 ELSE 0)
  <2>1. CASE d.asked
    <3>1. (m + 1) + 1..m + 1 = {} /\ m + 1 \in 1..m + 1
      BY <1>2
    <3>2. LastBox(m + 1, m + 1)'
      BY <1>2, <2>1, <3>1 DEF LastBox
    <3>3. secure_app' = (IF d.yes THEN 1 ELSE 0)
      BY <2>1 DEF Settled
    <3> QED BY <1>2, <3>1, <3>2, <3>3
  <2>2. CASE ~d.asked
    <3>1. PICK j \in 1..m : LastBox(j, m) /\ secure_app = (IF decided[j].yes THEN 1 ELSE 0)
      BY <1>8, <2>2
    <3>2. LastBox(j, m)' /\ decided'[j] = decided[j] /\ j \in 1..m + 1
      BY <1>2, <1>6, <3>1
    <3>3. \A i \in j + 1..m + 1 : i \in j + 1..m \/ i = m + 1
      BY <1>2
    <3>4. LastBox(j, m + 1)'
      BY <1>2, <2>2, <3>2, <3>3 DEF LastBox
    <3> QED BY <2>2, <3>1, <3>2, <3>4
  <2> QED BY <2>1, <2>2
<1>12. \A j \in Consent(stack'), k \in 1..m + 1 :
         decided'[k].asked => stack'[j].frame.id < decided'[k].id
  <2> SUFFICES ASSUME NEW j \in Consent(stack'), NEW k \in 1..m + 1, decided'[k].asked
               PROVE  stack'[j].frame.id < decided'[k].id
    OBVIOUS
  <2>1. j \in Consent(stack) /\ stack'[j] = stack[j]
    BY <1>1, <1>4 DEF Consent
  <2>2. CASE k \in 1..m
    BY <1>2, <1>8, <2>1, <2>2
  <2>3. CASE k = m + 1
    BY <1>2, <2>3
  <2> QED BY <1>3, <2>2, <2>3
<1>13. FirstBoxDecides'
  <2>1. decided' # <<>>
    BY <1>2
  <2> QED BY <1>2, <1>3, <1>9, <1>10, <1>11, <1>12, <2>1 DEF FirstBoxDecides
<1>14. \A k \in 1..m + 1 :
         decided'[k].id <= Handled' /\ \A j \in 1..Len(stack') : stack'[j].frame.id # decided'[k].id
  <2> TAKE k \in 1..m + 1
  <2>1. CASE k \in 1..m
    <3>1. decided[k].id <= Handled'
      BY <1>5, <2>1
    <3>2. \A j \in 1..Len(stack') : stack'[j].frame.id # decided[k].id
      BY <1>0, <1>4, <2>1 DEF Credentials
    <3> QED BY <1>2, <2>1, <3>1, <3>2
  <2>2. CASE k = m + 1
    BY <1>2, <2>2
  <2> QED BY <1>3, <2>1, <2>2
<1>15. \A j, k \in 1..Len(stack') : j < k => stack'[j].frame.id < stack'[k].frame.id
  BY <1>4 DEF Credentials
<1> QED BY <1>2, <1>13, <1>14, <1>15 DEF Credentials

\* Every step keeps who decides.
LEMMA CredentialsStep ==
  ASSUME TypeOK, HistoryTypes, Posts, Dialogs, Credentials, Next
  PROVE  Credentials'
<1>0. /\ stack \in Seq(Entry) /\ Len(stack) \in Nat /\ Handled \in Nat
      /\ \A k \in 1..Len(stack) : stack[k].frame.id \in 1..MaxFrames /\ stack[k].frame.id <= Handled
  BY Counts DEF TypeOK, Entry, Dialogs, OfItsFrame
<1>1. CASE OpenDialog
  BY <1>1, CredentialsOpened
<1>2. CASE HandleRisky
  <2> DEFINE d == [id |-> First.id, asked |-> FALSE, yes |-> secure_app = 1]
  <2>1. /\ First \in Frame /\ First.id = Handled + 1 /\ Handled' = Handled + 1
        /\ UNCHANGED <<stack, secure_app>> /\ decided' = Append(decided, d)
        /\ secure_app >= 0
    BY <1>2, Taken DEF HandleRisky, Permitted, Asks, TypeOK
  <2>2. d \in Decision
    BY <2>1 DEF Frame, Decision
  <2>3. d.id = Handled + 1 /\ d.asked = FALSE /\ (d.yes <=> secure_app = 1)
    BY <2>1
  <2> HIDE DEF d
  <2>4. \A k \in 1..Len(decided) : decided[k].id # d.id
    BY <1>0, <2>3, DecisionTypes DEF Credentials
  <2>5. \A k \in 1..Len(stack) : stack[k].frame.id # d.id
    BY <1>0, <2>3
  <2>6. /\ stack' \in Seq(Entry) /\ Len(stack') <= Len(stack) /\ Handled' \in Nat
        /\ \A k \in 1..Len(stack') : stack'[k] = stack[k] /\ stack'[k].frame.id # d.id
        /\ Handled <= Handled' /\ d.id <= Handled'
    BY <1>0, <2>1, <2>3, <2>5
  <2> QED BY <1>0, <2>1, <2>2, <2>3, <2>4, <2>6, CredentialsDecided
<1>3. CASE CloseDialog
  <2> DEFINE n == Len(stack)
  <2>1. Close
    BY <1>3 DEF CloseDialog, CloseBox, CloseLogin, CloseFile, CloseError, CloseConsent
  <2>2. /\ n \in Nat \ {0} /\ stack' \in Seq(Entry) /\ Len(stack') = n - 1
        /\ \A k \in 1..n - 1 : stack'[k] = stack[k]
        /\ UNCHANGED <<queue, sent>>
    BY <1>0, <2>1, LastLess DEF Close
  <2>3. Handled' = Handled
    BY <2>2 DEF Handled
  <2>4. \A k \in 1..n - 1 : k \in 1..n /\ k < n
    BY <2>2
  <2>5. CASE UNCHANGED <<decided, secure_app>>
    BY <1>0, <2>2, <2>3, <2>5, NothingDecided
  <2>6. ASSUME NEW res \in {"yes", "no"}, CloseConsent(res)
        PROVE  Credentials'
    <3> DEFINE d == [id |-> Top.frame.id, asked |-> TRUE, yes |-> res = "yes"]
    <3>1. /\ Top = stack[n] /\ n \in 1..n /\ Top.frame.kind \in Risky
          /\ decided' = Append(decided, d) /\ secure_app' = Settled(res)
      BY <2>2, <2>6 DEF CloseConsent, Permitted, Top
    <3>2. d \in Decision
      BY <1>0, <3>1 DEF Decision
    <3>3. /\ d.id = stack[n].frame.id /\ d.asked
          /\ Settled(IF d.yes THEN "yes" ELSE "no") = Settled(res)
      BY <3>1 DEF Settled
    <3> HIDE DEF d
    <3>4. \A k \in 1..Len(decided) : decided[k].id # d.id
      BY <3>1, <3>3 DEF Credentials
    <3>5. \A k \in 1..n - 1 : stack'[k].frame.id < d.id /\ stack'[k].frame.id # d.id
      <4> TAKE k \in 1..n - 1
      <4>1. stack'[k] = stack[k] /\ stack[k].frame.id < stack[n].frame.id
        BY <2>2, <2>4, <3>1 DEF Credentials
      <4>2. stack[k].frame.id \in Nat /\ stack[n].frame.id \in Nat
        BY <1>0, <2>4, <3>1, DispatchAssumption DEF DispatchAssumption
      <4> QED BY <3>3, <4>1, <4>2
    <3>6. \A k \in 1..Len(decided) : decided[k].asked => d.id < decided[k].id
      <4>1. n \in Consent(stack) /\ DOMAIN decided = 1..Len(decided)
        BY <1>0, <2>2, <3>1 DEF Consent, TypeOK
      <4> QED BY <3>3, <4>1 DEF Credentials, FirstBoxDecides
    <3>7. \A j \in Consent(stack') : stack'[j].frame.id < d.id
      BY <2>2, <3>5 DEF Consent
    <3>8. d.id <= Handled
      BY <1>0, <3>1, <3>3
    <3>9. /\ n - 1 <= n /\ Handled <= Handled'
          /\ \A k \in 1..Len(stack') : stack'[k] = stack[k] /\ stack'[k].frame.id # d.id
      BY <1>0, <2>2, <2>3, <3>5
    <3> QED BY <1>0, <2>2, <2>3, <3>1, <3>2, <3>3, <3>4, <3>6, <3>7, <3>8, <3>9, CredentialsDecided
  <2> QED BY <1>3, <2>5, <2>6 DEF CloseDialog, CloseBox, CloseLogin, CloseFile, CloseError
<1>4. CASE UNCHANGED <<stack, secure_app, decided>> /\ Handled <= Handled' /\ Handled' \in Nat
  BY <1>0, <1>4, NothingDecided
<1>5. ASSUME Take, sent' = sent
      PROVE  Handled <= Handled' /\ Handled' \in Nat
  BY <1>0, <1>5, Taken
<1>6. ASSUME UNCHANGED <<queue, sent>>
      PROVE  Handled <= Handled' /\ Handled' \in Nat
  BY <1>0, <1>6 DEF Handled
<1>7. ASSUME NEW kind \in Kinds, NEW method \in Methods, ServerSends(kind, method)
      PROVE  Handled <= Handled' /\ Handled' \in Nat
  <2> DEFINE f == [id |-> Len(sent) + 1, kind |-> kind, method |-> method, text |-> Posted]
  <2>1. f \in Frame /\ sent \in Seq(Frame) /\ queue \in Seq(Frame)
    BY <1>7, SendingFrame DEF HistoryTypes, TypeOK
  <2>2. sent' = Append(sent, f) /\ queue' = Append(queue, f)
    BY <1>7 DEF ServerSends
  <2> HIDE DEF f
  <2>3. Len(sent') = Len(sent) + 1 /\ Len(queue') = Len(queue) + 1
    BY <2>1, <2>2, OneMore
  <2>4. Len(sent) \in Nat /\ Len(queue) \in Nat
    BY Counts
  <2> QED BY <1>0, <2>3, <2>4 DEF Handled
<1> QED BY <1>1, <1>2, <1>3, <1>4, <1>5, <1>6, <1>7
        DEF Next, Handle, HandleQuery, HandlePost, HandleLogin, HandleText, HandleRun, HandleQuit,
            HandleCookie, ConsoleButton, Click, ServerSends

-----------------------------------------------------------------------------
(* The theorems *)

\* Before the first frame nothing was asked.
LEMMA InvInit == DispatchAssumption /\ Init => Inv
<1> SUFFICES ASSUME DispatchAssumption, Init PROVE Inv
  OBVIOUS
<1>0. MaxFrames \in Nat
  BY DEF DispatchAssumption
<1>1. TypeOK
  <2>1. 0 \in 0..MaxFrames /\ -1 \in -1..MaxFrames /\ -1 \in -1..1 /\ 0 \in 0..1
    BY <1>0
  <2>2. cw \in [visible : BOOLEAN, started : BOOLEAN,
                login : Seq([frame : Frame, text : 0..MaxFrames])]
    BY DEF Init
  <2>3. closeEvent \in [clicked : 0..1, last : -1..MaxFrames]
    BY <2>1 DEF Init
  <2>4. queue \in Seq(Frame) /\ stack \in Seq([frame : Frame, text : 0..MaxFrames])
    BY DEF Init
  <2>5. /\ POST_STRING \in 0..MaxFrames /\ POST_TARGET \in 0..MaxFrames
        /\ secure_app \in -1..1 /\ MainForm \in BOOLEAN /\ connected \in BOOLEAN
        /\ CookieList \subseteq 1..MaxFrames /\ disk \subseteq 1..MaxFrames
        /\ exited \in {"no", "clicks", "done"}
    BY <2>1 DEF Init
  <2>6. decided \in Seq(Decision)
    BY DEF Init
  <2> QED BY <2>2, <2>3, <2>4, <2>5, <2>6 DEF TypeOK
<1>2. HistoryTypes /\ Posts
  BY <1>0 DEF Init, HistoryTypes, Posts, LastPost, Handled
<1>3. Dialogs /\ ConsoleLogin /\ Answers
  BY DEF Init, Dialogs, ConsoleLogin, Answers
<1>4. AnswersMatch /\ TextOfTheQuestion /\ OneQuestion
  BY DEF Init, AnswersMatch, TextOfTheQuestion, OneQuestion
<1>5. DialogsCount
  <2>1. CountedOpen = {}
    BY DEF Init, CountedOpen
  <2> QED BY <2>1, FS_EmptySet DEF Init, DialogsCount
<1>6. Ends /\ Clicks
  BY DEF Init, Ends, NoDialogIsCut, Clicks
<1>7. Credentials
  BY DEF Init, Credentials, FirstBoxDecides
<1> QED BY <1>1, <1>2, <1>3, <1>4, <1>5, <1>6, <1>7 DEF Inv

\* Every step keeps the invariant.
LEMMA InvNext == DispatchAssumption /\ Inv /\ Next => Inv'
<1> SUFFICES ASSUME DispatchAssumption, Inv, Next PROVE Inv'
  OBVIOUS
<1>0. /\ TypeOK /\ HistoryTypes /\ Posts /\ Dialogs /\ ConsoleLogin /\ Answers /\ Credentials
      /\ AnswersMatch /\ TextOfTheQuestion /\ OneQuestion /\ DialogsCount /\ Ends /\ Clicks
  BY DEF Inv
<1>1. TypeOK'
  BY <1>0, TypesStep
<1>2. Posts' /\ sent' \in Seq(Frame) /\ Len(sent') <= MaxFrames
  BY <1>0, PostsStep
<1>3. Questioning' /\ MessageStack' \in Seq(AnswerType)
  BY <1>0, QuestioningStep DEF Questioning, Places, AnswersSound
<1>4. /\ Dialogs' /\ ConsoleLogin' /\ Answers'
      /\ AnswersMatch' /\ TextOfTheQuestion' /\ OneQuestion'
  BY <1>3 DEF Questioning, Places, AnswersSound
<1>5. DialogsCount'
  BY <1>0, CountStep
<1>6. Ends'
  BY <1>0, <1>1, <1>4, <1>5, EndsStep
<1>7. Clicks' /\ clicklog' \in Seq(0..MaxFrames)
  BY <1>0, ClicksStep
<1>8. Credentials'
  BY <1>0, CredentialsStep
<1> QED BY <1>1, <1>2, <1>3, <1>4, <1>5, <1>6, <1>7, <1>8 DEF Inv, HistoryTypes

\* So does one that changes nothing.
LEMMA InvStays == Inv /\ UNCHANGED vars => Inv'
BY SMTT(30) DEF Inv, vars, ends, TypeOK, HistoryTypes, Posts, LastPost, Handled, Dialogs, OfItsFrame,
       ConsoleLogin, Answers, AnswersMatch, TextOfTheQuestion, OneQuestion, Answered,
       DialogsCount, CountedOpen, Ends, NoDialogIsCut, Clicks, ThreeClicks, Credentials,
       FirstBoxDecides, LastBox, Consent

\* What the invariant says of the answers and of the end.
LEMMA InvImplies ==
  ASSUME Inv
  PROVE  /\ TypeOK /\ AnswersMatch /\ TextOfTheQuestion
         /\ NoDialogIsCut /\ CookiesAreRemoved /\ ThreeClicks /\ FirstBoxDecides
<1>1. ThreeClicks
  BY DEF Inv, Clicks, ThreeClicks
<1> QED BY <1>1 DEF Inv, Ends, CookiesAreRemoved, Credentials

\* The handlers that run inside each other keep the invariant, for every mix of
\* frames and any number of them, and so do the answers (MESSAGE_CALLBACK).
THEOREM DispatchAlways == Spec => []Inv
<1>1. Init => Inv
  BY InvInit, DispatchAssumption
<1>2. Inv /\ [Next]_vars => Inv'
  BY InvNext, InvStays, DispatchAssumption
<1> QED BY <1>1, <1>2, PTL DEF Spec

\* What was asked for consent is decided by the box shown first, and by nothing that was
\* handled inside it, in every behaviour (CheckCredentials).
THEOREM FirstBoxAlwaysDecides == Spec => []FirstBoxDecides
<1>1. Inv => FirstBoxDecides
  BY DEF Inv, Credentials
<1> QED BY <1>1, DispatchAlways, PTL
=============================================================================
