------------------------------ MODULE Dispatch ------------------------------
(***************************************************************************)
(* MESSAGE_CALLBACK (callback.cpp): the user interface thread handles the   *)
(* frames of the queue one after the other, except that a modal dialog runs  *)
(* the event loop inside its handler: frames that arrive meanwhile are       *)
(* handled before that handler goes on.  A text for a question travels in a  *)
(* frame of its own and waits in a register that all handlers share.         *)
(***************************************************************************)
EXTENDS Integers, Sequences

CONSTANTS
  Kinds,       \* the kinds of frames the server sends
  Methods,     \* how a login is to be hashed
  Sequential,  \* whether the server waits for the answer to a question
  MaxFrames,   \* bound: frames the server sends
  MaxClicks    \* bound: clicks on the close button of the main window

\* What asks CheckCredentials for consent.
Risky == {"command", "environment"}

\* Dialogs counted in dialogs, and those of the system, which are not.  The dialogs for
\* colours and fonts are like "open": not counted, one answer, and what they show is
\* their own.
Counted     == {"box", "yesno", "login", "input", "generic", "error"} \cup Risky
FileDialogs == {"save", "open"}

\* What has an answer.  MSG_OS_COMMAND, like a message box, has none.
Questions ==
  {"yesno", "login", "input", "generic", "environment", "query", "unknown", "cookieChunk"}
  \cup FileDialogs

AllKinds == Counted \cup Questions \cup {"text", "run", "post", "cookie", "quit"}

ASSUME DispatchAssumption ==
  /\ Kinds \subseteq AllKinds
  /\ Methods \subseteq {"MD5", "SHA1", "SHA256", "PLAIN", "none", "other"} /\ Methods # {}
  /\ Sequential \in BOOLEAN
  /\ MaxFrames \in Nat /\ MaxClicks \in Nat

\* text is the last MSG_POST_STRING the server sent before this frame, 0 if none.
Frame == [id : 1..MaxFrames, kind : Kinds, method : Methods, text : 0..MaxFrames]

\* How a risky request was decided, with a box of its own or without.
Decision == [id : 1..MaxFrames, asked : BOOLEAN, yes : BOOLEAN]

VARIABLES
  queue,        \* frames received and not handled
  stack,        \* the handlers that wait for their dialog, the topmost last
  dialogs,      \* the number of modal dialogs, as the code counts them
  POST_STRING,  \* the frame whose value the register holds, 0 if none
  POST_TARGET,  \* the frame whose target the register holds
  secure_app,   \* the static of CheckCredentials: -1 not settled, 0 no, 1 yes
  cw,           \* the console window: visible, started, the login it shows
  MainForm,     \* whether there is a main window
  CookieList,   \* files to remove at the end
  disk,         \* cookie files that exist
  connected,    \* whether CLIENT_SOCKET is open
  closeEvent,   \* the statics of closeEvent: close_clicked_count, last_message
  exited,       \* how the program ended: "no", "clicks", "done"
  sent,         \* history: the frames the server sent
  MessageStack, \* history: the answers
  decided,      \* history: how the risky requests were decided
  clicklog      \* history: how many frames had come at each click

ends == <<CookieList, disk, connected, exited>>
vars == <<queue, stack, dialogs, POST_STRING, POST_TARGET, secure_app, cw, MainForm, ends,
          closeEvent, sent, MessageStack, decided, clicklog>>

Init ==
  /\ queue = <<>> /\ stack = <<>> /\ dialogs = 0
  /\ POST_STRING = 0 /\ POST_TARGET = 0 /\ secure_app = -1
  /\ cw = [visible |-> TRUE, started |-> FALSE, login |-> <<>>] /\ MainForm = FALSE
  /\ CookieList = {} /\ disk = {} /\ connected = TRUE /\ exited = "no"
  /\ closeEvent = [clicked |-> 0, last |-> -1]
  /\ sent = <<>> /\ MessageStack = <<>> /\ decided = <<>> /\ clicklog = <<>>

-----------------------------------------------------------------------------
(* Answers: shown is the text the user saw, used what was read from a register *)
(* when the dialog was closed, -1 if nothing was.                             *)

Answer(f, part, res, shown, used) ==
  [id |-> f.id, part |-> part, res |-> res, shown |-> shown, used |-> used]

\* SendMessageNoWait.
Reply(answers) == MessageStack' = MessageStack \o answers
NoReply == UNCHANGED MessageStack

\* The user's name and the hash of the password, which is salted unless it goes as
\* it is.  The dialog, not the console, takes an empty method for PLAIN.
Salted(f, console) == f.method # "PLAIN" /\ (console \/ f.method # "none")

\* Mutant: the name before the method.
LoginSwapped(f, res, shown, console) ==
  <<Answer(f, 2, res, shown, IF Salted(f, console) THEN POST_TARGET ELSE -1),
    Answer(f, 1, res, shown, -1)>>

LoginAnswers(f, res, shown, console) ==
  <<Answer(f, 1, res, shown, -1),
    Answer(f, 2, res, shown, IF Salted(f, console) THEN POST_TARGET ELSE -1)>>

\* Mutant: the files are left.
DoneLeaving(reason, open) ==
  /\ connected' = FALSE
  /\ exited' = IF open <= 0 THEN reason ELSE exited
  /\ UNCHANGED <<CookieList, disk>>

\* Done, forced: the connection is closed and the cookies are removed; the program
\* does not exit while it counts a dialog.
Done(reason, open) ==
  /\ connected' = FALSE
  /\ exited' = IF open <= 0 THEN reason ELSE exited
  /\ disk' = disk \ CookieList
  /\ UNCHANGED CookieList

-----------------------------------------------------------------------------
(* Handlers that open a dialog *)

First == queue[1]
Take == exited = "no" /\ queue # <<>> /\ queue' = Tail(queue)

\* CheckCredentials asks until it has an answer.
Asks == secure_app < 0

Opens(f) ==
  \/ f.kind \in {"box", "yesno", "input", "generic", "error"} \cup FileDialogs
  \/ f.kind \in Risky /\ Asks
  \/ f.kind = "login" /\ ~cw.visible

\* Mutant: one kind of dialog is not counted.
CountedButOne(f) == IF f.kind \in Counted \ {"input"} THEN 1 ELSE 0

Weight(f) == IF f.kind \in Counted THEN 1 ELSE 0

OpenDialog ==
  /\ Take /\ Opens(First)
  /\ stack' = Append(stack, [frame |-> First, text |-> POST_STRING])
  /\ dialogs' = dialogs + Weight(First)
  /\ UNCHANGED <<POST_STRING, POST_TARGET, secure_app, cw, MainForm, ends, closeEvent, sent,
                 MessageStack, decided, clicklog>>

(* ... and what they do when it is closed.  Only the topmost can be. *)

Top == stack[Len(stack)]

Close ==
  /\ exited = "no" /\ stack # <<>>
  /\ stack' = SubSeq(stack, 1, Len(stack) - 1)
  /\ dialogs' = dialogs - Weight(Top.frame)
  /\ UNCHANGED <<queue, POST_STRING, POST_TARGET, cw, MainForm, closeEvent, sent, clicklog>>

\* Mutant: the text is read when the dialog is closed.
ShownLate == POST_STRING

Shown == Top.text

\* Mutant: only the first button answers.
CloseBoxYesOnly(res) ==
  /\ Close /\ Top.frame.kind \in {"box", "yesno", "input", "generic"}
  /\ IF Top.frame.kind = "box" \/ res = "no" THEN NoReply
     ELSE Reply(<<Answer(Top.frame, 1, res, Shown, -1)>>)
  /\ UNCHANGED <<secure_app, ends, decided>>

\* A message box says nothing, the other boxes answer with the button.
CloseBox(res) ==
  /\ Close /\ Top.frame.kind \in {"box", "yesno", "input", "generic"}
  /\ IF Top.frame.kind = "box" THEN NoReply
     ELSE Reply(<<Answer(Top.frame, 1, res, Shown, -1)>>)
  /\ UNCHANGED <<secure_app, ends, decided>>

CloseLogin(res) ==
  /\ Close /\ Top.frame.kind = "login"
  /\ Reply(LoginAnswers(Top.frame, res, Shown, FALSE))
  /\ UNCHANGED <<secure_app, ends, decided>>

\* MSG_SAVE_FILE writes the text in POST_STRING to the chosen file.
CloseFile(res) ==
  /\ Close /\ Top.frame.kind \in FileDialogs
  /\ Reply(<<Answer(Top.frame, 1, res, Shown,
                    IF Top.frame.kind = "save" /\ res = "yes" THEN POST_STRING ELSE -1)>>)
  /\ UNCHANGED <<secure_app, ends, decided>>

\* MSG_RAISE_ERROR: Abort ends the program, if no other dialog is open.
CloseError(res) ==
  /\ Close /\ Top.frame.kind = "error"
  /\ IF res = "no" THEN Done("done", dialogs - 1) ELSE UNCHANGED ends
  /\ NoReply
  /\ UNCHANGED <<secure_app, decided>>

\* What CheckCredentials permits is done; without consent there is no answer.
Permitted(f, asked, yes) ==
  /\ decided' = Append(decided, [id |-> f.id, asked |-> asked, yes |-> yes])
  /\ IF yes /\ f.kind = "environment" THEN Reply(<<Answer(f, 1, "yes", POST_STRING, -1)>>)
     ELSE NoReply

\* Mutant: the value of the button instead of a truth value.
ButtonValue(res) == IF res = "yes" THEN 16384 ELSE 65536

\* Mutant: the answer to the first box that is closed is kept.
SettledFirst(res) == IF secure_app # -1 THEN secure_app ELSE IF res = "yes" THEN 1 ELSE 0

Settled(res) == IF res = "yes" THEN 1 ELSE 0

CloseConsent(res) ==
  /\ Close /\ Top.frame.kind \in Risky
  /\ secure_app' = Settled(res)
  /\ Permitted(Top.frame, TRUE, res = "yes")
  /\ UNCHANGED ends

CloseDialog ==
  \E res \in {"yes", "no"} :
    CloseBox(res) \/ CloseLogin(res) \/ CloseFile(res) \/ CloseError(res) \/ CloseConsent(res)

-----------------------------------------------------------------------------
(* Handlers that open none *)

\* MSG_CLIENT_QUERY answers at once; so does the default case, with what it got.
HandleQuery ==
  /\ Take /\ First.kind \in {"query", "unknown"}
  /\ Reply(<<Answer(First, 1, "yes", First.text, -1)>>)
  /\ UNCHANGED <<stack, dialogs, POST_STRING, POST_TARGET, secure_app, cw, MainForm, ends,
                 closeEvent, sent, decided, clicklog>>

HandleRisky ==
  /\ Take /\ First.kind \in Risky /\ ~Asks
  /\ Permitted(First, FALSE, secure_app = 1)
  /\ UNCHANGED <<stack, dialogs, POST_STRING, POST_TARGET, secure_app, cw, MainForm, ends,
                 closeEvent, sent, clicklog>>

\* Mutant: the target is not taken.
HandlePostHalf ==
  /\ Take /\ First.kind = "post"
  /\ POST_STRING' = First.id
  /\ UNCHANGED <<stack, dialogs, POST_TARGET, secure_app, cw, MainForm, ends, closeEvent, sent,
                 MessageStack, decided, clicklog>>

HandlePost ==
  /\ Take /\ First.kind = "post"
  /\ POST_STRING' = First.id /\ POST_TARGET' = First.id
  /\ UNCHANGED <<stack, dialogs, secure_app, cw, MainForm, ends, closeEvent, sent, MessageStack,
                 decided, clicklog>>

\* A login is shown in the console window while there is no other; it replaces the
\* login shown before.
HandleLogin ==
  /\ Take /\ First.kind = "login" /\ cw.visible
  /\ cw' = [cw EXCEPT !.login = <<[frame |-> First, text |-> POST_STRING]>>]
  /\ UNCHANGED <<stack, dialogs, POST_STRING, POST_TARGET, secure_app, MainForm, ends, closeEvent,
                 sent, MessageStack, decided, clicklog>>

\* MSG_RAW_OUTPUT shows the console, MSG_APPLICATION_RUN hides it.
HandleText ==
  /\ Take /\ First.kind = "text"
  /\ cw' = [cw EXCEPT !.visible = TRUE, !.started = TRUE]
  /\ UNCHANGED <<stack, dialogs, POST_STRING, POST_TARGET, secure_app, MainForm, ends, closeEvent,
                 sent, MessageStack, decided, clicklog>>

HandleRun ==
  /\ Take /\ First.kind = "run"
  /\ cw' = [cw EXCEPT !.visible = FALSE, !.started = TRUE]
  /\ MainForm' = TRUE
  /\ UNCHANGED <<stack, dialogs, POST_STRING, POST_TARGET, secure_app, ends, closeEvent, sent,
                 MessageStack, decided, clicklog>>

HandleQuit ==
  /\ Take /\ First.kind = "quit"
  /\ Done("done", dialogs)
  /\ MainForm' = FALSE
  /\ cw' = [cw EXCEPT !.visible = @ /\ cw.started]
  /\ UNCHANGED <<stack, dialogs, POST_STRING, POST_TARGET, secure_app, closeEvent, sent,
                 MessageStack, decided, clicklog>>

\* MSG_SEND_COOKIE_CHUNK answers with a handle and goes on into MSG_SEND_COOKIE,
\* which writes the same file and lists it again.
HandleCookie ==
  /\ Take /\ First.kind \in {"cookie", "cookieChunk"}
  /\ CookieList' = CookieList \cup {First.id} /\ disk' = disk \cup {First.id}
  /\ IF First.kind = "cookieChunk" THEN Reply(<<Answer(First, 1, "yes", First.text, -1)>>)
     ELSE NoReply
  /\ UNCHANGED <<stack, dialogs, POST_STRING, POST_TARGET, secure_app, cw, MainForm, connected,
                 exited, closeEvent, sent, decided, clicklog>>

-----------------------------------------------------------------------------
(* The user, outside of dialogs *)

\* on_CancelButton_clicked: the other methods answer as the OK button does.
CancelAnswer(f) == IF f.method \in {"MD5", "SHA1"} THEN "no" ELSE "yes"

ConsoleButton ==
  /\ exited = "no" /\ stack = <<>> /\ cw.visible /\ cw.login # <<>>
  /\ LET login == cw.login[1] IN
     \E res \in {"yes", CancelAnswer(login.frame)} :
       Reply(LoginAnswers(login.frame, res, login.text, TRUE))
  /\ cw' = [cw EXCEPT !.login = <<>>]
  /\ UNCHANGED <<queue, stack, dialogs, POST_STRING, POST_TARGET, secure_app, MainForm, ends,
                 closeEvent, sent, decided, clicklog>>

\* Mutant: the frames that came are not looked at.
SilentAnyway == closeEvent.last >= 0

\* last_message is what msg_count was.
Silent == closeEvent.last = Len(sent)

\* closeEvent of the main window, whose form listens to EVENT_ON_DELETEEVENT.
Click ==
  /\ exited = "no" /\ stack = <<>> /\ MainForm /\ Len(clicklog) < MaxClicks
  /\ clicklog' = Append(clicklog, Len(sent))
  /\ IF ~connected THEN Done("done", dialogs) /\ UNCHANGED closeEvent
     ELSE IF ~Silent
          THEN closeEvent' = [clicked |-> 0, last |-> Len(sent)] /\ UNCHANGED ends
     ELSE IF closeEvent.clicked = 0
          THEN closeEvent' = [closeEvent EXCEPT !.clicked = 1] /\ UNCHANGED ends
     ELSE Done("clicks", dialogs) /\ UNCHANGED closeEvent
  /\ UNCHANGED <<queue, stack, dialogs, POST_STRING, POST_TARGET, secure_app, cw, MainForm, sent,
                 MessageStack, decided>>

-----------------------------------------------------------------------------
(* The server *)

Answered(id) ==
  \E k \in DOMAIN MessageStack : MessageStack[k].id = id
    /\ (sent[id].kind = "login" => MessageStack[k].part = 2)

Posted == IF \E k \in DOMAIN sent : sent[k].kind = "post"
          THEN CHOOSE k \in DOMAIN sent : sent[k].kind = "post" /\
                 \A j \in k + 1..Len(sent) : sent[j].kind # "post"
          ELSE 0

ServerSends(kind, method) ==
  LET f == [id |-> Len(sent) + 1, kind |-> kind, method |-> method, text |-> Posted] IN
  /\ connected /\ exited = "no" /\ Len(sent) < MaxFrames
  /\ Sequential => \A k \in DOMAIN sent : sent[k].kind \in Questions => Answered(k)
  /\ sent' = Append(sent, f) /\ queue' = Append(queue, f)
  /\ UNCHANGED <<stack, dialogs, POST_STRING, POST_TARGET, secure_app, cw, MainForm, ends,
                 closeEvent, MessageStack, decided, clicklog>>

Handle ==
  \/ OpenDialog \/ HandleQuery \/ HandleRisky \/ HandlePost \/ HandleLogin \/ HandleText
  \/ HandleRun \/ HandleQuit \/ HandleCookie

Next ==
  \/ Handle \/ CloseDialog \/ ConsoleButton \/ Click
  \/ \E kind \in Kinds, method \in Methods :
       (kind # "login" => method = CHOOSE m \in Methods : TRUE) /\ ServerSends(kind, method)

\* The event loop runs, and the user closes each dialog in the end.
Fairness == WF_vars(Handle) /\ WF_vars(CloseDialog)

Spec == Init /\ [][Next]_vars
LiveSpec == Spec /\ Fairness

-----------------------------------------------------------------------------
Consent(s) == {k \in DOMAIN s : s[k].frame.kind \in Risky}

TypeOK ==
  /\ queue \in Seq(Frame) /\ stack \in Seq([frame : Frame, text : 0..MaxFrames])
  /\ POST_STRING \in 0..MaxFrames /\ POST_TARGET \in 0..MaxFrames
  /\ secure_app \in -1..1 /\ MainForm \in BOOLEAN /\ connected \in BOOLEAN
  /\ cw \in [visible : BOOLEAN, started : BOOLEAN,
             login : Seq([frame : Frame, text : 0..MaxFrames])]
  /\ CookieList \subseteq 1..MaxFrames /\ disk \subseteq 1..MaxFrames
  /\ exited \in {"no", "clicks", "done"}
  /\ closeEvent \in [clicked : 0..1, last : -1..MaxFrames]
  /\ decided \in Seq(Decision)

\* No question is answered twice, and the two answers of a login stay together.  A
\* server that waits for its answers gets them in the order of its questions,
\* whatever boxes without an answer lie below.
AnswersMatch ==
  \A j, k \in DOMAIN MessageStack : j < k =>
    /\ MessageStack[j].id = MessageStack[k].id =>
         k = j + 1 /\ MessageStack[j].part = 1 /\ MessageStack[k].part = 2
    /\ Sequential => MessageStack[j].id <= MessageStack[k].id

\* A question is shown with the text that was sent for it, however many questions
\* and texts are handled inside its dialog.  What is read only when the dialog is
\* closed, the salt of a login and the content of a saved file, is the right one
\* if the server waits.
TextOfTheQuestion ==
  \A k \in DOMAIN MessageStack :
    LET a == MessageStack[k]
        f == sent[a.id]
    IN
    /\ f.kind # "environment" => a.shown = f.text
    /\ Sequential /\ a.used # -1 => a.used = f.text

\* The j-th decision was made in a box, and the n first have no later one.
LastBox(j, n) == decided[j].asked /\ \A i \in j + 1..n : ~decided[i].asked

\* CheckCredentials may be entered while its box is open: then boxes lie on each other,
\* and the answers overwrite each other as they are closed.  A request handled without a
\* box goes by the box closed last before it, each request is decided once, and of the
\* boxes that were open together the one shown first has the last word: none comes after
\* it, and what it was told stays.
FirstBoxDecides ==
  /\ \A j, k \in DOMAIN decided :
       /\ decided[j].id = decided[k].id => j = k
       /\ j < k /\ decided[j].asked /\ decided[k].asked => decided[k].id < decided[j].id
  /\ \A k \in DOMAIN decided : ~decided[k].asked =>
       \E j \in 1..k - 1 : LastBox(j, k - 1) /\ decided[j].yes = decided[k].yes
  /\ IF decided = <<>> THEN secure_app = -1
     ELSE \E j \in DOMAIN decided :
            LastBox(j, Len(decided)) /\ secure_app = (IF decided[j].yes THEN 1 ELSE 0)
  /\ \A j \in Consent(stack), k \in DOMAIN decided :
       decided[k].asked => stack[j].frame.id < decided[k].id

\* The program does not exit under a dialog whose handler has still to answer; only
\* the file dialogs, which are not counted, can be cut.
NoDialogIsCut ==
  exited # "no" => \A k \in DOMAIN stack : stack[k].frame.kind \in FileDialogs

\* However the program ends, also after a Done that could not exit and frames
\* handled after it, no cookie file of the session is left.
CookiesAreRemoved == exited # "no" => disk \cap CookieList = {} /\ disk \subseteq CookieList

\* While the connection lasts the close button ends the program only when the
\* server was silent during three clicks.
ThreeClicks ==
  exited = "clicks" =>
    LET n == Len(clicklog) IN
    n >= 3 /\ clicklog[n] = clicklog[n - 1] /\ clicklog[n - 1] = clicklog[n - 2]

\* Every question with a box of its own is answered in the end: no dialog below is
\* forgotten.
AnswersCome ==
  \A id \in 1..MaxFrames :
    (id \in DOMAIN sent /\ sent[id].kind \in Questions \ {"login", "environment"}) ~>
      (Answered(id) \/ exited # "no")
=============================================================================
