------------------------- MODULE CompensationParser -------------------------
(***************************************************************************)
(* The interpreter of the code that the server sends along with an event       *)
(* (CompensationParser.h; callback.cpp: SetClientEvent,                       *)
(* compensated_send_message, compensated_wait_message; EventHandler.cpp:      *)
(* on_clicked).  Values are not followed, see DataElements: followed are      *)
(* calls, where a returned value is from, errors, contexts, the answer of a   *)
(* message, and the control a property is read from and written to.  A        *)
(* message that shows a dialog runs the event loop within an instruction: the *)
(* next event then runs on the same interpreter.                              *)
(***************************************************************************)
EXTENDS Integers, Sequences

CONSTANTS
  Controls,     \* buttons, by number
  Packages,     \* what the server may send with an event: [entry, functions]
  MaxFunctions, \* bound: with so many functions in FList the server sends no more
  MaxEvents,    \* bound: events that run code
  MaxCalls,     \* bound: functions that are run
  MaxDepth      \* bound: functions on the stack

None == "none"
Vars == 0..2           \* indexes of a context; 0 is "this"

\* What Parse makes of the code of an event: instructions, functions, and the one to run.
Instruction ==
       [op : {"ask", "wait", "dialog", "throw", "divide"}]
  \cup [op : {"if"}, to : Nat]
  \cup [op : {"return"}, value : BOOLEAN]
  \cup [op : {"call"}, fn : STRING, args : Nat, res : Vars]
  \cup [op : {"sel"}, res : Vars, left : Vars, rid : Int, get : STRING, set : STRING]
  \cup [op : {"assign"}, res : Vars]
Function == [name : STRING, params : Nat, vars : BOOLEAN, code : Seq(Instruction)]

ParserAssumption ==
  /\ Controls \subseteq Nat \ {0}
  /\ MaxFunctions \in Nat /\ MaxEvents \in Nat /\ MaxCalls \in Nat /\ MaxDepth \in Nat
  /\ \A p \in Packages :
       /\ p.functions \in Seq(Function) /\ p.entry # None
       /\ \E k \in DOMAIN p.functions : p.functions[k].name = p.entry

NoRef == [rid |-> -1, left |-> -1, set |-> None]

VARIABLES
  flist,      \* FList: records [name, params, vars, code]
  entry,      \* entry_point of each control
  stack,      \* activations of Execute, the innermost last
  err,
  out,        \* OUT_PARAM: number of the event that asked, 0 when ID is 0
  contexts,   \* contexts that are not destroyed
  calls,      \* history: functions run so far
  ret,        \* history: number of the function that wrote return_value
  asked,      \* history: what each event sent last, "ask", "dialog" or None
  leaked,     \* history: contexts left behind by an instruction without operands
  failed,     \* history: events of which an instruction failed
  paused,     \* history: events that showed a dialog
  aborted,    \* history: events that ended by err
  stale,      \* history: a value was taken that was there before the call
  unanswered, \* history: code that asked was not given its own answer
  crossed     \* history: a property was written to another control than it is read from

code == <<flist, entry>>
machine == <<stack, err, contexts, calls, ret>>
answer == <<out, asked, unanswered>>
errors == <<failed, aborted>>
notes == <<leaked, paused, stale, crossed>>
vars == <<code, machine, answer, errors, notes>>

Init ==
  /\ flist = <<>> /\ entry = [c \in Controls |-> None]
  /\ stack = <<>> /\ err = FALSE /\ contexts = 0 /\ calls = 0 /\ ret = 0
  /\ out = 0 /\ asked = <<>> /\ unanswered = FALSE
  /\ failed = {} /\ aborted = {}
  /\ leaked = 0 /\ paused = {} /\ stale = FALSE /\ crossed = FALSE

-----------------------------------------------------------------------------
(* Functions *)

Named(fs, name) == {k \in DOMAIN fs : fs[k].name = name}

\* Mutant: the last one of that name.
FindLast(fs, name) ==
  IF Named(fs, name) = {} THEN 0 ELSE CHOOSE k \in Named(fs, name) : \A j \in Named(fs, name) : k >= j

\* The first function of that name, 0 when there is none.
Find(fs, name) ==
  IF Named(fs, name) = {} THEN 0 ELSE CHOOSE k \in Named(fs, name) : \A j \in Named(fs, name) : k <= j

Depth == Len(stack)
Top == stack[Depth]
Callers == SubSeq(stack, 1, Depth - 1)
At(phase) == stack # <<>> /\ Top.phase = phase
Code == flist[Top.fn].code
Here == Code[Top.ip]
Is(op) == At("run") /\ Top.ip \in DOMAIN Code /\ Here.op = op

\* The instruction pointer moves on, and the frame on top waits for what the phase says.
Onward(phase) == [stack EXCEPT ![Depth].phase = phase, ![Depth].ip = @ + 1]
InPhase(phase) == [stack EXCEPT ![Depth].phase = phase]

\* DestroyContext, and Execute returns; the event is over with its first function.
Pop(failing) ==
  /\ stack' = Callers /\ contexts' = contexts - 1
  /\ aborted' = IF Top.base /\ failing THEN aborted \cup {Top.act} ELSE aborted

Frame(k, sender, act, base) ==
  [fn |-> k, ip |-> 1, phase |-> "run", sender |-> sender, act |-> act, base |-> base, id |-> calls + 1,
   refs |-> [v \in Vars |-> NoRef], res |-> 0, callee |-> 0]

\* Mutant: return_value is left as it is.
ReturnKept == ret

\* Mutant: off by one.
ReturnNext == calls + 2

\* return_value is set to zero.
ReturnReset == calls + 1

\* Execute with function k on stack s; nothing is run without enough parameters, and
\* nothing of a function without variables.
Execute(s, k, sender, act, base, few) ==
  /\ calls < MaxCalls /\ Len(s) < MaxDepth /\ calls' = calls + 1
  /\ ret' = ReturnReset
  /\ err' = few /\ failed' = IF few THEN failed \cup {act} ELSE failed
  /\ LET t == IF base THEN s ELSE [s EXCEPT ![Len(s)].callee = calls + 1]
         runs == ~few /\ flist[k].vars IN
       /\ stack' = IF runs THEN Append(t, Frame(k, sender, act, base)) ELSE t
       /\ contexts' = IF runs THEN contexts + 1 ELSE contexts

-----------------------------------------------------------------------------
(* The server and the user, while the event loop runs *)

Idle == stack = <<>> \/ At("dialog")

\* SetClientEvent: Parse appends the functions and gives the entry point, which takes the
\* place of a former one.  The slot is connected once more, see Click.
Deliver(c) ==
  /\ Idle /\ Len(flist) < MaxFunctions
  /\ \E p \in Packages :
       flist' = flist \o p.functions /\ entry' = [entry EXCEPT ![c] = p.entry]
  /\ UNCHANGED <<machine, answer, errors, notes>>

\* Mutant: an error of another event is kept.
ErrKept == err

\* NotifyEvent clears err.
ErrCleared == FALSE

\* The slot of the button: the code is run with the number of the control and the data.
\* A slot that is connected more than once runs once more as soon as it has returned: one
\* more Click, with the entry point of that moment.
Click(c) ==
  /\ Idle /\ entry[c] # None /\ Len(asked) < MaxEvents
  /\ asked' = Append(asked, None)
  /\ LET k == Find(flist, entry[c])
         act == Len(asked) + 1
         few == flist[k].params > 2 IN
       IF ErrCleared
         THEN aborted' = aborted \cup {act} /\ UNCHANGED <<machine, failed>>
         ELSE /\ Execute(stack, k, c, act, TRUE, few)
              /\ aborted' = IF few THEN aborted \cup {act} ELSE aborted
  /\ UNCHANGED <<code, out, unanswered, notes>>

-----------------------------------------------------------------------------
(* Instructions *)

\* KEY_OPTIMIZED_IF, KEY_OPTIMIZED_GOTO: which way an "if" goes is open.
Jump ==
  /\ Is("if")
  /\ \E ip \in {Top.ip + 1, Here.to} : stack' = [stack EXCEPT ![Depth].ip = ip]
  /\ UNCHANGED <<code, err, contexts, calls, ret, answer, errors, notes>>

\* KEY_OPTIMIZED_RETURN, with a value or without.
Return ==
  /\ Is("return")
  /\ ret' = IF Here.value THEN Top.id ELSE ret
  /\ Pop(FALSE)
  /\ UNCHANGED <<code, err, calls, answer, failed, notes>>

\* The last instruction was executed, or a jump leads out of the code.
FallOff ==
  /\ At("run") /\ Top.ip \notin DOMAIN Code
  /\ Pop(FALSE)
  /\ UNCHANGED <<code, err, calls, ret, answer, failed, notes>>

\* Mutant: Execute returns and leaves the context.
ThrowOnly ==
  /\ Is("throw")
  /\ err' = TRUE /\ failed' = failed \cup {Top.act}
  /\ stack' = Callers
  /\ aborted' = IF Top.base THEN aborted \cup {Top.act} ELSE aborted
  /\ UNCHANGED <<code, contexts, calls, ret, answer, notes>>

\* KEY_OPTIMIZED_THROW, and every instruction whose operands do not fit.
Throw ==
  /\ Is("throw")
  /\ err' = TRUE /\ failed' = failed \cup {Top.act}
  /\ Pop(TRUE)
  /\ UNCHANGED <<code, calls, ret, answer, notes>>

\* KEY_DIV without an operand returns and leaves the context.
Divide ==
  /\ Is("divide")
  /\ err' = TRUE /\ failed' = failed \cup {Top.act}
  /\ stack' = Callers /\ leaked' = leaked + 1
  /\ aborted' = IF Top.base THEN aborted \cup {Top.act} ELSE aborted
  /\ UNCHANGED <<code, contexts, calls, ret, answer, paused, stale, crossed>>

\* A call; one of a function that is not there is ignored (IgnoreErrors).
Call ==
  /\ Is("call")
  /\ LET k == Find(flist, Here.fn)
         s == [Onward("called") EXCEPT ![Depth].res = Here.res] IN
       IF k = 0 THEN stack' = Onward("run") /\ UNCHANGED <<err, contexts, calls, ret, failed>>
       ELSE Execute(s, k, Top.sender, Top.act, FALSE, Here.args < flist[k].params)
  /\ UNCHANGED <<code, answer, aborted, notes>>

\* Mutant: a control that is not there is not answered for.
AskNobody ==
  /\ Is("ask")
  /\ out' \in {0, Top.act} /\ asked' = [asked EXCEPT ![Top.act] = "ask"]
  /\ stack' = Onward("run")
  /\ UNCHANGED <<code, err, contexts, calls, ret, unanswered, errors, notes>>

\* send_message of MSG_GET_PROPERTY is answered at once, also for a control that is not there.
Ask ==
  /\ Is("ask")
  /\ out' = Top.act /\ asked' = [asked EXCEPT ![Top.act] = "ask"]
  /\ stack' = Onward("run")
  /\ UNCHANGED <<code, err, contexts, calls, ret, unanswered, errors, notes>>

\* wait_message_ID: whatever answer there is is taken.
Wait ==
  /\ Is("wait")
  /\ unanswered' = (unanswered \/ (asked[Top.act] = "ask" /\ out # Top.act))
  /\ out' = 0 /\ asked' = [asked EXCEPT ![Top.act] = None]
  /\ stack' = Onward("run")
  /\ UNCHANGED <<code, err, contexts, calls, ret, errors, notes>>

\* send_message of a message that shows a dialog.
Dialog ==
  /\ Is("dialog")
  /\ out' = 0 /\ asked' = [asked EXCEPT ![Top.act] = "dialog"] /\ paused' = paused \cup {Top.act}
  /\ stack' = Onward("dialog")
  /\ UNCHANGED <<code, err, contexts, calls, ret, unanswered, errors, leaked, stale, crossed>>

\* The dialog is closed; an error that another event left stops this one.
CloseDialog ==
  /\ At("dialog")
  /\ IF err THEN Pop(TRUE) ELSE stack' = InPhase("run") /\ UNCHANGED <<contexts, aborted>>
  /\ UNCHANGED <<code, err, calls, ret, answer, failed, notes>>

-----------------------------------------------------------------------------
(* Properties of objects *)

\* The control a getter is run for.
ReadFrom(frame, left) ==
  IF left >= 0 /\ frame.refs[left].rid >= 0 THEN frame.refs[left].rid ELSE frame.sender

\* Mutant: the objects on the way are not looked at.
WrittenToSender(frame, ref) == IF ref.rid >= 0 THEN ref.rid ELSE frame.sender

\* The control a setter is run for: the first object on the way counts, also without number.
WrittenTo(frame, ref) ==
  IF ref.rid >= 0 THEN ref.rid
  ELSE IF ref.left >= 0 /\ frame.refs[ref.left] # NoRef THEN frame.refs[ref.left].rid
  ELSE frame.sender

\* Whether a property and the object it is of say no number or one that both will use.
Plain(frame, ref) ==
  ref.rid < 0 /\ (ref.left >= 0 /\ frame.refs[ref.left] # NoRef => frame.refs[ref.left].rid >= 0)

\* SetProperty, after variable v of the function on top of s was written; the setter gets
\* one parameter.
SetProperty(s, v) ==
  LET frame == s[Depth]
      ref == frame.refs[v]
      k == Find(flist, ref.set)
      to == WrittenTo(frame, ref) IN
    IF ref.set = None \/ k = 0
      THEN stack' = s /\ UNCHANGED <<err, contexts, calls, ret, failed, crossed>>
      ELSE /\ Execute([s EXCEPT ![Depth].phase = "setting"], k, to, frame.act, FALSE, flist[k].params > 1)
           /\ crossed' = (crossed \/ (Plain(frame, ref) /\ to # ReadFrom(frame, ref.left)))

\* KEY_SEL: the result remembers the instruction; a getter is run, one that is not there is
\* an error.
Select ==
  /\ Is("sel")
  /\ LET s == [Onward("called") EXCEPT ![Depth].res = Here.res,
                  ![Depth].refs[Here.res] = [rid |-> Here.rid, left |-> Here.left, set |-> Here.set]]
         k == Find(flist, Here.get) IN
       IF Here.get = None
         THEN stack' = [s EXCEPT ![Depth].phase = "run"] /\ UNCHANGED <<err, contexts, calls, ret, errors>>
       ELSE IF k = 0 THEN err' = TRUE /\ failed' = failed \cup {Top.act} /\ Pop(TRUE) /\ UNCHANGED <<calls, ret>>
       ELSE /\ Execute(s, k, ReadFrom(s[Depth], Here.left), Top.act, FALSE, flist[k].params > 0)
            /\ UNCHANGED aborted
  /\ UNCHANGED <<code, answer, notes>>

\* An assignment to variable res.
Assign ==
  /\ Is("assign")
  /\ SetProperty(Onward("run"), Here.res)
  /\ UNCHANGED <<code, answer, aborted, leaked, paused, stale>>

\* The called function returned: an error ends the caller too, a value is taken, and set
\* when the result is a property.
Resume ==
  /\ stack # <<>> /\ Top.phase \in {"called", "setting"}
  /\ IF err THEN Pop(TRUE) /\ UNCHANGED <<err, calls, ret, failed, stale, crossed>>
     ELSE /\ UNCHANGED aborted
          /\ IF Top.phase = "setting"
               THEN stack' = InPhase("run") /\ UNCHANGED <<err, contexts, calls, ret, failed, stale, crossed>>
               ELSE /\ stale' = (stale \/ ret < Top.callee)
                    /\ SetProperty(InPhase("run"), Top.res)
  /\ UNCHANGED <<code, answer, leaked, paused>>

Next ==
  \/ \E c \in Controls : Deliver(c) \/ Click(c)
  \/ Jump \/ Return \/ FallOff \/ Throw \/ Divide \/ Call \/ Ask \/ Wait \/ Dialog \/ CloseDialog
  \/ Select \/ Assign \/ Resume

Spec == Init /\ [][Next]_vars

-----------------------------------------------------------------------------
(* Properties *)

Phases == {"run", "called", "setting", "dialog"}

TypeOK ==
  /\ \A k \in DOMAIN flist : flist[k].params \in Nat /\ flist[k].vars \in BOOLEAN
  /\ \A c \in Controls : entry[c] = None \/ Find(flist, entry[c]) > 0
  /\ Len(stack) <= MaxDepth
  /\ \A d \in DOMAIN stack : LET f == stack[d] IN
       /\ f.fn \in DOMAIN flist /\ f.phase \in Phases /\ f.act \in DOMAIN asked /\ f.base \in BOOLEAN
       /\ f.id \in 1..calls /\ f.callee \in 0..calls /\ f.res \in Vars
       /\ d < Len(stack) => f.phase # "run"
  /\ err \in BOOLEAN /\ out \in 0..Len(asked) /\ contexts \in Nat /\ calls \in 0..MaxCalls /\ ret \in 0..calls
  /\ failed \cup aborted \cup paused \subseteq DOMAIN asked

\* A call is given what its function, or one that ran after it, left in return_value, never
\* what was there before.
ResultIsFresh == ~stale

\* An event fails by an instruction of its own, or by one of an event that ran while it
\* showed a dialog; errors of earlier events are forgotten.
EventsFailForAReason ==
  \A a \in aborted : a \in failed \/ (a \in paused /\ \E b \in failed : b > a)

\* Code that asks and then waits gets its own answer, also when a dialog let another event
\* ask before.
AnswerIsMine == ~unanswered

\* On every way out of Execute the context is destroyed, but for a division without operand.
ContextsAreDestroyed == contexts = Len(stack) + leaked

\* A property is written to the control that it is read from, when the objects on the way
\* have their numbers.
WrittenWhereRead == ~crossed

\* A name means the first function that had it, for good: code that the server sends again
\* under the same names, for this control or another and even while a dialog is open,
\* changes neither what an event runs, unless it brings another entry point, nor what the
\* code of an event calls (AddFunction, Find, SetClientEvent).
NamesKeepTheirCode ==
  [][\A k \in DOMAIN flist :
       flist'[Find(flist', flist[k].name)] = flist[Find(flist, flist[k].name)]]_vars
=============================================================================
