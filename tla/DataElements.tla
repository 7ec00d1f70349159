---------------------------- MODULE DataElements ----------------------------
(***************************************************************************)
(* The instructions on variables of the code the server sends with an event   *)
(* (CompensationParser.h: Execute from KEY_DELETE to KEY_INDEX_CLOSE).  A     *)
(* variable keeps a number and a text, and its type says which of them        *)
(* counts: what the other holds comes back when the type changes before the  *)
(* operands are read.  Doubles are whole numbers here, and a text has at      *)
(* most one character: an instruction that leaves these bounds is not taken. *)
(* Bits are modelled for the numbers 0 and 1.                                *)
(***************************************************************************)
EXTENDS Integers, FiniteSets

CONSTANTS
  Variables, \* indexes of a context, from 1
  Numbers,   \* bound: what nval may hold
  Letter     \* a text that is no number

ASSUME DataAssumption ==
  /\ Variables \subseteq Nat \ {0} /\ IsFiniteSet(Variables)
  /\ Numbers = 0..1
  /\ Letter \notin {"", "0", "1", "number", "string"}

None == 0   \* -1 in the code
Texts == {"", "0", "1", Letter}
Element == [type : {"number", "string"}, nval : Numbers, value : Texts]

VARIABLES context, end   \* end: "" while it goes on, "err", "outside" after a write before the context

vars == <<context, end>>

Init == context = [v \in Variables |-> [type |-> "number", nval |-> 0, value |-> ""]] /\ end = ""

Bit(b) == IF b THEN 1 ELSE 0

-----------------------------------------------------------------------------
(* Conversions *)

ToFloat(s) == IF s = "1" THEN 1 ELSE 0
Printed(n) == IF n = 1 THEN "1" ELSE "0"
Number(e) == IF e.type = "number" THEN e.nval ELSE ToFloat(e.value)
Text(e) == IF e.type = "number" THEN Printed(e.nval) ELSE e.value
Truth(e) == IF e.type = "number" THEN e.nval # 0 ELSE e.value # ""
Before(s, t) == <<s, t>> \in {<<"0", "1">>, <<"0", Letter>>, <<"1", Letter>>} \/ (s = "" /\ t # "")

\* strcmp of two texts, as < and > (which want -1 and 1), <= and >= use it.  c_str of an
\* empty text is NULL, and so is Data of a text that never had a character.
Strcmp(op, s, t) ==
  IF t = "" THEN {FALSE}
  ELSE CASE op = "<" -> {FALSE, Before(s, t)}
         [] op = ">" -> {FALSE, Before(t, s)}
         [] op = "<=" -> {~Before(t, s)} \cup (IF s = "" THEN {FALSE} ELSE {})
         [] op = ">=" -> {~Before(s, t)}

Related(op, m, n) ==
  CASE op = "<" -> m < n [] op = "<=" -> m <= n [] op = ">" -> m > n [] op = ">=" -> m >= n

-----------------------------------------------------------------------------
(* What an operator makes of two operands: the values the build may give *)

\* Mutant: the text on the right of <= is compared strictly.
OrderedStrictly(op, x, y) ==
  IF x.type = "number" THEN {Related(op, x.nval, Number(y))}
  ELSE Strcmp(IF op = "<=" THEN "<" ELSE op, x.value, Text(y))

Ordered(op, x, y) ==
  IF x.type = "number" THEN {Related(op, x.nval, Number(y))} ELSE Strcmp(op, x.value, Text(y))

Same(op, x, y) ==
  LET equal == IF x.type = "number" THEN x.nval = Number(y) ELSE x.value = Text(y) IN
    {IF op = "==" THEN equal ELSE ~equal}

Joined(op, x, y) == {IF op = "&&" THEN Truth(x) /\ Truth(y) ELSE Truth(x) \/ Truth(y)}

\* Numbers only, unless "texts" lets the right one be a text.
Bits(op, m, n) ==
  CASE op = "<<" -> m * (n + 1) [] op = ">>" -> IF n = 0 THEN m ELSE 0
    [] op = "&" -> m * n [] op = "|" -> IF m + n > 0 THEN 1 ELSE 0 [] op = "^" -> (m + n) % 2

\* A fraction is out of bounds: 1 is the only divisor.
Arithmetic(op, m, n) ==
  CASE op = "/" -> m [] op = "%" -> 0 [] op = "*" -> m * n [] op = "-" -> m - n [] op = "+" -> m + n

Relations == {"<", "<=", ">", ">="}
Equalities == {"==", "!="}
Logical == {"&&", "||"}
Bitwise == {"<<", ">>", "&", "^", "|"}
Divisions == {"/", "%"}
Multiplicative == {"/", "%", "*", "-"}

-----------------------------------------------------------------------------
(* The instructions *)

Go(c) == {[context |-> c, end |-> ""]}
Fail(c) == {[context |-> c, end |-> "err"]}
Outside(c) == {[context |-> c, end |-> "outside"]}

\* Mutant: a number is kept whatever it is.
GivesAny(c, v, n) == Go([c EXCEPT ![v].nval = n])

Gives(c, v, n) == IF n \in Numbers THEN Go([c EXCEPT ![v].nval = n]) ELSE {}
Reads(c, v, s) == IF s \in Texts THEN Go([c EXCEPT ![v].value = s]) ELSE {}

\* Mutant: and its number is cleared.
RetypedAfresh(c, v, t) == [c EXCEPT ![v].type = t, ![v].nval = 0]

\* The type of the result is written before the operands are read.
Retyped(c, v, t) == [c EXCEPT ![v].type = t]

Truths(c, i, bs) == UNION {Gives(c, i.res, Bit(b)) : b \in bs}

Relation(c, i) == LET d == Retyped(c, i.res, "number") IN Truths(d, i, Ordered(i.op, d[i.l], d[i.r]))
Equality(c, i) == LET d == Retyped(c, i.res, "number") IN Truths(d, i, Same(i.op, d[i.l], d[i.r]))
Logic(c, i) == LET d == Retyped(c, i.res, "number") IN Truths(d, i, Joined(i.op, d[i.l], d[i.r]))

BitsOf(c, i) ==
  LET d == Retyped(c, i.res, "number") IN
    IF d[i.l].type # "number" \/ d[i.r].type # "number" THEN Fail(d)
    ELSE Gives(d, i.res, Bits(i.op, d[i.l].nval, d[i.r].nval))

\* Mutant: a converted text becomes a number.
ConvertedFully(c, v) ==
  IF c[v].type = "string" THEN [c EXCEPT ![v].nval = ToFloat(c[v].value), ![v].type = "number"] ELSE c

\* A text on the right leaves its number in nval.
Converted(c, v) == IF c[v].type = "string" THEN [c EXCEPT ![v].nval = ToFloat(c[v].value)] ELSE c

\* KEY_DIV, KEY_REM, KEY_MUL, KEY_DIF.
Product(c, i) ==
  LET d == Retyped(c, i.res, "number")
      e == IF i.op \in Divisions THEN Converted(d, i.r) ELSE d IN
    IF e[i.l].type # "number" \/ (i.op \in Divisions /\ Number(e[i.r]) = 0) THEN Fail(e)
    ELSE Gives(e, i.res, Arithmetic(i.op, e[i.l].nval, Number(e[i.r])))

\* KEY_SUM of two operands; of one, the result keeps what it had.
Sum(c, i) ==
  IF i.l = None THEN IF c[i.r].type = "number" THEN Go(c) ELSE Fail(c)
  ELSE LET d == Retyped(c, i.res, c[i.l].type) IN
         IF c[i.l].type = "number" THEN Gives(d, i.res, d[i.l].nval + Number(d[i.r]))
         ELSE IF d[i.l].value = "" THEN Reads(d, i.res, Text(d[i.r]))
         ELSE IF Text(d[i.r]) = "" THEN Reads(d, i.res, d[i.l].value) ELSE {}

\* KEY_INDEX_OPEN: the character at a place, nothing when there is none.
Index(c, i) ==
  IF c[i.l].type # "string" THEN Fail(c)
  ELSE LET d == Retyped(c, i.res, "string") IN
         Reads(d, i.res, IF Number(d[i.r]) = 0 THEN d[i.l].value ELSE "")

\* KEY_TYPE_OF, KEY_LENGTH, KEY_VALUE, KEY_NOT; "string" and "numeric" count as a letter.
Unary(c, i) ==
  LET d == Retyped(c, i.res, IF i.op = "typeof" THEN "string" ELSE "number")
      x == d[i.r] IN
    CASE i.op = "typeof" -> Reads(d, i.res, Letter)
      [] i.op = "length" -> IF x.type = "number" THEN Fail(d) ELSE Gives(d, i.res, Bit(x.value # ""))
      [] i.op = "value" -> Gives(d, i.res, Number(x))
      [] i.op = "!" -> Gives(d, i.res, Bit(~Truth(x)))

Delete(c, i) == Go([c EXCEPT ![i.r].type = "number", ![i.r].nval = 0])

\* KEY_INC, KEY_DEC: of the variable on the left the old number is the result, of the one
\* on the right the new one.
Inc(c, i) ==
  LET v == IF i.l # None THEN i.l ELSE i.r
      n == c[v].nval + (IF i.op = "++" THEN 1 ELSE -1)
      ShownAs(d, m) == IF i.res = None THEN d ELSE [d EXCEPT ![i.res].type = "number", ![i.res].nval = m] IN
    IF c[v].type # "number" THEN Fail(c)
    ELSE IF n \notin Numbers THEN {}
    ELSE IF i.l # None THEN Go([ShownAs(c, c[v].nval) EXCEPT ![v].nval = n])
    ELSE Go(ShownAs([c EXCEPT ![v].nval = n], n))

\* Mutant: the result gets its type and no number.
AssignLeft(c, i) ==
  IF i.res = None THEN Outside(c)
  ELSE LET d == Retyped(c, i.res, c[i.r].type) IN
         Go(IF d[i.r].type = "number" THEN [d EXCEPT ![i.l].nval = d[i.r].nval]
            ELSE [d EXCEPT ![i.l].value = d[i.r].value])

\* KEY_ASG, KEY_BY_REF: the type is given to the result, the contents to the left.
Assign(c, i) ==
  IF i.res = None THEN Outside(c)
  ELSE LET d == Retyped(c, i.res, c[i.r].type)
           e == IF d[i.r].type = "number" THEN [d EXCEPT ![i.l].nval = d[i.r].nval]
                ELSE [d EXCEPT ![i.l].value = d[i.r].value] IN
         Go([e EXCEPT ![i.res].nval = e[i.l].nval])

\* The result of a compound assignment is the number of the left.
Shown(c, i) == IF i.res = None THEN c ELSE [c EXCEPT ![i.res].nval = c[i.l].nval]

\* KEY_ASU: only a text on the left writes the type of the result.
AddTo(c, i) ==
  IF c[i.l].type = "number"
    THEN LET n == c[i.l].nval + Number(c[i.r]) IN
           IF n \in Numbers THEN Go(Shown([c EXCEPT ![i.l].nval = n], i)) ELSE {}
  ELSE IF i.res = None THEN Outside(c)
  ELSE LET d == Retyped(c, i.res, "string")
           s == Text(d[i.r]) IN
         IF s # "" /\ d[i.l].value # "" THEN {}
         ELSE Go(Shown([d EXCEPT ![i.l].value = IF s = "" THEN @ ELSE s], i))

\* KEY_ADI to KEY_ASR.
Compound(c, i, op) ==
  IF i.res = None THEN Outside(c)
  ELSE LET d == Retyped(c, i.res, "number")
           e == IF op \in {"*", "-"} THEN d ELSE Converted(d, i.r)
           m == e[i.l].nval
           k == IF op \in {"*", "-"} THEN Number(e[i.r]) ELSE e[i.r].nval
           n == IF op \in Bitwise THEN Bits(op, m, k) ELSE Arithmetic(op, m, k) IN
         IF d[i.l].type # "number" THEN Fail(d)
         ELSE IF op \in Divisions /\ k = 0 THEN Fail(e)
         ELSE IF n \in Numbers THEN Go(Shown([e EXCEPT ![i.l].nval = n], i)) ELSE {}

CompoundOf == [o \in {"-=", "/=", "%=", "*=", "&=", "^=", "|=", "<<=", ">>="} |->
  CASE o = "-=" -> "-" [] o = "/=" -> "/" [] o = "%=" -> "%" [] o = "*=" -> "*" [] o = "&=" -> "&"
    [] o = "^=" -> "^" [] o = "|=" -> "|" [] o = "<<=" -> "<<" [] o = ">>=" -> ">>"]

\* A simple assignment (op -2).
Copy(c, i) ==
  LET d == Retyped(c, i.res, c[i.l].type) IN
    IF d[i.l].type = "number" THEN Go([d EXCEPT ![i.res].nval = d[i.l].nval])
    ELSE Go([d EXCEPT ![i.res].value = d[i.l].value])

-----------------------------------------------------------------------------
Binary == Relations \cup Equalities \cup Logical \cup Bitwise \cup Multiplicative \cup {"+", "[]"}
UnaryOps == {"typeof", "length", "value", "!"}
Assignments == {"=", "+="} \cup DOMAIN CompoundOf

\* What the parser makes of a well-formed line.
Instructions ==
       [op : Binary \cup Assignments, res : Variables \cup {None}, l : Variables, r : Variables]
  \cup [op : UnaryOps \cup {"+"}, res : Variables, l : {None}, r : Variables]
  \cup [op : {"++", "--"}, res : Variables \cup {None}, l : {None}, r : Variables]
  \cup [op : {"++", "--"}, res : Variables \cup {None}, l : Variables, r : {None}]
  \cup [op : {"del"}, res : {None}, l : {None}, r : Variables]
  \cup [op : {"copy"}, res : Variables, l : Variables, r : {None}]

\* What instruction i may leave of context c; without a result an operator is skipped.
Outcomes(c, i) ==
  CASE i.op \in Binary \cup UnaryOps /\ i.res = None -> Go(c)
    [] i.op \in Relations /\ i.res # None -> Relation(c, i)
    [] i.op \in Equalities /\ i.res # None -> Equality(c, i)
    [] i.op \in Logical /\ i.res # None -> Logic(c, i)
    [] i.op \in Bitwise /\ i.res # None -> BitsOf(c, i)
    [] i.op \in Multiplicative /\ i.res # None -> Product(c, i)
    [] i.op = "+" /\ i.res # None -> Sum(c, i)
    [] i.op = "[]" /\ i.res # None -> Index(c, i)
    [] i.op \in UnaryOps /\ i.res # None -> Unary(c, i)
    [] i.op = "del" -> Delete(c, i)
    [] i.op \in {"++", "--"} -> Inc(c, i)
    [] i.op = "=" -> Assign(c, i)
    [] i.op = "+=" -> AddTo(c, i)
    [] i.op \in DOMAIN CompoundOf -> Compound(c, i, CompoundOf[i.op])
    [] i.op = "copy" -> Copy(c, i)

Step(i) ==
  /\ end = ""
  /\ \E o \in Outcomes(context, i) : context' = o.context /\ end' = o.end

Next == \E i \in Instructions : Step(i)

Spec == Init /\ [][Next]_vars

-----------------------------------------------------------------------------
(* Properties *)

TypeOK == context \in [Variables -> Element] /\ end \in {"", "err", "outside"}

\* What a variable is for the code.
Seen(e) == IF e.type = "number" THEN <<"number", e.nval>> ELSE <<"string", e.value>>

\* An instruction changes its result, what it assigns to or counts up, and nothing else
\* that the code can see, although operands are converted in their place.
OthersAreKept ==
  \A i \in Instructions : \A o \in Outcomes(context, i) :
    \A v \in Variables \ {i.res} :
      \/ Seen(o.context[v]) = Seen(context[v])
      \/ i.op \in Assignments /\ v = i.l
      \/ i.op \in {"++", "--", "del"} /\ v \in {i.l, i.r}

\* Where the result may be taken for an operand: when that is a text, or when it is
\* another operand's turn to be read as the type of the left.  A plus of one operand gives
\* no result.
Confused(c, i) ==
  \/ i.res = i.r /\ (c[i.r].type = "string" \/ (i.l # None /\ i.op \in {"+", "[]"} /\ c[i.l].type = "string"))
  \/ i.res = i.l /\ c[i.l].type = "string"
  \/ i.op = "+" /\ i.l = None

\* Operators give the same when the result is one of the operands as when it is a
\* variable of its own, except for texts.
ResultMayBeAnOperand ==
  \A i \in Instructions : i.op \in Binary \cup UnaryOps /\ i.res \in {i.l, i.r} \ {None} /\ ~Confused(context, i) =>
    \A v \in Variables \ {i.l, i.r} :
      {<<o.end, Seen(o.context[i.res])>> : o \in {q \in Outcomes(context, i) : q.end = ""}} =
      {<<o.end, Seen(o.context[v])>> : o \in {q \in Outcomes(context, [i EXCEPT !.res = v]) : q.end = ""}}

\* In a chain of assignments each variable gets the value, when value and variable are numbers.
AssignmentCopies ==
  \A i \in Instructions :
    /\ i.op = "=" /\ i.res # None /\ context[i.l].type = "number" /\ context[i.r].type = "number" =>
         \A o \in Outcomes(context, i) : {Seen(o.context[v]) : v \in {i.res, i.l}} = {Seen(context[i.r])}
    /\ i.op = "copy" /\ i.res # i.l =>
         \A o \in Outcomes(context, i) : Seen(o.context[i.res]) = Seen(context[i.l])

\* What < and <= say is never against each other or against == and !=, and numbers and
\* texts that are not empty are always ordered, although < and > of texts may say no.
ComparisonsAgree ==
  \A v, w \in Variables :
    LET x == context[v]
        y == context[w]
        empty == x.type = "string" /\ (x.value = "" \/ Text(y) = "") IN
      /\ Same("!=", x, y) = {~b : b \in Same("==", x, y)}
      /\ TRUE \in Ordered("<", x, y) =>
           /\ TRUE \in Ordered("<=", x, y) /\ (~empty => Ordered("<=", x, y) = {TRUE})
           /\ Ordered(">=", x, y) = {FALSE} /\ Same("==", x, y) = {FALSE}
      /\ Ordered("<=", x, y) = {TRUE} /\ Ordered(">=", x, y) = {TRUE} => Same("==", x, y) = {TRUE}
      /\ ~empty => Ordered("<=", x, y) \cup Ordered(">=", x, y) # {FALSE}
      /\ x.type = "number" => Ordered("<", x, y) = {~b : b \in Ordered(">=", x, y)}
=============================================================================
