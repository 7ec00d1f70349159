------------------------------ MODULE ItemList ------------------------------
(***************************************************************************)
(* The items of a combo box and of an icon view (callback.cpp:               *)
(* MSG_CUSTOM_MESSAGE for CLASS_COMBOBOX and CLASS_ICONVIEW, SetProperty from   *)
(* P_IMAGECOLUMN to P_TOOLTIPCOLUMN; GTKControl.h: TreeData).  The server       *)
(* creates columns of some types and sends a value for each, but an item      *)
(* shows one text and one picture: TreeData remembers in which column they    *)
(* are, and keeps the values until they are placed.                          *)
(*                                                                         *)
(* The server sends the values of an item and then its place; nothing comes   *)
(* between.  A value is told by the column that it is meant for and by the     *)
(* item it was sent with; each names an image that has a picture.             *)
(***************************************************************************)
EXTENDS Integers, Sequences, SequencesExt

CONSTANTS
  Class,      \* "combo" or "icons"
  Types,      \* of columns: "text", "icon", "markup", "hidden", "other"
  Assigned,   \* roles that the server gives a column itself
  MaxColumns, \* bound: columns
  MaxItems,   \* bound: items at once
  MaxWrites   \* bound: items that are sent

ItemListAssumption ==
  /\ Class \in {"combo", "icons"} /\ Types \subseteq {"text", "icon", "markup", "hidden", "other"}
  /\ Assigned \subseteq {"text", "icon", "markup", "hint"}
  /\ MaxColumns \in Nat \ {0} /\ MaxItems \in Nat /\ MaxWrites \in Nat

Absent == -1
Roles == {"text", "icon", "markup", "hidden", "hint"}

VARIABLES
  types,        \* meta: the types of the columns
  role,         \* icon, text, markup, hint, hidden: the column of each
  currentindex, \* where the next value goes
  values,       \* columns: values that have no place yet
  shown,        \* what each item shows
  sent,         \* history: items sent so far
  due,          \* history: what each item should show, and how it was sent
  former,       \* history: hidden is of columns that are gone
  lost          \* history: an item was sent for a place where there is none

columns == <<types, role, former>>
vars == <<columns, currentindex, values, shown, sent, due, lost>>

NoRole == [r \in Roles |-> Absent]

Init ==
  /\ types = <<>> /\ role = NoRole /\ currentindex = 0 /\ values = <<>>
  /\ shown = <<>> /\ sent = 0 /\ due = <<>> /\ former = FALSE /\ lost = FALSE

-----------------------------------------------------------------------------
(* Columns *)

\* Whether a new column gets the role of its type: the first does, but the last hidden one.
TakesRole(type) == (type \in {"text", "icon", "markup"} /\ role[type] < 0) \/ type = "hidden"

\* MSG_CUSTOM_MESSAGE1, for one column of those it adds.
AddColumn ==
  \E type \in Types :
    /\ Len(types) < MaxColumns
    /\ types' = Append(types, type)
    /\ role' = IF TakesRole(type) THEN [role EXCEPT ![type] = Len(types)] ELSE role
    /\ former' = (former /\ type # "hidden")
    /\ UNCHANGED <<currentindex, values, shown, sent, due, lost>>

\* P_IMAGECOLUMN, P_TEXTCOLUMN, P_MARKUPCOLUMN, P_TOOLTIPCOLUMN.
SetRole ==
  \E r \in Assigned, c \in {Absent, MaxColumns - 1} :
    /\ role' = [role EXCEPT ![r] = c]
    /\ UNCHANGED <<types, former, currentindex, values, shown, sent, due, lost>>

-----------------------------------------------------------------------------
(* Items *)

NoValue == [for |-> Absent, n |-> 0]
Meant(k) == [c \in 1..k |-> [for |-> c - 1, n |-> sent + 1]]

\* MSG_CUSTOM_MESSAGE3, k times: a value goes to the next column, if there is one.
Received(k) == values \o SelectSeq(Meant(k), LAMBDA v : currentindex + v.for < Len(types))

Has(r, where, given) == where[r] \in 0..(Len(given) - 1)
In(r, where, given) == IF Has(r, where, given) THEN given[where[r] + 1] ELSE NoValue

\* The roles that a text may come from, the first of them that has a value.
TextRoles == IF Class = "combo" THEN <<"text", "markup", "hidden">> ELSE <<"markup", "text">>

\* A new item of a combo shows its first column if it has no text and no picture.
FirstColumn(where, given) ==
  IF Class = "combo" /\ ~Has("icon", where, given) /\ given # <<>> THEN given[1] ELSE NoValue

Caption(where, given, isNew) ==
  LET by == SelectSeq(TextRoles, LAMBDA r : Has(r, where, given))
  IN IF by # <<>> THEN In(by[1], where, given)
     ELSE IF isNew THEN FirstColumn(where, given) ELSE NoValue

Tip(where, given) == IF Class = "icons" THEN In("hint", where, given) ELSE NoValue

Look(where, given) ==
  [caption |-> Caption(where, given, TRUE), picture |-> In("icon", where, given), tip |-> Tip(where, given)]

\* What the server may expect of k values, and how it sent them.
Due(k, how) ==
  [look |-> Look(IF former THEN [role EXCEPT !["hidden"] = Absent] ELSE role, Meant(k)), n |-> sent + 1,
   how |-> how \cup (IF lost THEN {"late"} ELSE {}) \cup (IF former THEN {"former"} ELSE {})]

\* The values are done with.
ForgetValues(k) == values' = <<>> /\ currentindex' = 0

Placed(s, i, x) == IF i < 0 \/ i >= Len(s) THEN Append(s, x) ELSE InsertAt(s, i + 1, x)

\* MSG_CUSTOM_MESSAGE2, 0.
Insert ==
  \E k \in 0..Len(types), i \in {Absent, 0} :
    /\ Len(shown) < MaxItems /\ sent < MaxWrites
    /\ shown' = Placed(shown, i, Look(role, Received(k)))
    /\ due' = Placed(due, i, Due(k, {}))
    /\ sent' = sent + 1 /\ lost' = FALSE
    /\ ForgetValues(k)
    /\ UNCHANGED columns

\* An item after an update: a combo compares its place with the number of values, and an icon
\* keeps its picture.
Updated(item, i, given) ==
  LET picture == In("icon", role, given)
      tip == Tip(role, given)
  IN IF Class = "combo"
       THEN IF i >= Len(given) THEN item
            ELSE [item EXCEPT !.caption = Caption(role, given, FALSE),
                              !.picture = IF picture = NoValue THEN @ ELSE picture]
       ELSE [item EXCEPT !.caption = Caption(role, given, FALSE), !.tip = IF tip = NoValue THEN @ ELSE tip]

\* MSG_CUSTOM_MESSAGE6 for an item that is there.
Update ==
  \E k \in 0..Len(types), i \in 0..(Len(shown) - 1) :
    /\ sent < MaxWrites
    /\ shown' = [shown EXCEPT ![i + 1] = Updated(@, i, Received(k))]
    /\ due' = [due EXCEPT ![i + 1] = Due(k, {"over"} \cup (IF i >= k THEN {"beyond"} ELSE {}))]
    /\ sent' = sent + 1 /\ lost' = FALSE
    /\ ForgetValues(k)
    /\ UNCHANGED columns

\* MSG_CUSTOM_MESSAGE6 for one that is not: an icon view leaves the values where they are.
UpdateNone ==
  \E k \in 0..Len(types) :
    /\ sent < MaxWrites
    /\ IF Class = "combo" THEN ForgetValues(k)
       ELSE values' = Received(k) /\ currentindex' = currentindex + k
    /\ lost' = (Class = "icons")
    /\ sent' = sent + 1
    /\ UNCHANGED <<columns, shown, due>>

\* MSG_CUSTOM_MESSAGE2, 2.
RemoveItem ==
  \E i \in 1..Len(shown) :
    /\ shown' = RemoveAt(shown, i) /\ due' = RemoveAt(due, i)
    /\ UNCHANGED <<columns, currentindex, values, sent, lost>>

\* MSG_CUSTOM_MESSAGE2, 1.
Clear ==
  /\ shown' = <<>> /\ due' = <<>> /\ lost' = FALSE
  /\ ForgetValues(0)
  /\ UNCHANGED <<columns, sent>>

\* MSG_CUSTOM_MESSAGE2, 3: ClearColumns knows nothing of hidden.
ClearAll ==
  /\ shown' = <<>> /\ due' = <<>> /\ lost' = FALSE
  /\ ForgetValues(0)
  /\ types' = <<>> /\ role' = [NoRole EXCEPT !["hidden"] = role["hidden"]] /\ former' = (role["hidden"] # Absent)
  /\ UNCHANGED sent

Next == AddColumn \/ SetRole \/ Insert \/ Update \/ UpdateNone \/ RemoveItem \/ Clear \/ ClearAll

Spec == Init /\ [][Next]_vars

-----------------------------------------------------------------------------
Value == [for : Absent..(MaxColumns - 1), n : 0..MaxWrites]

TypeOK ==
  /\ types \in Seq(Types) /\ Len(types) <= MaxColumns
  /\ role \in [Roles -> Absent..(MaxColumns - 1)]
  /\ values \in Seq(Value) /\ Len(values) <= Len(types) /\ Len(values) <= currentindex
  /\ shown \in Seq([caption : Value, picture : Value, tip : Value])
  /\ Len(due) = Len(shown) /\ Len(shown) <= MaxItems /\ sent \in 0..MaxWrites
  /\ former \in BOOLEAN /\ lost \in BOOLEAN

\* An item shows the text, picture and tip that were sent for it last, by the columns of that
\* time.  But an icon after an update of none may show what was sent for that; a combo ignores an
\* update of an item at or beyond the number of its values, and an update shows no first column;
\* the picture of an icon stays, and a picture or tip that is not sent; and a combo may take the
\* text from a hidden column of before (MSG_CUSTOM_MESSAGE2, 6, ClearColumns).
ItemsShowWhatWasSent ==
  \A i \in 1..Len(shown) :
    LET item == shown[i]
        look == due[i].look
        how == due[i].how
    IN "late" \in how \/
       /\ \/ item.caption = look.caption
          \/ (Class = "combo" /\ {"beyond", "former"} \cap how # {})
          \/ Class = "combo" /\ "over" \in how /\ item.caption = NoValue /\ look.caption.for = 0
       /\ \/ item.picture = look.picture
          \/ "over" \in how /\ (Class = "icons" \/ "beyond" \in how \/ look.picture = NoValue)
       /\ item.tip = look.tip \/ ("over" \in how /\ look.tip = NoValue)
=============================================================================
