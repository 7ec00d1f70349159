------------------------------ MODULE TreeView ------------------------------
(***************************************************************************)
(* The columns and rows of a tree view (callback.cpp: MSG_CUSTOM_MESSAGE and  *)
(* CreateTreeItem for CLASS_TREEVIEW; GTKControl.h: TreeData).  The server     *)
(* creates columns and attributes, then sends the values of a row in their    *)
(* order, and after them where the row is to be.  Three lists number the      *)
(* columns: ptr2 has one entry for each heading, meta one for each column and *)
(* attribute, and what is sent is divided among columns and attributes as      *)
(* meta says.                                                                *)
(*                                                                         *)
(* The values of a row are handled with it: nothing comes between.  A value   *)
(* is told by the entry of meta that it is meant for and by the row it was    *)
(* sent with.  Colours, fonts, alignment, tool tips and sizes are left out,    *)
(* and which row is selected.                                               *)
(***************************************************************************)
EXTENDS TreePaths, FiniteSetsExt

CONSTANTS
  Types,     \* of columns: "plain" (also checks and images), "combo", "markup"
  Attributes,     \* of attributes: "editable", "visible"; a combo brings its "model"
  MaxMeta,   \* bound: columns and attributes
  MaxRows,   \* bound: rows at once
  MaxWrites  \* bound: rows that are sent

TreeViewAssumption ==
  /\ Types \subseteq {"plain", "combo", "markup"} /\ Attributes \subseteq {"editable", "visible"}
  /\ MaxMeta \in Nat /\ MaxRows \in Nat \ {0} /\ MaxWrites \in Nat

VARIABLES
  list,    \* ptr2: the entry of meta behind each heading
  meta,    \* the columns and attributes
  heads,   \* what became of the control that was put on each heading
  tree,    \* the children of each row
  rows,    \* what a row shows
  n,       \* rows sent so far
  meant,   \* history: the entries that the server has values for
  wrote,   \* history: how each row was sent last
  trimmed, \* history: a column was removed
  fault    \* what was followed and is not there, "null" or "outside", and for which row

columns == <<list, meta, meant, heads, trimmed>>
contents == <<tree, rows, wrote, n>>
vars == <<columns, contents, fault>>

NoValue == [for |-> 0, n |-> 0]
Blank == [text |-> [c \in 0..(MaxMeta - 1) |-> NoValue], widgets |-> {}, hidden |-> FALSE]
Unsent == [n |-> 0, k |-> 0, on |-> {}, over |-> FALSE]

NoFault == [kind |-> "none", k |-> 0, on |-> {}, placed |-> FALSE]
NoHeads == [c \in 0..(MaxMeta - 1) |-> "none"]
NoRows == [r \in 0..MaxRows |-> <<>>]
Free == (1..MaxRows) \ Placed(tree)
RowIds == 1..MaxRows

Init ==
  /\ list = <<>> /\ meta = <<>> /\ meant = <<>> /\ heads = NoHeads /\ trimmed = FALSE
  /\ tree = NoRows /\ rows = [r \in RowIds |-> Blank] /\ wrote = [r \in RowIds |-> Unsent]
  /\ n = 0 /\ fault = NoFault

-----------------------------------------------------------------------------
(* Columns *)

IsColumn(tc) == tc.type # "attribute"
Attribute(name, index) == [type |-> "attribute", name |-> name, index |-> index]

\* What a new column adds to meta.
Column(type) ==
  <<[type |-> type, name |-> "column", index |-> Len(list)]>>
    \o IF type = "combo" THEN <<Attribute("model", Len(list))>> ELSE <<>>

\* MSG_CUSTOM_MESSAGE1.
AddColumn ==
  \E type \in Types :
    LET new == Column(type)
    IN /\ Len(meta \o new) <= MaxMeta
       /\ list' = Append(list, Len(meta) + 1)
       /\ meta' = meta \o new
       /\ meant' = meant \o [i \in 1..Len(new) |-> Len(meta) + i]
       /\ UNCHANGED <<heads, trimmed, contents>>

\* MSG_CUSTOM_MESSAGE10.
AddAttribute ==
  \E name \in Attributes, index \in -1..(Len(list) - 1) :
    /\ Len(meta) < MaxMeta
    /\ meta' = Append(meta, Attribute(name, index))
    /\ meant' = Append(meant, Len(meta) + 1)
    /\ UNCHANGED <<list, heads, trimmed, contents>>

\* MSG_CUSTOM_MESSAGE2, 4: meta stays as it is.  The view removes its last column; what it
\* showed there is gone from the rows at the top.
RemoveColumn ==
  \E j \in 1..Len(list) :
    /\ list' = RemoveAt(list, j)
    /\ meant' = SelectSeq(meant, LAMBDA e : e # list[j] /\ ~(e = list[j] + 1 /\ meta[e].name = "model"))
    /\ trimmed' = TRUE
    /\ rows' = [r \in RowIds |->
                  IF Contains(tree[0], r)
                    THEN [rows[r] EXCEPT !.widgets = {w \in @ : w.at # Len(list) - 1}] ELSE rows[r]]
    /\ UNCHANGED <<meta, heads, tree, wrote, n>>

\* MSG_CUSTOM_MESSAGE2, 3: rows and columns (ClearColumns).
Empty ==
  /\ tree' = NoRows /\ rows' = [r \in RowIds |-> Blank] /\ wrote' = [r \in RowIds |-> Unsent]
  /\ list' = <<>> /\ meta' = <<>> /\ meant' = <<>> /\ heads' = NoHeads /\ trimmed' = FALSE
  /\ UNCHANGED n

\* MSG_CUSTOM_MESSAGE7, P_WIDGET: the loop looks at one entry only, again and again, and the
\* second time hides what it has just put there.
SetHeading ==
  \E index \in 0..(Len(list) - 1) :
    LET found == meta[index + 1].index = index
    IN /\ heads' = [heads EXCEPT ![index] =
                     IF ~found THEN "fixed" ELSE IF index + 1 < Len(meta) THEN "hidden" ELSE "moves"]
       /\ UNCHANGED <<list, meta, meant, trimmed, contents>>

-----------------------------------------------------------------------------
(* Rows *)

\* MSG_CUSTOM_MESSAGE3: the k values of a row, as meta divides them.
Values(k, ofColumns) ==
  LET kept == SelectSeq([i \in 1..k |-> i], LAMBDA i : IsColumn(meta[i]) = ofColumns)
  IN [i \in 1..Len(kept) |-> [for |-> meant[kept[i]], n |-> n + 1]]

WidgetAt(row, c) == {w \in row.widgets : w.at = c}

\* setItemWidget, which ignores a row that is in no tree.
SetWidget(row, c, value, placed) ==
  IF placed THEN [row EXCEPT !.widgets = (@ \ WidgetAt(row, c)) \cup {[at |-> c, value |-> value]}] ELSE row

Fault(done, k, on, placed) ==
  IF done.fault = "none" THEN NoFault ELSE [kind |-> done.fault, k |-> k, on |-> on, placed |-> placed]

\* attr_index.
Counts(used, tc, given) == IF IsColumn(tc) THEN used ELSE used + 1

\* What CreateTreeItem does for the entries of meta, one after the other.
Dressed(row, cols, attrs, on, placed) ==
  LET Step(s, tc) ==
        LET given == ~IsColumn(tc) /\ s.used < Len(attrs)
            there == tc.index < Len(cols)
            next == [s EXCEPT !.used = Counts(s.used, tc, given)]
        IN CASE s.fault # "none" -> s
             [] tc.type = "markup" /\ ~there -> [s EXCEPT !.fault = "outside"]
             [] tc.type = "markup" /\ there ->
                  [next EXCEPT !.row = SetWidget(s.row, tc.index, cols[tc.index + 1], placed),
                               !.row.text[tc.index] = NoValue]
             [] given /\ tc.name = "model" /\ there /\ "model" \in on ->
                  [next EXCEPT !.row = SetWidget(s.row, tc.index, cols[tc.index + 1], placed),
                               !.row.text[tc.index] = NoValue]
             [] given /\ tc.name = "editable" /\ tc.index >= 0 /\ WidgetAt(s.row, tc.index) = {} ->
                  [s EXCEPT !.fault = "null"]
             [] given /\ tc.name = "visible" -> [next EXCEPT !.row.hidden = "visible" \notin on]
             [] OTHER -> next
  IN FoldLeft(Step, [row |-> row, used |-> 0, fault |-> "none"], meta)

\* The row with its values: new, or the widgets of the one that was there.
Written(old, k, on, placed) ==
  LET cols == Values(k, TRUE)
      text == [c \in 0..(MaxMeta - 1) |-> IF c < Len(cols) THEN cols[c + 1] ELSE NoValue]
  IN Dressed([old EXCEPT !.text = text], cols, Values(k, FALSE), on, placed)

\* CreateTreeItem for a row that is put into the tree, or into none.
Create(new, row, k, on) ==
  LET placed == row \in Placed(new)
      done == Written(Blank, k, on, placed)
  IN /\ fault' = Fault(done, k, on, placed)
     /\ tree' = new /\ n' = n + 1
     /\ rows' = IF placed THEN [rows EXCEPT ![row] = done.row] ELSE rows
     /\ wrote' = IF placed THEN [wrote EXCEPT ![row] = [n |-> n + 1, k |-> k, on |-> on, over |-> FALSE]] ELSE wrote
     /\ UNCHANGED columns

\* Paths of rows, and one of none.
Paths == {ItemToPath(tree, r) : r \in Placed(tree)} \cup {<<MaxRows>>}
Places == {Append(p, i) : p \in Paths \cup {<<>>}, i \in 0..1}
Sent ==
  IF n = MaxWrites THEN {}
  ELSE (0..Len(meant)) \X SUBSET {x \in {"model", "visible"} : \E e \in 1..Len(meta) : meta[e].name = x}
NewRow == CHOOSE r \in Free : \A s \in Free : r <= s

\* MSG_CUSTOM_MESSAGE2, 0.
AddRow ==
  /\ Free # {}
  /\ \E path \in Places, s \in Sent : Create(PutByPath(tree, path, NewRow), NewRow, s[1], s[2])

\* MSG_CUSTOM_MESSAGE4.
InsertRow ==
  /\ Free # {}
  /\ \E path \in Paths \cup {<<>>}, i \in {-1, 0}, s \in Sent :
       Create(PutBelow(tree, path, i, NewRow), NewRow, s[1], s[2])

\* Mutant: a row without children keeps its widgets, too.
FreshOnlyWithChildren(row) == rows[row]

\* What is left of a row that is written again: it is made anew unless it has children.
Remains(row) == IF tree[row] = <<>> THEN Blank ELSE rows[row]

\* MSG_CUSTOM_MESSAGE6 for a row that is there.
UpdateRow ==
  \E path \in Paths, s \in Sent :
    LET row == ItemByPath(tree, path)
        done == Written(Remains(row), s[1], s[2], TRUE)
    IN /\ row # None
       /\ fault' = Fault(done, s[1], s[2], TRUE) /\ n' = n + 1
       /\ rows' = [rows EXCEPT ![row] = done.row]
       /\ wrote' = [wrote EXCEPT ![row] = [n |-> n + 1, k |-> s[1], on |-> s[2], over |-> tree[row] # <<>>]]
       /\ UNCHANGED <<columns, tree>>

\* MSG_CUSTOM_MESSAGE6 for a row that is not: it is added, as by MSG_CUSTOM_MESSAGE2.
UpdateNoRow ==
  /\ Free # {}
  /\ \E path \in Paths, s \in Sent :
       /\ ItemByPath(tree, path) = None
       /\ Create(PutByPath(tree, path, NewRow), NewRow, s[1], s[2])

\* MSG_CUSTOM_MESSAGE2, 2.
DeleteRow ==
  \E path \in Paths :
    LET row == ItemByPath(tree, path)
        gone == Below(tree, row)
    IN /\ row # None
       /\ tree' = Removed(tree, row)
       /\ rows' = [r \in RowIds |-> IF r \in gone THEN Blank ELSE rows[r]]
       /\ wrote' = [r \in RowIds |-> IF r \in gone THEN Unsent ELSE wrote[r]]
       /\ UNCHANGED <<columns, n>>

\* MSG_CUSTOM_MESSAGE2, 1.
ClearRows ==
  /\ tree' = NoRows /\ rows' = [r \in RowIds |-> Blank] /\ wrote' = [r \in RowIds |-> Unsent]
  /\ UNCHANGED <<columns, n>>

Structure == AddColumn \/ AddAttribute \/ RemoveColumn \/ Empty \/ SetHeading \/ DeleteRow \/ ClearRows

Next ==
  /\ fault = NoFault
  /\ \/ Structure /\ UNCHANGED fault
     \/ AddRow \/ InsertRow \/ UpdateRow \/ UpdateNoRow

Spec == Init /\ [][Next]_vars

-----------------------------------------------------------------------------
Entry == [type : Types \cup {"attribute"}, name : Attributes \cup {"column", "model"}, index : -1..(MaxMeta - 1)]
Value == [for : 0..MaxMeta, n : 0..MaxWrites]

TypeOK ==
  /\ meta \in Seq(Entry) /\ Len(meta) <= MaxMeta
  /\ list \in Seq(1..Len(meta)) /\ meant \in Seq(1..Len(meta))
  /\ heads \in [0..(MaxMeta - 1) -> {"none", "fixed", "hidden", "moves"}] /\ trimmed \in BOOLEAN
  /\ \A r \in RowIds : \A c \in 0..(MaxMeta - 1) : rows[r].text[c] \in Value
  /\ \A r \in RowIds : \A v, w \in rows[r].widgets : v.value \in Value /\ (v.at = w.at => v = w)
  /\ n \in 0..MaxWrites /\ fault.kind \in {"none", "null", "outside"}

\* What is seen of a row in a column.
Shown(row, c) ==
  LET w == WidgetAt(rows[row], c)
  IN IF w = {} THEN rows[row].text[c] ELSE (CHOOSE u \in w : TRUE).value

\* Whether the entry had a value when the row was sent last.
WasSent(row, e) == \E i \in 1..wrote[row].k : meant[i] = e

\* A row that was written again while it had children may keep a combo of before: it was not
\* sent a model, or one that is gone.
KeepsCombo(row, e) ==
  /\ wrote[row].over /\ meta[e].type = "combo"
  /\ ~WasSent(row, e + 1) \/ "model" \notin wrote[row].on

\* Each row shows under each heading what was sent for it last, and is hidden as it was asked,
\* unless a column was removed (CreateTreeItem, MSG_CUSTOM_MESSAGE2 to 6).
RowsAreAsSent ==
  fault = NoFault /\ ~trimmed =>
    \A row \in Placed(tree) \ {0} :
      /\ \A j \in 1..Len(list) :
           \/ Shown(row, j - 1) = IF WasSent(row, list[j]) THEN [for |-> list[j], n |-> wrote[row].n] ELSE NoValue
           \/ KeepsCombo(row, list[j])
      /\ \A e \in 1..Len(meta) :
           meta[e].name = "visible" /\ WasSent(row, e) => rows[row].hidden = ("visible" \notin wrote[row].on)

\* The client follows a null pointer only for "editable" on a column that has no widget: one that
\* is plain, or a combo whose model is gone, or any of a row whose parent is gone; and it reads
\* beyond the values of a row only if there were too few; or a column was removed
\* (CreateTreeItem).
FaultIsExplained ==
  ~trimmed =>
    /\ fault.kind = "null" =>
         \/ ~fault.placed
         \/ \E e \in 1..Len(meta) :
              /\ meta[e].name = "editable" /\ meta[e].index >= 0
              /\ LET type == meta[list[meta[e].index + 1]].type
                 IN type = "plain" \/ (type = "combo" /\ "model" \notin fault.on)
    /\ fault.kind = "outside" => fault.k < Len(meant)

\* A control on the heading of a column is seen there and moves with it, unless an attribute or the
\* model of a combo is listed before that column, or anything after it (P_WIDGET).
HeadingsMove ==
  ~trimmed =>
    \A j \in 1..Len(list) :
      /\ heads[j - 1] = "fixed" => \E e \in 1..list[j] : ~IsColumn(meta[e])
      /\ heads[j - 1] = "hidden" => Len(meta) > j

\* A row is found by the path that is sent for it (ItemToPath, ItemByPath).
PathsNameRows == \A row \in Placed(tree) : ItemByPath(tree, ItemToPath(tree, row)) = row
=============================================================================
