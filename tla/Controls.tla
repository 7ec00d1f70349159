------------------------------ MODULE Controls ------------------------------
(***************************************************************************)
(* The registry of the controls of an application (callback.cpp,             *)
(* GTKControl.h): the server names a control by its ID, Controls finds the    *)
(* item of an ID and ControlsReversed the item of a widget.  Items are never  *)
(* freed: disposing of a control takes it out of both maps, forgets its       *)
(* widget and hides it, while other items and Qt still point at the item and  *)
(* at the widget.                                                            *)
(*                                                                         *)
(* An item is its position in "items", and the widget that was created with   *)
(* it has the same number.  Layouts, styles, sizes and texts are left out, as  *)
(* are the pages of notebooks (module Notebook), menus and tool buttons.       *)
(***************************************************************************)
EXTENDS Naturals, Sequences

CONSTANTS
  Ids,       \* IDs that the server gives; one ID is in use for one control at a time
  Types,     \* kinds of controls that this server creates
  Parents,   \* kinds that it creates others in
  Moved,     \* kinds that it moves
  Axes,      \* axes that it has adjustments for: "h" and "v"
  MaxItems   \* bound: controls that are created

ControlsAssumption ==
  /\ Ids \subseteq Nat \ {0}
  /\ Types \subseteq {"form", "box", "button", "expander", "scrolled", "tree", "edit", "scrollbar", "adjustment"}
  /\ Axes \subseteq {"h", "v"}
  /\ Moved \subseteq Types \ {"form", "adjustment"} /\ Parents \subseteq Types \ {"edit", "scrollbar", "adjustment"}
  /\ MaxItems \in Nat \ {0}

VARIABLES
  items,      \* every GTKControl
  registry,   \* Controls: the item of an ID, 0 for none
  reversed,   \* ControlsReversed: items that are found by their widget
  widgets,    \* widgets that exist
  within,     \* the parent of a widget, 0 for none
  content,    \* QScrollArea::widget()
  listens,    \* pairs of an edit and a tree whose events its textEdited is connected to
  fault,      \* a pointer to nothing was followed: what it was, and what led to it
  dropped     \* history: widgets that a scrolled window deleted for another child

vars == <<items, registry, reversed, widgets, within, content, listens, fault, dropped>>

NoFault == [kind |-> "none", via |-> "none"]
NoBar == [of |-> 0, axis |-> "none", since |-> 0]
Created == 1..Len(items)

\* The item of an ID as SetProperty, CreateControl and the others look it up.
Named == {registry[id] : id \in Ids} \ {0}

\* What the server creates controls in, or moves them to; and the IDs in their order.
Containers == {i \in Named : items[i].type \in Parents}
NextIds == {id \in Ids : registry[id] = 0 /\ \A lower \in Ids : registry[lower] = 0 => id <= lower}

-----------------------------------------------------------------------------
(* Pointers *)

\* The widget of a control is its own, that of an adjustment belongs to what it moves.
WidgetOf(i) == IF items[i].type = "adjustment" THEN items[i].bar.of ELSE i

\* What a handler meets that follows ptr of item i.
Following(i, via) ==
  CASE ~items[i].ptr -> [kind |-> "null", via |-> via]
    [] items[i].ptr /\ WidgetOf(i) \notin widgets -> [kind |-> "freed", via |-> via]
    [] OTHER -> NoFault

Fails(f) == f # NoFault /\ fault' = f /\ UNCHANGED <<items, registry, reversed, widgets, within, content, listens, dropped>>
Works(f) == f = NoFault /\ UNCHANGED fault

\* Item w and what is below it: what is in each set that has w and, with an item, those above
\* which "up" has that item.
Reached(w, up) ==
  {x \in Created : \A S \in SUBSET Created :
     w \in S /\ (\A y \in Created : up[y] \in S => y \in S) => x \in S}

\* The widgets that Qt deletes with one.
Inside(w) == Reached(w, within)

-----------------------------------------------------------------------------
(* CreateControl *)

NewItem(id, type, parent) ==
  [id |-> id, type |-> type, ptr |-> type # "adjustment", visible |-> FALSE, parent |-> parent, adj |-> 0,
   hadj |-> 0, bar |-> NoBar, child |-> 0, friend |-> 0, flags |-> FALSE,
   made |-> parent, asked |-> {}]

\* Puts the control in the maps.
Register(item, pwidget) ==
  /\ registry' = [registry EXCEPT ![item.id] = Len(items) + 1]
  /\ reversed' = IF item.ptr THEN reversed \cup {Len(items) + 1} ELSE reversed
  /\ within' = Append(within, pwidget)

\* Puts the widget into its parent: a scrolled window deletes the child that it had, a
\* button remembers its child.
Place(item, p, olds) ==
  LET new == Len(items) + 1
      old == IF p # 0 /\ olds[p].type = "scrolled" /\ ~olds[p].flags THEN content[p] ELSE 0
      deleted == IF old \in widgets THEN Inside(old) ELSE {}
  IN /\ items' = Append(IF p # 0 /\ olds[p].type = "button" THEN [olds EXCEPT ![p].child = new] ELSE olds, item)
     /\ widgets' = (widgets \ deleted) \cup {new}
     /\ dropped' = dropped \cup (deleted \cap widgets)
     /\ content' = Append(IF p # 0 /\ olds[p].type = "scrolled" /\ ~olds[p].flags
                            THEN [content EXCEPT ![p] = new] ELSE content, 0)

\* A control of a kind is created in the widget of its parent, if there is such a parent.
CreateIn(id, type, p) ==
  /\ type \in Types /\ Len(items) < MaxItems
  /\ LET f == IF p = 0 THEN NoFault ELSE Following(p, "name")
     IN \/ Fails(f)
        \/ /\ Works(f)
           /\ Register(NewItem(id, type, p), p)
           /\ Place(NewItem(id, type, p), p, items)
           /\ UNCHANGED listens

CreateBox(id, p) == CreateIn(id, "box", p)
CreateButton(id, p) == CreateIn(id, "button", p)
CreateExpander(id, p) == CreateIn(id, "expander", p)
CreateScrolled(id, p) == CreateIn(id, "scrolled", p)
CreateTree(id, p) == CreateIn(id, "tree", p)
CreateEdit(id, p) == CreateIn(id, "edit", p)

\* The form that a control is, or is in: parents are created first, so it is the last one.
FormOf(p) ==
  LET forms == {a \in Created : items[a].type = "form" /\ p \in Reached(a, [y \in Created |-> items[y].parent])}
  IN IF forms = {} THEN 0 ELSE CHOOSE a \in forms : \A b \in forms : b <= a

\* A window is put above the form that its parent is in.
CreateForm(id, p) ==
  LET above == FormOf(p)
      pwidget == IF above # 0 /\ items[above].ptr THEN above ELSE 0
      f == IF pwidget = 0 THEN NoFault ELSE Following(pwidget, "parent")
      item == NewItem(id, "form", p)
  IN /\ "form" \in Types /\ Len(items) < MaxItems
     /\ \/ Fails(f)
        \/ /\ Works(f)
           /\ Register(item, pwidget) /\ Place(item, 0, items)
           /\ UNCHANGED listens

\* Scroll bars, scales and spin buttons take the adjustment of POST_OBJECT, which has no
\* bar yet: SetAdjustment looks at the type, and that is assigned at the end.
CreateScrollbar(id, p, a, horizontal) ==
  /\ "scrollbar" \in Types /\ Len(items) < MaxItems
  /\ IF a = 0 THEN TRUE ELSE registry[a] # 0 /\ items[registry[a]].type = "adjustment"
  /\ LET f == IF p = 0 THEN NoFault ELSE Following(p, "name")
         item == [NewItem(id, "scrollbar", p) EXCEPT !.adj = IF horizontal THEN 0 ELSE a, !.hadj = IF horizontal THEN a ELSE 0]
         olds == IF a = 0 THEN items ELSE [items EXCEPT ![registry[a]].parent = Len(items) + 1]
     IN \/ Fails(f)
        \/ /\ Works(f)
           /\ Register(item, p) /\ Place(item, p, olds)
           /\ UNCHANGED listens

\* An adjustment is the vertical one of the control that it is created in.
CreateAdjustment(id, p) ==
  /\ "adjustment" \in Types /\ Len(items) < MaxItems
  /\ Register(NewItem(id, "adjustment", p), 0)
  /\ items' = Append(IF p = 0 THEN items ELSE [items EXCEPT ![p].adj = id], NewItem(id, "adjustment", p))
  /\ content' = Append(content, 0)
  /\ UNCHANGED <<widgets, listens, fault, dropped>>

-----------------------------------------------------------------------------
(* SetProperty: adjustments *)

\* Mutant: as if the axis were always the one that the property names first.
BarOfEither(a, p, controls) ==
  LET axis == IF controls[p].adj = controls[a].id \/ controls[p].hadj = controls[a].id THEN "v" ELSE "none"
  IN IF controls[p].type \in {"tree", "scrolled"} /\ axis # "none"
       THEN [of |-> p, axis |-> axis, since |-> Len(items)] ELSE controls[a].bar

\* The scroll bar that an adjustment is to move (SetAdjustment): of the scrolled window, or of
\* the tree in it; an adjustment that is both of a window's is its vertical one.
BarOf(a, p, controls) ==
  LET c == content[p]
      of == IF controls[p].type = "scrolled" /\ c \in widgets \cap reversed /\ controls[c].type = "tree" THEN c ELSE p
      axis == CASE controls[p].adj = controls[a].id -> "v"
                [] controls[p].adj # controls[a].id /\ controls[p].hadj = controls[a].id -> "h"
                [] OTHER -> "none"
  IN CASE controls[p].type = "scrollbar" -> [of |-> p, axis |-> "own", since |-> Len(items)]
       [] controls[p].type \in {"tree", "scrolled"} /\ axis # "none" -> [of |-> of, axis |-> axis, since |-> Len(items)]
       [] OTHER -> controls[a].bar

\* P_HADJUSTMENT and P_VADJUSTMENT: any control takes an adjustment, or none.
SetAdjustmentOf(p, a, axis) ==
  LET field(i) == IF axis = "h" THEN [items EXCEPT ![p].hadj = i] ELSE [items EXCEPT ![p].adj = i]
      given == [field(items[a].id) EXCEPT ![a].parent = p, ![a].asked = @ \cup {axis}]
      f == IF a # 0 /\ items[p].type \in {"tree", "scrolled"} THEN Following(p, "name") ELSE NoFault
  IN /\ p \in Named /\ items[p].type \notin {"adjustment", "form"}
     /\ a \in Named \cup {0} /\ (a # 0 => items[a].type = "adjustment")
     /\ \/ Fails(f)
        \/ /\ Works(f)
           /\ items' = IF a = 0 THEN field(0)
                       ELSE LET bar == BarOf(a, p, given) IN [given EXCEPT ![a].bar = bar, ![a].ptr = bar # NoBar]
           /\ UNCHANGED <<registry, reversed, widgets, within, content, listens, dropped>>

\* P_LOWER, P_UPPER, P_VALUE, P_INCREMENT, P_PAGEINCREMENT, P_PAGESIZE: the widget of the parent
\* for scroll bars, scales and spin buttons, and the bar for any other parent.
SetRange(a) ==
  /\ a \in Named /\ items[a].type = "adjustment" /\ items[a].parent # 0
  /\ LET p == items[a].parent
         bar == items[a].bar.of
         f == CASE items[p].type = "scrollbar" -> Following(p, "parent")
                [] items[p].type # "scrollbar" /\ bar # 0 /\ bar \notin widgets -> [kind |-> "freed", via |-> "bar"]
                [] OTHER -> NoFault
     IN Fails(f)

-----------------------------------------------------------------------------
(* SetProperty: places *)

\* P_PACKING: the arrow of the expander that the control is in takes the policy.
SetPacking(i) ==
  /\ i \in Named /\ items[i].ptr /\ items[i].type # "form" /\ items[i].parent # 0
  /\ items[items[i].parent].type = "expander"
  /\ Fails(Following(items[i].parent, "parent"))

\* P_LEFT and P_TOP: the control leaves the layout of its parent; what a tree has in its
\* place is a list of texts.
SetPosition(i) ==
  LET p == items[i].parent
      f == IF p = 0 \/ ~items[p].ptr THEN NoFault
           ELSE IF items[p].type = "tree" THEN [kind |-> "cast", via |-> "parent"] ELSE NoFault
      own == IF f # NoFault THEN f ELSE Following(i, "name")
  IN /\ i \in Named /\ items[i].type \in Moved /\ items[i].ptr
     /\ \/ Fails(own)
        \/ /\ Works(own)
           /\ p # 0 /\ items[p].type = "scrolled"
           /\ items' = [items EXCEPT ![p].flags = TRUE]
           /\ UNCHANGED <<registry, reversed, widgets, within, content, listens, dropped>>

\* P_PARENT: the widget moves, the item keeps its parent.
SetParent(i, j) ==
  LET f == IF Following(i, "name") # NoFault THEN Following(i, "name")
           ELSE IF j # 0 /\ Following(j, "name") # NoFault THEN Following(j, "name")
           ELSE IF j # 0 /\ items[j].type = "tree" THEN [kind |-> "cast", via |-> "name"] ELSE NoFault
  IN /\ i \in Named /\ items[i].type \in Moved
     /\ j \in (Containers \cup {0}) \ Inside(i)
     /\ \/ Fails(f)
        \/ /\ Works(f)
           /\ within' = [within EXCEPT ![i] = j]
           /\ UNCHANGED <<items, registry, reversed, widgets, content, listens, dropped>>

\* P_DEFAULTCONTROL, which does not ask whether the control is there.
SetDefault(i, id) ==
  /\ i \in Named /\ items[i].type = "form"
  /\ Fails(IF registry[id] = 0 THEN [kind |-> "null", via |-> "absent"]
           ELSE IF items[registry[id]].type = "button" THEN Following(registry[id], "name") ELSE NoFault)

\* P_VISIBLE, of what is in a button: nobody asks of the others (CustomButton::sizeHint).
SetVisible(i, shown) ==
  LET p == items[i].parent
      f == IF items[p].ptr THEN Following(i, "name") ELSE NoFault
  IN /\ i \in Named /\ p # 0 /\ items[p].type = "button" /\ items[i].type # "form" /\ items[i].visible # shown
     /\ \/ Fails(f)
        \/ /\ Works(f)
           /\ items' = [items EXCEPT ![i].visible = shown]
           /\ UNCHANGED <<registry, reversed, widgets, within, content, listens, dropped>>

\* CustomButton::sizeHint, whenever the layout of a button is computed.
SizeHint(b) ==
  LET c == items[b].child IN
  /\ b \in widgets /\ items[b].type = "button" /\ c # 0 /\ items[c].visible
  /\ Fails(Following(c, "child"))

-----------------------------------------------------------------------------
(* The entry that searches in a tree *)

\* Mutant: as if the former friend were always deleted.
DeletedByAlways(t) == IF items[t].friend # 0 THEN {items[t].friend} ELSE {}

\* The former friend of a tree is deleted when no item has it any more.
DeletedBy(t) == IF items[t].friend # 0 /\ items[t].friend \notin reversed THEN {items[t].friend} ELSE {}

\* P_SEARCHENTRY: the former friend goes, and the edit and the tree know each other; the
\* connection of a former edit stays.
SetSearch(t, e) ==
  LET own == Following(t, "name")
      f == CASE own # NoFault -> own
             [] own = NoFault /\ ~(DeletedBy(t) \subseteq widgets) -> [kind |-> "freed", via |-> "friend"]
             [] OTHER -> IF e = 0 THEN NoFault ELSE Following(e, "name")
      deleted == UNION {Inside(w) : w \in DeletedBy(t)}
  IN /\ t \in Named /\ items[t].type = "tree"
     /\ e \in Named \cup {0} /\ (e # 0 => items[e].type = "edit")
     /\ \/ Fails(f)
        \/ /\ Works(f)
           /\ items' = IF e = 0 THEN [items EXCEPT ![t].friend = 0] ELSE [items EXCEPT ![t].friend = e, ![e].friend = t]
           /\ widgets' = widgets \ deleted
           /\ content' = [x \in Created |-> IF content[x] \in deleted THEN 0 ELSE content[x]]
           /\ listens' = IF e = 0 THEN listens ELSE listens \cup {<<e, t>>}
           /\ UNCHANGED <<registry, reversed, within, dropped>>

\* on_textEdited of every tree that listens, and keyPressEvent up or down for the one that the
\* edit knows: both leave a tree alone that was disposed.
TypeText(e) ==
  /\ e \in Named /\ items[e].type = "edit" /\ e \in widgets
  /\ \E t \in {l[2] : l \in {m \in listens : m[1] = e}} : items[t].ptr /\ Fails(Following(t, "listener"))

KeyDown(e) ==
  LET t == items[e].friend IN
  /\ e \in Named /\ items[e].type = "edit" /\ e \in widgets
  /\ t \in reversed /\ Fails(Following(t, "friend"))

-----------------------------------------------------------------------------
(* P_DISPOSE *)

\* Dispose: the item leaves both maps and forgets its widget; what an adjustment has for a
\* widget is the bar, which may be that of a scroll bar control.
Forget(i) ==
  /\ items' = [items EXCEPT ![i].ptr = FALSE, ![i].bar = NoBar]
  /\ registry' = [registry EXCEPT ![items[i].id] = 0]
  /\ reversed' = reversed \ {CASE items[i].type # "adjustment" -> i
                               [] items[i].type = "adjustment" /\ items[i].bar.axis = "own" -> items[i].bar.of
                               [] OTHER -> 0}

DisposeControl(i) ==
  /\ i \in Named /\ items[i].ptr
  /\ LET f == Following(i, IF items[i].type = "adjustment" THEN "bar" ELSE "name")
     IN \/ Fails(f)
        \/ /\ Works(f)
           /\ Forget(i)
           /\ UNCHANGED <<widgets, within, content, listens, dropped>>

-----------------------------------------------------------------------------
Init ==
  /\ items = <<>> /\ registry = [id \in Ids |-> 0] /\ reversed = {} /\ widgets = {}
  /\ within = <<>> /\ content = <<>> /\ listens = {} /\ fault = NoFault /\ dropped = {}

Next ==
  /\ fault = NoFault
  /\ \/ \E id \in NextIds, p \in Containers \cup {0} :
          \/ CreateBox(id, p) \/ CreateButton(id, p) \/ CreateExpander(id, p) \/ CreateScrolled(id, p)
          \/ CreateTree(id, p) \/ CreateEdit(id, p) \/ CreateForm(id, p) \/ CreateAdjustment(id, p)
          \/ \E a \in Ids \cup {0}, horizontal \in BOOLEAN : CreateScrollbar(id, p, a, horizontal)
     \/ \E i \in Named, j \in Named \cup {0} :
          \/ \E axis \in Axes : SetAdjustmentOf(i, j, axis)
          \/ SetParent(i, j)
          \/ SetSearch(i, j)
     \/ \E i \in Named :
          \/ SetRange(i) \/ SetPacking(i) \/ SetPosition(i) \/ DisposeControl(i) \/ TypeText(i) \/ KeyDown(i)
          \/ \E id \in Ids : SetDefault(i, id)
          \/ \E shown \in BOOLEAN : SetVisible(i, shown)
     \/ \E b \in Created : SizeHint(b)

Spec == Init /\ [][Next]_vars

-----------------------------------------------------------------------------
(* What a reader may rely on *)

Bar == [of : Nat, axis : {"none", "h", "v", "own"}, since : Nat]
Item ==
  [id : Ids, type : Types, ptr : BOOLEAN, visible : BOOLEAN, parent : Nat, adj : Nat, hadj : Nat, bar : Bar,
   child : Nat, friend : Nat, flags : BOOLEAN, made : Nat, asked : SUBSET Axes]

TypeOK ==
  /\ items \in Seq(Item)
  /\ registry \in [Ids -> 0..MaxItems] /\ reversed \subseteq Created /\ widgets \subseteq Created
  /\ within \in Seq(Nat) /\ Len(within) = Len(items) /\ content \in Seq(Nat) /\ Len(content) = Len(items)
  /\ dropped \subseteq Created

\* The two maps agree: what the server can name has its ID and is found by its widget, and
\* what was disposed is found by neither; only disposing of an adjustment takes the entry of
\* a scroll bar that stays (Dispose, CreateControl).
MapsAgree ==
  /\ \A i \in Named : registry[items[i].id] = i
  /\ \A i \in reversed : i \in Named /\ items[i].ptr
  /\ \A i \in Named : items[i].ptr /\ items[i].type # "adjustment" =>
       i \in reversed \/ (items[i].type = "scrollbar" /\ \E a \in Created \ Named : items[a].type = "adjustment")

\* A null pointer is followed only through what still points at a disposed control, for a
\* default control that is not there, or by showing an adjustment that moves nothing yet; a freed
\* widget is followed only after a scrolled window had to make place for another child, or
\* for an edit that two trees had; and what is no layout is taken for one only with a
\* tree (Dispose, SetProperty).
FaultIsExplained ==
  /\ fault.kind = "null" =>
       \/ fault.via = "parent" /\ \E i \in Created \ Named : items[i].type \in {"scrollbar", "expander"}
       \/ fault.via = "child" /\ \E b \in widgets : items[b].child \in Created \ Named
       \/ fault.via = "absent" /\ \E id \in Ids : registry[id] = 0
       \/ fault.via = "name" /\ \E i \in Named : items[i].type = "adjustment" /\ ~items[i].ptr
  /\ fault.kind = "freed" =>
       \/ dropped # {}
       \/ fault.via = "friend" /\ \E t \in Named : items[t].type = "tree" /\ items[t].friend \in Created \ widgets
  /\ fault.kind = "cast" => \E i \in Named : items[i].type = "tree"

\* An adjustment moves the bar that was asked for, of the tree that scrolls, unless
\* it was created in a control, or the tree was put in later, or its ID is that of a former
\* adjustment, which the controls still have (SetAdjustment, Dispose).
AdjustmentsMoveTheirBar ==
  \A a \in Created : items[a].type = "adjustment" =>
    LET b == items[a].bar IN
      /\ b.axis \in {"h", "v"} => \E d \in Created :
           items[d].id = items[a].id /\ (b.axis \in items[d].asked \/ (b.axis = "v" /\ items[d].made # 0))
      /\ b.axis \in {"h", "v"} /\ items[b.of].type = "scrolled" =>
           LET c == content[b.of] IN c \in widgets /\ items[c].type = "tree" /\ c \in Named => c > b.since
=============================================================================
