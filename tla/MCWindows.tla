----------------------------- MODULE MCWindows -----------------------------
(***************************************************************************)
(* Windows for TLC: which headers, controls and code the server sends.       *)
(***************************************************************************)
EXTENDS Windows, TLC

CONSTANTS label, image, eventbox, button  \* headers of a notebook

\* What names a tab, what closes it and is put on it, and what has a pointer that is
\* followed later.
TheNotebooks ==
  {[name |-> "names", headers |-> {label}, kind |-> label :> "label", titled |-> {1, 3}, max |-> 3],
   [name |-> "buttons", headers |-> {eventbox, button},
    kind |-> (eventbox :> "eventbox") @@ (button :> "button"), titled |-> {}, max |-> 2],
   [name |-> "images", headers |-> {image, button},
    kind |-> (image :> "image") @@ (button :> "button"), titled |-> {}, max |-> 2]}

\* Adjustments of windows and scroll bars, those of a window that gets another child, an
\* entry that searches in trees, and what is in forms, buttons and expanders.
Places == {"form", "button", "expander", "scrolled", "tree"}
TheRegistries ==
  {[name |-> "ranges", ids |-> 1..3, types |-> {"scrolled", "tree", "scrollbar", "adjustment"},
    parents |-> {"scrolled"}, moved |-> {}, axes |-> {"h", "v"}, max |-> 3],
   [name |-> "bars", ids |-> 1..3, types |-> {"scrolled", "tree", "adjustment"},
    parents |-> {"scrolled"}, moved |-> {}, axes |-> {"v"}, max |-> 4],
   [name |-> "search", ids |-> 1..3, types |-> {"scrolled", "tree", "edit"},
    parents |-> {"scrolled"}, moved |-> {}, axes |-> {}, max |-> 4],
   [name |-> "places", ids |-> 1..2, types |-> Places,
    parents |-> Places, moved |-> Places \ {"form"}, axes |-> {}, max |-> 3]}

-----------------------------------------------------------------------------
(* The code that the server may send with an event *)

Code(name, params, body) == [name |-> name, params |-> params, vars |-> TRUE, code |-> body]
Op(op) == [op |-> op]
CallOf(fn, args) == [op |-> "call", fn |-> fn, args |-> args, res |-> 1]
If(to) == [op |-> "if", to |-> to]
Give(value) == [op |-> "return", value |-> value]

\* An event that asks, shows dialogs and calls; a helper that may fail, loop or give nothing.
Bodies == [1..3 -> {Op("ask"), Op("wait"), Op("dialog"), CallOf("help", 1)}]
Helpers == {<<>>, <<Give(TRUE)>>, <<Op("throw")>>, <<Op("divide")>>, <<Op("ask")>>, <<If(1), Give(TRUE)>>,
            <<CallOf("again", 0), Give(FALSE)>>, <<If(3), Op("throw"), Op("wait")>>}
CallPackages ==
  {[entry |-> "main",
    functions |-> <<Code("main", 1, b), Code("help", k, h),
                    [Code("again", 0, <<Give(TRUE)>>) EXCEPT !.vars = v]>>] :
     b \in Bodies, h \in Helpers, k \in {1, 2}, v \in BOOLEAN}

\* Two versions of one event, and one that needs three parameters.
VersionPackages ==
  {[entry |-> e, functions |-> <<Code(e, k, b)>>] :
     e \in {"main", "other"}, k \in {2, 3}, b \in {<<Op("dialog")>>, <<Op("throw")>>}}

\* An object with its number or without, a property of it or of "this", read or assigned.
Member(rid) == [op |-> "sel", res |-> 1, left |-> 0, rid |-> rid, get |-> "none", set |-> "none"]
Property(left, rid, get) == [op |-> "sel", res |-> 2, left |-> left, rid |-> rid, get |-> get, set |-> "put"]
AssignTo(v) == [op |-> "assign", res |-> v]
ObjectPackages ==
  {[entry |-> "main",
    functions |-> <<Code("main", 1, <<m, p, AssignTo(2), a>>), Code("get", 0, <<Give(TRUE)>>),
                    Code("put", k, h)>>] :
     m \in {Member(-1), Member(7), Op("ask")}, a \in {AssignTo(1), CallOf("get", 0)},
     p \in {Property(l, r, g) : l \in {0, 1}, r \in {-1, 8}, g \in {"none", "get", "lost"}},
     k \in {1, 2}, h \in {<<Give(FALSE)>>, <<Op("throw")>>}}

\* One event and two clicks; two buttons, three clicks, and three events of which one comes
\* again; one event again.
TheMachines ==
  {[name |-> "calls", controls |-> {1}, packages |-> CallPackages, functions |-> 1, events |-> 2, calls |-> 6,
    depth |-> 4],
   [name |-> "versions", controls |-> {1, 2}, packages |-> VersionPackages, functions |-> 3, events |-> 3,
    calls |-> 6, depth |-> 4],
   [name |-> "objects", controls |-> {1}, packages |-> ObjectPackages, functions |-> 1, events |-> 2,
    calls |-> 8, depth |-> 3]}
=============================================================================
