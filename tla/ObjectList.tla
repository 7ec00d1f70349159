----------------------------- MODULE ObjectList -----------------------------
(***************************************************************************)
(* What a list of objects promises its callers: indexed access to a         *)
(* sequence, and the destruction of the objects it owns when they are       *)
(* deleted, never when they are removed.                                    *)
(***************************************************************************)
EXTENDS Integers, Sequences

CONSTANTS
  Objects,   \* what the list may hold
  Owned,     \* the objects the list destroys
  Indices,   \* the indices callers use, negative ones too
  NULL

VARIABLES
  list,       \* the objects of the list
  destroyed,  \* the objects the list has destroyed
  ret         \* the last call and what it returned

vars == <<list, destroyed, ret>>

\* Named, for SequencesExt has a Remove of its own.
Ext == INSTANCE SequencesExt

Init == list = <<>> /\ destroyed = {} /\ ret = [op |-> "new", i |-> 0, value |-> NULL]

Valid(i) == i \in 0..(Len(list) - 1)

Returns(op, i, value) == ret' = [op |-> op, i |-> i, value |-> value]

\* An index beyond the end appends; a negative one is ignored.
Insert(x, i) ==
  /\ list' = IF i < 0 THEN list
             ELSE IF Valid(i) THEN Ext!InsertAt(list, i + 1, x) ELSE Append(list, x)
  /\ UNCHANGED destroyed
  /\ Returns("Insert", i, NULL)

\* The caller gets the object.
Remove(i) ==
  /\ list' = IF Valid(i) THEN Ext!RemoveAt(list, i + 1) ELSE list
  /\ UNCHANGED destroyed
  /\ Returns("Remove", i, IF Valid(i) THEN list[i + 1] ELSE NULL)

\* The list destroys an object it owns; any other goes to the caller.
Delete(i) ==
  /\ list' = IF Valid(i) THEN Ext!RemoveAt(list, i + 1) ELSE list
  /\ destroyed' = destroyed \cup (IF Valid(i) THEN {list[i + 1]} \cap Owned ELSE {})
  /\ Returns("Delete", i, IF Valid(i) /\ list[i + 1] \notin Owned THEN list[i + 1] ELSE NULL)

Clear ==
  /\ list' = <<>>
  /\ destroyed' = destroyed \cup (Ext!ToSet(list) \cap Owned)
  /\ Returns("Clear", 0, NULL)

Item(i) ==
  /\ UNCHANGED <<list, destroyed>>
  /\ Returns("Item", i, IF Valid(i) THEN list[i + 1] ELSE NULL)

Free == Objects \ (Ext!ToSet(list) \cup destroyed)

Next ==
  \/ \E x \in Free, i \in Indices : Insert(x, i)
  \/ \E i \in Indices : Remove(i) \/ Delete(i) \/ Item(i)
  \/ Clear

Spec == Init /\ [][Next]_vars
=============================================================================
