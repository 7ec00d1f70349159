------------------------------ MODULE TreePaths ------------------------------
(***************************************************************************)
(* How the server and the client name the rows of a tree view: by the        *)
(* positions on the way from the root (callback.cpp: ItemByPath, ItemToPath,   *)
(* the places that CreateTreeItem puts a row at).  A tree gives the children   *)
(* of each row; row 0 is the invisible root, and None is no row.              *)
(***************************************************************************)
EXTENDS Integers, Sequences, SequencesExt

None == -1

ItemByPath(tree, path) ==
  IF path = <<>> THEN None
  ELSE FoldLeft(LAMBDA row, i :
                  IF row = None \/ i < 0 \/ i >= Len(tree[row]) THEN None ELSE tree[row][i + 1],
                0, path)

ParentOf(tree, row) == CHOOSE p \in DOMAIN tree : Contains(tree[p], row)
Placed(tree) == {row \in DOMAIN tree : \E p \in DOMAIN tree : Contains(tree[p], row)}

ItemToPath(tree, row) ==
  LET up[r \in DOMAIN tree] ==
        LET p == ParentOf(tree, r)
            i == SelectInSeq(tree[p], LAMBDA s : s = r) - 1
        IN Append(IF p = 0 THEN <<>> ELSE up[p], i)
  IN up[row]

\* addChild or insertChild.
Put(tree, parent, i, row) ==
  [tree EXCEPT ![parent] =
     IF i < 0 \/ i >= Len(@) THEN Append(@, row) ELSE InsertAt(@, i + 1, row)]

\* MSG_CUSTOM_MESSAGE2: the last number is the position; without a parent the row is nowhere.
PutByPath(tree, path, row) ==
  IF Len(path) <= 1 THEN Put(tree, 0, IF path = <<>> THEN 0 ELSE path[1], row)
  ELSE LET parent == ItemByPath(tree, Front(path))
       IN IF parent = None THEN tree ELSE Put(tree, parent, Last(path), row)

\* MSG_CUSTOM_MESSAGE4: below the row of the path or, if there is none, at the end.
PutBelow(tree, path, i, row) ==
  LET parent == ItemByPath(tree, path)
  IN IF parent = None THEN Put(tree, 0, None, row) ELSE Put(tree, parent, i, row)

\* A row goes with the rows below it.
Below(tree, row) ==
  {row} \cup {r \in Placed(tree) : IsStrictPrefix(ItemToPath(tree, row), ItemToPath(tree, r))}

Removed(tree, row) ==
  [p \in DOMAIN tree |->
     IF p \in Below(tree, row) THEN <<>> ELSE SelectSeq(tree[p], LAMBDA r : r # row)]
=============================================================================
