------------------------------ MODULE AnsiList ------------------------------
(***************************************************************************)
(* AnsiList (AnsiList.cpp): the singly linked list behind MessageStack,     *)
(* CookieList, ShellList and BufferedMessages.  Item remembers the node it   *)
(* reached, so that a loop over the list is linear; every operation that     *)
(* changes the list must forget it.  Nodes are addresses of a heap, and a    *)
(* freed address may be allocated again; what a freed node held is NULL.     *)
(***************************************************************************)
EXTENDS Integers, Sequences, FiniteSets

CONSTANTS
  Nodes,      \* the addresses of the heap
  Objects,    \* what callers put into the list
  NoClean,    \* objects added with no_clean, or of a type Delete does not destroy
  AutoClean,  \* the argument of the constructor
  MaxIndex,   \* the largest index callers use, beyond the end of the list
  NULL

ListAssumption ==
  /\ IsFiniteSet(Nodes)
  /\ NoClean \subseteq Objects
  /\ AutoClean \in BOOLEAN
  /\ MaxIndex \in Nat
  /\ NULL \notin Nodes \cup Objects

Indices == -1..MaxIndex

VARIABLES
  First, count,             \* members of AnsiList
  LastPos, LastIterator,    \* the node the last Item returned, if LastPos # 0
  heap,                     \* the nodes allocated
  next, data,               \* _NextNode and _DATA of each node
  destroyed,                \* objects the list has destroyed
  ret                       \* the last call and what it returned

vars == <<First, count, LastPos, LastIterator, heap, next, data, destroyed, ret>>

Init ==
  /\ First = NULL /\ count = 0
  /\ LastPos = 0 /\ LastIterator = NULL
  /\ heap = {}
  /\ next = [n \in Nodes |-> NULL]
  /\ data = [n \in Nodes |-> NULL]
  /\ destroyed = {}
  /\ ret = [op |-> "new", i |-> 0, value |-> NULL]

-----------------------------------------------------------------------------
\* The node k links after node n, or NULL when the list ends before.
Hop(n, k) ==
  LET hop[j \in Nat] == IF j = 0 THEN n
                        ELSE IF hop[j - 1] = NULL THEN NULL ELSE next[hop[j - 1]]
  IN  IF k < 0 THEN NULL ELSE hop[k]

\* The cursor of a loop that counts i down to zero from First.
NodeAt(i) == Hop(First, i)

\* The nodes of the list and the objects in it.
Walk == [k \in 1..Cardinality({j \in 0..Cardinality(Nodes) : NodeAt(j) # NULL}) |->
           NodeAt(k - 1)]
Contents == [k \in DOMAIN Walk |-> data[Walk[k]]]

Destroys(x) == AutoClean /\ x \notin NoClean

Returns(op, i, value) == ret' = [op |-> op, i |-> i, value |-> value]

-----------------------------------------------------------------------------
\* The loop of Add runs to the last node.
Add(x, n) ==
  /\ data' = [data EXCEPT ![n] = x]
  /\ heap' = heap \cup {n}
  /\ IF First = NULL
     THEN First' = n /\ next' = [next EXCEPT ![n] = NULL]
     ELSE /\ next' = [next EXCEPT ![n] = NULL, ![Walk[Len(Walk)]] = n]
          /\ UNCHANGED First
  /\ count' = count + 1

Insert(x, i) ==
  /\ LastPos' = 0
  /\ IF i < 0 THEN UNCHANGED <<First, count, heap, next, data>>
     ELSE \E n \in Nodes \ heap :
       IF i >= count THEN Add(x, n)
       ELSE /\ data' = [data EXCEPT ![n] = x]
            /\ heap' = heap \cup {n}
            /\ IF i = 0
               THEN First' = n /\ next' = [next EXCEPT ![n] = First]
               ELSE /\ next' = [next EXCEPT ![n] = NodeAt(i), ![NodeAt(i - 1)] = n]
                    /\ UNCHANGED First
            /\ count' = count + 1
  /\ Returns("Insert", i, NULL)
  /\ UNCHANGED <<LastIterator, destroyed>>

\* Mutant: the first node has a predecessor too.
UnlinkBehind(i) ==
  IF i >= count \/ i < 0 THEN UNCHANGED <<First, count, heap, next, data>>
  ELSE LET n == NodeAt(i) IN
       /\ count' = count - 1
       /\ heap' = heap \ {n}
       /\ data' = [data EXCEPT ![n] = NULL]
       /\ next' = [next EXCEPT ![NodeAt(i - 1)] = next[n]]
       /\ UNCHANGED First

\* Takes node i out and frees it: what Delete and Remove have in common.  A
\* negative index walks off the end.
Unlink(i) ==
  IF i >= count \/ i < 0 THEN UNCHANGED <<First, count, heap, next, data>>
  ELSE LET n == NodeAt(i) IN
       /\ count' = count - 1
       /\ heap' = heap \ {n}
       /\ data' = [data EXCEPT ![n] = NULL]
       /\ IF i = 0
          THEN First' = next[n] /\ next' = [next EXCEPT ![n] = NULL]
          ELSE /\ next' = [next EXCEPT ![NodeAt(i - 1)] = next[n], ![n] = NULL]
               /\ UNCHANGED First

Found(i) == IF i \in 0..(count - 1) THEN data[NodeAt(i)] ELSE NULL

\* Mutant: the remembered node survives.
RemoveRemembering(i) ==
  /\ Unlink(i)
  /\ Returns("Remove", i, Found(i))
  /\ UNCHANGED <<LastPos, LastIterator, destroyed>>

Remove(i) ==
  /\ LastPos' = 0
  /\ Unlink(i)
  /\ Returns("Remove", i, Found(i))
  /\ UNCHANGED <<LastIterator, destroyed>>

\* Mutant: the object is destroyed and returned.
DeleteReturning(i) ==
  /\ LastPos' = 0
  /\ Unlink(i)
  /\ destroyed' = destroyed \cup {x \in {Found(i)} \ {NULL} : Destroys(x)}
  /\ Returns("Delete", i, Found(i))
  /\ UNCHANGED LastIterator

Delete(i) ==
  /\ LastPos' = 0
  /\ Unlink(i)
  /\ destroyed' = destroyed \cup {x \in {Found(i)} \ {NULL} : Destroys(x)}
  /\ Returns("Delete", i, IF Destroys(Found(i)) THEN NULL ELSE Found(i))
  /\ UNCHANGED LastIterator

Clear ==
  /\ LastPos' = 0
  /\ destroyed' = destroyed \cup {x \in {Contents[k] : k \in DOMAIN Contents} : Destroys(x)}
  /\ First' = NULL /\ count' = 0 /\ heap' = {}
  /\ next' = [n \in Nodes |-> NULL] /\ data' = [n \in Nodes |-> NULL]
  /\ Returns("Clear", 0, NULL)
  /\ UNCHANGED LastIterator

\* Item starts from the remembered node when it is not behind the index.
Item(i) ==
  LET start == IF LastPos # 0 /\ i >= LastPos THEN Hop(LastIterator, i - LastPos)
               ELSE NodeAt(i)
  IN
  /\ IF i >= count \/ i < 0 \/ start = NULL
     THEN UNCHANGED <<LastPos, LastIterator>> /\ Returns("Item", i, NULL)
     ELSE LastPos' = i /\ LastIterator' = start /\ Returns("Item", i, data[start])
  /\ UNCHANGED <<First, count, heap, next, data, destroyed>>

\* Callers add what is in no list and was not destroyed.
Next ==
  \/ \E x \in Objects \ ({Contents[k] : k \in DOMAIN Contents} \cup destroyed), i \in Indices :
       Insert(x, i)
  \/ \E i \in Indices : Remove(i) \/ Delete(i) \/ Item(i)
  \/ Clear

Spec == Init /\ [][Next]_vars

-----------------------------------------------------------------------------
\* The list is a well formed chain: count is its length, its nodes are the ones
\* allocated (none leaks, none is freed twice) and no node occurs twice.
TypeOK ==
  /\ count = Len(Walk)
  /\ heap = {Walk[k] : k \in DOMAIN Walk} /\ Cardinality(heap) = count
  /\ heap \subseteq Nodes /\ First \in Nodes \cup {NULL}
  /\ LastPos \in Nat

\* The node Item remembers is still the one at its position: no operation frees
\* or moves it without forgetting it.
IteratorIsFresh == LastPos # 0 => LastIterator \in heap /\ LastIterator = NodeAt(LastPos)

\* Seen from its callers AnsiList is a sequence that owns objects, whatever
\* Item remembers and whichever addresses the heap gives out.
Refines == INSTANCE ObjectList WITH
  list  <- Contents,
  Owned <- IF AutoClean THEN Objects \ NoClean ELSE {}

IsObjectList == Refines!Spec
=============================================================================
