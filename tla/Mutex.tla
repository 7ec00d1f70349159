------------------------------- MODULE Mutex -------------------------------
(***************************************************************************)
(* What a lock promises: one thread at a time is inside.                    *)
(***************************************************************************)
CONSTANT Threads
VARIABLE inside  \* the threads inside

Init == inside = {}

Enter(t) == inside = {} /\ inside' = {t}
Leave(t) == t \in inside /\ inside' = inside \ {t}

Next == \E t \in Threads : Enter(t) \/ Leave(t)

Spec == Init /\ [][Next]_inside
=============================================================================
