----------------------------- MODULE LossyFifo -----------------------------
(***************************************************************************)
(* What one direction of the client's message exchange promises: messages  *)
(* are numbered in the order they are submitted, some may be lost (a        *)
(* connection breaks, the client disconnects), and those that are delivered *)
(* are delivered once and in the order of submission.  ClientSession is     *)
(* shown to implement it twice: for the messages of the user interface and  *)
(* for the frames of the server.                                            *)
(***************************************************************************)
EXTENDS Naturals, Sequences

VARIABLES
  next,      \* the number of the next message to be submitted
  pending,   \* the messages submitted, not delivered and not lost
  out        \* the messages delivered, in the order of delivery

vars == <<next, pending, out>>

TypeOK ==
  /\ next \in Nat
  /\ pending \in SUBSET Nat
  /\ out \in Seq(Nat)

Init ==
  /\ next = 1
  /\ pending = {}
  /\ out = <<>>

Submit ==
  /\ next' = next + 1
  /\ pending' = pending \cup {next}
  /\ UNCHANGED out

\* The oldest pending message is delivered: nothing is overtaken.
Deliver ==
  \E m \in pending :
    /\ \A n \in pending : m <= n
    /\ pending' = pending \ {m}
    /\ out' = Append(out, m)
    /\ UNCHANGED next

Lose ==
  \E kept \in SUBSET pending :
    /\ pending' = kept
    /\ UNCHANGED <<next, out>>

Next == Submit \/ Deliver \/ Lose

Spec == Init /\ [][Next]_vars

-----------------------------------------------------------------------------
\* Strictly increasing: no message is delivered twice or after a later one.
InOrder == \A i, j \in 1..Len(out) : i < j => out[i] < out[j]

\* What makes InOrder inductive: whatever is pending is newer than whatever was
\* delivered, and older than what is still to be submitted.
Inv ==
  /\ TypeOK
  /\ InOrder
  /\ \A m \in pending : m < next /\ \A i \in 1..Len(out) : out[i] < m
  /\ \A i \in 1..Len(out) : out[i] < next
=============================================================================
