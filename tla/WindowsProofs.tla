---------------------------- MODULE WindowsProofs ----------------------------
(***************************************************************************)
(* The windows of an application, for any notebooks, headers, registries,    *)
(* kinds of controls, events, code and bounds: first the events and the code  *)
(* they run (CompensationParser), then its instructions (DataElements), the    *)
(* tabs (Notebook) and the registry (Controls).  Each part has an invariant    *)
(* and one lemma for each action.                                           *)
(***************************************************************************)
EXTENDS Windows, SequenceTheorems, FiniteSetTheorems, WellFoundedInduction, TLAPS

-----------------------------------------------------------------------------
(* Numbers and sequences *)

\* A set of numbers that is not empty has a least one.
LEMMA LeastOne ==
  ASSUME NEW S, S \subseteq Nat, S # {}
  PROVE  \E m \in S : \A j \in S : m <= j
<1> DEFINE Less == OpToRel(<, Nat)
<1>1. IsWellFoundedOn(Less, Nat)
  BY NatLessThanWellFounded DEF OpToRel
<1>2. PICK m \in S : \A j \in S : ~(<<j, m>> \in Less)
  <2> HIDE DEF Less
  <2> QED BY <1>1, WFMin
<1>3. ASSUME NEW j \in S PROVE m <= j
  <2>1. j \in Nat /\ m \in Nat
    OBVIOUS
  <2>2. ~(j < m)
    BY <1>2, <2>1 DEF OpToRel
  <2> HIDE DEF Less
  <2> QED BY <2>1, <2>2
<1> QED BY <1>2, <1>3

\* A sequence without its last element.
LEMMA WithoutLast ==
  ASSUME NEW T, NEW s \in Seq(T), s # <<>>
  PROVE  /\ SubSeq(s, 1, Len(s) - 1) \in Seq(T) /\ Len(SubSeq(s, 1, Len(s) - 1)) = Len(s) - 1 /\ Len(s) \in Nat \ {0}
         /\ \A d \in 1..(Len(s) - 1) : SubSeq(s, 1, Len(s) - 1)[d] = s[d]
<1>1. Len(s) \in Nat \ {0} /\ \A d \in 1..(Len(s) - 1) : s[d] \in T
  BY EmptySeq
<1>2. /\ SubSeq(s, 1, Len(s) - 1) \in Seq(T)
      /\ Len(SubSeq(s, 1, Len(s) - 1)) = IF 1 <= Len(s) - 1 THEN (Len(s) - 1) - 1 + 1 ELSE 0
      /\ \A d \in 1..((Len(s) - 1) - 1 + 1) : SubSeq(s, 1, Len(s) - 1)[d] = s[1 + d - 1]
  BY <1>1, SubSeqProperties
<1>3. Len(SubSeq(s, 1, Len(s) - 1)) = Len(s) - 1
  <2> DEFINE n == Len(s)
             l == Len(SubSeq(s, 1, n - 1))
  <2>1. n \in Nat \ {0} /\ l = IF 1 <= n - 1 THEN (n - 1) - 1 + 1 ELSE 0
    BY <1>1, <1>2
  <2> HIDE DEF n, l
  <2>2. l = n - 1
    BY <2>1
  <2> QED BY <2>2 DEF n, l
<1>4. ASSUME NEW d \in 1..(Len(s) - 1) PROVE SubSeq(s, 1, Len(s) - 1)[d] = s[d]
  <2>1. d \in 1..((Len(s) - 1) - 1 + 1) /\ 1 + d - 1 = d
    BY <1>1
  <2> QED BY <1>2, <2>1
<1> QED BY <1>1, <1>2, <1>3, <1>4

-----------------------------------------------------------------------------
(* CompensationParser: functions by their names *)

IsFirst(fs, name, f) ==
  f \in 1..Len(fs) /\ fs[f].name = name /\ \A j \in 1..Len(fs) : fs[j].name = name => f <= j

\* Find gives the first function of a name, if there is one.
LEMMA FindsTheFirst ==
  ASSUME NEW k, NEW T, NEW fs \in Seq(T), NEW name
  PROVE  /\ Machine(k)!Find(fs, name) \in 0..Len(fs)
         /\ (\E j \in 1..Len(fs) : fs[j].name = name) =>
              Machine(k)!Find(fs, name) > 0 /\ IsFirst(fs, name, Machine(k)!Find(fs, name))
<1> DEFINE N == Machine(k)!Named(fs, name)
<1>1. N = {j \in 1..Len(fs) : fs[j].name = name} /\ Len(fs) \in Nat
  BY DEF Machine!Named
<1>2. CASE N = {}
  BY <1>1, <1>2 DEF Machine!Find
<1>3. CASE N # {}
  <2>1. \E m \in N : \A j \in N : m <= j
    <3>1. N \subseteq Nat
      BY <1>1
    <3> HIDE DEF N
    <3> QED BY <1>3, <3>1, LeastOne
  <2>2. Machine(k)!Find(fs, name) = CHOOSE m \in N : \A j \in N : m <= j
    BY <1>3 DEF Machine!Find
  <2>3. Machine(k)!Find(fs, name) \in N /\ \A j \in N : Machine(k)!Find(fs, name) <= j
    <3> HIDE DEF N
    <3> QED BY <2>1, <2>2
  <2> QED BY <1>1, <2>3 DEF IsFirst
<1> QED BY <1>2, <1>3

\* Where functions are appended, the first stays the first.
LEMMA FirstStays ==
  ASSUME NEW T, NEW fs \in Seq(T), NEW hs \in Seq(T), NEW name, NEW f, NEW h,
         IsFirst(fs, name, f), IsFirst(hs, name, h),
         Len(fs) <= Len(hs), \A j \in 1..Len(fs) : hs[j] = fs[j]
  PROVE  h = f /\ hs[f] = fs[f]
<1>1. Len(fs) \in Nat /\ Len(hs) \in Nat
  OBVIOUS
<1>2. /\ f \in 1..Len(fs) /\ fs[f].name = name /\ \A j \in 1..Len(fs) : fs[j].name = name => f <= j
      /\ h \in 1..Len(hs) /\ hs[h].name = name /\ \A j \in 1..Len(hs) : hs[j].name = name => h <= j
  BY DEF IsFirst
<1>3. h <= f
  <2>1. f \in 1..Len(hs) /\ hs[f].name = name
    BY <1>1, <1>2
  <2> QED BY <1>2, <2>1
<1>4. h \in 1..Len(fs) /\ fs[h].name = name
  BY <1>1, <1>2, <1>3
<1> QED BY <1>1, <1>2, <1>3, <1>4

-----------------------------------------------------------------------------
(* CompensationParser: the activations of Execute *)

Ref == [rid : Int, left : (-1)..2, set : STRING \cup {"none"}]

Frame ==
  [fn : Nat, ip : Int, phase : {"run", "called", "setting", "dialog"}, sender : Int, act : Nat, base : BOOLEAN,
   id : Nat, refs : [0..2 -> Ref], res : 0..2, callee : Nat]

\* An activation of one of m functions, for one of the events that sent "as" last and of
\* which "ps" showed dialogs, after c functions, of which the last that wrote return_value is r.
FrameOK(f, m, as, ps, c, r) ==
  /\ f.fn \in 1..m /\ f.act \in 1..Len(as) /\ f.id \in 1..c /\ f.callee \in 0..r
  /\ f.phase = "dialog" => as[f.act] = "dialog" /\ f.act \in ps

\* What waits for something: it called what came later, or shows the dialog of an earlier event.
Below(f, g) ==
  /\ f.phase # "run" /\ f.callee <= g.id /\ f.act <= g.act
  /\ f.phase = "dialog" => f.act < g.act

\* Only the innermost runs, and what is between two dialogs is of one event.
Nested(s, m, as, ps, c, r) ==
  /\ \A d \in 1..Len(s) : FrameOK(s[d], m, as, ps, c, r)
  /\ \A d, e \in 1..Len(s) : d < e => Below(s[d], s[e])
  /\ \A d \in 1..Len(s) : d < Len(s) /\ s[d].phase # "dialog" => s[d].act = s[d + 1].act

\* Why an event may end by an error: an instruction of it failed, or one of an event that ran
\* while it showed a dialog.
Reason(a) == a \in failed \/ (a \in paused /\ \E b \in failed : b > a)

MachineTypes(k) ==
  /\ flist \in Seq(Machine(k)!Function) /\ entry \in [k.controls -> STRING \cup {"none"}]
  /\ \A c \in k.controls : entry[c] = "none" \/ \E j \in 1..Len(flist) : flist[j].name = entry[c]
  /\ stack \in Seq(Frame) /\ Len(stack) <= k.depth
  /\ err \in BOOLEAN /\ asked \in Seq({"none", "ask", "dialog"}) /\ out \in 0..Len(asked)
  /\ calls \in 0..k.calls /\ ret \in 0..calls /\ leaked \in Nat /\ contexts = Len(stack) + leaked
  /\ failed \subseteq 1..Len(asked) /\ aborted \subseteq 1..Len(asked) /\ paused \subseteq 1..Len(asked)

\* The answer that is there is the one of the event that runs, an error is there only when
\* what runs is about to end by it, and ends for a reason.
MachineInv(k) ==
  /\ MachineTypes(k)
  /\ Nested(stack, Len(flist), asked, paused, calls, ret)
  /\ \A f \in Frame : stack # <<>> /\ f = stack[Len(stack)] =>
       /\ asked[f.act] = "ask" => out = f.act
       /\ err => f.phase # "run" /\ Reason(f.act)
  /\ \A a \in aborted : Reason(a)
  /\ ~stale /\ ~unanswered /\ ~crossed

\* What the fields of an activation are.
LEMMA FrameTypes ==
  ASSUME NEW f \in Frame
  PROVE  /\ f.fn \in Nat /\ f.ip \in Int /\ f.sender \in Int /\ f.act \in Nat /\ f.base \in BOOLEAN
         /\ f.id \in Nat /\ f.res \in 0..2 /\ f.callee \in Nat
         /\ f.phase \in {"run", "called", "setting", "dialog"}
         /\ f.refs \in [0..2 -> Ref]
BY DEF Frame

\* What Nested says, with the number of activations.
LEMMA NestedSays ==
  ASSUME NEW s \in Seq(Frame), NEW m, NEW as, NEW ps, NEW c, NEW r, Nested(s, m, as, ps, c, r),
         NEW n, n = Len(s)
  PROVE  /\ n \in Nat /\ (n = 0 <=> s = <<>>)
         /\ \A d \in 1..n : s[d] \in Frame /\ FrameOK(s[d], m, as, ps, c, r)
         /\ \A d, e \in 1..n : d < e => Below(s[d], s[e])
         /\ \A d \in 1..n : d < n /\ s[d].phase # "dialog" => s[d].act = s[d + 1].act
<1>1. n \in Nat /\ (n = 0 <=> s = <<>>)
  BY EmptySeq
<1>2. \A d \in 1..n : s[d] \in Frame
  BY ElementOfSeq
<1>3. \A d \in 1..n : FrameOK(s[d], m, as, ps, c, r)
  BY DEF Nested
<1>4. \A d, e \in 1..n : d < e => Below(s[d], s[e])
  BY DEF Nested
<1>5. \A d \in 1..n : d < n /\ s[d].phase # "dialog" => s[d].act = s[d + 1].act
  BY DEF Nested
<1> QED BY <1>1, <1>2, <1>3, <1>4, <1>5

\* The innermost returns.
LEMMA NestedPop ==
  ASSUME NEW s \in Seq(Frame), s # <<>>, NEW m, NEW as, NEW ps, NEW c \in Nat, NEW r \in Nat,
         Nested(s, m, as, ps, c, r)
  PROVE  LET t == SubSeq(s, 1, Len(s) - 1) IN
         /\ t \in Seq(Frame) /\ Len(t) = Len(s) - 1 /\ Len(s) \in Nat \ {0} /\ s[Len(s)] \in Frame
         /\ Nested(t, m, as, ps, c, r) /\ Nested(t, m, as, ps, c, s[Len(s)].id)
         /\ t # <<>> => LET f == t[Len(t)]
                            g == s[Len(s)] IN
              /\ f \in Frame /\ Below(f, g) /\ FrameOK(f, m, as, ps, c, r)
              /\ f.phase # "dialog" => f.act = g.act
<1> DEFINE t == SubSeq(s, 1, Len(s) - 1)
<1>1. /\ t \in Seq(Frame) /\ Len(t) = Len(s) - 1 /\ Len(s) \in Nat \ {0}
      /\ \A d \in 1..(Len(s) - 1) : t[d] = s[d]
  BY WithoutLast
<1>2. /\ \A d \in 1..Len(s) : s[d] \in Frame /\ FrameOK(s[d], m, as, ps, c, r)
      /\ \A d, e \in 1..Len(s) : d < e => Below(s[d], s[e])
      /\ \A d \in 1..Len(s) : d < Len(s) /\ s[d].phase # "dialog" => s[d].act = s[d + 1].act
  BY NestedSays
<1> HIDE DEF t
<1> DEFINE n == Len(s)
<1>3. /\ n \in Nat \ {0} /\ Len(t) = n - 1 /\ n \in 1..n
      /\ \A d \in 1..(n - 1) : d \in 1..n /\ t[d] = s[d] /\ d < n
  BY <1>1
<1> HIDE DEF n
<1>4. ASSUME NEW q \in {r, s[n].id} PROVE \A d \in 1..(n - 1) : FrameOK(t[d], m, as, ps, c, q)
  <2> TAKE d \in 1..(n - 1)
  <2>1. FrameOK(t[d], m, as, ps, c, r) /\ Below(t[d], s[n]) /\ t[d] \in Frame /\ s[n] \in Frame
    BY <1>2, <1>3 DEF n
  <2>2. t[d].callee <= s[n].id /\ t[d].callee \in Nat /\ s[n].id \in Nat
    BY <2>1, FrameTypes DEF Below
  <2>3. t[d].callee \in 0..q
    BY <2>1, <2>2 DEF FrameOK, n
  <2> QED BY <2>1, <2>3 DEF FrameOK
<1>5. \A d, e \in 1..(n - 1) : d < e => Below(t[d], t[e])
  BY <1>2, <1>3 DEF n
<1>6. ASSUME NEW d \in 1..(n - 1), d < n - 1, t[d].phase # "dialog" PROVE t[d].act = t[d + 1].act
  <2>1. d \in 1..n /\ d < n /\ d + 1 \in 1..(n - 1) /\ t[d] = s[d] /\ t[d + 1] = s[d + 1]
    BY <1>3, <1>6
  <2> QED BY <1>2, <1>6, <2>1 DEF n
<1>7. ASSUME NEW q \in {r, s[n].id} PROVE Nested(t, m, as, ps, c, q)
  <2>1. Len(t) = n - 1
    BY <1>3
  <2> QED BY <1>4, <1>5, <1>6, <2>1 DEF Nested
<1>8. ASSUME t # <<>>
      PROVE  /\ t[Len(t)] \in Frame /\ Below(t[Len(t)], s[n]) /\ FrameOK(t[Len(t)], m, as, ps, c, r)
             /\ t[Len(t)].phase # "dialog" => t[Len(t)].act = s[n].act
  <2>1. Len(t) \in Nat \ {0}
    BY <1>1, <1>8, EmptySeq
  <2>2. /\ Len(t) \in 1..(n - 1) /\ Len(t) \in 1..n /\ Len(t) < n /\ Len(t) + 1 = n
        /\ t[Len(t)] = s[Len(t)]
    BY <1>3, <2>1
  <2> QED BY <1>2, <1>3, <2>2 DEF n
<1> QED BY <1>1, <1>2, <1>3, <1>7, <1>8 DEF n, t

\* What is known of the others stays when events, functions and dialogs come.
LEMMA FrameKept ==
  ASSUME NEW f \in Frame, NEW m \in Nat, NEW as, NEW ps, NEW c \in Nat, NEW r \in Nat,
         NEW n \in Nat, NEW bs, NEW qs, NEW d \in Nat, NEW q \in Nat,
         FrameOK(f, m, as, ps, c, r), m <= n, Len(as) <= Len(bs), Len(as) \in Nat, Len(bs) \in Nat,
         ps \subseteq qs, c <= d, r <= q, f.phase = "dialog" => bs[f.act] = as[f.act]
  PROVE  FrameOK(f, n, bs, qs, d, q)
<1>1. f.fn \in Nat /\ f.act \in Nat /\ f.id \in Nat /\ f.callee \in Nat
  BY FrameTypes
<1>2. f.fn \in 1..n /\ f.act \in 1..Len(bs) /\ f.id \in 1..d /\ f.callee \in 0..q
  <2>1. f.fn \in 1..m /\ f.act \in 1..Len(as) /\ f.id \in 1..c /\ f.callee \in 0..r
    BY DEF FrameOK
  <2>2. \A x, y \in Nat : x <= y => \A z : (z \in 1..x => z \in 1..y) /\ (z \in 0..x => z \in 0..y)
    OBVIOUS
  <2> QED BY <2>1, <2>2
<1>3. f.phase = "dialog" => bs[f.act] = "dialog" /\ f.act \in qs
  BY DEF FrameOK
<1> QED BY <1>2, <1>3 DEF FrameOK

\* The innermost is changed: as a whole, where its result goes, what property it is, its phase.
Put(s, f) == [s EXCEPT ![Len(s)] = f]
Taking(s, x) == [s EXCEPT ![Len(s)].res = x]
Remembering(s, x, obj) == [s EXCEPT ![Len(s)].res = x, ![Len(s)].refs[x] = obj]
InPhase(s, phase) == [s EXCEPT ![Len(s)].phase = phase]

\* The innermost of some activations is changed.
LEMMA TopChanged ==
  ASSUME NEW s \in Seq(Frame), s # <<>>, NEW f \in Frame
  PROVE  LET t == Put(s, f) IN
         /\ t \in Seq(Frame) /\ Len(t) = Len(s) /\ Len(s) \in Nat \ {0} /\ t[Len(s)] = f /\ t # <<>>
         /\ \A e \in 1..Len(s) : e # Len(s) => t[e] = s[e]
<1> DEFINE n == Len(s)
<1>1. n \in Nat \ {0} /\ n \in 1..n
  BY EmptySeq
<1>2. /\ [s EXCEPT ![n] = f] \in Seq(Frame) /\ Len([s EXCEPT ![n] = f]) = n
      /\ \A e \in 1..n : [s EXCEPT ![n] = f][e] = IF e = n THEN f ELSE s[e]
  BY <1>1, ExceptSeq
<1>3. [s EXCEPT ![n] = f] # <<>>
  BY <1>1, <1>2
<1> QED BY <1>1, <1>2, <1>3 DEF Put

\* The innermost goes on; only what its event sent last changes.
LEMMA NestedTop ==
  ASSUME NEW s \in Seq(Frame), s # <<>>, NEW m \in Nat, NEW as, NEW ps, NEW c \in Nat, NEW r \in Nat,
         Nested(s, m, as, ps, c, r), NEW bs, NEW qs, NEW d \in Nat, NEW q \in Nat,
         Len(as) = Len(bs), Len(as) \in Nat, ps \subseteq qs, c <= d, r <= q,
         \A a \in 1..Len(as) : a # s[Len(s)].act => bs[a] = as[a],
         NEW f \in Frame, FrameOK(f, m, bs, qs, d, q), f.act = s[Len(s)].act, f.id = s[Len(s)].id,
         NEW t \in Seq(Frame), Len(t) = Len(s), t[Len(s)] = f, \A e \in 1..Len(s) : e # Len(s) => t[e] = s[e]
  PROVE  Nested(t, m, bs, qs, d, q)
<1> DEFINE n == Len(s)
<1>1. /\ n \in Nat \ {0} /\ n \in 1..n
      /\ \A e \in 1..n : s[e] \in Frame /\ FrameOK(s[e], m, as, ps, c, r)
      /\ \A e, g \in 1..n : e < g => Below(s[e], s[g])
      /\ \A e \in 1..n : e < n /\ s[e].phase # "dialog" => s[e].act = s[e + 1].act
  <2>1. n \in Nat \ {0} /\ n \in 1..n
    BY EmptySeq
  <2> QED BY <2>1, NestedSays
<1>2. Len(t) = n /\ t[n] = f /\ \A e \in 1..n : e # n => t[e] = s[e]
  OBVIOUS
<1>3. f.act = s[n].act /\ f.id = s[n].id /\ \A a \in 1..Len(as) : a # s[n].act => bs[a] = as[a]
  OBVIOUS
<1> HIDE DEF n
<1>4. \A e \in 1..n : FrameOK(t[e], m, bs, qs, d, q)
  <2> TAKE e \in 1..n
  <2>1. CASE e = n
    BY <1>2, <2>1
  <2>2. CASE e # n
    <3>0. e < n
      BY <1>1, <2>2
    <3>1. s[e] \in Frame /\ FrameOK(s[e], m, as, ps, c, r) /\ Below(s[e], s[n]) /\ t[e] = s[e]
      BY <1>1, <1>2, <2>2, <3>0
    <3>2. s[e].phase = "dialog" => bs[s[e].act] = as[s[e].act]
      <4>1. s[n] \in Frame
        BY <1>1
      <4>2. s[e].act \in Nat /\ s[n].act \in Nat
        BY <3>1, <4>1, FrameTypes
      <4>3. s[e].act \in 1..Len(as)
        BY <3>1 DEF FrameOK
      <4>4. s[e].phase = "dialog" => s[e].act # s[n].act
        BY <3>1, <4>2 DEF Below
      <4> QED BY <1>3, <4>3, <4>4
    <3>3. Len(as) <= Len(bs) /\ Len(bs) \in Nat /\ m <= m
      OBVIOUS
    <3> QED BY <3>1, <3>2, <3>3, FrameKept
  <2> QED BY <2>1, <2>2
<1>5. \A e, g \in 1..n : e < g => Below(t[e], t[g])
  <2>1. \A e \in 1..n : e < n => Below(s[e], f)
    BY <1>1, <1>3 DEF Below
  <2> QED BY <1>1, <1>2, <2>1
<1>6. \A e \in 1..n : e < n /\ t[e].phase # "dialog" => t[e].act = t[e + 1].act
  <2> TAKE e \in 1..n
  <2> HAVE e < n /\ t[e].phase # "dialog"
  <2>1. e \in 1..n /\ e + 1 \in 1..n /\ t[e] = s[e] /\ s[e].act = s[e + 1].act
    BY <1>1, <1>2
  <2> QED BY <1>2, <1>3, <2>1
<1>7. Nested(t, m, bs, qs, d, q)
  BY <1>2, <1>4, <1>5, <1>6 DEF Nested
<1> QED BY <1>1, <1>2, <1>7 DEF n

\* Another is run, by the innermost or by an event while that shows a dialog.
LEMMA NestedPush ==
  ASSUME NEW s \in Seq(Frame), NEW m \in Nat, NEW as, NEW ps, NEW c \in Nat, NEW r \in Nat,
         Nested(s, m, as, ps, c, r), NEW f \in Frame, FrameOK(f, m, as, ps, c, r), r <= f.id,
         s # <<>> => LET g == s[Len(s)] IN
           /\ g.phase # "run" /\ g.act <= f.act
           /\ IF g.phase = "dialog" THEN g.act < f.act ELSE g.act = f.act
  PROVE  LET t == Append(s, f) IN
         /\ t \in Seq(Frame) /\ Len(t) = Len(s) + 1 /\ Len(s) \in Nat /\ t[Len(t)] = f /\ t # <<>>
         /\ Nested(t, m, as, ps, c, r)
<1> DEFINE t == Append(s, f)
<1> DEFINE n == Len(s)
<1>1. /\ n \in Nat /\ (n = 0 <=> s = <<>>)
      /\ \A e \in 1..n : s[e] \in Frame /\ FrameOK(s[e], m, as, ps, c, r)
      /\ \A e, g \in 1..n : e < g => Below(s[e], s[g])
      /\ \A e \in 1..n : e < n /\ s[e].phase # "dialog" => s[e].act = s[e + 1].act
  BY NestedSays
<1>2. /\ t \in Seq(Frame) /\ Len(t) = n + 1 /\ t[n + 1] = f /\ t # <<>>
      /\ \A e \in 1..n : t[e] = s[e]
  BY AppendProperties
<1>3. n > 0 => /\ s[n].phase # "run" /\ s[n].act <= f.act
               /\ IF s[n].phase = "dialog" THEN s[n].act < f.act ELSE s[n].act = f.act
  BY <1>1
<1> HIDE DEF n, t
<1>4. \A e \in 1..(n + 1) : FrameOK(t[e], m, as, ps, c, r)
  <2> TAKE e \in 1..(n + 1)
  <2>1. CASE e = n + 1
    BY <1>2, <2>1
  <2>2. CASE e # n + 1
    <3>1. e \in 1..n
      BY <1>1, <2>2
    <3> QED BY <1>1, <1>2, <3>1
  <2> QED BY <2>1, <2>2
<1>5. \A e \in 1..n : Below(s[e], f)
  <2> TAKE e \in 1..n
  <2>a. n > 0 /\ n \in 1..n
    BY <1>1
  <2>0. s[e] \in Frame /\ s[n] \in Frame /\ n > 0 /\ FrameOK(s[e], m, as, ps, c, r)
    BY <1>1, <2>a
  <2>1. /\ s[e].callee \in Nat /\ s[e].act \in Nat /\ s[n].act \in Nat /\ f.id \in Nat /\ f.act \in Nat
        /\ n > 0
    BY <2>0, FrameTypes
  <2>2. s[e].callee <= f.id
    BY <2>0, <2>1 DEF FrameOK
  <2>3. CASE e = n
    BY <1>3, <2>1, <2>2, <2>3 DEF Below
  <2>4. CASE e # n
    <3>1. e < n
      BY <1>1, <2>4
    <3>2. Below(s[e], s[n])
      BY <1>1, <2>1, <3>1
    <3> QED BY <1>3, <2>1, <2>2, <3>2 DEF Below
  <2> QED BY <2>3, <2>4
<1>6. \A e, g \in 1..(n + 1) : e < g => Below(t[e], t[g])
  <2> TAKE e, g \in 1..(n + 1)
  <2> HAVE e < g
  <2>1. e \in 1..n /\ t[e] = s[e]
    BY <1>1, <1>2
  <2>2. CASE g = n + 1
    BY <1>2, <1>5, <2>1, <2>2
  <2>3. CASE g # n + 1
    <3>1. g \in 1..n /\ t[g] = s[g]
      BY <1>1, <1>2, <2>3
    <3> QED BY <1>1, <2>1, <3>1
  <2> QED BY <2>2, <2>3
<1>7. \A e \in 1..(n + 1) : e < n + 1 /\ t[e].phase # "dialog" => t[e].act = t[e + 1].act
  <2> TAKE e \in 1..(n + 1)
  <2> HAVE e < n + 1 /\ t[e].phase # "dialog"
  <2>1. e \in 1..n /\ t[e] = s[e]
    BY <1>1, <1>2
  <2>2. CASE e = n
    BY <1>2, <1>3, <2>1, <2>2
  <2>3. CASE e # n
    <3>1. e + 1 \in 1..n /\ t[e + 1] = s[e + 1] /\ e < n
      BY <1>1, <1>2, <2>1, <2>3
    <3> QED BY <1>1, <2>1, <3>1
  <2> QED BY <2>2, <2>3
<1>8. Nested(t, m, as, ps, c, r)
  BY <1>2, <1>4, <1>6, <1>7 DEF Nested
<1> QED BY <1>1, <1>2, <1>8 DEF n, t

\* Functions, events and dialogs come, and the activations stay.
LEMMA NestedKept ==
  ASSUME NEW s \in Seq(Frame), NEW m \in Nat, NEW as, NEW ps, NEW c \in Nat, NEW r \in Nat,
         NEW n \in Nat, NEW bs, NEW qs, NEW d \in Nat, NEW q \in Nat,
         Nested(s, m, as, ps, c, r), m <= n, Len(as) <= Len(bs), Len(as) \in Nat, Len(bs) \in Nat,
         ps \subseteq qs, c <= d, r <= q, \A a \in 1..Len(as) : bs[a] = as[a]
  PROVE  Nested(s, n, bs, qs, d, q)
<1>1. ASSUME NEW e \in 1..Len(s) PROVE FrameOK(s[e], n, bs, qs, d, q)
  <2>1. s[e] \in Frame /\ FrameOK(s[e], m, as, ps, c, r)
    BY NestedSays
  <2>2. s[e].act \in 1..Len(as)
    BY <2>1 DEF FrameOK
  <2> QED BY <2>1, <2>2, FrameKept
<1> QED BY <1>1 DEF Nested

\* What MachineInv says of the activation on top.
LEMMA MachineTop ==
  ASSUME NEW k \in Machines, MachineInv(k), stack # <<>>
  PROVE  /\ Machine(k)!Depth = Len(stack) /\ Machine(k)!Top = stack[Len(stack)]
         /\ Machine(k)!Callers = SubSeq(stack, 1, Len(stack) - 1)
         /\ Len(stack) \in Nat \ {0} /\ Len(stack) \in 1..Len(stack)
         /\ Machine(k)!Top \in Frame
         /\ FrameOK(Machine(k)!Top, Len(flist), asked, paused, calls, ret)
         /\ asked[Machine(k)!Top.act] = "ask" => out = Machine(k)!Top.act
         /\ err => Machine(k)!Top.phase # "run" /\ Reason(Machine(k)!Top.act)
<1>1. Machine(k)!Depth = Len(stack) /\ Machine(k)!Top = stack[Len(stack)]
  BY DEF Machine!Depth, Machine!Top
<1>2. stack \in Seq(Frame) /\ Nested(stack, Len(flist), asked, paused, calls, ret)
  BY DEF MachineInv, MachineTypes
<1>3. Len(stack) \in Nat \ {0} /\ Len(stack) \in 1..Len(stack)
  BY <1>2, EmptySeq
<1>4. /\ stack[Len(stack)] \in Frame
      /\ FrameOK(stack[Len(stack)], Len(flist), asked, paused, calls, ret)
  BY <1>2, <1>3, NestedSays
<1> QED BY <1>1, <1>3, <1>4 DEF MachineInv, Machine!Callers

\* The types, one by one.
LEMMA MachineTypesAre ==
  ASSUME NEW k \in Machines, MachineInv(k)
  PROVE  /\ Len(flist) \in Nat /\ Len(asked) \in Nat /\ DOMAIN asked = 1..Len(asked) /\ Len(stack) \in Nat
         /\ calls \in Nat /\ ret \in Nat /\ ret <= calls /\ k.calls \in Nat /\ k.depth \in Nat
         /\ asked \in Seq({"none", "ask", "dialog"}) /\ stack \in Seq(Frame) /\ err \in BOOLEAN
         /\ calls \in 0..k.calls /\ Len(stack) <= k.depth /\ leaked \in Nat
<1>1. k.calls \in Nat /\ k.depth \in Nat
  BY PartsAssumption DEF PartsAssumption, Machine!ParserAssumption
<1> QED BY <1>1 DEF MachineInv, MachineTypes

\* The innermost returns, and an error of it, or one that ends it, is for a reason.
LEMMA MachinePop ==
  ASSUME NEW k \in Machines, MachineInv(k), stack # <<>>, NEW a, a = Machine(k)!Top.act,
         stack' = Machine(k)!Callers,
         UNCHANGED <<flist, entry, calls, out, asked, paused, stale, unanswered, crossed>>,
         ret' \in {ret, Machine(k)!Top.id}, err' \in BOOLEAN,
         \/ contexts' = contexts - 1 /\ leaked' = leaked
         \/ contexts' = contexts /\ leaked' = leaked + 1,
         failed' \in {failed, failed \cup {a}}, aborted' \in {aborted, aborted \cup {a}},
         err' => Reason(a)', aborted' # aborted => Reason(a)'
  PROVE  MachineInv(k)'
<1> DEFINE n == Len(stack)
           f == stack[n]
<1>1. /\ Machine(k)!Top = f /\ f \in Frame /\ FrameOK(f, Len(flist), asked, paused, calls, ret)
      /\ n \in Nat \ {0} /\ a = f.act /\ a \in 1..Len(asked) /\ f.id \in 1..calls
      /\ stack' = SubSeq(stack, 1, n - 1)
  BY MachineTop DEF FrameOK
<1>2. /\ stack' \in Seq(Frame) /\ Len(stack') = n - 1
      /\ Nested(stack', Len(flist), asked, paused, calls, ret')
      /\ stack' # <<>> => LET g == stack'[Len(stack')] IN
           /\ g \in Frame /\ Below(g, f) /\ FrameOK(g, Len(flist), asked, paused, calls, ret)
           /\ g.phase # "dialog" => g.act = f.act
  <2>1. /\ stack \in Seq(Frame) /\ calls \in Nat /\ ret \in Nat
        /\ Nested(stack, Len(flist), asked, paused, calls, ret)
    BY MachineTypesAre DEF MachineInv
  <2>2. ret' \in {ret, stack[Len(stack)].id} /\ stack' = SubSeq(stack, 1, Len(stack) - 1)
    BY <1>1
  <2>3. LET t == SubSeq(stack, 1, Len(stack) - 1) IN
        /\ t \in Seq(Frame) /\ Len(t) = Len(stack) - 1
        /\ Nested(t, Len(flist), asked, paused, calls, ret)
        /\ Nested(t, Len(flist), asked, paused, calls, stack[Len(stack)].id)
        /\ t # <<>> => LET g == t[Len(t)]
                           h == stack[Len(stack)] IN
             /\ g \in Frame /\ Below(g, h) /\ FrameOK(g, Len(flist), asked, paused, calls, ret)
             /\ g.phase # "dialog" => g.act = h.act
    BY <2>1, NestedPop
  <2> QED BY <2>2, <2>3
<1>3. MachineTypes(k)'
  <2>1. ret' \in 0..calls
    BY <1>1, MachineTypesAre
  <2>2. Len(stack') <= k.depth /\ contexts' = Len(stack') + leaked' /\ leaked' \in Nat
    <3>1. contexts = n + leaked /\ n <= k.depth /\ leaked \in Nat
      BY DEF MachineInv, MachineTypes
    <3>2. Len(stack') = n - 1 /\ n \in Nat /\ k.depth \in Nat
      BY <1>1, <1>2, MachineTypesAre
    <3> HIDE DEF n, f
    <3> QED BY <3>1, <3>2
  <2> HIDE DEF n, f
  <2> QED BY <1>1, <1>2, <2>1, <2>2 DEF MachineInv, MachineTypes
<1>4. ASSUME NEW b, Reason(b) PROVE Reason(b)'
  BY <1>4 DEF Reason
<1>5. \A b \in aborted' : Reason(b)'
  BY <1>4 DEF MachineInv
<1>6. ASSUME NEW g \in Frame, stack' # <<>>, g = stack'[Len(stack')]
      PROVE  /\ asked'[g.act] = "ask" => out' = g.act
             /\ err' => g.phase # "run" /\ Reason(g.act)'
  <2>1. /\ Below(g, f) /\ FrameOK(g, Len(flist), asked, paused, calls, ret)
        /\ g.phase # "dialog" => g.act = a
    BY <1>1, <1>2, <1>6
  <2>2. g.act \in Nat /\ f.act \in Nat /\ g.phase \in {"run", "called", "setting", "dialog"}
    BY <1>1, FrameTypes
  <2>3. CASE g.phase = "dialog"
    <3>1. asked[g.act] = "dialog" /\ g.act \in paused /\ g.act < a
      BY <1>1, <2>1, <2>3 DEF FrameOK, Below
    <3>2. ASSUME err' PROVE Reason(g.act)'
      <4>1. Reason(a)'
        BY <3>2
      <4>2. PICK b \in failed' : b = a \/ b > a
        BY <4>1 DEF Reason
      <4>3. b \in Nat /\ a \in Nat
        BY <1>1, MachineTypesAre DEF MachineInv, MachineTypes
      <4>4. b > g.act
        BY <2>2, <3>1, <4>2, <4>3
      <4> QED BY <3>1, <4>4 DEF Reason
    <3> QED BY <2>3, <3>1, <3>2
  <2>4. CASE g.phase # "dialog"
    <3>1. g.act = a /\ g.phase # "run"
      BY <2>1, <2>4 DEF Below
    <3>2. asked[a] = "ask" => out = a
      BY MachineTop
    <3> QED BY <3>1, <3>2
  <2> QED BY <2>3, <2>4
<1>7. Nested(stack', Len(flist'), asked', paused', calls', ret')
  BY <1>2
<1> QED BY <1>3, <1>5, <1>6, <1>7 DEF MachineInv

\* The instruction that is run next, and no error is there.
LEMMA MachineRuns ==
  ASSUME NEW k \in Machines, MachineInv(k), NEW op, Machine(k)!Is(op)
  PROVE  /\ stack # <<>> /\ Machine(k)!Top.phase = "run" /\ ~err
         /\ LET i == Machine(k)!Here IN
              /\ i.op = op
              /\ op = "call" => i.res \in 0..2 /\ i.args \in Nat
              /\ op = "sel" => i.res \in 0..2 /\ i.left \in 0..2 /\ i.rid \in Int /\ i.set \in STRING
              /\ op = "assign" => i.res \in 0..2
              /\ op = "if" => i.to \in Nat
<1>1. stack # <<>> /\ Machine(k)!Top.phase = "run"
  BY DEF Machine!Is, Machine!At
<1>2. ~err /\ Machine(k)!Top.fn \in 1..Len(flist)
  BY <1>1, MachineTop DEF FrameOK
<1>3. flist[Machine(k)!Top.fn] \in Machine(k)!Function
  BY <1>2, ElementOfSeq DEF MachineInv, MachineTypes
<1>4. Machine(k)!Code \in Seq(Machine(k)!Instruction)
  BY <1>3 DEF Machine!Code, Machine!Function
<1>5. Machine(k)!Top.ip \in DOMAIN Machine(k)!Code /\ Machine(k)!Here.op = op
  BY DEF Machine!Is
<1>6. Machine(k)!Here \in Machine(k)!Instruction
  <2> DEFINE c == Machine(k)!Code
  <2>1. DOMAIN c = 1..Len(c)
    BY <1>4, LenProperties
  <2> HIDE DEF c
  <2>2. c[Machine(k)!Top.ip] \in Machine(k)!Instruction
    BY <1>4, <1>5, <2>1, ElementOfSeq DEF c
  <2> QED BY <2>2 DEF Machine!Here, c
<1> DEFINE i == Machine(k)!Here
<1>7. /\ op = "call" => i.res \in 0..2 /\ i.args \in Nat
      /\ op = "sel" => i.res \in 0..2 /\ i.left \in 0..2 /\ i.rid \in Int /\ i.set \in STRING
      /\ op = "assign" => i.res \in 0..2
      /\ op = "if" => i.to \in Nat
  <2> HIDE DEF i
  <2>1. i \in Machine(k)!Instruction /\ i.op = op
    BY <1>5, <1>6 DEF i
  <2> QED BY <2>1 DEF Machine!Instruction, Machine!Vars
<1> QED BY <1>1, <1>2, <1>5, <1>7

\* The innermost goes on, and may ask, take an answer or show a dialog.
LEMMA MachineOn ==
  ASSUME NEW k \in Machines, MachineInv(k), stack # <<>>, ~err,
         NEW g \in Frame, g.act = Machine(k)!Top.act, g.id = Machine(k)!Top.id, g.fn = Machine(k)!Top.fn,
         g.callee = Machine(k)!Top.callee, stack' = Put(stack, g),
         UNCHANGED <<flist, entry, calls, ret, err, contexts, leaked, failed, aborted>>,
         asked' \in Seq({"none", "ask", "dialog"}), Len(asked') = Len(asked), out' \in 0..Len(asked),
         \A a \in 1..Len(asked) : a # g.act => asked'[a] = asked[a],
         paused' \in {paused, paused \cup {g.act}}, asked'[g.act] = "ask" => out' = g.act,
         g.phase = "dialog" => asked'[g.act] = "dialog" /\ g.act \in paused',
         ~stale', ~unanswered', ~crossed'
  PROVE  MachineInv(k)'
<1> DEFINE f == stack[Len(stack)]
<1>1. /\ Machine(k)!Top = f /\ f \in Frame /\ FrameOK(f, Len(flist), asked, paused, calls, ret)
      /\ Len(stack) \in Nat \ {0}
  BY MachineTop
<1>2. FrameOK(g, Len(flist), asked', paused', calls, ret)
  BY <1>1 DEF FrameOK
<1>3. /\ stack' \in Seq(Frame) /\ Len(stack') = Len(stack) /\ stack'[Len(stack)] = g /\ stack' # <<>>
      /\ Nested(stack', Len(flist), asked', paused', calls, ret)
  <2>1. /\ stack \in Seq(Frame) /\ Nested(stack, Len(flist), asked, paused, calls, ret)
        /\ Len(flist) \in Nat /\ calls \in Nat /\ ret \in Nat /\ Len(asked) \in Nat
        /\ calls <= calls /\ ret <= ret
    BY MachineTypesAre DEF MachineInv
  <2>2. /\ Len(asked) = Len(asked') /\ paused \subseteq paused'
        /\ \A a \in 1..Len(asked) : a # stack[Len(stack)].act => asked'[a] = asked[a]
        /\ g.act = stack[Len(stack)].act /\ g.id = stack[Len(stack)].id
    BY <1>1
  <2>3. /\ stack' \in Seq(Frame) /\ Len(stack') = Len(stack) /\ stack'[Len(stack)] = g /\ stack' # <<>>
        /\ \A e \in 1..Len(stack) : e # Len(stack) => stack'[e] = stack[e]
    <3>1. LET t == Put(stack, g) IN
          /\ t \in Seq(Frame) /\ Len(t) = Len(stack) /\ t[Len(stack)] = g /\ t # <<>>
          /\ \A e \in 1..Len(stack) : e # Len(stack) => t[e] = stack[e]
      BY <2>1, TopChanged
    <3> QED BY <3>1
  <2>4. Nested(stack', Len(flist), asked', paused', calls, ret)
    BY <1>2, <2>1, <2>2, <2>3, NestedTop
  <2> QED BY <2>3, <2>4
<1>4. MachineTypes(k)'
  <2>1. g.act \in 1..Len(asked)
    BY <1>1 DEF FrameOK
  <2>2. paused' \subseteq 1..Len(asked)
    BY <2>1 DEF MachineInv, MachineTypes
  <2> QED BY <1>3, <2>2 DEF MachineInv, MachineTypes
<1>5. \A a \in aborted' : Reason(a)'
  BY DEF MachineInv, Reason
<1>6. Nested(stack', Len(flist'), asked', paused', calls', ret')
  BY <1>3
<1>7. stack'[Len(stack')] = g /\ ~err'
  BY <1>3
<1> QED BY <1>4, <1>5, <1>6, <1>7 DEF MachineInv

\* What MachineInv says of what has not changed when the innermost goes on.
LEMMA MachineStays ==
  ASSUME NEW k \in Machines, MachineInv(k), stack # <<>>, ~err
  PROVE  LET f == Machine(k)!Top IN
         /\ asked \in Seq({"none", "ask", "dialog"}) /\ out \in 0..Len(asked) /\ ~stale /\ ~unanswered /\ ~crossed
         /\ asked[f.act] = "ask" => out = f.act
         /\ f.phase = "dialog" => asked[f.act] = "dialog" /\ f.act \in paused
BY MachineTop DEF MachineInv, MachineTypes, FrameOK

-----------------------------------------------------------------------------
(* CompensationParser: the steps *)

\* What is left as it is when the innermost goes on.
Alike(f, g) == g.act = f.act /\ g.id = f.id /\ g.fn = f.fn /\ g.callee = f.callee /\ g.sender = f.sender

\* Onward and InPhase change the innermost only, and nothing that Nested speaks of but its phase.
LEMMA TopMoves ==
  ASSUME NEW k \in Machines, MachineInv(k), stack # <<>>,
         NEW phase \in {"run", "called", "setting", "dialog"}
  PROVE  /\ \E g \in Frame : /\ Alike(Machine(k)!Top, g) /\ g.phase = phase
                             /\ Machine(k)!Onward(phase) = Put(stack, g)
         /\ \E g \in Frame : /\ Alike(Machine(k)!Top, g) /\ g.phase = phase
                             /\ Machine(k)!InPhase(phase) = Put(stack, g)
<1> DEFINE f == stack[Len(stack)]
<1>1. Machine(k)!Top = f /\ f \in Frame /\ Len(stack) \in DOMAIN stack /\ Machine(k)!Depth = Len(stack)
  BY MachineTop, MachineTypesAre, LenProperties
<1>2. [f EXCEPT !.phase = phase] \in Frame /\ [f EXCEPT !.phase = phase, !.ip = @ + 1] \in Frame
  <2> HIDE DEF f
  <2>1. [f EXCEPT !.phase = phase] \in Frame
    BY <1>1 DEF Frame
  <2>2. f.ip + 1 \in Int
    BY <1>1, FrameTypes
  <2>3. [f EXCEPT !.phase = phase, !.ip = f.ip + 1] \in Frame
    BY <1>1, <2>2 DEF Frame
  <2> QED BY <2>1, <2>3
<1>3. /\ Alike(f, [f EXCEPT !.phase = phase]) /\ Alike(f, [f EXCEPT !.phase = phase, !.ip = @ + 1])
      /\ [f EXCEPT !.phase = phase].phase = phase /\ [f EXCEPT !.phase = phase, !.ip = @ + 1].phase = phase
  BY <1>1 DEF Frame, Alike
<1>4. Machine(k)!InPhase(phase) = Put(stack, [f EXCEPT !.phase = phase])
  BY <1>1 DEF Machine!InPhase, Put
<1>5. Machine(k)!Onward(phase) = Put(stack, [f EXCEPT !.phase = phase, !.ip = @ + 1])
  BY <1>1 DEF Machine!Onward, Frame, Put
<1> HIDE DEF f
<1> QED BY <1>1, <1>2, <1>3, <1>4, <1>5

\* An "if": the innermost goes on elsewhere.
LEMMA JumpKeeps ==
  ASSUME NEW k \in Machines, MachineInv(k), Machine(k)!Jump
  PROVE  MachineInv(k)'
<1>1. stack # <<>> /\ Machine(k)!Top.phase = "run" /\ ~err
  BY MachineRuns DEF Machine!Jump
<1>2. /\ Machine(k)!Depth = Len(stack) /\ Machine(k)!Top = stack[Len(stack)] /\ Machine(k)!Top \in Frame
      /\ Len(stack) \in DOMAIN stack
  BY <1>1, MachineTop, MachineTypesAre, LenProperties
<1>3. \E ip \in Int : stack' = [stack EXCEPT ![Machine(k)!Depth].ip = ip]
  <2>1. Machine(k)!Here.to \in Int
    BY MachineRuns DEF Machine!Jump
  <2>2. Machine(k)!Top.ip + 1 \in Int
    BY <1>2, FrameTypes
  <2>3. \E ip \in {Machine(k)!Top.ip + 1, Machine(k)!Here.to} : stack' = [stack EXCEPT ![Machine(k)!Depth].ip = ip]
    BY DEF Machine!Jump
  <2> QED BY <2>1, <2>2, <2>3
<1>4. PICK ip \in Int : stack' = [stack EXCEPT ![Machine(k)!Depth].ip = ip]
  BY <1>3
<1> DEFINE g == [Machine(k)!Top EXCEPT !.ip = ip]
<1>5. g \in Frame /\ Alike(Machine(k)!Top, g) /\ g.phase = "run"
  BY <1>1, <1>2 DEF Frame, Alike
<1>6. stack' = Put(stack, g)
  BY <1>2, <1>4 DEF Put
<1> HIDE DEF g
<1>7. UNCHANGED <<flist, entry, calls, ret, err, contexts, leaked, failed, aborted, asked, out, paused, stale, unanswered, crossed>>
  BY DEF Machine!Jump, Machine!code, Machine!answer, Machine!errors, Machine!notes
<1> QED BY <1>1, <1>5, <1>6, <1>7, MachineOn, MachineStays DEF Alike

\* Code that sends a message and goes on, or waits for the answer.
LEMMA AskKeeps ==
  ASSUME NEW k \in Machines, MachineInv(k), Machine(k)!Ask \/ Machine(k)!Wait \/ Machine(k)!Dialog
  PROVE  MachineInv(k)'
<1> DEFINE a == Machine(k)!Top.act
<1>1. stack # <<>> /\ Machine(k)!Top.phase = "run" /\ ~err
  BY MachineRuns DEF Machine!Ask, Machine!Wait, Machine!Dialog
<1>2. /\ a \in 1..Len(asked) /\ asked \in Seq({"none", "ask", "dialog"}) /\ Len(asked) \in Nat
      /\ out \in 0..Len(asked) /\ ~stale /\ ~unanswered /\ ~crossed /\ (asked[a] = "ask" => out = a)
  BY <1>1, MachineTop, MachineTypesAre, MachineStays DEF FrameOK
<1>3. ASSUME NEW x \in {"none", "ask", "dialog"}
      PROVE  LET as == [asked EXCEPT ![a] = x] IN
             /\ as \in Seq({"none", "ask", "dialog"}) /\ Len(as) = Len(asked) /\ as[a] = x
             /\ \A b \in 1..Len(asked) : b # a => as[b] = asked[b]
  <2> HIDE DEF a
  <2> QED BY <1>2, ExceptSeq
<1>4. UNCHANGED <<flist, entry, calls, ret, err, contexts, leaked, failed, aborted, stale, crossed>>
  BY DEF Machine!Ask, Machine!Wait, Machine!Dialog, Machine!code, Machine!errors, Machine!notes
<1>5. CASE Machine(k)!Ask
  <2>1. asked' = [asked EXCEPT ![a] = "ask"] /\ out' = a /\ UNCHANGED <<unanswered, paused>>
    BY <1>5 DEF Machine!Ask, Machine!notes
  <2>2. PICK g \in Frame : /\ Alike(Machine(k)!Top, g) /\ g.phase = "run"
                           /\ stack' = Put(stack, g)
    BY <1>1, <1>5, TopMoves DEF Machine!Ask
  <2>3. /\ asked' \in Seq({"none", "ask", "dialog"}) /\ Len(asked') = Len(asked) /\ out' \in 0..Len(asked)
        /\ \A b \in 1..Len(asked) : b # g.act => asked'[b] = asked[b]
        /\ out' = g.act
    BY <1>2, <1>3, <2>1, <2>2 DEF Alike
  <2> QED BY <1>1, <1>2, <1>4, <2>1, <2>2, <2>3, MachineOn DEF Alike
<1>6. CASE Machine(k)!Wait
  <2>1. asked' = [asked EXCEPT ![a] = "none"] /\ out' = 0 /\ UNCHANGED paused /\ ~unanswered'
    BY <1>2, <1>6 DEF Machine!Wait, Machine!None, Machine!notes
  <2>2. PICK g \in Frame : /\ Alike(Machine(k)!Top, g) /\ g.phase = "run"
                           /\ stack' = Put(stack, g)
    BY <1>1, <1>6, TopMoves DEF Machine!Wait
  <2>3. /\ asked' \in Seq({"none", "ask", "dialog"}) /\ Len(asked') = Len(asked) /\ out' \in 0..Len(asked)
        /\ \A b \in 1..Len(asked) : b # g.act => asked'[b] = asked[b]
        /\ asked'[g.act] = "none"
    BY <1>2, <1>3, <2>1, <2>2 DEF Alike
  <2> QED BY <1>1, <1>2, <1>4, <2>1, <2>2, <2>3, MachineOn DEF Alike
<1>7. CASE Machine(k)!Dialog
  <2>1. asked' = [asked EXCEPT ![a] = "dialog"] /\ out' = 0 /\ paused' = paused \cup {a} /\ ~unanswered'
    BY <1>2, <1>7 DEF Machine!Dialog
  <2>2. PICK g \in Frame : /\ Alike(Machine(k)!Top, g) /\ g.phase = "dialog"
                           /\ stack' = Put(stack, g)
    BY <1>1, <1>7, TopMoves DEF Machine!Dialog
  <2>3. /\ asked' \in Seq({"none", "ask", "dialog"}) /\ Len(asked') = Len(asked) /\ out' \in 0..Len(asked)
        /\ \A b \in 1..Len(asked) : b # g.act => asked'[b] = asked[b]
        /\ asked'[g.act] = "dialog" /\ g.act \in paused'
    BY <1>2, <1>3, <2>1, <2>2 DEF Alike
  <2>4. paused' = paused \cup {g.act}
    BY <2>1, <2>2 DEF Alike
  <2> QED BY <1>1, <1>2, <1>4, <2>1, <2>2, <2>3, <2>4, MachineOn DEF Alike
<1> QED BY <1>5, <1>6, <1>7

\* On every way out of Execute.
LEMMA ReturnKeeps ==
  ASSUME NEW k \in Machines, MachineInv(k),
         Machine(k)!Return \/ Machine(k)!FallOff \/ Machine(k)!Throw \/ Machine(k)!Divide
  PROVE  MachineInv(k)'
<1>0. PICK a : a = Machine(k)!Top.act
  OBVIOUS
<1>1. stack # <<>> /\ Machine(k)!Top.phase = "run" /\ ~err
  <2>1. CASE Machine(k)!FallOff
    <3>1. stack # <<>> /\ Machine(k)!Top.phase = "run"
      BY <2>1 DEF Machine!FallOff, Machine!At
    <3> QED BY <3>1, MachineTop
  <2> QED BY <2>1, MachineRuns DEF Machine!Return, Machine!Throw, Machine!Divide
<1>2. stack' = Machine(k)!Callers
  BY DEF Machine!Return, Machine!FallOff, Machine!Throw, Machine!Divide, Machine!Pop
<1>3. UNCHANGED <<flist, entry, calls, out, asked, paused, stale, unanswered, crossed>>
  BY DEF Machine!Return, Machine!FallOff, Machine!Throw, Machine!Divide, Machine!code, Machine!answer,
     Machine!notes
<1>4. ret' \in {ret, Machine(k)!Top.id}
  BY DEF Machine!Return, Machine!FallOff, Machine!Throw, Machine!Divide
<1>5. \/ contexts' = contexts - 1 /\ leaked' = leaked
      \/ contexts' = contexts /\ leaked' = leaked + 1
  BY DEF Machine!Return, Machine!FallOff, Machine!Throw, Machine!Divide, Machine!Pop, Machine!notes
<1>6. CASE Machine(k)!Return \/ Machine(k)!FallOff
  <2>1. err' = err /\ failed' = failed /\ aborted' = aborted
    BY <1>6 DEF Machine!Return, Machine!FallOff, Machine!Pop
  <2> QED BY <1>0, <1>1, <1>2, <1>3, <1>4, <1>5, <2>1, MachinePop DEF MachineInv, MachineTypes
<1>7. CASE Machine(k)!Throw \/ Machine(k)!Divide
  <2>1. err' = TRUE /\ failed' = failed \cup {a} /\ aborted' \in {aborted, aborted \cup {a}}
    BY <1>0, <1>7 DEF Machine!Throw, Machine!Divide, Machine!Pop
  <2>2. Reason(a)'
    BY <2>1 DEF Reason
  <2> QED BY <1>0, <1>1, <1>2, <1>3, <1>4, <1>5, <2>1, <2>2, MachinePop
<1> QED BY <1>6, <1>7

\* The dialog is closed.
LEMMA CloseDialogKeeps ==
  ASSUME NEW k \in Machines, MachineInv(k), Machine(k)!CloseDialog
  PROVE  MachineInv(k)'
<1>0. PICK a : a = Machine(k)!Top.act
  OBVIOUS
<1>1. stack # <<>> /\ Machine(k)!Top.phase = "dialog"
  BY DEF Machine!CloseDialog, Machine!At
<1>2. UNCHANGED <<flist, entry, err, calls, ret, out, asked, failed, leaked, paused, stale, unanswered, crossed>>
  BY DEF Machine!CloseDialog, Machine!code, Machine!answer, Machine!notes
<1>3. CASE err
  <2>1. /\ stack' = Machine(k)!Callers /\ contexts' = contexts - 1
        /\ aborted' \in {aborted, aborted \cup {a}}
    BY <1>0, <1>3 DEF Machine!CloseDialog, Machine!Pop
  <2>2. Reason(a)'
    BY <1>0, <1>1, <1>2, <1>3, <2>1, MachineTop DEF Reason
  <2>3. err' \in BOOLEAN /\ ret' \in {ret, Machine(k)!Top.id} /\ failed' \in {failed, failed \cup {a}}
    BY <1>2, MachineTypesAre
  <2> QED BY <1>0, <1>1, <1>2, <2>1, <2>2, <2>3, MachinePop
<1>4. CASE ~err
  <2>1. contexts' = contexts /\ aborted' = aborted
    BY <1>4 DEF Machine!CloseDialog
  <2>2. PICK g \in Frame : /\ Alike(Machine(k)!Top, g) /\ g.phase = "run"
                           /\ stack' = Put(stack, g)
    BY <1>1, <1>4, TopMoves DEF Machine!CloseDialog
  <2> QED BY <1>1, <1>2, <1>4, <2>1, <2>2, MachineOn, MachineStays DEF Alike
<1> QED BY <1>3, <1>4

\* When an activation begins no variable of it is a property.
LEMMA NoRefs == [v \in 0..2 |-> [rid |-> -1, left |-> -1, set |-> "none"]] \in [0..2 -> Ref]
<1> DEFINE R == [rid |-> -1, left |-> -1, set |-> "none"]
<1>1. -1 \in Int /\ -1 \in (-1)..2
  OBVIOUS
<1>2. R \in Ref
  BY <1>1 DEF Ref
<1> HIDE DEF R
<1>3. [v \in 0..2 |-> R] \in [0..2 -> Ref]
  BY <1>2
<1> QED BY <1>3 DEF R

\* A function is run for the innermost, which waits for it, or stops for want of parameters.
LEMMA ExecuteKeeps ==
  ASSUME NEW k \in Machines, MachineInv(k), stack # <<>>, ~err,
         NEW g \in Frame, g.act = Machine(k)!Top.act, g.id = Machine(k)!Top.id, g.fn = Machine(k)!Top.fn,
         g.phase \in {"called", "setting"}, NEW s, s = Put(stack, g),
         NEW fn \in 1..Len(flist), NEW sender \in Int, NEW few \in BOOLEAN,
         Machine(k)!Execute(s, fn, sender, g.act, FALSE, few),
         UNCHANGED <<flist, entry, out, asked, aborted, leaked, paused>>,
         ~stale', ~unanswered', ~crossed'
  PROVE  MachineInv(k)'
<1> DEFINE n == Len(stack)
           h == [g EXCEPT !.callee = calls + 1]
           t == Put(stack, h)
           f == Machine(k)!Frame(fn, sender, g.act, FALSE)
           runs == ~few /\ flist[fn].vars
<1>1. /\ stack \in Seq(Frame) /\ n \in Nat \ {0} /\ n \in DOMAIN stack
      /\ FrameOK(Machine(k)!Top, Len(flist), asked, paused, calls, ret)
      /\ asked[g.act] = "ask" => out = g.act
  BY MachineTop, MachineTypesAre, LenProperties
<1>2. h \in Frame /\ h.act = g.act /\ h.id = g.id /\ h.fn = g.fn /\ h.phase = g.phase /\ h.callee = calls + 1
  <2>1. calls + 1 \in Nat
    BY MachineTypesAre
  <2> QED BY <2>1 DEF Frame
<1>3. /\ t \in Seq(Frame) /\ Len(t) = n /\ t[n] = h /\ t # <<>>
      /\ \A e \in 1..n : e # n => t[e] = stack[e]
  <2> HIDE DEF h
  <2> QED BY <1>1, <1>2, TopChanged
<1>4. Len(s) = n /\ [s EXCEPT ![Len(s)].callee = calls + 1] = t
  <2>1. s \in Seq(Frame) /\ Len(s) = n /\ s[n] = g
    BY <1>1, TopChanged
  <2>2. [s EXCEPT ![n].callee = calls + 1] = t
    BY <1>1, <2>1 DEF Put
  <2> QED BY <2>1, <2>2
<1>5. /\ calls < k.calls /\ n < k.depth /\ calls' = calls + 1 /\ ret' = calls + 1
      /\ err' = few /\ failed' = IF few THEN failed \cup {g.act} ELSE failed
      /\ stack' = IF runs THEN Append(t, f) ELSE t
      /\ contexts' = IF runs THEN contexts + 1 ELSE contexts
  BY <1>4 DEF Machine!Execute, Machine!ReturnReset
<1>6. /\ f \in Frame /\ f.fn = fn /\ f.act = g.act /\ f.id = calls + 1 /\ f.callee = 0 /\ f.phase = "run"
  <2>1. calls + 1 \in Nat /\ g.act \in Nat /\ fn \in Nat /\ sender \in Int
    BY MachineTypesAre, FrameTypes
  <2> QED BY <2>1, NoRefs DEF Machine!Frame, Machine!Vars, Machine!NoRef, Machine!None, Frame
<1>7. /\ Len(flist) \in Nat /\ calls \in Nat /\ ret \in Nat /\ calls + 1 \in Nat /\ ret <= calls + 1 /\ calls <= calls + 1
      /\ Len(asked) \in Nat /\ g.act \in 1..Len(asked) /\ calls + 1 <= k.calls /\ k.calls \in Nat
      /\ Nested(stack, Len(flist), asked, paused, calls, ret)
  <2>1. calls + 1 <= k.calls
    BY <1>5, MachineTypesAre
  <2> QED BY <1>1, <2>1, MachineTypesAre DEF MachineInv, FrameOK
<1> HIDE DEF h, t, f, runs
<1>8. FrameOK(h, Len(flist), asked, paused, calls + 1, calls + 1) /\ FrameOK(f, Len(flist), asked, paused, calls + 1, calls + 1)
  <2>1. g.fn \in 1..Len(flist) /\ g.id \in 1..calls
    BY <1>1 DEF FrameOK
  <2>2. g.id \in 1..(calls + 1) /\ calls + 1 \in 0..(calls + 1) /\ calls + 1 \in 1..(calls + 1) /\ 0 \in 0..(calls + 1)
    BY <1>7, <2>1
  <2> QED BY <1>2, <1>6, <1>7, <2>1, <2>2 DEF FrameOK
<1>9. Nested(t, Len(flist), asked, paused, calls + 1, calls + 1)
  <2>1. /\ Len(t) = Len(stack) /\ t[Len(stack)] = h /\ \A e \in 1..Len(stack) : e # Len(stack) => t[e] = stack[e]
        /\ h.act = stack[Len(stack)].act /\ h.id = stack[Len(stack)].id /\ Len(asked) = Len(asked)
        /\ paused \subseteq paused
    BY <1>2, <1>3, MachineTop
  <2>2. \A a \in 1..Len(asked) : a # stack[Len(stack)].act => asked[a] = asked[a]
    OBVIOUS
  <2> QED BY <1>1, <1>2, <1>3, <1>7, <1>8, <2>1, <2>2, NestedTop
<1>10. runs => /\ stack' \in Seq(Frame) /\ Len(stack') = n + 1 /\ stack'[Len(stack')] = f /\ stack' # <<>>
               /\ Nested(stack', Len(flist), asked, paused, calls + 1, calls + 1)
  <2>1. t[Len(t)] = h /\ h.phase \in {"called", "setting"} /\ h.act = f.act /\ h.act <= f.act
    BY <1>2, <1>3, <1>6, FrameTypes
  <2>2. calls + 1 <= f.id
    BY <1>6, <1>7
  <2>3. LET u == Append(t, f) IN
        /\ u \in Seq(Frame) /\ Len(u) = Len(t) + 1 /\ Len(t) \in Nat /\ u[Len(u)] = f /\ u # <<>>
        /\ Nested(u, Len(flist), asked, paused, calls + 1, calls + 1)
    BY <1>3, <1>6, <1>7, <1>8, <1>9, <2>1, <2>2, NestedPush
  <2> QED BY <1>3, <1>5, <2>3
<1>11. MachineTypes(k)'
  <2>1. stack' \in Seq(Frame) /\ Len(stack') <= k.depth /\ contexts' = Len(stack') + leaked /\ leaked \in Nat
    <3>1. contexts = n + leaked /\ leaked \in Nat /\ k.depth \in Nat
      BY MachineTypesAre DEF MachineInv, MachineTypes
    <3>2. CASE runs
      <4>1. Len(stack') = n + 1 /\ stack' \in Seq(Frame) /\ contexts' = contexts + 1 /\ n < k.depth
        BY <1>5, <1>10, <3>2
      <4> HIDE DEF n
      <4> QED BY <1>1, <3>1, <4>1
    <3>3. CASE ~runs
      <4>1. stack' = t /\ contexts' = contexts /\ n < k.depth
        BY <1>5, <3>3
      <4> HIDE DEF n
      <4> QED BY <1>1, <1>3, <3>1, <4>1
    <3> QED BY <3>2, <3>3
  <2>2. calls' \in 0..k.calls /\ ret' \in 0..calls'
    BY <1>5, <1>7
  <2>3. failed' \subseteq 1..Len(asked) /\ err' \in BOOLEAN
    BY <1>5, <1>7 DEF MachineInv, MachineTypes
  <2> QED BY <2>1, <2>2, <2>3 DEF MachineInv, MachineTypes
<1>12. \A a \in aborted' : Reason(a)'
  BY <1>5 DEF MachineInv, Reason
<1>13. ASSUME NEW x \in Frame, stack' # <<>>, x = stack'[Len(stack')]
       PROVE  /\ asked'[x.act] = "ask" => out' = x.act
              /\ err' => x.phase # "run" /\ Reason(x.act)'
  <2>1. CASE runs
    BY <1>1, <1>5, <1>6, <1>10, <1>13, <2>1 DEF runs
  <2>2. CASE ~runs
    <3>1. x = h
      BY <1>3, <1>5, <1>13, <2>2
    <3>2. err' => g.act \in failed'
      BY <1>5
    <3> QED BY <1>1, <1>2, <3>1, <3>2 DEF Reason
  <2> QED BY <2>1, <2>2
<1>14. Nested(stack', Len(flist'), asked', paused', calls', ret')
  BY <1>5, <1>9, <1>10
<1> QED BY <1>11, <1>12, <1>13, <1>14 DEF MachineInv

\* Fields of the innermost are changed in the place where it is: what phase it is in,
LEMMA TopInPhase ==
  ASSUME NEW s \in Seq(Frame), s # <<>>, NEW g \in Frame, NEW phase \in {"run", "called", "setting", "dialog"}
  PROVE  \E h \in Frame : Alike(g, h) /\ h.phase = phase /\ InPhase(Put(s, g), phase) = Put(s, h)
<1> DEFINE t == [s EXCEPT ![Len(s)] = g]
<1>1. Len(s) \in DOMAIN s /\ t[Len(s)] = g /\ Len(s) \in DOMAIN t /\ Len(t) = Len(s) /\ t = Put(s, g)
  BY EmptySeq, LenProperties, TopChanged DEF Put
<1> DEFINE h == [g EXCEPT !.phase = phase]
<1>2. h \in Frame /\ Alike(g, h)
  BY DEF Frame, Alike
<1>3. h.phase = phase
  BY DEF Frame
<1>4. [t EXCEPT ![Len(s)].phase = phase] = [s EXCEPT ![Len(s)] = h]
  BY <1>1
<1>5. InPhase(Put(s, g), phase) = Put(s, h)
  <2> HIDE DEF h, t
  <2> QED BY <1>1, <1>4 DEF InPhase, Put
<1> HIDE DEF h
<1> QED BY <1>2, <1>3, <1>5

\* where its result goes,
LEMMA TopTakes ==
  ASSUME NEW s \in Seq(Frame), s # <<>>, NEW g \in Frame, NEW x \in 0..2
  PROVE  \E h \in Frame : Alike(g, h) /\ h.phase = g.phase /\ Taking(Put(s, g), x) = Put(s, h)
<1> DEFINE t == [s EXCEPT ![Len(s)] = g]
<1>1. Len(s) \in DOMAIN s /\ t[Len(s)] = g /\ Len(s) \in DOMAIN t /\ Len(t) = Len(s) /\ t = Put(s, g)
  BY EmptySeq, LenProperties, TopChanged DEF Put
<1> DEFINE h == [g EXCEPT !.res = x]
<1>2. h \in Frame /\ Alike(g, h) /\ h.phase = g.phase
  BY DEF Frame, Alike
<1>3. [t EXCEPT ![Len(s)].res = x] = [s EXCEPT ![Len(s)] = h]
  BY <1>1
<1>4. Taking(Put(s, g), x) = Put(s, h)
  <2> HIDE DEF h, t
  <2> QED BY <1>1, <1>3 DEF Taking, Put
<1> HIDE DEF h
<1> QED BY <1>2, <1>4

\* and what property it is.
LEMMA TopRemembers ==
  ASSUME NEW s \in Seq(Frame), s # <<>>, NEW g \in Frame, NEW x \in 0..2, NEW obj \in Ref
  PROVE  \E h \in Frame : Alike(g, h) /\ h.phase = g.phase /\ Remembering(Put(s, g), x, obj) = Put(s, h)
<1> DEFINE t == [s EXCEPT ![Len(s)] = g]
<1>1. Len(s) \in DOMAIN s /\ t[Len(s)] = g /\ Len(s) \in DOMAIN t /\ Len(t) = Len(s) /\ t = Put(s, g)
  BY EmptySeq, LenProperties, TopChanged DEF Put
<1> DEFINE rs == [g.refs EXCEPT ![x] = obj]
           h == [g EXCEPT !.res = x, !.refs = rs]
<1>2. rs \in [0..2 -> Ref]
  BY FrameTypes
<1>3. [t EXCEPT ![Len(s)].res = x, ![Len(s)].refs[x] = obj] = [s EXCEPT ![Len(s)] = h]
  <2>1. [g EXCEPT !.res = x, !.refs[x] = obj] = h
    BY DEF Frame
  <2>2. [t EXCEPT ![Len(s)].res = x, ![Len(s)].refs[x] = obj] =
        [s EXCEPT ![Len(s)] = [g EXCEPT !.res = x, !.refs[x] = obj]]
    BY <1>1
  <2> HIDE DEF h
  <2> QED BY <2>1, <2>2
<1> HIDE DEF rs
<1>4. h \in Frame /\ Alike(g, h) /\ h.phase = g.phase
  BY <1>2 DEF Frame, Alike
<1>5. Remembering(Put(s, g), x, obj) = Put(s, h)
  <2> HIDE DEF h, t
  <2> QED BY <1>1, <1>3 DEF Remembering, Put
<1> HIDE DEF h
<1> QED BY <1>4, <1>5

\* A call waits for its function, or goes on when there is none.
LEMMA CallKeeps ==
  ASSUME NEW k \in Machines, MachineInv(k), Machine(k)!Call
  PROVE  MachineInv(k)'
<1>1. /\ stack # <<>> /\ Machine(k)!Top.phase = "run" /\ ~err
      /\ Machine(k)!Here.res \in 0..2 /\ Machine(k)!Here.args \in Nat
  BY MachineRuns DEF Machine!Call
<1>2. UNCHANGED <<flist, entry, out, asked, aborted, leaked, paused>> /\ ~stale' /\ ~unanswered' /\ ~crossed'
  BY <1>1, MachineStays DEF Machine!Call, Machine!code, Machine!answer, Machine!notes
<1>3. stack \in Seq(Frame) /\ Machine(k)!Depth = Len(stack) /\ Machine(k)!Top \in Frame
  BY <1>1, MachineTop, MachineTypesAre
<1> DEFINE fn == Machine(k)!Find(flist, Machine(k)!Here.fn)
<1>4. fn \in 0..Len(flist)
  BY FindsTheFirst DEF MachineInv, MachineTypes
<1>5. CASE fn = 0
  <2>1. stack' = Machine(k)!Onward("run") /\ UNCHANGED <<err, contexts, calls, ret, failed>>
    BY <1>5 DEF Machine!Call
  <2>2. PICK g \in Frame : /\ Alike(Machine(k)!Top, g) /\ g.phase = "run"
                           /\ stack' = Put(stack, g)
    BY <1>1, <2>1, TopMoves
  <2> QED BY <1>1, <1>2, <2>1, <2>2, MachineOn, MachineStays DEF Alike
<1>6. CASE fn # 0
  <2>1. PICK h \in Frame : /\ Alike(Machine(k)!Top, h) /\ h.phase = "called"
                           /\ Machine(k)!Onward("called") = Put(stack, h)
    BY <1>1, TopMoves
  <2>2. PICK x \in 0..2 : x = Machine(k)!Here.res
    BY <1>1
  <2> DEFINE s == [Machine(k)!Onward("called") EXCEPT ![Machine(k)!Depth].res = x]
             few == Machine(k)!Here.args < flist[fn].params
  <2>3. PICK g \in Frame : Alike(h, g) /\ g.phase = "called" /\ s = Put(stack, g)
    <3>1. \E g \in Frame : Alike(h, g) /\ g.phase = h.phase /\ Taking(Put(stack, h), x) = Put(stack, g)
      BY <1>1, <1>3, TopTakes
    <3>2. s = Taking(Put(stack, h), x)
      <4>1. Len(Put(stack, h)) = Len(stack)
        BY <1>1, <1>3, TopChanged
      <4> QED BY <1>3, <2>1, <4>1 DEF Taking
    <3> QED BY <2>1, <3>1, <3>2
  <2>4. Machine(k)!Execute(s, fn, Machine(k)!Top.sender, Machine(k)!Top.act, FALSE, few)
    BY <1>6, <2>2 DEF Machine!Call
  <2>5. /\ Machine(k)!Top.act = g.act /\ g.id = Machine(k)!Top.id /\ g.fn = Machine(k)!Top.fn
        /\ fn \in 1..Len(flist) /\ Machine(k)!Top.sender \in Int /\ few \in BOOLEAN
    BY <1>3, <1>4, <1>6, <2>1, <2>3, FrameTypes DEF Alike
  <2> HIDE DEF s, few, fn
  <2> QED BY <1>1, <1>2, <2>3, <2>4, <2>5, ExecuteKeeps
<1> QED BY <1>5, <1>6

\* The controls that getters and setters are run for are numbers, and the same when the
\* objects on the way have theirs.
LEMMA WhereItIsWritten ==
  ASSUME NEW k, NEW f \in Frame, NEW obj \in Ref
  PROVE  /\ Machine(k)!WrittenTo(f, obj) \in Int /\ Machine(k)!ReadFrom(f, obj.left) \in Int
         /\ Machine(k)!Plain(f, obj) => Machine(k)!WrittenTo(f, obj) = Machine(k)!ReadFrom(f, obj.left)
<1>1. obj.rid \in Int /\ obj.left \in (-1)..2
  BY DEF Ref
<1>2. f.sender \in Int /\ f.refs \in [0..2 -> Ref]
  BY FrameTypes
<1>3. CASE obj.left >= 0
  <2>1. obj.left \in 0..2
    BY <1>1, <1>3
  <2>2. f.refs[obj.left] \in Ref
    BY <1>2, <2>1
  <2>3. f.refs[obj.left].rid \in Int /\ (f.refs[obj.left] = Machine(k)!NoRef => f.refs[obj.left].rid = -1)
    BY <2>2 DEF Ref, Machine!NoRef
  <2> QED BY <1>1, <1>2, <1>3, <2>3 DEF Machine!WrittenTo, Machine!ReadFrom, Machine!Plain
<1>4. CASE ~(obj.left >= 0)
  BY <1>1, <1>2, <1>4 DEF Machine!WrittenTo, Machine!ReadFrom, Machine!Plain
<1> QED BY <1>3, <1>4

\* A property is set after its variable was written.
LEMMA SetPropertyKeeps ==
  ASSUME NEW k \in Machines, MachineInv(k), stack # <<>>, ~err,
         NEW g \in Frame, Alike(Machine(k)!Top, g), g.phase = "run", NEW s, s = Put(stack, g),
         NEW v \in 0..2, Machine(k)!SetProperty(s, v),
         UNCHANGED <<flist, entry, out, asked, aborted, leaked, paused, unanswered>>, ~stale'
  PROVE  MachineInv(k)'
<1>1. /\ stack \in Seq(Frame) /\ Len(stack) \in Nat \ {0} /\ Machine(k)!Depth = Len(stack)
      /\ s \in Seq(Frame) /\ Len(s) = Len(stack) /\ s[Len(s)] = g
  BY MachineTop, MachineTypesAre, TopChanged, Zenon
<1> DEFINE obj == g.refs[v]
           fn == Machine(k)!Find(flist, obj.set)
           to == Machine(k)!WrittenTo(g, obj)
<1>2. obj \in Ref
  BY FrameTypes
<1>3. /\ to \in Int /\ (Machine(k)!Plain(g, obj) => to = Machine(k)!ReadFrom(g, obj.left))
  <2> HIDE DEF obj
  <2> QED BY <1>2, WhereItIsWritten
<1>4. fn \in 0..Len(flist)
  BY FindsTheFirst DEF MachineInv, MachineTypes
<1>5. ~stale /\ ~unanswered /\ ~crossed /\ ~unanswered'
  BY DEF MachineInv
<1>6. CASE obj.set = Machine(k)!None \/ fn = 0
  <2>1. stack' = Put(stack, g) /\ UNCHANGED <<err, contexts, calls, ret, failed, crossed>>
    BY <1>1, <1>6 DEF Machine!SetProperty
  <2> HIDE DEF obj, fn, to
  <2> QED BY <1>5, <2>1, MachineOn, MachineStays DEF Alike
<1>7. CASE ~(obj.set = Machine(k)!None \/ fn = 0)
  <2> DEFINE few == flist[fn].params > 1
             t == [s EXCEPT ![Machine(k)!Depth].phase = "setting"]
  <2>1. Machine(k)!Execute(t, fn, to, g.act, FALSE, few)
    BY <1>1, <1>7 DEF Machine!SetProperty
  <2>2. ~crossed'
    BY <1>1, <1>3, <1>5, <1>7 DEF Machine!SetProperty
  <2>3. t = InPhase(Put(stack, g), "setting")
    BY <1>1 DEF InPhase
  <2>4. \E h \in Frame : Alike(g, h) /\ h.phase = "setting" /\ InPhase(Put(stack, g), "setting") = Put(stack, h)
    BY <1>1, TopInPhase
  <2>5. PICK h \in Frame : Alike(g, h) /\ h.phase = "setting" /\ t = Put(stack, h)
    <3> HIDE DEF t
    <3> QED BY <2>3, <2>4
  <2>6. fn \in 1..Len(flist) /\ few \in BOOLEAN
    BY <1>4, <1>7
  <2>7. h.act = g.act /\ h.act = Machine(k)!Top.act /\ h.id = Machine(k)!Top.id /\ h.fn = Machine(k)!Top.fn
    BY <2>5 DEF Alike
  <2> HIDE DEF obj, fn, to, few, t
  <2> QED BY <1>3, <1>5, <2>1, <2>2, <2>5, <2>6, <2>7, ExecuteKeeps
<1> QED BY <1>6, <1>7

\* An assignment.
LEMMA AssignKeeps ==
  ASSUME NEW k \in Machines, MachineInv(k), Machine(k)!Assign
  PROVE  MachineInv(k)'
<1>1. stack # <<>> /\ ~err /\ Machine(k)!Here.res \in 0..2
  BY MachineRuns DEF Machine!Assign
<1>2. UNCHANGED <<flist, entry, out, asked, aborted, leaked, paused, unanswered>> /\ ~stale'
  BY <1>1, MachineStays DEF Machine!Assign, Machine!code, Machine!answer
<1>3. PICK g \in Frame : Alike(Machine(k)!Top, g) /\ g.phase = "run" /\ Machine(k)!Onward("run") = Put(stack, g)
  BY <1>1, TopMoves
<1>4. Machine(k)!SetProperty(Put(stack, g), Machine(k)!Here.res)
  BY <1>3 DEF Machine!Assign
<1> QED BY <1>1, <1>2, <1>3, <1>4, SetPropertyKeeps

\* A called function has returned.
LEMMA ResumeKeeps ==
  ASSUME NEW k \in Machines, MachineInv(k), Machine(k)!Resume
  PROVE  MachineInv(k)'
<1>0. PICK a : a = Machine(k)!Top.act
  OBVIOUS
<1>1. stack # <<>> /\ Machine(k)!Top.phase \in {"called", "setting"}
  BY DEF Machine!Resume
<1>2. UNCHANGED <<flist, entry, out, asked, leaked, paused, unanswered>>
  BY DEF Machine!Resume, Machine!code, Machine!answer
<1>3. Machine(k)!Top \in Frame /\ FrameOK(Machine(k)!Top, Len(flist), asked, paused, calls, ret)
  BY <1>1, MachineTop
<1>4. CASE err
  <2>1. /\ stack' = Machine(k)!Callers /\ contexts' = contexts - 1 /\ aborted' \in {aborted, aborted \cup {a}}
        /\ UNCHANGED <<err, calls, ret, failed, stale, crossed>>
    BY <1>0, <1>4 DEF Machine!Resume, Machine!Pop
  <2>2. Reason(a)'
    BY <1>0, <1>1, <1>2, <1>4, <2>1, MachineTop DEF Reason
  <2>3. err' \in BOOLEAN /\ ret' \in {ret, Machine(k)!Top.id} /\ failed' \in {failed, failed \cup {a}}
    BY <2>1, MachineTypesAre
  <2> QED BY <1>0, <1>1, <1>2, <2>1, <2>2, <2>3, MachinePop
<1>5. ASSUME ~err
      PROVE  \E g \in Frame : /\ Alike(Machine(k)!Top, g) /\ g.phase = "run"
                              /\ Machine(k)!InPhase("run") = Put(stack, g)
  BY <1>1, TopMoves
<1>6. CASE ~err /\ Machine(k)!Top.phase = "setting"
  <2>1. PICK g \in Frame : /\ Alike(Machine(k)!Top, g) /\ g.phase = "run"
                           /\ Machine(k)!InPhase("run") = Put(stack, g)
    BY <1>5, <1>6
  <2>2. stack' = Put(stack, g) /\ UNCHANGED <<err, contexts, calls, ret, failed, aborted, stale, crossed>>
    BY <1>6, <2>1 DEF Machine!Resume
  <2> QED BY <1>1, <1>2, <1>6, <2>1, <2>2, MachineOn, MachineStays DEF Alike
<1>7. CASE ~err /\ Machine(k)!Top.phase # "setting"
  <2>1. PICK g \in Frame : /\ Alike(Machine(k)!Top, g) /\ g.phase = "run"
                           /\ Machine(k)!InPhase("run") = Put(stack, g)
    BY <1>5, <1>7
  <2>2. Machine(k)!Top.res \in 0..2 /\ Machine(k)!Top.callee \in 0..ret /\ ret \in Nat
    BY <1>3, FrameTypes, MachineTypesAre DEF FrameOK
  <2>3. ~stale' /\ aborted' = aborted /\ Machine(k)!SetProperty(Put(stack, g), Machine(k)!Top.res)
    <3>1. ~(ret < Machine(k)!Top.callee)
      BY <2>2
    <3> QED BY <1>7, <2>1, <3>1 DEF Machine!Resume, MachineInv
  <2> QED BY <1>1, <1>2, <1>7, <2>1, <2>2, <2>3, SetPropertyKeeps
<1> QED BY <1>4, <1>6, <1>7

\* A property is looked at: its getter is run, if it has one, and must be there.
LEMMA SelectKeeps ==
  ASSUME NEW k \in Machines, MachineInv(k), Machine(k)!Select
  PROVE  MachineInv(k)'
<1>0. PICK a : a = Machine(k)!Top.act
  OBVIOUS
<1> DEFINE i == Machine(k)!Here
           obj == [rid |-> i.rid, left |-> i.left, set |-> i.set]
           fn == Machine(k)!Find(flist, i.get)
           s == [Machine(k)!Onward("called") EXCEPT ![Machine(k)!Depth].res = i.res,
                   ![Machine(k)!Depth].refs[i.res] = obj]
<1>1. /\ stack # <<>> /\ Machine(k)!Top.phase = "run" /\ ~err
      /\ i.res \in 0..2 /\ i.left \in 0..2 /\ i.rid \in Int /\ i.set \in STRING
  BY MachineRuns DEF Machine!Select
<1>2. UNCHANGED <<flist, entry, out, asked, leaked, paused>> /\ ~stale' /\ ~unanswered' /\ ~crossed'
  BY <1>1, MachineStays DEF Machine!Select, Machine!code, Machine!answer, Machine!notes
<1>3. stack \in Seq(Frame) /\ Machine(k)!Depth = Len(stack) /\ Machine(k)!Top \in Frame
  BY <1>1, MachineTop, MachineTypesAre
<1>4. obj \in Ref /\ i.left \in (-1)..2
  BY <1>1 DEF Ref
<1>5. fn \in 0..Len(flist)
  BY FindsTheFirst DEF MachineInv, MachineTypes
<1>6. \E g \in Frame : Alike(Machine(k)!Top, g) /\ g.phase = "called" /\ s = Put(stack, g)
  <2>1. PICK h \in Frame : /\ Alike(Machine(k)!Top, h) /\ h.phase = "called"
                           /\ Machine(k)!Onward("called") = Put(stack, h)
    BY <1>1, TopMoves
  <2>2. \E g \in Frame : Alike(h, g) /\ g.phase = h.phase /\ Remembering(Put(stack, h), i.res, obj) = Put(stack, g)
    <3> HIDE DEF i, obj
    <3> QED BY <1>1, <1>3, <1>4, TopRemembers DEF i
  <2>3. s = Remembering(Put(stack, h), i.res, obj)
    <3>1. Len(Put(stack, h)) = Len(stack)
      BY <1>1, <1>3, TopChanged
    <3> HIDE DEF i, obj
    <3> QED BY <1>3, <2>1, <3>1 DEF Remembering
  <2> HIDE DEF s, obj, i
  <2> QED BY <2>1, <2>2, <2>3 DEF Alike
<1>7. PICK g \in Frame : Alike(Machine(k)!Top, g) /\ g.phase = "called" /\ s = Put(stack, g)
  <2> HIDE DEF s
  <2> QED BY <1>6
<1>8. CASE i.get = Machine(k)!None
  <2> DEFINE t == [s EXCEPT ![Machine(k)!Depth].phase = "run"]
  <2>1. stack' = t /\ UNCHANGED <<err, contexts, calls, ret, failed, aborted>>
    BY <1>8 DEF Machine!Select, Machine!errors
  <2>2. t = InPhase(Put(stack, g), "run")
    <3>1. Len(Put(stack, g)) = Len(stack)
      BY <1>1, <1>3, TopChanged
    <3> HIDE DEF s
    <3> QED BY <1>3, <1>7, <3>1 DEF InPhase
  <2>3. \E h \in Frame : Alike(g, h) /\ h.phase = "run" /\ InPhase(Put(stack, g), "run") = Put(stack, h)
    BY <1>1, <1>3, TopInPhase
  <2>4. PICK h \in Frame : Alike(g, h) /\ h.phase = "run" /\ stack' = Put(stack, h)
    <3> HIDE DEF t
    <3> QED BY <2>1, <2>2, <2>3
  <2>5. Alike(Machine(k)!Top, h)
    BY <1>7, <2>4 DEF Alike
  <2> HIDE DEF s, t, obj, fn, i
  <2> QED BY <1>1, <1>2, <2>1, <2>4, <2>5, MachineOn, MachineStays DEF Alike
<1>9. CASE i.get # Machine(k)!None /\ fn = 0
  <2>1. /\ err' = TRUE /\ failed' = failed \cup {a} /\ stack' = Machine(k)!Callers /\ contexts' = contexts - 1
        /\ aborted' \in {aborted, aborted \cup {a}} /\ UNCHANGED <<calls, ret, leaked, stale, unanswered, crossed>>
    BY <1>0, <1>9 DEF Machine!Select, Machine!Pop, Machine!answer, Machine!notes
  <2>2. Reason(a)'
    BY <2>1 DEF Reason
  <2> HIDE DEF s, obj, fn, i
  <2> QED BY <1>0, <1>1, <1>2, <2>1, <2>2, MachinePop
<1>10. CASE i.get # Machine(k)!None /\ fn # 0
  <2> DEFINE few == flist[fn].params > 0
             from == Machine(k)!ReadFrom(s[Machine(k)!Depth], i.left)
  <2>1. Machine(k)!Execute(s, fn, from, Machine(k)!Top.act, FALSE, few) /\ aborted' = aborted
    BY <1>10 DEF Machine!Select
  <2>2. s[Machine(k)!Depth] = g
    <3>1. Put(stack, g)[Len(stack)] = g
      BY <1>1, <1>3, TopChanged
    <3> HIDE DEF s
    <3> QED BY <1>3, <1>7, <3>1
  <2>3. Machine(k)!ReadFrom(g, obj.left) \in Int
    <3> HIDE DEF obj
    <3> QED BY <1>4, WhereItIsWritten
  <2>4. from \in Int
    <3> HIDE DEF s
    <3> QED BY <2>2, <2>3
  <2>5. fn \in 1..Len(flist) /\ few \in BOOLEAN
    BY <1>5, <1>10
  <2>6. g.act = Machine(k)!Top.act /\ g.id = Machine(k)!Top.id /\ g.fn = Machine(k)!Top.fn
    BY <1>7 DEF Alike
  <2> HIDE DEF s, obj, fn, i, few, from
  <2> QED BY <1>1, <1>2, <1>7, <2>1, <2>4, <2>5, <2>6, ExecuteKeeps
<1> QED BY <1>8, <1>9, <1>10

\* The functions and the entry point of an event arrive.
LEMMA DeliverKeeps ==
  ASSUME NEW k \in Machines, MachineInv(k), NEW c \in k.controls, Machine(k)!Deliver(c)
  PROVE  MachineInv(k)'
<1>1. PICK p \in k.packages : flist' = flist \o p.functions /\ entry' = [entry EXCEPT ![c] = p.entry]
  BY DEF Machine!Deliver
<1>2. UNCHANGED <<stack, err, contexts, calls, ret, out, asked, unanswered, failed, aborted, leaked, paused, stale, crossed>>
  BY DEF Machine!Deliver, Machine!machine, Machine!answer, Machine!errors, Machine!notes
<1>3. /\ p.functions \in Seq(Machine(k)!Function) /\ p.entry \in STRING
      /\ \E j \in 1..Len(p.functions) : p.functions[j].name = p.entry
  <2>1. p.functions \in Seq(Machine(k)!Function) /\ \E j \in DOMAIN p.functions : p.functions[j].name = p.entry
    BY PartsAssumption DEF PartsAssumption, Machine!ParserAssumption
  <2>2. DOMAIN p.functions = 1..Len(p.functions)
    BY <2>1, LenProperties
  <2>3. \A j \in 1..Len(p.functions) : p.functions[j].name \in STRING
    <3> TAKE j \in 1..Len(p.functions)
    <3>1. p.functions[j] \in Machine(k)!Function
      BY <2>1, ElementOfSeq
    <3> QED BY <3>1 DEF Machine!Function
  <2> QED BY <2>1, <2>2, <2>3
<1>4. /\ flist \in Seq(Machine(k)!Function) /\ entry \in [k.controls -> STRING \cup {"none"}]
      /\ \A d \in k.controls : entry[d] = "none" \/ \E j \in 1..Len(flist) : flist[j].name = entry[d]
  BY DEF MachineInv, MachineTypes
<1>5. /\ flist' \in Seq(Machine(k)!Function) /\ Len(flist') = Len(flist) + Len(p.functions)
      /\ \A j \in 1..Len(flist) : flist'[j] = flist[j]
      /\ \A j \in 1..Len(p.functions) : flist'[Len(flist) + j] = p.functions[j]
      /\ Len(flist) \in Nat /\ Len(p.functions) \in Nat
  <2>1. LET fs == flist \o p.functions IN
        /\ fs \in Seq(Machine(k)!Function) /\ Len(fs) = Len(flist) + Len(p.functions)
        /\ \A j \in 1..Len(flist) : fs[j] = flist[j]
        /\ \A j \in 1..Len(p.functions) : fs[Len(flist) + j] = p.functions[j]
    BY <1>3, <1>4, ConcatProperties
  <2> QED BY <1>1, <1>3, <1>4, <2>1
<1>6. \A d \in k.controls : entry'[d] = "none" \/ \E j \in 1..Len(flist') : flist'[j].name = entry'[d]
  <2> TAKE d \in k.controls
  <2>1. CASE d = c
    <3>1. entry'[d] = p.entry
      BY <1>1, <1>4, <2>1
    <3>2. PICK j \in 1..Len(p.functions) : p.functions[j].name = p.entry
      BY <1>3
    <3>3. Len(flist) + j \in 1..Len(flist')
      BY <1>5
    <3> QED BY <1>5, <3>1, <3>2, <3>3
  <2>2. CASE d # c
    <3>1. entry'[d] = entry[d]
      BY <1>1, <1>4, <2>2
    <3>2. \A j \in 1..Len(flist) : j \in 1..Len(flist')
      BY <1>5
    <3> QED BY <1>4, <1>5, <3>1, <3>2
  <2> QED BY <2>1, <2>2
<1>7. MachineTypes(k)'
  <2>1. entry' \in [k.controls -> STRING \cup {"none"}]
    BY <1>1, <1>3, <1>4
  <2> QED BY <1>2, <1>5, <1>6, <2>1 DEF MachineInv, MachineTypes
<1>8. Nested(stack', Len(flist'), asked', paused', calls', ret')
  <2>1. Nested(stack, Len(flist'), asked, paused, calls, ret)
    <3>1. /\ stack \in Seq(Frame) /\ Nested(stack, Len(flist), asked, paused, calls, ret)
          /\ Len(asked) \in Nat /\ calls \in Nat /\ ret \in Nat /\ Len(asked) <= Len(asked)
          /\ calls <= calls /\ ret <= ret /\ paused \subseteq paused
      BY MachineTypesAre DEF MachineInv
    <3>2. Len(flist') \in Nat /\ Len(flist) <= Len(flist')
      BY <1>5
    <3>3. \A a \in 1..Len(asked) : asked[a] = asked[a]
      OBVIOUS
    <3> QED BY <1>5, <3>1, <3>2, <3>3, NestedKept
  <2> QED BY <1>2, <2>1
<1> QED BY <1>2, <1>7, <1>8 DEF MachineInv, Reason

\* The event of a button is run, while nothing else is or a dialog is shown.
LEMMA ClickKeeps ==
  ASSUME NEW k \in Machines, MachineInv(k), NEW c \in k.controls, Machine(k)!Click(c)
  PROVE  MachineInv(k)'
<1> DEFINE fn == Machine(k)!Find(flist, entry[c])
           act == Len(asked) + 1
           few == flist[fn].params > 2
           n == Len(stack)
           f == Machine(k)!Frame(fn, c, act, TRUE)
           runs == ~few /\ flist[fn].vars
<1>1. /\ entry[c] # "none" /\ asked' = Append(asked, "none")
      /\ Machine(k)!Execute(stack, fn, c, act, TRUE, few)
      /\ aborted' = IF few THEN aborted \cup {act} ELSE aborted
      /\ UNCHANGED <<flist, entry, out, unanswered, leaked, paused, stale, crossed>>
  BY DEF Machine!Click, Machine!ErrCleared, Machine!code, Machine!notes, Machine!None
<1>2. /\ stack = <<>> \/ stack[n].phase = "dialog"
      /\ stack \in Seq(Frame) /\ n \in Nat /\ n <= k.depth /\ k.depth \in Nat
      /\ Nested(stack, Len(flist), asked, paused, calls, ret)
      /\ n > 0 => n \in 1..n
  <2>1. stack = <<>> \/ Machine(k)!Top.phase = "dialog"
    BY DEF Machine!Click, Machine!Idle, Machine!At
  <2> QED BY <2>1, MachineTypesAre DEF MachineInv, Machine!Top, Machine!Depth
<1>3. /\ calls < k.calls /\ n < k.depth /\ calls' = calls + 1 /\ ret' = calls + 1
      /\ err' = few /\ failed' = IF few THEN failed \cup {act} ELSE failed
      /\ stack' = IF runs THEN Append(stack, f) ELSE stack
      /\ contexts' = IF runs THEN contexts + 1 ELSE contexts
  BY <1>1 DEF Machine!Execute, Machine!ReturnReset
<1>4. fn \in 1..Len(flist) /\ c \in Int
  <2>1. flist \in Seq(Machine(k)!Function) /\ \E j \in 1..Len(flist) : flist[j].name = entry[c]
    BY <1>1 DEF MachineInv, MachineTypes
  <2>2. fn \in 0..Len(flist) /\ fn > 0
    BY <2>1, FindsTheFirst
  <2>3. c \in Int
    BY PartsAssumption DEF PartsAssumption, Machine!ParserAssumption
  <2> HIDE DEF fn
  <2> QED BY <2>2, <2>3
<1>5. /\ Len(flist) \in Nat /\ Len(asked) \in Nat /\ calls \in Nat /\ ret \in Nat /\ calls + 1 \in Nat
      /\ ret <= calls + 1 /\ calls <= calls + 1 /\ calls + 1 <= k.calls /\ k.calls \in Nat /\ act \in Nat
  BY <1>3, MachineTypesAre
<1>6. /\ asked' \in Seq({"none", "ask", "dialog"}) /\ Len(asked') = act /\ asked'[act] = "none"
      /\ \A a \in 1..Len(asked) : asked'[a] = asked[a]
  <2>1. LET as == Append(asked, "none") IN
        /\ as \in Seq({"none", "ask", "dialog"}) /\ Len(as) = Len(asked) + 1 /\ as[Len(asked) + 1] = "none"
        /\ \A a \in 1..Len(asked) : as[a] = asked[a]
    BY MachineTypesAre, AppendProperties
  <2> QED BY <1>1, <2>1
<1>7. f \in Frame /\ f.fn = fn /\ f.act = act /\ f.id = calls + 1 /\ f.callee = 0 /\ f.phase = "run"
  <2>1. fn \in Nat /\ c \in Int /\ act \in Nat /\ calls + 1 \in Nat
    BY <1>4, <1>5
  <2> HIDE DEF fn, act
  <2> QED BY <2>1, NoRefs DEF Machine!Frame, Machine!Vars, Machine!NoRef, Machine!None, Frame
<1> HIDE DEF fn, act, few, f, runs
<1>8. Len(asked) <= act /\ act \in 1..act /\ ~(act \in 1..Len(asked)) /\ \A a \in 1..Len(asked) : a \in 1..act /\ a < act
  BY <1>5 DEF act
<1>9. Nested(stack, Len(flist), asked', paused, calls + 1, calls + 1)
  <2>1. Len(flist) <= Len(flist) /\ Len(asked) <= Len(asked') /\ Len(asked') \in Nat /\ paused \subseteq paused
    BY <1>5, <1>6, <1>8
  <2> QED BY <1>2, <1>5, <1>6, <2>1, NestedKept
<1>10. ASSUME NEW e \in 1..n PROVE stack[e].act \in 1..Len(asked) /\ stack[e] \in Frame
  <2>1. stack[e] \in Frame /\ FrameOK(stack[e], Len(flist), asked, paused, calls, ret)
    BY <1>2, NestedSays
  <2> QED BY <2>1 DEF FrameOK
<1>11. runs => /\ stack' \in Seq(Frame) /\ Len(stack') = n + 1 /\ stack'[Len(stack')] = f /\ stack' # <<>>
               /\ Nested(stack', Len(flist), asked', paused, calls + 1, calls + 1)
  <2>1. FrameOK(f, Len(flist), asked', paused, calls + 1, calls + 1)
    <3>1. calls + 1 \in 1..(calls + 1) /\ 0 \in 0..(calls + 1)
      BY <1>5
    <3> QED BY <1>4, <1>6, <1>7, <1>8, <3>1 DEF FrameOK
  <2>2. stack # <<>> => LET g == stack[Len(stack)] IN
          /\ g.phase # "run" /\ g.act <= f.act
          /\ IF g.phase = "dialog" THEN g.act < f.act ELSE g.act = f.act
    <3> HAVE stack # <<>>
    <3>1. n \in 1..n
      BY <1>2, EmptySeq
    <3>2. stack[n].phase = "dialog" /\ stack[n].act < act /\ stack[n].act \in Nat
      BY <1>2, <1>8, <1>10, <3>1, FrameTypes
    <3>3. stack[n].act <= act
      BY <1>5, <3>2
    <3> QED BY <1>7, <3>2, <3>3
  <2>3. calls + 1 <= f.id
    BY <1>5, <1>7
  <2>4. LET u == Append(stack, f) IN
        /\ u \in Seq(Frame) /\ Len(u) = Len(stack) + 1 /\ Len(stack) \in Nat /\ u[Len(u)] = f /\ u # <<>>
        /\ Nested(u, Len(flist), asked', paused, calls + 1, calls + 1)
    BY <1>2, <1>5, <1>7, <1>9, <2>1, <2>2, <2>3, NestedPush
  <2> QED BY <1>3, <2>4
<1>12. MachineTypes(k)'
  <2>1. stack' \in Seq(Frame) /\ Len(stack') <= k.depth /\ contexts' = Len(stack') + leaked /\ leaked \in Nat
    <3>1. contexts = n + leaked /\ leaked \in Nat
      BY DEF MachineInv, MachineTypes
    <3>2. CASE runs
      <4>1. Len(stack') = n + 1 /\ stack' \in Seq(Frame) /\ contexts' = contexts + 1 /\ n < k.depth
        BY <1>3, <1>11, <3>2
      <4> HIDE DEF n
      <4> QED BY <1>2, <3>1, <4>1
    <3>3. CASE ~runs
      BY <1>2, <1>3, <3>1, <3>3
    <3> QED BY <3>2, <3>3
  <2>2. calls' \in 0..k.calls /\ ret' \in 0..calls'
    BY <1>3, <1>5
  <2>3. failed' \subseteq 1..Len(asked') /\ aborted' \subseteq 1..Len(asked') /\ paused \subseteq 1..Len(asked')
    <3>1. failed \subseteq 1..Len(asked) /\ aborted \subseteq 1..Len(asked) /\ paused \subseteq 1..Len(asked)
      BY DEF MachineInv, MachineTypes
    <3> QED BY <1>1, <1>3, <1>6, <1>8, <3>1
  <2>4. out \in 0..Len(asked') /\ err' \in BOOLEAN
    <3>1. out \in 0..Len(asked)
      BY DEF MachineInv, MachineTypes
    <3> QED BY <1>3, <1>5, <1>6, <1>8, <3>1 DEF few
  <2> QED BY <1>1, <1>6, <2>1, <2>2, <2>3, <2>4 DEF MachineInv, MachineTypes
<1>13. \A a \in aborted' : Reason(a)'
  BY <1>1, <1>3 DEF MachineInv, Reason
<1>14. ASSUME NEW x \in Frame, stack' # <<>>, x = stack'[Len(stack')]
       PROVE  /\ asked'[x.act] = "ask" => out' = x.act
              /\ err' => x.phase # "run" /\ Reason(x.act)'
  <2>1. CASE runs
    BY <1>3, <1>6, <1>7, <1>11, <1>14, <2>1 DEF runs
  <2>2. CASE ~runs
    <3>1. stack' = stack /\ n \in 1..n /\ x = stack[n]
      BY <1>2, <1>3, <1>14, <2>2, EmptySeq
    <3>2. /\ x.phase = "dialog" /\ x.act \in 1..Len(asked) /\ x.act < act /\ x.act \in paused
          /\ asked[x.act] = "dialog"
      <4>1. FrameOK(x, Len(flist), asked, paused, calls, ret)
        BY <1>2, <3>1, NestedSays
      <4> QED BY <1>2, <1>8, <1>10, <1>14, <3>1, <4>1 DEF FrameOK
    <3>3. err' => act \in failed' /\ act > x.act
      BY <1>3, <1>5, <3>2
    <3> QED BY <1>1, <1>6, <3>2, <3>3 DEF Reason
  <2> QED BY <2>1, <2>2
<1>15. Nested(stack', Len(flist'), asked', paused', calls', ret')
  BY <1>1, <1>3, <1>9, <1>11
<1>16. ~stale' /\ ~unanswered' /\ ~crossed'
  BY <1>1 DEF MachineInv
<1> QED BY <1>12, <1>13, <1>14, <1>15, <1>16 DEF MachineInv

-----------------------------------------------------------------------------
(* CompensationParser: the theorems *)

\* Parts have names of their own.
LEMMA OnePart ==
  /\ \A k, l \in Notebooks : k.name = l.name => k = l
  /\ \A k, l \in Registries : k.name = l.name => k = l
  /\ \A k, l \in Machines : k.name = l.name => k = l
  /\ \A k \in Notebooks, l \in Registries : k.name # l.name
  /\ \A k \in Notebooks, l \in Machines : k.name # l.name
  /\ \A k \in Registries, l \in Machines : k.name # l.name
  /\ \A k \in Notebooks \cup Registries \cup Machines : k.name # "operators"
BY PartsAssumption DEF PartsAssumption, Part

\* The stack is empty at first, and there is no code.
LEMMA MachineBegins ==
  ASSUME NEW k \in Machines, Machine(k)!Init
  PROVE  MachineInv(k)
<1>1. /\ flist = <<>> /\ entry = [c \in k.controls |-> "none"] /\ stack = <<>> /\ err = FALSE /\ contexts = 0
      /\ calls = 0 /\ ret = 0 /\ out = 0 /\ asked = <<>> /\ unanswered = FALSE /\ failed = {} /\ aborted = {}
      /\ leaked = 0 /\ paused = {} /\ stale = FALSE /\ crossed = FALSE
  BY DEF Machine!Init, Machine!None
<1>2. /\ flist \in Seq(Machine(k)!Function) /\ stack \in Seq(Frame) /\ asked \in Seq({"none", "ask", "dialog"})
      /\ Len(stack) = 0 /\ Len(asked) = 0
  BY <1>1, EmptySeq
<1>3. k.calls \in Nat /\ k.depth \in Nat
  BY PartsAssumption DEF PartsAssumption, Machine!ParserAssumption
<1>4. MachineTypes(k)
  <2>1. entry \in [k.controls -> STRING \cup {"none"}] /\ \A c \in k.controls : entry[c] = "none"
    BY <1>1
  <2>2. Len(stack) <= k.depth /\ out \in 0..Len(asked) /\ calls \in 0..k.calls /\ ret \in 0..calls /\ leaked \in Nat
    BY <1>1, <1>2, <1>3
  <2>3. failed \subseteq 1..Len(asked) /\ aborted \subseteq 1..Len(asked) /\ paused \subseteq 1..Len(asked)
    BY <1>1
  <2>4. contexts = Len(stack) + leaked
    BY <1>1, <1>2
  <2>5. err \in BOOLEAN
    BY <1>1
  <2> QED BY <1>2, <2>1, <2>2, <2>3, <2>4, <2>5 DEF MachineTypes
<1>5. Nested(stack, Len(flist), asked, paused, calls, ret)
  BY <1>2 DEF Nested
<1> QED BY <1>1, <1>4, <1>5 DEF MachineInv

\* Every step of the interpreter.
LEMMA MachineStep ==
  ASSUME NEW k \in Machines, MachineInv(k), Machine(k)!Next
  PROVE  MachineInv(k)'
<1>1. ASSUME NEW c \in k.controls, Machine(k)!Deliver(c) \/ Machine(k)!Click(c) PROVE MachineInv(k)'
  BY <1>1, DeliverKeeps, ClickKeeps
<1>2. ASSUME Machine(k)!Jump PROVE MachineInv(k)'
  BY <1>2, JumpKeeps
<1>3. ASSUME Machine(k)!Return \/ Machine(k)!FallOff \/ Machine(k)!Throw \/ Machine(k)!Divide PROVE MachineInv(k)'
  BY <1>3, ReturnKeeps
<1>4. ASSUME Machine(k)!Ask \/ Machine(k)!Wait \/ Machine(k)!Dialog PROVE MachineInv(k)'
  BY <1>4, AskKeeps
<1>5. ASSUME Machine(k)!Call \/ Machine(k)!CloseDialog PROVE MachineInv(k)'
  BY <1>5, CallKeeps, CloseDialogKeeps
<1>6. ASSUME Machine(k)!Select \/ Machine(k)!Assign \/ Machine(k)!Resume PROVE MachineInv(k)'
  BY <1>6, SelectKeeps, AssignKeeps, ResumeKeeps
<1> QED BY <1>1, <1>2, <1>3, <1>4, <1>5, <1>6 DEF Machine!Next

\* The interpreter that moves is as MachineInv says.
MachinesInv == \A k \in Machines : part = k.name => MachineInv(k)

LEMMA MachinesInvAlways == PartsSpec => []MachinesInv
<1>1. PartsInit => MachinesInv
  <2> SUFFICES ASSUME PartsInit, NEW k \in Machines, part = k.name PROVE MachineInv(k)
    BY DEF MachinesInv
  <2>1. PICK l \in Machines : part = l.name /\ Machine(l)!Init
    BY DEF PartsInit, Part
  <2>2. l = k
    BY <2>1, OnePart
  <2>3. Machine(k)!Init
    BY <2>1, <2>2
  <2> QED BY <2>3, MachineBegins
<1>2. MachinesInv /\ [PartsNext]_parts => MachinesInv'
  <2> SUFFICES ASSUME MachinesInv, [PartsNext]_parts, NEW k \in Machines, part' = k.name PROVE MachineInv(k)'
    BY DEF MachinesInv
  <2>1. part = k.name /\ MachineInv(k)
    BY DEF MachinesInv, PartsNext, parts
  <2>2. CASE UNCHANGED events
    BY <2>1, <2>2 DEF events, MachineInv, MachineTypes, Nested, Reason
  <2>3. CASE \E l \in Machines : part = l.name /\ Machine(l)!Next
    <3>1. PICK l \in Machines : part = l.name /\ Machine(l)!Next
      BY <2>3
    <3>2. l = k
      BY <2>1, <3>1, OnePart
    <3>3. Machine(k)!Next
      BY <3>1, <3>2
    <3> QED BY <2>1, <3>3, MachineStep
  <2> QED BY <2>2, <2>3 DEF PartsNext, parts
<1> QED BY <1>1, <1>2, PTL DEF PartsSpec

\* A call is given what its function left, code that asks is given its own answer, contexts are
\* destroyed, properties are written to the control they are read from, and events end by an
\* error for a reason, for any code, and however events and dialogs are nested.
THEOREM CallsAlwaysSound == PartsSpec => []CallsAreSound
<1>1. MachinesInv => CallsAreSound
  <2> SUFFICES ASSUME NEW k \in Machines, MachineInv(k)
               PROVE  /\ Machine(k)!TypeOK /\ Machine(k)!ResultIsFresh /\ Machine(k)!AnswerIsMine
                      /\ Machine(k)!ContextsAreDestroyed /\ Machine(k)!WrittenWhereRead
                      /\ Machine(k)!EventsFailForAReason
    BY DEF MachinesInv, CallsAreSound
  <2>1. /\ DOMAIN flist = 1..Len(flist) /\ DOMAIN stack = 1..Len(stack) /\ DOMAIN asked = 1..Len(asked)
    BY LenProperties DEF MachineInv, MachineTypes
  <2>2. \A j \in DOMAIN flist : flist[j].params \in Nat /\ flist[j].vars \in BOOLEAN
    <3>1. \A j \in 1..Len(flist) : flist[j] \in Machine(k)!Function
      BY ElementOfSeq DEF MachineInv, MachineTypes
    <3> QED BY <2>1, <3>1 DEF Machine!Function
  <2>3. \A c \in k.controls : entry[c] = Machine(k)!None \/ Machine(k)!Find(flist, entry[c]) > 0
    BY FindsTheFirst DEF MachineInv, MachineTypes, Machine!None
  <2>4. ASSUME NEW d \in DOMAIN stack
        PROVE  LET f == stack[d] IN
               /\ f.fn \in DOMAIN flist /\ f.phase \in Machine(k)!Phases /\ f.act \in DOMAIN asked
               /\ f.base \in BOOLEAN /\ f.id \in 1..calls /\ f.callee \in 0..calls /\ f.res \in Machine(k)!Vars
               /\ d < Len(stack) => f.phase # "run"
    <3> DEFINE f == stack[d]
    <3>1. f \in Frame /\ FrameOK(f, Len(flist), asked, paused, calls, ret)
      BY <2>1, NestedSays DEF MachineInv, MachineTypes
    <3>2. f.callee \in 0..calls
      <4>1. f.callee \in 0..ret /\ ret \in 0..calls /\ calls \in Nat /\ f.callee \in Nat
        BY <3>1, FrameTypes, MachineTypesAre DEF FrameOK, MachineInv, MachineTypes
      <4> QED BY <4>1
    <3>3. d < Len(stack) => f.phase # "run"
      <4> HAVE d < Len(stack)
      <4>1. d \in 1..Len(stack) /\ Len(stack) \in 1..Len(stack)
        BY <2>1, MachineTypesAre
      <4>2. Below(stack[d], stack[Len(stack)])
        BY <4>1, NestedSays DEF MachineInv, MachineTypes
      <4> QED BY <4>2 DEF Below
    <3> HIDE DEF f
    <3> QED BY <2>1, <3>1, <3>2, <3>3, FrameTypes DEF FrameOK, Machine!Phases, Machine!Vars, f
  <2>5. /\ Len(stack) <= k.depth /\ err \in BOOLEAN /\ out \in 0..Len(asked) /\ contexts \in Nat
        /\ calls \in 0..k.calls /\ ret \in 0..calls /\ failed \cup aborted \cup paused \subseteq DOMAIN asked
    BY <2>1, MachineTypesAre DEF MachineInv, MachineTypes
  <2>6. Machine(k)!TypeOK
    BY <2>2, <2>3, <2>4, <2>5 DEF Machine!TypeOK
  <2> QED BY <2>6 DEF Machine!ResultIsFresh, Machine!AnswerIsMine, Machine!ContextsAreDestroyed,
     Machine!WrittenWhereRead, Machine!EventsFailForAReason, MachineInv, MachineTypes, Reason
<1> QED BY <1>1, MachinesInvAlways, PTL

\* A name means the same function for good, whatever the server sends again under it, so
\* that an event that keeps its entry point, and every call, runs the same code (AddFunction,
\* Find, SetClientEvent).
THEOREM NamesKeepTheirCodeAlways == PartsSpec => NamesKeepTheirCode
<1> DEFINE Kept ==
      \A k \in Machines : part = k.name =>
        \A j \in DOMAIN flist :
          flist'[Machine(k)!Find(flist', flist[j].name)] = flist[Machine(k)!Find(flist, flist[j].name)]
<1>1. MachinesInv /\ [PartsNext]_parts => [Kept]_parts
  <2> SUFFICES ASSUME MachinesInv, PartsNext, NEW k \in Machines, part = k.name,
                      NEW named \in DOMAIN flist
               PROVE  flist'[Machine(k)!Find(flist', flist[named].name)]
                        = flist[Machine(k)!Find(flist, flist[named].name)]
    OBVIOUS
  <2>0. PICK word : word = flist[named].name
    OBVIOUS
  <2>1. flist \in Seq(Machine(k)!Function) /\ \E j \in 1..Len(flist) : flist[j].name = word
    <3>1. flist \in Seq(Machine(k)!Function)
      BY DEF MachinesInv, MachineInv, MachineTypes
    <3>2. DOMAIN flist = 1..Len(flist)
      BY <3>1, LenProperties
    <3> QED BY <2>0, <3>1, <3>2
  <2>2. CASE UNCHANGED flist
    BY <2>2
  <2>3. CASE \E d \in k.controls : Machine(k)!Deliver(d)
    <3>1. PICK d \in k.controls : Machine(k)!Deliver(d)
      BY <2>3
    <3>2. PICK p \in k.packages : flist' = flist \o p.functions
      BY <3>1 DEF Machine!Deliver
    <3>5. p.functions \in Seq(Machine(k)!Function)
      BY PartsAssumption DEF PartsAssumption, Machine!ParserAssumption
    <3>6. /\ Machine(k)!Find(flist \o p.functions, word) = Machine(k)!Find(flist, word)
          /\ (flist \o p.functions)[Machine(k)!Find(flist, word)] = flist[Machine(k)!Find(flist, word)]
      <4> DEFINE fs == flist \o p.functions
      <4>1. /\ fs \in Seq(Machine(k)!Function) /\ Len(fs) = Len(flist) + Len(p.functions)
            /\ \A i \in 1..Len(flist) : fs[i] = flist[i]
        BY <2>1, <3>5, ConcatProperties
      <4>2. Len(flist) <= Len(fs) /\ \A i \in 1..Len(flist) : i \in 1..Len(fs)
        <5>1. Len(flist) \in Nat /\ Len(p.functions) \in Nat
          BY <2>1, <3>5
        <5> QED BY <4>1, <5>1
      <4> HIDE DEF fs
      <4>3. \E j \in 1..Len(fs) : fs[j].name = word
        BY <2>1, <4>1, <4>2
      <4>4. IsFirst(flist, word, Machine(k)!Find(flist, word)) /\ IsFirst(fs, word, Machine(k)!Find(fs, word))
        BY <2>1, <4>1, <4>3, FindsTheFirst
      <4>5. PICK f, h, name : f = Machine(k)!Find(flist, word) /\ h = Machine(k)!Find(fs, word) /\ name = word
        OBVIOUS
      <4>6. h = f /\ fs[f] = flist[f]
        <5>1. flist \in Seq(Machine(k)!Function) /\ IsFirst(flist, name, f) /\ IsFirst(fs, name, h)
          BY <2>1, <4>4, <4>5
        <5> QED BY <4>1, <4>2, <5>1, FirstStays
      <4> QED BY <4>5, <4>6 DEF fs
    <3> QED BY <2>0, <3>2, <3>6
  <2>4. UNCHANGED flist \/ \E d \in k.controls : Machine(k)!Deliver(d)
    <3>1. CASE UNCHANGED events
      BY <3>1 DEF events
    <3>2. CASE \E l \in Machines : part = l.name /\ Machine(l)!Next
      <4>1. PICK l \in Machines : part = l.name /\ Machine(l)!Next
        BY <3>2
      <4>2. l = k
        BY <4>1, OnePart
      <4>3. Machine(k)!Next
        BY <4>1, <4>2
      <4> QED BY <4>3 DEF Machine!Next, Machine!Click, Machine!Jump, Machine!Return, Machine!FallOff, Machine!Throw,
         Machine!Divide, Machine!Call, Machine!Ask, Machine!Wait, Machine!Dialog, Machine!CloseDialog,
         Machine!Select, Machine!Assign, Machine!Resume, Machine!code
    <3> QED BY <3>1, <3>2 DEF PartsNext
  <2> QED BY <2>2, <2>3, <2>4
<1>2. NamesKeepTheirCode <=> [][Kept]_parts
  BY DEF NamesKeepTheirCode
<1> QED BY <1>1, <1>2, MachinesInvAlways, PTL DEF PartsSpec

-----------------------------------------------------------------------------
(* DataElements *)

\* What an operator makes of a variable, and which of them only look the same to the code.
Near(d, c, S) ==
  d \in [Variables -> Element] /\ \A v \in Variables \ S : Seen(d[v]) = Seen(c[v])

\* Every outcome leaves the variables but S as they were for the code.
After(O, c, S) == \A o \in O : Near(o.context, c, S) /\ o.end \in {"", "err", "outside"}

\* The numbers there are.
LEMMA ZeroAndOne == Numbers = 0..1 /\ Numbers = {0, 1} /\ 0 \in Numbers /\ 1 \in Numbers
<1>1. Numbers = 0..1
  BY DataAssumption DEF DataAssumption
<1>2. 0..1 = {0, 1}
  OBVIOUS
<1> QED BY <1>1, <1>2

\* What the conversions give.
LEMMA Conversions ==
  ASSUME NEW e \in Element
  PROVE  /\ e.type \in {"number", "string"} /\ e.nval \in 0..1 /\ e.value \in Texts
         /\ Number(e) \in 0..1 /\ Text(e) \in Texts /\ Truth(e) \in BOOLEAN
         /\ e.type = "number" => Number(e) = e.nval
         /\ e.type # "number" => e.type = "string" /\ Text(e) = e.value
         /\ ToFloat(e.value) \in 0..1
<1>1. e.type \in {"number", "string"} /\ e.nval \in 0..1 /\ e.value \in Texts
  BY DataAssumption DEF DataAssumption, Element
<1>2. ToFloat(e.value) \in 0..1 /\ Printed(e.nval) \in Texts
  BY DEF ToFloat, Printed, Texts
<1>3. Number(e) \in 0..1 /\ (e.type = "number" => Number(e) = e.nval)
  BY <1>1, <1>2 DEF Number
<1>4. Text(e) \in Texts /\ (e.type # "number" => e.type = "string" /\ Text(e) = e.value)
  BY <1>1, <1>2 DEF Text
<1>5. Truth(e) \in BOOLEAN
  BY DEF Truth
<1> QED BY <1>1, <1>2, <1>3, <1>4, <1>5

\* A variable of S is given a type, a number or a text, or one is converted in its place.
LEMMA NearWritten ==
  ASSUME NEW c, NEW S, NEW d, Near(d, c, S), NEW v
  PROVE  /\ \A t \in {"number", "string"} : v \in S => Near([d EXCEPT ![v].type = t], c, S)
         /\ \A n \in Numbers : v \in S => Near([d EXCEPT ![v].nval = n], c, S)
         /\ \A s \in Texts : v \in S => Near([d EXCEPT ![v].value = s], c, S)
         /\ v \in Variables => Near(Converted(d, v), c, S)
<1>1. d \in [Variables -> Element] /\ \A w \in Variables \ S : Seen(d[w]) = Seen(c[w])
  BY DEF Near
<1>2. ASSUME NEW t \in {"number", "string"}, v \in S PROVE Near([d EXCEPT ![v].type = t], c, S)
  <2>1. [d EXCEPT ![v].type = t] \in [Variables -> Element]
    BY <1>1, <1>2 DEF Element
  <2>2. \A w \in Variables \ S : [d EXCEPT ![v].type = t][w] = d[w]
    BY <1>1, <1>2
  <2> QED BY <1>1, <2>1, <2>2 DEF Near
<1>3. ASSUME NEW n \in Numbers, v \in S PROVE Near([d EXCEPT ![v].nval = n], c, S)
  <2>1. [d EXCEPT ![v].nval = n] \in [Variables -> Element]
    BY <1>1, <1>3 DEF Element
  <2>2. \A w \in Variables \ S : [d EXCEPT ![v].nval = n][w] = d[w]
    BY <1>1, <1>3
  <2> QED BY <1>1, <2>1, <2>2 DEF Near
<1>4. ASSUME NEW s \in Texts, v \in S PROVE Near([d EXCEPT ![v].value = s], c, S)
  <2>1. [d EXCEPT ![v].value = s] \in [Variables -> Element]
    BY <1>1, <1>4 DEF Element
  <2>2. \A w \in Variables \ S : [d EXCEPT ![v].value = s][w] = d[w]
    BY <1>1, <1>4
  <2> QED BY <1>1, <2>1, <2>2 DEF Near
<1>5. ASSUME v \in Variables PROVE Near(Converted(d, v), c, S)
  <2>1. CASE d[v].type = "string"
    <3> DEFINE n == ToFloat(d[v].value)
               e == [d EXCEPT ![v].nval = n]
    <3>1. n \in Numbers
      BY <1>1, <1>5, Conversions, DataAssumption DEF DataAssumption
    <3> HIDE DEF n
    <3>2. e \in [Variables -> Element]
      BY <1>1, <1>5, <3>1 DEF Element
    <3>3. e[v].type = "string" /\ e[v].value = d[v].value /\ \A w \in Variables : w # v => e[w] = d[w]
      BY <1>1, <1>5, <2>1 DEF Element
    <3>4. Seen(e[v]) = Seen(d[v])
      BY <2>1, <3>3 DEF Seen
    <3>5. Converted(d, v) = e
      BY <2>1 DEF Converted, n
    <3> HIDE DEF e
    <3> QED BY <1>1, <3>2, <3>3, <3>4, <3>5 DEF Near
  <2>2. CASE d[v].type # "string"
    BY <1>1, <2>2 DEF Converted, Near
  <2> QED BY <2>1, <2>2
<1> QED BY <1>2, <1>3, <1>4, <1>5

\* An outcome is a context and how it ends.
LEMMA OutcomeIs ==
  ASSUME NEW e
  PROVE  /\ \A o \in Go(e) : o.context = e /\ o.end = ""
         /\ \A o \in Fail(e) : o.context = e /\ o.end = "err"
         /\ \A o \in Outside(e) : o.context = e /\ o.end = "outside"
<1>1. ASSUME NEW o \in Go(e) PROVE o.context = e /\ o.end = ""
  <2>1. o = [context |-> e, end |-> ""]
    BY DEF Go
  <2> QED BY <2>1
<1>2. ASSUME NEW o \in Fail(e) PROVE o.context = e /\ o.end = "err"
  <2>1. o = [context |-> e, end |-> "err"]
    BY DEF Fail
  <2> QED BY <2>1
<1>3. ASSUME NEW o \in Outside(e) PROVE o.context = e /\ o.end = "outside"
  <2>1. o = [context |-> e, end |-> "outside"]
    BY DEF Outside
  <2> QED BY <2>1
<1> QED BY <1>1, <1>2, <1>3

\* What may come out.
LEMMA AfterEach ==
  ASSUME NEW c, NEW S, NEW d, Near(d, c, S)
  PROVE  /\ After(Go(d), c, S) /\ After(Fail(d), c, S) /\ After(Outside(d), c, S) /\ After({}, c, S)
         /\ \A v \in S : \A n : After(Gives(d, v, n), c, S)
         /\ \A v \in S : \A s : After(Reads(d, v, s), c, S)
<1>0. ASSUME NEW e, Near(e, c, S) PROVE After(Go(e), c, S) /\ After(Fail(e), c, S) /\ After(Outside(e), c, S)
  <2> QED BY <1>0, OutcomeIs DEF After
<1>1. After(Go(d), c, S) /\ After(Fail(d), c, S) /\ After(Outside(d), c, S) /\ After({}, c, S)
  BY <1>0 DEF After
<1>2. ASSUME NEW v \in S, NEW n PROVE After(Gives(d, v, n), c, S)
  <2>1. CASE n \in Numbers
    <3>1. Near([d EXCEPT ![v].nval = n], c, S)
      BY <2>1, NearWritten
    <3> QED BY <1>0, <2>1, <3>1 DEF Gives
  <2> QED BY <2>1 DEF Gives, After
<1>3. ASSUME NEW v \in S, NEW s PROVE After(Reads(d, v, s), c, S)
  <2>1. CASE s \in Texts
    <3>1. Near([d EXCEPT ![v].value = s], c, S)
      BY <2>1, NearWritten
    <3> QED BY <1>0, <2>1, <3>1 DEF Reads
  <2> QED BY <2>1 DEF Reads, After
<1> QED BY <1>1, <1>2, <1>3

\* Which variables an instruction has.
LEMMA InstructionIs ==
  ASSUME NEW i \in Instructions
  PROVE  /\ i.op \in Binary \cup Assignments \cup UnaryOps \cup {"++", "--", "del", "copy"}
         /\ i.res \in Variables \cup {None}
         /\ i.op \in (Binary \ {"+"}) \cup Assignments => i.l \in Variables /\ i.r \in Variables
         /\ i.op = "+" => i.r \in Variables /\ (i.l \in Variables \/ (i.l = None /\ i.res \in Variables))
         /\ i.op \in UnaryOps => i.res \in Variables /\ i.l = None /\ i.r \in Variables
         /\ i.op \in {"++", "--"} => (i.l = None /\ i.r \in Variables) \/ (i.l \in Variables /\ i.r = None)
         /\ i.op = "del" => i.res = None /\ i.l = None /\ i.r \in Variables
         /\ i.op = "copy" => i.res \in Variables /\ i.l \in Variables /\ i.r = None
<1> DEFINE B == Binary
           A == Assignments
<1>1. /\ B \cap (UnaryOps \cup {"++", "--", "del", "copy"}) = {} /\ A \cap (UnaryOps \cup {"++", "--", "del", "copy"}) = {}
      /\ UnaryOps \cap {"++", "--", "del", "copy", "+"} = {} /\ "+" \notin A /\ "+" \in B
  BY DEF Binary, Relations, Equalities, Logical, Bitwise, Multiplicative, Assignments, CompoundOf, UnaryOps
<1> HIDE DEF A, B
<1>2. \/ i \in [op : B \cup A, res : Variables \cup {None}, l : Variables, r : Variables]
      \/ i \in [op : UnaryOps \cup {"+"}, res : Variables, l : {None}, r : Variables]
      \/ i \in [op : {"++", "--"}, res : Variables \cup {None}, l : {None}, r : Variables]
      \/ i \in [op : {"++", "--"}, res : Variables \cup {None}, l : Variables, r : {None}]
      \/ i \in [op : {"del"}, res : {None}, l : {None}, r : Variables]
      \/ i \in [op : {"copy"}, res : Variables, l : Variables, r : {None}]
  BY DEF Instructions, A, B
<1>3. \/ i.op \in B \cup A /\ i.res \in Variables \cup {None} /\ i.l \in Variables /\ i.r \in Variables
      \/ i.op \in UnaryOps \cup {"+"} /\ i.res \in Variables /\ i.l = None /\ i.r \in Variables
      \/ i.op \in {"++", "--"} /\ i.res \in Variables \cup {None} /\ i.l = None /\ i.r \in Variables
      \/ i.op \in {"++", "--"} /\ i.res \in Variables \cup {None} /\ i.l \in Variables /\ i.r = None
      \/ i.op = "del" /\ i.res = None /\ i.l = None /\ i.r \in Variables
      \/ i.op = "copy" /\ i.res \in Variables /\ i.l \in Variables /\ i.r = None
  BY <1>2
<1>4. QED
  BY <1>1, <1>3 DEF A, B

\* The instruction an operator stands for.
LEMMA OutcomesAre ==
  ASSUME NEW c, NEW i
  PROVE  /\ i.op \in Binary \cup UnaryOps /\ i.res = None => Outcomes(c, i) = Go(c)
         /\ i.op \in Relations /\ i.res # None => Outcomes(c, i) = Relation(c, i)
         /\ i.op \in Equalities /\ i.res # None => Outcomes(c, i) = Equality(c, i)
         /\ i.op \in Logical /\ i.res # None => Outcomes(c, i) = Logic(c, i)
         /\ i.op \in Bitwise /\ i.res # None => Outcomes(c, i) = BitsOf(c, i)
         /\ i.op \in Multiplicative /\ i.res # None => Outcomes(c, i) = Product(c, i)
         /\ i.op = "+" /\ i.res # None => Outcomes(c, i) = Sum(c, i)
         /\ i.op = "[]" /\ i.res # None => Outcomes(c, i) = Index(c, i)
         /\ i.op \in UnaryOps /\ i.res # None => Outcomes(c, i) = Unary(c, i)
         /\ i.op = "del" => Outcomes(c, i) = Delete(c, i)
         /\ i.op \in {"++", "--"} => Outcomes(c, i) = Inc(c, i)
         /\ i.op = "=" => Outcomes(c, i) = Assign(c, i)
         /\ i.op = "+=" => Outcomes(c, i) = AddTo(c, i)
         /\ i.op \in DOMAIN CompoundOf => Outcomes(c, i) = Compound(c, i, CompoundOf[i.op])
         /\ i.op = "copy" => Outcomes(c, i) = Copy(c, i)
<1>1. /\ Relations = {"<", "<=", ">", ">="} /\ Equalities = {"==", "!="} /\ Logical = {"&&", "||"}
      /\ Bitwise = {"<<", ">>", "&", "^", "|"} /\ Multiplicative = {"/", "%", "*", "-"}
      /\ UnaryOps = {"typeof", "length", "value", "!"}
      /\ Binary = Relations \cup Equalities \cup Logical \cup Bitwise \cup Multiplicative \cup {"+", "[]"}
      /\ DOMAIN CompoundOf = {"-=", "/=", "%=", "*=", "&=", "^=", "|=", "<<=", ">>="}
  BY DEF Relations, Equalities, Logical, Bitwise, Multiplicative, UnaryOps, Binary, CompoundOf
<1> QED BY <1>1 DEF Outcomes

\* What an instruction is to change.
Written(i) ==
  {i.res} \cup (IF i.op \in Assignments THEN {i.l} ELSE {})
          \cup (IF i.op \in {"++", "--", "del"} THEN {i.l, i.r} ELSE {})

\* An operator gives a truth.
LEMMA AfterTruths ==
  ASSUME NEW c, NEW S, NEW d, Near(d, c, S), NEW i, i.res \in S, NEW bs
  PROVE  After(Truths(d, i, bs), c, S)
<1>1. \A b \in bs : After(Gives(d, i.res, Bit(b)), c, S)
  BY AfterEach
<1> QED BY <1>1 DEF Truths, After

\* The type of the result is written.
LEMMA NearRetyped ==
  ASSUME NEW c, NEW S, NEW d, Near(d, c, S), NEW v \in S, NEW t \in {"number", "string"}
  PROVE  Near(Retyped(d, v, t), c, S)
BY NearWritten DEF Retyped

\* What Shown writes is a number of the context.
LEMMA NearShown ==
  ASSUME NEW c, NEW S, NEW d, Near(d, c, S), NEW i, i.res \in S, i.l \in Variables
  PROVE  Near(Shown(d, i), c, S)
<1>1. d[i.l].nval \in Numbers
  BY DEF Near, Element
<1> QED BY <1>1, NearWritten DEF Shown

\* Operators: relations, logic, bits, and what is like a product.
LEMMA OperatorsAfter ==
  ASSUME NEW c \in [Variables -> Element], NEW i \in Instructions, i.op \in Binary \cup UnaryOps
  PROVE  After(Outcomes(c, i), c, {i.res})
<1> DEFINE S == {i.res}
           d == Retyped(c, i.res, "number")
<1>1. Near(c, c, S)
  BY DEF Near
<1>2. Near(d, c, S) /\ Near(Retyped(c, i.res, "string"), c, S)
  BY <1>1, NearRetyped
<1> HIDE DEF d
<1>3. CASE i.res = None
  <2>1. After(Go(c), c, S)
    BY <1>1, AfterEach
  <2> QED BY <1>3, <2>1, OutcomesAre
<1>4. CASE i.res # None /\ i.op \in Relations
  <2>1. After(Relation(c, i), c, S)
    BY <1>2, AfterTruths DEF Relation, d
  <2> QED BY <1>4, <2>1, OutcomesAre
<1>5. CASE i.res # None /\ i.op \in Equalities
  <2>1. After(Equality(c, i), c, S)
    BY <1>2, AfterTruths DEF Equality, d
  <2> QED BY <1>5, <2>1, OutcomesAre
<1>6. CASE i.res # None /\ i.op \in Logical
  <2>1. After(Logic(c, i), c, S)
    BY <1>2, AfterTruths DEF Logic, d
  <2> QED BY <1>6, <2>1, OutcomesAre
<1>7. CASE i.res # None /\ i.op \in Bitwise
  <2>1. After(BitsOf(c, i), c, S)
    BY <1>2, AfterEach DEF BitsOf, d
  <2> QED BY <1>7, <2>1, OutcomesAre
<1>8. CASE i.res # None /\ i.op \in Multiplicative
  <2> DEFINE e == IF i.op \in Divisions THEN Converted(d, i.r) ELSE d
  <2>1. i.r \in Variables
    BY <1>8, InstructionIs DEF Binary, Multiplicative
  <2>2. Near(e, c, S)
    BY <1>2, <2>1, NearWritten
  <2>3. After(Product(c, i), c, S)
    <3> HIDE DEF e
    <3> QED BY <2>2, AfterEach DEF Product, d, e
  <2> QED BY <1>8, <2>3, OutcomesAre
<1>9. CASE i.res # None /\ i.op = "+"
  <2>1. ASSUME i.l # None PROVE Near(Retyped(c, i.res, c[i.l].type), c, S)
    <3>1. i.l \in Variables
      BY <1>9, <2>1, InstructionIs
    <3>2. c[i.l].type \in {"number", "string"}
      BY <3>1, Conversions
    <3> QED BY <1>1, <3>2, NearRetyped
  <2>2. After(Sum(c, i), c, S)
    <3>1. CASE i.l = None
      BY <1>1, <3>1, AfterEach DEF Sum
    <3>2. CASE i.l # None
      <4> DEFINE e == Retyped(c, i.res, c[i.l].type)
      <4>1. Near(e, c, S)
        BY <2>1, <3>2
      <4> HIDE DEF e
      <4> QED BY <3>2, <4>1, AfterEach DEF Sum, e
    <3> QED BY <3>1, <3>2
  <2> QED BY <1>9, <2>2, OutcomesAre
<1>10. CASE i.res # None /\ i.op = "[]"
  <2>1. After(Index(c, i), c, S)
    BY <1>1, <1>2, AfterEach DEF Index
  <2> QED BY <1>10, <2>1, OutcomesAre
<1>11. CASE i.res # None /\ i.op \in UnaryOps
  <2> DEFINE e == Retyped(c, i.res, IF i.op = "typeof" THEN "string" ELSE "number")
  <2>1. Near(e, c, S)
    BY <1>2 DEF d
  <2>2. After(Unary(c, i), c, S)
    <3> HIDE DEF e
    <3> QED BY <1>11, <2>1, AfterEach DEF Unary, UnaryOps, e
  <2> QED BY <1>11, <2>2, OutcomesAre
<1> QED BY <1>3, <1>4, <1>5, <1>6, <1>7, <1>8, <1>9, <1>10, <1>11 DEF Binary

\* A variable is made a number.
LEMMA NearNumber ==
  ASSUME NEW c, NEW S, NEW d, Near(d, c, S), NEW v \in S, NEW m \in Numbers
  PROVE  Near([d EXCEPT ![v].type = "number", ![v].nval = m], c, S)
<1> DEFINE e == [d EXCEPT ![v].type = "number"]
<1>1. Near(e, c, S)
  BY NearWritten
<1>2. Near([e EXCEPT ![v].nval = m], c, S)
  <2> HIDE DEF e
  <2> QED BY <1>1, NearWritten
<1>3. [e EXCEPT ![v].nval = m] = [d EXCEPT ![v].type = "number", ![v].nval = m]
  BY DEF Near
<1> QED BY <1>2, <1>3

\* Counting up and down, and the end of a variable.
LEMMA CountsAfter ==
  ASSUME NEW c \in [Variables -> Element], NEW i \in Instructions, i.op \in {"++", "--", "del"}
  PROVE  After(Outcomes(c, i), c, {i.res, i.l, i.r})
<1> DEFINE S == {i.res, i.l, i.r}
<1>1. Near(c, c, S)
  BY DEF Near
<1>2. CASE i.op = "del"
  <2>1. 0 \in Numbers
    BY ZeroAndOne
  <2>2. Near([c EXCEPT ![i.r].type = "number", ![i.r].nval = 0], c, S)
    BY <1>1, <2>1, NearNumber
  <2>3. After(Delete(c, i), c, S)
    BY <2>2, AfterEach DEF Delete
  <2> QED BY <1>2, <2>3, OutcomesAre
<1>3. CASE i.op \in {"++", "--"}
  <2> DEFINE v == IF i.l # None THEN i.l ELSE i.r
             n == c[v].nval + (IF i.op = "++" THEN 1 ELSE -1)
             ShownAs(d, m) == IF i.res = None THEN d ELSE [d EXCEPT ![i.res].type = "number", ![i.res].nval = m]
  <2>1. v \in Variables /\ v \in S
    BY <1>3, InstructionIs
  <2>2. c[v].nval \in Numbers
    BY <2>1, Conversions DEF Element
  <2>3. ASSUME NEW d, Near(d, c, S), NEW m \in Numbers PROVE Near(ShownAs(d, m), c, S)
    BY <2>3, NearNumber
  <2> HIDE DEF v, n, ShownAs
  <2>4. ASSUME NEW d, Near(d, c, S), n \in Numbers PROVE Near([d EXCEPT ![v].nval = n], c, S)
    BY <2>1, <2>4, NearWritten
  <2>5. Inc(c, i) = IF c[v].type # "number" THEN Fail(c)
                    ELSE IF n \notin Numbers THEN {}
                    ELSE IF i.l # None THEN Go([ShownAs(c, c[v].nval) EXCEPT ![v].nval = n])
                    ELSE Go(ShownAs([c EXCEPT ![v].nval = n], n))
    BY DEF Inc, v, n, ShownAs
  <2>6. After(Fail(c), c, S) /\ After({}, c, S)
    BY <1>1, AfterEach
  <2>7. n \in Numbers => After(Go([ShownAs(c, c[v].nval) EXCEPT ![v].nval = n]), c, S)
    <3> HAVE n \in Numbers
    <3>1. Near([ShownAs(c, c[v].nval) EXCEPT ![v].nval = n], c, S)
      BY <1>1, <2>2, <2>3, <2>4
    <3> QED BY <3>1, AfterEach
  <2>8. n \in Numbers => After(Go(ShownAs([c EXCEPT ![v].nval = n], n)), c, S)
    <3> HAVE n \in Numbers
    <3>1. Near(ShownAs([c EXCEPT ![v].nval = n], n), c, S)
      BY <1>1, <2>3, <2>4
    <3> QED BY <3>1, AfterEach
  <2>9. After(Inc(c, i), c, S)
    BY <2>5, <2>6, <2>7, <2>8
  <2> QED BY <1>3, <2>9, OutcomesAre
<1> QED BY <1>2, <1>3

\* Assignments.
LEMMA AssignmentsAfter ==
  ASSUME NEW c \in [Variables -> Element], NEW i \in Instructions, i.op \in Assignments \cup {"copy"}
  PROVE  After(Outcomes(c, i), c, IF i.op = "copy" THEN {i.res} ELSE {i.res, i.l})
<1>1. CASE i.op = "copy"
  <2> DEFINE S == {i.res}
             d == Retyped(c, i.res, c[i.l].type)
  <2>1. i.l \in Variables /\ i.res \in Variables /\ Near(c, c, S)
    BY <1>1, InstructionIs DEF Near
  <2>2. Near(d, c, S)
    <3>1. c[i.l].type \in {"number", "string"}
      BY <2>1, Conversions
    <3> QED BY <2>1, <3>1, NearRetyped
  <2>3. d[i.l].nval \in Numbers /\ d[i.l].value \in Texts
    <3> HIDE DEF d
    <3> QED BY <2>1, <2>2 DEF Near, Element
  <2> HIDE DEF d
  <2>4. Near([d EXCEPT ![i.res].nval = d[i.l].nval], c, S) /\ Near([d EXCEPT ![i.res].value = d[i.l].value], c, S)
    BY <2>2, <2>3, NearWritten
  <2>5. After(Copy(c, i), c, S)
    BY <2>4, AfterEach DEF Copy, d
  <2> QED BY <1>1, <2>5, OutcomesAre
<1>2. CASE i.op \in Assignments
  <2> DEFINE S == {i.res, i.l}
  <2>1. i.l \in Variables /\ i.r \in Variables /\ Near(c, c, S) /\ i.op # "copy"
    BY <1>2, InstructionIs DEF Near, Assignments, CompoundOf
  <2>2. After(Go(c), c, S) /\ After(Fail(c), c, S) /\ After(Outside(c), c, S) /\ After({}, c, S)
    BY <2>1, AfterEach
  <2>3. CASE i.op = "="
    <3> DEFINE d == Retyped(c, i.res, c[i.r].type)
               e == IF d[i.r].type = "number" THEN [d EXCEPT ![i.l].nval = d[i.r].nval]
                    ELSE [d EXCEPT ![i.l].value = d[i.r].value]
    <3>1. Near(d, c, S)
      <4>1. c[i.r].type \in {"number", "string"}
        BY <2>1, Conversions
      <4> QED BY <2>1, <4>1, NearRetyped
    <3> HIDE DEF d
    <3>2. Near(e, c, S)
      <4>1. d[i.r].nval \in Numbers /\ d[i.r].value \in Texts
        BY <2>1, <3>1 DEF Near, Element
      <4> QED BY <3>1, <4>1, NearWritten
    <3> HIDE DEF e
    <3>3. Near([e EXCEPT ![i.res].nval = e[i.l].nval], c, S)
      <4>1. e[i.l].nval \in Numbers
        BY <2>1, <3>2 DEF Near, Element
      <4> QED BY <3>2, <4>1, NearWritten
    <3>4. After(Assign(c, i), c, S)
      BY <2>2, <3>3, AfterEach DEF Assign, d, e
    <3> QED BY <2>1, <2>3, <3>4, OutcomesAre
  <2>4. CASE i.op = "+="
    <3> DEFINE d == Retyped(c, i.res, "string")
               s == Text(d[i.r])
               n == c[i.l].nval + Number(c[i.r])
               a == [c EXCEPT ![i.l].nval = n]
               b == [d EXCEPT ![i.l].value = IF s = "" THEN @ ELSE s]
    <3>1. Near(d, c, S)
      BY <2>1, NearRetyped
    <3>2. n \in Numbers => Near(a, c, S)
      <4> HIDE DEF n
      <4> QED BY <2>1, NearWritten
    <3>3. Near(b, c, S)
      <4> DEFINE t == IF s = "" THEN d[i.l].value ELSE s
      <4> HIDE DEF d
      <4>1. d[i.l] \in Element /\ d[i.r] \in Element
        BY <2>1, <3>1 DEF Near
      <4>2. t \in Texts
        BY <4>1, Conversions
      <4>3. b = [d EXCEPT ![i.l].value = t]
        OBVIOUS
      <4> HIDE DEF t, b
      <4>4. Near([d EXCEPT ![i.l].value = t], c, S)
        BY <3>1, <4>2, NearWritten
      <4> QED BY <4>3, <4>4
    <3> HIDE DEF a, b, d, s, n
    <3>4. n \in Numbers => After(Go(Shown(a, i)), c, S)
      <4> HAVE n \in Numbers
      <4>1. Near(Shown(a, i), c, S)
        BY <2>1, <3>2, NearShown
      <4> QED BY <4>1, AfterEach
    <3>5. After(Go(Shown(b, i)), c, S)
      <4>1. Near(Shown(b, i), c, S)
        BY <2>1, <3>3, NearShown
      <4> QED BY <4>1, AfterEach
    <3>6. AddTo(c, i) \in {Go(Shown(b, i)), {}, Outside(c)} \/ (n \in Numbers /\ AddTo(c, i) = Go(Shown(a, i)))
      BY DEF AddTo, a, b, d, s, n
    <3>7. After(AddTo(c, i), c, S)
      BY <2>2, <3>4, <3>5, <3>6
    <3> QED BY <2>1, <2>4, <3>7, OutcomesAre
  <2>5. CASE i.op \in DOMAIN CompoundOf
    <3> DEFINE op == CompoundOf[i.op]
               d == Retyped(c, i.res, "number")
               e == IF op \in {"*", "-"} THEN d ELSE Converted(d, i.r)
               m == e[i.l].nval
               k == IF op \in {"*", "-"} THEN Number(e[i.r]) ELSE e[i.r].nval
               n == IF op \in Bitwise THEN Bits(op, m, k) ELSE Arithmetic(op, m, k)
               a == [e EXCEPT ![i.l].nval = n]
    <3>1. Near(d, c, S)
      BY <2>1, NearRetyped
    <3> HIDE DEF d
    <3>2. Near(e, c, S)
      BY <2>1, <3>1, NearWritten
    <3> HIDE DEF e, n
    <3>3. n \in Numbers => Near(a, c, S)
      BY <3>2, NearWritten
    <3> HIDE DEF a
    <3>4. n \in Numbers => After(Go(Shown(a, i)), c, S)
      <4> HAVE n \in Numbers
      <4>1. Near(Shown(a, i), c, S)
        BY <2>1, <3>3, NearShown
      <4> QED BY <4>1, AfterEach
    <3>5. After(Fail(d), c, S) /\ After(Fail(e), c, S)
      BY <3>1, <3>2, AfterEach
    <3>6. \/ Compound(c, i, op) \in {Outside(c), Fail(d), Fail(e), {}}
          \/ n \in Numbers /\ Compound(c, i, op) = Go(Shown(a, i))
      BY DEF Compound, d, e, n, a
    <3>7. After(Compound(c, i, op), c, S)
      <4> HIDE DEF op
      <4> QED BY <2>2, <3>4, <3>5, <3>6
    <3> QED BY <2>1, <2>5, <3>7, OutcomesAre
  <2> QED BY <1>2, <2>3, <2>4, <2>5 DEF Assignments
<1> QED BY <1>1, <1>2

\* Every instruction leaves what the code sees of the others.
LEMMA OutcomesAfter ==
  ASSUME NEW c \in [Variables -> Element], NEW i \in Instructions
  PROVE  After(Outcomes(c, i), c, Written(i))
<1>1. After(Outcomes(c, i), c, {i.res}) \/ After(Outcomes(c, i), c, Written(i))
  <2>1. CASE i.op \in Binary \cup UnaryOps
    BY <2>1, OperatorsAfter
  <2>2. CASE i.op \in {"++", "--", "del"}
    <3>1. Written(i) = {i.res, i.l, i.r}
      BY <2>2 DEF Written, Assignments, CompoundOf
    <3> QED BY <2>2, <3>1, CountsAfter
  <2>3. CASE i.op = "copy"
    BY <2>3, AssignmentsAfter
  <2>4. CASE i.op \in Assignments
    <3>1. Written(i) = {i.res, i.l} /\ i.op # "copy"
      BY <2>4 DEF Written, Assignments, CompoundOf
    <3> QED BY <2>4, <3>1, AssignmentsAfter
  <2> QED BY <2>1, <2>2, <2>3, <2>4, InstructionIs
<1>2. {i.res} \subseteq Written(i)
  BY DEF Written
<1> QED BY <1>1, <1>2 DEF After, Near

\* Texts that are not empty are ordered.
LEMMA TextsAreOrdered ==
  ASSUME NEW s \in Texts, NEW t \in Texts
  PROVE  /\ Before(s, t) \in BOOLEAN
         /\ t # "" /\ s = "" => Before(s, t) /\ ~Before(t, s)
         /\ s # "" /\ t # "" => (Before(s, t) <=> s # t /\ ~Before(t, s)) /\ ~(Before(s, t) /\ Before(t, s))
<1> DEFINE P == {<<"0", "1">>, <<"0", Letter>>, <<"1", Letter>>}
<1>1. Letter # "" /\ Letter # "0" /\ Letter # "1"
  BY DataAssumption DEF DataAssumption
<1>2. s \in {"", "0", "1", Letter} /\ t \in {"", "0", "1", Letter}
  BY DEF Texts
<1>3. \A p, q : <<p, q>> \in P <=> (p = "0" /\ q = "1") \/ (p = "0" /\ q = Letter) \/ (p = "1" /\ q = Letter)
  OBVIOUS
<1>4. \A p, q : Before(p, q) <=> <<p, q>> \in P \/ (p = "" /\ q # "")
  BY DEF Before
<1>5. Before(s, t) \in BOOLEAN
  BY DEF Before
<1> HIDE DEF P
<1> QED BY <1>1, <1>2, <1>3, <1>4, <1>5

\* Two elements are compared alike by all the comparisons.
LEMMA ElementsCompared ==
  ASSUME NEW x \in Element, NEW y \in Element
  PROVE  LET empty == x.type = "string" /\ (x.value = "" \/ Text(y) = "") IN
         /\ Same("!=", x, y) = {~b : b \in Same("==", x, y)}
         /\ TRUE \in Ordered("<", x, y) =>
              /\ TRUE \in Ordered("<=", x, y) /\ (~empty => Ordered("<=", x, y) = {TRUE})
              /\ Ordered(">=", x, y) = {FALSE} /\ Same("==", x, y) = {FALSE}
         /\ Ordered("<=", x, y) = {TRUE} /\ Ordered(">=", x, y) = {TRUE} => Same("==", x, y) = {TRUE}
         /\ ~empty => Ordered("<=", x, y) \cup Ordered(">=", x, y) # {FALSE}
         /\ x.type = "number" => Ordered("<", x, y) = {~b : b \in Ordered(">=", x, y)}
<1>1. CASE x.type = "number"
  <2>1. PICK m, n \in 0..1 : m = x.nval /\ n = Number(y)
    BY Conversions
  <2>2. /\ Ordered("<", x, y) = {m < n} /\ Ordered("<=", x, y) = {m <= n} /\ Ordered(">=", x, y) = {m >= n}
        /\ Same("==", x, y) = {m = n} /\ Same("!=", x, y) = {~(m = n)}
    BY <1>1, <2>1 DEF Ordered, Related, Same
  <2>3. /\ m < n => m <= n /\ ~(m >= n) /\ ~(m = n)
        /\ m <= n /\ m >= n => m = n
        /\ m <= n \/ m >= n
        /\ (m < n) <=> ~(m >= n)
    OBVIOUS
  <2> DEFINE lt == m < n
             le == m <= n
             ge == m >= n
             eq == m = n
  <2>4. lt \in BOOLEAN /\ le \in BOOLEAN /\ ge \in BOOLEAN /\ eq \in BOOLEAN
    OBVIOUS
  <2>5. (lt => le /\ ~ge /\ ~eq) /\ (le /\ ge => eq) /\ (le \/ ge) /\ (lt <=> ~ge)
    BY <2>3
  <2>6. /\ Ordered("<", x, y) = {lt} /\ Ordered("<=", x, y) = {le} /\ Ordered(">=", x, y) = {ge}
        /\ Same("==", x, y) = {eq} /\ Same("!=", x, y) = {~eq}
    BY <2>2
  <2> HIDE DEF lt, le, ge, eq
  <2> QED BY <2>4, <1>1, <2>5, <2>6, ZenonT(40)
<1>2. CASE x.type # "number"
  <2>1. PICK s, t \in Texts : s = x.value /\ t = Text(y)
    BY Conversions
  <2>2. PICK lt, gt, eq \in BOOLEAN : lt = Before(s, t) /\ gt = Before(t, s) /\ eq = (s = t)
    BY TextsAreOrdered
  <2>3. /\ t # "" => Ordered("<", x, y) = {FALSE, lt}
        /\ t # "" => Ordered("<=", x, y) = {~gt} \cup (IF s = "" THEN {FALSE} ELSE {})
        /\ t # "" => Ordered(">=", x, y) = {~lt}
        /\ t = "" => Ordered("<", x, y) = {FALSE} /\ Ordered("<=", x, y) = {FALSE} /\ Ordered(">=", x, y) = {FALSE}
        /\ Same("==", x, y) = {eq} /\ Same("!=", x, y) = {~eq}
    BY <1>2, <2>1, <2>2 DEF Ordered, Strcmp, Same
  <2>4. x.type = "string"
    BY <1>2, Conversions
  <2>5. CASE t = ""
    BY <1>2, <2>1, <2>3, <2>4, <2>5, ZenonT(40)
  <2>6. CASE t # "" /\ s = ""
    <3>1. lt /\ ~gt /\ ~eq
      BY <2>1, <2>2, <2>6, TextsAreOrdered
    <3> QED BY <1>2, <2>1, <2>3, <2>4, <2>6, <3>1, Zenon
  <2>7. CASE t # "" /\ s # ""
    <3>1. (lt <=> ~eq /\ ~gt) /\ ~(lt /\ gt)
      BY <2>1, <2>2, <2>7, TextsAreOrdered
    <3>2. Ordered("<=", x, y) = {~gt}
      BY <2>3, <2>7
    <3>3. /\ Ordered("<", x, y) = {FALSE, lt} /\ Ordered(">=", x, y) = {~lt}
          /\ Same("==", x, y) = {eq} /\ Same("!=", x, y) = {~eq}
      BY <2>3, <2>7
    <3>4. CASE lt
      BY <1>2, <3>1, <3>2, <3>3, <3>4, ZenonT(40)
    <3>5. CASE ~lt /\ gt
      BY <1>2, <3>1, <3>2, <3>3, <3>5, Zenon
    <3>6. CASE ~lt /\ ~gt
      BY <1>2, <3>1, <3>2, <3>3, <3>6, Zenon
    <3> QED BY <3>4, <3>5, <3>6
  <2> QED BY <2>5, <2>6, <2>7
<1> QED BY <1>1, <1>2

\* A variable is given a type.
LEMMA RetypedIs ==
  ASSUME NEW c \in [Variables -> Element], NEW v \in Variables, NEW t \in {"number", "string"}
  PROVE  /\ Retyped(c, v, t) \in [Variables -> Element]
         /\ Retyped(c, v, t)[v].type = t /\ Retyped(c, v, t)[v].nval = c[v].nval
         /\ Retyped(c, v, t)[v].value = c[v].value
         /\ c[v].type = t => Retyped(c, v, t)[v] = c[v]
         /\ \A w \in Variables \ {v} : Retyped(c, v, t)[w] = c[w]
BY DEF Retyped, Element

\* An assignment to a number by a number gives it to the variable and to the result.
LEMMA AssignedNumbers ==
  ASSUME NEW c \in [Variables -> Element], NEW i \in Instructions, i.op = "=", i.res # None,
         c[i.l].type = "number", c[i.r].type = "number", NEW o \in Outcomes(c, i)
  PROVE  {Seen(o.context[v]) : v \in {i.res, i.l}} = {Seen(c[i.r])}
<1>1. i.l \in Variables /\ i.r \in Variables /\ i.res \in Variables
  BY InstructionIs DEF Assignments
<1> DEFINE d == Retyped(c, i.res, "number")
           e == [d EXCEPT ![i.l].nval = d[i.r].nval]
           f == [e EXCEPT ![i.res].nval = e[i.l].nval]
<1>2. /\ d \in [Variables -> Element] /\ d[i.l].type = "number" /\ d[i.r].type = "number" /\ d[i.res].type = "number"
      /\ d[i.r].nval = c[i.r].nval
  <2>1. /\ d \in [Variables -> Element] /\ d[i.res].type = "number" /\ d[i.res].nval = c[i.res].nval
        /\ \A w \in Variables \ {i.res} : d[w] = c[w]
    BY <1>1, RetypedIs
  <2> HIDE DEF d
  <2>2. \A w \in Variables : c[w].type = "number" => d[w].type = "number" /\ d[w].nval = c[w].nval
    BY <2>1
  <2> QED BY <1>1, <2>1, <2>2
<1>3. o.context = f
  <2>1. o \in Assign(c, i)
    BY OutcomesAre
  <2>2. o \in Go(f)
    BY <1>2, <2>1 DEF Assign
  <2> QED BY <2>2, OutcomeIs
<1> HIDE DEF d
<1>4. /\ e \in [Variables -> Element] /\ e[i.l].type = "number" /\ e[i.res].type = "number"
      /\ e[i.l].nval = c[i.r].nval
  BY <1>1, <1>2 DEF Element
<1> HIDE DEF e
<1>5. /\ f[i.l].type = "number" /\ f[i.res].type = "number"
      /\ f[i.l].nval = c[i.r].nval /\ f[i.res].nval = c[i.r].nval
  BY <1>1, <1>4 DEF Element
<1> HIDE DEF f
<1>6. Seen(f[i.l]) = Seen(c[i.r]) /\ Seen(f[i.res]) = Seen(c[i.r])
  BY <1>5 DEF Seen
<1> QED BY <1>3, <1>6

\* A simple assignment gives another variable what the code sees.
LEMMA CopiedVariable ==
  ASSUME NEW c \in [Variables -> Element], NEW i \in Instructions, i.op = "copy", i.res # i.l,
         NEW o \in Outcomes(c, i)
  PROVE  Seen(o.context[i.res]) = Seen(c[i.l])
<1>1. i.l \in Variables /\ i.res \in Variables /\ c[i.l].type \in {"number", "string"}
  BY InstructionIs, Conversions
<1> DEFINE d == Retyped(c, i.res, c[i.l].type)
           n == [d EXCEPT ![i.res].nval = d[i.l].nval]
           s == [d EXCEPT ![i.res].value = d[i.l].value]
<1>2. d \in [Variables -> Element] /\ d[i.l] = c[i.l] /\ d[i.res].type = c[i.l].type
  BY <1>1, RetypedIs
<1>3. o.context = IF c[i.l].type = "number" THEN n ELSE s
  <2> DEFINE g == IF c[i.l].type = "number" THEN n ELSE s
  <2>1. o \in Copy(c, i)
    BY OutcomesAre
  <2>2. o \in Go(g)
    BY <1>2, <2>1 DEF Copy
  <2> HIDE DEF g
  <2>3. o.context = g
    BY <2>2, OutcomeIs
  <2> QED BY <2>3 DEF g
<1> HIDE DEF d
<1>4. n[i.res].type = c[i.l].type /\ n[i.res].nval = c[i.l].nval
  BY <1>1, <1>2 DEF Element
<1>5. s[i.res].type = c[i.l].type /\ s[i.res].value = c[i.l].value
  BY <1>1, <1>2 DEF Element
<1> HIDE DEF n, s
<1> QED BY <1>3, <1>4, <1>5 DEF Seen

\* What an instruction that goes on shows in a variable.
Shows(O, v) == {<<o.end, Seen(o.context[v])>> : o \in {q \in O : q.end = ""}}

\* A number that is shown.
Numbered(N) == {<<"", <<"number", n>>>> : n \in N \cap Numbers}

\* What is shown in the end.
LEMMA ShownInTheEnd ==
  ASSUME NEW e, NEW v
  PROVE  Shows(Go(e), v) = {<<"", Seen(e[v])>>} /\ Shows(Fail(e), v) = {} /\ Shows({}, v) = {}
<1>1. {q \in Go(e) : q.end = ""} = {[context |-> e, end |-> ""]}
  <2>1. \A q : q \in Go(e) <=> q = [context |-> e, end |-> ""]
    BY Zenon DEF Go
  <2>2. \A q \in Go(e) : q.end = ""
    BY OutcomeIs, Zenon
  <2> QED BY <2>1, <2>2, Zenon
<1>2. [context |-> e, end |-> ""].context = e /\ [context |-> e, end |-> ""].end = ""
  BY Zenon
<1>3. {q \in Fail(e) : q.end = ""} = {} /\ {q \in {} : q.end = ""} = {}
  BY OutcomeIs, Zenon
<1> QED BY <1>1, <1>2, <1>3, Zenon DEF Shows

\* A number that is given to a variable of that type.
LEMMA GivenNumber ==
  ASSUME NEW d \in [Variables -> Element], NEW v \in Variables, d[v].type = "number", NEW n
  PROVE  Shows(Gives(d, v, n), v) = Numbered({n})
<1>1. CASE n \in Numbers
  <2> DEFINE e == [d EXCEPT ![v].nval = n]
  <2>1. e[v].type = "number" /\ e[v].nval = n
    BY DEF Element
  <2> HIDE DEF e
  <2>2. Seen(e[v]) = <<"number", n>>
    BY <2>1 DEF Seen
  <2>3. Gives(d, v, n) = Go(e)
    BY <1>1 DEF Gives, e
  <2>4. Shows(Go(e), v) = {<<"", Seen(e[v])>>}
    BY ShownInTheEnd
  <2>5. {n} \cap Numbers = {n}
    BY <1>1
  <2>6. Numbered({n}) = {<<"", <<"number", n>>>>}
    BY <2>5, Zenon DEF Numbered
  <2> QED BY <2>2, <2>3, <2>4, <2>6, Zenon
<1>2. CASE n \notin Numbers
  <2>1. Numbered({n}) = {}
    BY <1>2, Zenon DEF Numbered
  <2> QED BY <1>2, <2>1, ShownInTheEnd DEF Gives
<1> QED BY <1>1, <1>2

\* Truths that are given to a variable of that type.
LEMMA GivenTruths ==
  ASSUME NEW d \in [Variables -> Element], NEW i, i.res \in Variables, d[i.res].type = "number", NEW bs
  PROVE  Shows(Truths(d, i, bs), i.res) = Numbered({Bit(b) : b \in bs})
<1>1. \A b \in bs : Shows(Gives(d, i.res, Bit(b)), i.res) = Numbered({Bit(b)})
  BY GivenNumber
<1>2. Shows(Truths(d, i, bs), i.res) = UNION {Shows(Gives(d, i.res, Bit(b)), i.res) : b \in bs}
  <2>1. ASSUME NEW x, NEW O
        PROVE  x \in Shows(O, i.res) <=> \E o \in O : o.end = "" /\ x = <<o.end, Seen(o.context[i.res])>>
    BY Zenon DEF Shows
  <2>2. \A o : o \in Truths(d, i, bs) <=> \E b \in bs : o \in Gives(d, i.res, Bit(b))
    BY Zenon DEF Truths
  <2>3. ASSUME NEW x
        PROVE  x \in Shows(Truths(d, i, bs), i.res) <=> \E b \in bs : x \in Shows(Gives(d, i.res, Bit(b)), i.res)
    <3>1. ASSUME x \in Shows(Truths(d, i, bs), i.res) PROVE \E b \in bs : x \in Shows(Gives(d, i.res, Bit(b)), i.res)
      <4>1. PICK o \in Truths(d, i, bs) : o.end = "" /\ x = <<o.end, Seen(o.context[i.res])>>
        BY <2>1, <3>1, Zenon
      <4>2. PICK b \in bs : o \in Gives(d, i.res, Bit(b))
        BY <2>2, <4>1, Zenon
      <4> QED BY <2>1, <4>1, <4>2, Zenon
    <3>2. ASSUME NEW b \in bs, x \in Shows(Gives(d, i.res, Bit(b)), i.res) PROVE x \in Shows(Truths(d, i, bs), i.res)
      <4>1. PICK o \in Gives(d, i.res, Bit(b)) : o.end = "" /\ x = <<o.end, Seen(o.context[i.res])>>
        BY <2>1, <3>2, Zenon
      <4>2. o \in Truths(d, i, bs)
        BY <2>2, <4>1, Zenon
      <4> QED BY <2>1, <4>1, <4>2, Zenon
    <3> QED BY <3>1, <3>2, Zenon
  <2>4. ASSUME NEW x
        PROVE  x \in UNION {Shows(Gives(d, i.res, Bit(b)), i.res) : b \in bs}
               <=> \E b \in bs : x \in Shows(Gives(d, i.res, Bit(b)), i.res)
    BY Zenon
  <2> QED BY <2>3, <2>4, Zenon
<1>3. Numbered({Bit(b) : b \in bs}) = UNION {Numbered({Bit(b)}) : b \in bs}
  <2>1. ASSUME NEW x, NEW N PROVE x \in Numbered(N) <=> \E n \in N : n \in Numbers /\ x = <<"", <<"number", n>>>>
    BY Zenon DEF Numbered
  <2>2. ASSUME NEW x
        PROVE  x \in UNION {Numbered({Bit(b)}) : b \in bs} <=> \E b \in bs : x \in Numbered({Bit(b)})
    BY Zenon
  <2>3. ASSUME NEW x
        PROVE  x \in Numbered({Bit(b) : b \in bs}) <=> \E b \in bs : x \in Numbered({Bit(b)})
    <3>1. ASSUME x \in Numbered({Bit(b) : b \in bs}) PROVE \E b \in bs : x \in Numbered({Bit(b)})
      <4>1. PICK n \in {Bit(b) : b \in bs} : n \in Numbers /\ x = <<"", <<"number", n>>>>
        BY <2>1, <3>1, Zenon
      <4>2. PICK b \in bs : n = Bit(b)
        BY <4>1, Zenon
      <4>3. n \in {Bit(b)}
        BY <4>2, Zenon
      <4> QED BY <2>1, <4>1, <4>3, Zenon
    <3>2. ASSUME NEW b \in bs, x \in Numbered({Bit(b)}) PROVE x \in Numbered({Bit(a) : a \in bs})
      <4> DEFINE N == {Bit(b)}
      <4>1. Bit(b) \in {Bit(a) : a \in bs}
        BY Zenon
      <4>2. \A n \in N : n = Bit(b)
        BY Zenon
      <4> HIDE DEF N
      <4>3. x \in Numbered(N)
        BY <3>2, Zenon DEF N
      <4>4. PICK n \in N : n \in Numbers /\ x = <<"", <<"number", n>>>>
        BY <2>1, <4>3, Zenon
      <4> QED BY <2>1, <4>1, <4>2, <4>4, Zenon
    <3> QED BY <3>1, <3>2, Zenon
  <2> QED BY <2>2, <2>3, Zenon
<1> QED BY <1>1, <1>2, <1>3, Zenon

\* The numbers an operator of two operands means, wherever its result goes.
Meant(op, x, y) ==
  CASE op \in Relations -> {Bit(b) : b \in Ordered(op, x, y)}
    [] op \in Equalities -> {Bit(b) : b \in Same(op, x, y)}
    [] op \in Logical -> {Bit(b) : b \in Joined(op, x, y)}
    [] op \in Bitwise -> IF x.type # "number" \/ y.type # "number" THEN {} ELSE {Bits(op, x.nval, y.nval)}
    [] op \in Multiplicative -> IF x.type # "number" \/ (op \in Divisions /\ Number(y) = 0) THEN {}
                                ELSE {Arithmetic(op, x.nval, Number(y))}
    [] op = "+" -> IF x.type # "number" THEN {} ELSE {x.nval + Number(y)}

LEMMA MeantIs ==
  ASSUME NEW op, NEW x, NEW y
  PROVE  /\ op \in Relations => Meant(op, x, y) = {Bit(b) : b \in Ordered(op, x, y)}
         /\ op \in Equalities => Meant(op, x, y) = {Bit(b) : b \in Same(op, x, y)}
         /\ op \in Logical => Meant(op, x, y) = {Bit(b) : b \in Joined(op, x, y)}
         /\ op \in Bitwise /\ x.type = "number" /\ y.type = "number" => Meant(op, x, y) = {Bits(op, x.nval, y.nval)}
         /\ op \in Bitwise /\ (x.type # "number" \/ y.type # "number") => Meant(op, x, y) = {}
         /\ op \in Multiplicative /\ x.type = "number" /\ (op \in Divisions => Number(y) # 0)
              => Meant(op, x, y) = {Arithmetic(op, x.nval, Number(y))}
         /\ op \in Multiplicative /\ (x.type # "number" \/ (op \in Divisions /\ Number(y) = 0)) => Meant(op, x, y) = {}
         /\ op = "+" /\ x.type = "number" => Meant(op, x, y) = {x.nval + Number(y)}
<1>1. /\ Relations = {"<", "<=", ">", ">="} /\ Equalities = {"==", "!="} /\ Logical = {"&&", "||"}
      /\ Bitwise = {"<<", ">>", "&", "^", "|"} /\ Multiplicative = {"/", "%", "*", "-"}
  BY DEF Relations, Equalities, Logical, Bitwise, Multiplicative
<1> QED BY <1>1 DEF Meant

\* Conversion in place does not change what an operand means.
LEMMA ConvertedOperands ==
  ASSUME NEW d \in [Variables -> Element], NEW l \in Variables, NEW r \in Variables, NEW v \in Variables
  PROVE  LET e == Converted(d, r) IN
         /\ e \in [Variables -> Element] /\ e[l].type = d[l].type /\ (d[l].type = "number" => e[l] = d[l])
         /\ Number(e[r]) = Number(d[r]) /\ e[v].type = d[v].type
<1>1. CASE d[r].type = "string"
  <2> DEFINE n == ToFloat(d[r].value)
             e == [d EXCEPT ![r].nval = n]
  <2>1. n \in Numbers
    BY Conversions, ZeroAndOne
  <2> HIDE DEF n
  <2>2. /\ e \in [Variables -> Element] /\ e[r].type = "string" /\ e[r].value = d[r].value
        /\ \A w \in Variables \ {r} : e[w] = d[w]
    BY <1>1, <2>1 DEF Element
  <2>3. Converted(d, r) = e
    BY <1>1 DEF Converted, n
  <2> HIDE DEF e
  <2>4. Number(e[r]) = Number(d[r])
    BY <1>1, <2>2 DEF Number
  <2> QED BY <1>1, <2>2, <2>3, <2>4
<1>2. CASE d[r].type # "string"
  BY <1>2 DEF Converted
<1> QED BY <1>1, <1>2

\* An operator of two operands, whose result is a number, shows what it means when writing the type
\* of the result does not change its operands.
LEMMA OperatorShows ==
  ASSUME NEW c \in [Variables -> Element], NEW i, i.res \in Variables, i.l \in Variables, i.r \in Variables,
         Retyped(c, i.res, "number")[i.l] = c[i.l], Retyped(c, i.res, "number")[i.r] = c[i.r],
         \/ i.op \in Relations \cup Equalities \cup Logical \cup Bitwise \cup Multiplicative
         \/ i.op = "+" /\ c[i.l].type = "number"
  PROVE  Shows(Outcomes(c, i), i.res) = Numbered(Meant(i.op, c[i.l], c[i.r]))
<1> DEFINE d == Retyped(c, i.res, "number")
           x == c[i.l]
           y == c[i.r]
<1>1. d \in [Variables -> Element] /\ d[i.res].type = "number" /\ d[i.l] = x /\ d[i.r] = y
  BY RetypedIs
<1>2. i.res # None
  BY DataAssumption DEF DataAssumption, None
<1>3. \A n : Shows(Gives(d, i.res, n), i.res) = Numbered({n})
  <2> HIDE DEF d
  <2> QED BY <1>1, GivenNumber
<1>4. \A bs : Shows(Truths(d, i, bs), i.res) = Numbered({Bit(b) : b \in bs})
  <2> HIDE DEF d
  <2> QED BY <1>1, GivenTruths
<1>5. Shows(Fail(d), i.res) = {} /\ Numbered({}) = {}
  BY ShownInTheEnd, Zenon DEF Numbered
<1>6. CASE i.op \in Relations
  <2>1. Outcomes(c, i) = Truths(d, i, Ordered(i.op, x, y))
    BY <1>1, <1>2, <1>6, OutcomesAre DEF Relation
  <2> QED BY <1>4, <1>6, <2>1, MeantIs
<1>7. CASE i.op \in Equalities
  <2>1. Outcomes(c, i) = Truths(d, i, Same(i.op, x, y))
    BY <1>1, <1>2, <1>7, OutcomesAre DEF Equality
  <2> QED BY <1>4, <1>7, <2>1, MeantIs
<1>8. CASE i.op \in Logical
  <2>1. Outcomes(c, i) = Truths(d, i, Joined(i.op, x, y))
    BY <1>1, <1>2, <1>8, OutcomesAre DEF Logic
  <2> QED BY <1>4, <1>8, <2>1, MeantIs
<1>9. CASE i.op \in Bitwise
  <2>1. Outcomes(c, i) = IF x.type # "number" \/ y.type # "number" THEN Fail(d)
                         ELSE Gives(d, i.res, Bits(i.op, x.nval, y.nval))
    BY <1>1, <1>2, <1>9, OutcomesAre DEF BitsOf
  <2> HIDE DEF d, x, y
  <2>2. CASE x.type # "number" \/ y.type # "number"
    BY <1>5, <1>9, <2>1, <2>2, MeantIs DEF x, y
  <2>3. CASE x.type = "number" /\ y.type = "number"
    BY <1>3, <1>9, <2>1, <2>3, MeantIs DEF x, y
  <2> QED BY <2>2, <2>3
<1>10. CASE i.op \in Multiplicative
  <2> DEFINE e == IF i.op \in Divisions THEN Converted(d, i.r) ELSE d
  <2>1. /\ e \in [Variables -> Element] /\ e[i.l].type = x.type /\ (x.type = "number" => e[i.l] = x)
        /\ Number(e[i.r]) = Number(y) /\ e[i.res].type = "number"
    <3> HIDE DEF d
    <3> QED BY <1>1, ConvertedOperands
  <2>2. Outcomes(c, i) = IF e[i.l].type # "number" \/ (i.op \in Divisions /\ Number(e[i.r]) = 0) THEN Fail(e)
                         ELSE Gives(e, i.res, Arithmetic(i.op, e[i.l].nval, Number(e[i.r])))
    BY <1>2, <1>10, OutcomesAre DEF Product
  <2> HIDE DEF d, e, x, y
  <2>3. CASE x.type # "number" \/ (i.op \in Divisions /\ Number(y) = 0)
    <3>1. Shows(Fail(e), i.res) = {}
      BY ShownInTheEnd
    <3>2. Outcomes(c, i) = Fail(e)
      BY <2>1, <2>2, <2>3
    <3> QED BY <1>5, <1>10, <2>3, <3>1, <3>2, MeantIs DEF x, y
  <2>4. CASE x.type = "number" /\ (i.op \in Divisions => Number(y) # 0)
    <3>1. Shows(Gives(e, i.res, Arithmetic(i.op, x.nval, Number(y))), i.res) =
          Numbered({Arithmetic(i.op, x.nval, Number(y))})
      BY <2>1, GivenNumber
    <3>2. Outcomes(c, i) = Gives(e, i.res, Arithmetic(i.op, x.nval, Number(y)))
      BY <2>1, <2>2, <2>4
    <3> QED BY <1>10, <2>4, <3>1, <3>2, MeantIs DEF x, y
  <2> QED BY <2>3, <2>4
<1>11. CASE i.op = "+" /\ x.type = "number"
  <2>1. Outcomes(c, i) = Gives(d, i.res, x.nval + Number(y))
    <3>1. i.l # None
      BY DataAssumption DEF DataAssumption, None
    <3> QED BY <1>1, <1>2, <1>11, <3>1, OutcomesAre DEF Sum
  <2> QED BY <1>3, <1>11, <2>1, MeantIs
<1> QED BY <1>6, <1>7, <1>8, <1>9, <1>10, <1>11

\* A text that is given to a variable of that type.
LEMMA GivenText ==
  ASSUME NEW d \in [Variables -> Element], NEW v \in Variables, d[v].type = "string"
  PROVE  Shows(Reads(d, v, Letter), v) = {<<"", <<"string", Letter>>>>}
<1> DEFINE e == [d EXCEPT ![v].value = Letter]
<1>1. e[v].type = "string" /\ e[v].value = Letter
  BY DEF Element
<1> HIDE DEF e
<1>2. Seen(e[v]) = <<"string", Letter>>
  BY <1>1 DEF Seen
<1>3. Letter \in Texts
  BY Zenon DEF Texts
<1>4. Reads(d, v, Letter) = Go(e)
  BY <1>3 DEF Reads, e
<1>5. Shows(Go(e), v) = {<<"", Seen(e[v])>>}
  BY ShownInTheEnd
<1> QED BY <1>2, <1>4, <1>5, Zenon

\* What an operator of one operand says of a number.
Said(op, x) ==
  CASE op = "typeof" -> {<<"", <<"string", Letter>>>>}
    [] op = "length" -> {}
    [] op = "value" -> Numbered({x.nval})
    [] op = "!" -> Numbered({Bit(x.nval = 0)})

\* An operator of one operand shows what it says, when the operand is a number.
LEMMA UnaryShows ==
  ASSUME NEW c \in [Variables -> Element], NEW i, i.op \in UnaryOps, i.res \in Variables, i.r \in Variables,
         c[i.r].type = "number"
  PROVE  Shows(Outcomes(c, i), i.res) = Said(i.op, c[i.r])
<1>1. i.res # None
  BY DataAssumption DEF DataAssumption, None
<1>2. CASE i.op = "typeof"
  <2> DEFINE d == Retyped(c, i.res, "string")
  <2>1. d \in [Variables -> Element] /\ d[i.res].type = "string"
    BY RetypedIs
  <2>2. Outcomes(c, i) = Reads(d, i.res, Letter)
    BY <1>1, <1>2, OutcomesAre DEF Unary, UnaryOps
  <2> HIDE DEF d
  <2>3. Shows(Outcomes(c, i), i.res) = {<<"", <<"string", Letter>>>>}
    BY <2>1, <2>2, GivenText
  <2> QED BY <1>2, <2>3, Zenon DEF Said
<1>3. CASE i.op # "typeof"
  <2> DEFINE d == Retyped(c, i.res, "number")
  <2>1. /\ d \in [Variables -> Element] /\ d[i.res].type = "number" /\ d[i.r].type = "number"
        /\ d[i.r].nval = c[i.r].nval
    <3>1. /\ d \in [Variables -> Element] /\ d[i.res].type = "number" /\ d[i.res].nval = c[i.res].nval
          /\ \A w \in Variables \ {i.res} : d[w] = c[w]
      BY RetypedIs
    <3> HIDE DEF d
    <3>2. CASE i.r = i.res
      BY <3>1, <3>2
    <3>3. CASE i.r # i.res
      BY <3>1, <3>3
    <3> QED BY <3>2, <3>3
  <2>2. Outcomes(c, i) = CASE i.op = "length" -> Fail(d)
                           [] i.op = "value" -> Gives(d, i.res, Number(d[i.r]))
                           [] i.op = "!" -> Gives(d, i.res, Bit(~Truth(d[i.r])))
    <3>1. d[i.r].type = "number"
      BY <2>1
    <3>2. Outcomes(c, i) = Unary(c, i)
      BY <1>1, OutcomesAre
    <3>3. i.op = "length" \/ i.op = "value" \/ i.op = "!"
      BY <1>3 DEF UnaryOps
    <3>4. CASE i.op = "length"
      BY <3>1, <3>2, <3>4 DEF Unary
    <3>5. CASE i.op = "value"
      BY <3>1, <3>2, <3>5 DEF Unary
    <3>6. CASE i.op = "!"
      BY <3>1, <3>2, <3>6 DEF Unary
    <3> QED BY <3>3, <3>4, <3>5, <3>6
  <2> HIDE DEF d
  <2>3. Number(d[i.r]) = c[i.r].nval /\ (~Truth(d[i.r]) <=> c[i.r].nval = 0)
    BY <2>1 DEF Number, Truth
  <2>4. Bit(~Truth(d[i.r])) = Bit(c[i.r].nval = 0)
    BY <2>3 DEF Bit
  <2>5. \A n : Shows(Gives(d, i.res, n), i.res) = Numbered({n})
    BY <2>1, GivenNumber
  <2>6. Shows(Fail(d), i.res) = {}
    BY ShownInTheEnd
  <2>7. CASE i.op = "length"
    <3>1. Shows(Outcomes(c, i), i.res) = {}
      BY <2>2, <2>6, <2>7
    <3> QED BY <2>7, <3>1, Zenon DEF Said
  <2>8. CASE i.op = "value"
    <3>1. Shows(Outcomes(c, i), i.res) = Numbered({c[i.r].nval})
      BY <2>2, <2>3, <2>5, <2>8
    <3> QED BY <2>8, <3>1, Zenon DEF Said
  <2>9. CASE i.op = "!"
    <3>1. Shows(Outcomes(c, i), i.res) = Numbered({Bit(c[i.r].nval = 0)})
      BY <2>2, <2>4, <2>5, <2>9
    <3> QED BY <2>9, <3>1, Zenon DEF Said
  <2> QED BY <1>3, <2>7, <2>8, <2>9 DEF UnaryOps
<1> QED BY <1>2, <1>3

\* Of a number there is no character.
LEMMA IndexShows ==
  ASSUME NEW c, NEW i, i.op = "[]", i.res # None, c[i.l].type # "string", NEW v
  PROVE  Shows(Outcomes(c, i), v) = {}
BY OutcomesAre, ShownInTheEnd DEF Index

\* The result may be one of the operands.
LEMMA ResultIsAnOperand ==
  ASSUME NEW c \in [Variables -> Element], NEW i \in Instructions, i.op \in Binary \cup UnaryOps,
         i.res \in {i.l, i.r} \ {None}, ~Confused(c, i), NEW v \in Variables \ {i.l, i.r}
  PROVE  Shows(Outcomes(c, i), i.res) = Shows(Outcomes(c, [i EXCEPT !.res = v]), v)
<1> DEFINE j == [i EXCEPT !.res = v]
<1>1. i.res \in Variables /\ v # None /\ i.res # None
  BY InstructionIs, DataAssumption DEF DataAssumption, None
<1>2. j.res = v /\ j.op = i.op /\ j.l = i.l /\ j.r = i.r
  BY DEF Instructions
<1> HIDE DEF j
<1>3. CASE i.op \in UnaryOps
  <2>1. i.l = None /\ i.r \in Variables /\ i.res = i.r
    BY <1>3, InstructionIs
  <2>2. c[i.r].type = "number"
    BY <2>1, Conversions DEF Confused
  <2>3. Shows(Outcomes(c, i), i.res) = Said(i.op, c[i.r])
    BY <1>1, <1>3, <2>1, <2>2, UnaryShows
  <2>4. Shows(Outcomes(c, j), j.res) = Said(i.op, c[i.r])
    <3>1. j.op \in UnaryOps /\ j.res \in Variables /\ j.r \in Variables /\ c[j.r].type = "number"
      BY <1>2, <1>3, <2>1, <2>2
    <3>2. Shows(Outcomes(c, j), j.res) = Said(j.op, c[j.r])
      BY <3>1, UnaryShows
    <3> QED BY <1>2, <3>2
  <2> QED BY <1>2, <2>3, <2>4 DEF j
<1>4. CASE i.op \in Binary
  <2>1. i.l \in Variables /\ i.r \in Variables
    BY <1>4, InstructionIs DEF Confused
  <2>2. /\ i.res = i.l => c[i.l].type = "number"
        /\ i.res = i.r => c[i.r].type = "number"
        /\ i.op \in {"+", "[]"} => c[i.l].type = "number"
    <3>1. i.l # None
      BY <2>1, DataAssumption DEF DataAssumption, None
    <3> QED BY <2>1, <3>1, Conversions DEF Confused
  <2>3. CASE i.op = "[]"
    <3>1. c[i.l].type # "string"
      BY <2>2, <2>3
    <3> QED BY <1>1, <1>2, <2>3, <3>1, IndexShows DEF j
  <2>4. CASE i.op # "[]"
    <3>1. ASSUME NEW u \in Variables, u \in {i.l, i.r} => c[u].type = "number"
          PROVE  Retyped(c, u, "number")[i.l] = c[i.l] /\ Retyped(c, u, "number")[i.r] = c[i.r]
      <4>1. \A w \in Variables \ {u} : Retyped(c, u, "number")[w] = c[w]
        BY RetypedIs
      <4>2. u \in {i.l, i.r} => Retyped(c, u, "number")[u] = c[u]
        BY <3>1, RetypedIs
      <4> QED BY <2>1, <4>1, <4>2
    <3>2. \/ i.op \in Relations \cup Equalities \cup Logical \cup Bitwise \cup Multiplicative
          \/ i.op = "+" /\ c[i.l].type = "number"
      BY <1>4, <2>2, <2>4 DEF Binary
    <3>3. Shows(Outcomes(c, i), i.res) = Numbered(Meant(i.op, c[i.l], c[i.r]))
      <4>1. Retyped(c, i.res, "number")[i.l] = c[i.l] /\ Retyped(c, i.res, "number")[i.r] = c[i.r]
        BY <1>1, <2>2, <3>1
      <4> QED BY <1>1, <2>1, <3>2, <4>1, OperatorShows
    <3>4. Shows(Outcomes(c, j), j.res) = Numbered(Meant(i.op, c[i.l], c[i.r]))
      <4>1. Retyped(c, v, "number")[i.l] = c[i.l] /\ Retyped(c, v, "number")[i.r] = c[i.r]
        BY <3>1
      <4>2. /\ j.res \in Variables /\ j.l \in Variables /\ j.r \in Variables
            /\ Retyped(c, j.res, "number")[j.l] = c[j.l] /\ Retyped(c, j.res, "number")[j.r] = c[j.r]
            /\ \/ j.op \in Relations \cup Equalities \cup Logical \cup Bitwise \cup Multiplicative
               \/ j.op = "+" /\ c[j.l].type = "number"
        BY <1>2, <2>1, <3>2, <4>1
      <4>3. Shows(Outcomes(c, j), j.res) = Numbered(Meant(j.op, c[j.l], c[j.r]))
        BY <4>2, OperatorShows
      <4> QED BY <1>2, <4>3
    <3> QED BY <1>2, <3>3, <3>4 DEF j
  <2> QED BY <2>3, <2>4
<1> QED BY <1>3, <1>4

-----------------------------------------------------------------------------
(* DataElements: the theorems *)

\* The context that moves has variables of their types.
OperatorsInv == part = "operators" => TypeOK

LEMMA OperatorsInvAlways == PartsSpec => []OperatorsInv
<1>1. PartsInit => OperatorsInv
  <2> SUFFICES ASSUME Init PROVE TypeOK
    BY DEF PartsInit, OperatorsInv
  <2>1. [type |-> "number", nval |-> 0, value |-> ""] \in Element
    <3>1. "" \in Texts
      BY Zenon DEF Texts
    <3>2. PICK s : s = "" /\ s \in Texts
      BY <3>1, Zenon
    <3>3. [type |-> "number", nval |-> 0, value |-> s] \in Element
      BY <3>2, ZeroAndOne DEF Element
    <3> QED BY <3>2, <3>3, Zenon
  <2> QED BY <2>1, Zenon DEF Init, TypeOK
<1>2. OperatorsInv /\ [PartsNext]_parts => OperatorsInv'
  <2> SUFFICES ASSUME OperatorsInv, [PartsNext]_parts, part' = "operators" PROVE TypeOK'
    BY DEF OperatorsInv
  <2>1. part = "operators" /\ TypeOK
    BY DEF OperatorsInv, PartsNext, parts
  <2>2. CASE UNCHANGED vars
    BY <2>1, <2>2 DEF TypeOK, vars
  <2>3. CASE Next
    <3>1. PICK i \in Instructions : Step(i)
      BY <2>3 DEF Next
    <3>2. PICK o \in Outcomes(context, i) : context' = o.context /\ end' = o.end
      BY <3>1 DEF Step
    <3>3. Near(o.context, context, Written(i)) /\ o.end \in {"", "err", "outside"}
      BY <2>1, <3>2, OutcomesAfter DEF TypeOK, After
    <3> QED BY <3>2, <3>3 DEF TypeOK, Near
  <2> QED BY <2>2, <2>3 DEF PartsNext, parts
<1> QED BY <1>1, <1>2, PTL DEF PartsSpec

\* The others are kept in a context of elements.
LEMMA KeepsOthers ==
  ASSUME context \in [Variables -> Element]
  PROVE  OthersAreKept
<1> SUFFICES ASSUME NEW i \in Instructions, NEW o \in Outcomes(context, i), NEW v \in Variables \ {i.res}
             PROVE  \/ Seen(o.context[v]) = Seen(context[v])
                    \/ i.op \in Assignments /\ v = i.l
                    \/ i.op \in {"++", "--", "del"} /\ v \in {i.l, i.r}
  BY DEF OthersAreKept
<1>1. Near(o.context, context, Written(i))
  BY OutcomesAfter DEF After
<1>2. CASE v \notin Written(i)
  BY <1>1, <1>2 DEF Near
<1>3. CASE v \in Written(i)
  BY <1>3 DEF Written
<1> QED BY <1>2, <1>3

\* An instruction changes what it is to change, although operands are converted in their place,
\* gives the same when its result is one of its operands, copies numbers, and compares in
\* agreement, for any number of variables and however they came to hold what they hold.
THEOREM OperandsAlwaysKept == PartsSpec => []OperandsAreKept
<1>1. OperatorsInv => OperandsAreKept
  <2> SUFFICES ASSUME TypeOK
               PROVE  OthersAreKept /\ ResultMayBeAnOperand /\ AssignmentCopies /\ ComparisonsAgree
    BY DEF OperatorsInv, OperandsAreKept
  <2>1. context \in [Variables -> Element]
    BY DEF TypeOK
  <2>2. OthersAreKept
    BY <2>1, KeepsOthers
  <2>3. ResultMayBeAnOperand
    <3> SUFFICES ASSUME NEW i \in Instructions, i.op \in Binary \cup UnaryOps, i.res \in {i.l, i.r} \ {None},
                        ~Confused(context, i), NEW v \in Variables \ {i.l, i.r}
                 PROVE  Shows(Outcomes(context, i), i.res) = Shows(Outcomes(context, [i EXCEPT !.res = v]), v)
      BY Zenon DEF ResultMayBeAnOperand, Shows
    <3> QED BY <2>1, ResultIsAnOperand
  <2>4. AssignmentCopies
    <3> SUFFICES ASSUME NEW i \in Instructions
                 PROVE  /\ i.op = "=" /\ i.res # None /\ context[i.l].type = "number" /\ context[i.r].type = "number" =>
                             \A o \in Outcomes(context, i) : {Seen(o.context[v]) : v \in {i.res, i.l}} = {Seen(context[i.r])}
                        /\ i.op = "copy" /\ i.res # i.l =>
                             \A o \in Outcomes(context, i) : Seen(o.context[i.res]) = Seen(context[i.l])
      BY Zenon DEF AssignmentCopies
    <3> QED BY <2>1, AssignedNumbers, CopiedVariable
  <2>5. ComparisonsAgree
    <3> SUFFICES ASSUME NEW v \in Variables, NEW w \in Variables
                 PROVE  LET x == context[v]
                            y == context[w]
                            empty == x.type = "string" /\ (x.value = "" \/ Text(y) = "") IN
                        /\ Same("!=", x, y) = {~b : b \in Same("==", x, y)}
                        /\ TRUE \in Ordered("<", x, y) =>
                             /\ TRUE \in Ordered("<=", x, y) /\ (~empty => Ordered("<=", x, y) = {TRUE})
                             /\ Ordered(">=", x, y) = {FALSE} /\ Same("==", x, y) = {FALSE}
                        /\ Ordered("<=", x, y) = {TRUE} /\ Ordered(">=", x, y) = {TRUE} => Same("==", x, y) = {TRUE}
                        /\ ~empty => Ordered("<=", x, y) \cup Ordered(">=", x, y) # {FALSE}
                        /\ x.type = "number" => Ordered("<", x, y) = {~b : b \in Ordered(">=", x, y)}
      BY Zenon DEF ComparisonsAgree
    <3>1. context[v] \in Element /\ context[w] \in Element
      BY <2>1
    <3> QED BY <3>1, ElementsCompared, Zenon
  <2> QED BY <2>2, <2>3, <2>4, <2>5
<1> QED BY <1>1, OperatorsInvAlways, PTL

-----------------------------------------------------------------------------
(* Notebook: pages and tabs *)

Page(k) ==
  [visible : BOOLEAN, title : Book(k)!Texts, image : k.headers \cup {"none"}, button : k.headers \cup {"none"},
   close : k.headers \cup {"none"}, header : k.headers \cup {"none"}]

Tab(k) == [page : Nat, text : Book(k)!Texts, right : k.headers \cup {"none", "close"}, shown : BOOLEAN]

\* The tabs are those of the visible pages, in their order.
Enumerates(ts, ps) ==
  /\ \A t \in 1..Len(ts) : ts[t].page \in 1..Len(ps) /\ ps[ts[t].page].visible
  /\ \A t, u \in 1..Len(ts) : t < u => ts[t].page < ts[u].page
  /\ \A p \in 1..Len(ps) : ps[p].visible => \E t \in 1..Len(ts) : ts[t].page = p

\* Tab a is the place of page p: that of the tabs before it and those after it.
IsPlace(ts, p, a) ==
  /\ a \in 1..(Len(ts) + 1)
  /\ \A u \in 1..Len(ts) : (u < a => ts[u].page < p) /\ (u >= a => ts[u].page >= p)

\* There is such a place.
LEMMA PlaceExists ==
  ASSUME NEW T, NEW ts \in Seq(T), NEW P, NEW ps \in Seq(P), Enumerates(ts, ps), NEW p \in 1..Len(ps)
  PROVE  \E a \in Nat : IsPlace(ts, p, a)
<1> DEFINE n == Len(ts)
           S == {u \in 1..(n + 1) : u = n + 1 \/ ts[u].page >= p}
<1>1. n \in Nat /\ Len(ps) \in Nat
  OBVIOUS
<1> HIDE DEF n
<1>2. S \subseteq Nat /\ n + 1 \in S
  BY <1>1
<1>3. PICK a \in S : \A u \in S : a <= u
  <2> HIDE DEF S
  <2> QED BY <1>2, LeastOne
<1>4. ASSUME NEW u \in 1..n PROVE (u < a => ts[u].page < p) /\ (u >= a => ts[u].page >= p)
  <2>1. ts[u].page \in Nat /\ p \in Nat /\ a \in Nat /\ u \in Nat /\ u \in 1..(n + 1) /\ u # n + 1
    BY <1>1, <1>2, <1>3, <1>4 DEF Enumerates, n
  <2>2. u < a => ts[u].page < p
    <3>1. u < a => u \notin S
      BY <1>3, <2>1
    <3> QED BY <2>1, <3>1
  <2>3. u = a => ts[u].page >= p
    BY <1>3, <2>1
  <2>4. u > a => ts[u].page >= p
    <3> HAVE u > a
    <3>1. a \in 1..n
      BY <1>1, <1>3, <1>4, <2>1
    <3>2. ts[a].page >= p /\ ts[a].page < ts[u].page /\ ts[a].page \in Nat
      BY <1>1, <1>3, <1>4, <2>1, <3>1 DEF Enumerates, n
    <3> QED BY <2>1, <3>2
  <2> QED BY <2>1, <2>2, <2>3, <2>4
<1>5. a \in 1..(n + 1) /\ a \in Nat
  BY <1>1, <1>3
<1> HIDE DEF S
<1> QED BY <1>4, <1>5 DEF IsPlace, n

\* AdjustIndex counts the visible pages before one: it gives the place.
LEMMA AdjustIndexIsPlace ==
  ASSUME NEW k, NEW T, NEW ts \in Seq(T), NEW P, NEW ps \in Seq(P), Enumerates(ts, ps), NEW p \in 1..Len(ps)
  PROVE  IsPlace(ts, p, Book(k)!AdjustIndex(ps, p))
<1>1. PICK a \in Nat : IsPlace(ts, p, a)
  BY PlaceExists
<1> DEFINE before == {q \in 1..(p - 1) : ps[q].visible}
           f == [u \in 1..(a - 1) |-> ts[u].page]
<1>2. Len(ts) \in Nat /\ Len(ps) \in Nat /\ p \in Nat /\ a \in 1..(Len(ts) + 1)
  BY <1>1 DEF IsPlace
<1>3. ASSUME NEW u \in 1..(a - 1) PROVE u \in 1..Len(ts) /\ ts[u].page \in before
  <2>1. u \in 1..Len(ts) /\ u < a
    BY <1>2
  <2>2. ts[u].page \in 1..Len(ps) /\ ps[ts[u].page].visible /\ ts[u].page < p
    BY <1>1, <2>1 DEF Enumerates, IsPlace
  <2>3. ts[u].page \in 1..(p - 1)
    BY <1>2, <2>2
  <2> QED BY <2>1, <2>2, <2>3
<1>4. ASSUME NEW q \in before PROVE \E u \in 1..(a - 1) : ts[u].page = q
  <2>1. q \in 1..Len(ps) /\ q < p /\ ps[q].visible
    BY <1>2
  <2>2. PICK u \in 1..Len(ts) : ts[u].page = q
    BY <2>1 DEF Enumerates
  <2>3. u < a
    BY <1>1, <1>2, <2>1, <2>2 DEF IsPlace
  <2>4. u \in 1..(a - 1)
    BY <1>2, <2>3
  <2> QED BY <2>2, <2>4
<1>5. \A u, v \in 1..(a - 1) : ts[u].page = ts[v].page => u = v
  <2> SUFFICES ASSUME NEW u \in 1..(a - 1), NEW v \in 1..(a - 1), ts[u].page = ts[v].page PROVE u = v
    OBVIOUS
  <2>1. u \in 1..Len(ts) /\ v \in 1..Len(ts) /\ ts[u].page \in Nat /\ ts[v].page \in Nat
    BY <1>3 DEF Enumerates
  <2>2. ~(u < v) /\ ~(v < u)
    BY <2>1 DEF Enumerates
  <2> QED BY <1>2, <2>1, <2>2
<1>6. f \in Bijection(1..(a - 1), before)
  <2> HIDE DEF before
  <2>1. f \in [1..(a - 1) -> before]
    BY <1>3
  <2>2. f \in Injection(1..(a - 1), before)
    BY <1>5, <2>1 DEF Injection, IsInjective
  <2>3. f \in Surjection(1..(a - 1), before)
    BY <1>4, <2>1 DEF Surjection
  <2> QED BY <2>2, <2>3 DEF Bijection
<1>7. Cardinality(before) = a - 1
  <2>1. IsFiniteSet(1..(a - 1)) /\ Cardinality(1..(a - 1)) = a - 1
    <3>1. 1 \in Int /\ a - 1 \in Int /\ a \in Nat /\ a >= 1
      BY <1>2
    <3>2. IsFiniteSet(1..(a - 1)) /\ Cardinality(1..(a - 1)) = IF 1 > a - 1 THEN 0 ELSE (a - 1) - 1 + 1
      BY <3>1, FS_Interval
    <3> QED BY <3>1, <3>2
  <2>2. ExistsBijection(1..(a - 1), before)
    BY <1>6, Zenon DEF ExistsBijection
  <2> HIDE DEF before
  <2> QED BY <2>1, <2>2, FS_Bijection
<1>8. Book(k)!AdjustIndex(ps, p) = a
  <2>1. Book(k)!AdjustIndex(ps, p) = 1 + Cardinality(before)
    BY Zenon DEF Book!AdjustIndex, Book!Cardinality, Cardinality
  <2> HIDE DEF before
  <2> QED BY <1>2, <1>7, <2>1
<1> QED BY <1>1, <1>8

\* The tab of a visible page is the one at its place, and the page of a tab is found again.
Finds(k, ts, ps) ==
  /\ \A p \in 1..Len(ps) : ps[p].visible =>
       Book(k)!AdjustIndex(ps, p) \in 1..Len(ts) /\ ts[Book(k)!AdjustIndex(ps, p)].page = p
  /\ \A t \in 1..Len(ts) : Book(k)!AdjustIndexReversed(ps, t) = ts[t].page
  /\ \A t \in Nat \ (1..Len(ts)) : Book(k)!AdjustIndexReversed(ps, t) = 0

LEMMA TabsAndPages ==
  ASSUME NEW k, NEW T, NEW ts \in Seq(T), NEW P, NEW ps \in Seq(P), Enumerates(ts, ps)
  PROVE  Finds(k, ts, ps)
<1> DEFINE A(p) == Book(k)!AdjustIndex(ps, p)
<1>1. ASSUME NEW p \in 1..Len(ps), ps[p].visible PROVE A(p) \in 1..Len(ts) /\ ts[A(p)].page = p
  <2>1. PICK u \in 1..Len(ts) : ts[u].page = p
    BY <1>1 DEF Enumerates
  <2>2. IsPlace(ts, p, A(p))
    BY AdjustIndexIsPlace
  <2> HIDE DEF A
  <2>3. A(p) \in 1..(Len(ts) + 1) /\ Len(ts) \in Nat /\ p \in Nat /\ u \in Nat /\ ~(u < A(p))
    BY <2>1, <2>2 DEF IsPlace
  <2>4. A(p) \in 1..Len(ts)
    BY <2>1, <2>3
  <2>5. ts[A(p)].page >= p /\ ts[A(p)].page \in Nat
    BY <2>2, <2>3, <2>4 DEF IsPlace, Enumerates
  <2>6. ~(A(p) < u)
    BY <2>1, <2>3, <2>4, <2>5 DEF Enumerates
  <2>7. A(p) = u
    BY <2>1, <2>3, <2>4, <2>6
  <2> QED BY <2>1, <2>4, <2>7
<1>2. DOMAIN ps = 1..Len(ps) /\ Len(ts) \in Nat
  BY LenProperties
<1>3. ASSUME NEW t \in 1..Len(ts) PROVE A(ts[t].page) = t
  <2> DEFINE p == ts[t].page
             u == A(p)
  <2>1. p \in 1..Len(ps) /\ ps[p].visible
    BY DEF Enumerates
  <2>2. u \in 1..Len(ts) /\ ts[u].page = p
    BY <1>1, <2>1
  <2>3. p \in Nat
    BY <2>1
  <2> HIDE DEF u
  <2>4. ~(u < t) /\ ~(t < u)
    BY <2>2, <2>3 DEF Enumerates
  <2>5. u = t
    BY <1>2, <2>2, <2>4
  <2> QED BY <2>5 DEF u
<1>4. ASSUME NEW t \in 1..Len(ts) PROVE Book(k)!AdjustIndexReversed(ps, t) = ts[t].page
  <2> DEFINE at == {p \in DOMAIN ps : ps[p].visible /\ A(p) = t}
  <2>1. ts[t].page \in at
    BY <1>2, <1>3 DEF Enumerates
  <2>2. \A p \in at : p = ts[t].page
    BY <1>1, <1>2
  <2>3. Book(k)!AdjustIndexReversed(ps, t) = IF at = {} THEN 0 ELSE CHOOSE p \in at : TRUE
    BY DEF Book!AdjustIndexReversed
  <2> HIDE DEF at
  <2>4. (CHOOSE p \in at : TRUE) \in at
    BY <2>1
  <2> QED BY <2>1, <2>2, <2>3, <2>4
<1>5. ASSUME NEW t \in Nat \ (1..Len(ts)) PROVE Book(k)!AdjustIndexReversed(ps, t) = 0
  <2> DEFINE at == {p \in DOMAIN ps : ps[p].visible /\ A(p) = t}
  <2>1. at = {}
    BY <1>1, <1>2
  <2>2. Book(k)!AdjustIndexReversed(ps, t) = IF at = {} THEN 0 ELSE CHOOSE p \in at : TRUE
    BY DEF Book!AdjustIndexReversed
  <2> HIDE DEF at
  <2> QED BY <2>1, <2>2
<1> QED BY <1>1, <1>4, <1>5 DEF Finds

-----------------------------------------------------------------------------
(* Notebook: what QTabWidget does with the tabs *)

\* Only text, button and its visibility differ.
SamePages(us, ts) == Len(us) = Len(ts) /\ \A t \in 1..Len(ts) : us[t].page = ts[t].page

\* A tab is written; another keeps all it has.
PutTab(ts, t, x) == [ts EXCEPT ![t] = x]

LEMMA TabWritten ==
  ASSUME NEW k, NEW ts \in Seq(Tab(k)), NEW t \in 1..Len(ts), NEW x \in Tab(k), x.page = ts[t].page
  PROVE  /\ PutTab(ts, t, x) \in Seq(Tab(k)) /\ SamePages(PutTab(ts, t, x), ts)
         /\ PutTab(ts, t, x)[t] = x /\ \A u \in 1..Len(ts) : u # t => PutTab(ts, t, x)[u] = ts[u]
<1>1. /\ [ts EXCEPT ![t] = x] \in Seq(Tab(k)) /\ Len([ts EXCEPT ![t] = x]) = Len(ts)
      /\ [ts EXCEPT ![t] = x][t] = x /\ \A u \in 1..Len(ts) : u # t => [ts EXCEPT ![t] = x][u] = ts[u]
  OBVIOUS
<1> QED BY <1>1 DEF SamePages, PutTab

\* setTabText.
LEMMA TextIsSet ==
  ASSUME NEW k, NEW ts \in Seq(Tab(k)), NEW t, NEW x \in Book(k)!Texts
  PROVE  LET us == Book(k)!SetTabText(ts, t, x) IN
         /\ us \in Seq(Tab(k)) /\ SamePages(us, ts)
         /\ \A u \in 1..Len(ts) : /\ us[u].right = ts[u].right /\ us[u].shown = ts[u].shown
                                  /\ us[u].text = IF u = t THEN x ELSE ts[u].text
<1> DEFINE us == Book(k)!SetTabText(ts, t, x)
<1>1. DOMAIN ts = 1..Len(ts)
  BY LenProperties
<1>2. CASE t \in 1..Len(ts)
  <2> DEFINE y == [ts[t] EXCEPT !.text = x]
  <2>1. ts[t] \in Tab(k)
    BY <1>2, ElementOfSeq
  <2>2. /\ y \in Tab(k) /\ y.page = ts[t].page /\ y.right = ts[t].right /\ y.shown = ts[t].shown /\ y.text = x
    BY <2>1 DEF Tab
  <2>3. us = PutTab(ts, t, y)
    BY <1>1, <1>2 DEF Book!SetTabText, PutTab
  <2> HIDE DEF y, us
  <2>4. /\ us \in Seq(Tab(k)) /\ SamePages(us, ts) /\ us[t] = y
        /\ \A u \in 1..Len(ts) : u # t => us[u] = ts[u]
    BY <1>2, <2>2, <2>3, TabWritten
  <2>5. us \in Seq(Tab(k)) /\ SamePages(us, ts)
    BY <2>4
  <2>6. ASSUME NEW u \in 1..Len(ts) PROVE (u = t => us[u] = y) /\ (u # t => us[u] = ts[u])
    BY <2>4
  <2> QED BY <1>2, <2>2, <2>5, <2>6 DEF us
<1>3. CASE t \notin 1..Len(ts)
  <2>1. us = ts
    BY <1>1, <1>3 DEF Book!SetTabText
  <2> QED BY <1>3, <2>1 DEF SamePages
<1> QED BY <1>2, <1>3

\* setTabButton.
LEMMA ButtonIsSet ==
  ASSUME NEW k, NEW ts \in Seq(Tab(k)), NEW t, NEW w \in k.headers \cup {"none"}
  PROVE  LET us == Book(k)!SetTabButton(ts, t, w) IN
         /\ us \in Seq(Tab(k)) /\ SamePages(us, ts)
         /\ \A u \in 1..Len(ts) : /\ us[u].text = ts[u].text
                                  /\ us[u].right = IF u = t THEN w ELSE ts[u].right
                                  /\ u # t => us[u].shown = ts[u].shown
         /\ t \notin 1..Len(ts) => us = ts
<1> DEFINE us == Book(k)!SetTabButton(ts, t, w)
<1>1. DOMAIN ts = 1..Len(ts)
  BY LenProperties
<1>2. CASE t \in 1..Len(ts)
  <2> DEFINE y == [ts[t] EXCEPT !.right = w, !.shown = (w # Book(k)!None)]
  <2>1. ts[t] \in Tab(k)
    BY <1>2, ElementOfSeq
  <2>2. y \in Tab(k) /\ y.page = ts[t].page /\ y.right = w /\ y.text = ts[t].text
    BY <2>1 DEF Tab
  <2>3. us = PutTab(ts, t, y)
    BY <1>1, <1>2 DEF Book!SetTabButton, PutTab
  <2> HIDE DEF y, us
  <2>4. /\ us \in Seq(Tab(k)) /\ SamePages(us, ts) /\ us[t] = y
        /\ \A u \in 1..Len(ts) : u # t => us[u] = ts[u]
    BY <1>2, <2>2, <2>3, TabWritten
  <2>5. us \in Seq(Tab(k)) /\ SamePages(us, ts)
    BY <2>4
  <2>6. ASSUME NEW u \in 1..Len(ts) PROVE (u = t => us[u] = y) /\ (u # t => us[u] = ts[u])
    BY <2>4
  <2> QED BY <1>2, <2>2, <2>5, <2>6 DEF us
<1>3. CASE t \notin 1..Len(ts)
  <2>1. us = ts
    BY <1>1, <1>3 DEF Book!SetTabButton
  <2> QED BY <1>3, <2>1 DEF SamePages
<1> QED BY <1>2, <1>3

\* setVisible of the button of a tab.
LEMMA ButtonIsShown ==
  ASSUME NEW k, NEW ts \in Seq(Tab(k)), NEW t, NEW b \in BOOLEAN
  PROVE  LET us == Book(k)!ShowButton(ts, t, b) IN
         /\ us \in Seq(Tab(k)) /\ SamePages(us, ts)
         /\ \A u \in 1..Len(ts) : /\ us[u].text = ts[u].text /\ us[u].right = ts[u].right
                                  /\ u # t => us[u].shown = ts[u].shown
         /\ t \notin 1..Len(ts) => us = ts
<1> DEFINE us == Book(k)!ShowButton(ts, t, b)
<1>1. DOMAIN ts = 1..Len(ts)
  BY LenProperties
<1>2. CASE t \in 1..Len(ts)
  <2> DEFINE y == [ts[t] EXCEPT !.shown = (b /\ ts[t].right # Book(k)!None)]
  <2>1. ts[t] \in Tab(k)
    BY <1>2, ElementOfSeq
  <2>2. y \in Tab(k) /\ y.page = ts[t].page /\ y.right = ts[t].right /\ y.text = ts[t].text
    BY <2>1 DEF Tab
  <2>3. us = PutTab(ts, t, y)
    BY <1>1, <1>2 DEF Book!ShowButton, PutTab
  <2> HIDE DEF y, us
  <2>4. /\ us \in Seq(Tab(k)) /\ SamePages(us, ts) /\ us[t] = y
        /\ \A u \in 1..Len(ts) : u # t => us[u] = ts[u]
    BY <1>2, <2>2, <2>3, TabWritten
  <2>5. us \in Seq(Tab(k)) /\ SamePages(us, ts)
    BY <2>4
  <2>6. ASSUME NEW u \in 1..Len(ts) PROVE (u = t => us[u] = y) /\ (u # t => us[u] = ts[u])
    BY <2>4
  <2> QED BY <1>2, <2>2, <2>5, <2>6 DEF us
<1>3. CASE t \notin 1..Len(ts)
  <2>1. us = ts
    BY <1>1, <1>3 DEF Book!ShowButton
  <2> QED BY <1>3, <2>1 DEF SamePages
<1> QED BY <1>2, <1>3

\* All tabs are written, each in its way.
LEMMA AllTabsWritten ==
  ASSUME NEW k, NEW ts \in Seq(Tab(k)), NEW us, DOMAIN us = DOMAIN ts, us = [t \in DOMAIN ts |-> us[t]],
         \A t \in DOMAIN ts : us[t] \in Tab(k) /\ us[t].page = ts[t].page
  PROVE  us \in Seq(Tab(k)) /\ SamePages(us, ts)
<1>1. DOMAIN ts = 1..Len(ts) /\ Len(ts) \in Nat
  BY LenProperties
<1>2. us \in [1..Len(ts) -> Tab(k)]
  BY <1>1
<1>3. us \in Seq(Tab(k)) /\ Len(us) = Len(ts)
  BY <1>1, <1>2
<1> QED BY <1>1, <1>3 DEF SamePages

\* UpdateTabs hides the buttons of all tabs when they become closable.
LEMMA TabsAreUpdated ==
  ASSUME NEW k, NEW ts \in Seq(Tab(k))
  PROVE  LET us == Book(k)!UpdateTabs(ts) IN
         /\ us \in Seq(Tab(k)) /\ SamePages(us, ts)
         /\ \A t \in 1..Len(ts) : /\ us[t].text = ts[t].text
                                  /\ us[t].right \in {ts[t].right, "close"}
                                  /\ us[t].shown => us[t].right = ts[t].right /\ ts[t].shown
<1> DEFINE us == Book(k)!UpdateTabs(ts)
           new(x) == [x EXCEPT !.right = IF @ = Book(k)!None THEN "close" ELSE @, !.shown = FALSE]
<1>1. DOMAIN ts = 1..Len(ts) /\ \A t \in 1..Len(ts) : ts[t] \in Tab(k)
  BY LenProperties, ElementOfSeq
<1>2. CASE closable
  <2>1. us = ts
    BY <1>2 DEF Book!UpdateTabs
  <2> QED BY <2>1 DEF SamePages
<1>3. CASE ~closable
  <2>1. us = [t \in DOMAIN ts |-> new(ts[t])]
    BY <1>3 DEF Book!UpdateTabs
  <2>2. ASSUME NEW x \in Tab(k)
        PROVE  /\ new(x) \in Tab(k) /\ new(x).page = x.page /\ new(x).text = x.text /\ new(x).shown = FALSE
               /\ new(x).right \in {x.right, "close"} /\ (new(x).right = "close" \/ new(x).right = x.right)
               /\ x.right # "none" => new(x).right = x.right
    BY DEF Tab, Book!None
  <2> HIDE DEF new
  <2>3. \A t \in DOMAIN ts : us[t] = new(ts[t])
    BY <2>1
  <2> HIDE DEF us
  <2>4. DOMAIN us = DOMAIN ts /\ us = [t \in DOMAIN ts |-> us[t]]
    BY <2>1
  <2>5. us \in Seq(Tab(k)) /\ SamePages(us, ts)
    BY <1>1, <2>2, <2>3, <2>4, AllTabsWritten, Zenon
  <2>6. \A t \in 1..Len(ts) : us[t].text = ts[t].text /\ ~us[t].shown /\ us[t].right \in {ts[t].right, "close"}
    BY <1>1, <2>2, <2>3, Zenon
  <2>7. us \in Seq(Tab(k)) /\ SamePages(us, ts) /\ us = Book(k)!UpdateTabs(ts)
    BY <2>5 DEF us
  <2> QED BY <2>6, <2>7
<1> QED BY <1>2, <1>3

-----------------------------------------------------------------------------
(* Notebook: what every step keeps *)

\* What a page points at is a header of that page.
Linked(k, ps, rf) ==
  \A p \in 1..Len(ps) :
    /\ ps[p].image # "none" => k.kind[ps[p].image] = "image" /\ rf[ps[p].image] = p
    /\ ps[p].button # "none" => k.kind[ps[p].button] = "button" /\ rf[ps[p].button] = p
    /\ ps[p].close # "none" => k.kind[ps[p].close] = "eventbox" /\ rf[ps[p].close] = p

\* A tab has the title of its page, or none for a reason.
NamesFit(k, ts, ps, hd, st) ==
  \A t \in 1..Len(ts) : \/ ts[t].text = ps[ts[t].page].title
                        \/ ts[t].text = Book(k)!Blank /\ (ts[t].page \in hd \/ st)

\* A button on a tab is one of its page.
ButtonsFit(k, ts, rf) ==
  \A t \in 1..Len(ts) :
    /\ ts[t].right \in k.headers => rf[ts[t].right] = ts[t].page
    /\ ts[t].right = "close" /\ ts[t].shown => \E h \in k.headers : k.kind[h] = "eventbox" /\ rf[h] = ts[t].page

BookTypes(k) ==
  /\ notebook \in BOOLEAN /\ closable \in BOOLEAN /\ stray \in BOOLEAN /\ misplaced \in BOOLEAN
  /\ pages \in Seq(Page(k)) /\ Len(pages) <= k.max /\ live \subseteq 1..Len(pages) /\ headed \subseteq 1..Len(pages)
  /\ tabs \in Seq(Tab(k)) /\ \A t \in 1..Len(tabs) : tabs[t].page \in 1..Len(pages)
  /\ current \in 0..Len(tabs)
  /\ ref \in [k.headers -> Nat] /\ \A h \in k.headers : ref[h] <= Len(pages)
  /\ state \in [k.headers -> {"empty", "ready", "disposed"}]
  /\ caption \in Book(k)!Texts /\ crashed \in {"none", "page", "header"}

BookInv(k) ==
  /\ BookTypes(k)
  /\ Linked(k, pages, ref)
  /\ crashed = "none" => Enumerates(tabs, pages)
  /\ NamesFit(k, tabs, pages, headed, stray)
  /\ misplaced \/ ButtonsFit(k, tabs, ref)
  /\ misled = FALSE
  /\ Book(k)!CrashIsExplained

LEMMA BookConstants ==
  ASSUME NEW k \in Notebooks
  PROVE  /\ k.kind \in [k.headers -> {"label", "image", "eventbox", "button"}]
         /\ "none" \notin k.headers /\ "close" \notin k.headers /\ k.max \in Nat \ {0} /\ k.titled \subseteq 1..k.max
BY PartsAssumption DEF PartsAssumption, Book!NotebookAssumption

\* Pages stay as visible as they were.
SameVisible(qs, ps) == Len(qs) = Len(ps) /\ \A p \in 1..Len(ps) : qs[p].visible = ps[p].visible

\* The tabs that are those of the visible pages stay so when neither changes.
LEMMA EnumeratesKept ==
  ASSUME NEW ts, NEW us, NEW ps, NEW qs, Enumerates(ts, ps), SamePages(us, ts), SameVisible(qs, ps)
  PROVE  Enumerates(us, qs)
<1>1. ASSUME NEW t \in 1..Len(us) PROVE us[t].page \in 1..Len(qs) /\ qs[us[t].page].visible
  BY DEF Enumerates, SamePages, SameVisible
<1>2. ASSUME NEW t \in 1..Len(us), NEW u \in 1..Len(us), t < u PROVE us[t].page < us[u].page
  BY <1>2 DEF Enumerates, SamePages
<1>3. ASSUME NEW p \in 1..Len(qs), qs[p].visible PROVE \E t \in 1..Len(us) : us[t].page = p
  BY <1>3 DEF Enumerates, SamePages, SameVisible
<1> QED BY <1>1, <1>2, <1>3 DEF Enumerates

\* A page is written.
PutPage(ps, p, x) == [ps EXCEPT ![p] = x]

LEMMA PageWritten ==
  ASSUME NEW k, NEW ps \in Seq(Page(k)), NEW p \in 1..Len(ps), NEW x \in Page(k)
  PROVE  /\ PutPage(ps, p, x) \in Seq(Page(k)) /\ Len(PutPage(ps, p, x)) = Len(ps)
         /\ PutPage(ps, p, x)[p] = x /\ \A q \in 1..Len(ps) : q # p => PutPage(ps, p, x)[q] = ps[q]
BY DEF PutPage

\* The parts of a page that a handler writes.
LEMMA PageParts ==
  ASSUME NEW k, NEW x \in Page(k)
  PROVE  /\ x.visible \in BOOLEAN /\ x.title \in Book(k)!Texts
         /\ x.image \in k.headers \cup {"none"} /\ x.button \in k.headers \cup {"none"}
         /\ x.close \in k.headers \cup {"none"} /\ x.header \in k.headers \cup {"none"}
         /\ \A b \in BOOLEAN : LET y == [x EXCEPT !.visible = b] IN
              y \in Page(k) /\ y.visible = b /\ y.title = x.title /\ y.image = x.image /\ y.button = x.button /\ y.close = x.close
         /\ \A s \in Book(k)!Texts : LET y == [x EXCEPT !.title = s] IN
              /\ y \in Page(k) /\ y.visible = x.visible /\ y.title = s /\ y.image = x.image
              /\ y.button = x.button /\ y.close = x.close
BY DEF Page

\* The title of a page is given to its tab, when there is one.
PutTitle(ps, p, s) == [ps EXCEPT ![p].title = s]
PutName(k, ts, ps, p, s) ==
  IF ps[p].visible THEN Book(k)!SetTabText(ts, Book(k)!AdjustIndex(ps, p), s) ELSE ts

LEMMA TitleWritten ==
  ASSUME NEW k, NEW ps \in Seq(Page(k)), NEW p \in 1..Len(ps), NEW s \in Book(k)!Texts
  PROVE  LET qs == PutTitle(ps, p, s) IN
         /\ qs \in Seq(Page(k)) /\ SameVisible(qs, ps)
         /\ \A q \in 1..Len(ps) : /\ qs[q].title = IF q = p THEN s ELSE ps[q].title
                                  /\ qs[q].image = ps[q].image /\ qs[q].button = ps[q].button
                                  /\ qs[q].close = ps[q].close
<1> DEFINE x == [ps[p] EXCEPT !.title = s]
<1>1. ps[p] \in Page(k)
  BY ElementOfSeq
<1>2. /\ x \in Page(k) /\ x.visible = ps[p].visible /\ x.title = s
      /\ x.image = ps[p].image /\ x.button = ps[p].button /\ x.close = ps[p].close
  BY <1>1, PageParts
<1>3. PutTitle(ps, p, s) = PutPage(ps, p, x)
  BY Zenon DEF PutPage, PutTitle
<1> HIDE DEF x
<1> DEFINE qs == PutPage(ps, p, x)
<1>4. qs \in Seq(Page(k)) /\ Len(qs) = Len(ps) /\ qs[p] = x
  BY <1>2, PageWritten
<1>5. \A q \in 1..Len(ps) : q # p => qs[q] = ps[q]
  BY <1>2, PageWritten
<1> HIDE DEF qs
<1>6. ASSUME NEW q \in 1..Len(ps)
      PROVE  /\ qs[q].title = IF q = p THEN s ELSE ps[q].title
             /\ qs[q].image = ps[q].image /\ qs[q].button = ps[q].button /\ qs[q].close = ps[q].close
  BY <1>2, <1>4, <1>5
<1>7. PutTitle(ps, p, s) = qs
  BY <1>3 DEF qs
<1>8. SameVisible(qs, ps)
  BY <1>2, <1>4, <1>5 DEF SameVisible
<1> QED BY <1>4, <1>6, <1>7, <1>8

LEMMA NameWritten ==
  ASSUME NEW k, NEW ps \in Seq(Page(k)), NEW ts \in Seq(Tab(k)), Enumerates(ts, ps),
         NEW p \in 1..Len(ps), NEW s \in Book(k)!Texts
  PROVE  LET us == PutName(k, ts, ps, p, s) IN
         /\ us \in Seq(Tab(k)) /\ SamePages(us, ts)
         /\ \A t \in 1..Len(ts) : /\ us[t].right = ts[t].right /\ us[t].shown = ts[t].shown
                                  /\ us[t].text = IF ts[t].page = p THEN s ELSE ts[t].text
<1> DEFINE us == PutName(k, ts, ps, p, s)
           a == Book(k)!AdjustIndex(ps, p)
<1>1. CASE ps[p].visible
  <2>1. a \in 1..Len(ts) /\ ts[a].page = p
    <3>1. Finds(k, ts, ps)
      BY TabsAndPages
    <3> QED BY <1>1, <3>1 DEF Finds
  <2>2. us = Book(k)!SetTabText(ts, a, s)
    BY <1>1 DEF PutName
  <2> HIDE DEF a, us
  <2>3. /\ us \in Seq(Tab(k)) /\ SamePages(us, ts)
        /\ \A t \in 1..Len(ts) : /\ us[t].right = ts[t].right /\ us[t].shown = ts[t].shown
                                 /\ us[t].text = IF t = a THEN s ELSE ts[t].text
    BY <2>2, TextIsSet
  <2>4. ASSUME NEW t \in 1..Len(ts) PROVE ts[t].page = p <=> t = a
    <3>1. Len(ts) \in Nat /\ ts[t].page \in Nat
      BY DEF Enumerates
    <3> QED BY <2>1, <3>1 DEF Enumerates
  <2>5. ASSUME NEW t \in 1..Len(ts) PROVE us[t].text = IF ts[t].page = p THEN s ELSE ts[t].text
    BY <2>3, <2>4
  <2> QED BY <2>3, <2>5 DEF us
<1>2. CASE ~ps[p].visible
  <2>1. us = ts
    BY <1>2 DEF PutName
  <2>2. \A t \in 1..Len(ts) : ts[t].page # p
    BY <1>2 DEF Enumerates
  <2> QED BY <2>1, <2>2 DEF SamePages
<1> QED BY <1>1, <1>2

\* Then names fit again, for a page that had one and for one that had none.
LEMMA NamedTogether ==
  ASSUME NEW k, NEW ps \in Seq(Page(k)), NEW ts \in Seq(Tab(k)), Enumerates(ts, ps), NEW hd, NEW st,
         NamesFit(k, ts, ps, hd, st), NEW p \in 1..Len(ps), NEW s \in Book(k)!Texts
  PROVE  LET us == PutName(k, ts, ps, p, s)
             qs == PutTitle(ps, p, s) IN
         Enumerates(us, qs) /\ NamesFit(k, us, qs, hd, st)
<1> DEFINE us == PutName(k, ts, ps, p, s)
           qs == PutTitle(ps, p, s)
<1>1. /\ us \in Seq(Tab(k)) /\ SamePages(us, ts)
      /\ \A t \in 1..Len(ts) : us[t].text = IF ts[t].page = p THEN s ELSE ts[t].text
  BY NameWritten
<1>2. SameVisible(qs, ps) /\ \A q \in 1..Len(ps) : qs[q].title = IF q = p THEN s ELSE ps[q].title
  BY TitleWritten
<1> HIDE DEF us, qs
<1>3. Enumerates(us, qs)
  BY <1>1, <1>2, EnumeratesKept
<1>4. ASSUME NEW t \in 1..Len(us)
      PROVE  us[t].text = qs[us[t].page].title \/ (us[t].text = Book(k)!Blank /\ (us[t].page \in hd \/ st))
  <2>1. t \in 1..Len(ts) /\ us[t].page = ts[t].page /\ ts[t].page \in 1..Len(ps)
    BY <1>1 DEF SamePages, Enumerates
  <2> QED BY <1>1, <1>2, <2>1 DEF NamesFit
<1>5. NamesFit(k, us, qs, hd, st)
  BY <1>4 DEF NamesFit
<1> QED BY <1>3, <1>5 DEF us, qs

\* A page with a button that is put on its tab, when there is one.
LEMMA ButtonsFitKept ==
  ASSUME NEW k, NEW ts, NEW us, SamePages(us, ts), NEW rf, ButtonsFit(k, ts, rf),
         \A t \in 1..Len(ts) : us[t].right = ts[t].right /\ us[t].shown = ts[t].shown
  PROVE  ButtonsFit(k, us, rf)
BY DEF ButtonsFit, SamePages

\* What pages point at stays.
SameLinks(qs, ps) ==
  Len(qs) = Len(ps) /\ \A q \in 1..Len(ps) : /\ qs[q].image = ps[q].image /\ qs[q].button = ps[q].button
                                             /\ qs[q].close = ps[q].close

LEMMA LinkedKept ==
  ASSUME NEW k, NEW ps, NEW qs, NEW rf, Linked(k, ps, rf), SameLinks(qs, ps)
  PROVE  Linked(k, qs, rf)
BY DEF Linked, SameLinks

\* on_currentChanged names the page of the tab.
LEMMA ToldRightly ==
  ASSUME NEW k, NEW ts \in Seq(Tab(k)), NEW ps \in Seq(Page(k)), Enumerates(ts, ps), NEW t \in Nat,
         misled = FALSE, Book(k)!CurrentChanged(ps, ts, t)
  PROVE  misled' = FALSE
<1> DEFINE p == Book(k)!AdjustIndexReversed(ps, t)
<1>1. Finds(k, ts, ps)
  BY TabsAndPages
<1>2. misled' = (misled \/ (p # 0 /\ p # ts[t].page))
  BY DEF Book!CurrentChanged
<1>3. p = 0 \/ p = ts[t].page
  BY <1>1 DEF Finds
<1> HIDE DEF p
<1> QED BY <1>2, <1>3

\* A step that only brings another tab to the front.
LEMMA FrontKept ==
  ASSUME NEW k \in Notebooks, BookInv(k), current' \in 0..Len(tabs), misled' = FALSE,
         UNCHANGED <<notebook, pages, live, tabs, closable, ref, state, caption, Book(k)!history, crashed>>
  PROVE  BookInv(k)'
<1>1. BookTypes(k)'
  BY DEF BookInv, BookTypes, Book!history
<1>2. UNCHANGED <<notebook, pages, tabs, ref, state, headed, stray, misplaced, crashed>>
  BY DEF Book!history
<1>3. Linked(k, pages, ref)' /\ (crashed' = "none" => Enumerates(tabs, pages)')
  BY <1>2 DEF BookInv
<1>4. NamesFit(k, tabs, pages, headed, stray)' /\ (misplaced' \/ ButtonsFit(k, tabs, ref)')
  BY <1>2 DEF BookInv
<1>5. Book(k)!CrashIsExplained'
  BY <1>2 DEF BookInv, Book!CrashIsExplained
<1> QED BY <1>1, <1>3, <1>4, <1>5 DEF BookInv

LEMMA SelectBook ==
  ASSUME NEW k \in Notebooks, BookInv(k), crashed = "none", NEW t \in DOMAIN tabs, Book(k)!Select(t)
  PROVE  BookInv(k)'
<1>1. tabs \in Seq(Tab(k)) /\ pages \in Seq(Page(k)) /\ Enumerates(tabs, pages) /\ misled = FALSE
  BY DEF BookInv, BookTypes
<1>2. t \in 1..Len(tabs) /\ t \in Nat /\ current' = t /\ Book(k)!CurrentChanged(pages, tabs, t)
  BY <1>1 DEF Book!Select
<1>3. misled' = FALSE
  BY <1>1, <1>2, ToldRightly
<1>4. current' \in 0..Len(tabs)
  BY <1>1, <1>2
<1> QED BY <1>3, <1>4, FrontKept DEF Book!Select

LEMMA SetPageBook ==
  ASSUME NEW k \in Notebooks, BookInv(k), crashed = "none", NEW p \in DOMAIN pages, Book(k)!SetPage(p)
  PROVE  BookInv(k)'
<1>1. tabs \in Seq(Tab(k)) /\ pages \in Seq(Page(k)) /\ Enumerates(tabs, pages) /\ misled = FALSE
  BY DEF BookInv, BookTypes
<1> DEFINE a == Book(k)!AdjustIndex(pages, p)
<1>2. p \in 1..Len(pages) /\ pages[p].visible /\ current' = a
  BY <1>1 DEF Book!SetPage
<1>3. Finds(k, tabs, pages)
  BY <1>1, TabsAndPages
<1>4. a \in 1..Len(tabs) /\ a \in Nat
  BY <1>2, <1>3 DEF Finds
<1>5. IF current' # current THEN Book(k)!CurrentChanged(pages, tabs, current') ELSE UNCHANGED misled
  BY DEF Book!SetPage
<1> HIDE DEF a
<1>6. misled' = FALSE
  <2>1. CASE Book(k)!CurrentChanged(pages, tabs, a)
    BY <1>1, <1>4, <2>1, ToldRightly
  <2>2. CASE UNCHANGED misled
    BY <1>1, <2>2
  <2> QED BY <1>2, <1>5, <2>1, <2>2
<1>7. current' \in 0..Len(tabs)
  BY <1>1, <1>2, <1>4
<1> QED BY <1>6, <1>7, FrontKept DEF Book!SetPage

LEMMA GetPageBook ==
  ASSUME NEW k \in Notebooks, BookInv(k), crashed = "none", Book(k)!GetPage
  PROVE  BookInv(k)'
<1>1. misled = FALSE /\ current \in 0..Len(tabs)
  BY DEF BookInv, BookTypes
<1>2. misled' = FALSE
  BY <1>1 DEF Book!GetPage
<1>3. current' \in 0..Len(tabs)
  BY <1>1 DEF Book!GetPage
<1> QED BY <1>2, <1>3, FrontKept DEF Book!GetPage

LEMMA RequestCloseBook ==
  ASSUME NEW k \in Notebooks, BookInv(k), crashed = "none", NEW t \in DOMAIN tabs, Book(k)!RequestClose(t)
  PROVE  BookInv(k)'
<1>1. tabs \in Seq(Tab(k)) /\ pages \in Seq(Page(k)) /\ Enumerates(tabs, pages) /\ misled = FALSE
  BY DEF BookInv, BookTypes
<1>2. t \in 1..Len(tabs) /\ Finds(k, tabs, pages)
  BY <1>1, TabsAndPages
<1> DEFINE p == Book(k)!AdjustIndexReversed(pages, t)
<1>3. p = tabs[t].page
  BY <1>2 DEF Finds
<1>4. p \in 1..Len(pages)
  BY <1>1, <1>2, <1>3 DEF Enumerates
<1>5. pages[p].close # "none" => ref[pages[p].close] = p
  BY <1>4 DEF BookInv, Linked
<1>6. misled' = (misled \/ (pages[p].close # "none" /\ ref[pages[p].close] # tabs[t].page))
  BY DEF Book!RequestClose, Book!None
<1> HIDE DEF p
<1>7. misled' = FALSE
  BY <1>1, <1>3, <1>5, <1>6
<1>8. current' \in 0..Len(tabs)
  BY DEF Book!RequestClose, BookInv, BookTypes
<1> QED BY <1>7, <1>8, FrontKept DEF Book!RequestClose

\* The server or a label gives a page its title.
LEMMA TitledBook ==
  ASSUME NEW k \in Notebooks, BookInv(k), crashed = "none", NEW p \in 1..Len(pages),
         NEW s \in Book(k)!Texts, pages' = PutTitle(pages, p, s), tabs' = PutName(k, tabs, pages, p, s),
         caption' \in Book(k)!Texts,
         UNCHANGED <<notebook, live, current, closable, ref, state, misled, headed, stray, misplaced, crashed>>
  PROVE  BookInv(k)'
<1>1. /\ tabs \in Seq(Tab(k)) /\ pages \in Seq(Page(k)) /\ Enumerates(tabs, pages)
      /\ NamesFit(k, tabs, pages, headed, stray)
  BY DEF BookInv, BookTypes
<1>2. Enumerates(tabs', pages') /\ NamesFit(k, tabs', pages', headed, stray)
  BY <1>1, NamedTogether
<1>3. /\ tabs' \in Seq(Tab(k)) /\ SamePages(tabs', tabs)
      /\ \A t \in 1..Len(tabs) : tabs'[t].right = tabs[t].right /\ tabs'[t].shown = tabs[t].shown
  <2> DEFINE us == PutName(k, tabs, pages, p, s)
  <2>1. /\ us \in Seq(Tab(k)) /\ SamePages(us, tabs)
        /\ \A t \in 1..Len(tabs) : us[t].right = tabs[t].right /\ us[t].shown = tabs[t].shown
    BY <1>1, NameWritten
  <2> HIDE DEF us
  <2>2. tabs' = us
    BY DEF us
  <2> QED BY <2>1, <2>2
<1>4. pages' \in Seq(Page(k)) /\ SameLinks(pages', pages)
  <2> DEFINE qs == PutTitle(pages, p, s)
  <2>1. /\ qs \in Seq(Page(k)) /\ SameVisible(qs, pages)
        /\ \A q \in 1..Len(pages) : /\ qs[q].image = pages[q].image /\ qs[q].button = pages[q].button
                                    /\ qs[q].close = pages[q].close
    BY <1>1, TitleWritten
  <2> HIDE DEF qs
  <2>2. pages' = qs
    BY DEF qs
  <2> QED BY <2>1, <2>2 DEF SameVisible, SameLinks
<1>5. Linked(k, pages', ref')
  BY <1>4, LinkedKept DEF BookInv
<1>6. misplaced' \/ ButtonsFit(k, tabs', ref')
  BY <1>3, ButtonsFitKept DEF BookInv
<1>7. Len(pages') = Len(pages) /\ Len(tabs') = Len(tabs)
  BY <1>3, <1>4 DEF SamePages, SameLinks
<1>8. \A t \in 1..Len(tabs') : tabs'[t].page \in 1..Len(pages')
  BY <1>2 DEF Enumerates
<1>9. BookTypes(k)'
  BY <1>3, <1>4, <1>7, <1>8 DEF BookInv, BookTypes
<1>10. Book(k)!CrashIsExplained'
  BY DEF Book!CrashIsExplained
<1> QED BY <1>2, <1>5, <1>6, <1>9, <1>10 DEF BookInv

LEMMA SetTitleBook ==
  ASSUME NEW k \in Notebooks, BookInv(k), crashed = "none", NEW p \in DOMAIN pages, Book(k)!SetTitle(p)
  PROVE  BookInv(k)'
<1>1. p \in 1..Len(pages) /\ caption' \in Book(k)!Texts /\ "text" \in Book(k)!Texts
  BY DEF BookInv, BookTypes, Book!SetTitle, Book!Texts
<1>2. pages' = PutTitle(pages, p, "text") /\ tabs' = PutName(k, tabs, pages, p, "text")
  BY Zenon DEF Book!SetTitle, PutTitle, PutName
<1>3. UNCHANGED <<notebook, live, current, closable, ref, state, misled, headed, stray, misplaced, crashed>>
  BY DEF Book!SetTitle, Book!history
<1> QED BY <1>1, <1>2, <1>3, TitledBook

\* A step that leaves pages, tabs and headers where they are.
LEMMA PlacesKept ==
  ASSUME NEW k \in Notebooks, BookInv(k), crashed = "none", BookTypes(k)', Book(k)!CrashIsExplained',
         UNCHANGED <<pages, tabs, ref, headed, stray, misplaced, misled>>
  PROVE  BookInv(k)'
<1>1. Linked(k, pages, ref)' /\ (crashed' = "none" => Enumerates(tabs, pages)') /\ misled' = FALSE
  BY DEF BookInv
<1>2. NamesFit(k, tabs, pages, headed, stray)' /\ (misplaced' \/ ButtonsFit(k, tabs, ref)')
  BY DEF BookInv
<1> QED BY <1>1, <1>2 DEF BookInv

LEMMA CaptionBook ==
  ASSUME NEW k \in Notebooks, BookInv(k), crashed = "none", NEW h \in k.headers, Book(k)!Caption(h)
  PROVE  BookInv(k)'
<1>1. "text" \in Book(k)!Texts /\ caption' = "text" /\ UNCHANGED <<notebook, live, current, closable, ref, state, misled, headed, stray, misplaced>>
  BY DEF Book!Texts, Book!Caption, Book!history
<1>2. CASE UNCHANGED <<pages, tabs>> /\ crashed' \in {"none", "header"} /\ (crashed' = "header" => ~notebook)
  <2>1. BookTypes(k)'
    BY <1>1, <1>2 DEF BookInv, BookTypes
  <2>2. Book(k)!CrashIsExplained'
    BY <1>1, <1>2 DEF Book!CrashIsExplained
  <2> QED BY <1>1, <1>2, <2>1, <2>2, PlacesKept
<1>3. CASE /\ ref[h] # 0 /\ pages' = [pages EXCEPT ![ref[h]].title = "text"] /\ UNCHANGED crashed
           /\ tabs' = IF pages[ref[h]].visible
                        THEN Book(k)!SetTabText(tabs, Book(k)!AdjustIndex(pages, ref[h]), "text") ELSE tabs
  <2> DEFINE p == ref[h]
  <2>1. p \in 1..Len(pages)
    BY <1>3 DEF BookInv, BookTypes
  <2>2. pages' = PutTitle(pages, p, "text") /\ tabs' = PutName(k, tabs, pages, p, "text")
    BY <1>3, Zenon DEF PutTitle, PutName
  <2> HIDE DEF p
  <2>3. caption' \in Book(k)!Texts
    BY <1>1
  <2> QED BY <1>1, <1>3, <2>1, <2>2, <2>3, TitledBook
<1>4. \/ ref[h] = 0 /\ UNCHANGED <<pages, tabs, crashed>>
      \/ Book(k)!Lost(h) /\ crashed' = "header" /\ UNCHANGED <<pages, tabs>>
      \/ /\ ref[h] # 0 /\ pages' = [pages EXCEPT ![ref[h]].title = "text"] /\ UNCHANGED crashed
         /\ tabs' = IF pages[ref[h]].visible
                      THEN Book(k)!SetTabText(tabs, Book(k)!AdjustIndex(pages, ref[h]), "text") ELSE tabs
  BY Zenon DEF Book!Caption
<1> QED BY <1>2, <1>3, <1>4 DEF Book!Lost

LEMMA LoadBook ==
  ASSUME NEW k \in Notebooks, BookInv(k), crashed = "none", NEW h \in k.headers, Book(k)!Load(h)
  PROVE  BookInv(k)'
<1>1. UNCHANGED <<notebook, pages, live, tabs, current, closable, ref, caption, misled, headed, stray, misplaced>>
  BY DEF Book!Load, Book!history
<1>2. /\ crashed' \in {"none", "header"} /\ (crashed' = "header" => ~notebook)
      /\ state' = state \/ state' = [state EXCEPT ![h] = "ready"]
  BY DEF Book!Load, Book!Lost
<1>3. BookTypes(k)'
  BY <1>1, <1>2 DEF BookInv, BookTypes
<1>4. Book(k)!CrashIsExplained'
  BY <1>1, <1>2 DEF Book!CrashIsExplained
<1> QED BY <1>1, <1>3, <1>4, PlacesKept

LEMMA DisposeNotebookBook ==
  ASSUME NEW k \in Notebooks, BookInv(k), crashed = "none", Book(k)!DisposeNotebook
  PROVE  BookInv(k)'
<1>1. UNCHANGED <<pages, live, tabs, current, closable, ref, state, caption, misled, headed, stray, misplaced, crashed>>
  BY DEF Book!DisposeNotebook, Book!history
<1>2. BookTypes(k)'
  BY <1>1 DEF Book!DisposeNotebook, BookInv, BookTypes
<1>3. Book(k)!CrashIsExplained'
  BY <1>1 DEF Book!CrashIsExplained
<1> QED BY <1>1, <1>2, <1>3, PlacesKept

LEMMA DisposePageBook ==
  ASSUME NEW k \in Notebooks, BookInv(k), crashed = "none", NEW p \in DOMAIN pages, Book(k)!DisposePage(p)
  PROVE  BookInv(k)'
<1>1. UNCHANGED <<notebook, pages, tabs, current, closable, ref, state, caption, misled, headed, stray, misplaced, crashed>>
  BY DEF Book!DisposePage, Book!history
<1>2. BookTypes(k)'
  BY <1>1 DEF Book!DisposePage, BookInv, BookTypes
<1>3. Book(k)!CrashIsExplained'
  BY <1>1 DEF Book!CrashIsExplained
<1> QED BY <1>1, <1>2, <1>3, PlacesKept

\* A disposed header is hidden where it stays.
LEMMA DisposeHeaderBook ==
  ASSUME NEW k \in Notebooks, BookInv(k), crashed = "none", NEW h \in k.headers, Book(k)!DisposeHeader(h)
  PROVE  BookInv(k)'
<1> DEFINE new(x) == IF x.right = h THEN [x EXCEPT !.shown = FALSE] ELSE x
<1>1. /\ UNCHANGED <<notebook, pages, live, current, closable, ref, caption, misled, headed, stray, misplaced, crashed>>
      /\ tabs' = [t \in DOMAIN tabs |-> new(tabs[t])] /\ state' = [state EXCEPT ![h] = "disposed"]
  BY DEF Book!DisposeHeader, Book!history
<1>2. tabs \in Seq(Tab(k)) /\ DOMAIN tabs = 1..Len(tabs) /\ \A t \in 1..Len(tabs) : tabs[t] \in Tab(k)
  BY LenProperties, ElementOfSeq DEF BookInv, BookTypes
<1>3. ASSUME NEW x \in Tab(k)
      PROVE  /\ new(x) \in Tab(k) /\ new(x).page = x.page /\ new(x).text = x.text /\ new(x).right = x.right
             /\ new(x).shown => x.shown
  BY DEF Tab
<1> HIDE DEF new
<1> DEFINE us == [t \in DOMAIN tabs |-> new(tabs[t])]
<1>4. \A t \in DOMAIN tabs : us[t] = new(tabs[t])
  OBVIOUS
<1>5. DOMAIN us = DOMAIN tabs /\ us = [t \in DOMAIN tabs |-> us[t]]
  OBVIOUS
<1>6. tabs' = us
  BY <1>1
<1> HIDE DEF us
<1>7. us \in Seq(Tab(k)) /\ SamePages(us, tabs)
  <2>1. \A t \in DOMAIN tabs : us[t] \in Tab(k) /\ us[t].page = tabs[t].page
    BY <1>2, <1>3, <1>4
  <2> QED BY <1>2, <1>5, <2>1, AllTabsWritten
<1>8. \A t \in 1..Len(tabs) : /\ us[t].text = tabs[t].text /\ us[t].right = tabs[t].right
                              /\ us[t].shown => tabs[t].shown
  BY <1>2, <1>3, <1>4
<1>9. Enumerates(us, pages)
  BY <1>7, EnumeratesKept DEF BookInv, SameVisible
<1>10. NamesFit(k, us, pages, headed, stray)
  BY <1>7, <1>8 DEF BookInv, NamesFit, SamePages
<1>11. misplaced \/ ButtonsFit(k, us, ref)
  BY <1>7, <1>8 DEF BookInv, ButtonsFit, SamePages
<1>12. BookTypes(k)'
  <2>1. \A t \in 1..Len(us) : us[t].page \in 1..Len(pages)
    BY <1>9 DEF Enumerates
  <2> QED BY <1>1, <1>6, <1>7, <2>1 DEF BookInv, BookTypes, SamePages
<1>13. Book(k)!CrashIsExplained'
  BY <1>1 DEF Book!CrashIsExplained
<1> QED BY <1>1, <1>6, <1>9, <1>10, <1>11, <1>12, <1>13 DEF BookInv

\* A new page is hidden.
LEMMA AddPageBook ==
  ASSUME NEW k \in Notebooks, BookInv(k), crashed = "none", Book(k)!AddPage
  PROVE  BookInv(k)'
<1> DEFINE x == [visible |-> FALSE, title |-> "page", image |-> Book(k)!None, button |-> Book(k)!None,
                 close |-> Book(k)!None, header |-> Book(k)!None]
           n == Len(pages)
           qs == Append(pages, x)
<1>1. /\ pages' = qs /\ n < k.max /\ live' = live \cup {n + 1}
      /\ UNCHANGED <<notebook, tabs, current, closable, ref, state, caption, misled, headed, stray, misplaced, crashed>>
  BY DEF Book!AddPage, Book!history
<1>2. x \in Page(k) /\ ~x.visible /\ x.image = "none" /\ x.button = "none" /\ x.close = "none"
  BY DEF Page, Book!None, Book!Texts
<1>3. pages \in Seq(Page(k)) /\ n \in Nat /\ k.max \in Nat
  BY BookConstants DEF BookInv, BookTypes
<1> HIDE DEF x
<1>4. qs \in Seq(Page(k)) /\ Len(qs) = n + 1 /\ qs[n + 1] = x /\ \A q \in 1..n : qs[q] = pages[q]
  BY <1>2, <1>3
<1>5. \A q \in 1..(n + 1) : q \in 1..n \/ q = n + 1
  BY <1>3
<1>6. \A q \in 1..n : q \in 1..(n + 1)
  BY <1>3
<1> HIDE DEF qs, n
<1>7. n = Len(pages)
  BY DEF n
<1>8. Enumerates(tabs, qs)
  <2>1. Enumerates(tabs, pages)
    BY DEF BookInv
  <2>2. \A t \in 1..Len(tabs) : tabs[t].page \in 1..n /\ pages[tabs[t].page].visible
    BY <1>7, <2>1 DEF Enumerates
  <2>3. \A q \in 1..n : pages[q].visible => \E t \in 1..Len(tabs) : tabs[t].page = q
    BY <1>7, <2>1 DEF Enumerates
  <2>4. \A t \in 1..Len(tabs) : tabs[t].page \in 1..Len(qs) /\ qs[tabs[t].page].visible
    BY <1>4, <1>6, <2>2
  <2>5. \A q \in 1..Len(qs) : qs[q].visible => \E t \in 1..Len(tabs) : tabs[t].page = q
    BY <1>2, <1>4, <1>5, <2>3
  <2> QED BY <2>1, <2>4, <2>5 DEF Enumerates
<1>9. Linked(k, qs, ref)
  BY <1>2, <1>4, <1>5, <1>7 DEF BookInv, Linked
<1>10. NamesFit(k, tabs, qs, headed, stray)
  <2>1. \A t \in 1..Len(tabs) : tabs[t].page \in 1..n
    BY <1>7 DEF BookInv, BookTypes
  <2> QED BY <1>4, <2>1 DEF BookInv, NamesFit
<1>11. BookTypes(k)'
  <2>1. live \subseteq 1..n /\ headed \subseteq 1..n
    BY <1>7 DEF BookInv, BookTypes
  <2>4. n + 1 <= k.max /\ n + 1 \in 1..(n + 1)
    BY <1>1, <1>3
  <2>5. live \cup {n + 1} \subseteq 1..(n + 1) /\ headed \subseteq 1..(n + 1)
    BY <1>6, <2>1, <2>4
  <2>2. \A t \in 1..Len(tabs) : tabs[t].page \in 1..(n + 1)
    BY <1>6, <1>7 DEF BookInv, BookTypes
  <2>3. \A h \in k.headers : ref[h] <= n + 1
    BY <1>3, <1>7 DEF BookInv, BookTypes
  <2> QED BY <1>1, <1>4, <2>2, <2>3, <2>4, <2>5 DEF BookInv, BookTypes
<1>12. Book(k)!CrashIsExplained'
  BY <1>1 DEF Book!CrashIsExplained
<1> QED BY <1>1, <1>8, <1>9, <1>10, <1>11, <1>12 DEF BookInv

-----------------------------------------------------------------------------
(* Notebook: tabs come and go *)

\* insertTab.
InsertTab(ts, a, x) == SubSeq(ts, 1, a - 1) \o <<x>> \o SubSeq(ts, a, Len(ts))

LEMMA TabInserted ==
  ASSUME NEW T, NEW ts \in Seq(T), NEW a \in 1..(Len(ts) + 1), NEW x \in T
  PROVE  LET us == InsertTab(ts, a, x) IN
         /\ us \in Seq(T) /\ Len(us) = Len(ts) + 1 /\ us[a] = x
         /\ \A u \in 1..Len(ts) : (u < a => us[u] = ts[u]) /\ (u >= a => us[u + 1] = ts[u])
<1> DEFINE n == Len(ts)
           b == SubSeq(ts, 1, a - 1)
           c == SubSeq(ts, a, n)
           us == (b \o <<x>>) \o c
<1>1. n \in Nat /\ a \in Nat /\ 1 <= a /\ a <= n + 1
  OBVIOUS
<1>2. b \in Seq(T) /\ Len(b) = a - 1 /\ \A u \in 1..(a - 1) : b[u] = ts[u]
  <2>1. \A u \in 1..(a - 1) : ts[u] \in T
    BY <1>1, ElementOfSeq
  <2> QED BY <1>1, <2>1
<1>3. c \in Seq(T) /\ Len(c) = n - a + 1 /\ \A u \in 1..(n - a + 1) : c[u] = ts[a + u - 1]
  <2>1. \A u \in a..n : ts[u] \in T
    BY <1>1, ElementOfSeq
  <2> QED BY <1>1, <2>1
<1>4. <<x>> \in Seq(T) /\ Len(<<x>>) = 1 /\ <<x>>[1] = x
  OBVIOUS
<1> DEFINE d == b \o <<x>>
<1> HIDE DEF b, c, n
<1>5. d \in Seq(T) /\ Len(d) = a /\ d[a] = x /\ \A u \in 1..(a - 1) : d[u] = b[u]
  BY <1>1, <1>2, <1>4
<1> HIDE DEF d
<1> DEFINE e == d \o c
<1>6. e \in Seq(T) /\ Len(e) = n + 1
  <2>1. e \in Seq(T) /\ Len(e) = Len(d) + Len(c)
    BY <1>3, <1>5, ConcatProperties
  <2> QED BY <1>1, <1>3, <1>5, <2>1
<1>7. \A u \in 1..a : e[u] = d[u]
  BY <1>1, <1>3, <1>5
<1>8. \A u \in (a + 1)..(n + 1) : e[u] = c[u - a]
  BY <1>1, <1>3, <1>5
<1> HIDE DEF e
<1>9. e[a] = x /\ \A u \in 1..n : u < a => e[u] = ts[u]
  <2>1. \A u \in 1..n : u < a => u \in 1..(a - 1) /\ u \in 1..a
    BY <1>1
  <2>2. a \in 1..a
    BY <1>1
  <2> QED BY <1>2, <1>5, <1>7, <2>1, <2>2
<1>10. ASSUME NEW u \in 1..n, u >= a PROVE e[u + 1] = ts[u]
  <2>1. u + 1 \in (a + 1)..(n + 1) /\ (u + 1) - a \in 1..(n - a + 1) /\ a + ((u + 1) - a) - 1 = u
    BY <1>1, <1>10
  <2>2. e[u + 1] = c[(u + 1) - a]
    BY <1>8, <2>1
  <2>3. c[(u + 1) - a] = ts[a + ((u + 1) - a) - 1]
    BY <1>3, <2>1
  <2> QED BY <2>1, <2>2, <2>3
<1>11. InsertTab(ts, a, x) = e
  BY DEF InsertTab, e, d, b, c, n
<1> QED BY <1>6, <1>9, <1>10, <1>11 DEF n

\* removeTab.
RemoveTab(ts, a) == SubSeq(ts, 1, a - 1) \o SubSeq(ts, a + 1, Len(ts))

LEMMA TabRemoved ==
  ASSUME NEW T, NEW ts \in Seq(T), NEW a \in 1..Len(ts)
  PROVE  LET us == RemoveTab(ts, a) IN
         /\ us \in Seq(T) /\ Len(us) = Len(ts) - 1
         /\ \A u \in 1..(Len(ts) - 1) : (u < a => us[u] = ts[u]) /\ (u >= a => us[u] = ts[u + 1])
<1> DEFINE n == Len(ts)
           b == SubSeq(ts, 1, a - 1)
           c == SubSeq(ts, a + 1, n)
<1>1. n \in Nat /\ a \in Nat /\ 1 <= a /\ a <= n
  OBVIOUS
<1>2. b \in Seq(T) /\ Len(b) = a - 1 /\ \A u \in 1..(a - 1) : b[u] = ts[u]
  <2>1. \A u \in 1..(a - 1) : ts[u] \in T
    BY <1>1, ElementOfSeq
  <2> QED BY <1>1, <2>1
<1>3. c \in Seq(T) /\ Len(c) = n - a /\ \A u \in 1..(n - a) : c[u] = ts[a + u]
  <2>1. \A u \in (a + 1)..n : ts[u] \in T
    BY <1>1, ElementOfSeq
  <2>2. \A u \in 1..(n - a) : (a + 1) + u - 1 = a + u
    BY <1>1
  <2> QED BY <1>1, <2>1, <2>2
<1> HIDE DEF b, c, n
<1> DEFINE e == b \o c
<1>4. e \in Seq(T) /\ Len(e) = n - 1
  <2>1. e \in Seq(T) /\ Len(e) = Len(b) + Len(c)
    BY <1>2, <1>3, ConcatProperties
  <2> QED BY <1>1, <1>2, <1>3, <2>1
<1>5. \A u \in 1..(a - 1) : e[u] = b[u]
  BY <1>1, <1>2, <1>3
<1>6. \A u \in a..(n - 1) : e[u] = c[u - (a - 1)]
  BY <1>1, <1>2, <1>3
<1> HIDE DEF e
<1>7. ASSUME NEW u \in 1..(n - 1), u < a PROVE e[u] = ts[u]
  <2>1. u \in 1..(a - 1)
    BY <1>1, <1>7
  <2> QED BY <1>2, <1>5, <2>1
<1>8. ASSUME NEW u \in 1..(n - 1), u >= a PROVE e[u] = ts[u + 1]
  <2>1. u \in a..(n - 1) /\ u - (a - 1) \in 1..(n - a) /\ a + (u - (a - 1)) = u + 1
    BY <1>1, <1>8
  <2>2. e[u] = c[u - (a - 1)]
    BY <1>6, <2>1
  <2>3. c[u - (a - 1)] = ts[a + (u - (a - 1))]
    BY <1>3, <2>1
  <2> QED BY <2>1, <2>2, <2>3
<1>9. RemoveTab(ts, a) = e
  BY DEF RemoveTab, e, b, c, n
<1> QED BY <1>4, <1>7, <1>8, <1>9 DEF n

\* A page is shown or hidden.
PutVisible(ps, p, b) == [ps EXCEPT ![p].visible = b]

LEMMA VisibleWritten ==
  ASSUME NEW k, NEW ps \in Seq(Page(k)), NEW p \in 1..Len(ps), NEW b \in BOOLEAN
  PROVE  LET qs == PutVisible(ps, p, b) IN
         /\ qs \in Seq(Page(k)) /\ SameLinks(qs, ps) /\ qs[p].visible = b
         /\ \A q \in 1..Len(ps) : qs[q].title = ps[q].title /\ (q # p => qs[q].visible = ps[q].visible)
<1> DEFINE x == [ps[p] EXCEPT !.visible = b]
<1>1. ps[p] \in Page(k)
  BY ElementOfSeq
<1>2. /\ x \in Page(k) /\ x.visible = b /\ x.title = ps[p].title
      /\ x.image = ps[p].image /\ x.button = ps[p].button /\ x.close = ps[p].close
  BY <1>1, PageParts
<1>3. PutVisible(ps, p, b) = PutPage(ps, p, x)
  BY Zenon DEF PutPage, PutVisible
<1> HIDE DEF x
<1> DEFINE qs == PutPage(ps, p, x)
<1>4. qs \in Seq(Page(k)) /\ Len(qs) = Len(ps) /\ qs[p] = x
  BY <1>2, PageWritten
<1>5. \A q \in 1..Len(ps) : q # p => qs[q] = ps[q]
  BY <1>2, PageWritten
<1> HIDE DEF qs
<1>6. qs[p].visible = b
  BY <1>2, <1>4
<1>7. \A q \in 1..Len(ps) : qs[q].title = ps[q].title
  BY <1>2, <1>4, <1>5
<1>8. \A q \in 1..Len(ps) : q # p => qs[q].visible = ps[q].visible
  BY <1>5
<1>9. SameLinks(qs, ps)
  BY <1>2, <1>4, <1>5 DEF SameLinks
<1>10. PutVisible(ps, p, b) = qs
  BY <1>3 DEF qs
<1> QED BY <1>4, <1>6, <1>7, <1>8, <1>9, <1>10

PutShown(ps, p) == [ps EXCEPT ![p].visible = TRUE]
PutHidden(ps, p) == [ps EXCEPT ![p].visible = FALSE]

LEMMA ShownWritten ==
  ASSUME NEW k, NEW ps \in Seq(Page(k)), NEW p \in 1..Len(ps)
  PROVE  LET qs == PutShown(ps, p) IN
         /\ qs \in Seq(Page(k)) /\ SameLinks(qs, ps) /\ qs[p].visible
         /\ \A q \in 1..Len(ps) : qs[q].title = ps[q].title /\ (q # p => qs[q].visible = ps[q].visible)
<1>1. PICK b \in BOOLEAN : b = TRUE
  OBVIOUS
<1>2. PutShown(ps, p) = PutVisible(ps, p, b)
  BY <1>1, Zenon DEF PutShown, PutVisible
<1> DEFINE qs == PutVisible(ps, p, b)
<1>3. /\ qs \in Seq(Page(k)) /\ SameLinks(qs, ps) /\ qs[p].visible = b
      /\ \A q \in 1..Len(ps) : qs[q].title = ps[q].title /\ (q # p => qs[q].visible = ps[q].visible)
  BY VisibleWritten
<1>4. PutShown(ps, p) = qs
  BY <1>2 DEF qs
<1> HIDE DEF qs
<1> QED BY <1>1, <1>3, <1>4

LEMMA HiddenWritten ==
  ASSUME NEW k, NEW ps \in Seq(Page(k)), NEW p \in 1..Len(ps)
  PROVE  LET qs == PutHidden(ps, p) IN
         /\ qs \in Seq(Page(k)) /\ SameLinks(qs, ps) /\ ~qs[p].visible
         /\ \A q \in 1..Len(ps) : qs[q].title = ps[q].title /\ (q # p => qs[q].visible = ps[q].visible)
<1>1. PICK b \in BOOLEAN : b = FALSE
  OBVIOUS
<1>2. PutHidden(ps, p) = PutVisible(ps, p, b)
  BY <1>1, Zenon DEF PutHidden, PutVisible
<1> DEFINE qs == PutVisible(ps, p, b)
<1>3. /\ qs \in Seq(Page(k)) /\ SameLinks(qs, ps) /\ qs[p].visible = b
      /\ \A q \in 1..Len(ps) : qs[q].title = ps[q].title /\ (q # p => qs[q].visible = ps[q].visible)
  BY VisibleWritten
<1>4. PutHidden(ps, p) = qs
  BY <1>2 DEF qs
<1> HIDE DEF qs
<1> QED BY <1>1, <1>3, <1>4

\* A tab at the place of a page that was hidden.
LEMMA ShownInOrder ==
  ASSUME NEW k, NEW ps \in Seq(Page(k)), NEW ts \in Seq(Tab(k)), Enumerates(ts, ps), NEW p \in 1..Len(ps),
         ~ps[p].visible, NEW x \in Tab(k), x.page = p, NEW a, IsPlace(ts, p, a)
  PROVE  Enumerates(InsertTab(ts, a, x), PutShown(ps, p))
<1> DEFINE us == InsertTab(ts, a, x)
           qs == PutShown(ps, p)
           n == Len(ts)
<1>1. a \in 1..(n + 1) /\ a \in Nat /\ n \in Nat /\ Len(ps) \in Nat /\ p \in Nat
  BY DEF IsPlace
<1>2. Len(qs) = Len(ps) /\ qs[p].visible
  BY ShownWritten DEF SameLinks
<1>3. \A q \in 1..Len(ps) : q # p => qs[q].visible = ps[q].visible
  BY ShownWritten
<1>4. Len(us) = n + 1 /\ us[a] = x
  BY <1>1, TabInserted
<1>5. \A u \in 1..n : (u < a => us[u] = ts[u]) /\ (u >= a => us[u + 1] = ts[u])
  BY <1>1, TabInserted
<1> HIDE DEF us, qs
<1>6. \A u \in 1..n : /\ ts[u].page \in 1..Len(ps) /\ ts[u].page \in Nat /\ ps[ts[u].page].visible /\ ts[u].page # p
                      /\ (u < a => ts[u].page < p) /\ (u >= a => ts[u].page > p)
  <2> SUFFICES ASSUME NEW u \in 1..n
               PROVE  /\ ts[u].page \in 1..Len(ps) /\ ts[u].page \in Nat /\ ps[ts[u].page].visible /\ ts[u].page # p
                      /\ (u < a => ts[u].page < p) /\ (u >= a => ts[u].page > p)
    OBVIOUS
  <2>1. ts[u].page \in 1..Len(ps) /\ ts[u].page \in Nat /\ ps[ts[u].page].visible
    BY DEF Enumerates
  <2>2. (u < a => ts[u].page < p) /\ (u >= a => ts[u].page >= p)
    BY DEF IsPlace
  <2> QED BY <1>1, <2>1, <2>2
<1> HIDE DEF n

\* Each tab is the new one, one before it or one after it.
<1>7. ASSUME NEW t \in 1..(n + 1)
      PROVE  \/ t = a
             \/ t < a /\ t \in 1..n /\ us[t] = ts[t]
             \/ t > a /\ t - 1 \in 1..n /\ t - 1 >= a /\ us[t] = ts[t - 1]
  <2>1. CASE t < a
    <3>1. t \in 1..n
      BY <1>1, <2>1
    <3> QED BY <1>5, <2>1, <3>1
  <2>2. CASE t > a
    <3>1. t - 1 \in 1..n /\ t - 1 >= a /\ (t - 1) + 1 = t
      BY <1>1, <2>2
    <3>2. us[(t - 1) + 1] = ts[t - 1]
      BY <1>5, <3>1
    <3> QED BY <2>2, <3>1, <3>2
  <2> QED BY <1>1, <2>1, <2>2
<1>8. \A t \in 1..(n + 1) : us[t].page \in 1..Len(qs) /\ us[t].page \in Nat /\ qs[us[t].page].visible
  BY <1>1, <1>2, <1>3, <1>4, <1>6, <1>7
<1>9. ASSUME NEW t \in 1..(n + 1), NEW u \in 1..(n + 1), t < u PROVE us[t].page < us[u].page
  <2>1. \A v, w \in 1..n : v < w => ts[v].page < ts[w].page
    BY DEF Enumerates, n
  <2>2. CASE t = a
    <3>1. u > a /\ u - 1 \in 1..n /\ u - 1 >= a /\ us[u] = ts[u - 1]
      BY <1>1, <1>7, <1>9, <2>2
    <3>2. ts[u - 1].page > p
      BY <1>6, <3>1
    <3> QED BY <1>1, <1>4, <1>6, <2>2, <3>1, <3>2
  <2>3. CASE t < a
    <3>1. t \in 1..n /\ us[t] = ts[t] /\ ts[t].page < p /\ ts[t].page \in Nat
      BY <1>1, <1>6, <1>7, <2>3
    <3>2. CASE u = a
      BY <1>4, <3>1, <3>2
    <3>3. CASE u < a
      <4>1. u \in 1..n /\ us[u] = ts[u]
        BY <1>1, <1>7, <3>3
      <4> QED BY <1>9, <2>1, <3>1, <4>1
    <3>4. CASE u > a
      <4>1. u - 1 \in 1..n /\ u - 1 >= a /\ us[u] = ts[u - 1]
        BY <1>1, <1>7, <3>4
      <4>2. ts[u - 1].page > p /\ ts[u - 1].page \in Nat
        BY <1>6, <4>1
      <4> QED BY <1>1, <3>1, <4>1, <4>2
    <3> QED BY <1>1, <3>2, <3>3, <3>4
  <2>4. CASE t > a
    <3>1. t - 1 \in 1..n /\ us[t] = ts[t - 1]
      BY <1>1, <1>7, <2>4
    <3>2. u - 1 \in 1..n /\ us[u] = ts[u - 1] /\ t - 1 < u - 1
      BY <1>1, <1>7, <1>9, <2>4
    <3> QED BY <2>1, <3>1, <3>2
  <2> QED BY <1>1, <2>2, <2>3, <2>4
<1>10. ASSUME NEW q \in 1..Len(qs), qs[q].visible PROVE \E t \in 1..(n + 1) : us[t].page = q
  <2>1. CASE q = p
    BY <1>1, <1>4, <2>1
  <2>2. CASE q # p
    <3>1. PICK u \in 1..n : ts[u].page = q
      <4>1. q \in 1..Len(ps) /\ ps[q].visible
        BY <1>2, <1>3, <1>10, <2>2
      <4> QED BY <4>1 DEF Enumerates, n
    <3>2. CASE u < a
      <4>1. u \in 1..(n + 1) /\ us[u] = ts[u]
        BY <1>1, <1>5, <3>2
      <4> QED BY <3>1, <4>1
    <3>3. CASE u >= a
      <4>1. u + 1 \in 1..(n + 1) /\ us[u + 1] = ts[u]
        BY <1>1, <1>5, <3>3
      <4> QED BY <3>1, <4>1
    <3> QED BY <1>1, <3>2, <3>3
  <2> QED BY <2>1, <2>2
<1>11. Enumerates(us, qs)
  BY <1>4, <1>8, <1>9, <1>10 DEF Enumerates
<1> QED BY <1>11 DEF us, qs

\* The tab of a page that is hidden goes.
LEMMA HiddenInOrder ==
  ASSUME NEW k, NEW ps \in Seq(Page(k)), NEW ts \in Seq(Tab(k)), Enumerates(ts, ps), NEW a \in 1..Len(ts)
  PROVE  Enumerates(RemoveTab(ts, a), PutHidden(ps, ts[a].page))
<1> DEFINE p == ts[a].page
           us == RemoveTab(ts, a)
           qs == PutHidden(ps, p)
           n == Len(ts)
<1>1. a \in Nat /\ n \in Nat /\ a <= n /\ a >= 1 /\ p \in 1..Len(ps)
  BY DEF Enumerates
<1>2. Len(qs) = Len(ps) /\ ~qs[p].visible
  BY <1>1, HiddenWritten DEF SameLinks
<1>3. \A q \in 1..Len(ps) : q # p => qs[q].visible = ps[q].visible
  BY <1>1, HiddenWritten
<1>4. Len(us) = n - 1
  BY TabRemoved
<1>5. \A u \in 1..(n - 1) : (u < a => us[u] = ts[u]) /\ (u >= a => us[u] = ts[u + 1])
  BY TabRemoved
<1> HIDE DEF us, qs
<1>6. \A u \in 1..n : ts[u].page \in 1..Len(ps) /\ ts[u].page \in Nat /\ ps[ts[u].page].visible
  BY DEF Enumerates
<1>7. \A v, w \in 1..n : v < w => ts[v].page < ts[w].page
  BY DEF Enumerates
<1>8. ASSUME NEW u \in 1..n, u # a PROVE ts[u].page # p
  <2>1. ts[u].page < ts[a].page \/ ts[a].page < ts[u].page
    BY <1>1, <1>7, <1>8
  <2> QED BY <1>6, <2>1
<1>9. p = ts[a].page
  OBVIOUS
<1> HIDE DEF n, p
<1>10. ASSUME NEW u \in 1..(n - 1)
       PROVE  \E v \in 1..n : v # a /\ us[u] = ts[v] /\ v = IF u < a THEN u ELSE u + 1
  <2>1. CASE u < a
    BY <1>1, <1>5, <2>1
  <2>2. CASE u >= a
    <3>1. u + 1 \in 1..n /\ u + 1 # a /\ us[u] = ts[u + 1] /\ ~(u < a)
      BY <1>1, <1>5, <2>2
    <3> QED BY <3>1
  <2> QED BY <1>1, <2>1, <2>2
<1>11. ASSUME NEW u \in 1..(n - 1) PROVE us[u].page \in 1..Len(qs) /\ qs[us[u].page].visible
  <2>1. PICK v \in 1..n : v # a /\ us[u] = ts[v]
    BY <1>10
  <2> QED BY <1>2, <1>3, <1>6, <1>8, <2>1
<1>12. ASSUME NEW t \in 1..(n - 1), NEW u \in 1..(n - 1), t < u PROVE us[t].page < us[u].page
  <2>1. PICK v \in 1..n : us[t] = ts[v] /\ v = IF t < a THEN t ELSE t + 1
    BY <1>10
  <2>2. PICK w \in 1..n : us[u] = ts[w] /\ w = IF u < a THEN u ELSE u + 1
    BY <1>10
  <2>3. v < w
    BY <1>1, <1>12, <2>1, <2>2
  <2> QED BY <1>7, <2>1, <2>2, <2>3
<1>13. ASSUME NEW q \in 1..Len(qs), qs[q].visible PROVE \E t \in 1..(n - 1) : us[t].page = q
  <2>1. q \in 1..Len(ps) /\ ps[q].visible /\ q # p
    BY <1>2, <1>3, <1>13
  <2>2. PICK u \in 1..n : ts[u].page = q
    BY <2>1 DEF Enumerates, n
  <2>3. u # a
    BY <1>9, <2>1, <2>2
  <2>4. CASE u < a
    <3>1. u \in 1..(n - 1) /\ us[u] = ts[u]
      BY <1>1, <1>5, <2>4
    <3> QED BY <2>2, <3>1
  <2>5. CASE u > a
    <3>1. u - 1 \in 1..(n - 1) /\ u - 1 >= a /\ (u - 1) + 1 = u
      BY <1>1, <2>5
    <3>2. us[u - 1] = ts[(u - 1) + 1]
      BY <1>5, <3>1
    <3> QED BY <2>2, <3>1, <3>2
  <2> QED BY <1>1, <2>3, <2>4, <2>5
<1>14. Enumerates(us, qs)
  BY <1>4, <1>11, <1>12, <1>13 DEF Enumerates
<1> QED BY <1>14 DEF us, qs, p

\* No tab is made but the new one.
OnlyNew(us, ts, x) == \A t \in 1..Len(us) : us[t] = x \/ \E u \in 1..Len(ts) : us[t] = ts[u]

LEMMA InsertedIsNew ==
  ASSUME NEW T, NEW ts \in Seq(T), NEW a \in 1..(Len(ts) + 1), NEW x \in T
  PROVE  OnlyNew(InsertTab(ts, a, x), ts, x)
<1> DEFINE us == InsertTab(ts, a, x)
           n == Len(ts)
<1>1. Len(us) = n + 1 /\ us[a] = x /\ n \in Nat /\ a \in Nat
  BY TabInserted
<1>2. \A u \in 1..n : (u < a => us[u] = ts[u]) /\ (u >= a => us[u + 1] = ts[u])
  BY TabInserted
<1>3. a \in 1..(n + 1)
  OBVIOUS
<1> HIDE DEF us, n
<1>4. ASSUME NEW t \in 1..(n + 1) PROVE us[t] = x \/ \E u \in 1..n : us[t] = ts[u]
  <2>1. CASE t < a
    BY <1>1, <1>2, <1>3, <2>1
  <2>2. CASE t = a
    BY <1>1, <2>2
  <2>3. CASE t > a
    <3>1. t - 1 \in 1..n /\ t - 1 >= a /\ (t - 1) + 1 = t
      BY <1>1, <1>3, <2>3
    <3>2. us[(t - 1) + 1] = ts[t - 1]
      BY <1>2, <3>1
    <3> QED BY <3>1, <3>2
  <2> QED BY <1>1, <2>1, <2>2, <2>3
<1>5. OnlyNew(us, ts, x)
  BY <1>1, <1>4 DEF OnlyNew, n
<1> QED BY <1>5 DEF us

LEMMA RemovedIsOld ==
  ASSUME NEW T, NEW ts \in Seq(T), NEW a \in 1..Len(ts)
  PROVE  \A t \in 1..Len(RemoveTab(ts, a)) : \E u \in 1..Len(ts) : RemoveTab(ts, a)[t] = ts[u]
<1> DEFINE us == RemoveTab(ts, a)
           n == Len(ts)
<1>1. Len(us) = n - 1 /\ n \in Nat /\ a \in 1..n
  BY TabRemoved
<1>2. \A u \in 1..(n - 1) : (u < a => us[u] = ts[u]) /\ (u >= a => us[u] = ts[u + 1])
  BY TabRemoved
<1> HIDE DEF us, n
<1>3. ASSUME NEW t \in 1..(n - 1) PROVE \E u \in 1..n : us[t] = ts[u]
  <2>1. t \in 1..n /\ t + 1 \in 1..n
    BY <1>1
  <2> QED BY <1>1, <1>2, <2>1
<1>4. \A t \in 1..Len(us) : \E u \in 1..n : us[t] = ts[u]
  BY <1>1, <1>3
<1> QED BY <1>4 DEF us, n

\* Names and buttons of the tabs fit when those of the new one do.
LEMMA NewTabFits ==
  ASSUME NEW k, NEW ts, NEW us, NEW x, OnlyNew(us, ts, x), NEW ps, NEW qs, NEW hd, NEW st, NEW rf,
         \A t \in 1..Len(ts) : ts[t].page \in 1..Len(ps),
         \A q \in 1..Len(ps) : qs[q].title = ps[q].title
  PROVE  /\ NamesFit(k, ts, ps, hd, st) /\ (\A t \in 1..Len(us) : us[t] = x => x.text = qs[x.page].title)
              => NamesFit(k, us, qs, hd, st)
         /\ /\ ButtonsFit(k, ts, rf)
            /\ \A t \in 1..Len(us) : us[t] = x =>
                 /\ x.right \in k.headers => rf[x.right] = x.page
                 /\ x.right = "close" /\ x.shown =>
                      \E h \in k.headers : k.kind[h] = "eventbox" /\ rf[h] = x.page
            => ButtonsFit(k, us, rf)
<1>1. ASSUME NamesFit(k, ts, ps, hd, st), \A t \in 1..Len(us) : us[t] = x => x.text = qs[x.page].title
      PROVE  NamesFit(k, us, qs, hd, st)
  <2> SUFFICES ASSUME NEW t \in 1..Len(us)
               PROVE  \/ us[t].text = qs[us[t].page].title
                      \/ us[t].text = Book(k)!Blank /\ (us[t].page \in hd \/ st)
    BY DEF NamesFit
  <2>1. CASE us[t] = x
    BY <1>1, <2>1
  <2>2. CASE \E u \in 1..Len(ts) : us[t] = ts[u]
    <3>1. PICK u \in 1..Len(ts) : us[t] = ts[u]
      BY <2>2
    <3> QED BY <1>1, <3>1 DEF NamesFit
  <2> QED BY <2>1, <2>2 DEF OnlyNew
<1>2. ASSUME ButtonsFit(k, ts, rf),
             \A t \in 1..Len(us) : us[t] = x =>
               /\ x.right \in k.headers => rf[x.right] = x.page
               /\ x.right = "close" /\ x.shown =>
                    \E h \in k.headers : k.kind[h] = "eventbox" /\ rf[h] = x.page
      PROVE  ButtonsFit(k, us, rf)
  <2> SUFFICES ASSUME NEW t \in 1..Len(us)
               PROVE  /\ us[t].right \in k.headers => rf[us[t].right] = us[t].page
                      /\ us[t].right = "close" /\ us[t].shown =>
                           \E h \in k.headers : k.kind[h] = "eventbox" /\ rf[h] = us[t].page
    BY DEF ButtonsFit
  <2>1. CASE us[t] = x
    BY <1>2, <2>1
  <2>2. CASE \E u \in 1..Len(ts) : us[t] = ts[u]
    <3>1. PICK u \in 1..Len(ts) : us[t] = ts[u]
      BY <2>2
    <3> QED BY <1>2, <3>1 DEF ButtonsFit
  <2> QED BY <2>1, <2>2 DEF OnlyNew
<1> QED BY <1>1, <1>2

\* So do those of the tabs that stay.
LEMMA OldTabsFit ==
  ASSUME NEW k, NEW ts, NEW us, \A t \in 1..Len(us) : \E u \in 1..Len(ts) : us[t] = ts[u],
         NEW ps, NEW qs, NEW hd, NEW st, NEW rf,
         \A t \in 1..Len(ts) : ts[t].page \in 1..Len(ps),
         \A q \in 1..Len(ps) : qs[q].title = ps[q].title
  PROVE  /\ NamesFit(k, ts, ps, hd, st) => NamesFit(k, us, qs, hd, st)
         /\ ButtonsFit(k, ts, rf) => ButtonsFit(k, us, rf)
<1>1. ASSUME NamesFit(k, ts, ps, hd, st), NEW t \in 1..Len(us)
      PROVE  us[t].text = qs[us[t].page].title \/ (us[t].text = Book(k)!Blank /\ (us[t].page \in hd \/ st))
  <2>1. PICK u \in 1..Len(ts) : us[t] = ts[u]
    OBVIOUS
  <2> QED BY <1>1, <2>1 DEF NamesFit
<1>2. ASSUME ButtonsFit(k, ts, rf), NEW t \in 1..Len(us)
      PROVE  /\ us[t].right \in k.headers => rf[us[t].right] = us[t].page
             /\ us[t].right = "close" /\ us[t].shown =>
                  \E h \in k.headers : k.kind[h] = "eventbox" /\ rf[h] = us[t].page
  <2>1. PICK u \in 1..Len(ts) : us[t] = ts[u]
    OBVIOUS
  <2> QED BY <1>2, <2>1 DEF ButtonsFit
<1>3. ASSUME NamesFit(k, ts, ps, hd, st) PROVE NamesFit(k, us, qs, hd, st)
  BY <1>1, <1>3 DEF NamesFit
<1>4. ASSUME ButtonsFit(k, ts, rf) PROVE ButtonsFit(k, us, rf)
  BY <1>2, <1>4 DEF ButtonsFit
<1> QED BY <1>3, <1>4

\* The tab that a page gets.
LEMMA NewTabIs ==
  ASSUME NEW k \in Notebooks, BookInv(k), NEW p \in 1..Len(pages)
  PROVE  LET x == Book(k)!NewTab(p) IN
         /\ x \in Tab(k) /\ x.page = p /\ x.text = pages[p].title
         /\ x.right \in k.headers => ref[x.right] = p
         /\ x.right = "close" /\ x.shown => \E h \in k.headers : k.kind[h] = "eventbox" /\ ref[h] = p
<1> DEFINE nt == pages[p]
           r == IF nt.button # "none" THEN IF state[nt.button] = "disposed" THEN "none" ELSE nt.button
                ELSE IF closable THEN "close" ELSE "none"
           s == IF nt.button # "none" THEN state[nt.button] # "disposed" ELSE closable /\ nt.close # "none"
           x == [page |-> p, text |-> nt.title, right |-> r, shown |-> s]
<1>1. pages \in Seq(Page(k)) /\ closable \in BOOLEAN
  BY DEF BookInv, BookTypes
<1>2. nt \in Page(k)
  BY <1>1, ElementOfSeq
<1>3. nt.title \in Book(k)!Texts /\ nt.button \in k.headers \cup {"none"} /\ nt.close \in k.headers \cup {"none"}
  BY <1>2, PageParts
<1>4. /\ nt.button # "none" => ref[nt.button] = p
      /\ nt.close # "none" => k.kind[nt.close] = "eventbox" /\ ref[nt.close] = p
  BY DEF BookInv, Linked
<1>5. Book(k)!NewTab(p) = x
  BY DEF Book!NewTab, Book!None
<1>6. "none" \notin k.headers /\ "close" \notin k.headers
  BY BookConstants
<1> HIDE DEF nt
<1>7. r \in k.headers \cup {"none", "close"} /\ (r \in k.headers => ref[r] = p)
  BY <1>3, <1>4, <1>6
<1>8. r = "close" /\ s => nt.close \in k.headers /\ k.kind[nt.close] = "eventbox" /\ ref[nt.close] = p
  BY <1>3, <1>4, <1>6
<1>9. s \in BOOLEAN
  BY <1>1
<1>10. p \in Nat
  OBVIOUS
<1> HIDE DEF r, s
<1>11. x.page = p /\ x.text = nt.title /\ x.right = r /\ x.shown = s
  OBVIOUS
<1>12. x \in Tab(k)
  BY <1>3, <1>7, <1>9, <1>10 DEF Tab
<1> HIDE DEF x
<1>13. x.right = "close" /\ x.shown => \E h \in k.headers : k.kind[h] = "eventbox" /\ ref[h] = p
  BY <1>8, <1>11
<1> QED BY <1>5, <1>7, <1>11, <1>12, <1>13 DEF nt

\* P_VISIBLE of a page.
LEMMA ShowBook ==
  ASSUME NEW k \in Notebooks, BookInv(k), crashed = "none", NEW p \in DOMAIN pages, Book(k)!Show(p)
  PROVE  BookInv(k)'
<1> DEFINE a == Book(k)!AdjustIndex(pages, p)
           at == Book(k)!Place(p)
           x == Book(k)!NewTab(p)
           n == Len(tabs)
           qs == PutShown(pages, p)
           us == InsertTab(tabs, at, x)
<1>1. /\ tabs \in Seq(Tab(k)) /\ pages \in Seq(Page(k)) /\ Enumerates(tabs, pages) /\ Linked(k, pages, ref)
      /\ NamesFit(k, tabs, pages, headed, stray) /\ (misplaced \/ ButtonsFit(k, tabs, ref)) /\ misled = FALSE
      /\ current \in 0..n /\ n \in Nat /\ \A t \in 1..n : tabs[t].page \in 1..Len(pages)
  BY DEF BookInv, BookTypes
<1>2. p \in 1..Len(pages) /\ ~pages[p].visible /\ notebook
  BY <1>1 DEF Book!Show, Book!Reachable
<1>3. UNCHANGED <<notebook, live, closable, ref, state, caption, headed, stray, misplaced>>
  BY DEF Book!Show, Book!history
<1>4. pages' = qs
  BY DEF Book!Show, PutShown
<1>5. /\ qs \in Seq(Page(k)) /\ SameLinks(qs, pages) /\ qs[p].visible
      /\ \A q \in 1..Len(pages) : qs[q].title = pages[q].title
  BY <1>1, <1>2, ShownWritten
<1>6. Len(qs) = Len(pages) /\ Linked(k, qs, ref)
  BY <1>1, <1>5, LinkedKept DEF SameLinks
<1>7. \/ crashed' = "page" /\ UNCHANGED <<tabs, current, misled>> /\ pages[p].image # "none" /\ state[pages[p].image] # "ready"
      \/ /\ UNCHANGED crashed /\ tabs' = us
         /\ current' = IF tabs = <<>> THEN 1 ELSE IF at <= current THEN current + 1 ELSE current
         /\ IF tabs = <<>> THEN Book(k)!CurrentChanged(pages', tabs', 1) ELSE UNCHANGED misled
  <2>1. \/ pages[p].image # "none" /\ state[pages[p].image] # "ready" /\ crashed' = "page" /\ UNCHANGED <<tabs, current, misled>>
        \/ /\ UNCHANGED crashed
           /\ tabs' = SubSeq(tabs, 1, at - 1) \o <<x>> \o SubSeq(tabs, at, n)
           /\ current' = IF tabs = <<>> THEN 1 ELSE IF at <= current THEN current + 1 ELSE current
           /\ IF tabs = <<>> THEN Book(k)!CurrentChanged(pages', tabs', 1) ELSE UNCHANGED misled
    BY <1>2, Zenon DEF Book!Show, Book!None
  <2>2. us = SubSeq(tabs, 1, at - 1) \o <<x>> \o SubSeq(tabs, at, n)
    BY Zenon DEF InsertTab
  <2> HIDE DEF us, at, x, n
  <2> QED BY <2>1, <2>2, Zenon
<1>8. at = a /\ a \in 1..(n + 1) /\ IsPlace(tabs, p, a)
  <2>1. IsPlace(tabs, p, a)
    BY <1>1, <1>2, AdjustIndexIsPlace
  <2>2. at = IF a > n THEN n + 1 ELSE a
    BY Zenon DEF Book!Place
  <2> HIDE DEF a, at
  <2> QED BY <1>1, <2>1, <2>2 DEF IsPlace
<1>9. x \in Tab(k) /\ x.page = p /\ x.text = pages[p].title
  BY <1>2, NewTabIs
<1>10. /\ x.right \in k.headers => ref[x.right] = x.page
       /\ x.right = "close" /\ x.shown => \E h \in k.headers : k.kind[h] = "eventbox" /\ ref[h] = x.page
  BY <1>2, <1>9, NewTabIs
<1> HIDE DEF a, at, x
<1>11. Enumerates(us, qs)
  BY <1>1, <1>2, <1>8, <1>9, ShownInOrder
<1>12. us \in Seq(Tab(k)) /\ Len(us) = n + 1 /\ OnlyNew(us, tabs, x)
  BY <1>1, <1>8, <1>9, TabInserted, InsertedIsNew
<1> HIDE DEF us, qs
<1>13. CASE /\ crashed' = "page" /\ UNCHANGED <<tabs, current, misled>> /\ pages[p].image # "none"
            /\ state[pages[p].image] # "ready"
  <2>1. BookTypes(k)'
    BY <1>3, <1>4, <1>5, <1>6, <1>13 DEF BookInv, BookTypes
  <2>2. NamesFit(k, tabs, qs, headed, stray)
    BY <1>1, <1>5 DEF NamesFit
  <2>3. Book(k)!CrashIsExplained'
    <3>1. k.kind[pages[p].image] = "image" /\ ref[pages[p].image] = p
      BY <1>1, <1>2, <1>13 DEF Linked
    <3>2. pages[p] \in Page(k)
      BY <1>1, <1>2, ElementOfSeq
    <3>3. pages[p].image \in k.headers
      BY <1>13, <3>2, PageParts
    <3>4. p # 0
      BY <1>2
    <3> QED BY <1>3, <1>13, <3>1, <3>3, <3>4 DEF Book!CrashIsExplained
  <2>4. crashed' # "none" /\ Linked(k, pages', ref') /\ (misplaced' \/ ButtonsFit(k, tabs', ref')) /\ misled' = FALSE
    BY <1>1, <1>3, <1>4, <1>6, <1>13
  <2>5. NamesFit(k, tabs', pages', headed', stray')
    BY <1>3, <1>4, <1>13, <2>2
  <2> QED BY <2>1, <2>3, <2>4, <2>5 DEF BookInv
<1>14. CASE /\ UNCHANGED crashed /\ tabs' = us
            /\ current' = IF tabs = <<>> THEN 1 ELSE IF at <= current THEN current + 1 ELSE current
            /\ IF tabs = <<>> THEN Book(k)!CurrentChanged(pages', tabs', 1) ELSE UNCHANGED misled
  <2>1. NamesFit(k, us, qs, headed, stray) /\ (misplaced \/ ButtonsFit(k, us, ref))
    <3>1. x.text = qs[x.page].title
      BY <1>2, <1>5, <1>9
    <3>2. NamesFit(k, us, qs, headed, stray)
      BY <1>1, <1>5, <1>12, <3>1, NewTabFits
    <3>3. ASSUME ButtonsFit(k, tabs, ref) PROVE ButtonsFit(k, us, ref)
      BY <1>1, <1>5, <1>10, <1>12, <3>3, NewTabFits
    <3> QED BY <1>1, <3>2, <3>3
  <2>2. misled' = FALSE
    <3>1. CASE UNCHANGED misled
      BY <1>1, <3>1
    <3>2. CASE Book(k)!CurrentChanged(pages', tabs', 1)
      <4>1. Book(k)!CurrentChanged(qs, us, 1)
        BY <1>4, <1>14, <3>2
      <4> QED BY <1>1, <1>5, <1>11, <1>12, <4>1, ToldRightly
    <3> QED BY <1>14, <3>1, <3>2
  <2>3. BookTypes(k)'
    <3>1. current' \in 0..(n + 1)
      BY <1>1, <1>14
    <3>2. \A t \in 1..Len(us) : us[t].page \in 1..Len(qs)
      BY <1>11 DEF Enumerates
    <3> HIDE DEF n
    <3> QED BY <1>3, <1>4, <1>5, <1>6, <1>12, <1>14, <3>1, <3>2 DEF BookInv, BookTypes
  <2>4. Book(k)!CrashIsExplained'
    BY <1>14 DEF Book!CrashIsExplained
  <2> QED BY <1>3, <1>4, <1>6, <1>11, <1>14, <2>1, <2>2, <2>3, <2>4 DEF BookInv
<1> QED BY <1>7, <1>13, <1>14

\* P_VISIBLE of a page again.
LEMMA HideBook ==
  ASSUME NEW k \in Notebooks, BookInv(k), crashed = "none", NEW p \in DOMAIN pages, Book(k)!Hide(p)
  PROVE  BookInv(k)'
<1> DEFINE n == Len(tabs)
           qs == PutHidden(pages, p)
<1>1. /\ tabs \in Seq(Tab(k)) /\ pages \in Seq(Page(k)) /\ Enumerates(tabs, pages) /\ Linked(k, pages, ref)
      /\ NamesFit(k, tabs, pages, headed, stray) /\ (misplaced \/ ButtonsFit(k, tabs, ref)) /\ misled = FALSE
      /\ current \in 0..n /\ n \in Nat /\ DOMAIN tabs = 1..n
  BY LenProperties DEF BookInv, BookTypes
<1>2. p \in 1..Len(pages)
  BY <1>1
<1>3. UNCHANGED <<notebook, live, closable, ref, state, caption, headed, stray, misplaced, crashed>>
  BY DEF Book!Hide, Book!history
<1>4. PICK t \in 1..n :
        /\ tabs[t].page = p /\ Book(k)!Removed(t)
        /\ IF t <= current THEN Book(k)!CurrentChanged(pages', tabs', current') ELSE UNCHANGED misled
  BY <1>1, Zenon DEF Book!Hide
<1> DEFINE us == RemoveTab(tabs, t)
<1>5. pages' = qs
  BY DEF Book!Hide, PutHidden
<1>6. tabs' = us /\ current' = IF t < current THEN current - 1 ELSE IF t = current /\ t = n THEN t - 1 ELSE current
  BY <1>4, Zenon DEF Book!Removed, RemoveTab
<1>7. qs \in Seq(Page(k)) /\ SameLinks(qs, pages) /\ \A q \in 1..Len(pages) : qs[q].title = pages[q].title
  BY <1>1, <1>2, HiddenWritten
<1>8. Len(qs) = Len(pages) /\ Linked(k, qs, ref)
  BY <1>1, <1>7, LinkedKept DEF SameLinks
<1>9. Enumerates(us, qs)
  BY <1>1, <1>4, HiddenInOrder
<1>10. us \in Seq(Tab(k)) /\ Len(us) = n - 1
  BY <1>1, <1>4, TabRemoved
<1>11. \A v \in 1..Len(us) : \E u \in 1..Len(tabs) : us[v] = tabs[u]
  BY <1>1, <1>4, RemovedIsOld
<1> HIDE DEF us, qs, n
<1>12. NamesFit(k, us, qs, headed, stray) /\ (misplaced \/ ButtonsFit(k, us, ref))
  <2>1. \A v \in 1..Len(tabs) : tabs[v].page \in 1..Len(pages)
    BY <1>1 DEF Enumerates
  <2>2. NamesFit(k, us, qs, headed, stray)
    BY <1>1, <1>7, <1>11, <2>1, OldTabsFit
  <2>3. ASSUME ButtonsFit(k, tabs, ref) PROVE ButtonsFit(k, us, ref)
    BY <1>1, <1>7, <1>11, <2>1, <2>3, OldTabsFit
  <2> QED BY <1>1, <2>2, <2>3
<1>13. current' \in 0..(n - 1) /\ current' \in Nat
  BY <1>1, <1>4, <1>6
<1>14. misled' = FALSE
  <2>1. CASE UNCHANGED misled
    BY <1>1, <2>1
  <2>2. CASE Book(k)!CurrentChanged(pages', tabs', current')
    <3>1. PICK c \in Nat : c = current'
      BY <1>13
    <3>2. Book(k)!CurrentChanged(qs, us, c)
      BY <1>5, <1>6, <2>2, <3>1
    <3> QED BY <1>1, <1>7, <1>9, <1>10, <3>2, ToldRightly
  <2> QED BY <1>4, <2>1, <2>2
<1>15. BookTypes(k)'
  <2>1. \A v \in 1..Len(us) : us[v].page \in 1..Len(qs)
    BY <1>9 DEF Enumerates
  <2> QED BY <1>3, <1>5, <1>6, <1>7, <1>8, <1>10, <1>13, <2>1 DEF BookInv, BookTypes
<1>16. Book(k)!CrashIsExplained'
  BY <1>3 DEF Book!CrashIsExplained
<1> QED BY <1>3, <1>5, <1>6, <1>8, <1>9, <1>12, <1>14, <1>15, <1>16 DEF BookInv

-----------------------------------------------------------------------------
(* Notebook: headers *)

\* A header is given to a page.
PutRef(rf, h, p) == [rf EXCEPT ![h] = p]

LEMMA RefWritten ==
  ASSUME NEW k, NEW rf \in [k.headers -> Nat], NEW h \in k.headers, NEW p \in Nat
  PROVE  LET sf == PutRef(rf, h, p) IN
         sf \in [k.headers -> Nat] /\ sf[h] = p /\ \A g \in k.headers : g # h => sf[g] = rf[g]
BY DEF PutRef

\* What fits before fits afterwards when the header had no page, or this one.
LEMMA RefGrows ==
  ASSUME NEW k, NEW rf \in [k.headers -> Nat], NEW h \in k.headers, NEW p \in Nat, rf[h] \in {0, p}, "none" \notin k.headers
  PROVE  LET sf == PutRef(rf, h, p) IN
         /\ \A ps \in Seq(Page(k)) : Linked(k, ps, rf) => Linked(k, ps, sf)
         /\ \A ts \in Seq(Tab(k)) : (\A t \in 1..Len(ts) : ts[t].page # 0) /\ ButtonsFit(k, ts, rf) => ButtonsFit(k, ts, sf)
<1> DEFINE sf == PutRef(rf, h, p)
<1>1. sf[h] = p /\ \A g \in k.headers : g # h => sf[g] = rf[g]
  BY RefWritten
<1> HIDE DEF sf
<1>2. ASSUME NEW g \in k.headers, rf[g] # 0 PROVE sf[g] = rf[g]
  BY <1>1, <1>2
<1>3. ASSUME NEW ps \in Seq(Page(k)), Linked(k, ps, rf) PROVE Linked(k, ps, sf)
  <2> SUFFICES ASSUME NEW q \in 1..Len(ps)
               PROVE  /\ ps[q].image # "none" => k.kind[ps[q].image] = "image" /\ sf[ps[q].image] = q
                      /\ ps[q].button # "none" => k.kind[ps[q].button] = "button" /\ sf[ps[q].button] = q
                      /\ ps[q].close # "none" => k.kind[ps[q].close] = "eventbox" /\ sf[ps[q].close] = q
    BY DEF Linked
  <2>1. ps[q] \in Page(k)
    BY ElementOfSeq
  <2>2. /\ ps[q].image \in k.headers \cup {"none"} /\ ps[q].button \in k.headers \cup {"none"}
        /\ ps[q].close \in k.headers \cup {"none"}
    BY <2>1, PageParts
  <2>3. q # 0
    OBVIOUS
  <2> QED BY <1>2, <1>3, <2>2, <2>3 DEF Linked
<1>4. ASSUME NEW ts \in Seq(Tab(k)), \A t \in 1..Len(ts) : ts[t].page # 0, ButtonsFit(k, ts, rf)
      PROVE  ButtonsFit(k, ts, sf)
  BY <1>2, <1>4 DEF ButtonsFit
<1> QED BY <1>3, <1>4 DEF sf

\* A page points at another header.
LEMMA PointerWritten ==
  ASSUME NEW k, NEW ps \in Seq(Page(k)), NEW p \in 1..Len(ps), NEW rf, Linked(k, ps, rf),
         NEW x \in Page(k), x.visible = ps[p].visible, x.title = ps[p].title,
         x.image # "none" => k.kind[x.image] = "image" /\ rf[x.image] = p,
         x.button # "none" => k.kind[x.button] = "button" /\ rf[x.button] = p,
         x.close # "none" => k.kind[x.close] = "eventbox" /\ rf[x.close] = p
  PROVE  LET qs == PutPage(ps, p, x) IN
         /\ qs \in Seq(Page(k)) /\ SameVisible(qs, ps) /\ Linked(k, qs, rf)
         /\ \A q \in 1..Len(ps) : qs[q].title = ps[q].title
<1> DEFINE qs == PutPage(ps, p, x)
<1>1. qs \in Seq(Page(k)) /\ Len(qs) = Len(ps) /\ qs[p] = x
  BY PageWritten
<1>2. \A q \in 1..Len(ps) : q # p => qs[q] = ps[q]
  BY PageWritten
<1> HIDE DEF qs
<1>3. SameVisible(qs, ps)
  BY <1>1, <1>2 DEF SameVisible
<1>4. \A q \in 1..Len(ps) : qs[q].title = ps[q].title
  BY <1>1, <1>2
<1>5. Linked(k, qs, rf)
  BY <1>1, <1>2 DEF Linked
<1> QED BY <1>1, <1>3, <1>4, <1>5 DEF qs

\* A step that gives a header to a page keeps the rest.
LEMMA PlacedBook ==
  ASSUME NEW k \in Notebooks, BookInv(k), crashed = "none", NEW h \in k.headers, NEW p \in 1..Len(pages),
         ref' = PutRef(ref, h, p), headed' = headed \cup {p}, pages' \in Seq(Page(k)), SameVisible(pages', pages),
         Linked(k, pages', ref'), tabs' \in Seq(Tab(k)), SamePages(tabs', tabs),
         NamesFit(k, tabs', pages', headed', stray'), misplaced' \/ ButtonsFit(k, tabs', ref'),
         closable' \in BOOLEAN, stray' \in BOOLEAN, misplaced' \in BOOLEAN,
         UNCHANGED <<notebook, live, current, state, caption, misled, crashed>>
  PROVE  BookInv(k)'
<1>1. /\ Enumerates(tabs, pages) /\ headed \subseteq 1..Len(pages) /\ p \in Nat /\ p <= Len(pages)
      /\ ref \in [k.headers -> Nat] /\ \A g \in k.headers : ref[g] <= Len(pages)
  BY DEF BookInv, BookTypes
<1>2. Len(pages') = Len(pages) /\ Len(tabs') = Len(tabs)
  BY DEF SameVisible, SamePages
<1>3. Enumerates(tabs', pages')
  BY <1>1, EnumeratesKept
<1>4. \A t \in 1..Len(tabs') : tabs'[t].page \in 1..Len(pages')
  BY <1>3 DEF Enumerates
<1>5. ref' \in [k.headers -> Nat] /\ \A g \in k.headers : ref'[g] <= Len(pages)
  <2> DEFINE sf == PutRef(ref, h, p)
  <2>1. sf \in [k.headers -> Nat] /\ sf[h] = p /\ \A g \in k.headers : g # h => sf[g] = ref[g]
    BY <1>1, RefWritten
  <2> HIDE DEF sf
  <2>2. ref' = sf
    BY DEF sf
  <2> QED BY <1>1, <2>1, <2>2
<1>6. headed' \subseteq 1..Len(pages)
  BY <1>1
<1>7. BookTypes(k)'
  BY <1>2, <1>4, <1>5, <1>6 DEF BookInv, BookTypes
<1>8. Book(k)!CrashIsExplained'
  BY DEF Book!CrashIsExplained
<1> QED BY <1>3, <1>7, <1>8 DEF BookInv

\* MarkRecursive for the tabs as the handler left them: its arms, one for each class of header.
LEMMA MarkedBook ==
  ASSUME NEW k \in Notebooks, BookInv(k), crashed = "none", NEW ts \in Seq(Tab(k)), SamePages(ts, tabs),
         NEW h \in k.headers, NEW p \in 1..Len(pages), ref[h] \in {0, p}, Book(k)!MarkRecursive(ts, h, p),
         stray' \in BOOLEAN, misplaced' \in BOOLEAN,
         NamesFit(k, ts, pages, headed \cup {p}, stray'), misplaced' \/ ButtonsFit(k, ts, ref),
         UNCHANGED <<notebook, live, current, state, caption, misled, crashed>>
  PROVE  BookInv(k)'
<1> DEFINE a == Book(k)!AdjustIndex(pages, p)
           hd == headed \cup {p}
           sf == PutRef(ref, h, p)
<1>1. /\ pages \in Seq(Page(k)) /\ Enumerates(tabs, pages) /\ Linked(k, pages, ref) /\ closable \in BOOLEAN
      /\ ref \in [k.headers -> Nat] /\ caption \in Book(k)!Texts
  BY DEF BookInv, BookTypes
<1>2. Enumerates(ts, pages)
  BY <1>1, EnumeratesKept DEF SameVisible
<1>3. p \in Nat /\ \A t \in 1..Len(ts) : ts[t].page \in 1..Len(pages) /\ ts[t].page # 0
  BY <1>2 DEF Enumerates
<1>4. ref' = sf /\ headed' = hd
  BY Zenon DEF Book!MarkRecursive, PutRef
<1>5. k.kind[h] \in {"label", "image", "eventbox", "button"} /\ "none" \notin k.headers /\ "close" \notin k.headers
  BY BookConstants
<1>6. Linked(k, pages, sf) /\ (misplaced' \/ ButtonsFit(k, ts, sf)) /\ sf[h] = p
  <2>1. sf[h] = p
    BY <1>1, <1>3, RefWritten
  <2>2. Linked(k, pages, sf)
    BY <1>1, <1>3, <1>5, RefGrows
  <2>3. ASSUME ButtonsFit(k, ts, ref) PROVE ButtonsFit(k, ts, sf)
    BY <1>1, <1>3, <1>5, <2>3, RefGrows
  <2> QED BY <2>1, <2>2, <2>3
<1>7. pages[p] \in Page(k)
  BY <1>1, ElementOfSeq
<1>8. /\ pages[p].image # "none" => k.kind[pages[p].image] = "image" /\ sf[pages[p].image] = p
      /\ pages[p].button # "none" => k.kind[pages[p].button] = "button" /\ sf[pages[p].button] = p
      /\ pages[p].close # "none" => k.kind[pages[p].close] = "eventbox" /\ sf[pages[p].close] = p
  BY <1>6 DEF Linked
<1> HIDE DEF sf, hd

\* A handler that only makes the page point at the header.
<1>9. ASSUME NEW x \in Page(k), x.visible = pages[p].visible, x.title = pages[p].title,
             x.image # "none" => k.kind[x.image] = "image" /\ sf[x.image] = p,
             x.button # "none" => k.kind[x.button] = "button" /\ sf[x.button] = p,
             x.close # "none" => k.kind[x.close] = "eventbox" /\ sf[x.close] = p,
             pages' = PutPage(pages, p, x), closable' \in BOOLEAN, tabs' \in Seq(Tab(k)), SamePages(tabs', ts),
             \A t \in 1..Len(ts) : tabs'[t].text = ts[t].text, misplaced' \/ ButtonsFit(k, tabs', sf)
      PROVE  BookInv(k)'
  <2> DEFINE qs == PutPage(pages, p, x)
  <2>1. /\ qs \in Seq(Page(k)) /\ SameVisible(qs, pages) /\ Linked(k, qs, sf)
        /\ \A q \in 1..Len(pages) : qs[q].title = pages[q].title
    BY <1>1, <1>6, <1>9, PointerWritten
  <2>2. pages' = qs
    BY <1>9
  <2> HIDE DEF qs
  <2>3. SamePages(tabs', tabs)
    BY <1>9 DEF SamePages
  <2>4. NamesFit(k, tabs', qs, hd, stray')
    <3>1. NamesFit(k, ts, pages, hd, stray')
      BY DEF hd
    <3> QED BY <1>3, <1>9, <2>1, <3>1 DEF NamesFit, SamePages
  <2> QED BY <1>4, <1>9, <2>1, <2>2, <2>3, <2>4, PlacedBook DEF hd, sf
<1>10. CASE k.kind[h] = "label"
  <2> DEFINE us == PutName(k, ts, pages, p, caption)
             qs == PutTitle(pages, p, caption)
  <2>1. pages' = qs /\ tabs' = us /\ UNCHANGED closable
    <3>1. /\ pages' = [pages EXCEPT ![p].title = caption] /\ UNCHANGED closable
          /\ tabs' = IF pages[p].visible THEN Book(k)!SetTabText(ts, a, caption) ELSE ts
      BY <1>10 DEF Book!MarkRecursive
    <3> QED BY <3>1, Zenon DEF PutTitle, PutName
  <2>2. /\ us \in Seq(Tab(k)) /\ SamePages(us, ts)
        /\ \A t \in 1..Len(ts) : us[t].right = ts[t].right /\ us[t].shown = ts[t].shown
    BY <1>1, <1>2, NameWritten
  <2>3. qs \in Seq(Page(k)) /\ SameVisible(qs, pages)
    BY <1>1, TitleWritten
  <2>4. \A q \in 1..Len(pages) : /\ qs[q].image = pages[q].image /\ qs[q].button = pages[q].button
                                 /\ qs[q].close = pages[q].close
    BY <1>1, TitleWritten
  <2>5. NamesFit(k, us, qs, hd, stray')
    BY <1>1, <1>2, NamedTogether DEF hd
  <2> HIDE DEF us, qs
  <2>6. Linked(k, qs, sf)
    BY <1>6, <2>3, <2>4, LinkedKept DEF SameLinks, SameVisible
  <2>7. misplaced' \/ ButtonsFit(k, us, sf)
    BY <1>6, <2>2, ButtonsFitKept
  <2>8. SamePages(us, tabs)
    BY <2>2 DEF SamePages
  <2> QED BY <1>1, <1>4, <2>1, <2>2, <2>3, <2>5, <2>6, <2>7, <2>8, PlacedBook DEF hd, sf
<1>11. CASE k.kind[h] = "image"
  <2> DEFINE x == [pages[p] EXCEPT !.image = h]
  <2>1. pages' = PutPage(pages, p, x) /\ tabs' = ts /\ UNCHANGED closable
    <3>1. pages' = [pages EXCEPT ![p].image = h] /\ tabs' = ts /\ UNCHANGED closable
      BY <1>11 DEF Book!MarkRecursive
    <3> QED BY <3>1, Zenon DEF PutPage
  <2>2. /\ x \in Page(k) /\ x.visible = pages[p].visible /\ x.title = pages[p].title
        /\ x.image = h /\ x.button = pages[p].button /\ x.close = pages[p].close
    BY <1>7 DEF Page
  <2> HIDE DEF x
  <2>3. SamePages(tabs', ts) /\ tabs' \in Seq(Tab(k)) /\ closable' \in BOOLEAN /\ (misplaced' \/ ButtonsFit(k, tabs', sf))
    BY <1>1, <1>6, <2>1 DEF SamePages
  <2> QED BY <1>6, <1>8, <1>9, <1>11, <2>1, <2>2, <2>3
<1>12. CASE k.kind[h] = "button"
  <2> DEFINE x == [pages[p] EXCEPT !.button = h]
             us == Book(k)!SetTabButton(ts, a, h)
  <2>1. pages' = PutPage(pages, p, x) /\ tabs' = (IF pages[p].visible THEN us ELSE ts) /\ UNCHANGED closable
    <3>1. /\ pages' = [pages EXCEPT ![p].button = h] /\ UNCHANGED closable
          /\ tabs' = IF pages[p].visible THEN Book(k)!SetTabButton(ts, a, h) ELSE ts
      BY <1>12 DEF Book!MarkRecursive
    <3> QED BY <3>1, Zenon DEF PutPage
  <2>2. /\ x \in Page(k) /\ x.visible = pages[p].visible /\ x.title = pages[p].title
        /\ x.image = pages[p].image /\ x.button = h /\ x.close = pages[p].close
    BY <1>7 DEF Page
  <2>3. /\ us \in Seq(Tab(k)) /\ SamePages(us, ts)
        /\ \A u \in 1..Len(ts) : /\ us[u].text = ts[u].text /\ us[u].right = IF u = a THEN h ELSE ts[u].right
                                 /\ u # a => us[u].shown = ts[u].shown
    BY ButtonIsSet
  <2>4. pages[p].visible => a \in 1..Len(ts) /\ ts[a].page = p
    <3>1. Finds(k, ts, pages)
      BY <1>1, <1>2, TabsAndPages
    <3> QED BY <3>1 DEF Finds
  <2> HIDE DEF a, us, x
  <2>5. ASSUME pages[p].visible, ButtonsFit(k, ts, sf) PROVE ButtonsFit(k, us, sf)
    BY <1>5, <1>6, <2>3, <2>4, <2>5 DEF ButtonsFit, SamePages
  <2>6. SamePages(ts, ts)
    BY DEF SamePages
  <2>7. /\ tabs' \in Seq(Tab(k)) /\ SamePages(tabs', ts) /\ \A t \in 1..Len(ts) : tabs'[t].text = ts[t].text
        /\ misplaced' \/ ButtonsFit(k, tabs', sf)
    <3>1. CASE pages[p].visible
      <4>1. tabs' = us
        BY <2>1, <3>1
      <4> QED BY <1>6, <2>3, <2>5, <3>1, <4>1
    <3>2. CASE ~pages[p].visible
      <4>1. tabs' = ts
        BY <2>1, <3>2
      <4> QED BY <1>6, <2>6, <4>1
    <3> QED BY <3>1, <3>2
  <2>8. closable' \in BOOLEAN
    BY <1>1, <2>1
  <2> QED BY <1>6, <1>8, <1>9, <1>12, <2>1, <2>2, <2>7, <2>8
<1>13. CASE k.kind[h] = "eventbox"
  <2> DEFINE x == [pages[p] EXCEPT !.close = h]
             vs == Book(k)!UpdateTabs(ts)
             us == Book(k)!ShowButton(vs, a, TRUE)
  <2>1. pages' = PutPage(pages, p, x) /\ tabs' = (IF pages[p].visible THEN us ELSE vs) /\ closable' = TRUE
    <3>1. /\ pages' = [pages EXCEPT ![p].close = h] /\ closable' = TRUE
          /\ tabs' = IF pages[p].visible THEN Book(k)!ShowButton(Book(k)!UpdateTabs(ts), a, TRUE) ELSE Book(k)!UpdateTabs(ts)
      BY <1>13 DEF Book!MarkRecursive
    <3> QED BY <3>1, Zenon DEF PutPage
  <2>2. /\ x \in Page(k) /\ x.visible = pages[p].visible /\ x.title = pages[p].title
        /\ x.image = pages[p].image /\ x.button = pages[p].button /\ x.close = h
    BY <1>7 DEF Page
  <2>3. /\ vs \in Seq(Tab(k)) /\ SamePages(vs, ts)
        /\ \A t \in 1..Len(ts) : /\ vs[t].text = ts[t].text /\ vs[t].right \in {ts[t].right, "close"}
                                 /\ vs[t].shown => vs[t].right = ts[t].right /\ ts[t].shown
    BY TabsAreUpdated
  <2> HIDE DEF vs
  <2>4. /\ us \in Seq(Tab(k)) /\ SamePages(us, vs)
        /\ \A t \in 1..Len(vs) : /\ us[t].text = vs[t].text /\ us[t].right = vs[t].right
                                 /\ t # a => us[t].shown = vs[t].shown
    <3>1. PICK b \in BOOLEAN : b = TRUE
      OBVIOUS
    <3>2. us = Book(k)!ShowButton(vs, a, b)
      BY <3>1, Zenon
    <3> HIDE DEF us, a
    <3> DEFINE ws == Book(k)!ShowButton(vs, a, b)
    <3>3. /\ ws \in Seq(Tab(k)) /\ SamePages(ws, vs)
          /\ \A t \in 1..Len(vs) : /\ ws[t].text = vs[t].text /\ ws[t].right = vs[t].right
                                   /\ t # a => ws[t].shown = vs[t].shown
      BY <2>3, ButtonIsShown
    <3> HIDE DEF ws
    <3>4. us = ws
      BY <3>2 DEF ws
    <3> QED BY <3>3, <3>4
  <2>5. pages[p].visible => a \in 1..Len(ts) /\ ts[a].page = p
    <3>1. Finds(k, ts, pages)
      BY <1>1, <1>2, TabsAndPages
    <3> QED BY <3>1 DEF Finds
  <2> HIDE DEF a, us, x
  <2>6. ASSUME ButtonsFit(k, ts, sf) PROVE ButtonsFit(k, vs, sf)
    BY <1>5, <2>3, <2>6 DEF ButtonsFit, SamePages
  <2>7. ASSUME pages[p].visible, ButtonsFit(k, vs, sf) PROVE ButtonsFit(k, us, sf)
    <3> SUFFICES ASSUME NEW t \in 1..Len(us)
                 PROVE  /\ us[t].right \in k.headers => sf[us[t].right] = us[t].page
                        /\ us[t].right = "close" /\ us[t].shown =>
                             \E g \in k.headers : k.kind[g] = "eventbox" /\ sf[g] = us[t].page
      BY DEF ButtonsFit
    <3>1. t \in 1..Len(vs) /\ t \in 1..Len(ts) /\ us[t].page = vs[t].page /\ vs[t].page = ts[t].page
      BY <2>3, <2>4 DEF SamePages
    <3>2. CASE t = a
      BY <1>6, <1>13, <2>4, <2>5, <2>7, <3>1, <3>2 DEF ButtonsFit
    <3>3. CASE t # a
      BY <2>4, <2>7, <3>1, <3>3 DEF ButtonsFit
    <3> QED BY <3>2, <3>3
  <2>8. SamePages(us, ts) /\ \A t \in 1..Len(ts) : us[t].text = ts[t].text
    BY <2>3, <2>4 DEF SamePages
  <2>9. /\ tabs' \in Seq(Tab(k)) /\ SamePages(tabs', ts) /\ \A t \in 1..Len(ts) : tabs'[t].text = ts[t].text
        /\ misplaced' \/ ButtonsFit(k, tabs', sf)
    <3>1. CASE pages[p].visible
      <4>1. tabs' = us
        BY <2>1, <3>1
      <4> QED BY <1>6, <2>4, <2>6, <2>7, <2>8, <3>1, <4>1
    <3>2. CASE ~pages[p].visible
      <4>1. tabs' = vs
        BY <2>1, <3>2
      <4> QED BY <1>6, <2>3, <2>6, <4>1
    <3> QED BY <3>1, <3>2
  <2>10. closable' \in BOOLEAN
    BY <2>1
  <2> QED BY <1>6, <1>8, <1>9, <1>13, <2>1, <2>2, <2>9, <2>10
<1> QED BY <1>5, <1>10, <1>11, <1>12, <1>13

\* The text of tab number p is cleared, that of page p when it is in its place.
LEMMA ClearedNames ==
  ASSUME NEW k \in Notebooks, BookInv(k), crashed = "none", NEW p \in 1..Len(pages), Book(k)!Strays(p)
  PROVE  LET ts == Book(k)!Cleared(p) IN
         /\ ts \in Seq(Tab(k)) /\ SamePages(ts, tabs) /\ NamesFit(k, ts, pages, headed \cup {p}, stray')
         /\ misplaced \/ ButtonsFit(k, ts, ref)
         /\ stray' \in BOOLEAN
<1> DEFINE ts == Book(k)!Cleared(p)
           us == Book(k)!SetTabText(tabs, p, Book(k)!Blank)
           a == Book(k)!AdjustIndex(pages, p)
<1>1. /\ tabs \in Seq(Tab(k)) /\ pages \in Seq(Page(k)) /\ Enumerates(tabs, pages) /\ stray \in BOOLEAN
      /\ NamesFit(k, tabs, pages, headed, stray) /\ (misplaced \/ ButtonsFit(k, tabs, ref))
  BY DEF BookInv, BookTypes
<1>2. stray' = (stray \/ (pages[p].visible /\ a # p))
  BY DEF Book!Strays
<1>3. Book(k)!Blank \in Book(k)!Texts
  BY DEF Book!Texts
<1>4. /\ us \in Seq(Tab(k)) /\ SamePages(us, tabs)
      /\ \A t \in 1..Len(tabs) : /\ us[t].right = tabs[t].right /\ us[t].shown = tabs[t].shown
                                 /\ us[t].text = IF t = p THEN Book(k)!Blank ELSE tabs[t].text
  BY <1>1, <1>3, TextIsSet
<1>5. pages[p].visible => tabs[a].page = p
  <2>1. Finds(k, tabs, pages)
    BY <1>1, TabsAndPages
  <2> QED BY <2>1 DEF Finds
<1>6. ts = IF pages[p].visible THEN us ELSE tabs
  BY Zenon DEF Book!Cleared
<1> HIDE DEF ts, us, a
<1>7. ts \in Seq(Tab(k)) /\ SamePages(ts, tabs)
  BY <1>1, <1>4, <1>6 DEF SamePages
<1>8. \A t \in 1..Len(tabs) : ts[t].right = tabs[t].right /\ ts[t].shown = tabs[t].shown
  BY <1>4, <1>6
<1>9. misplaced \/ ButtonsFit(k, ts, ref)
  BY <1>1, <1>7, <1>8, ButtonsFitKept
<1>10. NamesFit(k, ts, pages, headed \cup {p}, stray')
  <2> SUFFICES ASSUME NEW t \in 1..Len(ts)
               PROVE  \/ ts[t].text = pages[ts[t].page].title
                      \/ ts[t].text = Book(k)!Blank /\ (ts[t].page \in headed \cup {p} \/ stray')
    BY DEF NamesFit
  <2>1. t \in 1..Len(tabs) /\ ts[t].page = tabs[t].page
    BY <1>7 DEF SamePages
  <2>2. CASE pages[p].visible /\ t = p
    BY <1>2, <1>4, <1>5, <1>6, <2>1, <2>2
  <2>3. CASE ~(pages[p].visible /\ t = p)
    <3>1. ts[t].text = tabs[t].text
      BY <1>4, <1>6, <2>1, <2>3
    <3> QED BY <1>1, <1>2, <2>1, <3>1 DEF NamesFit
  <2> QED BY <2>2, <2>3
<1>11. stray' \in BOOLEAN
  BY <1>1, <1>2
<1> QED BY <1>7, <1>9, <1>10, <1>11 DEF ts

\* MSG_CUSTOM_MESSAGE3.
LEMMA HeaderOfBook ==
  ASSUME NEW k \in Notebooks, BookInv(k), crashed = "none", NEW h \in k.headers, NEW p \in DOMAIN pages,
         Book(k)!HeaderOf(h, p)
  PROVE  BookInv(k)'
<1> DEFINE ts == Book(k)!Cleared(p)
<1>1. p \in 1..Len(pages) /\ misplaced \in BOOLEAN
  BY DEF BookInv, BookTypes
<1>2. Book(k)!Strays(p) /\ ref[h] \in {0, p}
  BY DEF Book!HeaderOf, Book!Placeable
<1>3. Book(k)!MarkRecursive(ts, h, p)
  BY Zenon DEF Book!HeaderOf
<1>4. UNCHANGED <<notebook, live, current, state, caption, misled, misplaced, crashed>>
  BY DEF Book!HeaderOf
<1>5. /\ ts \in Seq(Tab(k)) /\ SamePages(ts, tabs) /\ NamesFit(k, ts, pages, headed \cup {p}, stray')
      /\ misplaced \/ ButtonsFit(k, ts, ref)
      /\ stray' \in BOOLEAN
  BY <1>1, <1>2, ClearedNames
<1> HIDE DEF ts
<1>6. misplaced' \in BOOLEAN /\ (misplaced' \/ ButtonsFit(k, ts, ref))
  BY <1>1, <1>4, <1>5
<1> QED BY <1>1, <1>2, <1>3, <1>4, <1>5, <1>6, MarkedBook

\* A control is made in a header.
LEMMA HeaderGrowsBook ==
  ASSUME NEW k \in Notebooks, BookInv(k), crashed = "none", NEW h \in k.headers, NEW p \in DOMAIN pages,
         Book(k)!HeaderGrows(h, p)
  PROVE  BookInv(k)'
<1>1. /\ p \in 1..Len(pages) /\ misplaced \in BOOLEAN /\ stray \in BOOLEAN /\ tabs \in Seq(Tab(k))
      /\ NamesFit(k, tabs, pages, headed, stray) /\ (misplaced \/ ButtonsFit(k, tabs, ref))
  BY DEF BookInv, BookTypes
<1>2. ref[h] \in {0, p} /\ Book(k)!MarkRecursive(tabs, h, p)
  BY DEF Book!HeaderGrows, Book!Placeable
<1>3. UNCHANGED <<notebook, live, current, state, caption, misled, stray, misplaced, crashed>>
  BY DEF Book!HeaderGrows
<1>4. NamesFit(k, tabs, pages, headed \cup {p}, stray')
  BY <1>1, <1>3 DEF NamesFit
<1>5. SamePages(tabs, tabs) /\ (misplaced' \/ ButtonsFit(k, tabs, ref)) /\ misplaced' \in BOOLEAN /\ stray' \in BOOLEAN
  BY <1>1, <1>3 DEF SamePages
<1> QED BY <1>1, <1>2, <1>3, <1>4, <1>5, MarkedBook

\* MSG_CUSTOM_MESSAGE4.
LEMMA SetHeaderBook ==
  ASSUME NEW k \in Notebooks, BookInv(k), crashed = "none", NEW h \in k.headers, NEW p \in DOMAIN pages,
         Book(k)!SetHeader(h, p)
  PROVE  BookInv(k)'
<1> DEFINE cs == Book(k)!Cleared(p)
           a == Book(k)!AdjustIndex(pages, p)
           ts == IF pages[p].header # "none" THEN Book(k)!SetTabButton(cs, a, Book(k)!None) ELSE cs
<1>1. /\ p \in 1..Len(pages) /\ misplaced \in BOOLEAN /\ tabs \in Seq(Tab(k)) /\ pages \in Seq(Page(k))
      /\ Enumerates(tabs, pages) /\ Linked(k, pages, ref) /\ ref \in [k.headers -> Nat] /\ closable \in BOOLEAN
      /\ DOMAIN tabs = 1..Len(tabs)
  BY LenProperties DEF BookInv, BookTypes
<1>2. Book(k)!Strays(p) /\ ref[h] \in {0, p}
  BY DEF Book!SetHeader, Book!Placeable
<1>3. UNCHANGED <<notebook, live, current, state, caption, misled, crashed>>
  BY DEF Book!SetHeader
<1>4. /\ misplaced' = (misplaced \/ (~pages[p].visible /\ a \in DOMAIN tabs))
      /\ IF k.kind[h] = "image" THEN Book(k)!MarkRecursive(ts, h, p)
         ELSE /\ tabs' = Book(k)!SetTabButton(ts, a, h) /\ pages' = [pages EXCEPT ![p].header = h]
              /\ ref' = [ref EXCEPT ![h] = p] /\ headed' = headed \cup {p} /\ UNCHANGED closable
  BY Zenon DEF Book!SetHeader, Book!None
<1>5. /\ cs \in Seq(Tab(k)) /\ SamePages(cs, tabs) /\ NamesFit(k, cs, pages, headed \cup {p}, stray')
      /\ misplaced \/ ButtonsFit(k, cs, ref)
      /\ stray' \in BOOLEAN
  BY <1>1, <1>2, ClearedNames
<1>6. "none" \notin k.headers /\ "close" \notin k.headers
  BY BookConstants
<1> HIDE DEF cs
<1>7. /\ ts \in Seq(Tab(k)) /\ SamePages(ts, tabs) /\ NamesFit(k, ts, pages, headed \cup {p}, stray')
      /\ misplaced \/ ButtonsFit(k, ts, ref)
  <2>1. CASE pages[p].header # "none"
    <3> DEFINE us == Book(k)!SetTabButton(cs, a, "none")
    <3>1. ts = us
      BY <2>1 DEF Book!None
    <3> HIDE DEF a
    <3>2. /\ us \in Seq(Tab(k)) /\ SamePages(us, cs)
          /\ \A u \in 1..Len(cs) : /\ us[u].text = cs[u].text /\ us[u].right = IF u = a THEN "none" ELSE cs[u].right
                                   /\ u # a => us[u].shown = cs[u].shown
      BY <1>5, ButtonIsSet
    <3> HIDE DEF us
    <3>3. SamePages(us, tabs)
      BY <1>5, <3>2 DEF SamePages
    <3>4. NamesFit(k, us, pages, headed \cup {p}, stray')
      BY <1>5, <3>2 DEF NamesFit, SamePages
    <3>5. ASSUME ButtonsFit(k, cs, ref) PROVE ButtonsFit(k, us, ref)
      BY <1>6, <3>2, <3>5 DEF ButtonsFit, SamePages
    <3> HIDE DEF ts
    <3> QED BY <1>5, <3>1, <3>2, <3>3, <3>4, <3>5
  <2>2. CASE pages[p].header = "none"
    <3>1. ts = cs
      BY <2>2
    <3> QED BY <1>5, <3>1
  <2> QED BY <2>1, <2>2
<1> HIDE DEF ts
<1>8. misplaced' \in BOOLEAN /\ (misplaced' \/ ButtonsFit(k, ts, ref))
  BY <1>1, <1>4, <1>7
<1>9. CASE k.kind[h] = "image"
  <2>1. Book(k)!MarkRecursive(ts, h, p)
    BY <1>4, <1>9
  <2> QED BY <1>1, <1>2, <1>3, <1>5, <1>7, <1>8, <2>1, MarkedBook
<1>10. CASE k.kind[h] # "image"
  <2> DEFINE us == Book(k)!SetTabButton(ts, a, h)
             x == [pages[p] EXCEPT !.header = h]
             qs == PutPage(pages, p, x)
             sf == PutRef(ref, h, p)
  <2>1. tabs' = us /\ pages' = qs /\ ref' = sf /\ headed' = headed \cup {p} /\ UNCHANGED closable
    <3>1. /\ tabs' = us /\ pages' = [pages EXCEPT ![p].header = h]
          /\ ref' = [ref EXCEPT ![h] = p] /\ headed' = headed \cup {p} /\ UNCHANGED closable
      BY <1>4, <1>10
    <3> QED BY <3>1, Zenon DEF PutPage, PutRef
  <2>2. p \in Nat /\ \A t \in 1..Len(ts) : ts[t].page \in 1..Len(pages) /\ ts[t].page # 0
    <3>1. Enumerates(ts, pages)
      BY <1>1, <1>7, EnumeratesKept DEF SameVisible
    <3> QED BY <3>1 DEF Enumerates
  <2>3. sf[h] = p /\ Linked(k, pages, sf) /\ (misplaced' \/ ButtonsFit(k, ts, sf))
    <3>1. sf[h] = p
      BY <1>1, <2>2, RefWritten
    <3>2. Linked(k, pages, sf)
      BY <1>1, <1>2, <1>6, <2>2, RefGrows
    <3>3. ASSUME ButtonsFit(k, ts, ref) PROVE ButtonsFit(k, ts, sf)
      BY <1>1, <1>2, <1>6, <1>7, <2>2, <3>3, RefGrows
    <3> QED BY <1>8, <3>1, <3>2, <3>3
  <2>4. pages[p] \in Page(k)
    BY <1>1, ElementOfSeq
  <2>5. /\ x \in Page(k) /\ x.visible = pages[p].visible /\ x.title = pages[p].title
        /\ x.image = pages[p].image /\ x.button = pages[p].button /\ x.close = pages[p].close
    BY <2>4 DEF Page
  <2>6. /\ x.image # "none" => k.kind[x.image] = "image" /\ sf[x.image] = p
        /\ x.button # "none" => k.kind[x.button] = "button" /\ sf[x.button] = p
        /\ x.close # "none" => k.kind[x.close] = "eventbox" /\ sf[x.close] = p
    BY <1>1, <2>3, <2>5 DEF Linked
  <2> HIDE DEF sf, x
  <2>7. /\ qs \in Seq(Page(k)) /\ SameVisible(qs, pages) /\ Linked(k, qs, sf)
        /\ \A q \in 1..Len(pages) : qs[q].title = pages[q].title
    BY <1>1, <2>3, <2>5, <2>6, PointerWritten
  <2>8. /\ us \in Seq(Tab(k)) /\ SamePages(us, ts)
        /\ \A u \in 1..Len(ts) : /\ us[u].text = ts[u].text /\ us[u].right = IF u = a THEN h ELSE ts[u].right
                                 /\ u # a => us[u].shown = ts[u].shown
    BY <1>7, ButtonIsSet
  <2>9. a \notin 1..Len(ts) => us = ts
    BY <1>7, ButtonIsSet
  <2>10. pages[p].visible => a \in 1..Len(tabs) /\ tabs[a].page = p
    <3>1. Finds(k, tabs, pages)
      BY <1>1, TabsAndPages
    <3> QED BY <1>1, <3>1 DEF Finds
  <2> HIDE DEF us, qs, a
  <2>11. SamePages(us, tabs)
    BY <1>7, <2>8 DEF SamePages
  <2>12. NamesFit(k, us, qs, headed \cup {p}, stray')
    BY <1>7, <2>2, <2>7, <2>8 DEF NamesFit, SamePages
  <2>13. misplaced' \/ ButtonsFit(k, us, sf)
    <3>1. CASE misplaced'
      BY <3>1
    <3>2. CASE ~misplaced' /\ a \in 1..Len(tabs)
      <4>1. pages[p].visible /\ tabs[a].page = p
        BY <1>1, <1>4, <2>10, <3>2
      <4>2. ts[a].page = p
        BY <1>7, <3>2, <4>1 DEF SamePages
      <4>3. ButtonsFit(k, ts, sf)
        BY <2>3, <3>2
      <4>4. ButtonsFit(k, us, sf)
        BY <1>6, <2>3, <2>8, <4>2, <4>3 DEF ButtonsFit, SamePages
      <4> QED BY <4>4
    <3>3. CASE ~misplaced' /\ a \notin 1..Len(tabs)
      <4>1. us = ts
        BY <1>7, <2>9, <3>3 DEF SamePages
      <4> QED BY <2>3, <4>1
    <3> QED BY <3>1, <3>2, <3>3
  <2>14. closable' \in BOOLEAN
    BY <1>1, <2>1
  <2> QED BY <1>1, <1>3, <1>5, <1>8, <2>1, <2>7, <2>8, <2>11, <2>12, <2>13, <2>14, PlacedBook DEF sf
<1> QED BY <1>9, <1>10

\* P_VISIBLE of a header.
LEMMA ShowHeaderBook ==
  ASSUME NEW k \in Notebooks, BookInv(k), crashed = "none", NEW h \in k.headers, NEW on \in BOOLEAN,
         Book(k)!ShowHeader(h, on)
  PROVE  BookInv(k)'
<1> DEFINE p == ref[h]
           a == Book(k)!AdjustIndex(pages, p)
           b == pages[p].button
           us == IF k.kind[h] = "eventbox" THEN Book(k)!ShowButton(tabs, a, on) ELSE Book(k)!SetTabButton(tabs, a, b)
<1>1. /\ tabs \in Seq(Tab(k)) /\ pages \in Seq(Page(k)) /\ Enumerates(tabs, pages) /\ Linked(k, pages, ref)
      /\ NamesFit(k, tabs, pages, headed, stray) /\ (misplaced \/ ButtonsFit(k, tabs, ref))
      /\ misplaced \in BOOLEAN /\ DOMAIN tabs = 1..Len(tabs) /\ ref \in [k.headers -> Nat] /\ ref[h] <= Len(pages)
  BY LenProperties DEF BookInv, BookTypes
<1>2. p # 0 /\ UNCHANGED <<notebook, pages, live, current, closable, ref, state, caption, misled, headed, stray>>
  BY DEF Book!ShowHeader
<1>3. p \in 1..Len(pages)
  BY <1>1, <1>2
<1>4. pages[p] \in Page(k) /\ b \in k.headers \cup {"none"}
  <2>1. pages[p] \in Page(k)
    BY <1>1, <1>3, ElementOfSeq
  <2> QED BY <2>1, PageParts
<1>5. "none" \notin k.headers /\ "close" \notin k.headers
  BY BookConstants
<1>6. b # "none" => b \in k.headers /\ k.kind[b] = "button" /\ ref[b] = p
  BY <1>1, <1>3, <1>4 DEF Linked
<1>7. \/ UNCHANGED <<tabs, misplaced, crashed>>
      \/ /\ crashed' = "header" /\ UNCHANGED <<tabs, misplaced>>
         /\ ~notebook \/ (b # "none" /\ state[b] = "disposed")
      \/ /\ tabs' = us /\ misplaced' = (misplaced \/ (~pages[p].visible /\ a \in DOMAIN tabs))
         /\ UNCHANGED crashed /\ (k.kind[h] = "eventbox" \/ b # "none")
  BY Zenon DEF Book!ShowHeader, Book!Lost, Book!None
<1>8. pages[p].visible => a \in 1..Len(tabs) /\ tabs[a].page = p
  <2>1. Finds(k, tabs, pages)
    BY <1>1, TabsAndPages
  <2> QED BY <1>3, <2>1 DEF Finds
<1> HIDE DEF p, a, b
<1>9. CASE UNCHANGED <<tabs, misplaced>> /\ crashed' \in {"none", "header"}
           /\ (crashed' = "header" => ~notebook \/ (b # "none" /\ state[b] = "disposed"))
  <2>1. BookTypes(k)'
    BY <1>2, <1>9 DEF BookInv, BookTypes
  <2>2. Book(k)!CrashIsExplained'
    BY <1>2, <1>6, <1>9 DEF Book!CrashIsExplained
  <2> QED BY <1>2, <1>9, <2>1, <2>2, PlacesKept
<1>10. CASE /\ tabs' = us /\ misplaced' = (misplaced \/ (~pages[p].visible /\ a \in DOMAIN tabs))
            /\ UNCHANGED crashed /\ (k.kind[h] = "eventbox" \/ b # "none")
  <2>1. /\ us \in Seq(Tab(k)) /\ SamePages(us, tabs) /\ \A t \in 1..Len(tabs) : us[t].text = tabs[t].text
        /\ \A t \in 1..Len(tabs) : t # a => us[t].right = tabs[t].right /\ us[t].shown = tabs[t].shown
        /\ a \in 1..Len(tabs) => us[a].right = (IF k.kind[h] = "eventbox" THEN tabs[a].right ELSE b)
    <3>1. CASE k.kind[h] = "eventbox"
      <4>1. us = Book(k)!ShowButton(tabs, a, on)
        BY <3>1
      <4> HIDE DEF us
      <4>2. /\ us \in Seq(Tab(k)) /\ SamePages(us, tabs)
            /\ \A t \in 1..Len(tabs) : /\ us[t].text = tabs[t].text /\ us[t].right = tabs[t].right
                                       /\ t # a => us[t].shown = tabs[t].shown
        BY <1>1, <4>1, ButtonIsShown
      <4> QED BY <3>1, <4>2
    <3>2. CASE k.kind[h] # "eventbox"
      <4>1. us = Book(k)!SetTabButton(tabs, a, b) /\ b \in k.headers \cup {"none"}
        BY <1>4, <3>2
      <4> HIDE DEF us
      <4>2. /\ us \in Seq(Tab(k)) /\ SamePages(us, tabs)
            /\ \A t \in 1..Len(tabs) : /\ us[t].text = tabs[t].text /\ us[t].right = IF t = a THEN b ELSE tabs[t].right
                                       /\ t # a => us[t].shown = tabs[t].shown
        BY <1>1, <4>1, ButtonIsSet
      <4> QED BY <3>2, <4>2
    <3> QED BY <3>1, <3>2
  <2> HIDE DEF us
  <2>2. Enumerates(us, pages)
    BY <1>1, <2>1, EnumeratesKept DEF SameVisible
  <2>3. NamesFit(k, us, pages, headed, stray)
    BY <1>1, <2>1 DEF NamesFit, SamePages
  <2>4. ASSUME ~misplaced' PROVE ButtonsFit(k, us, ref)
    <3>1. ButtonsFit(k, tabs, ref) /\ (a \in 1..Len(tabs) => pages[p].visible)
      BY <1>1, <1>10, <2>4
    <3>2. a \in 1..Len(tabs) => tabs[a].page = p
      BY <1>8, <3>1
    <3> SUFFICES ASSUME NEW t \in 1..Len(us)
                 PROVE  /\ us[t].right \in k.headers => ref[us[t].right] = us[t].page
                        /\ us[t].right = "close" /\ us[t].shown =>
                             \E g \in k.headers : k.kind[g] = "eventbox" /\ ref[g] = us[t].page
      BY DEF ButtonsFit
    <3>3. t \in 1..Len(tabs) /\ us[t].page = tabs[t].page
      BY <2>1 DEF SamePages
    <3>4. CASE t # a
      BY <2>1, <3>1, <3>3, <3>4 DEF ButtonsFit
    <3>5. CASE t = a /\ k.kind[h] = "eventbox"
      <4>1. us[t].right = tabs[t].right /\ us[t].page = p /\ ref[h] = p
        BY <2>1, <3>2, <3>3, <3>5 DEF p
      <4> QED BY <3>1, <3>3, <3>5, <4>1 DEF ButtonsFit
    <3>6. CASE t = a /\ k.kind[h] # "eventbox"
      <4>1. us[t].right = b /\ us[t].page = p /\ b # "none"
        BY <1>10, <2>1, <3>2, <3>3, <3>6
      <4> QED BY <1>5, <1>6, <4>1
    <3> QED BY <3>4, <3>5, <3>6
  <2>5. misplaced' \in BOOLEAN
    BY <1>1, <1>10
  <2>6. BookTypes(k)'
    <3>1. \A t \in 1..Len(us) : us[t].page \in 1..Len(pages)
      BY <2>2 DEF Enumerates
    <3> QED BY <1>2, <1>10, <2>1, <2>5, <3>1 DEF BookInv, BookTypes, SamePages
  <2>7. Book(k)!CrashIsExplained'
    BY <1>10 DEF Book!CrashIsExplained
  <2> QED BY <1>1, <1>2, <1>10, <2>2, <2>3, <2>4, <2>6, <2>7 DEF BookInv
<1> QED BY <1>7, <1>9, <1>10

-----------------------------------------------------------------------------
(* Notebook: the theorems *)

LEMMA BookBegins ==
  ASSUME NEW k \in Notebooks, Book(k)!Init PROVE BookInv(k)
<1>1. /\ notebook = TRUE /\ pages = <<>> /\ live = {} /\ tabs = <<>> /\ current = 0 /\ closable = FALSE
      /\ ref = [h \in k.headers |-> 0] /\ caption = "label" /\ misled = FALSE
      /\ state = [h \in k.headers |-> IF k.kind[h] = "image" THEN "empty" ELSE "ready"]
      /\ headed = {} /\ stray = FALSE /\ misplaced = FALSE /\ crashed = "none"
  BY DEF Book!Init, Book!None
<1>2. /\ pages \in Seq(Page(k)) /\ Len(pages) = 0 /\ tabs \in Seq(Tab(k)) /\ Len(tabs) = 0
  BY <1>1
<1>3. k.max \in Nat
  BY BookConstants
<1>4. ref \in [k.headers -> Nat] /\ \A h \in k.headers : ref[h] <= Len(pages)
  BY <1>1, <1>2
<1>5. state \in [k.headers -> {"empty", "ready", "disposed"}] /\ caption \in Book(k)!Texts
  BY <1>1 DEF Book!Texts
<1>6. BookTypes(k)
  <2>1. Len(pages) <= k.max /\ current \in 0..Len(tabs) /\ live \subseteq 1..Len(pages) /\ headed \subseteq 1..Len(pages)
    BY <1>1, <1>2, <1>3
  <2>2. \A t \in 1..Len(tabs) : tabs[t].page \in 1..Len(pages)
    BY <1>2
  <2> QED BY <1>1, <1>2, <1>4, <1>5, <2>1, <2>2 DEF BookTypes
<1>7. Linked(k, pages, ref) /\ Enumerates(tabs, pages) /\ NamesFit(k, tabs, pages, headed, stray) /\ ButtonsFit(k, tabs, ref)
  BY <1>2 DEF Linked, Enumerates, NamesFit, ButtonsFit
<1>8. Book(k)!CrashIsExplained
  BY <1>1 DEF Book!CrashIsExplained
<1> QED BY <1>1, <1>6, <1>7, <1>8 DEF BookInv

\* One step for each action of the part.
LEMMA BookStep ==
  ASSUME NEW k \in Notebooks, BookInv(k), Book(k)!Next PROVE BookInv(k)'
<1>1. crashed = "none"
  BY DEF Book!Next, Book!None
<1>2. ASSUME Book(k)!AddPage \/ Book(k)!GetPage \/ Book(k)!DisposeNotebook PROVE BookInv(k)'
  BY <1>1, <1>2, AddPageBook, GetPageBook, DisposeNotebookBook
<1>3. ASSUME NEW p \in DOMAIN pages,
             Book(k)!Show(p) \/ Book(k)!Hide(p) \/ Book(k)!SetTitle(p) \/ Book(k)!SetPage(p) \/ Book(k)!DisposePage(p)
      PROVE  BookInv(k)'
  BY <1>1, <1>3, ShowBook, HideBook, SetTitleBook, SetPageBook, DisposePageBook
<1>4. ASSUME NEW h \in k.headers, NEW p \in DOMAIN pages,
             Book(k)!HeaderOf(h, p) \/ Book(k)!HeaderGrows(h, p) \/ Book(k)!SetHeader(h, p)
      PROVE  BookInv(k)'
  BY <1>1, <1>4, HeaderOfBook, HeaderGrowsBook, SetHeaderBook
<1>5. ASSUME NEW h \in k.headers, Book(k)!Caption(h) \/ Book(k)!Load(h) \/ Book(k)!DisposeHeader(h)
      PROVE  BookInv(k)'
  BY <1>1, <1>5, CaptionBook, LoadBook, DisposeHeaderBook
<1>6. ASSUME NEW h \in k.headers, NEW on \in BOOLEAN, Book(k)!ShowHeader(h, on) PROVE BookInv(k)'
  BY <1>1, <1>6, ShowHeaderBook
<1>7. ASSUME NEW t \in DOMAIN tabs, Book(k)!Select(t) \/ Book(k)!RequestClose(t) PROVE BookInv(k)'
  BY <1>1, <1>7, SelectBook, RequestCloseBook
<1> QED BY <1>2, <1>3, <1>4, <1>5, <1>6, <1>7 DEF Book!Next

\* The notebook that moves is as BookInv says.
BooksInv == \A k \in Notebooks : part = k.name => BookInv(k)

LEMMA BooksInvAlways == PartsSpec => []BooksInv
<1>1. PartsInit => BooksInv
  <2> SUFFICES ASSUME PartsInit, NEW k \in Notebooks, part = k.name PROVE BookInv(k)
    BY DEF BooksInv
  <2>1. PICK l \in Notebooks : part = l.name /\ Book(l)!Init
    BY Zenon DEF PartsInit, Part
  <2>2. l = k
    BY <2>1, OnePart
  <2>3. Book(k)!Init
    BY <2>1, <2>2
  <2> QED BY <2>3, BookBegins
<1>2. BooksInv /\ [PartsNext]_parts => BooksInv'
  <2> SUFFICES ASSUME BooksInv, [PartsNext]_parts, NEW k \in Notebooks, part' = k.name PROVE BookInv(k)'
    BY DEF BooksInv
  <2>1. part = k.name /\ BookInv(k)
    BY DEF BooksInv, PartsNext, parts
  <2>2. CASE UNCHANGED tabbing
    BY <2>1, <2>2 DEF tabbing, BookInv, BookTypes, Book!CrashIsExplained
  <2>3. CASE \E l \in Notebooks : part = l.name /\ Book(l)!Next
    <3>1. PICK l \in Notebooks : part = l.name /\ Book(l)!Next
      BY <2>3
    <3>2. l = k
      BY <2>1, <3>1, OnePart
    <3>3. Book(k)!Next
      BY <3>1, <3>2
    <3> QED BY <2>1, <3>3, BookStep
  <2> QED BY <2>2, <2>3 DEF PartsNext, parts
<1> QED BY <1>1, <1>2, PTL DEF PartsSpec

\* Tabs are those of the visible pages in their order, have the names of their pages or none for
\* a reason, bear the buttons of their pages, and the server is told of the page that the user
\* sees, for any number of pages and headers and however pages are shown, hidden and headed.
THEOREM TabsAlwaysFollowPages == PartsSpec => []TabsFollowPages
<1>1. BooksInv => TabsFollowPages
  <2> SUFFICES ASSUME NEW k \in Notebooks, BookInv(k)
               PROVE  /\ Book(k)!TypeOK /\ Book(k)!TabsFollowPages /\ Book(k)!TabsAreNamed
                      /\ Book(k)!EventNamesThePage /\ Book(k)!ButtonsBelong
    BY DEF BooksInv, TabsFollowPages
  <2>1. DOMAIN pages = 1..Len(pages) /\ DOMAIN tabs = 1..Len(tabs) /\ Len(pages) \in Nat /\ k.max \in Nat
    BY LenProperties, BookConstants DEF BookInv, BookTypes
  <2>2. \A p \in DOMAIN pages : pages[p] \in Page(k)
    BY <2>1, ElementOfSeq DEF BookInv, BookTypes
  <2>3. ASSUME NEW t \in DOMAIN tabs
        PROVE  tabs[t] \in [page : DOMAIN pages, text : Book(k)!Texts, right : k.headers \cup {"none", "close"},
                            shown : BOOLEAN]
    <3>1. tabs[t] \in Tab(k) /\ tabs[t].page \in DOMAIN pages
      BY <2>1, ElementOfSeq DEF BookInv, BookTypes
    <3> QED BY <3>1 DEF Tab
  <2>4. ref \in [k.headers -> 0..k.max]
    <3>1. \A h \in k.headers : ref[h] \in Nat /\ ref[h] <= Len(pages) /\ Len(pages) <= k.max
      BY DEF BookInv, BookTypes
    <3>2. \A h \in k.headers : ref[h] \in 0..k.max
      BY <2>1, <3>1
    <3> QED BY <3>2 DEF BookInv, BookTypes
  <2>5. /\ notebook \in BOOLEAN /\ closable \in BOOLEAN /\ stray \in BOOLEAN /\ misplaced \in BOOLEAN
        /\ misled \in BOOLEAN /\ Len(pages) <= k.max /\ live \subseteq DOMAIN pages /\ headed \subseteq DOMAIN pages
        /\ current \in 0..Len(tabs) /\ state \in [k.headers -> {"empty", "ready", "disposed"}]
        /\ caption \in Book(k)!Texts /\ crashed \in {"none", "page", "header"}
    BY <2>1 DEF BookInv, BookTypes
  <2>6. Book(k)!TypeOK
    BY <2>2, <2>3, <2>4, <2>5 DEF Book!TypeOK, Book!None, Page
  <2>7. Book(k)!TabsFollowPages
    <3> SUFFICES ASSUME crashed = "none"
                 PROVE  /\ {tabs[t].page : t \in DOMAIN tabs} = {p \in DOMAIN pages : pages[p].visible}
                        /\ \A t, u \in DOMAIN tabs : t < u => tabs[t].page < tabs[u].page
      BY DEF Book!TabsFollowPages, Book!None
    <3>1. Enumerates(tabs, pages)
      BY DEF BookInv
    <3> QED BY <2>1, <3>1 DEF Enumerates
  <2>8. Book(k)!TabsAreNamed
    BY <2>1 DEF BookInv, NamesFit, Book!TabsAreNamed
  <2>9. Book(k)!ButtonsBelong
    BY <2>1 DEF BookInv, ButtonsFit, Book!ButtonsBelong
  <2>10. Book(k)!EventNamesThePage
    BY DEF BookInv, Book!EventNamesThePage
  <2> QED BY <2>6, <2>7, <2>8, <2>9, <2>10
<1> QED BY <1>1, BooksInvAlways, PTL

\* A null pointer is followed only where CrashIsExplained says, whatever was disposed before.
THEOREM CrashesAreExplained == PartsSpec => []CrashIsExplained
<1>1. BooksInv => CrashIsExplained
  BY DEF BooksInv, BookInv, CrashIsExplained
<1> QED BY <1>1, BooksInvAlways, PTL

-----------------------------------------------------------------------------
(* Controls *)

\* What is assumed of the constants of a registry.
LEMMA RegistryConstants ==
  ASSUME NEW k \in Registries
  PROVE  /\ k.ids \subseteq Nat \ {0} /\ k.max \in Nat \ {0} /\ k.axes \subseteq {"h", "v"}
         /\ k.types \subseteq {"form", "box", "button", "expander", "scrolled", "tree", "edit", "scrollbar", "adjustment"}
         /\ k.moved \subseteq k.types \ {"form", "adjustment"}
         /\ k.parents \subseteq k.types \ {"edit", "scrollbar", "adjustment"}
BY PartsAssumption DEF PartsAssumption, Registry!ControlsAssumption

\* The fields of an item.
LEMMA ItemFields ==
  ASSUME NEW k, NEW r \in Registry(k)!Item
  PROVE  /\ r.id \in k.ids /\ r.type \in k.types /\ r.ptr \in BOOLEAN /\ r.visible \in BOOLEAN
         /\ r.parent \in Nat
         /\ r.adj \in Nat /\ r.hadj \in Nat /\ r.bar \in Registry(k)!Bar /\ r.child \in Nat
         /\ r.friend \in Nat
         /\ r.flags \in BOOLEAN /\ r.made \in Nat /\ r.asked \in SUBSET k.axes
BY DEF Registry!Item

\* Items that differ only in what is not asked for here.
SameNature(r, s) == r.id = s.id /\ r.type = s.type /\ r.made = s.made /\ r.asked = s.asked
Likeness(r, s) == SameNature(r, s) /\ r.ptr = s.ptr /\ r.bar = s.bar /\ r.friend = s.friend
SamePointers(r, s) == r.parent = s.parent /\ r.child = s.child /\ r.adj = s.adj /\ r.hadj = s.hadj

PutParent(r, x) == [r EXCEPT !.parent = x]
PutChild(r, x) == [r EXCEPT !.child = x]
PutAdj(r, x) == [r EXCEPT !.adj = x]
PutHadj(r, x) == [r EXCEPT !.hadj = x]
PutFriend(r, x) == [r EXCEPT !.friend = x]
PutFlags(r, x) == [r EXCEPT !.flags = x]
PutVisibility(r, x) == [r EXCEPT !.visible = x]
PutPtr(r, bar, b) == [r EXCEPT !.bar = bar, !.ptr = b]

-----------------------------------------------------------------------------
(* Controls: the invariant *)

\* An item that the server can name.
Known(i) == registry[items[i].id] = i

\* The item of an ID has it.
IdsFit(k) ==
  \A id \in k.ids : registry[id] # 0 => registry[id] \in 1..Len(items) /\ items[registry[id]].id = id

\* What is found by its widget can be named, and the other way round with the exception of MapsAgree.
WidgetsFit ==
  /\ \A i \in reversed : Known(i) /\ items[i].ptr /\ items[i].type # "adjustment"
  /\ \A i \in 1..Len(items) : Known(i) /\ items[i].type # "adjustment" =>
       \/ i \in reversed
       \/ items[i].type = "scrollbar" /\ \E a \in 1..Len(items) : ~Known(a) /\ items[a].type = "adjustment"

\* A control has a pointer until it is disposed, an adjustment while it has a bar.
PointersFit(k) ==
  \A i \in 1..Len(items) :
    /\ items[i].type # "adjustment" => (items[i].ptr <=> Known(i))
    /\ items[i].type = "adjustment" => (items[i].ptr <=> items[i].bar # Registry(k)!NoBar)

\* Only adjustments have a bar, and one of the controls that have bars.
BarsFit(k) ==
  \A i \in 1..Len(items) : items[i].bar # Registry(k)!NoBar =>
    /\ items[i].type = "adjustment" /\ items[i].bar.of \in 1..Len(items) /\ items[i].bar.since <= Len(items)
    /\ \/ items[i].bar.axis = "own" /\ items[items[i].bar.of].type = "scrollbar"
       \/ items[i].bar.axis \in {"h", "v"} /\ items[items[i].bar.of].type \in {"tree", "scrolled"}

\* A widget is gone only if a scrolled window deleted it, or a tree: then it was an edit that was disposed.
GoneForAReason ==
  \A i \in 1..Len(items) :
    i \in widgets \/ i \in dropped \/ items[i].type = "adjustment" \/ (items[i].type = "edit" /\ ~Known(i))

\* Pointers are at items: the friend of a tree is an edit, nothing is within an edit.
LinksFit ==
  \A i \in 1..Len(items) :
    /\ items[i].friend <= Len(items) /\ items[i].child <= Len(items) /\ items[i].parent <= Len(items)
    /\ items[i].type = "tree" /\ items[i].friend # 0 => items[items[i].friend].type = "edit"
    /\ items[i].child # 0 => items[items[i].child].type # "adjustment"
    /\ within[i] <= Len(items) /\ content[i] <= Len(items)
    /\ within[i] # 0 => items[within[i]].type # "edit"

\* An adjustment of an ID was given for the vertical axis or created in a control; was given for
\* the horizontal one.
GivenVertically(id) ==
  \E d \in 1..Len(items) : items[d].id = id /\ ("v" \in items[d].asked \/ items[d].made # 0)
GivenHorizontally(id) == \E d \in 1..Len(items) : items[d].id = id /\ "h" \in items[d].asked

\* Such are the IDs that controls have for their axes.
AskedFor ==
  \A i \in 1..Len(items) : items[i].type # "scrollbar" =>
    /\ items[i].adj # 0 => GivenVertically(items[i].adj)
    /\ items[i].hadj # 0 => GivenHorizontally(items[i].hadj)

\* Trees listen to edits.
TreesListen == listens \subseteq (1..Len(items)) \X (1..Len(items)) /\ \A l \in listens : items[l[2]].type = "tree"

\* What FaultIsExplained says of a null pointer, and of one that is followed.
NullFor(k, via) ==
  \/ via = "parent" /\ \E i \in 1..Len(items) : ~Known(i) /\ items[i].type \in {"scrollbar", "expander"}
  \/ via = "child" /\ \E b \in widgets : items[b].child \in 1..Len(items) /\ ~Known(items[b].child)
  \/ via = "absent" /\ \E id \in k.ids : registry[id] = 0
  \/ via = "name" /\ \E i \in 1..Len(items) : Known(i) /\ items[i].type = "adjustment" /\ ~items[i].ptr

Explained(k, f) ==
  /\ f.kind = "null" => NullFor(k, f.via)
  /\ f.kind = "freed" =>
       \/ dropped # {}
       \/ f.via = "friend" /\ \E t \in 1..Len(items) :
            Known(t) /\ items[t].type = "tree" /\ items[t].friend \in (1..Len(items)) \ widgets
  /\ f.kind = "cast" => \E i \in 1..Len(items) : Known(i) /\ items[i].type = "tree"

\* An adjustment of the ID of adjustment a was asked for on the axis of its bar.
BarAsked(a) ==
  \E d \in 1..Len(items) :
    /\ items[d].id = items[a].id
    /\ items[a].bar.axis \in items[d].asked \/ (items[a].bar.axis = "v" /\ items[d].made # 0)

\* The tree that is in the window whose bar it moves came later.
TreeCameLater(a, c) ==
  items[items[a].bar.of].type = "scrolled" /\ c \in widgets /\ items[c].type = "tree" /\ Known(c) =>
    c > items[a].bar.since

\* The bar of an adjustment is one that was asked for, and the tree did not come first.
BarsMeant ==
  \A a \in 1..Len(items) : items[a].bar.axis \in {"h", "v"} =>
    BarAsked(a) /\ TreeCameLater(a, content[items[a].bar.of])

RegistryTypes(k) ==
  /\ items \in Seq(Registry(k)!Item) /\ Len(items) <= k.max
  /\ registry \in [k.ids -> 0..k.max] /\ reversed \subseteq 1..Len(items) /\ widgets \subseteq 1..Len(items)
  /\ within \in Seq(Nat) /\ Len(within) = Len(items) /\ content \in Seq(Nat) /\ Len(content) = Len(items)
  /\ dropped \subseteq 1..Len(items)

\* The state without the pointer that was followed last.
RegistrySound(k) ==
  /\ RegistryTypes(k) /\ IdsFit(k) /\ WidgetsFit /\ PointersFit(k) /\ BarsFit(k) /\ GoneForAReason
  /\ LinksFit /\ AskedFor /\ TreesListen /\ BarsMeant

RegistryInv(k) == RegistrySound(k) /\ Explained(k, fault)

\* What a control ID finds is an item of that ID.
LEMMA NamedAreKnown ==
  ASSUME NEW k \in Registries, RegistryTypes(k), IdsFit(k)
  PROVE  /\ Registry(k)!Created = 1..Len(items) /\ Len(items) \in Nat
         /\ Registry(k)!Named = {i \in 1..Len(items) : Known(i)}
         /\ \A i \in 1..Len(items) : items[i] \in Registry(k)!Item
<1>1. Len(items) \in Nat /\ \A i \in 1..Len(items) : items[i] \in Registry(k)!Item
  BY ElementOfSeq, LenProperties DEF RegistryTypes
<1>2. ASSUME NEW i \in Registry(k)!Named PROVE i \in 1..Len(items) /\ Known(i)
  BY <1>2 DEF Registry!Named, IdsFit, Known
<1>3. ASSUME NEW i \in 1..Len(items), Known(i) PROVE i \in Registry(k)!Named
  <2>1. items[i].id \in k.ids
    BY <1>1, ItemFields
  <2> QED BY <1>3, <2>1 DEF Registry!Named, Known
<1> QED BY <1>1, <1>2, <1>3 DEF Registry!Created

\* What a handler meets at an item.
LEMMA FollowingIs ==
  ASSUME NEW k \in Registries, RegistrySound(k), NEW i \in 1..Len(items), NEW via,
         NEW f, f = Registry(k)!Following(i, via)
  PROVE  \/ f = Registry(k)!NoFault
         \/ f = [kind |-> "null", via |-> via] /\ ~items[i].ptr
         \/ f = [kind |-> "freed", via |-> via] /\ items[i].ptr /\ dropped # {}
<1>1. items[i] \in Registry(k)!Item
  BY NamedAreKnown DEF RegistrySound
<1>2. items[i].ptr \in BOOLEAN
  BY <1>1, ItemFields
<1>3. ASSUME items[i].ptr, Registry(k)!WidgetOf(i) \notin widgets PROVE dropped # {}
  <2>1. CASE items[i].type = "adjustment"
    <3>1. items[i].bar # Registry(k)!NoBar
      BY <1>3, <2>1 DEF RegistrySound, PointersFit
    <3>2. items[i].bar.of \in 1..Len(items) /\ items[items[i].bar.of].type \in {"tree", "scrolled", "scrollbar"}
      BY <3>1 DEF RegistrySound, BarsFit
    <3> QED BY <1>3, <2>1, <3>2 DEF RegistrySound, GoneForAReason, Registry!WidgetOf
  <2>2. CASE items[i].type # "adjustment"
    BY <1>3, <2>2 DEF RegistrySound, GoneForAReason, PointersFit, Registry!WidgetOf
  <2> QED BY <2>1, <2>2
<1> QED BY <1>2, <1>3 DEF Registry!Following

\* What is followed is explained if it is explained when it is null.
LEMMA FollowedIsExplained ==
  ASSUME NEW k \in Registries, RegistrySound(k), NEW i \in 1..Len(items), NEW via,
         items[i].ptr \/ NullFor(k, via)
  PROVE  Explained(k, Registry(k)!Following(i, via))
BY FollowingIs DEF Explained, Registry!NoFault

\* So is what is not followed.
LEMMA NoFaultIsExplained == ASSUME NEW k PROVE Explained(k, Registry(k)!NoFault)
BY DEF Explained, Registry!NoFault

\* What a tree is taken for.
LEMMA CastIsExplained ==
  ASSUME NEW k, NEW i \in 1..Len(items), Known(i), items[i].type = "tree", NEW via
  PROVE  Explained(k, [kind |-> "cast", via |-> via])
BY DEF Explained

\* What does not change stays sound.
LEMMA SoundStays ==
  ASSUME NEW k \in Registries, RegistrySound(k),
         UNCHANGED <<items, registry, reversed, widgets, within, content, listens, dropped>>
  PROVE  RegistrySound(k)'
<1>1. RegistryTypes(k)' /\ IdsFit(k)' /\ WidgetsFit' /\ PointersFit(k)'
  BY DEF RegistrySound, RegistryTypes, IdsFit, WidgetsFit, PointersFit, Known
<1>2. BarsFit(k)' /\ GoneForAReason' /\ LinksFit' /\ AskedFor'
  BY DEF RegistrySound, BarsFit, GoneForAReason, LinksFit, AskedFor, GivenVertically, GivenHorizontally, Known
<1>3. TreesListen' /\ BarsMeant'
  BY DEF RegistrySound, TreesListen, BarsMeant, BarAsked, TreeCameLater, Known
<1> QED BY <1>1, <1>2, <1>3 DEF RegistrySound

\* A registry that does not move is as it was.
LEMMA RegistryStays ==
  ASSUME NEW k \in Registries, RegistryInv(k), UNCHANGED registering
  PROVE  RegistryInv(k)'
<1>1. UNCHANGED <<items, registry, reversed, widgets, within, content, listens, dropped>> /\ fault' = fault
  BY DEF registering
<1>2. RegistrySound(k)'
  BY <1>1, SoundStays DEF RegistryInv
<1>3. Explained(k, fault)'
  BY <1>1 DEF RegistryInv, Explained, NullFor, Known
<1> QED BY <1>2, <1>3 DEF RegistryInv

\* A handler that follows a pointer to nothing changes nothing else.
LEMMA FailedIsSound ==
  ASSUME NEW k \in Registries, RegistrySound(k), NEW f, Registry(k)!Fails(f), Explained(k, f)
  PROVE  RegistryInv(k)'
<1>1. /\ fault' = f
      /\ UNCHANGED <<items, registry, reversed, widgets, within, content, listens, dropped>>
  BY DEF Registry!Fails
<1>2. RegistrySound(k)'
  BY <1>1, SoundStays
<1>3. Explained(k, fault)'
  BY <1>1 DEF Explained, NullFor, Known
<1> QED BY <1>2, <1>3 DEF RegistryInv

\* A handler that works follows no pointer to nothing.
LEMMA WorkedIsSound ==
  ASSUME NEW k \in Registries, RegistrySound(k)', fault' = Registry(k)!NoFault
  PROVE  RegistryInv(k)'
<1>1. Explained(k, fault)'
  BY DEF Explained, Registry!NoFault
<1> QED BY <1>1 DEF RegistryInv

-----------------------------------------------------------------------------
(* Controls: what a step keeps *)

\* The pointers of items and the places of widgets.
LEMMA LinksAreKept ==
  ASSUME NEW k \in Registries, RegistrySound(k), Len(items') = Len(items), UNCHANGED <<within, content>>,
         \A i \in 1..Len(items) :
           /\ items'[i].type = items[i].type /\ items'[i].friend = items[i].friend
           /\ items'[i].child = items[i].child,
         \A i \in 1..Len(items) : items'[i].parent <= Len(items)
  PROVE  LinksFit'
<1>1. RegistryTypes(k) /\ LinksFit /\ Len(items) \in Nat /\ \A i \in 1..Len(items) : items[i] \in Registry(k)!Item
  BY NamedAreKnown DEF RegistrySound
<1> SUFFICES ASSUME NEW i \in 1..Len(items)
             PROVE  /\ items'[i].friend <= Len(items) /\ items'[i].child <= Len(items)
                    /\ items'[i].parent <= Len(items)
                    /\ items'[i].type = "tree" /\ items'[i].friend # 0 => items'[items'[i].friend].type = "edit"
                    /\ items'[i].child # 0 => items'[items'[i].child].type # "adjustment"
                    /\ within[i] <= Len(items) /\ content[i] <= Len(items)
                    /\ within[i] # 0 => items'[within[i]].type # "edit"
  BY DEF LinksFit
<1>2. items[i].friend \in Nat /\ items[i].child \in Nat /\ items[i].parent \in Nat /\ within[i] \in Nat
  BY <1>1, ItemFields, ElementOfSeq DEF RegistryTypes
<1>3. \A j \in Nat : j <= Len(items) /\ j # 0 => items'[j].type = items[j].type
  BY <1>1
<1>4. /\ items[i].friend <= Len(items) /\ items[i].child <= Len(items) /\ items[i].parent <= Len(items)
      /\ items[i].type = "tree" /\ items[i].friend # 0 => items[items[i].friend].type = "edit"
      /\ items[i].child # 0 => items[items[i].child].type # "adjustment"
      /\ within[i] <= Len(items) /\ content[i] <= Len(items)
      /\ within[i] # 0 => items[within[i]].type # "edit"
  BY <1>1 DEF LinksFit
<1>5. items'[i].type = "tree" /\ items'[i].friend # 0 => items'[items'[i].friend].type = "edit"
  BY <1>2, <1>3, <1>4
<1>6. items'[i].child # 0 => items'[items'[i].child].type # "adjustment"
  BY <1>2, <1>3, <1>4
<1>7. within[i] # 0 => items'[within[i]].type # "edit"
  BY <1>2, <1>3, <1>4
<1>8. items'[i].friend <= Len(items) /\ items'[i].child <= Len(items) /\ items'[i].parent <= Len(items)
  BY <1>4
<1> QED BY <1>4, <1>5, <1>6, <1>7, <1>8

\* Who asked for adjustments.
LEMMA AskedIsKept ==
  ASSUME NEW k \in Registries, RegistrySound(k), Len(items') = Len(items),
         \A i \in 1..Len(items) :
           /\ items'[i].id = items[i].id /\ items'[i].type = items[i].type
           /\ items'[i].made = items[i].made /\ items'[i].asked = items[i].asked,
         \A i \in 1..Len(items) : items'[i].adj = items[i].adj /\ items'[i].hadj = items[i].hadj
  PROVE  AskedFor'
<1>1. \A id : GivenVertically(id) => GivenVertically(id)'
  BY DEF GivenVertically
<1>2. \A id : GivenHorizontally(id) => GivenHorizontally(id)'
  BY DEF GivenHorizontally
<1> QED BY <1>1, <1>2 DEF RegistrySound, AskedFor

\* The bar of an adjustment that keeps it, when no tree is found that was not.
LEMMA BarIsKept ==
  ASSUME NEW k \in Registries, RegistrySound(k), Len(items') = Len(items), widgets' \subseteq widgets,
         \A i \in 1..Len(items) : content'[i] \in {0, content[i]},
         \A i \in 1..Len(items) :
           /\ items'[i].id = items[i].id /\ items'[i].type = items[i].type
           /\ items'[i].made = items[i].made /\ items[i].asked \subseteq items'[i].asked,
         \A i \in 1..Len(items) : Known(i)' => Known(i),
         NEW a \in 1..Len(items), items'[a].bar = items[a].bar, items'[a].bar.axis \in {"h", "v"}
  PROVE  BarAsked(a)' /\ TreeCameLater(a, content[items[a].bar.of])'
<1>1. RegistryTypes(k) /\ BarsFit(k) /\ BarsMeant
  BY DEF RegistrySound
<1>2. BarAsked(a) /\ TreeCameLater(a, content[items[a].bar.of])
  BY <1>1 DEF BarsMeant
<1>3. BarAsked(a)'
  BY <1>2 DEF BarAsked
<1>4. TreeCameLater(a, content[items[a].bar.of])'
  <2> DEFINE of == items[a].bar.of
             c == content[of]
  <2>1. of \in 1..Len(items)
    <3>1. items[a].bar # Registry(k)!NoBar
      BY DEF Registry!NoBar
    <3> QED BY <1>1, <3>1 DEF BarsFit
  <2>2. of' = of /\ c' \in {0, c} /\ items'[a].bar.since = items[a].bar.since /\ items'[of].type = items[of].type
    BY <2>1
  <2>3. ASSUME c' \in widgets'
        PROVE  c' = c /\ c \in widgets /\ items'[c].type = items[c].type /\ (registry'[items'[c].id] = c => Known(c))
    <3>1. c' \in 1..Len(items) /\ c' \in widgets
      BY <1>1, <2>3 DEF RegistryTypes
    <3>2. c' = c
      BY <2>2, <3>1
    <3>3. \A d \in 1..Len(items) : items'[d].type = items[d].type /\ (registry'[items'[d].id] = d => Known(d))
      BY DEF Known
    <3> HIDE DEF c
    <3> QED BY <3>1, <3>2, <3>3
  <2>4. items[of].type = "scrolled" /\ c \in widgets /\ items[c].type = "tree" /\ Known(c) => c > items[a].bar.since
    BY <1>2 DEF TreeCameLater
  <2>5. TreeCameLater(a, c)' = (items'[of'].type = "scrolled" /\ c' \in widgets' /\ items'[c'].type = "tree"
                                  /\ registry'[items'[c'].id] = c' => c' > items'[a].bar.since)
    BY DEF TreeCameLater, Known
  <2> HIDE DEF of, c
  <2>6. TreeCameLater(a, c)'
    BY <2>2, <2>3, <2>4, <2>5
  <2> QED BY <2>6 DEF of, c
<1> QED BY <1>3, <1>4

\* A handler that changes no item but what nothing points at, and moves widgets.
LEMMA MovedIsSound ==
  ASSUME NEW k \in Registries, RegistrySound(k), items' \in Seq(Registry(k)!Item), Len(items') = Len(items),
         \A i \in 1..Len(items) : Likeness(items'[i], items[i]) /\ SamePointers(items'[i], items[i]),
         UNCHANGED <<registry, reversed, widgets, content, listens, dropped>>,
         within' \in Seq(Nat), Len(within') = Len(items),
         \A i \in 1..Len(items) : within'[i] <= Len(items) /\ (within'[i] # 0 => items[within'[i]].type # "edit")
  PROVE  RegistrySound(k)'
<1>1. /\ RegistryTypes(k) /\ IdsFit(k) /\ WidgetsFit /\ PointersFit(k) /\ BarsFit(k) /\ GoneForAReason
      /\ LinksFit /\ AskedFor /\ TreesListen /\ BarsMeant
  BY DEF RegistrySound
<1>2. Len(items) \in Nat /\ \A i \in 1..Len(items) : items[i] \in Registry(k)!Item
  BY <1>1, NamedAreKnown
<1>3. \A i \in 1..Len(items) : Known(i)' <=> Known(i)
  BY DEF Known, Likeness, SameNature
<1>4. RegistryTypes(k)'
  BY <1>1 DEF RegistryTypes
<1>5. IdsFit(k)'
  BY <1>1 DEF IdsFit, Likeness, SameNature
<1>6. WidgetsFit'
  BY <1>1, <1>3 DEF WidgetsFit, RegistryTypes, Likeness, SameNature
<1>7. PointersFit(k)'
  BY <1>1, <1>3 DEF PointersFit, Likeness, SameNature
<1>8. BarsFit(k)'
  <2> SUFFICES ASSUME NEW i \in 1..Len(items), items'[i].bar # Registry(k)!NoBar
               PROVE  /\ items'[i].type = "adjustment" /\ items'[i].bar.of \in 1..Len(items)
                      /\ items'[i].bar.since <= Len(items)
                      /\ \/ items'[i].bar.axis = "own" /\ items'[items'[i].bar.of].type = "scrollbar"
                         \/ items'[i].bar.axis \in {"h", "v"} /\ items'[items'[i].bar.of].type \in {"tree", "scrolled"}
    BY DEF BarsFit, Registry!NoBar
  <2>1. items'[i].bar = items[i].bar /\ items'[i].type = items[i].type
    BY DEF Likeness, SameNature
  <2>2. \A j \in 1..Len(items) : items'[j].type = items[j].type
    BY DEF Likeness, SameNature
  <2>3. /\ items[i].type = "adjustment" /\ items[i].bar.of \in 1..Len(items) /\ items[i].bar.since <= Len(items)
        /\ \/ items[i].bar.axis = "own" /\ items[items[i].bar.of].type = "scrollbar"
           \/ items[i].bar.axis \in {"h", "v"} /\ items[items[i].bar.of].type \in {"tree", "scrolled"}
    <3>1. BarsFit(k) /\ items[i].bar # Registry(k)!NoBar
      BY <1>1, <2>1
    <3> QED BY <3>1 DEF BarsFit
  <2>4. items'[items[i].bar.of].type = items[items[i].bar.of].type
    BY <2>2, <2>3
  <2> QED BY <2>1, <2>3, <2>4
<1>9. GoneForAReason'
  BY <1>1, <1>3 DEF GoneForAReason, Likeness, SameNature
<1>10. LinksFit'
  <2> SUFFICES ASSUME NEW i \in 1..Len(items)
               PROVE  /\ items'[i].friend <= Len(items) /\ items'[i].child <= Len(items)
                      /\ items'[i].parent <= Len(items)
                      /\ items'[i].type = "tree" /\ items'[i].friend # 0 => items'[items'[i].friend].type = "edit"
                      /\ items'[i].child # 0 => items'[items'[i].child].type # "adjustment"
                      /\ within'[i] <= Len(items) /\ content[i] <= Len(items)
                      /\ within'[i] # 0 => items'[within'[i]].type # "edit"
    BY DEF LinksFit
  <2>1. items[i].friend \in Nat /\ items[i].child \in Nat /\ items[i].parent \in Nat /\ within'[i] \in Nat
    BY <1>2, ItemFields, ElementOfSeq
  <2>2. /\ items'[i].friend = items[i].friend /\ items'[i].child = items[i].child
        /\ items'[i].parent = items[i].parent
        /\ items'[i].type = items[i].type
    BY DEF Likeness, SameNature, SamePointers
  <2>3. \A j \in Nat : j <= Len(items) /\ j # 0 => items'[j].type = items[j].type
    BY <1>2 DEF Likeness, SameNature
  <2>4. /\ items[i].friend <= Len(items) /\ items[i].child <= Len(items) /\ items[i].parent <= Len(items)
        /\ items[i].type = "tree" /\ items[i].friend # 0 => items[items[i].friend].type = "edit"
        /\ items[i].child # 0 => items[items[i].child].type # "adjustment"
        /\ content[i] <= Len(items)
    BY <1>1 DEF LinksFit
  <2>5. items'[i].type = "tree" /\ items'[i].friend # 0 => items'[items'[i].friend].type = "edit"
    BY <2>1, <2>2, <2>3, <2>4
  <2>6. items'[i].child # 0 => items'[items'[i].child].type # "adjustment"
    BY <2>1, <2>2, <2>3, <2>4
  <2>7. within'[i] # 0 => items'[within'[i]].type # "edit"
    BY <2>1, <2>3
  <2>8. within'[i] <= Len(items)
    OBVIOUS
  <2>9. items'[i].friend <= Len(items) /\ items'[i].child <= Len(items) /\ items'[i].parent <= Len(items)
    BY <1>2, <2>1, <2>2, <2>4
  <2> QED BY <2>4, <2>5, <2>6, <2>7, <2>8, <2>9
<1>11. AskedFor'
  <2>1. \A i \in 1..Len(items) :
          /\ items'[i].id = items[i].id /\ items'[i].type = items[i].type
          /\ items'[i].made = items[i].made /\ items'[i].asked = items[i].asked
    BY DEF Likeness, SameNature
  <2>2. \A i \in 1..Len(items) : items'[i].adj = items[i].adj /\ items'[i].hadj = items[i].hadj
    BY DEF SamePointers
  <2> QED BY <2>1, <2>2, AskedIsKept
<1>12. TreesListen'
  BY <1>1 DEF TreesListen, Likeness, SameNature
<1>13. BarsMeant'
  <2> SUFFICES ASSUME NEW a \in 1..Len(items), items'[a].bar.axis \in {"h", "v"}
               PROVE  BarAsked(a)' /\ TreeCameLater(a, content[items[a].bar.of])'
    BY DEF BarsMeant
  <2>1. items'[a].bar = items[a].bar
    BY DEF Likeness
  <2>2. \A i \in 1..Len(items) : content'[i] \in {0, content[i]}
    OBVIOUS
  <2>3. \A i \in 1..Len(items) : Known(i)' => Known(i)
    BY <1>3
  <2>4. \A i \in 1..Len(items) :
          /\ items'[i].id = items[i].id /\ items'[i].type = items[i].type
          /\ items'[i].made = items[i].made /\ items[i].asked \subseteq items'[i].asked
    BY DEF Likeness, SameNature
  <2> QED BY <2>1, <2>2, <2>3, <2>4, BarIsKept
<1> QED BY <1>4, <1>5, <1>6, <1>7, <1>8, <1>9, <1>10, <1>11, <1>12, <1>13 DEF RegistrySound

-----------------------------------------------------------------------------
(* Controls: the handlers that only follow pointers *)

\* What can be named has a pointer, unless it is an adjustment.
LEMMA NamedHasPointer ==
  ASSUME NEW k \in Registries, RegistrySound(k), NEW i \in Registry(k)!Named
  PROVE  /\ i \in 1..Len(items) /\ Known(i) /\ items[i] \in Registry(k)!Item
         /\ items[i].type # "adjustment" => items[i].ptr
         /\ items[i].parent \in 0..Len(items) /\ items[i].child \in 0..Len(items)
         /\ items[i].friend \in 0..Len(items)
<1>1. i \in 1..Len(items) /\ Known(i) /\ items[i] \in Registry(k)!Item /\ Len(items) \in Nat
  BY NamedAreKnown DEF RegistrySound
<1>2. items[i].parent \in Nat /\ items[i].child \in Nat /\ items[i].friend \in Nat
  BY <1>1, ItemFields
<1>3. items[i].parent <= Len(items) /\ items[i].child <= Len(items) /\ items[i].friend <= Len(items)
  BY <1>1 DEF RegistrySound, LinksFit
<1> QED BY <1>1, <1>2, <1>3 DEF RegistrySound, PointersFit

\* P_LOWER, P_UPPER and the others: what is null is a scroll bar that was disposed.
LEMMA SetRangeIsSound ==
  ASSUME NEW k \in Registries, RegistrySound(k), NEW a \in Registry(k)!Named, Registry(k)!SetRange(a)
  PROVE  RegistryInv(k)'
<1> DEFINE p == items[a].parent
           bar == items[a].bar.of
           f == CASE items[p].type = "scrollbar" -> Registry(k)!Following(p, "parent")
                  [] items[p].type # "scrollbar" /\ bar # 0 /\ bar \notin widgets -> [kind |-> "freed", via |-> "bar"]
                  [] OTHER -> Registry(k)!NoFault
<1>1. Registry(k)!Fails(f) /\ p # 0
  BY DEF Registry!SetRange
<1>2. a \in 1..Len(items) /\ p \in 1..Len(items)
  BY <1>1, NamedHasPointer
<1>3. Explained(k, f)
  <2>1. CASE items[p].type = "scrollbar"
    <3>1. items[p].ptr \/ NullFor(k, "parent")
      BY <1>2, <2>1 DEF RegistrySound, PointersFit, NullFor
    <3>2. f = Registry(k)!Following(p, "parent")
      BY <2>1
    <3> QED BY <1>2, <3>1, <3>2, FollowedIsExplained
  <2>2. CASE items[p].type # "scrollbar" /\ bar # 0 /\ bar \notin widgets
    <3>1. items[a].bar # Registry(k)!NoBar
      BY <2>2 DEF Registry!NoBar
    <3>2. bar \in 1..Len(items) /\ items[bar].type \in {"tree", "scrolled", "scrollbar"}
      BY <1>2, <3>1 DEF RegistrySound, BarsFit
    <3>3. dropped # {}
      BY <2>2, <3>2 DEF RegistrySound, GoneForAReason
    <3> QED BY <2>2, <3>3 DEF Explained
  <2>3. CASE items[p].type # "scrollbar" /\ ~(bar # 0 /\ bar \notin widgets)
    <3>1. f = Registry(k)!NoFault
      BY <2>3
    <3> QED BY <3>1, NoFaultIsExplained
  <2> QED BY <2>1, <2>2, <2>3
<1> HIDE DEF f
<1> QED BY <1>1, <1>3, FailedIsSound

\* P_PACKING: what is null is an expander that was disposed.
LEMMA SetPackingIsSound ==
  ASSUME NEW k \in Registries, RegistrySound(k), NEW i \in Registry(k)!Named, Registry(k)!SetPacking(i)
  PROVE  RegistryInv(k)'
<1> DEFINE p == items[i].parent
<1>1. Registry(k)!Fails(Registry(k)!Following(p, "parent")) /\ p # 0 /\ items[p].type = "expander"
  BY DEF Registry!SetPacking
<1>2. p \in 1..Len(items)
  BY <1>1, NamedHasPointer
<1>3. items[p].ptr \/ NullFor(k, "parent")
  BY <1>1, <1>2 DEF RegistrySound, PointersFit, NullFor
<1> QED BY <1>1, <1>2, <1>3, FollowedIsExplained, FailedIsSound

\* P_DEFAULTCONTROL: what is null is a control that is not there.
LEMMA SetDefaultIsSound ==
  ASSUME NEW k \in Registries, RegistrySound(k), NEW i, NEW id \in k.ids, Registry(k)!SetDefault(i, id)
  PROVE  RegistryInv(k)'
<1> DEFINE f == IF registry[id] = 0 THEN [kind |-> "null", via |-> "absent"]
                ELSE IF items[registry[id]].type = "button" THEN Registry(k)!Following(registry[id], "name")
                     ELSE Registry(k)!NoFault
<1>1. Registry(k)!Fails(f)
  BY DEF Registry!SetDefault
<1>2. Explained(k, f)
  <2>1. CASE registry[id] = 0
    BY <2>1 DEF Explained, NullFor
  <2>2. CASE registry[id] # 0 /\ items[registry[id]].type = "button"
    <3>1. registry[id] \in Registry(k)!Named
      BY <2>2 DEF Registry!Named
    <3>2. registry[id] \in 1..Len(items) /\ items[registry[id]].ptr
      BY <2>2, <3>1, NamedHasPointer
    <3>3. f = Registry(k)!Following(registry[id], "name")
      BY <2>2
    <3> QED BY <3>2, <3>3, FollowedIsExplained
  <2>3. CASE registry[id] # 0 /\ items[registry[id]].type # "button"
    <3>1. f = Registry(k)!NoFault
      BY <2>3
    <3> QED BY <3>1, NoFaultIsExplained
  <2> QED BY <2>1, <2>2, <2>3
<1> HIDE DEF f
<1> QED BY <1>1, <1>2, FailedIsSound

\* CustomButton::sizeHint: what is null is a child that was disposed.
LEMMA SizeHintIsSound ==
  ASSUME NEW k \in Registries, RegistrySound(k), NEW b \in Registry(k)!Created, Registry(k)!SizeHint(b)
  PROVE  RegistryInv(k)'
<1> DEFINE c == items[b].child
<1>1. Registry(k)!Fails(Registry(k)!Following(c, "child")) /\ c # 0 /\ b \in widgets
  BY DEF Registry!SizeHint
<1>2. c \in 1..Len(items) /\ items[c].type # "adjustment"
  <2>1. b \in 1..Len(items) /\ Len(items) \in Nat /\ items[b] \in Registry(k)!Item
    BY NamedAreKnown DEF RegistrySound
  <2>2. c \in Nat
    BY <2>1, ItemFields
  <2>3. c <= Len(items) /\ items[c].type # "adjustment"
    BY <1>1, <2>1 DEF RegistrySound, LinksFit
  <2> QED BY <1>1, <2>1, <2>2, <2>3
<1>3. items[c].ptr \/ NullFor(k, "child")
  BY <1>1, <1>2 DEF RegistrySound, PointersFit, NullFor
<1> QED BY <1>1, <1>2, <1>3, FollowedIsExplained, FailedIsSound

\* on_textEdited: a tree that was disposed is left alone.
LEMMA TypeTextIsSound ==
  ASSUME NEW k \in Registries, RegistrySound(k), NEW e, Registry(k)!TypeText(e)
  PROVE  RegistryInv(k)'
<1>1. PICK t \in {l[2] : l \in {m \in listens : m[1] = e}} :
        items[t].ptr /\ Registry(k)!Fails(Registry(k)!Following(t, "listener"))
  BY DEF Registry!TypeText
<1>2. t \in 1..Len(items)
  BY <1>1 DEF RegistrySound, TreesListen
<1> QED BY <1>1, <1>2, FollowedIsExplained, FailedIsSound

\* keyPressEvent: so is one that the edit knows.
LEMMA KeyDownIsSound ==
  ASSUME NEW k \in Registries, RegistrySound(k), NEW e, Registry(k)!KeyDown(e)
  PROVE  RegistryInv(k)'
<1> DEFINE t == items[e].friend
<1>1. t \in reversed /\ Registry(k)!Fails(Registry(k)!Following(t, "friend"))
  BY DEF Registry!KeyDown
<1>2. t \in 1..Len(items) /\ items[t].ptr
  BY <1>1 DEF RegistrySound, RegistryTypes, WidgetsFit
<1> QED BY <1>1, <1>2, FollowedIsExplained, FailedIsSound

-----------------------------------------------------------------------------
(* Controls: the handlers that move widgets *)

PutItem(its, i, x) == [its EXCEPT ![i] = x]

\* Sequence new is sequence its with x in place i.
Rewritten(new, its, i, x) ==
  Len(new) = Len(its) /\ new[i] = x /\ \A j \in 1..Len(its) : j # i => new[j] = its[j]

\* Items with another one in a place.
LEMMA ItemIsWritten ==
  ASSUME NEW k, NEW its \in Seq(Registry(k)!Item), NEW i \in 1..Len(its), NEW x \in Registry(k)!Item
  PROVE  PutItem(its, i, x) \in Seq(Registry(k)!Item) /\ Rewritten(PutItem(its, i, x), its, i, x)
BY DEF PutItem, Rewritten

\* One item gets what nothing asks for here.
LEMMA NothingChanges ==
  ASSUME NEW k \in Registries, RegistrySound(k), NEW p \in 1..Len(items), NEW x \in Registry(k)!Item,
         Likeness(x, items[p]), SamePointers(x, items[p]),
         items' \in Seq(Registry(k)!Item), Rewritten(items', items, p, x),
         UNCHANGED <<registry, reversed, widgets, within, content, listens, dropped>>
  PROVE  RegistrySound(k)'
<1>1. Len(items') = Len(items) /\ items'[p] = x /\ \A j \in 1..Len(items) : j # p => items'[j] = items[j]
  BY DEF Rewritten
<1>2. \A i \in 1..Len(items) : Likeness(items'[i], items[i]) /\ SamePointers(items'[i], items[i])
  BY <1>1 DEF Likeness, SameNature, SamePointers
<1>3. /\ within' \in Seq(Nat) /\ Len(within') = Len(items)
      /\ \A i \in 1..Len(items) : within'[i] <= Len(items) /\ (within'[i] # 0 => items[within'[i]].type # "edit")
  BY DEF RegistrySound, RegistryTypes, LinksFit
<1> QED BY <1>1, <1>2, <1>3, MovedIsSound

SetFlags(its, p) == [its EXCEPT ![p].flags = TRUE]
SetShown(its, i, b) == [its EXCEPT ![i].visible = b]

\* P_LEFT and P_TOP: the parent that is taken for a layout is a tree.
LEMMA SetPositionIsSound ==
  ASSUME NEW k \in Registries, RegistrySound(k), fault = Registry(k)!NoFault, NEW i \in Registry(k)!Named,
         Registry(k)!SetPosition(i)
  PROVE  RegistryInv(k)'
<1> DEFINE p == items[i].parent
           f == IF p = 0 \/ ~items[p].ptr THEN Registry(k)!NoFault
                ELSE IF items[p].type = "tree" THEN [kind |-> "cast", via |-> "parent"] ELSE Registry(k)!NoFault
           own == IF f # Registry(k)!NoFault THEN f ELSE Registry(k)!Following(i, "name")
<1>1. /\ items[i].ptr
      /\ \/ Registry(k)!Fails(own)
         \/ /\ Registry(k)!Works(own)
            /\ p # 0 /\ items' = SetFlags(items, p)
            /\ UNCHANGED <<registry, reversed, widgets, within, content, listens, dropped>>
  BY Zenon DEF Registry!SetPosition, SetFlags
<1>2. i \in 1..Len(items) /\ p \in 0..Len(items) /\ Len(items) \in Nat
  BY NamedHasPointer, NamedAreKnown DEF RegistrySound
<1>3. Explained(k, own)
  <2>1. CASE f # Registry(k)!NoFault
    <3>1. p # 0 /\ items[p].ptr /\ items[p].type = "tree" /\ own = [kind |-> "cast", via |-> "parent"]
      BY <2>1
    <3>2. p \in 1..Len(items) /\ Known(p)
      BY <1>2, <3>1 DEF RegistrySound, PointersFit
    <3> QED BY <3>1, <3>2, CastIsExplained
  <2>2. CASE f = Registry(k)!NoFault
    <3>1. own = Registry(k)!Following(i, "name")
      BY <2>2
    <3> QED BY <1>1, <1>2, <3>1, FollowedIsExplained
  <2> QED BY <2>1, <2>2
<1> HIDE DEF own
<1>4. CASE Registry(k)!Fails(own)
  BY <1>3, <1>4, FailedIsSound
<1>5. CASE /\ Registry(k)!Works(own) /\ p # 0 /\ items' = SetFlags(items, p)
           /\ UNCHANGED <<registry, reversed, widgets, within, content, listens, dropped>>
  <2> DEFINE x == PutFlags(items[p], TRUE)
  <2>1. p \in 1..Len(items) /\ items[p] \in Registry(k)!Item
    BY <1>2, <1>5, NamedAreKnown DEF RegistrySound
  <2>2. x \in Registry(k)!Item /\ Likeness(x, items[p]) /\ SamePointers(x, items[p])
    BY <2>1 DEF PutFlags, Registry!Item, Likeness, SameNature, SamePointers
  <2>3. items' \in Seq(Registry(k)!Item) /\ Rewritten(items', items, p, x)
    <3>1. SetFlags(items, p) = PutItem(items, p, x)
      BY Zenon DEF SetFlags, PutItem, PutFlags
    <3>2. items \in Seq(Registry(k)!Item)
      BY DEF RegistrySound, RegistryTypes
    <3> HIDE DEF x, p
    <3>3. PutItem(items, p, x) \in Seq(Registry(k)!Item) /\ Rewritten(PutItem(items, p, x), items, p, x)
      BY <2>1, <2>2, <3>2, ItemIsWritten
    <3> QED BY <1>5, <3>1, <3>3
  <2> HIDE DEF x, p
  <2>4. RegistrySound(k)'
    BY <1>5, <2>1, <2>2, <2>3, NothingChanges
  <2>5. fault' = Registry(k)!NoFault
    BY <1>5 DEF Registry!Works
  <2> QED BY <2>4, <2>5, WorkedIsSound
<1> QED BY <1>1, <1>4, <1>5

\* P_VISIBLE: what is null is an adjustment that has no bar.
LEMMA SetVisibleIsSound ==
  ASSUME NEW k \in Registries, RegistrySound(k), fault = Registry(k)!NoFault, NEW i \in Registry(k)!Named,
         NEW shown \in BOOLEAN, Registry(k)!SetVisible(i, shown)
  PROVE  RegistryInv(k)'
<1> DEFINE p == items[i].parent
           f == IF items[p].ptr THEN Registry(k)!Following(i, "name") ELSE Registry(k)!NoFault
<1>1. \/ Registry(k)!Fails(f)
      \/ /\ Registry(k)!Works(f)
         /\ items' = SetShown(items, i, shown)
         /\ UNCHANGED <<registry, reversed, widgets, within, content, listens, dropped>>
  BY Zenon DEF Registry!SetVisible, SetShown
<1>2. i \in 1..Len(items) /\ items[i] \in Registry(k)!Item
  BY NamedHasPointer
<1>3. Explained(k, f)
  <2>1. items[i].ptr \/ NullFor(k, "name")
    BY NamedHasPointer DEF NullFor
  <2>2. CASE items[p].ptr
    BY <1>2, <2>1, <2>2, FollowedIsExplained
  <2>3. CASE ~items[p].ptr
    BY <2>3, NoFaultIsExplained
  <2> QED BY <2>2, <2>3
<1> HIDE DEF f
<1>4. CASE Registry(k)!Fails(f)
  BY <1>3, <1>4, FailedIsSound
<1>5. CASE /\ Registry(k)!Works(f) /\ items' = SetShown(items, i, shown)
           /\ UNCHANGED <<registry, reversed, widgets, within, content, listens, dropped>>
  <2> DEFINE x == PutVisibility(items[i], shown)
  <2>1. x \in Registry(k)!Item /\ Likeness(x, items[i]) /\ SamePointers(x, items[i])
    BY <1>2 DEF PutVisibility, Registry!Item, Likeness, SameNature, SamePointers
  <2>2. items' \in Seq(Registry(k)!Item) /\ Rewritten(items', items, i, x)
    <3>1. SetShown(items, i, shown) = PutItem(items, i, x)
      BY Zenon DEF SetShown, PutItem, PutVisibility
    <3>2. items \in Seq(Registry(k)!Item)
      BY DEF RegistrySound, RegistryTypes
    <3> HIDE DEF x
    <3>3. PutItem(items, i, x) \in Seq(Registry(k)!Item) /\ Rewritten(PutItem(items, i, x), items, i, x)
      BY <1>2, <2>1, <3>2, ItemIsWritten
    <3> QED BY <1>5, <3>1, <3>3
  <2> HIDE DEF x
  <2>3. RegistrySound(k)'
    BY <1>2, <1>5, <2>1, <2>2, NothingChanges
  <2>4. fault' = Registry(k)!NoFault
    BY <1>5 DEF Registry!Works
  <2> QED BY <2>3, <2>4, WorkedIsSound
<1> QED BY <1>1, <1>4, <1>5

\* P_PARENT: nothing is put within an edit.
LEMMA SetParentIsSound ==
  ASSUME NEW k \in Registries, RegistrySound(k), fault = Registry(k)!NoFault, NEW i \in Registry(k)!Named, NEW j,
         Registry(k)!SetParent(i, j)
  PROVE  RegistryInv(k)'
<1> DEFINE own == Registry(k)!Following(i, "name")
           other == Registry(k)!Following(j, "name")
           f == IF own # Registry(k)!NoFault THEN own
                ELSE IF j # 0 /\ other # Registry(k)!NoFault THEN other
                ELSE IF j # 0 /\ items[j].type = "tree" THEN [kind |-> "cast", via |-> "name"] ELSE Registry(k)!NoFault
<1>1. /\ items[i].type \in k.moved /\ j \in Registry(k)!Containers \cup {0}
      /\ \/ Registry(k)!Fails(f)
         \/ /\ Registry(k)!Works(f)
            /\ within' = [within EXCEPT ![i] = j]
            /\ UNCHANGED <<items, registry, reversed, widgets, content, listens, dropped>>
  BY DEF Registry!SetParent
<1>2. i \in 1..Len(items) /\ items[i].ptr /\ Len(items) \in Nat
  BY <1>1, NamedHasPointer, RegistryConstants, NamedAreKnown DEF RegistrySound
<1>3. j # 0 => /\ j \in 1..Len(items) /\ Known(j) /\ items[j].ptr /\ items[j].type \notin {"edit", "adjustment"}
  <2>1. j # 0 => j \in Registry(k)!Named /\ items[j].type \in k.parents
    BY <1>1 DEF Registry!Containers
  <2>2. j # 0 => items[j].type \notin {"edit", "adjustment"}
    BY <2>1, RegistryConstants
  <2> QED BY <2>1, <2>2, NamedHasPointer
<1>4. Explained(k, f)
  <2>1. Explained(k, own)
    BY <1>2, FollowedIsExplained
  <2>2. j # 0 => Explained(k, other)
    BY <1>3, FollowedIsExplained
  <2>3. j # 0 /\ items[j].type = "tree" => Explained(k, [kind |-> "cast", via |-> "name"])
    BY <1>3, CastIsExplained
  <2>4. Explained(k, Registry(k)!NoFault)
    BY NoFaultIsExplained
  <2> HIDE DEF own, other
  <2> QED BY <2>1, <2>2, <2>3, <2>4
<1> HIDE DEF f
<1>5. CASE Registry(k)!Fails(f)
  BY <1>4, <1>5, FailedIsSound
<1>6. CASE /\ Registry(k)!Works(f) /\ within' = [within EXCEPT ![i] = j]
           /\ UNCHANGED <<items, registry, reversed, widgets, content, listens, dropped>>
  <2>1. within \in Seq(Nat) /\ Len(within) = Len(items) /\ items \in Seq(Registry(k)!Item)
    BY DEF RegistrySound, RegistryTypes
  <2>2. j \in Nat /\ j <= Len(items)
    BY <1>2, <1>3
  <2>3. /\ within' \in Seq(Nat) /\ Len(within') = Len(items)
        /\ within'[i] = j /\ \A l \in 1..Len(items) : l # i => within'[l] = within[l]
    BY <1>2, <1>6, <2>1, <2>2
  <2>4. \A l \in 1..Len(items) : within'[l] <= Len(items) /\ (within'[l] # 0 => items[within'[l]].type # "edit")
    BY <1>3, <2>2, <2>3 DEF RegistrySound, LinksFit
  <2>5. \A l \in 1..Len(items) : Likeness(items'[l], items[l]) /\ SamePointers(items'[l], items[l])
    BY <1>6 DEF Likeness, SameNature, SamePointers
  <2>6. items' \in Seq(Registry(k)!Item) /\ Len(items') = Len(items)
    BY <1>6, <2>1
  <2>7. RegistrySound(k)'
    BY <1>6, <2>3, <2>4, <2>5, <2>6, MovedIsSound
  <2>8. fault' = Registry(k)!NoFault
    BY <1>6 DEF Registry!Works
  <2> QED BY <2>7, <2>8, WorkedIsSound
<1> QED BY <1>1, <1>5, <1>6

-----------------------------------------------------------------------------
(* Controls: adjustments *)

\* A bar that an adjustment may be given.
BarIsSound(i, bar) ==
  /\ bar.of \in 1..Len(items) /\ bar.since <= Len(items)
  /\ \/ bar.axis = "own" /\ items[bar.of].type = "scrollbar"
     \/ bar.axis \in {"h", "v"} /\ items[bar.of].type \in {"tree", "scrolled"}

\* The handlers of adjustments write who asked for what, and the bar.
LEMMA AdjustedIsSound ==
  ASSUME NEW k \in Registries, RegistrySound(k), items' \in Seq(Registry(k)!Item), Len(items') = Len(items),
         UNCHANGED <<registry, reversed, widgets, within, content, listens, dropped>>,
         \A i \in 1..Len(items) :
           /\ items'[i].id = items[i].id /\ items'[i].type = items[i].type /\ items'[i].made = items[i].made
           /\ items'[i].friend = items[i].friend /\ items'[i].child = items[i].child,
         \A i \in 1..Len(items) : items[i].asked \subseteq items'[i].asked /\ items'[i].parent <= Len(items),
         \A i \in 1..Len(items) : items[i].type # "adjustment" =>
           items'[i].ptr = items[i].ptr /\ items'[i].bar = items[i].bar,
         \A i \in 1..Len(items) : items[i].type = "adjustment" =>
           (items'[i].ptr <=> items'[i].bar # Registry(k)!NoBar),
         \A i \in 1..Len(items) : items'[i].type # "scrollbar" =>
           /\ items'[i].adj \in {0, items[i].adj} \/ GivenVertically(items[i].adj)'
           /\ items'[i].hadj \in {0, items[i].hadj} \/ GivenHorizontally(items[i].hadj)',
         \A i \in 1..Len(items) : items'[i].bar # items[i].bar =>
           /\ items[i].type = "adjustment" /\ BarIsSound(i, items'[i].bar)
           /\ items'[i].bar.axis \in {"h", "v"} => BarAsked(i)' /\ TreeCameLater(i, content[items[i].bar.of])'
  PROVE  RegistrySound(k)'
<1>1. /\ RegistryTypes(k) /\ IdsFit(k) /\ WidgetsFit /\ PointersFit(k) /\ BarsFit(k) /\ GoneForAReason
      /\ LinksFit /\ AskedFor /\ TreesListen /\ BarsMeant
  BY DEF RegistrySound
<1>2. Len(items) \in Nat /\ \A i \in 1..Len(items) : items[i] \in Registry(k)!Item
  BY <1>1, NamedAreKnown
<1>3. \A i \in 1..Len(items) : Known(i)' <=> Known(i)
  BY DEF Known
<1>4. RegistryTypes(k)'
  BY <1>1 DEF RegistryTypes
<1>5. IdsFit(k)'
  BY <1>1 DEF IdsFit
<1>6. WidgetsFit'
  <2>1. \A i \in reversed : i \in 1..Len(items) /\ Known(i) /\ items[i].ptr /\ items[i].type # "adjustment"
    BY <1>1 DEF WidgetsFit, RegistryTypes
  <2>2. \A i \in reversed : Known(i)' /\ items'[i].ptr /\ items'[i].type # "adjustment"
    BY <1>3, <2>1
  <2>3. ASSUME NEW i \in 1..Len(items), Known(i)', items'[i].type # "adjustment"
        PROVE  \/ i \in reversed
               \/ items'[i].type = "scrollbar" /\ \E a \in 1..Len(items) : ~Known(a)' /\ items'[a].type = "adjustment"
    BY <1>1, <1>3, <2>3 DEF WidgetsFit
  <2> QED BY <2>2, <2>3 DEF WidgetsFit
<1>7. PointersFit(k)'
  <2>1. ASSUME NEW i \in 1..Len(items), items'[i].type # "adjustment" PROVE items'[i].ptr <=> Known(i)'
    BY <1>1, <1>3, <2>1 DEF PointersFit
  <2>2. ASSUME NEW i \in 1..Len(items), items'[i].type = "adjustment"
        PROVE  items'[i].ptr <=> items'[i].bar # Registry(k)!NoBar
    BY <2>2
  <2>3. Len(items)' = Len(items) /\ Registry(k)!NoBar' = Registry(k)!NoBar
    BY DEF Registry!NoBar
  <2> QED BY <2>1, <2>2, <2>3 DEF PointersFit
<1>8. BarsFit(k)'
  <2> SUFFICES ASSUME NEW i \in 1..Len(items), items'[i].bar # Registry(k)!NoBar
               PROVE  /\ items'[i].type = "adjustment" /\ items'[i].bar.of \in 1..Len(items)
                      /\ items'[i].bar.since <= Len(items)
                      /\ \/ items'[i].bar.axis = "own" /\ items'[items'[i].bar.of].type = "scrollbar"
                         \/ items'[i].bar.axis \in {"h", "v"} /\ items'[items'[i].bar.of].type \in {"tree", "scrolled"}
    BY DEF BarsFit, Registry!NoBar
  <2>1. items[i].type = "adjustment" /\ BarIsSound(i, items'[i].bar)
    <3>1. CASE items'[i].bar = items[i].bar
      BY <1>1, <3>1 DEF BarsFit, BarIsSound
    <3>2. CASE items'[i].bar # items[i].bar
      BY <3>2
    <3> QED BY <3>1, <3>2
  <2> QED BY <2>1 DEF BarIsSound
<1>9. GoneForAReason'
  BY <1>1, <1>3 DEF GoneForAReason
<1>10. LinksFit'
  BY LinksAreKept
<1>11. AskedFor'
  <2>1. \A id : GivenVertically(id) => GivenVertically(id)'
    BY DEF GivenVertically
  <2>2. \A id : GivenHorizontally(id) => GivenHorizontally(id)'
    BY DEF GivenHorizontally
  <2>3. ASSUME NEW i \in 1..Len(items), items'[i].type # "scrollbar"
        PROVE  /\ items'[i].adj # 0 => GivenVertically(items[i].adj)'
               /\ items'[i].hadj # 0 => GivenHorizontally(items[i].hadj)'
    BY <1>1, <2>1, <2>2, <2>3 DEF AskedFor
  <2> QED BY <2>3 DEF AskedFor
<1>12. TreesListen'
  BY <1>1 DEF TreesListen
<1>13. BarsMeant'
  <2> SUFFICES ASSUME NEW a \in 1..Len(items), items'[a].bar.axis \in {"h", "v"}
               PROVE  BarAsked(a)' /\ TreeCameLater(a, content[items[a].bar.of])'
    BY DEF BarsMeant
  <2>1. CASE items'[a].bar # items[a].bar
    BY <2>1
  <2>2. CASE items'[a].bar = items[a].bar
    <3>1. \A i \in 1..Len(items) : content'[i] \in {0, content[i]}
      OBVIOUS
    <3>2. \A i \in 1..Len(items) : Known(i)' => Known(i)
      BY <1>3
    <3>3. \A i \in 1..Len(items) :
            /\ items'[i].id = items[i].id /\ items'[i].type = items[i].type
            /\ items'[i].made = items[i].made /\ items[i].asked \subseteq items'[i].asked
      OBVIOUS
    <3> QED BY <2>2, <3>1, <3>2, <3>3, BarIsKept
  <2> QED BY <2>1, <2>2
<1> QED BY <1>4, <1>5, <1>6, <1>7, <1>8, <1>9, <1>10, <1>11, <1>12, <1>13 DEF RegistrySound

SetHadj(its, p, id) == [its EXCEPT ![p].hadj = id]
SetAdj(its, p, id) == [its EXCEPT ![p].adj = id]
SetGiven(its, a, p, axis) == [its EXCEPT ![a].parent = p, ![a].asked = @ \cup {axis}]
SetBar(its, a, bar, b) == [its EXCEPT ![a].bar = bar, ![a].ptr = b]
PutGiven(r, p, axis) == [r EXCEPT !.parent = p, !.asked = @ \cup {axis}]

\* A control remembers the ID of an adjustment.
FieldOf(p, id, axis) == IF axis = "h" THEN SetHadj(items, p, id) ELSE SetAdj(items, p, id)

FieldGiven(k, its, p, id, axis) ==
  \E x \in Registry(k)!Item :
    /\ its \in Seq(Registry(k)!Item) /\ Rewritten(its, items, p, x)
    /\ Likeness(x, items[p]) /\ x.parent = items[p].parent /\ x.child = items[p].child
    /\ axis = "h" => x.hadj = id /\ x.adj = items[p].adj
    /\ axis = "v" => x.adj = id /\ x.hadj = items[p].hadj

\* FieldOf writes the one field.
LEMMA FieldWritten ==
  ASSUME NEW k \in Registries, RegistrySound(k), NEW p \in 1..Len(items), NEW id \in Nat, NEW axis \in {"h", "v"}
  PROVE  FieldGiven(k, FieldOf(p, id, axis), p, id, axis)
<1> USE DEF FieldGiven
<1>1. items \in Seq(Registry(k)!Item) /\ items[p] \in Registry(k)!Item
  BY NamedAreKnown DEF RegistrySound, RegistryTypes
<1>2. CASE axis = "h"
  <2> DEFINE x == PutHadj(items[p], id)
  <2>1. /\ x \in Registry(k)!Item /\ Likeness(x, items[p]) /\ x.hadj = id /\ x.adj = items[p].adj
        /\ x.parent = items[p].parent /\ x.child = items[p].child
    BY <1>1 DEF PutHadj, Registry!Item, Likeness, SameNature
  <2>2. SetHadj(items, p, id) = PutItem(items, p, x)
    BY Zenon DEF SetHadj, PutItem, PutHadj
  <2> HIDE DEF x
  <2>3. PutItem(items, p, x) \in Seq(Registry(k)!Item) /\ Rewritten(PutItem(items, p, x), items, p, x)
    BY <1>1, <2>1, ItemIsWritten
  <2>4. FieldOf(p, id, axis) = SetHadj(items, p, id)
    BY <1>2 DEF FieldOf
  <2> QED BY <1>2, <2>1, <2>2, <2>3, <2>4
<1>3. CASE axis = "v"
  <2> DEFINE x == PutAdj(items[p], id)
  <2>1. /\ x \in Registry(k)!Item /\ Likeness(x, items[p]) /\ x.adj = id /\ x.hadj = items[p].hadj
        /\ x.parent = items[p].parent /\ x.child = items[p].child
    BY <1>1 DEF PutAdj, Registry!Item, Likeness, SameNature
  <2>2. SetAdj(items, p, id) = PutItem(items, p, x)
    BY Zenon DEF SetAdj, PutItem, PutAdj
  <2> HIDE DEF x
  <2>3. PutItem(items, p, x) \in Seq(Registry(k)!Item) /\ Rewritten(PutItem(items, p, x), items, p, x)
    BY <1>1, <2>1, ItemIsWritten
  <2>4. FieldOf(p, id, axis) = SetAdj(items, p, id)
    BY <1>3 DEF FieldOf
  <2> QED BY <1>3, <2>1, <2>2, <2>3, <2>4
<1> QED BY <1>2, <1>3

\* A control loses its adjustment.
LEMMA AdjustmentTakenIsSound ==
  ASSUME NEW k \in Registries, RegistrySound(k), NEW p \in 1..Len(items), NEW x \in Registry(k)!Item,
         items' \in Seq(Registry(k)!Item), Rewritten(items', items, p, x), Likeness(x, items[p]),
         x.parent = items[p].parent, x.child = items[p].child,
         x.adj \in {0, items[p].adj}, x.hadj \in {0, items[p].hadj},
         UNCHANGED <<registry, reversed, widgets, within, content, listens, dropped>>
  PROVE  RegistrySound(k)'
<1>1. Len(items') = Len(items) /\ \A i \in 1..Len(items) : items'[i] = IF i = p THEN x ELSE items[i]
  BY DEF Rewritten
<1>2. \A i \in 1..Len(items) :
        /\ Likeness(items'[i], items[i]) /\ items'[i].parent = items[i].parent
        /\ items'[i].child = items[i].child
        /\ items'[i].adj \in {0, items[i].adj} /\ items'[i].hadj \in {0, items[i].hadj}
  BY <1>1 DEF Likeness, SameNature
<1>3. \A i \in 1..Len(items) : items[i].parent <= Len(items)
  BY DEF RegistrySound, LinksFit
<1>4. \A i \in 1..Len(items) : items[i].type = "adjustment" => (items[i].ptr <=> items[i].bar # Registry(k)!NoBar)
  BY DEF RegistrySound, PointersFit
<1>5. \A i \in 1..Len(items) : items'[i].bar = items[i].bar
  BY <1>2 DEF Likeness
<1> QED BY <1>1, <1>2, <1>3, <1>4, <1>5, AdjustedIsSound DEF Likeness, SameNature

\* The bar that an adjustment gets, of those that it may get.
BarGoes(its, a, p, bar) ==
  \/ bar = its[a].bar
  \/ bar = [of |-> p, axis |-> "own", since |-> Len(items)] /\ its[p].type = "scrollbar"
  \/ \E of \in {p, content[p]}, axis \in {"h", "v"} :
       /\ bar = [of |-> of, axis |-> axis, since |-> Len(items)]
       /\ its[p].type \in {"tree", "scrolled"}
       /\ axis = "v" => its[p].adj = its[a].id
       /\ axis = "h" => its[p].adj # its[a].id /\ its[p].hadj = its[a].id
       /\ \/ of = content[p] /\ of \in widgets \cap reversed /\ its[of].type = "tree"
          \/ of = p /\ (its[p].type = "scrolled" =>
                          ~(content[p] \in widgets \cap reversed /\ its[content[p]].type = "tree"))

\* BarOf gives one of these.
LEMMA BarOfIs ==
  ASSUME NEW k \in Registries, NEW its, NEW a, NEW p
  PROVE  BarGoes(its, a, p, Registry(k)!BarOf(a, p, its))
<1> DEFINE bar == Registry(k)!BarOf(a, p, its)
<1> SUFFICES BarGoes(its, a, p, bar)
  OBVIOUS
<1> USE DEF BarGoes
<1> DEFINE c == content[p]
           of == IF its[p].type = "scrolled" /\ c \in widgets \cap reversed /\ its[c].type = "tree" THEN c ELSE p
           axis == CASE its[p].adj = its[a].id -> "v"
                     [] its[p].adj # its[a].id /\ its[p].hadj = its[a].id -> "h"
                     [] OTHER -> "none"
<1>1. bar = CASE its[p].type = "scrollbar" -> [of |-> p, axis |-> "own", since |-> Len(items)]
              [] its[p].type \in {"tree", "scrolled"} /\ axis # "none" -> [of |-> of, axis |-> axis, since |-> Len(items)]
              [] OTHER -> its[a].bar
  BY DEF Registry!BarOf
<1> HIDE DEF bar
<1>2. axis \in {"h", "v", "none"} /\ (axis = "v" => its[p].adj = its[a].id)
      /\ (axis = "h" => its[p].adj # its[a].id /\ its[p].hadj = its[a].id)
  OBVIOUS
<1>3. /\ of \in {p, content[p]}
      /\ \/ of = content[p] /\ of \in widgets \cap reversed /\ its[of].type = "tree"
         \/ of = p /\ (its[p].type = "scrolled" =>
                         ~(content[p] \in widgets \cap reversed /\ its[content[p]].type = "tree"))
  OBVIOUS
<1> HIDE DEF of, axis
<1>4. CASE its[p].type = "scrollbar"
  BY <1>1, <1>4
<1>5. CASE its[p].type \in {"tree", "scrolled"} /\ axis # "none"
  <2>1. bar = [of |-> of, axis |-> axis, since |-> Len(items)]
    BY <1>1, <1>5
  <2>2. axis \in {"h", "v"}
    BY <1>2, <1>5
  <2> QED BY <1>2, <1>3, <1>5, <2>1, <2>2
<1>6. CASE its[p].type # "scrollbar" /\ ~(its[p].type \in {"tree", "scrolled"} /\ axis # "none")
  BY <1>1, <1>6
<1> QED BY <1>4, <1>5, <1>6

\* A control is given an adjustment: what the two items are then.
Given(k, given, a, p, axis) ==
  /\ given \in Seq(Registry(k)!Item) /\ Len(given) = Len(items)
  /\ \A i \in 1..Len(items) : i # a /\ i # p => given[i] = items[i]
  /\ Likeness(given[p], items[p]) /\ given[p].parent = items[p].parent /\ given[p].child = items[p].child
  /\ axis = "h" => given[p].hadj = items[a].id /\ given[p].adj = items[p].adj
  /\ axis = "v" => given[p].adj = items[a].id /\ given[p].hadj = items[p].hadj
  /\ given[a].id = items[a].id /\ given[a].type = items[a].type /\ given[a].made = items[a].made
  /\ given[a].friend = items[a].friend /\ given[a].child = items[a].child /\ given[a].bar = items[a].bar
  /\ given[a].adj = items[a].adj /\ given[a].hadj = items[a].hadj /\ given[a].ptr = items[a].ptr
  /\ given[a].parent = p /\ given[a].asked = items[a].asked \cup {axis}

\* What SetAdjustmentOf writes before it looks for the bar.
LEMMA GivenWritten ==
  ASSUME NEW k \in Registries, RegistrySound(k), NEW p \in 1..Len(items), NEW a \in 1..Len(items), a # p,
         NEW axis \in k.axes
  PROVE  Given(k, SetGiven(FieldOf(p, items[a].id, axis), a, p, axis), a, p, axis)
<1> DEFINE given == SetGiven(FieldOf(p, items[a].id, axis), a, p, axis)
<1> DEFINE fld == FieldOf(p, items[a].id, axis)
           y == PutGiven(items[a], p, axis)
<1>1. items[a] \in Registry(k)!Item /\ items[p] \in Registry(k)!Item /\ Len(items) \in Nat
  BY NamedAreKnown DEF RegistrySound
<1>2. items[a].id \in Nat /\ axis \in {"h", "v"}
  BY <1>1, ItemFields, RegistryConstants
<1>3. PICK x \in Registry(k)!Item :
        /\ fld \in Seq(Registry(k)!Item) /\ Rewritten(fld, items, p, x)
        /\ Likeness(x, items[p]) /\ x.parent = items[p].parent /\ x.child = items[p].child
        /\ axis = "h" => x.hadj = items[a].id /\ x.adj = items[p].adj
        /\ axis = "v" => x.adj = items[a].id /\ x.hadj = items[p].hadj
  BY <1>2, FieldWritten, Zenon DEF FieldGiven
<1>4. /\ y \in Registry(k)!Item /\ y.id = items[a].id /\ y.type = items[a].type /\ y.made = items[a].made
      /\ y.friend = items[a].friend /\ y.child = items[a].child /\ y.bar = items[a].bar
      /\ y.adj = items[a].adj /\ y.hadj = items[a].hadj /\ y.ptr = items[a].ptr
      /\ y.parent = p /\ y.asked = items[a].asked \cup {axis}
  <2> DEFINE r == items[a]
             more == r.asked \cup {axis}
             z == [r EXCEPT !.parent = p, !.asked = more]
  <2>1. more \in SUBSET k.axes /\ r \in Registry(k)!Item /\ p \in Nat
    <3>1. items[a].asked \in SUBSET k.axes
      BY <1>1, ItemFields
    <3> QED BY <1>1, <3>1
  <2>2. y = z
    BY Zenon DEF PutGiven
  <2> HIDE DEF more, r, y
  <2>3. /\ z \in Registry(k)!Item /\ z.id = r.id /\ z.type = r.type /\ z.made = r.made
        /\ z.friend = r.friend /\ z.child = r.child /\ z.bar = r.bar
        /\ z.adj = r.adj /\ z.hadj = r.hadj /\ z.ptr = r.ptr /\ z.parent = p /\ z.asked = more
    BY <2>1 DEF Registry!Item
  <2> QED BY <2>2, <2>3 DEF r, more
<1>5. fld[a] = items[a] /\ Len(fld) = Len(items)
  BY <1>3 DEF Rewritten
<1>6. given = PutItem(fld, a, PutGiven(fld[a], p, axis))
  BY Zenon DEF SetGiven, PutItem, PutGiven
<1>7. given = PutItem(fld, a, y)
  BY <1>5, <1>6
<1> HIDE DEF fld, y, given
<1>8. PutItem(fld, a, y) \in Seq(Registry(k)!Item) /\ Rewritten(PutItem(fld, a, y), fld, a, y)
  BY <1>3, <1>4, <1>5, ItemIsWritten
<1>9. given[a] = y /\ given[p] = x /\ \A i \in 1..Len(items) : i # a /\ i # p => given[i] = items[i]
  BY <1>3, <1>5, <1>7, <1>8 DEF Rewritten
<1>10. given \in Seq(Registry(k)!Item) /\ Len(given) = Len(items)
  BY <1>5, <1>7, <1>8 DEF Rewritten
<1>11. Given(k, given, a, p, axis)
  BY <1>3, <1>4, <1>9, <1>10 DEF Given
<1> QED BY <1>11 DEF given

\* The adjustment has its bar, too.
LEMMA BarWritten ==
  ASSUME NEW k \in Registries, NEW its \in Seq(Registry(k)!Item), NEW a \in 1..Len(its),
         NEW bar \in Registry(k)!Bar, NEW b \in BOOLEAN
  PROVE  /\ SetBar(its, a, bar, b) \in Seq(Registry(k)!Item) /\ Len(SetBar(its, a, bar, b)) = Len(its)
         /\ \A i \in 1..Len(its) : i # a => SetBar(its, a, bar, b)[i] = its[i]
         /\ SameNature(SetBar(its, a, bar, b)[a], its[a]) /\ SamePointers(SetBar(its, a, bar, b)[a], its[a])
         /\ SetBar(its, a, bar, b)[a].friend = its[a].friend
         /\ SetBar(its, a, bar, b)[a].bar = bar /\ SetBar(its, a, bar, b)[a].ptr = b
<1> DEFINE z == PutPtr(its[a], bar, b)
<1>1. its[a] \in Registry(k)!Item
  BY ElementOfSeq
<1>2. /\ z \in Registry(k)!Item /\ SameNature(z, its[a]) /\ SamePointers(z, its[a]) /\ z.friend = its[a].friend
      /\ z.bar = bar /\ z.ptr = b
  BY <1>1 DEF PutPtr, Registry!Item, SameNature, SamePointers
<1>3. SetBar(its, a, bar, b) = PutItem(its, a, z)
  BY Zenon DEF SetBar, PutItem, PutPtr
<1> HIDE DEF z
<1>4. PutItem(its, a, z) \in Seq(Registry(k)!Item) /\ Rewritten(PutItem(its, a, z), its, a, z)
  BY <1>2, ItemIsWritten
<1> QED BY <1>2, <1>3, <1>4 DEF Rewritten

\* A control is given an adjustment: the invariant.
LEMMA AdjustmentGivenIsSound ==
  ASSUME NEW k \in Registries, RegistrySound(k), NEW p \in 1..Len(items), NEW a \in 1..Len(items),
         items[a].type = "adjustment", items[p].type # "adjustment", NEW axis \in k.axes,
         NEW given, Given(k, given, a, p, axis), NEW bar, BarGoes(given, a, p, bar),
         items' = SetBar(given, a, bar, bar # Registry(k)!NoBar),
         UNCHANGED <<registry, reversed, widgets, within, content, listens, dropped>>
  PROVE  RegistrySound(k)'
<1> DEFINE b == bar # Registry(k)!NoBar
<1>1. Len(items) \in Nat /\ \A i \in 1..Len(items) : items[i] \in Registry(k)!Item
  BY NamedAreKnown DEF RegistrySound
<1>2. a # p
  OBVIOUS
<1>3. /\ given \in Seq(Registry(k)!Item) /\ Len(given) = Len(items)
      /\ \A i \in 1..Len(items) : i # a /\ i # p => given[i] = items[i]
      /\ Likeness(given[p], items[p]) /\ given[p].parent = items[p].parent /\ given[p].child = items[p].child
      /\ axis = "h" => given[p].hadj = items[a].id /\ given[p].adj = items[p].adj
      /\ axis = "v" => given[p].adj = items[a].id /\ given[p].hadj = items[p].hadj
      /\ given[a].id = items[a].id /\ given[a].type = items[a].type /\ given[a].made = items[a].made
      /\ given[a].friend = items[a].friend /\ given[a].child = items[a].child /\ given[a].bar = items[a].bar
      /\ given[a].adj = items[a].adj /\ given[a].hadj = items[a].hadj /\ given[a].ptr = items[a].ptr
      /\ given[a].parent = p /\ given[a].asked = items[a].asked \cup {axis}
  BY DEF Given
<1>4. \A i \in 1..Len(items) : given[i].type = items[i].type
  BY <1>3 DEF Likeness, SameNature
<1>5. content[p] \in Nat /\ content[p] <= Len(items) /\ widgets \subseteq 1..Len(items)
  BY ElementOfSeq DEF RegistrySound, RegistryTypes, LinksFit
<1>6. axis \in {"h", "v"}
  BY RegistryConstants
<1>7. \/ bar = items[a].bar
      \/ bar = [of |-> p, axis |-> "own", since |-> Len(items)] /\ items[p].type = "scrollbar"
      \/ \E of \in 1..Len(items), ax \in {"h", "v"} :
           /\ bar = [of |-> of, axis |-> ax, since |-> Len(items)]
           /\ items[p].type \in {"tree", "scrolled"}
           /\ ax = "v" => given[p].adj = items[a].id
           /\ ax = "h" => given[p].adj # items[a].id
           /\ \/ of = content[p] /\ items[of].type = "tree"
              \/ of = p /\ (items[p].type = "scrolled" =>
                              ~(content[p] \in widgets \cap reversed /\ items[content[p]].type = "tree"))
  <2>1. CASE bar = given[a].bar
    BY <1>3, <2>1
  <2>2. CASE bar = [of |-> p, axis |-> "own", since |-> Len(items)] /\ given[p].type = "scrollbar"
    BY <1>4, <2>2
  <2>3. CASE \E of \in {p, content[p]}, ax \in {"h", "v"} :
              /\ bar = [of |-> of, axis |-> ax, since |-> Len(items)]
              /\ given[p].type \in {"tree", "scrolled"}
              /\ ax = "v" => given[p].adj = given[a].id
              /\ ax = "h" => given[p].adj # given[a].id /\ given[p].hadj = given[a].id
              /\ \/ of = content[p] /\ of \in widgets \cap reversed /\ given[of].type = "tree"
                 \/ of = p /\ (given[p].type = "scrolled" =>
                                 ~(content[p] \in widgets \cap reversed /\ given[content[p]].type = "tree"))
    <3>1. PICK of \in {p, content[p]}, ax \in {"h", "v"} :
              /\ bar = [of |-> of, axis |-> ax, since |-> Len(items)]
              /\ given[p].type \in {"tree", "scrolled"}
              /\ ax = "v" => given[p].adj = given[a].id
              /\ ax = "h" => given[p].adj # given[a].id /\ given[p].hadj = given[a].id
              /\ \/ of = content[p] /\ of \in widgets \cap reversed /\ given[of].type = "tree"
                 \/ of = p /\ (given[p].type = "scrolled" =>
                                 ~(content[p] \in widgets \cap reversed /\ given[content[p]].type = "tree"))
      BY <2>3
    <3>2. of \in 1..Len(items)
      BY <1>5, <3>1
    <3>3. content[p] \in widgets => given[content[p]].type = items[content[p]].type
      BY <1>4, <1>5
    <3>4. /\ items[p].type \in {"tree", "scrolled"}
          /\ ax = "v" => given[p].adj = items[a].id
          /\ ax = "h" => given[p].adj # items[a].id
      BY <1>3, <1>4, <3>1
    <3>5. \/ of = content[p] /\ items[of].type = "tree"
          \/ of = p /\ (items[p].type = "scrolled" =>
                          ~(content[p] \in widgets \cap reversed /\ items[content[p]].type = "tree"))
      BY <1>4, <3>1, <3>3
    <3> QED BY <3>1, <3>2, <3>4, <3>5
  <2> QED BY <2>1, <2>2, <2>3 DEF BarGoes
<1>8. bar \in Registry(k)!Bar /\ b \in BOOLEAN /\ (bar # items[a].bar => BarIsSound(a, bar) /\ b)
  <2>1. CASE bar = items[a].bar
    BY <1>1, <2>1, ItemFields
  <2>2. CASE bar = [of |-> p, axis |-> "own", since |-> Len(items)] /\ items[p].type = "scrollbar"
    BY <1>1, <2>2 DEF Registry!Bar, BarIsSound, Registry!NoBar
  <2>3. CASE \E of \in 1..Len(items), ax \in {"h", "v"} :
           /\ bar = [of |-> of, axis |-> ax, since |-> Len(items)]
           /\ items[p].type \in {"tree", "scrolled"}
           /\ of = p \/ items[of].type = "tree"
    BY <1>1, <2>3 DEF Registry!Bar, BarIsSound, Registry!NoBar
  <2> QED BY <1>7, <2>1, <2>2, <2>3
<1> HIDE DEF b
<1>9. /\ items' \in Seq(Registry(k)!Item) /\ Len(items') = Len(items)
      /\ \A i \in 1..Len(items) : i # a => items'[i] = given[i]
      /\ SameNature(items'[a], given[a]) /\ SamePointers(items'[a], given[a])
      /\ items'[a].friend = given[a].friend /\ items'[a].bar = bar /\ items'[a].ptr = b
  <2> DEFINE final == SetBar(given, a, bar, b)
  <2>1. items' = final
    BY DEF b
  <2>2. /\ final \in Seq(Registry(k)!Item) /\ Len(final) = Len(given)
        /\ \A i \in 1..Len(given) : i # a => final[i] = given[i]
        /\ SameNature(final[a], given[a]) /\ SamePointers(final[a], given[a])
        /\ final[a].friend = given[a].friend /\ final[a].bar = bar /\ final[a].ptr = b
    BY <1>3, <1>8, BarWritten
  <2> HIDE DEF final
  <2> QED BY <1>3, <2>1, <2>2
<1>10. \A i \in 1..Len(items) :
         /\ items'[i].id = items[i].id /\ items'[i].type = items[i].type /\ items'[i].made = items[i].made
         /\ items'[i].friend = items[i].friend /\ items'[i].child = items[i].child
  <2> SUFFICES ASSUME NEW i \in 1..Len(items)
               PROVE  /\ items'[i].id = items[i].id /\ items'[i].type = items[i].type
                      /\ items'[i].made = items[i].made
                      /\ items'[i].friend = items[i].friend /\ items'[i].child = items[i].child
    OBVIOUS
  <2>1. CASE i = a
    BY <1>3, <1>9, <2>1 DEF SameNature, SamePointers
  <2>2. CASE i = p
    BY <1>2, <1>3, <1>9, <2>2 DEF Likeness, SameNature
  <2>3. CASE i # a /\ i # p
    BY <1>3, <1>9, <2>3
  <2> QED BY <2>1, <2>2, <2>3
<1>11. items[a].asked \subseteq items'[a].asked /\ axis \in items'[a].asked
  BY <1>3, <1>9 DEF SameNature
<1>12. \A i \in 1..Len(items) : items[i].asked \subseteq items'[i].asked /\ items'[i].parent <= Len(items)
  <2> SUFFICES ASSUME NEW i \in 1..Len(items)
               PROVE  items[i].asked \subseteq items'[i].asked /\ items'[i].parent <= Len(items)
    OBVIOUS
  <2>1. items[i].parent <= Len(items)
    BY DEF RegistrySound, LinksFit
  <2>2. CASE i = a
    <3>1. items'[a].parent = p
      BY <1>3, <1>9 DEF SamePointers
    <3> QED BY <1>1, <1>11, <2>2, <3>1
  <2>3. CASE i = p
    BY <1>2, <1>3, <1>9, <2>1, <2>3 DEF Likeness, SameNature
  <2>4. CASE i # a /\ i # p
    BY <1>3, <1>9, <2>1, <2>4
  <2> QED BY <2>2, <2>3, <2>4
<1>13. \A i \in 1..Len(items) : i # a => items'[i].ptr = items[i].ptr /\ items'[i].bar = items[i].bar
  BY <1>3, <1>9 DEF Likeness
<1>14. \A i \in 1..Len(items) : items[i].type # "adjustment" =>
         items'[i].ptr = items[i].ptr /\ items'[i].bar = items[i].bar
  BY <1>13
<1>15. \A i \in 1..Len(items) : items[i].type = "adjustment" =>
         (items'[i].ptr <=> items'[i].bar # Registry(k)!NoBar)
  <2>1. items'[a].ptr <=> items'[a].bar # Registry(k)!NoBar
    BY <1>9 DEF b
  <2>2. \A i \in 1..Len(items) : items[i].type = "adjustment" => (items[i].ptr <=> items[i].bar # Registry(k)!NoBar)
    BY DEF RegistrySound, PointersFit
  <2> QED BY <1>13, <2>1, <2>2
<1>16. \A i \in 1..Len(items) : i # p => items'[i].adj = items[i].adj /\ items'[i].hadj = items[i].hadj
  BY <1>3, <1>9 DEF SamePointers
<1>17. /\ items'[p].adj = items[p].adj \/ (items'[p].adj = items[a].id /\ axis = "v")
       /\ items'[p].hadj = items[p].hadj \/ (items'[p].hadj = items[a].id /\ axis = "h")
  BY <1>2, <1>3, <1>6, <1>9
<1>19. \A i \in 1..Len(items) : items'[i].type # "scrollbar" =>
         /\ items'[i].adj \in {0, items[i].adj} \/ GivenVertically(items[i].adj)'
         /\ items'[i].hadj \in {0, items[i].hadj} \/ GivenHorizontally(items[i].hadj)'
  <2> SUFFICES ASSUME NEW i \in 1..Len(items)
               PROVE  /\ items'[i].adj \in {0, items[i].adj} \/ GivenVertically(items[i].adj)'
                      /\ items'[i].hadj \in {0, items[i].hadj} \/ GivenHorizontally(items[i].hadj)'
    OBVIOUS
  <2>1. CASE i # p
    BY <1>16, <2>1
  <2>2. CASE i = p
    <3>1. items'[p].adj = items[a].id /\ axis = "v" => GivenVertically(items[p].adj)'
      <4>1. a \in 1..Len(items') /\ items'[a].id = items[a].id
        BY <1>9, <1>10
      <4> QED BY <1>11, <4>1 DEF GivenVertically
    <3>2. items'[p].hadj = items[a].id /\ axis = "h" => GivenHorizontally(items[p].hadj)'
      <4>1. a \in 1..Len(items') /\ items'[a].id = items[a].id
        BY <1>9, <1>10
      <4> QED BY <1>11, <4>1 DEF GivenHorizontally
    <3> QED BY <1>17, <2>2, <3>1, <3>2
  <2> QED BY <2>1, <2>2
<1>20. ASSUME bar.axis \in {"h", "v"}, bar # items[a].bar PROVE BarAsked(a)'
  <2>1. PICK of \in 1..Len(items), ax \in {"h", "v"} :
           /\ bar = [of |-> of, axis |-> ax, since |-> Len(items)]
           /\ items[p].type \in {"tree", "scrolled"}
           /\ ax = "v" => given[p].adj = items[a].id
           /\ ax = "h" => given[p].adj # items[a].id
    BY <1>7, <1>20
  <2>2. bar.axis = ax /\ items'[a].bar.axis = ax
    BY <1>9, <2>1
  <2>3. CASE ax = axis
    <3>1. a \in 1..Len(items') /\ axis \in items'[a].asked /\ items'[a].bar.axis = axis
      BY <1>9, <1>11, <2>2, <2>3
    <3> QED BY <3>1 DEF BarAsked
  <2>4. CASE ax = "v" /\ axis = "h"
    <3>1. items[p].adj = items[a].id /\ items[a].id # 0
      <4>1. items[a].id \in k.ids
        BY <1>1, ItemFields
      <4> QED BY <1>3, <2>1, <2>4, <4>1, RegistryConstants
    <3>2. GivenVertically(items[a].id)
      BY <2>1, <3>1 DEF RegistrySound, AskedFor
    <3>3. PICK d \in 1..Len(items) : items[d].id = items[a].id /\ ("v" \in items[d].asked \/ items[d].made # 0)
      BY <3>2 DEF GivenVertically
    <3>4. items'[d].id = items'[a].id /\ ("v" \in items'[d].asked \/ items'[d].made # 0)
      BY <1>10, <1>12, <3>3
    <3>5. d \in 1..Len(items') /\ items'[a].bar.axis = "v"
      BY <1>9, <2>2, <2>4
    <3> QED BY <3>4, <3>5 DEF BarAsked
  <2>5. ~(ax = "h" /\ axis = "v")
    BY <1>3, <2>1
  <2> QED BY <1>6, <2>1, <2>3, <2>4, <2>5
<1>21. ASSUME bar.axis \in {"h", "v"}, bar # items[a].bar PROVE TreeCameLater(a, content[items[a].bar.of])'
  <2>1. PICK of \in 1..Len(items), ax \in {"h", "v"} :
           /\ bar = [of |-> of, axis |-> ax, since |-> Len(items)]
           /\ items[p].type \in {"tree", "scrolled"}
           /\ \/ of = content[p] /\ items[of].type = "tree"
              \/ of = p /\ (items[p].type = "scrolled" =>
                              ~(content[p] \in widgets \cap reversed /\ items[content[p]].type = "tree"))
    <3>1. bar # [of |-> p, axis |-> "own", since |-> Len(items)]
      BY <1>21
    <3> QED BY <1>7, <1>21, <3>1
  <2> DEFINE c == content[of]
  <2>2. items'[a].bar.of = of /\ content'[of] = c /\ widgets' = widgets
    BY <1>9, <2>1
  <2>3. ASSUME items'[of].type = "scrolled", c \in widgets, items'[c].type = "tree", registry[items'[c].id] = c PROVE FALSE
    <3>1. of = p
      BY <1>10, <2>1, <2>3
    <3>2. c \in 1..Len(items) /\ items[c].type = "tree" /\ Known(c)
      BY <1>5, <1>10, <2>3 DEF Known
    <3>3. c \in reversed
      BY <3>2 DEF RegistrySound, WidgetsFit
    <3> QED BY <1>10, <2>1, <2>3, <3>1, <3>2, <3>3
  <2> HIDE DEF c
  <2>4. content[items[a].bar.of]' = c
    BY <2>2
  <2> QED BY <2>2, <2>3, <2>4 DEF TreeCameLater, Known
<1>22. \A i \in 1..Len(items) : items'[i].bar # items[i].bar =>
           /\ items[i].type = "adjustment" /\ BarIsSound(i, items'[i].bar)
           /\ items'[i].bar.axis \in {"h", "v"} => BarAsked(i)' /\ TreeCameLater(i, content[items[i].bar.of])'
  <2> SUFFICES ASSUME NEW i \in 1..Len(items), items'[i].bar # items[i].bar
               PROVE  /\ items[i].type = "adjustment" /\ BarIsSound(i, items'[i].bar)
                      /\ items'[i].bar.axis \in {"h", "v"} =>
                           BarAsked(i)' /\ TreeCameLater(i, content[items[i].bar.of])'
    OBVIOUS
  <2>1. i = a
    BY <1>13
  <2>2. bar # items[a].bar
    BY <1>9, <2>1
  <2>3. BarIsSound(a, items'[a].bar) /\ items[a].type = "adjustment"
    BY <1>8, <1>9, <2>2
  <2>4. items'[a].bar.axis \in {"h", "v"} => BarAsked(a)' /\ TreeCameLater(a, content[items[a].bar.of])'
    BY <1>9, <1>20, <1>21, <2>2
  <2> QED BY <2>1, <2>3, <2>4
<1>23. items' \in Seq(Registry(k)!Item) /\ Len(items') = Len(items)
  BY <1>9
<1> QED BY <1>10, <1>12, <1>14, <1>15, <1>19, <1>22, <1>23, AdjustedIsSound

\* P_HADJUSTMENT and P_VADJUSTMENT.
LEMMA SetAdjustmentIsSound ==
  ASSUME NEW k \in Registries, RegistrySound(k), fault = Registry(k)!NoFault, NEW p \in Registry(k)!Named,
         NEW a, NEW axis \in k.axes, Registry(k)!SetAdjustmentOf(p, a, axis)
  PROVE  RegistryInv(k)'
<1> DEFINE follows == Registry(k)!Following(p, "name")
           f == IF a # 0 /\ items[p].type \in {"tree", "scrolled"} THEN follows ELSE Registry(k)!NoFault
           given == SetGiven(FieldOf(p, items[a].id, axis), a, p, axis)
           bar == Registry(k)!BarOf(a, p, given)
           b == bar # Registry(k)!NoBar
<1>1. /\ items[p].type # "adjustment" /\ a \in Registry(k)!Named \cup {0} /\ (a # 0 => items[a].type = "adjustment")
      /\ \/ Registry(k)!Fails(f)
         \/ /\ Registry(k)!Works(f)
            /\ items' = IF a = 0 THEN FieldOf(p, 0, axis) ELSE SetBar(given, a, bar, b)
            /\ UNCHANGED <<registry, reversed, widgets, within, content, listens, dropped>>
  BY Zenon DEF Registry!SetAdjustmentOf, FieldOf, SetHadj, SetAdj, SetGiven, SetBar
<1> HIDE DEF given, bar, b
<1>2. p \in 1..Len(items) /\ items[p].ptr /\ axis \in {"h", "v"}
  BY <1>1, NamedHasPointer, RegistryConstants
<1>3. Explained(k, f)
  <2>1. Explained(k, follows)
    BY <1>2, FollowedIsExplained
  <2>2. Explained(k, Registry(k)!NoFault)
    BY NoFaultIsExplained
  <2> HIDE DEF follows
  <2> QED BY <2>1, <2>2
<1> HIDE DEF f
<1>4. CASE Registry(k)!Fails(f)
  BY <1>3, <1>4, FailedIsSound
<1>5. CASE /\ Registry(k)!Works(f)
           /\ items' = IF a = 0 THEN FieldOf(p, 0, axis) ELSE SetBar(given, a, bar, b)
           /\ UNCHANGED <<registry, reversed, widgets, within, content, listens, dropped>>
  <2>1. fault' = Registry(k)!NoFault
    BY <1>5 DEF Registry!Works
  <2>2. CASE a = 0
    <3>1. PICK x \in Registry(k)!Item :
            /\ FieldOf(p, 0, axis) \in Seq(Registry(k)!Item) /\ Rewritten(FieldOf(p, 0, axis), items, p, x)
            /\ Likeness(x, items[p]) /\ x.parent = items[p].parent /\ x.child = items[p].child
            /\ axis = "h" => x.hadj = 0 /\ x.adj = items[p].adj
            /\ axis = "v" => x.adj = 0 /\ x.hadj = items[p].hadj
      <4>1. 0 \in Nat
        OBVIOUS
      <4>2. FieldGiven(k, FieldOf(p, 0, axis), p, 0, axis)
        BY <1>2, <4>1, FieldWritten
      <4> QED BY <4>2 DEF FieldGiven
    <3>2. items' = FieldOf(p, 0, axis)
      BY <1>5, <2>2
    <3>3. items' \in Seq(Registry(k)!Item) /\ Rewritten(items', items, p, x)
      BY <3>1, <3>2
    <3>4. x.adj \in {0, items[p].adj} /\ x.hadj \in {0, items[p].hadj}
      BY <1>2, <3>1
    <3>5. RegistrySound(k)'
      BY <1>2, <1>5, <3>1, <3>3, <3>4, AdjustmentTakenIsSound
    <3> QED BY <2>1, <3>5, WorkedIsSound
  <2>3. CASE a # 0
    <3>1. a \in 1..Len(items) /\ items[a].type = "adjustment" /\ a # p
      BY <1>1, <2>3, NamedHasPointer
    <3>2. Given(k, given, a, p, axis)
      BY <1>2, <3>1, GivenWritten DEF given
    <3>3. BarGoes(given, a, p, bar)
      BY BarOfIs DEF bar
    <3>4. items' = SetBar(given, a, bar, bar # Registry(k)!NoBar)
      BY <1>5, <2>3 DEF b
    <3>5. RegistrySound(k)'
      BY <1>1, <1>2, <1>5, <3>1, <3>2, <3>3, <3>4, AdjustmentGivenIsSound
    <3> QED BY <2>1, <3>5, WorkedIsSound
  <2> QED BY <2>2, <2>3
<1> QED BY <1>1, <1>4, <1>5

-----------------------------------------------------------------------------
(* Controls: Dispose *)

PutForgotten(r) == [r EXCEPT !.ptr = FALSE, !.bar = [of |-> 0, axis |-> "none", since |-> 0]]
SetForgotten(its, i) == [its EXCEPT ![i].ptr = FALSE, ![i].bar = [of |-> 0, axis |-> "none", since |-> 0]]

\* What is left of an item that was disposed.
Forgotten(k, i) ==
  /\ items' \in Seq(Registry(k)!Item) /\ Len(items') = Len(items)
  /\ \A j \in 1..Len(items) : j # i => items'[j] = items[j]
  /\ SameNature(items'[i], items[i]) /\ SamePointers(items'[i], items[i]) /\ items'[i].friend = items[i].friend
  /\ items'[i].ptr = FALSE /\ items'[i].bar = Registry(k)!NoBar

\* Forget writes the item that was disposed and no other.
LEMMA ForgetWrites ==
  ASSUME NEW k \in Registries, RegistrySound(k), NEW i \in 1..Len(items), Registry(k)!Forget(i)
  PROVE  Forgotten(k, i)
<1> DEFINE x == PutForgotten(items[i])
<1>1. items \in Seq(Registry(k)!Item) /\ items[i] \in Registry(k)!Item
  BY NamedAreKnown DEF RegistrySound, RegistryTypes
<1>2. /\ x \in Registry(k)!Item /\ SameNature(x, items[i]) /\ SamePointers(x, items[i])
      /\ x.friend = items[i].friend
      /\ x.ptr = FALSE /\ x.bar = Registry(k)!NoBar
  BY <1>1 DEF PutForgotten, Registry!Item, Registry!Bar, Registry!NoBar, SameNature, SamePointers
<1>3. items' = SetForgotten(items, i)
  BY Zenon DEF Registry!Forget, Registry!NoBar, SetForgotten
<1>4. SetForgotten(items, i) = PutItem(items, i, x)
  BY Zenon DEF SetForgotten, PutItem, PutForgotten
<1> HIDE DEF x
<1>5. PutItem(items, i, x) \in Seq(Registry(k)!Item) /\ Rewritten(PutItem(items, i, x), items, i, x)
  BY <1>1, <1>2, ItemIsWritten
<1>6. items' \in Seq(Registry(k)!Item) /\ Rewritten(items', items, i, x)
  BY <1>3, <1>4, <1>5
<1> QED BY <1>2, <1>6 DEF Rewritten, Forgotten

\* Nothing else becomes unknown.
LEMMA ForgetUnknows ==
  ASSUME NEW k \in Registries, RegistrySound(k), NEW i \in 1..Len(items), Known(i), Registry(k)!Forget(i)
  PROVE  /\ registry' \in [k.ids -> 0..k.max]
         /\ \A j \in 1..Len(items) : Known(j)' <=> Known(j) /\ j # i
         /\ \A id \in k.ids : registry'[id] # 0 => registry'[id] = registry[id]
<1>1. registry \in [k.ids -> 0..k.max] /\ \A j \in 1..Len(items) : items[j].id \in k.ids
  BY NamedAreKnown, ItemFields DEF RegistrySound, RegistryTypes
<1>2. registry' = [registry EXCEPT ![items[i].id] = 0] /\ k.max \in Nat
  BY RegistryConstants DEF Registry!Forget
<1>3. registry[items[i].id] = i /\ i # 0
  BY DEF Known
<1>4. \A j \in 1..Len(items) : items'[j].id = items[j].id
  BY ForgetWrites DEF Forgotten, SameNature
<1>5. ASSUME NEW j \in 1..Len(items) PROVE Known(j)' <=> Known(j) /\ j # i
  <2>1. Known(j)' <=> registry'[items[j].id] = j
    BY <1>4 DEF Known
  <2> QED BY <1>1, <1>2, <1>3, <2>1 DEF Known
<1> QED BY <1>1, <1>2, <1>5

\* What is disposed is in neither map; a scroll bar whose entry goes has its adjustment to blame.
LEMMA ForgetIsSound ==
  ASSUME NEW k \in Registries, RegistrySound(k), NEW i \in 1..Len(items), Known(i), Registry(k)!Forget(i),
         UNCHANGED <<widgets, within, content, listens, dropped>>
  PROVE  RegistrySound(k)'
<1>1. /\ RegistryTypes(k) /\ IdsFit(k) /\ WidgetsFit /\ PointersFit(k) /\ BarsFit(k) /\ GoneForAReason
      /\ LinksFit /\ AskedFor /\ TreesListen /\ BarsMeant
  BY DEF RegistrySound
<1>2. Len(items) \in Nat /\ \A j \in 1..Len(items) : items[j] \in Registry(k)!Item
  BY <1>1, NamedAreKnown
<1>3. /\ items' \in Seq(Registry(k)!Item) /\ Len(items') = Len(items)
      /\ \A j \in 1..Len(items) : j # i => items'[j] = items[j]
      /\ SameNature(items'[i], items[i]) /\ SamePointers(items'[i], items[i])
      /\ items'[i].friend = items[i].friend
      /\ items'[i].ptr = FALSE /\ items'[i].bar = Registry(k)!NoBar
  BY ForgetWrites DEF Forgotten
<1>4. /\ registry' \in [k.ids -> 0..k.max]
      /\ \A j \in 1..Len(items) : Known(j)' <=> Known(j) /\ j # i
      /\ \A id \in k.ids : registry'[id] # 0 => registry'[id] = registry[id]
  BY ForgetUnknows
<1>5. \A j \in 1..Len(items) :
        /\ items'[j].id = items[j].id /\ items'[j].type = items[j].type
        /\ items'[j].made = items[j].made /\ items'[j].asked = items[j].asked
  BY <1>3 DEF SameNature
<1>6. \A j \in 1..Len(items) :
        /\ items'[j].parent = items[j].parent /\ items'[j].child = items[j].child
        /\ items'[j].adj = items[j].adj /\ items'[j].hadj = items[j].hadj
        /\ items'[j].friend = items[j].friend
  BY <1>3 DEF SamePointers
<1> DEFINE x == CASE items[i].type # "adjustment" -> i
                  [] items[i].type = "adjustment" /\ items[i].bar.axis = "own" -> items[i].bar.of
                  [] OTHER -> 0
<1>7. reversed' = reversed \ {x}
  BY DEF Registry!Forget
<1>8. x = i \/ (items[i].type = "adjustment" /\ (x = 0 \/ items[x].type = "scrollbar"))
  <2>1. items[i].type = "adjustment" /\ items[i].bar.axis = "own" => items[items[i].bar.of].type = "scrollbar"
    BY <1>1 DEF BarsFit, Registry!NoBar
  <2> QED BY <2>1
<1>9. items[i].type # "adjustment" => x = i
  OBVIOUS
<1> HIDE DEF x
<1>10. RegistryTypes(k)'
  BY <1>1, <1>3, <1>4, <1>7 DEF RegistryTypes
<1>11. IdsFit(k)'
  BY <1>1, <1>3, <1>4, <1>5 DEF IdsFit
<1>12. WidgetsFit'
  <2>1. ASSUME NEW j \in reversed' PROVE Known(j)' /\ items'[j].ptr /\ items'[j].type # "adjustment"
    <3>1. j \in reversed /\ j # x /\ j \in 1..Len(items)
      BY <1>1, <1>7 DEF RegistryTypes
    <3>2. Known(j) /\ items[j].ptr /\ items[j].type # "adjustment"
      BY <1>1, <3>1 DEF WidgetsFit
    <3>3. j # i
      BY <1>9, <3>1, <3>2
    <3> QED BY <1>3, <1>4, <3>1, <3>2, <3>3
  <2>2. ASSUME NEW j \in 1..Len(items), Known(j)', items'[j].type # "adjustment"
        PROVE  \/ j \in reversed'
               \/ items'[j].type = "scrollbar" /\ \E a \in 1..Len(items) : ~Known(a)' /\ items'[a].type = "adjustment"
    <3>1. Known(j) /\ j # i /\ items[j].type = items'[j].type
      BY <1>4, <1>5, <2>2
    <3>2. CASE j \in reversed /\ j # x
      BY <1>7, <3>2
    <3>3. CASE j = x
      <4>1. items[i].type = "adjustment" /\ items[j].type = "scrollbar"
        BY <1>2, <1>8, <3>1, <3>3
      <4>2. ~Known(i)' /\ items'[i].type = "adjustment"
        BY <1>4, <1>5, <4>1
      <4> QED BY <3>1, <4>1, <4>2
    <3>4. CASE j \notin reversed
      <4>1. PICK a \in 1..Len(items) : items[j].type = "scrollbar" /\ ~Known(a) /\ items[a].type = "adjustment"
        BY <1>1, <2>2, <3>1, <3>4 DEF WidgetsFit
      <4>2. ~Known(a)' /\ items'[a].type = "adjustment"
        BY <1>4, <1>5, <4>1
      <4> QED BY <3>1, <4>1, <4>2
    <3> QED BY <3>2, <3>3, <3>4
  <2> QED BY <1>3, <2>1, <2>2 DEF WidgetsFit
<1>13. PointersFit(k)'
  <2> SUFFICES ASSUME NEW j \in 1..Len(items)
               PROVE  /\ items'[j].type # "adjustment" => (items'[j].ptr <=> Known(j)')
                      /\ items'[j].type = "adjustment" => (items'[j].ptr <=> items'[j].bar # Registry(k)!NoBar)
    BY <1>3 DEF PointersFit, Registry!NoBar
  <2> QED BY <1>1, <1>3, <1>4, <1>5 DEF PointersFit
<1>14. BarsFit(k)'
  <2> SUFFICES ASSUME NEW j \in 1..Len(items), items'[j].bar # Registry(k)!NoBar
               PROVE  /\ items'[j].type = "adjustment" /\ items'[j].bar.of \in 1..Len(items)
                      /\ items'[j].bar.since <= Len(items)
                      /\ \/ items'[j].bar.axis = "own" /\ items'[items'[j].bar.of].type = "scrollbar"
                         \/ items'[j].bar.axis \in {"h", "v"} /\ items'[items'[j].bar.of].type \in {"tree", "scrolled"}
    BY <1>3 DEF BarsFit, Registry!NoBar
  <2>1. j # i /\ items'[j].bar = items[j].bar
    BY <1>3
  <2> QED BY <1>1, <1>5, <2>1 DEF BarsFit
<1>15. GoneForAReason'
  BY <1>1, <1>3, <1>4, <1>5 DEF GoneForAReason
<1>16. LinksFit'
  <2>1. \A j \in 1..Len(items) : items'[j].parent <= Len(items)
    BY <1>1, <1>6 DEF LinksFit
  <2>2. \A j \in 1..Len(items) :
          /\ items'[j].type = items[j].type /\ items'[j].friend = items[j].friend
          /\ items'[j].child = items[j].child
    BY <1>5, <1>6
  <2> QED BY <1>3, <2>1, <2>2, LinksAreKept
<1>17. AskedFor'
  BY <1>3, <1>5, <1>6, AskedIsKept
<1>18. TreesListen'
  BY <1>1, <1>3, <1>5 DEF TreesListen
<1>19. BarsMeant'
  <2> SUFFICES ASSUME NEW a \in 1..Len(items), items'[a].bar.axis \in {"h", "v"}
               PROVE  BarAsked(a)' /\ TreeCameLater(a, content[items[a].bar.of])'
    BY <1>3 DEF BarsMeant
  <2>1. a # i /\ items'[a].bar = items[a].bar
    BY <1>3 DEF Registry!NoBar
  <2>2. \A j \in 1..Len(items) : content'[j] \in {0, content[j]}
    OBVIOUS
  <2>3. \A j \in 1..Len(items) :
          /\ items'[j].id = items[j].id /\ items'[j].type = items[j].type
          /\ items'[j].made = items[j].made /\ items[j].asked \subseteq items'[j].asked
    BY <1>5
  <2> QED BY <1>3, <1>4, <2>1, <2>2, <2>3, BarIsKept
<1> QED BY <1>10, <1>11, <1>12, <1>13, <1>14, <1>15, <1>16, <1>17, <1>18, <1>19 DEF RegistrySound

\* P_DISPOSE: only what can be named is disposed, so it has its widget.
LEMMA DisposeControlIsSound ==
  ASSUME NEW k \in Registries, RegistrySound(k), fault = Registry(k)!NoFault, NEW i \in Registry(k)!Named,
         Registry(k)!DisposeControl(i)
  PROVE  RegistryInv(k)'
<1> DEFINE via == IF items[i].type = "adjustment" THEN "bar" ELSE "name"
           f == Registry(k)!Following(i, via)
<1>1. /\ items[i].ptr
      /\ \/ Registry(k)!Fails(f)
         \/ /\ Registry(k)!Works(f) /\ Registry(k)!Forget(i)
            /\ UNCHANGED <<widgets, within, content, listens, dropped>>
  BY DEF Registry!DisposeControl
<1>2. i \in 1..Len(items) /\ Known(i)
  BY NamedHasPointer
<1> HIDE DEF via
<1>3. Explained(k, f)
  BY <1>1, <1>2, FollowedIsExplained
<1> HIDE DEF f
<1>4. CASE Registry(k)!Fails(f)
  BY <1>3, <1>4, FailedIsSound
<1>5. CASE /\ Registry(k)!Works(f) /\ Registry(k)!Forget(i)
           /\ UNCHANGED <<widgets, within, content, listens, dropped>>
  <2>1. RegistrySound(k)'
    BY <1>2, <1>5, ForgetIsSound
  <2>2. fault' = Registry(k)!NoFault
    BY <1>5 DEF Registry!Works
  <2> QED BY <2>1, <2>2, WorkedIsSound
<1> QED BY <1>1, <1>4, <1>5

-----------------------------------------------------------------------------
(* Controls: the entry that searches in a tree *)

SetFriend(its, i, x) == [its EXCEPT ![i].friend = x]

\* The friend of an item is written, and nothing else.
LEMMA FriendWritten ==
  ASSUME NEW k \in Registries, NEW its \in Seq(Registry(k)!Item), NEW i \in 1..Len(its), NEW x \in Nat
  PROVE  /\ SetFriend(its, i, x) \in Seq(Registry(k)!Item) /\ Len(SetFriend(its, i, x)) = Len(its)
         /\ \A j \in 1..Len(its) : j # i => SetFriend(its, i, x)[j] = its[j]
         /\ SameNature(SetFriend(its, i, x)[i], its[i]) /\ SamePointers(SetFriend(its, i, x)[i], its[i])
         /\ SetFriend(its, i, x)[i].ptr = its[i].ptr /\ SetFriend(its, i, x)[i].bar = its[i].bar
         /\ SetFriend(its, i, x)[i].friend = x
<1> DEFINE z == PutFriend(its[i], x)
<1>1. its[i] \in Registry(k)!Item
  BY ElementOfSeq
<1>2. /\ z \in Registry(k)!Item /\ SameNature(z, its[i]) /\ SamePointers(z, its[i])
      /\ z.ptr = its[i].ptr /\ z.bar = its[i].bar /\ z.friend = x
  BY <1>1 DEF PutFriend, Registry!Item, SameNature, SamePointers
<1>3. SetFriend(its, i, x) = PutItem(its, i, z)
  BY Zenon DEF SetFriend, PutItem, PutFriend
<1> HIDE DEF z
<1>4. PutItem(its, i, z) \in Seq(Registry(k)!Item) /\ Rewritten(PutItem(its, i, z), its, i, z)
  BY <1>2, ItemIsWritten
<1> QED BY <1>2, <1>3, <1>4 DEF Rewritten

\* Items that differ in their friends only.
FriendsChange(k, its) ==
  /\ its \in Seq(Registry(k)!Item) /\ Len(its) = Len(items)
  /\ \A i \in 1..Len(items) :
       /\ SameNature(its[i], items[i]) /\ SamePointers(its[i], items[i])
       /\ its[i].ptr = items[i].ptr /\ its[i].bar = items[i].bar
  /\ \A i \in 1..Len(items) :
       /\ its[i].friend <= Len(items)
       /\ its[i].type = "tree" /\ its[i].friend # 0 => its[i].friend \in 1..Len(items) /\ items[its[i].friend].type = "edit"

\* A tree has an edit, or none.
LEMMA FriendsAreWritten ==
  ASSUME NEW k \in Registries, RegistrySound(k), NEW t \in 1..Len(items), NEW e \in 0..Len(items),
         items[t].type = "tree", e # 0 => items[e].type = "edit"
  PROVE  /\ e = 0 => FriendsChange(k, SetFriend(items, t, 0))
         /\ e # 0 => FriendsChange(k, SetFriend(SetFriend(items, t, e), e, t))
<1>1. /\ items \in Seq(Registry(k)!Item) /\ Len(items) \in Nat
      /\ \A i \in 1..Len(items) : items[i] \in Registry(k)!Item
  BY NamedAreKnown DEF RegistrySound, RegistryTypes
<1>2. \A i \in 1..Len(items) :
        /\ items[i].friend <= Len(items)
        /\ items[i].type = "tree" /\ items[i].friend # 0 =>
             items[i].friend \in 1..Len(items) /\ items[items[i].friend].type = "edit"
  <2>1. \A i \in 1..Len(items) : items[i].friend \in Nat
    BY <1>1, ItemFields
  <2> QED BY <1>1, <2>1 DEF RegistrySound, LinksFit
<1> DEFINE its == SetFriend(items, t, e)
<1>3. e \in Nat /\ t \in Nat
  BY <1>1
<1>4. /\ its \in Seq(Registry(k)!Item) /\ Len(its) = Len(items)
      /\ \A j \in 1..Len(items) : j # t => its[j] = items[j]
      /\ SameNature(its[t], items[t]) /\ SamePointers(its[t], items[t])
      /\ its[t].ptr = items[t].ptr /\ its[t].bar = items[t].bar /\ its[t].friend = e
  BY <1>1, <1>3, FriendWritten
<1> HIDE DEF its
<1>5. FriendsChange(k, its)
  BY <1>1, <1>2, <1>4 DEF FriendsChange, SameNature, SamePointers
<1>6. ASSUME e # 0 PROVE FriendsChange(k, SetFriend(its, e, t))
  <2> DEFINE new == SetFriend(its, e, t)
  <2>1. e \in 1..Len(its) /\ items[e].type = "edit" /\ e # t
    BY <1>1, <1>4, <1>6
  <2>2. /\ new \in Seq(Registry(k)!Item) /\ Len(new) = Len(its)
        /\ \A j \in 1..Len(its) : j # e => new[j] = its[j]
        /\ SameNature(new[e], its[e]) /\ SamePointers(new[e], its[e])
        /\ new[e].ptr = its[e].ptr /\ new[e].bar = its[e].bar /\ new[e].friend = t
    BY <1>3, <1>4, <2>1, FriendWritten
  <2> HIDE DEF new
  <2>3. its[e] = items[e]
    BY <1>4, <2>1
  <2>4. FriendsChange(k, new)
    BY <1>1, <1>4, <1>5, <2>1, <2>2, <2>3 DEF FriendsChange, SameNature, SamePointers
  <2> QED BY <2>4 DEF new
<1>7. e = 0 => its = SetFriend(items, t, 0)
  BY DEF its
<1> QED BY <1>5, <1>6, <1>7 DEF its

\* What goes with the former friend is an edit that was disposed.
LEMMA OnlyEditsAreDeleted ==
  ASSUME NEW k \in Registries, RegistrySound(k), NEW t \in 1..Len(items), items[t].type = "tree",
         NEW w \in Registry(k)!DeletedBy(t)
  PROVE  /\ w \in 1..Len(items) /\ w = items[t].friend /\ items[w].type = "edit" /\ ~Known(w)
         /\ Registry(k)!Inside(w) \subseteq {w}
<1>1. w = items[t].friend /\ w # 0 /\ w \notin reversed
  BY DEF Registry!DeletedBy
<1>2. Len(items) \in Nat /\ items[t] \in Registry(k)!Item
  BY NamedAreKnown DEF RegistrySound
<1>3. w \in 1..Len(items) /\ items[w].type = "edit"
  <2>1. w \in Nat
    BY <1>1, <1>2, ItemFields
  <2> QED BY <1>1, <1>2, <2>1 DEF RegistrySound, LinksFit
<1>4. ~Known(w)
  BY <1>1, <1>3 DEF RegistrySound, WidgetsFit
<1>5. \A y \in Registry(k)!Created : within[y] \in {w} => y \in {w}
  BY <1>3 DEF RegistrySound, LinksFit, Registry!Created
<1>6. {w} \in SUBSET Registry(k)!Created
  BY <1>3 DEF Registry!Created
<1>7. Registry(k)!Inside(w) \subseteq {w}
  BY <1>5, <1>6 DEF Registry!Inside, Registry!Reached
<1> QED BY <1>1, <1>3, <1>4, <1>7

\* A search is set: the invariant.
LEMMA FriendsChangedIsSound ==
  ASSUME NEW k \in Registries, RegistrySound(k), FriendsChange(k, items'),
         UNCHANGED <<registry, reversed, within, dropped>>,
         NEW deleted, widgets' = widgets \ deleted,
         \A w \in deleted : w \in 1..Len(items) /\ items[w].type = "edit" /\ ~Known(w),
         content' = [x \in 1..Len(items) |-> IF content[x] \in deleted THEN 0 ELSE content[x]],
         listens' \subseteq (1..Len(items)) \X (1..Len(items)), \A l \in listens' : items[l[2]].type = "tree"
  PROVE  RegistrySound(k)'
<1>1. /\ RegistryTypes(k) /\ IdsFit(k) /\ WidgetsFit /\ PointersFit(k) /\ BarsFit(k) /\ GoneForAReason
      /\ LinksFit /\ AskedFor /\ TreesListen /\ BarsMeant
  BY DEF RegistrySound
<1>2. Len(items) \in Nat /\ \A i \in 1..Len(items) : items[i] \in Registry(k)!Item
  BY <1>1, NamedAreKnown
<1>3. /\ items' \in Seq(Registry(k)!Item) /\ Len(items') = Len(items)
      /\ \A i \in 1..Len(items) :
           /\ items'[i].id = items[i].id /\ items'[i].type = items[i].type
           /\ items'[i].made = items[i].made /\ items'[i].asked = items[i].asked
      /\ \A i \in 1..Len(items) : items'[i].ptr = items[i].ptr /\ items'[i].bar = items[i].bar
      /\ \A i \in 1..Len(items) :
           /\ items'[i].parent = items[i].parent /\ items'[i].child = items[i].child
           /\ items'[i].adj = items[i].adj /\ items'[i].hadj = items[i].hadj
      /\ \A i \in 1..Len(items) :
           /\ items'[i].friend <= Len(items)
           /\ items'[i].type = "tree" /\ items'[i].friend # 0 =>
                items'[i].friend \in 1..Len(items) /\ items[items'[i].friend].type = "edit"
  BY DEF FriendsChange, SameNature, SamePointers
<1>4. \A i \in 1..Len(items) : Known(i)' <=> Known(i)
  BY <1>3 DEF Known
<1>5. content \in Seq(Nat) /\ Len(content) = Len(items)
  BY <1>1 DEF RegistryTypes
<1>6. /\ content' \in Seq(Nat) /\ Len(content') = Len(items)
      /\ \A i \in 1..Len(items) : content'[i] \in {0, content[i]}
  BY <1>2, <1>5, ElementOfSeq
<1>7. RegistryTypes(k)'
  BY <1>1, <1>3, <1>6 DEF RegistryTypes
<1>8. IdsFit(k)'
  BY <1>1, <1>3 DEF IdsFit
<1>9. WidgetsFit'
  <2>1. reversed \subseteq 1..Len(items)
    BY <1>1 DEF RegistryTypes
  <2>2. \A i \in reversed : Known(i)' /\ items'[i].ptr /\ items'[i].type # "adjustment"
    BY <1>1, <1>3, <1>4, <2>1 DEF WidgetsFit
  <2>3. ASSUME NEW i \in 1..Len(items), Known(i)', items'[i].type # "adjustment"
        PROVE  \/ i \in reversed
               \/ items'[i].type = "scrollbar" /\ \E a \in 1..Len(items) : ~Known(a)' /\ items'[a].type = "adjustment"
    BY <1>1, <1>3, <1>4, <2>3 DEF WidgetsFit
  <2> QED BY <1>3, <2>2, <2>3 DEF WidgetsFit
<1>10. PointersFit(k)'
  BY <1>1, <1>3, <1>4 DEF PointersFit, Registry!NoBar
<1>11. BarsFit(k)'
  <2> SUFFICES ASSUME NEW i \in 1..Len(items), items'[i].bar # Registry(k)!NoBar
               PROVE  /\ items'[i].type = "adjustment" /\ items'[i].bar.of \in 1..Len(items)
                      /\ items'[i].bar.since <= Len(items)
                      /\ \/ items'[i].bar.axis = "own" /\ items'[items'[i].bar.of].type = "scrollbar"
                         \/ items'[i].bar.axis \in {"h", "v"} /\ items'[items'[i].bar.of].type \in {"tree", "scrolled"}
    BY <1>3 DEF BarsFit, Registry!NoBar
  <2> QED BY <1>1, <1>3 DEF BarsFit
<1>12. GoneForAReason'
  BY <1>1, <1>3, <1>4 DEF GoneForAReason
<1>13. LinksFit'
  <2> SUFFICES ASSUME NEW i \in 1..Len(items)
               PROVE  /\ items'[i].friend <= Len(items) /\ items'[i].child <= Len(items)
                      /\ items'[i].parent <= Len(items)
                      /\ items'[i].type = "tree" /\ items'[i].friend # 0 => items'[items'[i].friend].type = "edit"
                      /\ items'[i].child # 0 => items'[items'[i].child].type # "adjustment"
                      /\ within[i] <= Len(items) /\ content'[i] <= Len(items)
                      /\ within[i] # 0 => items'[within[i]].type # "edit"
    BY <1>3 DEF LinksFit
  <2>1. items[i].child \in Nat /\ within[i] \in Nat
    BY <1>1, <1>2, ItemFields, ElementOfSeq DEF RegistryTypes
  <2>2. \A j \in Nat : j <= Len(items) /\ j # 0 => items'[j].type = items[j].type
    BY <1>2, <1>3
  <2>3. /\ items[i].child <= Len(items) /\ items[i].parent <= Len(items)
        /\ items[i].child # 0 => items[items[i].child].type # "adjustment"
        /\ within[i] <= Len(items) /\ content[i] <= Len(items)
        /\ within[i] # 0 => items[within[i]].type # "edit"
    BY <1>1 DEF LinksFit
  <2>4. items'[i].child # 0 => items'[items'[i].child].type # "adjustment"
    BY <1>3, <2>1, <2>2, <2>3
  <2>5. within[i] # 0 => items'[within[i]].type # "edit"
    BY <2>1, <2>2, <2>3
  <2>6. items'[i].type = "tree" /\ items'[i].friend # 0 => items'[items'[i].friend].type = "edit"
    BY <1>3
  <2>7. items'[i].friend <= Len(items) /\ items'[i].child <= Len(items) /\ items'[i].parent <= Len(items)
    BY <1>3, <2>3
  <2>8. content'[i] <= Len(items)
    BY <1>2, <1>6, <2>3
  <2> QED BY <2>3, <2>4, <2>5, <2>6, <2>7, <2>8
<1>14. AskedFor'
  <2>1. \A i \in 1..Len(items) : items'[i].adj = items[i].adj /\ items'[i].hadj = items[i].hadj
    BY <1>3
  <2> QED BY <1>3, <2>1, AskedIsKept
<1>15. TreesListen'
  BY <1>1, <1>3 DEF TreesListen
<1>16. BarsMeant'
  <2> SUFFICES ASSUME NEW a \in 1..Len(items), items'[a].bar.axis \in {"h", "v"}
               PROVE  BarAsked(a)' /\ TreeCameLater(a, content[items[a].bar.of])'
    BY <1>3 DEF BarsMeant
  <2>1. items'[a].bar = items[a].bar
    BY <1>3
  <2>2. \A i \in 1..Len(items) : Known(i)' => Known(i)
    BY <1>4
  <2>3. \A i \in 1..Len(items) :
          /\ items'[i].id = items[i].id /\ items'[i].type = items[i].type
          /\ items'[i].made = items[i].made /\ items[i].asked \subseteq items'[i].asked
    BY <1>3
  <2>4. widgets' \subseteq widgets
    OBVIOUS
  <2> QED BY <1>3, <1>6, <2>1, <2>2, <2>3, <2>4, BarIsKept
<1> QED BY <1>7, <1>8, <1>9, <1>10, <1>11, <1>12, <1>13, <1>14, <1>15, <1>16 DEF RegistrySound

\* P_SEARCHENTRY: what is freed is an edit that another tree deleted.
LEMMA SetSearchIsSound ==
  ASSUME NEW k \in Registries, RegistrySound(k), fault = Registry(k)!NoFault, NEW t \in Registry(k)!Named, NEW e,
         Registry(k)!SetSearch(t, e)
  PROVE  RegistryInv(k)'
<1> DEFINE own == Registry(k)!Following(t, "name")
           other == Registry(k)!Following(e, "name")
           gone == Registry(k)!DeletedBy(t)
           f == CASE own # Registry(k)!NoFault -> own
                  [] own = Registry(k)!NoFault /\ ~(gone \subseteq widgets) -> [kind |-> "freed", via |-> "friend"]
                  [] OTHER -> IF e = 0 THEN Registry(k)!NoFault ELSE other
           deleted == UNION {Registry(k)!Inside(w) : w \in gone}
           Effect ==
             /\ Registry(k)!Works(f)
             /\ items' = IF e = 0 THEN SetFriend(items, t, 0) ELSE SetFriend(SetFriend(items, t, e), e, t)
             /\ widgets' = widgets \ deleted
             /\ content' = [x \in Registry(k)!Created |-> IF content[x] \in deleted THEN 0 ELSE content[x]]
             /\ listens' = IF e = 0 THEN listens ELSE listens \cup {<<e, t>>}
             /\ UNCHANGED <<registry, reversed, within, dropped>>
<1>1. /\ items[t].type = "tree" /\ e \in Registry(k)!Named \cup {0} /\ (e # 0 => items[e].type = "edit")
      /\ Registry(k)!Fails(f) \/ Effect
  BY Zenon DEF Registry!SetSearch, SetFriend
<1>2. t \in 1..Len(items) /\ Known(t) /\ items[t].ptr /\ items[t].friend \in 0..Len(items)
  BY <1>1, NamedHasPointer
<1>3. e # 0 => e \in 1..Len(items) /\ items[e].ptr
  BY <1>1, NamedHasPointer
<1>4. ASSUME NEW w \in gone
      PROVE  /\ w \in 1..Len(items) /\ w = items[t].friend /\ items[w].type = "edit" /\ ~Known(w)
             /\ Registry(k)!Inside(w) \subseteq {w}
  BY <1>1, <1>2, OnlyEditsAreDeleted
<1>5. Explained(k, f)
  <2>1. Explained(k, own)
    BY <1>2, FollowedIsExplained
  <2>2. e # 0 => Explained(k, other)
    BY <1>3, FollowedIsExplained
  <2>3. Explained(k, Registry(k)!NoFault)
    BY NoFaultIsExplained
  <2>4. ~(gone \subseteq widgets) => Explained(k, [kind |-> "freed", via |-> "friend"])
    <3>1. ASSUME NEW w \in gone, w \notin widgets PROVE Explained(k, [kind |-> "freed", via |-> "friend"])
      <4>1. items[t].friend \in (1..Len(items)) \ widgets
        BY <1>4, <3>1
      <4> QED BY <1>1, <1>2, <4>1 DEF Explained
    <3> QED BY <3>1
  <2> HIDE DEF own, other, gone
  <2> QED BY <2>1, <2>2, <2>3, <2>4
<1>6. \A w \in deleted : w \in 1..Len(items) /\ items[w].type = "edit" /\ ~Known(w)
  BY <1>4
<1> HIDE DEF f, deleted
<1>7. CASE Registry(k)!Fails(f)
  BY <1>5, <1>7, FailedIsSound
<1>8. CASE Effect
  <2>1. e \in 0..Len(items) /\ Len(items) \in Nat
    BY <1>3, NamedAreKnown DEF RegistrySound
  <2>2. FriendsChange(k, items')
    <3>1. e = 0 => FriendsChange(k, SetFriend(items, t, 0))
      BY <1>1, <1>2, <2>1, FriendsAreWritten
    <3>2. e # 0 => FriendsChange(k, SetFriend(SetFriend(items, t, e), e, t))
      BY <1>1, <1>2, <2>1, FriendsAreWritten
    <3> QED BY <1>8, <3>1, <3>2
  <2>3. listens' \subseteq (1..Len(items)) \X (1..Len(items)) /\ \A l \in listens' : items[l[2]].type = "tree"
    <3>1. listens \subseteq (1..Len(items)) \X (1..Len(items)) /\ \A l \in listens : items[l[2]].type = "tree"
      BY DEF RegistrySound, TreesListen
    <3>2. e # 0 => <<e, t>> \in (1..Len(items)) \X (1..Len(items))
      BY <1>2, <1>3
    <3> QED BY <1>1, <1>8, <3>1, <3>2
  <2>4. content' = [x \in 1..Len(items) |-> IF content[x] \in deleted THEN 0 ELSE content[x]]
    BY <1>8 DEF Registry!Created
  <2>5. widgets' = widgets \ deleted
    BY <1>8
  <2>6. UNCHANGED <<registry, reversed, within, dropped>>
    BY <1>8
  <2>7. fault' = Registry(k)!NoFault
    BY <1>8 DEF Registry!Works
  <2> HIDE DEF Effect
  <2>8. RegistrySound(k)'
    BY <1>6, <2>2, <2>3, <2>4, <2>5, <2>6, FriendsChangedIsSound
  <2> QED BY <2>7, <2>8, WorkedIsSound
<1> QED BY <1>1, <1>7, <1>8

-----------------------------------------------------------------------------
(* Controls: CreateControl *)

\* A new item, before it is in the maps.
NewFits(k, item) ==
  /\ item \in Registry(k)!Item /\ registry[item.id] = 0 /\ item.bar = Registry(k)!NoBar
  /\ item.ptr <=> item.type # "adjustment"
  /\ item.parent <= Len(items) /\ item.friend = 0 /\ item.child = 0
  /\ item.type # "scrollbar" => item.adj = 0 /\ item.hadj = 0

\* What a new item does to those that are there: its parent has it as a child, or as an adjustment, and
\* its adjustment has it as a parent.
ItemsGrow(k, new, item) ==
  /\ items' \in Seq(Registry(k)!Item) /\ Len(items') = new /\ items'[new] = item
  /\ \A i \in 1..Len(items) : Likeness(items'[i], items[i])
  /\ \A i \in 1..Len(items) :
       /\ items'[i].parent <= new
       /\ items'[i].child = items[i].child \/ (items'[i].child = new /\ item.type # "adjustment")
       /\ items'[i].adj = items[i].adj \/ (items'[i].adj = item.id /\ item.made # 0)
       /\ items'[i].hadj = items[i].hadj

\* To the maps, and to widgets.
MapsGrow(k, new, item, pwidget) ==
  /\ registry' = [registry EXCEPT ![item.id] = new]
  /\ reversed' = IF item.ptr THEN reversed \cup {new} ELSE reversed
  /\ within' = Append(within, pwidget) /\ pwidget \in 0..Len(items)
  /\ pwidget # 0 => items[pwidget].type # "edit"

WidgetsGrow(new, item) ==
  /\ widgets \subseteq widgets' \cup dropped' /\ widgets' \subseteq widgets \cup {new}
  /\ item.type # "adjustment" => new \in widgets'
  /\ dropped \subseteq dropped' /\ dropped' \subseteq dropped \cup widgets
  /\ content' \in Seq(Nat) /\ Len(content') = new /\ content'[new] = 0
  /\ \A i \in 1..Len(items) : content'[i] = content[i] \/ content'[i] = new
  /\ UNCHANGED listens

\* The new control is known, and the others are as before.
LEMMA GrownAreKnown ==
  ASSUME NEW k \in Registries, RegistrySound(k), NEW new, new = Len(items) + 1, new <= k.max,
         NEW item, NewFits(k, item), ItemsGrow(k, new, item), NEW pwidget, MapsGrow(k, new, item, pwidget)
  PROVE  /\ registry' \in [k.ids -> 0..k.max] /\ Known(new)'
         /\ \A i \in 1..Len(items) : Known(i)' <=> Known(i)
         /\ \A id \in k.ids : registry'[id] = registry[id] \/ (id = item.id /\ registry'[id] = new)
<1>1. registry \in [k.ids -> 0..k.max] /\ Len(items) \in Nat /\ k.max \in Nat
  BY NamedAreKnown, RegistryConstants DEF RegistrySound, RegistryTypes
<1>2. \A i \in 1..Len(items) : items[i].id \in k.ids /\ items'[i].id = items[i].id
  BY NamedAreKnown, ItemFields DEF RegistrySound, ItemsGrow, Likeness, SameNature
<1>3. item.id \in k.ids /\ registry[item.id] = 0 /\ items'[new] = item
  BY ItemFields DEF NewFits, ItemsGrow
<1>4. registry' = [registry EXCEPT ![item.id] = new]
  BY DEF MapsGrow
<1> QED BY <1>1, <1>2, <1>3, <1>4 DEF Known

\* A control is created: the invariant.
LEMMA GrownIsSound ==
  ASSUME NEW k \in Registries, RegistrySound(k), NEW new, new = Len(items) + 1, new <= k.max,
         NEW item, NewFits(k, item), ItemsGrow(k, new, item), NEW pwidget, MapsGrow(k, new, item, pwidget),
         WidgetsGrow(new, item)
  PROVE  RegistrySound(k)'
<1>1. /\ RegistryTypes(k) /\ IdsFit(k) /\ WidgetsFit /\ PointersFit(k) /\ BarsFit(k) /\ GoneForAReason
      /\ LinksFit /\ AskedFor /\ TreesListen /\ BarsMeant
  BY DEF RegistrySound
<1>2. Len(items) \in Nat /\ new \in Nat /\ \A i \in 1..Len(items) : items[i] \in Registry(k)!Item
  BY <1>1, NamedAreKnown
<1>3. /\ registry' \in [k.ids -> 0..k.max] /\ Known(new)'
      /\ \A i \in 1..Len(items) : Known(i)' <=> Known(i)
      /\ \A id \in k.ids : registry'[id] = registry[id] \/ (id = item.id /\ registry'[id] = new)
  BY GrownAreKnown
<1>4. /\ items' \in Seq(Registry(k)!Item) /\ Len(items') = new /\ items'[new] = item
      /\ \A i \in 1..Len(items) :
           /\ items'[i].id = items[i].id /\ items'[i].type = items[i].type
           /\ items'[i].made = items[i].made /\ items'[i].asked = items[i].asked
      /\ \A i \in 1..Len(items) :
           items'[i].ptr = items[i].ptr /\ items'[i].bar = items[i].bar /\ items'[i].friend = items[i].friend
  BY DEF ItemsGrow, Likeness, SameNature
<1>5. \A i \in 1..Len(items) :
        /\ items'[i].parent <= new
        /\ items'[i].child = items[i].child \/ (items'[i].child = new /\ item.type # "adjustment")
        /\ items'[i].adj = items[i].adj \/ (items'[i].adj = item.id /\ item.made # 0)
        /\ items'[i].hadj = items[i].hadj
  BY DEF ItemsGrow
<1>6. /\ item \in Registry(k)!Item /\ registry[item.id] = 0 /\ item.bar = Registry(k)!NoBar
      /\ item.ptr <=> item.type # "adjustment"
      /\ item.parent <= Len(items) /\ item.friend = 0 /\ item.child = 0
      /\ item.type # "scrollbar" => item.adj = 0 /\ item.hadj = 0
  BY DEF NewFits
<1>7. /\ widgets \subseteq widgets' \cup dropped' /\ widgets' \subseteq widgets \cup {new}
      /\ item.type # "adjustment" => new \in widgets'
      /\ dropped \subseteq dropped' /\ dropped' \subseteq dropped \cup widgets
      /\ content' \in Seq(Nat) /\ Len(content') = new /\ content'[new] = 0
      /\ \A i \in 1..Len(items) : content'[i] = content[i] \/ content'[i] = new
      /\ UNCHANGED listens
  BY DEF WidgetsGrow
<1>8. /\ reversed' = IF item.ptr THEN reversed \cup {new} ELSE reversed
      /\ within' \in Seq(Nat) /\ Len(within') = new /\ within'[new] = pwidget
      /\ \A i \in 1..Len(items) : within'[i] = within[i]
      /\ pwidget \in 0..Len(items) /\ (pwidget # 0 => items[pwidget].type # "edit")
  <2>1. within \in Seq(Nat) /\ Len(within) = Len(items)
    BY <1>1 DEF RegistryTypes
  <2>2. within' = Append(within, pwidget) /\ pwidget \in Nat
    BY <1>2 DEF MapsGrow
  <2> QED BY <1>2, <2>1, <2>2 DEF MapsGrow
<1>9. \A i \in 1..Len(items') : i \in 1..Len(items) \/ i = new
  BY <1>2, <1>4
<1>10. 1..Len(items) \subseteq 1..Len(items') /\ new \in 1..Len(items') /\ new \notin 1..Len(items)
  BY <1>2, <1>4
<1>11. RegistryTypes(k)'
  <2>1. /\ reversed \subseteq 1..Len(items) /\ widgets \subseteq 1..Len(items)
        /\ dropped \subseteq 1..Len(items)
    BY <1>1 DEF RegistryTypes
  <2>2. reversed' \subseteq 1..Len(items') /\ widgets' \subseteq 1..Len(items') /\ dropped' \subseteq 1..Len(items')
    BY <1>7, <1>8, <1>10, <2>1
  <2> QED BY <1>3, <1>4, <1>7, <1>8, <2>2 DEF RegistryTypes
<1>12. IdsFit(k)'
  <2> SUFFICES ASSUME NEW id \in k.ids, registry'[id] # 0
               PROVE  registry'[id] \in 1..Len(items') /\ items'[registry'[id]].id = id
    BY DEF IdsFit
  <2>1. CASE registry'[id] = registry[id]
    BY <1>1, <1>4, <1>10, <2>1 DEF IdsFit
  <2>2. CASE id = item.id /\ registry'[id] = new
    BY <1>4, <1>10, <2>2
  <2> QED BY <1>3, <2>1, <2>2
<1>13. WidgetsFit'
  <2>1. ASSUME NEW i \in reversed' PROVE Known(i)' /\ items'[i].ptr /\ items'[i].type # "adjustment"
    <3>1. CASE i \in reversed
      <4>1. i \in 1..Len(items) /\ Known(i) /\ items[i].ptr /\ items[i].type # "adjustment"
        BY <1>1, <3>1 DEF WidgetsFit, RegistryTypes
      <4> QED BY <1>3, <1>4, <4>1
    <3>2. CASE i = new /\ item.ptr
      BY <1>3, <1>4, <1>6, <3>2
    <3> QED BY <1>8, <3>1, <3>2
  <2>2. ASSUME NEW i \in 1..Len(items'), Known(i)', items'[i].type # "adjustment"
        PROVE  \/ i \in reversed'
               \/ items'[i].type = "scrollbar" /\ \E a \in 1..Len(items') : ~Known(a)' /\ items'[a].type = "adjustment"
    <3>1. CASE i \in 1..Len(items)
      <4>1. \/ i \in reversed
            \/ items[i].type = "scrollbar" /\ \E a \in 1..Len(items) : ~Known(a) /\ items[a].type = "adjustment"
        BY <1>1, <1>3, <1>4, <2>2, <3>1 DEF WidgetsFit
      <4> QED BY <1>3, <1>4, <1>8, <1>10, <3>1, <4>1
    <3>2. CASE i = new
      BY <1>4, <1>6, <1>8, <2>2, <3>2
    <3> QED BY <1>9, <3>1, <3>2
  <2> QED BY <2>1, <2>2 DEF WidgetsFit
<1>14. PointersFit(k)'
  <2> SUFFICES ASSUME NEW i \in 1..Len(items')
               PROVE  /\ items'[i].type # "adjustment" => (items'[i].ptr <=> Known(i)')
                      /\ items'[i].type = "adjustment" => (items'[i].ptr <=> items'[i].bar # Registry(k)!NoBar)
    BY DEF PointersFit, Registry!NoBar
  <2>1. CASE i \in 1..Len(items)
    BY <1>1, <1>3, <1>4, <2>1 DEF PointersFit
  <2>2. CASE i = new
    BY <1>3, <1>4, <1>6, <2>2
  <2> QED BY <1>9, <2>1, <2>2
<1>15. BarsFit(k)'
  <2> SUFFICES ASSUME NEW i \in 1..Len(items'), items'[i].bar # Registry(k)!NoBar
               PROVE  /\ items'[i].type = "adjustment" /\ items'[i].bar.of \in 1..Len(items')
                      /\ items'[i].bar.since <= Len(items')
                      /\ \/ items'[i].bar.axis = "own" /\ items'[items'[i].bar.of].type = "scrollbar"
                         \/ items'[i].bar.axis \in {"h", "v"} /\ items'[items'[i].bar.of].type \in {"tree", "scrolled"}
    BY DEF BarsFit, Registry!NoBar
  <2>1. i \in 1..Len(items) /\ items'[i].bar = items[i].bar
    BY <1>4, <1>6, <1>9
  <2>2. items[i].bar.since \in Nat
    BY <1>2, <2>1, ItemFields DEF Registry!Bar
  <2>3. /\ items[i].type = "adjustment" /\ items[i].bar.of \in 1..Len(items)
        /\ items[i].bar.since <= Len(items)
        /\ \/ items[i].bar.axis = "own" /\ items[items[i].bar.of].type = "scrollbar"
           \/ items[i].bar.axis \in {"h", "v"} /\ items[items[i].bar.of].type \in {"tree", "scrolled"}
    BY <1>1, <2>1 DEF BarsFit
  <2>4. items[i].bar.since <= Len(items')
    BY <1>2, <1>4, <2>2, <2>3
  <2> QED BY <1>4, <1>10, <2>1, <2>3, <2>4
<1>16. GoneForAReason'
  <2> SUFFICES ASSUME NEW i \in 1..Len(items')
               PROVE  i \in widgets' \/ i \in dropped' \/ items'[i].type = "adjustment"
                      \/ (items'[i].type = "edit" /\ ~Known(i)')
    BY DEF GoneForAReason
  <2>1. CASE i \in 1..Len(items)
    BY <1>1, <1>3, <1>4, <1>7, <2>1 DEF GoneForAReason
  <2>2. CASE i = new
    BY <1>4, <1>7, <2>2
  <2> QED BY <1>9, <2>1, <2>2
<1>17. LinksFit'
  <2> SUFFICES ASSUME NEW i \in 1..Len(items')
               PROVE  /\ items'[i].friend <= new /\ items'[i].child <= new /\ items'[i].parent <= new
                      /\ items'[i].type = "tree" /\ items'[i].friend # 0 => items'[items'[i].friend].type = "edit"
                      /\ items'[i].child # 0 => items'[items'[i].child].type # "adjustment"
                      /\ within'[i] <= new /\ content'[i] <= new
                      /\ within'[i] # 0 => items'[within'[i]].type # "edit"
    BY <1>4 DEF LinksFit
  <2>1. \A j \in Nat : j <= Len(items) /\ j # 0 => items'[j].type = items[j].type
    BY <1>2, <1>4
  <2>2. CASE i \in 1..Len(items)
    <3>1. /\ items[i].friend \in Nat /\ items[i].child \in Nat /\ items[i].parent \in Nat
          /\ within[i] \in Nat /\ content[i] \in Nat
      BY <1>1, <1>2, <2>2, ItemFields, ElementOfSeq DEF RegistryTypes
    <3>2. /\ items[i].friend <= Len(items) /\ items[i].child <= Len(items) /\ items[i].parent <= Len(items)
          /\ items[i].type = "tree" /\ items[i].friend # 0 => items[items[i].friend].type = "edit"
          /\ items[i].child # 0 => items[items[i].child].type # "adjustment"
          /\ within[i] <= Len(items) /\ content[i] <= Len(items)
          /\ within[i] # 0 => items[within[i]].type # "edit"
      BY <1>1, <2>2 DEF LinksFit
    <3>3. items'[i].type = "tree" /\ items'[i].friend # 0 => items'[items'[i].friend].type = "edit"
      BY <1>4, <2>1, <2>2, <3>1, <3>2
    <3>4. items'[i].child # 0 => items'[items'[i].child].type # "adjustment"
      <4>1. CASE items'[i].child = items[i].child
        BY <2>1, <3>1, <3>2, <4>1
      <4>2. CASE items'[i].child = new /\ item.type # "adjustment"
        BY <1>4, <4>2
      <4> QED BY <1>5, <2>2, <4>1, <4>2
    <3>5. within'[i] # 0 => items'[within'[i]].type # "edit"
      BY <1>8, <2>1, <2>2, <3>1, <3>2
    <3>6. items'[i].friend <= new /\ items'[i].parent <= new /\ within'[i] <= new
      BY <1>2, <1>4, <1>5, <1>8, <2>2, <3>1, <3>2
    <3>7. items'[i].child <= new
      BY <1>2, <1>5, <2>2, <3>1, <3>2
    <3>8. content'[i] <= new
      <4>1. content'[i] = content[i] \/ content'[i] = new
        BY <1>7, <2>2
      <4> QED BY <1>2, <3>1, <3>2, <4>1
    <3> QED BY <3>3, <3>4, <3>5, <3>6, <3>7, <3>8
  <2>3. CASE i = new
    <3>1. item.friend = 0 /\ item.child = 0 /\ item.parent \in Nat /\ item.parent <= Len(items) /\ items'[i] = item
      BY <1>4, <1>6, <2>3, ItemFields
    <3>2. within'[i] = pwidget /\ content'[i] = 0 /\ pwidget \in Nat /\ pwidget <= Len(items)
      BY <1>2, <1>7, <1>8, <2>3
    <3>3. pwidget # 0 => items'[pwidget].type # "edit"
      BY <1>8, <2>1, <3>2
    <3>4. item.parent <= new /\ pwidget <= new /\ 0 <= new
      BY <1>2, <3>1, <3>2
    <3> QED BY <3>1, <3>2, <3>3, <3>4
  <2> QED BY <1>9, <2>2, <2>3
<1>18. AskedFor'
  <2>1. \A id : GivenVertically(id) => GivenVertically(id)'
    BY <1>4, <1>10 DEF GivenVertically
  <2>2. \A id : GivenHorizontally(id) => GivenHorizontally(id)'
    BY <1>4, <1>10 DEF GivenHorizontally
  <2>3. item.made # 0 => GivenVertically(item.id)'
    <3>1. ASSUME item.made # 0, NEW id, id = item.id PROVE GivenVertically(id)'
      BY <1>4, <1>10, <3>1 DEF GivenVertically
    <3>2. ASSUME item.made # 0 PROVE GivenVertically(item.id)'
      BY <3>1, <3>2
    <3> QED BY <3>2
  <2> SUFFICES ASSUME NEW i \in 1..Len(items'), items'[i].type # "scrollbar"
               PROVE  /\ items'[i].adj # 0 => GivenVertically(items[i].adj)'
                      /\ items'[i].hadj # 0 => GivenHorizontally(items[i].hadj)'
    BY DEF AskedFor
  <2>4. CASE i \in 1..Len(items)
    <3>1. CASE items'[i].adj = items[i].adj
      BY <1>1, <1>4, <1>5, <2>1, <2>2, <2>4, <3>1 DEF AskedFor
    <3>2. CASE items'[i].adj = item.id /\ item.made # 0
      BY <1>1, <1>4, <1>5, <2>2, <2>3, <2>4, <3>2 DEF AskedFor
    <3> QED BY <1>5, <2>4, <3>1, <3>2
  <2>5. CASE i = new
    BY <1>4, <1>6, <2>5
  <2> QED BY <1>9, <2>4, <2>5
<1>19. TreesListen'
  <2>1. listens \subseteq (1..Len(items)) \X (1..Len(items)) /\ \A l \in listens : items[l[2]].type = "tree"
    BY <1>1 DEF TreesListen
  <2>2. \A l \in listens : l[2] \in 1..Len(items)
    BY <2>1
  <2>3. \A l \in listens : items'[l[2]].type = "tree"
    BY <1>4, <2>1, <2>2
  <2>4. listens \subseteq (1..Len(items')) \X (1..Len(items'))
    BY <1>10, <2>1
  <2> QED BY <1>7, <2>3, <2>4 DEF TreesListen
<1>20. BarsMeant'
  <2> SUFFICES ASSUME NEW a \in 1..Len(items'), items'[a].bar.axis \in {"h", "v"}
               PROVE  BarAsked(a)' /\ TreeCameLater(a, content[items[a].bar.of])'
    BY DEF BarsMeant
  <2>1. a \in 1..Len(items) /\ items'[a].bar = items[a].bar
    BY <1>4, <1>6, <1>9 DEF Registry!NoBar
  <2>2. BarAsked(a) /\ TreeCameLater(a, content[items[a].bar.of])
    BY <1>1, <2>1 DEF BarsMeant
  <2>3. BarAsked(a)'
    BY <1>4, <1>10, <2>1, <2>2 DEF BarAsked
  <2>4. TreeCameLater(a, content[items[a].bar.of])'
    <3> DEFINE of == items[a].bar.of
               c == content[of]
    <3>1. of \in 1..Len(items) /\ items[a].bar.since <= Len(items) /\ items[a].bar.since \in Nat
      <4>1. items[a].bar # Registry(k)!NoBar
        BY <2>1 DEF Registry!NoBar
      <4> QED BY <1>1, <1>2, <2>1, <4>1, ItemFields DEF BarsFit, Registry!Bar
    <3>2. /\ of' = of /\ (c' = c \/ c' = new) /\ items'[a].bar.since = items[a].bar.since
          /\ items'[of].type = items[of].type
      BY <1>4, <1>7, <2>1, <3>1
    <3>3. ASSUME c' \in widgets'
          PROVE  \/ c' = new
                 \/ /\ c' = c /\ c \in widgets /\ items'[c].type = items[c].type
                    /\ registry'[items'[c].id] = c => Known(c)
      <4>1. CASE c' = new
        BY <4>1
      <4>2. CASE c' = c /\ c # new
        <5>1. c \in widgets /\ c \in 1..Len(items)
          BY <1>1, <1>7, <3>3, <4>2 DEF RegistryTypes
        <5>2. \A d \in 1..Len(items) : items'[d].type = items[d].type /\ (registry'[items'[d].id] = d => Known(d))
          BY <1>3, <1>4 DEF Known
        <5> HIDE DEF c
        <5> QED BY <4>2, <5>1, <5>2
      <4> QED BY <3>2, <4>1, <4>2
    <3>4. items[of].type = "scrolled" /\ c \in widgets /\ items[c].type = "tree" /\ Known(c) => c > items[a].bar.since
      BY <2>2 DEF TreeCameLater
    <3>5. TreeCameLater(a, c)' = (items'[of'].type = "scrolled" /\ c' \in widgets' /\ items'[c'].type = "tree"
                                    /\ registry'[items'[c'].id] = c' => c' > items'[a].bar.since)
      BY DEF TreeCameLater, Known
    <3>6. new > items[a].bar.since
      BY <1>2, <3>1
    <3> HIDE DEF of, c
    <3>7. TreeCameLater(a, c)'
      BY <3>2, <3>3, <3>4, <3>5, <3>6
    <3> QED BY <3>7 DEF of, c
  <2> QED BY <2>3, <2>4
<1> QED BY <1>11, <1>12, <1>13, <1>14, <1>15, <1>16, <1>17, <1>18, <1>19, <1>20 DEF RegistrySound

SetChild(its, p, x) == [its EXCEPT ![p].child = x]
SetContent(p, x) == [content EXCEPT ![p] = x]
SetParentOf(its, i, x) == [its EXCEPT ![i].parent = x]

\* Items that differ from the others only in their parents.
OldsFit(k, new, olds) ==
  /\ olds \in Seq(Registry(k)!Item) /\ Len(olds) = Len(items)
  /\ \A i \in 1..Len(items) :
       /\ Likeness(olds[i], items[i]) /\ olds[i].parent <= new /\ olds[i].child = items[i].child
       /\ olds[i].adj = items[i].adj /\ olds[i].hadj = items[i].hadj

\* A widget is put into its parent.
LEMMA PlaceGrows ==
  ASSUME NEW k \in Registries, RegistrySound(k), NEW new, new = Len(items) + 1,
         NEW item \in Registry(k)!Item, item.type # "adjustment", NEW p \in 0..Len(items),
         NEW olds, OldsFit(k, new, olds), Registry(k)!Place(item, p, olds), UNCHANGED listens
  PROVE  ItemsGrow(k, new, item) /\ WidgetsGrow(new, item)
<1>1. /\ items \in Seq(Registry(k)!Item) /\ Len(items) \in Nat /\ new \in Nat
      /\ widgets \subseteq 1..Len(items) /\ content \in Seq(Nat) /\ Len(content) = Len(items)
  BY NamedAreKnown DEF RegistrySound, RegistryTypes
<1> DEFINE scrolls == p # 0 /\ olds[p].type = "scrolled" /\ ~olds[p].flags
           old == IF scrolls THEN content[p] ELSE 0
           deleted == IF old \in widgets THEN Registry(k)!Inside(old) ELSE {}
           inButton == p # 0 /\ olds[p].type = "button"
           its == IF inButton THEN SetChild(olds, p, new) ELSE olds
           shown == IF scrolls THEN SetContent(p, new) ELSE content
<1>2. /\ items' = Append(its, item)
      /\ widgets' = (widgets \ deleted) \cup {new}
      /\ dropped' = dropped \cup (deleted \cap widgets)
      /\ content' = Append(shown, 0)
  BY DEF Registry!Place, SetChild, SetContent
<1>3. /\ its \in Seq(Registry(k)!Item) /\ Len(its) = Len(items)
      /\ \A i \in 1..Len(items) :
           /\ Likeness(its[i], items[i]) /\ its[i].parent <= new
           /\ its[i].child = items[i].child \/ its[i].child = new
           /\ its[i].adj = items[i].adj /\ its[i].hadj = items[i].hadj
  <2>1. CASE inButton
    <3> DEFINE x == PutChild(olds[p], new)
    <3>1. p \in 1..Len(olds) /\ p \in 1..Len(items) /\ olds \in Seq(Registry(k)!Item) /\ Len(olds) = Len(items)
      BY <1>1, <2>1 DEF OldsFit
    <3>2. olds[p] \in Registry(k)!Item
      BY <3>1, ElementOfSeq
    <3>3. /\ x \in Registry(k)!Item /\ Likeness(x, olds[p]) /\ x.child = new
          /\ x.parent = olds[p].parent /\ x.adj = olds[p].adj /\ x.hadj = olds[p].hadj
      BY <1>1, <3>2 DEF PutChild, Registry!Item, Likeness, SameNature
    <3>4. SetChild(olds, p, new) = PutItem(olds, p, x)
      BY Zenon DEF SetChild, PutItem, PutChild
    <3> HIDE DEF x
    <3>5. PutItem(olds, p, x) \in Seq(Registry(k)!Item) /\ Rewritten(PutItem(olds, p, x), olds, p, x)
      BY <3>1, <3>3, ItemIsWritten
    <3>6. its = PutItem(olds, p, x)
      BY <2>1, <3>4
    <3> HIDE DEF its
    <3>7. its \in Seq(Registry(k)!Item) /\ Len(its) = Len(items)
          /\ its[p] = x /\ \A j \in 1..Len(items) : j # p => its[j] = olds[j]
      BY <3>1, <3>5, <3>6 DEF Rewritten
    <3> QED BY <3>3, <3>7 DEF OldsFit, Likeness, SameNature
  <2>2. CASE ~inButton
    BY <2>2 DEF OldsFit
  <2> QED BY <2>1, <2>2
<1>4. /\ shown \in Seq(Nat) /\ Len(shown) = Len(items)
      /\ \A i \in 1..Len(items) : shown[i] = content[i] \/ shown[i] = new
  <2>1. CASE scrolls
    <3>1. p \in 1..Len(content)
      BY <1>1, <2>1
    <3> QED BY <1>1, <2>1, <3>1 DEF SetContent
  <2>2. CASE ~scrolls
    BY <1>1, <2>2
  <2> QED BY <2>1, <2>2
<1>5. deleted \subseteq 1..Len(items)
  BY DEF Registry!Inside, Registry!Reached, Registry!Created
<1> HIDE DEF its, shown, deleted
<1>6. ItemsGrow(k, new, item)
  <2>1. /\ items' \in Seq(Registry(k)!Item) /\ Len(items') = new /\ items'[new] = item
        /\ \A i \in 1..Len(items) : items'[i] = its[i]
    BY <1>1, <1>2, <1>3
  <2> QED BY <1>3, <2>1 DEF ItemsGrow
<1>7. WidgetsGrow(new, item)
  <2>1. /\ content' \in Seq(Nat) /\ Len(content') = new /\ content'[new] = 0
        /\ \A i \in 1..Len(items) : content'[i] = shown[i]
    BY <1>1, <1>2, <1>4
  <2> QED BY <1>2, <1>4, <2>1 DEF WidgetsGrow
<1> QED BY <1>6, <1>7

\* A control that is new has what its creation gives it.
LEMMA NewItemFits ==
  ASSUME NEW k \in Registries, RegistrySound(k), NEW id \in Registry(k)!NextIds, NEW type \in k.types,
         NEW p \in 0..Len(items)
  PROVE  /\ NewFits(k, Registry(k)!NewItem(id, type, p))
         /\ Registry(k)!NewItem(id, type, p).id = id /\ Registry(k)!NewItem(id, type, p).type = type
         /\ Registry(k)!NewItem(id, type, p).made = p
<1>1. Len(items) \in Nat
  BY NamedAreKnown DEF RegistrySound
<1>2. id \in k.ids /\ registry[id] = 0
  BY DEF Registry!NextIds
<1> DEFINE item == Registry(k)!NewItem(id, type, p)
           ptr == type # "adjustment"
<1>3. item = [id |-> id, type |-> type, ptr |-> ptr, visible |-> FALSE, parent |-> p, adj |-> 0,
              hadj |-> 0, bar |-> Registry(k)!NoBar, child |-> 0, friend |-> 0, flags |-> FALSE,
              made |-> p, asked |-> {}]
  BY Zenon DEF Registry!NewItem
<1>4. Registry(k)!NoBar \in Registry(k)!Bar /\ ptr \in BOOLEAN /\ p \in Nat
  BY <1>1 DEF Registry!NoBar, Registry!Bar
<1> HIDE DEF item, ptr
<1>5. /\ item \in Registry(k)!Item /\ item.id = id /\ item.type = type /\ item.ptr = ptr /\ item.parent = p
      /\ item.adj = 0 /\ item.hadj = 0 /\ item.bar = Registry(k)!NoBar /\ item.child = 0 /\ item.friend = 0
      /\ item.made = p
  BY <1>2, <1>3, <1>4 DEF Registry!Item
<1>6. NewFits(k, item)
  <2>1. p <= Len(items)
    BY <1>1
  <2>2. item.ptr <=> item.type # "adjustment"
    BY <1>5, Zenon DEF ptr
  <2> QED BY <1>2, <1>5, <2>1, <2>2 DEF NewFits
<1> QED BY <1>5, <1>6 DEF item, ptr

\* What controls are created in is known, and not an edit.
LEMMA ContainersAreKnown ==
  ASSUME NEW k \in Registries, RegistrySound(k), NEW p \in Registry(k)!Containers \cup {0}
  PROVE  /\ p \in 0..Len(items)
         /\ p # 0 => p \in 1..Len(items) /\ items[p].ptr /\ items[p].type \notin {"edit", "scrollbar", "adjustment"}
<1>1. CASE p = 0
  BY <1>1, NamedAreKnown DEF RegistrySound
<1>2. CASE p # 0
  <2>1. p \in Registry(k)!Named /\ items[p].type \in k.parents
    BY <1>2 DEF Registry!Containers
  <2>2. items[p].type \notin {"edit", "scrollbar", "adjustment"}
    BY <2>1, RegistryConstants
  <2>3. p \in 1..Len(items) /\ items[p].ptr
    BY <2>1, <2>2, NamedHasPointer
  <2> QED BY <2>2, <2>3
<1> QED BY <1>1, <1>2

\* Items as they are.
LEMMA ItemsFit ==
  ASSUME NEW k \in Registries, RegistrySound(k), NEW new, new = Len(items) + 1
  PROVE  OldsFit(k, new, items)
<1>1. /\ items \in Seq(Registry(k)!Item) /\ Len(items) \in Nat
      /\ \A i \in 1..Len(items) : items[i] \in Registry(k)!Item
  BY NamedAreKnown DEF RegistrySound, RegistryTypes
<1>2. \A i \in 1..Len(items) : items[i].parent \in Nat /\ items[i].parent <= Len(items)
  BY <1>1, ItemFields DEF RegistrySound, LinksFit
<1> QED BY <1>1, <1>2 DEF OldsFit, Likeness, SameNature

\* A control is put in its parent and in the maps.
LEMMA PlacedIsSound ==
  ASSUME NEW k \in Registries, RegistrySound(k), Len(items) < k.max, NEW item, NewFits(k, item),
         item.type # "adjustment", NEW p \in 0..Len(items), NEW pwidget \in 0..Len(items),
         pwidget # 0 => items[pwidget].type # "edit",
         NEW olds, NEW new, new = Len(items) + 1, OldsFit(k, new, olds),
         Registry(k)!Register(item, pwidget), Registry(k)!Place(item, p, olds), UNCHANGED listens
  PROVE  RegistrySound(k)'
<1>1. item \in Registry(k)!Item
  BY DEF NewFits
<1>2. ItemsGrow(k, new, item) /\ WidgetsGrow(new, item)
  BY <1>1, PlaceGrows
<1>3. MapsGrow(k, new, item, pwidget)
  BY DEF MapsGrow, Registry!Register
<1>4. new <= k.max
  BY NamedAreKnown, RegistryConstants DEF RegistrySound
<1> QED BY <1>2, <1>3, <1>4, GrownIsSound

\* Boxes, buttons, expanders, scrolled windows, trees and edits.
LEMMA CreateInIsSound ==
  ASSUME NEW k \in Registries, RegistrySound(k), fault = Registry(k)!NoFault, NEW id \in Registry(k)!NextIds,
         NEW type, type # "adjustment", NEW p \in Registry(k)!Containers \cup {0}, Registry(k)!CreateIn(id, type, p)
  PROVE  RegistryInv(k)'
<1> DEFINE follows == Registry(k)!Following(p, "name")
           f == IF p = 0 THEN Registry(k)!NoFault ELSE follows
           item == Registry(k)!NewItem(id, type, p)
<1>1. /\ type \in k.types /\ Len(items) < k.max
      /\ \/ Registry(k)!Fails(f)
         \/ /\ Registry(k)!Works(f) /\ Registry(k)!Register(item, p) /\ Registry(k)!Place(item, p, items)
            /\ UNCHANGED listens
  BY DEF Registry!CreateIn
<1>2. /\ p \in 0..Len(items)
      /\ p # 0 => p \in 1..Len(items) /\ items[p].ptr /\ items[p].type # "edit"
  BY ContainersAreKnown
<1>3. Explained(k, f)
  <2>1. p # 0 => Explained(k, follows)
    BY <1>2, FollowedIsExplained
  <2>2. Explained(k, Registry(k)!NoFault)
    BY NoFaultIsExplained
  <2> HIDE DEF follows
  <2> QED BY <2>1, <2>2
<1>4. NewFits(k, item) /\ item.type = type
  BY <1>1, <1>2, NewItemFits
<1> HIDE DEF f, item
<1>5. CASE Registry(k)!Fails(f)
  BY <1>3, <1>5, FailedIsSound
<1>6. CASE /\ Registry(k)!Works(f) /\ Registry(k)!Register(item, p) /\ Registry(k)!Place(item, p, items)
           /\ UNCHANGED listens
  <2> DEFINE new == Len(items) + 1
  <2>1. OldsFit(k, new, items)
    BY ItemsFit
  <2>2. item.type # "adjustment" /\ (p # 0 => items[p].type # "edit")
    BY <1>2, <1>4
  <2>3. RegistrySound(k)'
    BY <1>1, <1>2, <1>4, <1>6, <2>1, <2>2, PlacedIsSound
  <2>4. fault' = Registry(k)!NoFault
    BY <1>6 DEF Registry!Works
  <2> QED BY <2>3, <2>4, WorkedIsSound
<1> QED BY <1>1, <1>5, <1>6

\* Forms: the one above is among the controls.
LEMMA FormsAreForms ==
  ASSUME NEW k \in Registries, RegistrySound(k), NEW p
  PROVE  Registry(k)!FormOf(p) = 0 \/ (Registry(k)!FormOf(p) \in 1..Len(items) /\ items[Registry(k)!FormOf(p)].type = "form")
<1> DEFINE forms == {a \in Registry(k)!Created :
                       items[a].type = "form" /\ p \in Registry(k)!Reached(a, [y \in Registry(k)!Created |-> items[y].parent])}
           last == CHOOSE a \in forms : \A b \in forms : b <= a
<1>1. Registry(k)!FormOf(p) = IF forms = {} THEN 0 ELSE last
  BY DEF Registry!FormOf
<1>2. Len(items) \in Nat /\ forms \subseteq 1..Len(items) /\ \A a \in forms : items[a].type = "form"
  BY NamedAreKnown DEF RegistrySound
<1> HIDE DEF forms
<1>3. ASSUME forms # {} PROVE last \in forms
  <2> DEFINE gaps == {Len(items) - a : a \in forms}
  <2>1. gaps \in SUBSET Nat /\ gaps # {}
    <3>1. ASSUME NEW a \in forms PROVE Len(items) - a \in Nat
      <4>1. a \in 1..Len(items)
        BY <1>2
      <4> QED BY <1>2, <4>1
    <3> QED BY <1>3, <3>1
  <2> HIDE DEF gaps
  <2>2. PICK gap \in gaps : \A other \in gaps : gap <= other
    BY <2>1, LeastOne
  <2>3. PICK a \in forms : gap = Len(items) - a
    BY <2>2 DEF gaps
  <2>4. \A b \in forms : b <= a
    <3>1. ASSUME NEW b \in forms PROVE b <= a
      <4>1. Len(items) - a <= Len(items) - b
        BY <2>2, <2>3 DEF gaps
      <4> QED BY <1>2, <4>1
    <3> QED BY <3>1
  <2> QED BY <2>4
<1> HIDE DEF last
<1> QED BY <1>1, <1>2, <1>3

\* Forms: the one above may have been disposed, and is then left out.
LEMMA CreateFormIsSound ==
  ASSUME NEW k \in Registries, RegistrySound(k), fault = Registry(k)!NoFault, NEW id \in Registry(k)!NextIds,
         NEW p \in Registry(k)!Containers \cup {0}, Registry(k)!CreateForm(id, p)
  PROVE  RegistryInv(k)'
<1> DEFINE above == Registry(k)!FormOf(p)
           pwidget == IF above # 0 /\ items[above].ptr THEN above ELSE 0
           follows == Registry(k)!Following(pwidget, "parent")
           f == IF pwidget = 0 THEN Registry(k)!NoFault ELSE follows
           item == Registry(k)!NewItem(id, "form", p)
<1>1. /\ "form" \in k.types /\ Len(items) < k.max
      /\ \/ Registry(k)!Fails(f)
         \/ /\ Registry(k)!Works(f) /\ Registry(k)!Register(item, pwidget) /\ Registry(k)!Place(item, 0, items)
            /\ UNCHANGED listens
  BY DEF Registry!CreateForm
<1>2. p \in 0..Len(items) /\ 0 \in 0..Len(items) /\ Len(items) \in Nat
  BY ContainersAreKnown, NamedAreKnown DEF RegistrySound
<1>3. /\ pwidget \in 0..Len(items)
      /\ pwidget # 0 => pwidget \in 1..Len(items) /\ items[pwidget].ptr /\ items[pwidget].type # "edit"
  <2>1. above = 0 \/ (above \in 1..Len(items) /\ items[above].type = "form")
    BY FormsAreForms
  <2> HIDE DEF above
  <2> QED BY <1>2, <2>1
<1> HIDE DEF pwidget
<1>4. Explained(k, f)
  <2>1. pwidget # 0 => Explained(k, follows)
    BY <1>3, FollowedIsExplained
  <2>2. Explained(k, Registry(k)!NoFault)
    BY NoFaultIsExplained
  <2> HIDE DEF follows
  <2> QED BY <2>1, <2>2
<1>5. NewFits(k, item) /\ item.type = "form"
  BY <1>1, <1>2, NewItemFits
<1> HIDE DEF f, item
<1>6. CASE Registry(k)!Fails(f)
  BY <1>4, <1>6, FailedIsSound
<1>7. CASE /\ Registry(k)!Works(f) /\ Registry(k)!Register(item, pwidget) /\ Registry(k)!Place(item, 0, items)
           /\ UNCHANGED listens
  <2> DEFINE new == Len(items) + 1
  <2>1. OldsFit(k, new, items)
    BY ItemsFit
  <2>2. item.type # "adjustment" /\ (pwidget # 0 => items[pwidget].type # "edit")
    BY <1>3, <1>5
  <2>3. RegistrySound(k)'
    BY <1>1, <1>2, <1>3, <1>5, <1>7, <2>1, <2>2, PlacedIsSound
  <2>4. fault' = Registry(k)!NoFault
    BY <1>7 DEF Registry!Works
  <2> QED BY <2>3, <2>4, WorkedIsSound
<1> QED BY <1>1, <1>6, <1>7

PutAdjs(r, v, h) == [r EXCEPT !.adj = v, !.hadj = h]

\* Scroll bars: the adjustment gets a parent, and no bar.
LEMMA CreateScrollbarIsSound ==
  ASSUME NEW k \in Registries, RegistrySound(k), fault = Registry(k)!NoFault, NEW id \in Registry(k)!NextIds,
         NEW p \in Registry(k)!Containers \cup {0}, NEW a \in k.ids \cup {0}, NEW horizontal \in BOOLEAN,
         Registry(k)!CreateScrollbar(id, p, a, horizontal)
  PROVE  RegistryInv(k)'
<1> DEFINE follows == Registry(k)!Following(p, "name")
           f == IF p = 0 THEN Registry(k)!NoFault ELSE follows
           made == Registry(k)!NewItem(id, "scrollbar", p)
           v == IF horizontal THEN 0 ELSE a
           h == IF horizontal THEN a ELSE 0
           item == PutAdjs(made, v, h)
           new == Len(items) + 1
           olds == IF a = 0 THEN items ELSE SetParentOf(items, registry[a], new)
<1>1. /\ "scrollbar" \in k.types /\ Len(items) < k.max
      /\ a # 0 => registry[a] # 0
      /\ \/ Registry(k)!Fails(f)
         \/ /\ Registry(k)!Works(f) /\ Registry(k)!Register(item, p) /\ Registry(k)!Place(item, p, olds)
            /\ UNCHANGED listens
  BY Zenon DEF Registry!CreateScrollbar, PutAdjs, SetParentOf
<1>2. /\ p \in 0..Len(items)
      /\ p # 0 => p \in 1..Len(items) /\ items[p].ptr /\ items[p].type # "edit"
  BY ContainersAreKnown
<1>3. Len(items) \in Nat /\ new \in Nat /\ k.ids \subseteq Nat
  BY NamedAreKnown, RegistryConstants DEF RegistrySound
<1>4. Explained(k, f)
  <2>1. p # 0 => Explained(k, follows)
    BY <1>2, FollowedIsExplained
  <2>2. Explained(k, Registry(k)!NoFault)
    BY NoFaultIsExplained
  <2> HIDE DEF follows
  <2> QED BY <2>1, <2>2
<1>5. NewFits(k, item) /\ item.type = "scrollbar"
  <2>1. NewFits(k, made) /\ made.type = "scrollbar"
    BY <1>1, <1>2, NewItemFits
  <2>2. v \in Nat /\ h \in Nat
    BY <1>3
  <2> HIDE DEF made, v, h
  <2>3. made \in Registry(k)!Item
    BY <2>1 DEF NewFits
  <2>4. /\ item \in Registry(k)!Item /\ SameNature(item, made) /\ item.ptr = made.ptr /\ item.bar = made.bar
        /\ item.parent = made.parent /\ item.friend = made.friend /\ item.child = made.child
    BY <2>2, <2>3 DEF PutAdjs, Registry!Item, SameNature
  <2> HIDE DEF item
  <2> QED BY <2>1, <2>4 DEF NewFits, SameNature
<1>6. OldsFit(k, new, olds)
  <2>1. CASE a = 0
    <3>1. olds = items
      BY <2>1
    <3> QED BY <3>1, ItemsFit
  <2>2. CASE a # 0
    <3> DEFINE i == registry[a]
               x == PutParent(items[i], new)
    <3>1. i \in 1..Len(items) /\ items[i] \in Registry(k)!Item /\ items \in Seq(Registry(k)!Item)
      <4>1. i \in 1..Len(items)
        BY <1>1, <2>2 DEF RegistrySound, IdsFit
      <4> QED BY <4>1, NamedAreKnown DEF RegistrySound, RegistryTypes
    <3>2. /\ x \in Registry(k)!Item /\ Likeness(x, items[i]) /\ x.parent = new
          /\ x.child = items[i].child /\ x.adj = items[i].adj /\ x.hadj = items[i].hadj
      BY <1>3, <3>1 DEF PutParent, Registry!Item, Likeness, SameNature
    <3>3. SetParentOf(items, i, new) = PutItem(items, i, x)
      BY Zenon DEF SetParentOf, PutItem, PutParent
    <3> HIDE DEF x
    <3>4. PutItem(items, i, x) \in Seq(Registry(k)!Item) /\ Rewritten(PutItem(items, i, x), items, i, x)
      BY <3>1, <3>2, ItemIsWritten
    <3>5. olds = PutItem(items, i, x)
      BY <2>2, <3>3
    <3> HIDE DEF olds, i
    <3>6. /\ olds \in Seq(Registry(k)!Item) /\ Len(olds) = Len(items)
          /\ olds[i] = x /\ \A j \in 1..Len(items) : j # i => olds[j] = items[j]
      BY <3>4, <3>5 DEF Rewritten
    <3>7. OldsFit(k, new, items)
      BY ItemsFit
    <3> HIDE DEF new
    <3>8. new <= new
      BY <1>3
    <3> QED BY <3>1, <3>2, <3>6, <3>7, <3>8 DEF OldsFit, Likeness, SameNature
  <2> QED BY <2>1, <2>2
<1> HIDE DEF f, item, olds
<1>7. CASE Registry(k)!Fails(f)
  BY <1>4, <1>7, FailedIsSound
<1>8. CASE /\ Registry(k)!Works(f) /\ Registry(k)!Register(item, p) /\ Registry(k)!Place(item, p, olds)
           /\ UNCHANGED listens
  <2>1. item.type # "adjustment" /\ (p # 0 => items[p].type # "edit")
    BY <1>2, <1>5
  <2>2. RegistrySound(k)'
    BY <1>1, <1>2, <1>5, <1>6, <1>8, <2>1, PlacedIsSound
  <2>3. fault' = Registry(k)!NoFault
    BY <1>8 DEF Registry!Works
  <2> QED BY <2>2, <2>3, WorkedIsSound
<1> QED BY <1>1, <1>7, <1>8

\* Adjustments: the control they are created in has them for the vertical axis.
LEMMA CreateAdjustmentIsSound ==
  ASSUME NEW k \in Registries, RegistrySound(k), fault = Registry(k)!NoFault, NEW id \in Registry(k)!NextIds,
         NEW p \in Registry(k)!Containers \cup {0}, Registry(k)!CreateAdjustment(id, p)
  PROVE  RegistryInv(k)'
<1> DEFINE item == Registry(k)!NewItem(id, "adjustment", p)
           new == Len(items) + 1
           its == IF p = 0 THEN items ELSE SetAdj(items, p, id)
<1>1. /\ "adjustment" \in k.types /\ Len(items) < k.max
      /\ Registry(k)!Register(item, 0)
      /\ items' = Append(its, item)
      /\ content' = Append(content, 0)
      /\ UNCHANGED <<widgets, listens, fault, dropped>>
  BY Zenon DEF Registry!CreateAdjustment, SetAdj
<1>2. /\ p \in 0..Len(items)
      /\ p # 0 => p \in 1..Len(items)
  BY ContainersAreKnown
<1>3. /\ Len(items) \in Nat /\ new \in Nat /\ new <= k.max /\ id \in Nat /\ 0 \in 0..Len(items)
      /\ items \in Seq(Registry(k)!Item) /\ content \in Seq(Nat) /\ Len(content) = Len(items)
  <2>1. id \in k.ids /\ k.ids \subseteq Nat /\ k.max \in Nat
    BY RegistryConstants DEF Registry!NextIds
  <2>2. Len(items) \in Nat
    BY NamedAreKnown DEF RegistrySound
  <2> QED BY <1>1, <2>1, <2>2 DEF RegistrySound, RegistryTypes
<1>4. NewFits(k, item) /\ item.type = "adjustment" /\ item.id = id /\ item.made = p
  BY <1>1, <1>2, NewItemFits
<1>5. item \in Registry(k)!Item
  BY <1>4 DEF NewFits
<1>6. OldsFit(k, new, items)
  BY ItemsFit
<1> HIDE DEF item
<1>7. /\ its \in Seq(Registry(k)!Item) /\ Len(its) = Len(items)
      /\ \A i \in 1..Len(items) :
           /\ Likeness(its[i], items[i]) /\ its[i].parent <= new /\ its[i].child = items[i].child
           /\ its[i].adj = items[i].adj \/ (its[i].adj = id /\ p # 0)
           /\ its[i].hadj = items[i].hadj
  <2>1. CASE p = 0
    BY <1>3, <1>6, <2>1 DEF OldsFit
  <2>2. CASE p # 0
    <3> DEFINE x == PutAdj(items[p], id)
    <3>1. p \in 1..Len(items) /\ items[p] \in Registry(k)!Item
      BY <1>2, <1>3, <2>2, ElementOfSeq
    <3>2. /\ x \in Registry(k)!Item /\ Likeness(x, items[p]) /\ x.adj = id
          /\ x.parent = items[p].parent /\ x.child = items[p].child /\ x.hadj = items[p].hadj
      BY <1>3, <3>1 DEF PutAdj, Registry!Item, Likeness, SameNature
    <3>3. SetAdj(items, p, id) = PutItem(items, p, x)
      BY Zenon DEF SetAdj, PutItem, PutAdj
    <3> HIDE DEF x
    <3>4. PutItem(items, p, x) \in Seq(Registry(k)!Item) /\ Rewritten(PutItem(items, p, x), items, p, x)
      BY <1>3, <3>1, <3>2, ItemIsWritten
    <3>5. its = PutItem(items, p, x)
      BY <2>2, <3>3
    <3> HIDE DEF its, new
    <3>6. /\ its \in Seq(Registry(k)!Item) /\ Len(its) = Len(items)
          /\ its[p] = x /\ \A j \in 1..Len(items) : j # p => its[j] = items[j]
      BY <3>4, <3>5 DEF Rewritten
    <3> QED BY <1>6, <2>2, <3>1, <3>2, <3>6 DEF OldsFit, Likeness, SameNature
  <2> QED BY <2>1, <2>2
<1> HIDE DEF its
<1>8. ItemsGrow(k, new, item)
  <2>1. /\ items' \in Seq(Registry(k)!Item) /\ Len(items') = new /\ items'[new] = item
        /\ \A i \in 1..Len(items) : items'[i] = its[i]
    BY <1>1, <1>3, <1>5, <1>7
  <2> QED BY <1>4, <1>7, <2>1 DEF ItemsGrow
<1>9. MapsGrow(k, new, item, 0)
  BY <1>1, <1>3 DEF MapsGrow, Registry!Register
<1>10. WidgetsGrow(new, item)
  <2>1. /\ content' \in Seq(Nat) /\ Len(content') = new /\ content'[new] = 0
        /\ \A i \in 1..Len(items) : content'[i] = content[i]
    BY <1>1, <1>3
  <2> QED BY <1>1, <1>4, <2>1 DEF WidgetsGrow
<1>11. RegistrySound(k)'
  <2> HIDE DEF new
  <2>1. new = Len(items) + 1
    BY DEF new
  <2> QED BY <1>3, <1>4, <1>8, <1>9, <1>10, <2>1, GrownIsSound
<1>12. fault' = Registry(k)!NoFault
  BY <1>1
<1> QED BY <1>11, <1>12, WorkedIsSound

-----------------------------------------------------------------------------
(* Controls: the theorems *)

\* There are no controls at first.
LEMMA RegistryBegins ==
  ASSUME NEW k \in Registries, Registry(k)!Init
  PROVE  RegistryInv(k)
<1>1. k.max \in Nat
  BY RegistryConstants
<1>2. /\ items = <<>> /\ registry = [id \in k.ids |-> 0] /\ reversed = {} /\ widgets = {}
      /\ within = <<>> /\ content = <<>> /\ listens = {} /\ fault = Registry(k)!NoFault /\ dropped = {}
  BY DEF Registry!Init
<1>3. Len(items) = 0 /\ 1..Len(items) = {} /\ items \in Seq(Registry(k)!Item) /\ within \in Seq(Nat) /\ content \in Seq(Nat)
  BY <1>2, EmptySeq
<1>4. RegistryTypes(k)
  BY <1>1, <1>2, <1>3 DEF RegistryTypes
<1>5. IdsFit(k) /\ WidgetsFit /\ PointersFit(k) /\ BarsFit(k) /\ GoneForAReason
  BY <1>2, <1>3 DEF IdsFit, WidgetsFit, PointersFit, BarsFit, GoneForAReason
<1>6. LinksFit /\ AskedFor /\ TreesListen /\ BarsMeant
  BY <1>2, <1>3 DEF LinksFit, AskedFor, TreesListen, BarsMeant
<1>7. Explained(k, fault)
  BY <1>2, NoFaultIsExplained
<1> QED BY <1>4, <1>5, <1>6, <1>7 DEF RegistryInv, RegistrySound

\* Every handler keeps the invariant.
LEMMA RegistryStep ==
  ASSUME NEW k \in Registries, RegistryInv(k), Registry(k)!Next
  PROVE  RegistryInv(k)'
<1>1. RegistrySound(k) /\ fault = Registry(k)!NoFault
  BY DEF RegistryInv, Registry!Next
<1>2. ASSUME NEW id \in Registry(k)!NextIds, NEW p \in Registry(k)!Containers \cup {0},
             \/ Registry(k)!CreateBox(id, p) \/ Registry(k)!CreateButton(id, p) \/ Registry(k)!CreateExpander(id, p)
             \/ Registry(k)!CreateScrolled(id, p) \/ Registry(k)!CreateTree(id, p) \/ Registry(k)!CreateEdit(id, p)
      PROVE  RegistryInv(k)'
  <2>1. \E type : type # "adjustment" /\ Registry(k)!CreateIn(id, type, p)
    BY <1>2 DEF Registry!CreateBox, Registry!CreateButton, Registry!CreateExpander, Registry!CreateScrolled,
                Registry!CreateTree, Registry!CreateEdit
  <2> QED BY <1>1, <2>1, CreateInIsSound
<1>3. ASSUME NEW id \in Registry(k)!NextIds, NEW p \in Registry(k)!Containers \cup {0}, Registry(k)!CreateForm(id, p)
      PROVE  RegistryInv(k)'
  BY <1>1, <1>3, CreateFormIsSound
<1>4. ASSUME NEW id \in Registry(k)!NextIds, NEW p \in Registry(k)!Containers \cup {0},
             Registry(k)!CreateAdjustment(id, p)
      PROVE  RegistryInv(k)'
  BY <1>1, <1>4, CreateAdjustmentIsSound
<1>5. ASSUME NEW id \in Registry(k)!NextIds, NEW p \in Registry(k)!Containers \cup {0}, NEW a \in k.ids \cup {0},
             NEW horizontal \in BOOLEAN, Registry(k)!CreateScrollbar(id, p, a, horizontal)
      PROVE  RegistryInv(k)'
  BY <1>1, <1>5, CreateScrollbarIsSound
<1>6. ASSUME NEW i \in Registry(k)!Named, NEW j, NEW axis \in k.axes, Registry(k)!SetAdjustmentOf(i, j, axis)
      PROVE  RegistryInv(k)'
  BY <1>1, <1>6, SetAdjustmentIsSound
<1>7. ASSUME NEW i \in Registry(k)!Named, NEW j, Registry(k)!SetParent(i, j) PROVE RegistryInv(k)'
  BY <1>1, <1>7, SetParentIsSound
<1>8. ASSUME NEW i \in Registry(k)!Named, NEW j, Registry(k)!SetSearch(i, j) PROVE RegistryInv(k)'
  BY <1>1, <1>8, SetSearchIsSound
<1>9. ASSUME NEW i \in Registry(k)!Named, Registry(k)!SetRange(i) PROVE RegistryInv(k)'
  BY <1>1, <1>9, SetRangeIsSound
<1>10. ASSUME NEW i \in Registry(k)!Named, Registry(k)!SetPacking(i) PROVE RegistryInv(k)'
  BY <1>1, <1>10, SetPackingIsSound
<1>11. ASSUME NEW i \in Registry(k)!Named, Registry(k)!SetPosition(i) PROVE RegistryInv(k)'
  BY <1>1, <1>11, SetPositionIsSound
<1>12. ASSUME NEW i \in Registry(k)!Named, Registry(k)!DisposeControl(i) PROVE RegistryInv(k)'
  BY <1>1, <1>12, DisposeControlIsSound
<1>13. ASSUME NEW i, Registry(k)!TypeText(i) PROVE RegistryInv(k)'
  BY <1>1, <1>13, TypeTextIsSound
<1>14. ASSUME NEW i, Registry(k)!KeyDown(i) PROVE RegistryInv(k)'
  BY <1>1, <1>14, KeyDownIsSound
<1>15. ASSUME NEW i, NEW id \in k.ids, Registry(k)!SetDefault(i, id) PROVE RegistryInv(k)'
  BY <1>1, <1>15, SetDefaultIsSound
<1>16. ASSUME NEW i \in Registry(k)!Named, NEW shown \in BOOLEAN, Registry(k)!SetVisible(i, shown)
       PROVE  RegistryInv(k)'
  BY <1>1, <1>16, SetVisibleIsSound
<1>17. ASSUME NEW b \in Registry(k)!Created, Registry(k)!SizeHint(b) PROVE RegistryInv(k)'
  BY <1>1, <1>17, SizeHintIsSound
<1> QED BY <1>2, <1>3, <1>4, <1>5, <1>6, <1>7, <1>8, <1>9, <1>10, <1>11, <1>12, <1>13, <1>14, <1>15, <1>16, <1>17
        DEF Registry!Next

RegistriesInv == \A k \in Registries : part = k.name => RegistryInv(k)

\* The registry that moves keeps its invariant.
LEMMA RegistriesInvAlways == PartsSpec => []RegistriesInv
<1>1. PartsInit => RegistriesInv
  <2> SUFFICES ASSUME PartsInit, NEW k \in Registries, part = k.name PROVE RegistryInv(k)
    BY DEF RegistriesInv
  <2>1. PICK l \in Registries : part = l.name /\ Registry(l)!Init
    BY Zenon DEF PartsInit, Part
  <2>2. l = k
    BY <2>1, OnePart
  <2>3. Registry(k)!Init
    BY <2>1, <2>2
  <2> QED BY <2>3, RegistryBegins
<1>2. RegistriesInv /\ [PartsNext]_parts => RegistriesInv'
  <2> SUFFICES ASSUME RegistriesInv, [PartsNext]_parts, NEW k \in Registries, part' = k.name PROVE RegistryInv(k)'
    BY DEF RegistriesInv
  <2>1. part = k.name /\ RegistryInv(k)
    BY DEF RegistriesInv, PartsNext, parts
  <2>2. CASE UNCHANGED registering
    BY <2>1, <2>2, RegistryStays
  <2>3. CASE \E l \in Registries : part = l.name /\ Registry(l)!Next
    <3>1. PICK l \in Registries : part = l.name /\ Registry(l)!Next
      BY <2>3
    <3>2. l = k
      BY <2>1, <3>1, OnePart
    <3>3. Registry(k)!Next
      BY <3>1, <3>2
    <3> QED BY <2>1, <3>3, RegistryStep
  <2> QED BY <2>2, <2>3 DEF PartsNext, parts
<1> QED BY <1>1, <1>2, PTL DEF PartsSpec

\* For every kind of registry, with any IDs, kinds of controls and number of them: the two maps of controls
\* agree, and a pointer to nothing is followed only for the reasons of FaultIsExplained
\* (CreateControl, SetProperty, SetAdjustment, Dispose).
THEOREM ControlsAlwaysSound == PartsSpec => []ControlsAreSound
<1>1. RegistriesInv => ControlsAreSound
  <2> SUFFICES ASSUME NEW k \in Registries, RegistryInv(k)
               PROVE  Registry(k)!TypeOK /\ Registry(k)!MapsAgree /\ Registry(k)!FaultIsExplained
    BY DEF RegistriesInv, ControlsAreSound
  <2>1. RegistrySound(k) /\ Explained(k, fault)
    BY DEF RegistryInv
  <2>2. /\ Registry(k)!Created = 1..Len(items)
        /\ Registry(k)!Named = {i \in 1..Len(items) : Known(i)}
    BY <2>1, NamedAreKnown DEF RegistrySound
  <2>3. Registry(k)!TypeOK
    BY <2>1, <2>2 DEF RegistrySound, RegistryTypes, Registry!TypeOK
  <2>4. Registry(k)!MapsAgree
    <3>1. \A i \in Registry(k)!Named : registry[items[i].id] = i
      BY <2>2 DEF Known
    <3>2. \A i \in reversed : i \in Registry(k)!Named /\ items[i].ptr
      BY <2>1, <2>2 DEF RegistrySound, RegistryTypes, WidgetsFit
    <3>3. \A i \in Registry(k)!Named : items[i].ptr /\ items[i].type # "adjustment" =>
            i \in reversed
            \/ (items[i].type = "scrollbar" /\ \E a \in Registry(k)!Created \ Registry(k)!Named : items[a].type = "adjustment")
      BY <2>1, <2>2 DEF RegistrySound, WidgetsFit
    <3> QED BY <3>1, <3>2, <3>3 DEF Registry!MapsAgree
  <2>5. Registry(k)!FaultIsExplained
    BY <2>1, <2>2 DEF Explained, NullFor, Registry!FaultIsExplained
  <2> QED BY <2>3, <2>4, <2>5
<1> QED BY <1>1, RegistriesInvAlways, PTL

\* For every kind of registry: an adjustment moves the bar that was asked for, with the exceptions of Controls
\* (SetAdjustment).
THEOREM AdjustmentsAlwaysMoveTheirBar == PartsSpec => []AdjustmentsMoveTheirBar
<1>1. RegistriesInv => AdjustmentsMoveTheirBar
  <2> SUFFICES ASSUME NEW k \in Registries, RegistryInv(k) PROVE Registry(k)!AdjustmentsMoveTheirBar
    BY DEF RegistriesInv, AdjustmentsMoveTheirBar
  <2>1. RegistrySound(k)
    BY DEF RegistryInv
  <2>2. /\ Registry(k)!Created = 1..Len(items)
        /\ Registry(k)!Named = {i \in 1..Len(items) : Known(i)}
    BY <2>1, NamedAreKnown DEF RegistrySound
  <2> SUFFICES ASSUME NEW a \in 1..Len(items), items[a].bar.axis \in {"h", "v"}
               PROVE  /\ \E d \in 1..Len(items) :
                           /\ items[d].id = items[a].id
                           /\ items[a].bar.axis \in items[d].asked \/ (items[a].bar.axis = "v" /\ items[d].made # 0)
                      /\ items[items[a].bar.of].type = "scrolled" =>
                           LET c == content[items[a].bar.of] IN
                             c \in widgets /\ items[c].type = "tree" /\ c \in Registry(k)!Named => c > items[a].bar.since
    BY <2>2 DEF Registry!AdjustmentsMoveTheirBar
  <2>3. BarAsked(a) /\ TreeCameLater(a, content[items[a].bar.of])
    BY <2>1 DEF RegistrySound, BarsMeant
  <2> QED BY <2>2, <2>3 DEF BarAsked, TreeCameLater
<1> QED BY <1>1, RegistriesInvAlways, PTL
=============================================================================
